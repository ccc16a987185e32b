---------------------------- MODULE MCActionGate ----------------------------
\* Small instances of ActionGate.
EXTENDS ActionGateLedger, ActionGateInvariants, TLC

CONSTANTS u1, u2, r1, r2, r3, r4

OneUser == {u1}
TwoTurns == {r1, r2}
ThreeTurns == {r1, r2, r3}

\* All turns in one session.
SoleOwner == [r \in Requests |-> u1]

\* Sending on for u1 with and without confirmation, and switched off.
AllDeployments ==
    {[allowed |-> {u1}, confirming |-> TRUE], [allowed |-> {u1}, confirming |-> FALSE],
     [allowed |-> {}, confirming |-> TRUE]}

\* Bound: the hour, the process and Redis change once between them.
OneChange == window + crashes + losses <= 1

\* Turns of a session are interchangeable where Owner is constant.
TurnSymmetry == Permutations(Requests)
=============================================================================
