-------------------------- MODULE ActionGateLedger --------------------------
(***************************************************************************)
(* ActionGate implements SendLedger, when every user waits for an answer   *)
(* before the next turn and the store answers: the mapping reads the state *)
(* of each proposal off the rows and the turns.                            *)
(***************************************************************************)
EXTENDS ActionGate

\* Turn r has taken a out of the store (or, in single-turn mode, never put it
\* there) and has not executed it yet.
Claims(r, a) ==
    /\ acting[r] = a
    /\ pc[r] \in {"check", "cap", "release", "send"}
    /\ r = a => ~settings.confirming

\* The turn a may still propose something.
Undecided(a) ==
    \/ pc[a] \in {"idle", "load", "expire", "clear", "discard", "generate"}
    \/ settings.confirming /\ acting[a] = a /\ pc[a] \in {"check", "stage"}

Delivered(a) == {s \in sent : s[1] = a}

StatusOf(a) ==
    IF Delivered(a) # {} THEN "closed"
    ELSE IF \E r \in Requests : Claims(r, a) THEN "claimed"
    ELSE IF pending[Owner[a]] = a THEN "staged"
    ELSE IF Undecided(a) THEN "new" ELSE "closed"

Ledger == INSTANCE SendLedger WITH
    Actions    <- Requests,
    status     <- [a \in Requests |-> StatusOf(a)],
    deliveries <- [a \in Requests |-> Cardinality(Delivered(a))]

\* Every proposal of the code follows the life cycle of SendLedger: staged at
\* most once, claimed by one turn, delivered at most once, closed for good
\* (session_service.py 237-284, 342-380).
ImplementsLedger == Ledger!Spec

\* No claimed action is left in limbo, whatever overlaps and whichever statement
\* fails: the turn that deleted the row executes, refuses or fails
\* (session_service.py 241-272).
LedgerSettles == Ledger!ClaimsSettle
=============================================================================
