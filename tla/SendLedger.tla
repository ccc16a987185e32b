----------------------------- MODULE SendLedger -----------------------------
(***************************************************************************)
(* What the action gate promises about each proposed action, with no       *)
(* requests, rows or program counters in sight: it is staged at most once, *)
(* claimed by at most one turn, delivered at most once by that turn, and   *)
(* closed for good.  Whether it has to be staged first is a setting the    *)
(* operator may change, and not part of this contract.                     *)
(***************************************************************************)
EXTENDS Naturals

CONSTANT Actions  \* the proposals

VARIABLES
    status,      \* "new", "staged", "claimed" or "closed"
    deliveries   \* times a message of the proposal left

ledger == <<status, deliveries>>

Init ==
    /\ status = [a \in Actions |-> "new"]
    /\ deliveries = [a \in Actions |-> 0]

Moves(a, from, to) == status[a] \in from /\ status'[a] = to
Delivers(a, n) == deliveries'[a] = deliveries[a] + n

\* The assistant asked for a confirmation of a.
Stage(a) == Moves(a, {"new"}, "staged") /\ Delivers(a, 0)

\* One turn takes a out of reach of every other.
Claim(a) == Moves(a, {"new", "staged"}, "claimed") /\ Delivers(a, 0)

\* The turn that claimed a delivers it.
Deliver(a) == Moves(a, {"claimed"}, "closed") /\ Delivers(a, 1)

\* a is refused, cancelled, discarded, expired, superseded or lost.
Drop(a) == Moves(a, {"new", "staged", "claimed"}, "closed") /\ Delivers(a, 0)

Rest(a) == status'[a] = status[a] /\ Delivers(a, 0)

\* One step of the system may settle several proposals (a restart drops all
\* that were claimed).
Next == \A a \in Actions : Stage(a) \/ Claim(a) \/ Deliver(a) \/ Drop(a) \/ Rest(a)

Spec == Init /\ [][Next]_ledger

\* A claimed proposal does not stay in limbo: it is delivered or dropped, or
\* back on offer where the store failed to forget it.
ClaimsSettle == \A a \in Actions : status[a] = "claimed" ~> status[a] # "claimed"
=============================================================================
