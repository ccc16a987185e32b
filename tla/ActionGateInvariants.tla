------------------------ MODULE ActionGateInvariants ------------------------
(***************************************************************************)
(* The inductive invariants behind the safety theorems of ActionGate.      *)
(***************************************************************************)
EXTENDS ActionGate

\* Labels of a turn that has not decided whether it proposes anything.
Early == {"idle", "load", "expire", "clear", "discard", "generate"}
\* Labels of a turn that has passed the policy check.
Cleared == {"stage", "cap", "release", "send"}
\* Labels at which a turn still holds an action it may execute.
Holding == {"clear", "check", "stage", "cap", "release", "send"}
\* Labels of a turn that has staged its proposal, or is over.
Staged == {"ask"} \cup Ended

\* A row belongs to the session of the turn that staged it.
RowsAreOwn ==
    \A u \in Users : pending[u] # None =>
        Owner[pending[u]] = u /\ pc[pending[u]] \in Staged

\* A turn acts on its own proposal or on one its own session had staged.
ActsAreOwn ==
    \A r \in Requests : acting[r] \notin {None, r} =>
        Owner[acting[r]] = Owner[r] /\ pc[acting[r]] \in Staged

\* There is an action at every label that may execute one.
ActsExist == \A r \in Requests : pc[r] \in Holding => acting[r] # None

\* A turn that carries somebody's action past the clear said yes to it.
OthersNeedYes ==
    \A r \in Requests :
        /\ pc[r] \in {"check", "stage", "cap", "release", "send"} /\ acting[r] # r
              => says[r] = "yes"
        /\ pc[r] \in {"idle", "load", "expire"} => acting[r] = None

\* In confirmation mode no turn gets as far as the cap with its own proposal.
OwnIsStaged ==
    settings.confirming =>
        \A r \in Requests : pc[r] \in {"cap", "release", "send"} => acting[r] # r

\* Past the policy check, the user is on the list the process started with.
ClearedIsAllowed == \A r \in Requests : pc[r] \in Cleared => IsEnabledFor(Owner[r])

\* Why SendsAreAuthorised holds, under every interleaving, fault and crash: what
\* a turn holds was staged by its own session, is not its own unless it still
\* has to be staged, and passed the check of this process
\* (session_service.py 237-272, 342-380).
ConsentInv ==
    ActsExist /\ RowsAreOwn /\ ActsAreOwn /\ OthersNeedYes /\ OwnIsStaged /\ ClearedIsAllowed

\* One turn of a session at a time.
OneTurn ==
    \A p, q \in Requests : InFlight(p) /\ InFlight(q) /\ Owner[p] = Owner[q] => p = q

\* Why AtMostOneDelivery holds for a serial client and a store that answers: a
\* delivered proposal is neither staged nor held nor still to be made, and a
\* turn past the clear holds an action that is no longer staged
\* (session_service.py 241-242, 270, 377-378).
OnceInv ==
    /\ OneTurn
    /\ \A a, p \in Requests : <<a, p>> \in sent =>
          /\ pending[Owner[a]] # a
          /\ pc[a] \notin Early
          /\ \A r \in Requests : ~(acting[r] = a /\ pc[r] \in Holding)
    /\ \A r \in Requests : pc[r] \in Holding \ {"clear"} => pending[Owner[r]] # acting[r]
    /\ \A r \in Requests : pc[r] \in {"stage", "release"} => acting[r] = r
    /\ AtMostOneDelivery

\* Labels of a turn that has not executed anything yet.
Unsent == Early \cup {"check", "stage", "cap", "release", "send", "deny", "limit", "ask"}

\* A turn executes at most one action, and nothing before its send.
SendInv ==
    /\ \A r \in Requests : pc[r] \in Unsent => ~Sent(r)
    /\ \A a, b, r \in Requests : <<a, r>> \in sent /\ <<b, r>> \in sent => a = b

Unrecorded(r) == \A row \in audit : row[1] # r

\* Why AuditMatchesDeliveries holds when the store answers: a turn delivers at one
\* place, refuses at another, and writes its one row after either
\* (session_service.py 193-213, 247-268).
AuditInv ==
    /\ \A r \in Requests :
          /\ pc[r] \in Unsent \cup {"audit", "auditFailure"} => Unrecorded(r)
          /\ pc[r] = "audit" => Sent(r)
          /\ pc[r] = "finish" /\ Sent(r) => Attempted(r)
    /\ AuditMatchesDeliveries

\* The turns of u that were granted a unit of the cap in the hour they asked
\* in, and may use it or did.
Granted(u) ==
    {r \in Requests \ late : Owner[r] = u /\ (pc[r] \in {"release", "send"} \/ Sent(r))}

\* What the hours elapsed, the losses of Redis and the tables have granted u:
\* the present count of Redis and the present table only as far as they are used.
Within(n) == IF n < Cap THEN n ELSE Cap
Spans(u) == window + losses + Cardinality(outages[u])
Unused(u) == IF <<window, crashes>> \in outages[u] THEN Cap - Within(local[u]) ELSE 0
Allowance(u) == Cap * Spans(u) + forgotten[u] + Within(used[u]) - Unused(u)

\* The table of this hour and process knows of a user only what it has judged.
TablesInv ==
    \A u \in Users :
        /\ outages[u] \subseteq (0..window) \X (0..crashes)
        /\ <<window, crashes>> \notin outages[u] => local[u] = 0

\* Why CapHolds: however turns interleave, crash or change windows, each that sends
\* was granted a unit of its own, by a count that grants no more than Cap of them
\* but for those it forgets; a unit granted in one window may be used in a later
\* one (action_policy.py 48-76, rate_limiter.py 77-110).
CapInv ==
    /\ TablesInv
    /\ Cap > 0 => \A u \in Users :
          IsFiniteSet(Granted(u)) /\ Cardinality(Granted(u)) <= Allowance(u)

\* What a turn of a serial client finds in the store: the row its user was asked
\* to confirm until it clears that row, none from then on, and its own once it
\* has asked.
FindsStore(r) ==
    LET row == pending[Owner[r]] IN
    /\ pc[r] \in {"load", "expire", "clear", "discard"} => row = prompted[r]
    /\ pc[r] = "clear" => acting[r] = row
    /\ pc[r] \in Running \ {"load", "expire", "clear", "discard", "ask"} => row = None
    /\ pc[r] = "ask" => row = r
    /\ pc[r] \in {"check", "stage", "cap", "release", "send"} => acting[r] \in {r, prompted[r]}

\* Why PromptMatchesStaging and ConsentWithoutCrash hold for a serial client and a
\* store that answers (session_service.py 234-284, 355-360).
PromptInv ==
    crashes = 0 =>
        /\ \A r \in Requests : InFlight(r) => FindsStore(r)
        /\ PromptMatchesStaging
        /\ ConsentMatchesPrompt

\* What the refinement of SendLedger needs besides: a turn that clears a row holds
\* what is in it, and only a process that asks for confirmations stages
\* (session_service.py 237-242, 348-360).
HandoverInv ==
    \A r \in Requests :
        /\ pc[r] = "clear" => acting[r] = pending[Owner[r]]
        /\ pc[r] = "stage" => settings.confirming
=============================================================================
