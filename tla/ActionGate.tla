----------------------------- MODULE ActionGate -----------------------------
(***************************************************************************)
(* The gate every outbound WhatsApp / e-mail send goes through: the part   *)
(* of process_message (app/services/session_service.py) that stages,       *)
(* confirms, caps, executes and audits a business action, together with    *)
(* the helpers of app/services/action_policy.py.                           *)
(*                                                                         *)
(* A request is one POST /chat of one signed-in user; its user's session   *)
(* owns at most one row of pending_actions.  process_message is a          *)
(* coroutine: every awaited database or provider call below is a step, and *)
(* the steps of different requests interleave.  The action a request       *)
(* proposes is identified with the request.                                *)
(***************************************************************************)
EXTENDS Naturals, FiniteSets

CONSTANTS
    Requests,    \* the turns of a run, each handled once
    Users,       \* signed-in users; a session is a user
    Owner,       \* Owner[r]: the user who posts r
    None,        \* "no staged action"
    Deployments, \* settings the operator starts the process with, see below
    Cap,         \* settings.BUSINESS_ACTION_MAX_PER_HOUR; 0: no cap
    Serial,      \* every user waits for the answer before the next turn
    DbFaults,    \* a PostgreSQL statement may fail
    RedisFaults, \* a call of Redis may fail
    MaxCrashes,  \* bound: restarts of the API process
    MaxWindows,  \* bound: hourly windows that elapse
    MaxLosses    \* bound: times Redis loses its counters

ASSUME OwnerAssumption == Owner \in [Requests -> Users]
ASSUME NoneAssumption == None \notin Requests \cup 0..(Cap + 1)
\* allowed: BUSINESS_ACTIONS_ENABLED and BUSINESS_ACTION_ALLOWED_USERS;
\* confirming: BUSINESS_ACTION_REQUIRE_CONFIRMATION.
ASSUME DeploymentsAssumption ==
    Deployments \subseteq [allowed : SUBSET Users, confirming : BOOLEAN]
ASSUME CapAssumption == Cap \in Nat
ASSUME SettingsAssumption == Serial \in BOOLEAN /\ DbFaults \in BOOLEAN /\ RedisFaults \in BOOLEAN
ASSUME BoundsAssumption == MaxCrashes \in Nat /\ MaxWindows \in Nat /\ MaxLosses \in Nat

VARIABLES
    pending,     \* pending_actions: the staged action of each session
    stale,       \* sessions whose row is older than CONFIRM_TTL_SECONDS
    pc,          \* where the coroutine of each request stands
    says,        \* classify_confirmation of the request's message
    acting,      \* the action the request is about to run, once it has one
    settings,    \* the settings the process read at start-up
    used,        \* Redis: business_action units consumed in the current hour
    local,       \* _local_buckets: the same, while Redis does not answer
    seen,        \* the count each falling-back check read there, or None
    window,      \* hourly windows elapsed
    crashes,     \* restarts so far
    losses,      \* times Redis has lost its counters
    sent,        \* pairs <<action, request that executed it>>
    audit,       \* rows <<request, outcome>> of action_audit
    lastPrompt,  \* the action the user's latest reply asked to confirm
    prompted,    \* lastPrompt when the request was posted
    late,        \* history: turns whose check of the cap straddled an hour
    outages,     \* history: hours and processes whose table judged each user
    forgotten    \* history: units of each user a table no longer knows of

vars == <<pending, stale, pc, says, acting, settings, used, local, seen, window, crashes,
          losses, sent, audit, lastPrompt, prompted, late, outages, forgotten>>

store == <<pending, stale>>
ghost == <<lastPrompt, prompted>>
clock == <<window, crashes, settings>>
table == <<local, outages, forgotten>>
limiter == <<used, local, seen, losses, late, outages, forgotten>>

Ended == {"done", "failed", "dead"}
Running == {"load", "expire", "clear", "discard", "generate", "check", "stage",
            "cap", "release", "send", "deny", "limit", "audit", "auditFailure", "ask",
            "finish"}
InFlight(r) == pc[r] \in Running
Goto(r, label) == pc' = [pc EXCEPT ![r] = label]

Init ==
    /\ pending = [u \in Users |-> None]
    /\ stale = {}
    /\ pc = [r \in Requests |-> "idle"]
    /\ says = [r \in Requests |-> "other"]
    /\ acting = [r \in Requests |-> None]
    /\ settings \in Deployments
    /\ used = [u \in Users |-> 0] /\ local = [u \in Users |-> 0]
    /\ seen = [r \in Requests |-> None]
    /\ window = 0 /\ crashes = 0 /\ losses = 0
    /\ sent = {}
    /\ audit = {}
    /\ lastPrompt = [u \in Users |-> None]
    /\ prompted = [r \in Requests |-> None]
    /\ late = {}
    /\ outages = [u \in Users |-> {}] /\ forgotten = [u \in Users |-> 0]

(***************************************************************************)
(* The user posts a message.  Nothing on the server serialises the turns   *)
(* of one session: two tabs or devices post concurrently (Serial = FALSE). *)
(***************************************************************************)
Post(r) ==
    /\ pc[r] = "idle"
    /\ Serial => \A q \in Requests : Owner[q] = Owner[r] => ~InFlight(q)
    /\ \E d \in {"yes", "no", "other"} : says' = [says EXCEPT ![r] = d]
    /\ prompted' = [prompted EXCEPT ![r] = lastPrompt[Owner[r]]]
    /\ Goto(r, "load")
    /\ UNCHANGED <<store, acting, clock, limiter, sent, audit, lastPrompt>>

(***************************************************************************)
(* get_pending_action: a SELECT, then the age check on the row it returned.*)
(* An exception is swallowed and reads as "nothing staged".                *)
(***************************************************************************)
FindsPending(r, u) ==
    /\ pending[u] # None /\ u \notin stale
    /\ acting' = [acting EXCEPT ![r] = pending[u]]
    /\ Goto(r, IF says[r] = "other" THEN "discard" ELSE "clear")

FindsExpired(r, u) ==
    /\ pending[u] # None /\ u \in stale
    /\ Goto(r, "expire")
    /\ UNCHANGED acting

FindsNothing(r, u) ==
    /\ pending[u] = None \/ DbFaults
    /\ Goto(r, "generate")
    /\ UNCHANGED acting

LoadPending(r) ==
    /\ pc[r] = "load"
    /\ \/ FindsPending(r, Owner[r])
       \/ FindsExpired(r, Owner[r])
       \/ FindsNothing(r, Owner[r])
    /\ UNCHANGED <<store, says, clock, limiter, sent, audit, ghost>>

(***************************************************************************)
(* clear_pending_action: deletes the session's row, whichever action it    *)
(* holds by now; an exception is swallowed and the row survives.           *)
(***************************************************************************)
DeletePending(u) ==
    \/ pending' = [pending EXCEPT ![u] = None] /\ stale' = stale \ {u}
    \/ DbFaults /\ UNCHANGED store

\* Mutant: the expired row is looked up again instead of dropped.
ExpirePending_Retries(r) ==
    /\ pc[r] = "expire"
    /\ DeletePending(Owner[r])
    /\ Goto(r, "load")
    /\ UNCHANGED <<says, acting, clock, limiter, sent, audit, ghost>>

\* Mutant: the expired row is ignored but left in the table.
ExpirePending_KeepsRow(r) ==
    /\ pc[r] = "expire"
    /\ Goto(r, "generate")
    /\ UNCHANGED <<store, says, acting, clock, limiter, sent, audit, ghost>>

\* The expired row is dropped and the message is an ordinary turn.
ExpirePending(r) ==
    /\ pc[r] = "expire"
    /\ DeletePending(Owner[r])
    /\ Goto(r, "generate")
    /\ UNCHANGED <<says, acting, clock, limiter, sent, audit, ghost>>

\* Mutant: the confirmed row is left in the table.
ClearPending_KeepsRow(r) ==
    /\ pc[r] = "clear"
    /\ Goto(r, IF says[r] = "yes" THEN "check" ELSE "finish")
    /\ UNCHANGED <<store, says, acting, clock, limiter, sent, audit, ghost>>

\* yes / no: the row goes first, only then is the action looked at.
ClearPending(r) ==
    /\ pc[r] = "clear"
    /\ DeletePending(Owner[r])
    /\ Goto(r, IF says[r] = "yes" THEN "check" ELSE "finish")
    /\ UNCHANGED <<says, acting, clock, limiter, sent, audit, ghost>>

\* Mutant: a new turn leaves the staged action in place.
DiscardPending_KeepsRow(r) ==
    /\ pc[r] = "discard"
    /\ acting' = [acting EXCEPT ![r] = None]
    /\ Goto(r, "generate")
    /\ UNCHANGED <<store, says, clock, limiter, sent, audit, ghost>>

\* Anything else discards the staged action and becomes a new turn.
DiscardPending(r) ==
    /\ pc[r] = "discard"
    /\ DeletePending(Owner[r])
    /\ acting' = [acting EXCEPT ![r] = None]
    /\ Goto(r, "generate")
    /\ UNCHANGED <<says, clock, limiter, sent, audit, ghost>>

(***************************************************************************)
(* The LLM turn.  The model may propose a complete action, propose nothing *)
(* or something incomplete (the clarification path, which never sends), or *)
(* fail (LLMError: the route answers 503).                                 *)
(***************************************************************************)
Generate(r) ==
    /\ pc[r] = "generate"
    /\ \/ Goto(r, "check") /\ acting' = [acting EXCEPT ![r] = r]
       \/ Goto(r, "finish") /\ UNCHANGED acting
    /\ UNCHANGED <<store, says, clock, limiter, sent, audit, ghost>>

GenerateFails(r) ==
    /\ pc[r] = "generate"
    /\ Goto(r, "failed")
    /\ lastPrompt' = [lastPrompt EXCEPT ![Owner[r]] = None]
    /\ UNCHANGED <<store, says, acting, clock, limiter, sent, audit, prompted>>

(***************************************************************************)
(* is_enabled_for, then the choice between staging and executing.  The     *)
(* same check guards a proposal and, on a later turn, its confirmation.    *)
(***************************************************************************)
IsEnabledFor(u) == u \in settings.allowed

\* Mutant: a confirmation trusts the check made when the action was staged.
CheckPolicy_OnceOnly(r) ==
    /\ pc[r] = "check"
    /\ \/ ~IsEnabledFor(Owner[r]) /\ acting[r] = r /\ Goto(r, "deny")
       \/ acting[r] = r /\ IsEnabledFor(Owner[r])
            /\ Goto(r, IF settings.confirming THEN "stage" ELSE "cap")
       \/ acting[r] # r /\ Goto(r, "cap")
    /\ UNCHANGED <<store, says, acting, clock, limiter, sent, audit, ghost>>

CheckPolicy(r) ==
    /\ pc[r] = "check"
    /\ \/ ~IsEnabledFor(Owner[r]) /\ Goto(r, "deny")
       \/ IsEnabledFor(Owner[r]) /\ acting[r] = r /\ settings.confirming /\ Goto(r, "stage")
       \/ IsEnabledFor(Owner[r]) /\ (acting[r] = r => ~settings.confirming) /\ Goto(r, "cap")
    /\ UNCHANGED <<store, says, acting, clock, limiter, sent, audit, ghost>>

\* store_pending_action: an upsert; when it fails the user is asked anyway.
StagePending(r) ==
    /\ pc[r] = "stage"
    /\ \/ /\ pending' = [pending EXCEPT ![Owner[r]] = r]
          /\ stale' = stale \ {Owner[r]}
       \/ DbFaults /\ UNCHANGED store
    /\ Goto(r, "ask")
    /\ UNCHANGED <<says, acting, clock, limiter, sent, audit, ghost>>

(***************************************************************************)
(* hourly_cap_ok consumes a unit even when it refuses; a count is kept up  *)
(* to the first refused value.  Redis counts at once.  While it does not   *)
(* answer, the table of the process is read and written by a thread that   *)
(* may be preempted in between: checks that overlap overwrite each other's *)
(* counts (the module RateLimiter).                                        *)
(***************************************************************************)
\* Mutant: an off-by-one in the comparison with the cap.
Passes_OffByOne(n) == n <= Cap

Passes(n) == n < Cap
Counted(n) == IF n > Cap THEN n ELSE n + 1

\* Mutant: a turn over the cap asks again instead of refusing.
Proceeds_Retries(r, passes) ==
    \/ ~passes /\ Goto(r, "check")
    \/ passes /\ acting[r] = r /\ Goto(r, "release")
    \/ passes /\ acting[r] # r /\ Goto(r, "send")

Proceeds(r, passes) ==
    \/ ~passes /\ Goto(r, "limit")
    \/ passes /\ acting[r] = r /\ Goto(r, "release")
    \/ passes /\ acting[r] # r /\ Goto(r, "send")

\* Redis answers, or there is no cap.  What a check that straddles the hour
\* finds at its key is the count of the last hour, or none any more.
ConsumeCap(r) ==
    LET u == Owner[r] IN
    /\ pc[r] = "cap" /\ seen[r] = None
    /\ \/ Cap = 0 /\ Proceeds(r, TRUE) /\ UNCHANGED used
       \/ /\ Cap > 0 /\ r \notin late
          /\ Proceeds(r, Passes(used[u])) /\ used' = [used EXCEPT ![u] = Counted(@)]
       \/ /\ Cap > 0 /\ r \in late
          /\ \E passes \in BOOLEAN : Proceeds(r, passes)
          /\ UNCHANGED used
    /\ UNCHANGED <<store, says, acting, clock, table, seen, losses, late, sent, audit, ghost>>

\* RedisError: the script may have run all the same.
FallBack(r) ==
    LET u == Owner[r] IN
    /\ pc[r] = "cap" /\ seen[r] = None
    /\ Cap > 0 /\ RedisFaults
    /\ used' = used \/ (r \notin late /\ used' = [used EXCEPT ![u] = Counted(@)])
    /\ seen' = [seen EXCEPT ![r] = local[u]]
    /\ UNCHANGED <<store, pc, says, acting, clock, table, losses, late, sent, audit, ghost>>

\* The count is written back.  A check that straddles the hour has an entry of
\* its own; if the table is full it prunes those of the new hour.
WritesBack(r) ==
    /\ seen' = [seen EXCEPT ![r] = None]
    /\ \/ LET u == Owner[r] IN
          /\ r \notin late
          /\ local' = [local EXCEPT ![u] = Counted(seen[r])]
          /\ forgotten' = [forgotten EXCEPT ![u] = @ + (IF local[u] > seen[r] THEN local[u] - seen[r] ELSE 0)]
          /\ outages' = [outages EXCEPT ![u] = @ \cup {<<window, crashes>>}]
       \/ /\ r \in late
          /\ \E gone \in SUBSET Users :
                /\ local' = [u \in Users |-> IF u \in gone THEN 0 ELSE local[u]]
                /\ forgotten' = [u \in Users |-> forgotten[u] + (IF u \in gone THEN local[u] ELSE 0)]
          /\ UNCHANGED outages

CountLocally(r) ==
    /\ pc[r] = "cap" /\ seen[r] # None
    /\ WritesBack(r)
    /\ \E passes \in BOOLEAN : (r \in late \/ passes = Passes(seen[r])) /\ Proceeds(r, passes)
    /\ UNCHANGED <<store, says, acting, clock, used, losses, late, sent, audit, ghost>>

\* Another thread adds an entry while the full table is iterated: a 500.
CountRaises(r) ==
    /\ pc[r] = "cap" /\ seen[r] # None
    /\ WritesBack(r)
    /\ Goto(r, "failed")
    /\ lastPrompt' = [lastPrompt EXCEPT ![Owner[r]] = None]
    /\ UNCHANGED <<store, says, acting, clock, used, losses, late, sent, audit, prompted>>

\* Single-turn mode drops whatever the session had staged before it sends.
ReleasePending(r) ==
    /\ pc[r] = "release"
    /\ DeletePending(Owner[r])
    /\ Goto(r, "send")
    /\ UNCHANGED <<says, acting, clock, limiter, sent, audit, ghost>>

(***************************************************************************)
(* _run_and_audit: execute_action_async, then the audit row.  A success    *)
(* means the provider accepted the message.  A failure result may hide an  *)
(* accepted one: a timebox that ends before the answer, or a group of      *)
(* which some members were reached (the module Delivery).                  *)
(***************************************************************************)
Execute(r) ==
    LET delivered == sent \cup {<<acting[r], r>>} IN
    /\ pc[r] = "send"
    /\ \/ sent' = delivered /\ Goto(r, "audit")
       \/ sent' \in {sent, delivered} /\ Goto(r, "auditFailure")
    /\ UNCHANGED <<store, says, acting, clock, limiter, audit, ghost>>

\* An exception no connector maps to a result is a 500, and no row is written.
ExecuteRaises(r) ==
    /\ pc[r] = "send"
    /\ sent' \in {sent, sent \cup {<<acting[r], r>>}}
    /\ Goto(r, "failed")
    /\ lastPrompt' = [lastPrompt EXCEPT ![Owner[r]] = None]
    /\ UNCHANGED <<store, says, acting, clock, limiter, audit, prompted>>

\* record_action; an exception is swallowed and the row is missing.
Record(r, outcome) ==
    \/ audit' = audit \cup {<<r, outcome>>}
    \/ DbFaults /\ UNCHANGED audit

Sent(r) == \E a \in Requests : <<a, r>> \in sent

\* Mutant: the outcome is assumed, not taken from the result.
AuditExecution_Optimistic(r) ==
    /\ pc[r] \in {"audit", "auditFailure"}
    /\ Record(r, "success")
    /\ Goto(r, "finish")
    /\ UNCHANGED <<store, says, acting, clock, limiter, sent, ghost>>

AuditExecution(r) ==
    /\ \/ pc[r] = "audit" /\ Record(r, "success")
       \/ pc[r] = "auditFailure" /\ Record(r, "failure")
    /\ Goto(r, "finish")
    /\ UNCHANGED <<store, says, acting, clock, limiter, sent, ghost>>

AuditRefusal(r) ==
    /\ \/ pc[r] = "deny" /\ Record(r, "denied_policy")
       \/ pc[r] = "limit" /\ Record(r, "rate_limited")
    /\ Goto(r, "finish")
    /\ UNCHANGED <<store, says, acting, clock, limiter, sent, ghost>>

(***************************************************************************)
(* The turn is persisted and the reply returned.  add_message is not       *)
(* guarded: when PostgreSQL fails there, the client gets an error instead  *)
(* of the reply, whatever the turn has done before.                        *)
(***************************************************************************)
Reply(r) ==
    /\ pc[r] \in {"ask", "finish"}
    /\ \/ /\ Goto(r, "done")
          /\ lastPrompt' = [lastPrompt EXCEPT ![Owner[r]] = IF pc[r] = "ask" THEN r ELSE None]
       \/ /\ DbFaults
          /\ Goto(r, "failed")
          /\ lastPrompt' = [lastPrompt EXCEPT ![Owner[r]] = None]
    /\ UNCHANGED <<store, says, acting, clock, limiter, sent, audit, prompted>>

Step(r) ==
    \/ LoadPending(r) \/ ExpirePending(r) \/ ClearPending(r) \/ DiscardPending(r)
    \/ Generate(r) \/ GenerateFails(r) \/ CheckPolicy(r) \/ StagePending(r)
    \/ ConsumeCap(r) \/ FallBack(r) \/ CountLocally(r) \/ CountRaises(r)
    \/ ReleasePending(r) \/ Execute(r) \/ ExecuteRaises(r)
    \/ AuditExecution(r) \/ AuditRefusal(r) \/ Reply(r)

\* A staged row outlives its confirmation TTL.
GrowStale(u) ==
    /\ pending[u] # None /\ u \notin stale
    /\ stale' = stale \cup {u}
    /\ UNCHANGED <<pending, pc, says, acting, clock, limiter, sent, audit, ghost>>

\* The next hourly window of the limiter begins, while any of the checks under
\* way has its key already.
NextWindow ==
    /\ window < MaxWindows
    /\ window' = window + 1
    /\ used' = [u \in Users |-> 0] /\ local' = [u \in Users |-> 0]
    /\ \E begun \in SUBSET {r \in Requests : pc[r] = "cap"} :
          /\ {r \in Requests : pc[r] = "cap" /\ seen[r] # None} \subseteq begun
          /\ late' = late \cup begun
    /\ UNCHANGED <<store, pc, says, acting, settings, crashes, seen, losses, outages, forgotten,
                   sent, audit, ghost>>

RedisLosesData ==
    /\ losses < MaxLosses /\ \E u \in Users : used[u] > 0
    /\ losses' = losses + 1
    /\ used' = [u \in Users |-> 0]
    /\ UNCHANGED <<store, pc, says, acting, clock, table, seen, late, sent, audit, ghost>>

\* The API process dies with every turn it was running and its table; it comes
\* back with the configuration the operator gives it.  PostgreSQL and Redis survive.
Restart ==
    /\ crashes < MaxCrashes
    /\ crashes' = crashes + 1
    /\ settings' \in Deployments
    /\ pc' = [r \in Requests |-> IF InFlight(r) THEN "dead" ELSE pc[r]]
    /\ lastPrompt' = [u \in Users |->
           IF \E r \in Requests : Owner[r] = u /\ InFlight(r) THEN None ELSE lastPrompt[u]]
    /\ local' = [u \in Users |-> 0] /\ seen' = [r \in Requests |-> None]
    /\ UNCHANGED <<store, says, acting, used, losses, late, outages, forgotten, window,
                   sent, audit, prompted>>

Next ==
    \/ \E r \in Requests : Post(r) \/ Step(r)
    \/ \E u \in Users : GrowStale(u)
    \/ NextWindow \/ RedisLosesData
    \/ Restart

\* Every coroutine the event loop holds keeps being scheduled, and each call it
\* awaits ends: Redis and the providers have timeouts, but that a worker thread
\* is free and that PostgreSQL, whose client has none, answers or fails in the
\* end are assumptions.  Users, clocks and crashes owe nothing.
Fairness == \A r \in Requests : WF_vars(Step(r))

Spec == Init /\ [][Next]_vars
FairSpec == Spec /\ Fairness

-----------------------------------------------------------------------------
TypeOK ==
    /\ pending \in [Users -> Requests \cup {None}]
    /\ stale \subseteq Users
    /\ pc \in [Requests -> {"idle"} \cup Running \cup Ended]
    /\ says \in [Requests -> {"yes", "no", "other"}]
    /\ acting \in [Requests -> Requests \cup {None}]
    /\ settings \in Deployments
    /\ used \in [Users -> 0..(Cap + 1)] /\ local \in [Users -> 0..(Cap + 1)]
    /\ seen \in [Requests -> 0..(Cap + 1) \cup {None}]
    /\ window \in 0..MaxWindows /\ crashes \in 0..MaxCrashes /\ losses \in 0..MaxLosses
    /\ sent \subseteq Requests \X Requests
    /\ audit \subseteq Requests \X {"success", "failure", "denied_policy", "rate_limited"}
    /\ lastPrompt \in [Users -> Requests \cup {None}]
    /\ prompted \in [Requests -> Requests \cup {None}]
    /\ late \subseteq Requests
    /\ outages \in [Users -> SUBSET ((0..MaxWindows) \X (0..MaxCrashes))]
    /\ forgotten \in [Users -> Nat]

\* Whenever a message leaves, its user is on the allow-list in force at that
\* moment, however long ago it was staged; and if confirmation is required at
\* that moment, an earlier turn of the same session staged it and the message
\* of the turn that sends it is a yes (session_service.py 237-270, 342-380).
AuthorisedSend(a, r) ==
    /\ Owner[r] \in settings.allowed
    /\ settings.confirming => a # r /\ says[r] = "yes" /\ Owner[a] = Owner[r]

SendsAreAuthorised ==
    [][\A a, r \in Requests :
          <<a, r>> \in sent' /\ <<a, r>> \notin sent => AuthorisedSend(a, r)]_vars

\* One proposal leads to at most one delivery: the row is deleted before the
\* action is executed, so neither a repeated yes nor a crash repeats it
\* (session_service.py 241-242, 377-378).
AtMostOneDelivery ==
    \A a, p, q \in Requests : <<a, p>> \in sent /\ <<a, q>> \in sent => p = q

\* Confirming runs the action the assistant's last reply asked about: not one
\* that was asked about earlier, discarded, or never shown
\* (session_service.py 234-236, 283-284, 355-360).
ConsentMatchesPrompt ==
    \A a, r \in Requests : <<a, r>> \in sent /\ a # r => prompted[r] = a

\* Between turns the store and the conversation agree: a session has an action
\* staged exactly when the last reply asked for it, so a yes is never lost and
\* nothing lingers (session_service.py 237-284, 355-360).
PromptMatchesStaging ==
    crashes = 0 => \A u \in Users :
        (\A r \in Requests : Owner[r] = u => ~InFlight(r)) => pending[u] = lastPrompt[u]

\* The same for what is executed, as long as no process died on the way.
ConsentWithoutCrash == crashes = 0 => ConsentMatchesPrompt

\* No more deliveries than one cap in each hour, with any number of concurrent
\* turns, as long as Redis answers and keeps its counters.  Each loss of them
\* costs one cap more, and so does each hour of each process whose table had to
\* judge the user, with the units that racing threads or a prune made it forget;
\* a check that straddles the hour is not counted
\* (action_policy.py 65-70, rate_limiter.py 77-83, 88-110).
CapHolds ==
    Cap > 0 => \A u \in Users :
        Cardinality({s \in sent : Owner[s[2]] = u /\ s[2] \notin late})
            <= Cap * (window + 1 + losses + Cardinality(outages[u])) + forgotten[u]

Attempted(r) == \E outcome \in {"success", "failure"} : <<r, outcome>> \in audit

\* The audit trail tells the truth: a success row is a delivery, a refusal row
\* is none, and a turn that delivered and was answered has the row of its attempt
\* (session_service.py 193-213, 247-268).
AuditMatchesDeliveries ==
    \A r \in Requests :
        /\ <<r, "success">> \in audit => Sent(r)
        /\ <<r, "denied_policy">> \in audit \/ <<r, "rate_limited">> \in audit => ~Sent(r)
        /\ pc[r] = "done" /\ Sent(r) => Attempted(r)

\* Every turn ends: answered, failed, or killed by a restart; no combination
\* of expired rows, refusals and database errors keeps it going.
TurnsEnd == \A r \in Requests : pc[r] = "load" ~> pc[r] \in Ended
=============================================================================
