-------------------------- MODULE ActionGateProofs --------------------------
(***************************************************************************)
(* Safety of the action gate, for every number of users and turns and      *)
(* every cap: authorised sends and the cap under every interleaving, crash *)
(* and fault of the stores; one delivery per proposal, the prompt          *)
(* a yes confirms, the audit and the refinement of SendLedger under the    *)
(* assumptions their theorems state.                                       *)
(***************************************************************************)
EXTENDS ActionGateInvariants, ActionGateLedger, FiniteSetTheorems, TLAPS

-----------------------------------------------------------------------------
(* The checks of the cap, whatever they count.                             *)

CapStep(r) ==
    /\ pc[r] = "cap"
    /\ UNCHANGED <<store, says, acting, clock, sent, audit, prompted>>
    /\ \/ /\ \/ UNCHANGED pc
             \/ Goto(r, "limit")
             \/ acting[r] = r /\ Goto(r, "release")
             \/ acting[r] # r /\ Goto(r, "send")
          /\ UNCHANGED lastPrompt
       \/ /\ Goto(r, "failed")
          /\ lastPrompt' = [lastPrompt EXCEPT ![Owner[r]] = None]

LEMMA ChecksStep ==
    ASSUME NEW r, ConsumeCap(r) \/ FallBack(r) \/ CountLocally(r) \/ CountRaises(r)
    PROVE  CapStep(r)
<1>1. CASE ConsumeCap(r)
  BY <1>1 DEF ConsumeCap, Proceeds, CapStep, ghost
<1>2. CASE FallBack(r)
  BY <1>2 DEF FallBack, CapStep, ghost
<1>3. CASE CountLocally(r)
  BY <1>3 DEF CountLocally, Proceeds, CapStep, ghost
<1>4. CASE CountRaises(r)
  BY <1>4 DEF CountRaises, CapStep, ghost
<1>. QED
  BY <1>1, <1>2, <1>3, <1>4

-----------------------------------------------------------------------------
(* Type correctness.  "A turn that executes has an action" is the one      *)
(* fact about control it needs.                                            *)

Typed == TypeOK /\ ActsExist

LimiterTyped ==
    /\ used \in [Users -> 0..(Cap + 1)] /\ local \in [Users -> 0..(Cap + 1)]
    /\ seen \in [Requests -> 0..(Cap + 1) \cup {None}]
    /\ losses \in 0..MaxLosses /\ late \subseteq Requests
    /\ outages \in [Users -> SUBSET ((0..MaxWindows) \X (0..MaxCrashes))]
    /\ forgotten \in [Users -> Nat]

\* What the other invariants need of the types.
CoreTyped ==
    /\ None \notin Requests
    /\ pending \in [Users -> Requests \cup {None}] /\ stale \subseteq Users
    /\ pc \in [Requests -> {"idle"} \cup Running \cup Ended]
    /\ says \in [Requests -> {"yes", "no", "other"}]
    /\ acting \in [Requests -> Requests \cup {None}]
    /\ sent \subseteq Requests \X Requests
    /\ lastPrompt \in [Users -> Requests \cup {None}]
    /\ prompted \in [Requests -> Requests \cup {None}]
    /\ \A r \in Requests : Owner[r] \in Users

LEMMA CoreTypes ==
    /\ TypeOK => CoreTyped
    /\ TypeOK' => CoreTyped'
<1>1. None \notin Requests /\ \A r \in Requests : Owner[r] \in Users
  BY NoneAssumption, OwnerAssumption
<1>. QED
  BY <1>1 DEF TypeOK, CoreTyped

LEMMA CountedTyped == ASSUME NEW n \in 0..(Cap + 1) PROVE Counted(n) \in 0..(Cap + 1)
  BY CapAssumption DEF Counted

LEMMA WritesBackTyped ==
    ASSUME TypeOK, NEW r \in Requests, seen[r] # None, WritesBack(r)
    PROVE  /\ local' \in [Users -> 0..(Cap + 1)]
           /\ seen' \in [Requests -> 0..(Cap + 1) \cup {None}]
           /\ outages' \in [Users -> SUBSET ((0..MaxWindows) \X (0..MaxCrashes))]
           /\ forgotten' \in [Users -> Nat]
<1>1. /\ seen[r] \in 0..(Cap + 1) /\ Owner[r] \in Users /\ Cap \in Nat
      /\ window \in 0..MaxWindows /\ crashes \in 0..MaxCrashes
      /\ \A u \in Users : local[u] \in 0..(Cap + 1) /\ forgotten[u] \in Nat
  BY OwnerAssumption, CapAssumption DEF TypeOK
<1>2. seen' \in [Requests -> 0..(Cap + 1) \cup {None}]
  BY DEF WritesBack, TypeOK
<1>3. CASE r \notin late
  <2>1. local' \in [Users -> 0..(Cap + 1)]
    BY <1>1, <1>3, CountedTyped DEF WritesBack, TypeOK
  <2>2. outages' \in [Users -> SUBSET ((0..MaxWindows) \X (0..MaxCrashes))]
    BY <1>1, <1>3 DEF WritesBack, TypeOK
  <2>3. IF local[Owner[r]] > seen[r] THEN local[Owner[r]] - seen[r] \in Nat ELSE TRUE
    BY <1>1
  <2>4. forgotten' \in [Users -> Nat]
    BY <1>1, <1>3, <2>3 DEF WritesBack, TypeOK
  <2>. QED
    BY <1>2, <2>1, <2>2, <2>4
<1>4. CASE r \in late
  <2>1. PICK gone \in SUBSET Users :
           /\ local' = [u \in Users |-> IF u \in gone THEN 0 ELSE local[u]]
           /\ forgotten' = [u \in Users |-> forgotten[u] + (IF u \in gone THEN local[u] ELSE 0)]
           /\ UNCHANGED outages
    BY <1>4 DEF WritesBack
  <2>2. 0 \in 0..(Cap + 1)
    BY <1>1
  <2>3. \A u \in Users : forgotten[u] + (IF u \in gone THEN local[u] ELSE 0) \in Nat
    BY <1>1
  <2>. QED
    BY <1>1, <1>2, <2>1, <2>2, <2>3 DEF TypeOK
<1>. QED
  BY <1>3, <1>4

LEMMA CheckTyped ==
    ASSUME TypeOK, NEW r \in Requests,
           ConsumeCap(r) \/ FallBack(r) \/ CountLocally(r) \/ CountRaises(r)
    PROVE  LimiterTyped'
<1>1. Owner[r] \in Users
  BY OwnerAssumption
<1>2. CASE ConsumeCap(r)
  <2>1. used' = used \/ used' = [used EXCEPT ![Owner[r]] = Counted(@)]
    BY <1>2 DEF ConsumeCap
  <2>2. used' \in [Users -> 0..(Cap + 1)]
    BY <1>1, <2>1, CountedTyped DEF TypeOK
  <2>. QED
    BY <1>2, <2>2 DEF ConsumeCap, TypeOK, LimiterTyped, table
<1>3. CASE FallBack(r)
  <2>1. used' = used \/ used' = [used EXCEPT ![Owner[r]] = Counted(@)]
    BY <1>3 DEF FallBack
  <2>2. used' \in [Users -> 0..(Cap + 1)]
    BY <1>1, <2>1, CountedTyped DEF TypeOK
  <2>3. seen' \in [Requests -> 0..(Cap + 1) \cup {None}]
    BY <1>1, <1>3 DEF FallBack, TypeOK
  <2>. QED
    BY <1>3, <2>2, <2>3 DEF FallBack, TypeOK, LimiterTyped, table
<1>4. CASE CountLocally(r) \/ CountRaises(r)
  <2>1. WritesBack(r) /\ seen[r] # None /\ UNCHANGED <<used, losses, late>>
    BY <1>4 DEF CountLocally, CountRaises
  <2>. QED
    BY <2>1, WritesBackTyped DEF TypeOK, LimiterTyped
<1>. QED
  BY <1>2, <1>3, <1>4

LEMMA StepTyped ==
    ASSUME Typed, NEW r \in Requests, Step(r)
    PROVE  Typed'
<1>. DEFINE Rows == Requests \X {"success", "failure", "denied_policy", "rate_limited"}
<1>1. CoreTyped /\ ActsExist /\ LimiterTyped /\ audit \subseteq Rows
  BY CoreTypes DEF Typed, TypeOK, LimiterTyped
<1>2. CASE CapStep(r)
  <2>1. CoreTyped' /\ ActsExist'
    BY <1>1, <1>2 DEF CapStep, CoreTyped, ActsExist, Holding, Running, Ended, Goto, store
  <2>2. ConsumeCap(r) \/ FallBack(r) \/ CountLocally(r) \/ CountRaises(r)
    BY <1>1, <1>2 DEF Step, CapStep, LoadPending, ExpirePending, ClearPending, DiscardPending,
       Generate, GenerateFails, CheckPolicy, StagePending, ReleasePending, Execute, ExecuteRaises,
       AuditExecution, AuditRefusal, Reply
  <2>3. LimiterTyped'
    BY <2>2, CheckTyped DEF Typed
  <2>. QED
    BY <1>2, <2>1, <2>3 DEF Typed, TypeOK, CoreTyped, LimiterTyped, CapStep, clock
<1>3. CASE ~CapStep(r)
  <2>. HIDE DEF Rows
  <2>. USE DEF CoreTyped, ActsExist, Holding, Running, Ended, Goto, store, ghost
  <2>1. ASSUME LoadPending(r) PROVE CoreTyped' /\ ActsExist'
    BY <1>1, <2>1 DEF LoadPending, FindsPending, FindsExpired, FindsNothing
  <2>2. ASSUME ExpirePending(r) \/ ClearPending(r) PROVE CoreTyped' /\ ActsExist'
    BY <1>1, <2>2 DEF ExpirePending, ClearPending, DeletePending
  <2>3. ASSUME DiscardPending(r) \/ ReleasePending(r) PROVE CoreTyped' /\ ActsExist'
    BY <1>1, <2>3 DEF DiscardPending, ReleasePending, DeletePending
  <2>4. ASSUME Generate(r) \/ GenerateFails(r) \/ CheckPolicy(r) PROVE CoreTyped' /\ ActsExist'
    BY <1>1, <2>4 DEF Generate, GenerateFails, CheckPolicy
  <2>5. ASSUME StagePending(r) PROVE CoreTyped' /\ ActsExist'
    BY <1>1, <2>5 DEF StagePending
  <2>6. ASSUME Execute(r) \/ ExecuteRaises(r) PROVE CoreTyped' /\ ActsExist'
    BY <1>1, <2>6 DEF Execute, ExecuteRaises
  <2>7. ASSUME AuditExecution(r) \/ AuditRefusal(r)
        PROVE  CoreTyped' /\ ActsExist' /\ audit' \subseteq Rows
    <3>1. CoreTyped' /\ ActsExist'
      BY <1>1, <2>7 DEF AuditExecution, AuditRefusal
    <3>2. audit' \subseteq Rows
      BY <1>1, <2>7 DEF AuditExecution, AuditRefusal, Record, Rows
    <3>. QED
      BY <3>1, <3>2
  <2>8. ASSUME Reply(r) PROVE CoreTyped' /\ ActsExist'
    BY <1>1, <2>8 DEF Reply
  <2>9. \/ LoadPending(r) \/ ExpirePending(r) \/ ClearPending(r) \/ DiscardPending(r)
        \/ Generate(r) \/ GenerateFails(r) \/ CheckPolicy(r) \/ StagePending(r)
        \/ ReleasePending(r) \/ Execute(r) \/ ExecuteRaises(r)
        \/ AuditExecution(r) \/ AuditRefusal(r) \/ Reply(r)
    BY <1>3, ChecksStep DEF Step
  <2>10. UNCHANGED <<clock, limiter>>
    BY <2>9 DEF LoadPending, ExpirePending, ClearPending, DiscardPending, Generate, GenerateFails,
       CheckPolicy, StagePending, ReleasePending, Execute, ExecuteRaises, AuditExecution,
       AuditRefusal, Reply, clock, limiter
  <2>11. \/ UNCHANGED audit
         \/ AuditExecution(r) \/ AuditRefusal(r)
    BY <2>9 DEF LoadPending, ExpirePending, ClearPending, DiscardPending, Generate, GenerateFails,
       CheckPolicy, StagePending, ReleasePending, Execute, ExecuteRaises, Reply
  <2>12. CoreTyped' /\ ActsExist'
    BY <2>1, <2>2, <2>3, <2>4, <2>5, <2>6, <2>7, <2>8, <2>9
  <2>13. audit' \subseteq Rows
    BY <1>1, <2>7, <2>11
  <2>14. LimiterTyped' /\ UNCHANGED clock
    BY <1>1, <2>10 DEF limiter, LimiterTyped
  <2>. QED
    BY <2>12, <2>13, <2>14 DEF Typed, TypeOK, LimiterTyped, Rows, clock
<1>. QED
  BY <1>2, <1>3

LEMMA NextTyped == Typed /\ [Next]_vars => Typed'
<1>. SUFFICES ASSUME Typed, [Next]_vars PROVE Typed'
  OBVIOUS
<1>. USE DEF Typed, ActsExist, Holding, TypeOK, store, ghost, clock, limiter, table
<1>1. ASSUME NEW r \in Requests, Post(r) PROVE Typed'
  BY <1>1, OwnerAssumption DEF Post, Goto, Running
<1>2. ASSUME NEW r \in Requests, Step(r) PROVE Typed'
  BY <1>2, StepTyped
<1>3. ASSUME NEW u \in Users, GrowStale(u) PROVE Typed'
  BY <1>3 DEF GrowStale
<1>4. CASE NextWindow \/ RedisLosesData
  <2>1. 0 \in 0..(Cap + 1)
    BY CapAssumption
  <2>2. CASE NextWindow
    <3>1. late' \subseteq Requests
      BY <2>2 DEF NextWindow
    <3>2. window' \in 0..MaxWindows
      BY <2>2, BoundsAssumption DEF NextWindow
    <3>3. used' \in [Users -> 0..(Cap + 1)] /\ local' \in [Users -> 0..(Cap + 1)]
      BY <2>1, <2>2 DEF NextWindow
    <3>. QED
      BY <2>2, <3>1, <3>2, <3>3 DEF NextWindow
  <2>3. CASE RedisLosesData
    <3>1. losses' \in 0..MaxLosses
      BY <2>3, BoundsAssumption DEF RedisLosesData
    <3>. QED
      BY <2>1, <2>3, <3>1 DEF RedisLosesData
  <2>. QED
    BY <1>4, <2>2, <2>3
<1>5. CASE Restart
  <2>1. 0 \in 0..(Cap + 1)
    BY CapAssumption
  <2>. QED
    BY <1>5, <2>1, BoundsAssumption DEF Restart, InFlight, Running, Ended
<1>6. CASE UNCHANGED vars
  BY <1>6 DEF vars
<1>. QED
  BY <1>1, <1>2, <1>3, <1>4, <1>5, <1>6 DEF Next

THEOREM AlwaysTyped == Spec => []Typed
<1>1. Init => Typed
  BY CapAssumption, BoundsAssumption DEF Init, Typed, TypeOK, ActsExist, Holding, Running, Ended
<1>. QED
  BY <1>1, NextTyped, PTL DEF Spec

\* Type correctness of the gate: every variable keeps its type, for all values
\* of the constants (session_service.py 216-424, action_policy.py 48-190).
THEOREM TypeCorrect == Spec => []TypeOK
<1>1. Typed => TypeOK
  BY DEF Typed
<1>. QED
  BY <1>1, AlwaysTyped, PTL

-----------------------------------------------------------------------------
(* Consent.                                                                *)

LEMMA StepConsent ==
    ASSUME Typed, ConsentInv, NEW r \in Requests, Step(r)
    PROVE  ConsentInv'
<1>0. CoreTyped /\ CoreTyped'
  BY StepTyped, CoreTypes DEF Typed
<1>01. ActsExist /\ ActsExist'
  BY StepTyped DEF Typed
<1>. USE <1>0, <1>01
<1>. USE DEF ConsentInv, ActsExist, RowsAreOwn, ActsAreOwn, OthersNeedYes, OwnIsStaged,
             ClearedIsAllowed, Cleared, IsEnabledFor, CoreTyped, Holding, Staged, Ended,
             store, ghost, clock, Goto
<1>1. CASE LoadPending(r)
  BY <1>1 DEF LoadPending, FindsPending, FindsExpired, FindsNothing
<1>2. CASE ExpirePending(r)
  BY <1>2 DEF ExpirePending, DeletePending
<1>3. CASE ClearPending(r)
  BY <1>3 DEF ClearPending, DeletePending
<1>4. CASE DiscardPending(r)
  BY <1>4 DEF DiscardPending, DeletePending
<1>5. CASE ReleasePending(r)
  BY <1>5 DEF ReleasePending, DeletePending
<1>6. CASE Generate(r) \/ GenerateFails(r)
  BY <1>6 DEF Generate, GenerateFails
<1>7. CASE CheckPolicy(r)
  BY <1>7 DEF CheckPolicy
<1>8. CASE StagePending(r)
  BY <1>8 DEF StagePending
<1>9. CASE CapStep(r)
  BY <1>9 DEF CapStep
<1>10. CASE Execute(r) \/ ExecuteRaises(r)
  BY <1>10 DEF Execute, ExecuteRaises
<1>11. CASE AuditExecution(r) \/ AuditRefusal(r)
  BY <1>11 DEF AuditExecution, AuditRefusal
<1>12. CASE Reply(r)
  BY <1>12 DEF Reply
<1>. QED
  BY <1>1, <1>2, <1>3, <1>4, <1>5, <1>6, <1>7, <1>8, <1>9, <1>10, <1>11, <1>12, ChecksStep DEF Step

LEMMA NextConsent == Typed /\ ConsentInv /\ [Next]_vars => ConsentInv'
<1>. SUFFICES ASSUME Typed, ConsentInv, [Next]_vars PROVE ConsentInv'
  OBVIOUS
<1>0. Typed'
  BY NextTyped
<1>. USE <1>0, OwnerAssumption, NoneAssumption
<1>. USE DEF ConsentInv, ActsExist, RowsAreOwn, ActsAreOwn, OthersNeedYes, OwnIsStaged,
             ClearedIsAllowed, Cleared, IsEnabledFor, Typed, TypeOK, Holding, Staged, Ended,
             store, ghost, clock
<1>1. ASSUME NEW r \in Requests, Post(r) PROVE ConsentInv'
  BY <1>1 DEF Post, Goto
<1>2. ASSUME NEW r \in Requests, Step(r) PROVE ConsentInv'
  BY <1>2, StepConsent
<1>3. ASSUME NEW u \in Users, GrowStale(u) PROVE ConsentInv'
  BY <1>3 DEF GrowStale
<1>4. CASE NextWindow \/ RedisLosesData
  BY <1>4 DEF NextWindow, RedisLosesData
<1>5. CASE Restart
  BY <1>5 DEF Restart, InFlight, Running
<1>6. CASE UNCHANGED vars
  BY <1>6 DEF vars
<1>. QED
  BY <1>1, <1>2, <1>3, <1>4, <1>5, <1>6 DEF Next

THEOREM AlwaysConsent == Spec => []ConsentInv
<1>1. Init => ConsentInv
  BY NoneAssumption DEF Init, ConsentInv, ActsExist, RowsAreOwn, ActsAreOwn, OthersNeedYes,
         OwnIsStaged, ClearedIsAllowed, Cleared, Holding
<1>. QED
  BY <1>1, NextConsent, AlwaysTyped, PTL DEF Spec

\* Only an execution sends, whatever becomes of its result.
LEMMA SendingStep ==
    ASSUME [Next]_vars, sent' # sent
    PROVE  \E r \in Requests : Execute(r) \/ ExecuteRaises(r)
BY ChecksStep DEF Next, Step, Post, LoadPending, ExpirePending, ClearPending, DiscardPending, Generate,
       GenerateFails, CheckPolicy, StagePending, CapStep, ReleasePending, AuditExecution,
       AuditRefusal, Reply, GrowStale, NextWindow, RedisLosesData, Restart, vars

\* Every message that leaves is authorised: its user is on the list the process
\* runs with and, when confirmation is required, a yes of the session that
\* staged it sends it; for any interleaving of the turns of a session, any
\* restart with other settings and any failing statement
\* (session_service.py 234-272, 342-380).
THEOREM DeliveriesAuthorised == Spec => SendsAreAuthorised
<1>1. Typed /\ ConsentInv /\ [Next]_vars =>
        [\A a, r \in Requests :
            <<a, r>> \in sent' /\ <<a, r>> \notin sent => AuthorisedSend(a, r)]_vars
  <2>. SUFFICES ASSUME Typed, ConsentInv, [Next]_vars, NEW a \in Requests,
                       NEW r \in Requests, <<a, r>> \in sent', <<a, r>> \notin sent
                PROVE  AuthorisedSend(a, r)
    OBVIOUS
  <2>1. PICK q \in Requests : Execute(q) \/ ExecuteRaises(q)
    BY SendingStep
  <2>2. q = r /\ pc[r] = "send" /\ acting[r] = a
    BY <2>1 DEF Execute, ExecuteRaises
  <2>3. Owner[r] \in settings.allowed
    BY <2>2 DEF ConsentInv, ClearedIsAllowed, Cleared, IsEnabledFor
  <2>4. settings.confirming => a # r /\ says[r] = "yes" /\ Owner[a] = Owner[r]
    BY <2>2, NoneAssumption DEF ConsentInv, OwnIsStaged, OthersNeedYes, ActsAreOwn
  <2>. QED
    BY <2>3, <2>4 DEF AuthorisedSend
<1>. QED
  BY <1>1, AlwaysConsent, AlwaysTyped, PTL DEF Spec, SendsAreAuthorised

-----------------------------------------------------------------------------
(* At most one delivery.                                                   *)

LEMMA StepOnce ==
    ASSUME Serial, ~DbFaults, Typed, ConsentInv, OnceInv, NEW r \in Requests, Step(r)
    PROVE  OnceInv'
<1>0. CoreTyped /\ CoreTyped'
  BY StepTyped, CoreTypes DEF Typed
<1>01. ConsentInv'
  BY StepConsent
<1>. USE <1>0, <1>01
<1>. USE DEF OnceInv, OneTurn, AtMostOneDelivery, InFlight, Running, Early, Holding,
             ConsentInv, ActsExist, RowsAreOwn, ActsAreOwn, OthersNeedYes, Staged, Ended,
             CoreTyped, store, ghost, clock, Goto
<1>1. CASE LoadPending(r)
  BY <1>1 DEF LoadPending, FindsPending, FindsExpired, FindsNothing
<1>2. CASE ExpirePending(r)
  BY <1>2 DEF ExpirePending, DeletePending
<1>3. CASE ClearPending(r)
  BY <1>3 DEF ClearPending, DeletePending
<1>4. CASE DiscardPending(r)
  BY <1>4 DEF DiscardPending, DeletePending
<1>5. CASE ReleasePending(r)
  BY <1>5 DEF ReleasePending, DeletePending
<1>6. CASE Generate(r) \/ GenerateFails(r)
  BY <1>6 DEF Generate, GenerateFails
<1>7. CASE CheckPolicy(r)
  BY <1>7 DEF CheckPolicy
<1>8. CASE StagePending(r)
  BY <1>8 DEF StagePending
<1>9. CASE CapStep(r)
  BY <1>9 DEF CapStep
<1>10. CASE Execute(r) \/ ExecuteRaises(r)
  BY <1>10, SMTT(30) DEF Execute, ExecuteRaises
<1>11. CASE AuditExecution(r) \/ AuditRefusal(r)
  BY <1>11 DEF AuditExecution, AuditRefusal
<1>12. CASE Reply(r)
  BY <1>12 DEF Reply
<1>. QED
  BY <1>1, <1>2, <1>3, <1>4, <1>5, <1>6, <1>7, <1>8, <1>9, <1>10, <1>11, <1>12, ChecksStep DEF Step

LEMMA NextOnce ==
    ASSUME Serial, ~DbFaults
    PROVE  Typed /\ ConsentInv /\ OnceInv /\ [Next]_vars => OnceInv'
<1>. SUFFICES ASSUME Typed, ConsentInv, OnceInv, [Next]_vars PROVE OnceInv'
  OBVIOUS
<1>0. Typed' /\ ConsentInv'
  BY NextTyped, NextConsent
<1>. USE <1>0, OwnerAssumption, NoneAssumption
<1>. USE DEF OnceInv, OneTurn, AtMostOneDelivery, InFlight, Running, Early, Holding,
             ConsentInv, RowsAreOwn, ActsAreOwn, Staged, Ended,
             Typed, TypeOK, store, ghost, clock
<1>1. ASSUME NEW r \in Requests, Post(r) PROVE OnceInv'
  BY <1>1 DEF Post, Goto
<1>2. ASSUME NEW r \in Requests, Step(r) PROVE OnceInv'
  BY <1>2, StepOnce
<1>3. ASSUME NEW u \in Users, GrowStale(u) PROVE OnceInv'
  BY <1>3 DEF GrowStale
<1>4. CASE NextWindow \/ RedisLosesData
  BY <1>4 DEF NextWindow, RedisLosesData
<1>5. CASE Restart
  BY <1>5 DEF Restart
<1>6. CASE UNCHANGED vars
  BY <1>6 DEF vars
<1>. QED
  BY <1>1, <1>2, <1>3, <1>4, <1>5, <1>6 DEF Next

LEMMA AlwaysOnce ==
    ASSUME Serial, ~DbFaults
    PROVE  Spec => []OnceInv
<1>1. Init => OnceInv
  BY NoneAssumption DEF Init, OnceInv, OneTurn, AtMostOneDelivery, InFlight, Running, Holding
<1>. QED
  BY <1>1, NextOnce, AlwaysConsent, AlwaysTyped, PTL DEF Spec

\* One proposal, at most one delivery: when every user waits for the answer and
\* the statements that delete the row succeed, neither repeated confirmations
\* nor restarts deliver a proposal twice (session_service.py 241-272, 377-378).
THEOREM DeliveredOnce ==
    ASSUME Serial, ~DbFaults
    PROVE  Spec => []AtMostOneDelivery
<1>1. OnceInv => AtMostOneDelivery
  BY DEF OnceInv
<1>. QED
  BY <1>1, AlwaysOnce, PTL

-----------------------------------------------------------------------------
(* What a turn sends, records and consumes.                                *)

\* The two ways an execution can end, seen from the deliveries.
Executes(r) ==
    /\ pc[r] = "send"
    /\ sent' \in {sent, sent \cup {<<acting[r], r>>}}
    /\ \/ Goto(r, "audit") /\ <<acting[r], r>> \in sent'
       \/ Goto(r, "auditFailure")
       \/ Goto(r, "failed")
    /\ UNCHANGED <<store, says, acting, clock, limiter, audit, prompted>>

LEMMA ExecutionIsOne ==
    ASSUME NEW r \in Requests, Execute(r) \/ ExecuteRaises(r)
    PROVE  Executes(r)
  BY DEF Execute, ExecuteRaises, Executes, ghost

\* A turn that has not sent yet had not sent before, and nobody sends for it.
LEMMA NextSends ==
    ASSUME Typed, SendInv, [Next]_vars
    PROVE  /\ SendInv'
           /\ \/ sent' = sent /\ \A q \in Requests : pc'[q] \in Unsent => pc[q] \in Unsent
              \/ \E r \in Requests : Executes(r)
<1>0. pc \in [Requests -> {"idle"} \cup Running \cup Ended]
      /\ acting \in [Requests -> Requests \cup {None}] /\ sent \subseteq Requests \X Requests
  BY DEF Typed, TypeOK
<1>1. ASSUME sent' = sent, \A q \in Requests : pc'[q] \in Unsent => pc[q] \in Unsent
      PROVE  SendInv'
  BY <1>1 DEF SendInv, Sent
<1>2. ASSUME NEW r \in Requests, Executes(r) PROVE SendInv'
  <2>1. /\ pc'[r] \notin Unsent /\ pc[r] = "send" /\ acting[r] \in Requests
        /\ \A q \in Requests \ {r} : pc'[q] = pc[q]
        /\ sent' \in {sent, sent \cup {<<acting[r], r>>}}
    BY <1>0, <1>2 DEF Executes, Goto, Unsent, Early, Typed, ActsExist, Holding
  <2>2. \A a \in Requests : <<a, r>> \notin sent
    BY <2>1 DEF SendInv, Sent, Unsent
  <2>. QED
    BY <2>1, <2>2 DEF SendInv, Sent
<1>. USE DEF Unsent, Early
<1>3. ASSUME NEW r \in Requests, Post(r)
      PROVE  sent' = sent /\ \A q \in Requests : pc'[q] \in Unsent => pc[q] \in Unsent
  BY <1>0, <1>3 DEF Post, Goto
<1>4. ASSUME NEW r \in Requests, Step(r), ~Execute(r), ~ExecuteRaises(r)
      PROVE  sent' = sent /\ \A q \in Requests : pc'[q] \in Unsent => pc[q] \in Unsent
  <2>1. sent' = sent
    BY <1>4, ChecksStep DEF Step, LoadPending, ExpirePending, ClearPending, DiscardPending, Generate,
       GenerateFails, CheckPolicy, StagePending, CapStep, ReleasePending, AuditExecution,
       AuditRefusal, Reply
  <2>2. \A q \in Requests \ {r} : pc'[q] = pc[q]
    BY <1>0, <1>4, ChecksStep DEF Step, LoadPending, FindsPending, FindsExpired, FindsNothing, ExpirePending,
       ClearPending, DiscardPending, Generate, GenerateFails, CheckPolicy, StagePending,
       CapStep, ReleasePending, AuditExecution, AuditRefusal, Reply, Goto
  <2>3. pc[r] \in Unsent \/ pc'[r] \in {"finish", "done", "failed"}
    BY <1>0, <1>4, ChecksStep DEF Step, LoadPending, ExpirePending, ClearPending, DiscardPending, Generate,
       GenerateFails, CheckPolicy, StagePending, CapStep, ReleasePending, AuditExecution,
       AuditRefusal, Reply, Goto
  <2>. QED
    BY <2>1, <2>2, <2>3
<1>5. ASSUME \/ \E u \in Users : GrowStale(u)
             \/ NextWindow \/ RedisLosesData \/ Restart \/ UNCHANGED vars
      PROVE  sent' = sent /\ \A q \in Requests : pc'[q] \in Unsent => pc[q] \in Unsent
  <2>1. sent' = sent
    BY <1>5 DEF GrowStale, NextWindow, RedisLosesData, Restart, vars
  <2>2. \A q \in Requests : pc'[q] \in {pc[q], "dead"}
    BY <1>0, <1>5 DEF GrowStale, NextWindow, RedisLosesData, Restart, vars
  <2>. QED
    BY <2>1, <2>2
<1>. HIDE DEF Unsent, Early
<1>. QED
  BY <1>1, <1>2, <1>3, <1>4, <1>5, ExecutionIsOne DEF Next

-----------------------------------------------------------------------------
(* The hourly cap.                                                         *)

\* A check counted one more, or not.
LEMMA CountedWithin ==
    ASSUME Cap > 0, NEW n \in 0..(Cap + 1)
    PROVE  /\ Within(n) \in 0..Cap /\ Within(n) <= n
           /\ Within(Counted(n)) = IF Passes(n) THEN Within(n) + 1 ELSE Within(n)
  BY CapAssumption DEF Within, Counted, Passes

LEMMA OutagesFinite ==
    ASSUME NEW S, S \subseteq (0..MaxWindows) \X (0..MaxCrashes)
    PROVE  IsFiniteSet(S) /\ Cardinality(S) \in Nat
<1>1. IsFiniteSet(0..MaxWindows) /\ IsFiniteSet(0..MaxCrashes)
  BY BoundsAssumption, FS_Interval
<1>2. IsFiniteSet((0..MaxWindows) \X (0..MaxCrashes))
  BY <1>1, FS_Product
<1>. QED
  BY <1>2, FS_Subset, FS_CardinalityType

LEMMA AllowanceTyped ==
    ASSUME TypeOK, NEW u \in Users, Cap > 0
    PROVE  /\ Spans(u) \in Nat /\ Cap * Spans(u) \in Nat /\ forgotten[u] \in Nat
           /\ Within(used[u]) \in 0..Cap /\ Within(local[u]) \in 0..Cap
           /\ Unused(u) \in 0..Cap /\ Allowance(u) \in Int
<1>1. /\ window \in Nat /\ losses \in Nat /\ Cap \in Nat /\ forgotten[u] \in Nat
      /\ used[u] \in 0..(Cap + 1) /\ local[u] \in 0..(Cap + 1)
      /\ outages[u] \subseteq (0..MaxWindows) \X (0..MaxCrashes)
  BY BoundsAssumption, CapAssumption DEF TypeOK
<1>2. Spans(u) \in Nat
  BY <1>1, OutagesFinite DEF Spans
<1>3. Cap * Spans(u) \in Nat
  BY <1>1, <1>2
<1>4. Within(used[u]) \in 0..Cap /\ Within(local[u]) \in 0..Cap
  BY <1>1, CountedWithin
<1>5. Unused(u) \in 0..Cap
  BY <1>1, <1>4 DEF Unused
<1>6. Allowance(u) = Cap * Spans(u) + forgotten[u] + Within(used[u]) - Unused(u)
  BY DEF Allowance
<1>. HIDE DEF Allowance, Spans, Unused, Within
<1>. QED
  BY <1>1, <1>2, <1>3, <1>4, <1>5, <1>6

\* The same of the next state.
LEMMA AllowanceTypedNext ==
    ASSUME TypeOK', NEW u \in Users, Cap > 0
    PROVE  /\ Spans(u)' \in Nat /\ Cap * Spans(u)' \in Nat /\ forgotten'[u] \in Nat
           /\ Within(used'[u]) \in 0..Cap /\ Within(local'[u]) \in 0..Cap
           /\ Unused(u)' \in 0..Cap /\ Allowance(u)' \in Int
<1>1. /\ window' \in Nat /\ losses' \in Nat /\ Cap \in Nat /\ forgotten'[u] \in Nat
      /\ used'[u] \in 0..(Cap + 1) /\ local'[u] \in 0..(Cap + 1)
      /\ outages'[u] \subseteq (0..MaxWindows) \X (0..MaxCrashes)
  BY BoundsAssumption, CapAssumption DEF TypeOK
<1>2. Spans(u)' \in Nat
  BY <1>1, OutagesFinite DEF Spans
<1>3. Cap * Spans(u)' \in Nat
  BY <1>1, <1>2
<1>4. Within(used'[u]) \in 0..Cap /\ Within(local'[u]) \in 0..Cap
  BY <1>1, CountedWithin
<1>5. Unused(u)' \in 0..Cap
  BY <1>1, <1>4 DEF Unused
<1>6. Allowance(u)' = Cap * Spans(u)' + forgotten'[u] + Within(used'[u]) - Unused(u)'
  BY DEF Allowance
<1>. HIDE DEF Allowance, Spans, Unused, Within
<1>. QED
  BY <1>1, <1>2, <1>3, <1>4, <1>5, <1>6

LEMMA OneSpanMore ==
    ASSUME NEW n \in Nat
    PROVE  Cap * (n + 1) = Cap * n + Cap
  BY CapAssumption

\* A set of granted turns that does not grow, under an allowance that does not shrink.
LEMMA AllowanceKeeps ==
    ASSUME TypeOK, TypeOK', NEW u \in Users, Cap > 0, IsFiniteSet(Granted(u)),
           Cardinality(Granted(u)) <= Allowance(u),
           Granted(u)' \subseteq Granted(u), Allowance(u) <= Allowance(u)'
    PROVE  IsFiniteSet(Granted(u)') /\ Cardinality(Granted(u)') <= Allowance(u)'
<1>1. Allowance(u) \in Int /\ Allowance(u)' \in Int
  BY AllowanceTyped, AllowanceTypedNext
<1>2. IsFiniteSet(Granted(u)') /\ Cardinality(Granted(u)') <= Cardinality(Granted(u))
  BY FS_Subset
<1>3. Cardinality(Granted(u)) \in Nat /\ Cardinality(Granted(u)') \in Nat
  BY <1>2, FS_CardinalityType
<1>. QED
  BY <1>1, <1>2, <1>3

\* One granted turn more, under an allowance that grows by one.
LEMMA AllowanceGrows ==
    ASSUME TypeOK, TypeOK', NEW u \in Users, Cap > 0, IsFiniteSet(Granted(u)),
           Cardinality(Granted(u)) <= Allowance(u), NEW r,
           Granted(u)' \subseteq Granted(u) \cup {r}, Allowance(u) + 1 <= Allowance(u)'
    PROVE  IsFiniteSet(Granted(u)') /\ Cardinality(Granted(u)') <= Allowance(u)'
<1>1. Allowance(u) \in Int /\ Allowance(u)' \in Int
  BY AllowanceTyped, AllowanceTypedNext
<1>2. /\ IsFiniteSet(Granted(u) \cup {r})
      /\ Cardinality(Granted(u) \cup {r}) =
            IF r \in Granted(u) THEN Cardinality(Granted(u)) ELSE Cardinality(Granted(u)) + 1
  BY FS_AddElement
<1>3. /\ IsFiniteSet(Granted(u)')
      /\ Cardinality(Granted(u)') <= Cardinality(Granted(u) \cup {r})
  BY <1>2, FS_Subset
<1>4. /\ Cardinality(Granted(u)) \in Nat /\ Cardinality(Granted(u) \cup {r}) \in Nat
      /\ Cardinality(Granted(u)') \in Nat
  BY <1>2, <1>3, FS_CardinalityType
<1>. HIDE DEF Granted, Allowance
<1>. QED
  BY <1>1, <1>2, <1>3, <1>4

\* A step that neither checks the cap nor changes what it counts grants nothing.
LEMMA NothingGranted ==
    ASSUME Typed, SendInv, [Next]_vars, ~NextWindow, ~RedisLosesData, ~Restart,
           \A r \in Requests :
              ~ConsumeCap(r) /\ ~FallBack(r) /\ ~CountLocally(r) /\ ~CountRaises(r),
           NEW u \in Users
    PROVE  Granted(u)' \subseteq Granted(u) /\ UNCHANGED <<limiter, window, crashes>>
<1>0. pc \in [Requests -> {"idle"} \cup Running \cup Ended]
  BY DEF Typed, TypeOK
<1>1. UNCHANGED <<limiter, window, crashes>>
  BY DEF Next, Step, Post, LoadPending, ExpirePending, ClearPending, DiscardPending,
     Generate, GenerateFails, CheckPolicy, StagePending, ReleasePending, Execute, ExecuteRaises,
     AuditExecution, AuditRefusal, Reply, GrowStale, vars, clock, limiter
<1>2. ASSUME NEW q \in Requests, pc'[q] \in {"release", "send"}
      PROVE  pc[q] \in {"release", "send"}
  <2>1. ASSUME NEW r \in Requests, Post(r) \/ Step(r) PROVE pc[q] \in {"release", "send"}
    BY <1>0, <1>2, <2>1 DEF Step, Post, LoadPending, FindsPending, FindsExpired,
       FindsNothing, ExpirePending, ClearPending, DiscardPending, Generate, GenerateFails,
       CheckPolicy, StagePending, ReleasePending, Execute, ExecuteRaises, AuditExecution,
       AuditRefusal, Reply, Goto
  <2>2. CASE (\E v \in Users : GrowStale(v)) \/ UNCHANGED vars
    BY <1>0, <1>2, <2>2 DEF GrowStale, vars
  <2>. QED
    BY <2>1, <2>2 DEF Next
<1>3. ASSUME NEW q \in Requests, Sent(q)' PROVE Sent(q) \/ pc[q] = "send"
  <2>1. CASE sent' = sent
    BY <1>3, <2>1 DEF Sent
  <2>2. ASSUME NEW r \in Requests, Executes(r) PROVE Sent(q) \/ pc[q] = "send"
    BY <1>3, <2>2 DEF Executes, Sent
  <2>. QED
    BY <2>1, <2>2, NextSends
<1>4. late' = late
  BY <1>1 DEF limiter
<1>. QED
  BY <1>1, <1>2, <1>3, <1>4 DEF Granted

\* A check of a turn grants it at most, and only if it passes.
LEMMA OneGranted ==
    ASSUME Typed, NEW r \in Requests, CapStep(r), late' = late, NEW u \in Users
    PROVE  /\ Granted(u)' \subseteq Granted(u) \cup {r}
           /\ (r \in late \/ Owner[r] # u \/ pc'[r] \notin {"release", "send"})
                 => Granted(u)' \subseteq Granted(u)
<1>1. pc \in [Requests -> {"idle"} \cup Running \cup Ended]
  BY DEF Typed, TypeOK
<1>2. sent' = sent /\ \A q \in Requests \ {r} : pc'[q] = pc[q]
  BY <1>1 DEF CapStep, Goto
<1>. QED
  BY <1>2 DEF Granted, Sent

LEMMA RedisCounts ==
    ASSUME Typed, Typed', NEW r \in Requests, NEW u \in Users, Cap > 0,
           ConsumeCap(r) \/ FallBack(r)
    PROVE  /\ late' = late /\ UNCHANGED <<window, crashes, losses, local, outages, forgotten>>
           /\ Allowance(u) <= Allowance(u)'
           /\ pc'[r] \in {"release", "send"} /\ Owner[r] = u /\ r \notin late
                 => Allowance(u) + 1 <= Allowance(u)'
<1>0. /\ Owner[r] \in Users /\ used[u] \in 0..(Cap + 1) /\ used \in [Users -> 0..(Cap + 1)]
      /\ pc \in [Requests -> {"idle"} \cup Running \cup Ended] /\ pc[r] = "cap"
  BY OwnerAssumption DEF Typed, TypeOK, ConsumeCap, FallBack
<1>1. late' = late /\ UNCHANGED <<window, crashes, losses, local, outages, forgotten>>
  BY DEF ConsumeCap, FallBack, table, clock
<1>2. used' = used \/ used' = [used EXCEPT ![Owner[r]] = Counted(@)]
  BY DEF ConsumeCap, FallBack
<1>3. /\ Within(used[u]) \in 0..Cap /\ Within(used'[u]) \in 0..Cap
      /\ Within(used[u]) <= Within(used'[u])
  <2>1. used'[u] \in {used[u], Counted(used[u])}
    BY <1>0, <1>2
  <2>2. /\ Within(used[u]) \in 0..Cap /\ Within(Counted(used[u])) \in 0..Cap
        /\ Within(used[u]) <= Within(Counted(used[u]))
    BY <1>0, CapAssumption DEF Within, Counted
  <2>3. Within(used[u]) <= Within(used[u])
    BY <2>2
  <2>. HIDE DEF Within, Counted
  <2>. QED
    BY <2>1, <2>2, <2>3
<1>4. /\ Spans(u)' = Spans(u) /\ Unused(u)' = Unused(u)
      /\ Allowance(u)' = Cap * Spans(u) + forgotten[u] + Within(used'[u]) - Unused(u)
  BY <1>1 DEF Spans, Unused, Allowance
<1>5. /\ Cap * Spans(u) \in Nat /\ forgotten[u] \in Nat /\ Unused(u) \in 0..Cap
      /\ Allowance(u) = Cap * Spans(u) + forgotten[u] + Within(used[u]) - Unused(u)
  BY AllowanceTyped DEF Allowance, Typed
<1>6. ASSUME pc'[r] \in {"release", "send"}, Owner[r] = u, r \notin late
      PROVE  Within(used[u]) + 1 <= Within(used'[u])
  <2>1. Passes(used[u]) /\ used' = [used EXCEPT ![u] = Counted(@)]
    BY <1>0, <1>6, CapAssumption DEF ConsumeCap, FallBack, Proceeds, Goto
  <2>2. used'[u] = Counted(used[u])
    BY <1>0, <2>1
  <2>3. Within(used'[u]) = Within(used[u]) + 1
    BY <1>0, <2>1, <2>2, CountedWithin
  <2>. QED
    BY <1>3, <2>3
<1>. HIDE DEF Allowance, Spans, Unused, Within
<1>. QED
  BY <1>1, <1>3, <1>4, <1>5, <1>6, CapAssumption

LEMMA TableCounts ==
    ASSUME Typed, Typed', NEW r \in Requests, NEW u \in Users, Cap > 0,
           CountLocally(r) \/ CountRaises(r)
    PROVE  /\ late' = late /\ UNCHANGED <<window, crashes, losses, used>>
           /\ Allowance(u) <= Allowance(u)'
           /\ pc'[r] \in {"release", "send"} /\ Owner[r] = u /\ r \notin late
                 => Allowance(u) + 1 <= Allowance(u)'
<1>. DEFINE n == seen[r]
            D == IF local[u] > n THEN local[u] - n ELSE 0
<1>0. /\ Owner[r] \in Users /\ n \in 0..(Cap + 1) /\ local[u] \in 0..(Cap + 1) /\ Cap \in Nat
      /\ local \in [Users -> 0..(Cap + 1)] /\ forgotten \in [Users -> Nat]
      /\ outages \in [Users -> SUBSET ((0..MaxWindows) \X (0..MaxCrashes))]
      /\ pc \in [Requests -> {"idle"} \cup Running \cup Ended]
  BY OwnerAssumption, CapAssumption DEF Typed, TypeOK, CountLocally, CountRaises
<1>1. late' = late /\ UNCHANGED <<window, crashes, losses, used>> /\ WritesBack(r)
  BY DEF CountLocally, CountRaises, clock
<1>2. /\ Spans(u) \in Nat /\ Cap * Spans(u) \in Nat /\ forgotten[u] \in Nat
      /\ Within(used[u]) \in 0..Cap /\ Within(local[u]) \in 0..Cap /\ Unused(u) \in 0..Cap
      /\ Allowance(u) = Cap * Spans(u) + forgotten[u] + Within(used[u]) - Unused(u)
  BY AllowanceTyped DEF Allowance, Typed
<1>3. /\ Within(local'[u]) \in 0..Cap
      /\ Allowance(u)' = Cap * Spans(u)' + forgotten'[u] + Within(used[u]) - Unused(u)'
  BY <1>1, AllowanceTypedNext DEF Allowance, Typed
<1>4. pc'[r] \in {"release", "send"} /\ r \notin late => Passes(n)
  BY <1>0 DEF CountLocally, CountRaises, Proceeds, Goto
<1>5. CASE r \notin late /\ Owner[r] = u
  <2>1. /\ local'[u] = Counted(n) /\ forgotten'[u] = forgotten[u] + D
        /\ outages'[u] = outages[u] \cup {<<window, crashes>>}
    BY <1>0, <1>1, <1>5 DEF WritesBack
  <2>2. /\ D \in Nat /\ Within(local[u]) <= Within(local'[u]) + D
        /\ Passes(n) => 1 <= Within(local'[u]) /\ Within(local[u]) + 1 <= Within(local'[u]) + D
    BY <1>0, <2>1 DEF Within, Counted, Passes
  <2>3. Unused(u)' = Cap - Within(local'[u])
    BY <1>1, <2>1 DEF Unused
  <2>. HIDE DEF D, n
  <2>4. CASE <<window, crashes>> \in outages[u]
    <3>1. Unused(u) = Cap - Within(local[u])
      BY <2>4 DEF Unused
    <3>2. outages'[u] = outages[u]
      BY <2>1, <2>4
    <3>3. Spans(u)' = Spans(u)
      BY <1>1, <3>2 DEF Spans
    <3>. HIDE DEF Allowance, Spans, Unused, Within, Passes
    <3>. QED
      BY <1>0, <1>1, <1>2, <1>3, <1>4, <2>1, <2>2, <2>3, <3>1, <3>3
  <2>5. CASE <<window, crashes>> \notin outages[u]
    <3>1. Unused(u) = 0
      BY <2>5 DEF Unused
    <3>2. outages[u] \subseteq (0..MaxWindows) \X (0..MaxCrashes)
      BY <1>0
    <3>3. IsFiniteSet(outages[u])
      BY <3>2, OutagesFinite
    <3>4. Cardinality(outages'[u]) = Cardinality(outages[u]) + 1
      BY <2>1, <2>5, <3>3, FS_AddElement
    <3>5. Spans(u)' = Spans(u) + 1
      <4>1. Cardinality(outages[u]) \in Nat /\ window \in Nat /\ losses \in Nat
        BY <3>2, OutagesFinite, BoundsAssumption DEF Typed, TypeOK
      <4>. QED
        BY <1>1, <3>4, <4>1 DEF Spans
    <3>6. Cap * Spans(u)' = Cap * Spans(u) + Cap
      BY <1>2, <3>5, OneSpanMore
    <3>. HIDE DEF Allowance, Spans, Unused, Within, Passes
    <3>. QED
      BY <1>0, <1>1, <1>2, <1>3, <1>4, <2>1, <2>2, <2>3, <3>1, <3>6
  <2>. QED
    BY <2>4, <2>5
<1>6. CASE r \notin late /\ Owner[r] # u
  <2>1. local'[u] = local[u] /\ forgotten'[u] = forgotten[u] /\ outages'[u] = outages[u]
    BY <1>0, <1>1, <1>6 DEF WritesBack
  <2>2. Allowance(u)' = Allowance(u)
    BY <1>1, <2>1 DEF Allowance, Spans, Unused
  <2>. HIDE DEF Allowance, Spans, Unused, Within, Passes
  <2>. QED
    BY <1>1, <1>2, <1>6, <2>2
<1>7. CASE r \in late
  <2>1. /\ outages' = outages
        /\ \/ local'[u] = local[u] /\ forgotten'[u] = forgotten[u]
           \/ local'[u] = 0 /\ forgotten'[u] = forgotten[u] + local[u]
    BY <1>0, <1>1, <1>7 DEF WritesBack
  <2>2. /\ Spans(u)' = Spans(u)
        /\ Unused(u)' = IF <<window, crashes>> \in outages[u] THEN Cap - Within(local'[u]) ELSE 0
        /\ Unused(u) = IF <<window, crashes>> \in outages[u] THEN Cap - Within(local[u]) ELSE 0
    BY <1>1, <2>1 DEF Spans, Unused
  <2>3. Within(local[u]) <= local[u] /\ local[u] \in Nat
    BY <1>0, CountedWithin
  <2>. HIDE DEF Allowance, Spans, Unused, Within, Passes
  <2>. QED
    BY <1>0, <1>1, <1>2, <1>3, <1>7, <2>1, <2>2, <2>3
<1>. QED
  BY <1>5, <1>6, <1>7

\* The present counts begin anew; the bill for them has been paid in full.
LEMMA CountsRestart ==
    ASSUME Typed, Typed', TablesInv, NEW u \in Users, Cap > 0,
           NextWindow \/ RedisLosesData \/ Restart
    PROVE  Allowance(u) <= Allowance(u)'
<1>1. /\ Spans(u) \in Nat /\ Cap * Spans(u) \in Nat /\ forgotten[u] \in Nat /\ Cap \in Nat
      /\ Within(used[u]) \in 0..Cap /\ Within(local[u]) \in 0..Cap /\ Unused(u) \in 0..Cap
      /\ Allowance(u) = Cap * Spans(u) + forgotten[u] + Within(used[u]) - Unused(u)
  BY AllowanceTyped, CapAssumption DEF Allowance, Typed
<1>2. /\ Within(used'[u]) \in 0..Cap /\ Unused(u)' \in 0..Cap
      /\ Allowance(u)' = Cap * Spans(u)' + forgotten'[u] + Within(used'[u]) - Unused(u)'
  BY AllowanceTypedNext DEF Allowance, Typed
<1>3. /\ window \in Nat /\ crashes \in Nat /\ losses \in Nat /\ Cardinality(outages[u]) \in Nat
      /\ outages[u] \subseteq (0..window) \X (0..crashes)
  <2>1. outages[u] \subseteq (0..MaxWindows) \X (0..MaxCrashes)
    BY DEF Typed, TypeOK
  <2>. QED
    BY <2>1, OutagesFinite, BoundsAssumption DEF Typed, TypeOK, TablesInv
<1>4. outages' = outages /\ forgotten' = forgotten
  BY DEF NextWindow, RedisLosesData, Restart, table
<1>5. CASE NextWindow \/ RedisLosesData
  <2>1. Spans(u)' = Spans(u) + 1
    BY <1>3, <1>4, <1>5 DEF NextWindow, RedisLosesData, table, clock, Spans
  <2>2. Cap * Spans(u)' = Cap * Spans(u) + Cap
    BY <1>1, <2>1, OneSpanMore
  <2>3. Unused(u)' <= Unused(u)
    <3>1. CASE NextWindow
      <4>1. <<window', crashes'>> \notin outages'[u]
        BY <1>3, <1>4, <3>1 DEF NextWindow
      <4>. QED
        BY <1>1, <4>1 DEF Unused
    <3>2. CASE RedisLosesData
      BY <1>1, <3>2 DEF RedisLosesData, table, clock, Unused
    <3>. QED
      BY <1>5, <3>1, <3>2
  <2>. HIDE DEF Allowance, Spans, Unused, Within
  <2>. QED
    BY <1>1, <1>2, <1>4, <2>2, <2>3
<1>6. CASE Restart
  <2>1. Spans(u)' = Spans(u) /\ Within(used'[u]) = Within(used[u])
    BY <1>4, <1>6 DEF Restart, Spans
  <2>2. <<window', crashes'>> \notin outages'[u]
    BY <1>3, <1>4, <1>6 DEF Restart
  <2>3. Unused(u)' = 0
    BY <2>2 DEF Unused
  <2>. HIDE DEF Allowance, Spans, Unused, Within
  <2>. QED
    BY <1>1, <1>2, <1>4, <2>1, <2>3
<1>. QED
  BY <1>5, <1>6

LEMMA NextKeepsTables ==
    ASSUME Typed, TablesInv, [Next]_vars
    PROVE  TablesInv'
<1>. SUFFICES ASSUME NEW u \in Users
              PROVE  /\ outages'[u] \subseteq (0..window') \X (0..crashes')
                     /\ <<window', crashes'>> \notin outages'[u] => local'[u] = 0
  BY DEF TablesInv
<1>0. /\ window \in Nat /\ crashes \in Nat /\ outages[u] \subseteq (0..window) \X (0..crashes)
      /\ <<window, crashes>> \notin outages[u] => local[u] = 0
      /\ outages \in [Users -> SUBSET ((0..MaxWindows) \X (0..MaxCrashes))]
      /\ local \in [Users -> 0..(Cap + 1)]
  BY BoundsAssumption DEF TablesInv, Typed, TypeOK
<1>1. CASE UNCHANGED <<local, outages, window, crashes>>
  BY <1>0, <1>1
<1>2. ASSUME NEW r \in Requests, CountLocally(r) \/ CountRaises(r)
      PROVE  /\ outages'[u] \subseteq (0..window') \X (0..crashes')
             /\ <<window', crashes'>> \notin outages'[u] => local'[u] = 0
  <2>1. UNCHANGED <<window, crashes>> /\ WritesBack(r) /\ Owner[r] \in Users
    BY <1>2, OwnerAssumption DEF CountLocally, CountRaises, clock
  <2>2. CASE r \notin late
    <3>1. CASE u = Owner[r]
      <4>1. outages'[u] = outages[u] \cup {<<window, crashes>>}
        BY <1>0, <2>1, <2>2, <3>1 DEF WritesBack
      <4>2. <<window, crashes>> \in (0..window) \X (0..crashes)
        BY <1>0
      <4>. QED
        BY <1>0, <2>1, <4>1, <4>2
    <3>2. CASE u # Owner[r]
      BY <1>0, <2>1, <2>2, <3>2 DEF WritesBack
    <3>. QED
      BY <3>1, <3>2
  <2>3. CASE r \in late
    <3>1. outages' = outages /\ local'[u] \in {0, local[u]}
      BY <2>1, <2>3 DEF WritesBack
    <3>. QED
      BY <1>0, <2>1, <3>1
  <2>. QED
    BY <2>2, <2>3
<1>3. CASE NextWindow \/ Restart
  <2>1. outages' = outages /\ local'[u] = 0
    BY <1>3 DEF NextWindow, Restart
  <2>2. window' \in Nat /\ crashes' \in Nat /\ window <= window' /\ crashes <= crashes'
    BY <1>0, <1>3 DEF NextWindow, Restart
  <2>3. (0..window) \X (0..crashes) \subseteq (0..window') \X (0..crashes')
    BY <1>0, <2>2
  <2>. QED
    BY <1>0, <2>1, <2>3
<1>4. CASE RedisLosesData
  BY <1>1, <1>4 DEF RedisLosesData, table, clock
<1>5. ASSUME NEW r \in Requests, ConsumeCap(r) \/ FallBack(r)
      PROVE  UNCHANGED <<local, outages, window, crashes>>
  BY <1>5 DEF ConsumeCap, FallBack, table, clock
<1>6. ASSUME NEW r \in Requests, Post(r) \/ Step(r), ~ConsumeCap(r), ~FallBack(r),
             ~CountLocally(r), ~CountRaises(r)
      PROVE  UNCHANGED <<local, outages, window, crashes>>
  BY <1>6 DEF Step, Post, LoadPending, ExpirePending, ClearPending, DiscardPending, Generate,
     GenerateFails, CheckPolicy, StagePending, ReleasePending, Execute, ExecuteRaises,
     AuditExecution, AuditRefusal, Reply, clock, limiter
<1>7. CASE (\E v \in Users : GrowStale(v)) \/ UNCHANGED vars
  BY <1>1, <1>7 DEF GrowStale, vars, clock, limiter
<1>. QED
  BY <1>1, <1>2, <1>3, <1>4, <1>5, <1>6, <1>7 DEF Next

LEMMA NextKeepsCap ==
    ASSUME Typed, SendInv, CapInv, [Next]_vars
    PROVE  CapInv'
<1>0. Typed' /\ TypeOK /\ TypeOK' /\ TablesInv
  BY NextTyped DEF Typed, CapInv
<1>1. TablesInv'
  BY <1>0, NextKeepsTables
<1>. SUFFICES ASSUME Cap > 0, NEW u \in Users
              PROVE  IsFiniteSet(Granted(u)') /\ Cardinality(Granted(u)') <= Allowance(u)'
  BY <1>1 DEF CapInv
<1>2. IsFiniteSet(Granted(u)) /\ Cardinality(Granted(u)) <= Allowance(u)
  BY DEF CapInv
<1>3. ASSUME NEW r \in Requests,
             ConsumeCap(r) \/ FallBack(r) \/ CountLocally(r) \/ CountRaises(r)
      PROVE  IsFiniteSet(Granted(u)') /\ Cardinality(Granted(u)') <= Allowance(u)'
  <2>1. /\ late' = late /\ Allowance(u) <= Allowance(u)'
        /\ pc'[r] \in {"release", "send"} /\ Owner[r] = u /\ r \notin late
              => Allowance(u) + 1 <= Allowance(u)'
    BY <1>0, <1>3, RedisCounts, TableCounts
  <2>2. /\ Granted(u)' \subseteq Granted(u) \cup {r}
        /\ (r \in late \/ Owner[r] # u \/ pc'[r] \notin {"release", "send"})
              => Granted(u)' \subseteq Granted(u)
    BY <1>3, <2>1, ChecksStep, OneGranted
  <2>. HIDE DEF Granted, Allowance
  <2>3. CASE r \in late \/ Owner[r] # u \/ pc'[r] \notin {"release", "send"}
    BY <1>0, <1>2, <2>1, <2>2, <2>3, AllowanceKeeps
  <2>4. CASE r \notin late /\ Owner[r] = u /\ pc'[r] \in {"release", "send"}
    BY <1>0, <1>2, <2>1, <2>2, <2>4, AllowanceGrows
  <2>. QED
    BY <2>3, <2>4
<1>4. CASE NextWindow \/ RedisLosesData \/ Restart
  <2>1. Granted(u)' \subseteq Granted(u)
    <3>1. sent' = sent /\ late \subseteq late'
      BY <1>4 DEF NextWindow, RedisLosesData, Restart
    <3>2. ASSUME NEW q \in Requests, pc'[q] \in {"release", "send"} PROVE pc[q] = pc'[q]
      BY <1>4, <3>2 DEF NextWindow, RedisLosesData, Restart
    <3>. QED
      BY <3>1, <3>2 DEF Granted, Sent
  <2>2. Allowance(u) <= Allowance(u)'
    BY <1>0, <1>4, CountsRestart
  <2>. QED
    BY <1>0, <1>2, <2>1, <2>2, AllowanceKeeps
<1>5. CASE /\ ~NextWindow /\ ~RedisLosesData /\ ~Restart
           /\ \A r \in Requests :
                 ~ConsumeCap(r) /\ ~FallBack(r) /\ ~CountLocally(r) /\ ~CountRaises(r)
  <2>1. Granted(u)' \subseteq Granted(u) /\ UNCHANGED <<limiter, window, crashes>>
    BY <1>5, NothingGranted
  <2>2. Allowance(u)' = Allowance(u)
    BY <2>1 DEF Allowance, Spans, Unused, limiter
  <2>3. Allowance(u) <= Allowance(u)'
    BY <1>0, <2>2, AllowanceTyped
  <2>. QED
    BY <1>0, <1>2, <2>1, <2>3, AllowanceKeeps
<1>. QED
  BY <1>3, <1>4, <1>5

LEMMA AlwaysSendInv == Spec => []SendInv
<1>1. Init => SendInv
  BY DEF Init, SendInv, Sent
<1>2. Typed /\ SendInv /\ [Next]_vars => SendInv'
  BY NextSends
<1>. QED
  BY <1>1, <1>2, AlwaysTyped, PTL DEF Spec

\* No more deliveries of a user than the caps of the windows elapsed allow, for
\* every cap, however many turns race for the last unit and whichever crash with
\* one in hand (action_policy.py 48-76).
THEOREM CapIsRespected == Spec => []CapHolds
<1>1. Init => CapInv
  <2>1. ASSUME Init PROVE TablesInv
    BY <2>1 DEF Init, TablesInv
  <2>2. ASSUME Init, Cap > 0, NEW u \in Users
        PROVE  IsFiniteSet(Granted(u)) /\ Cardinality(Granted(u)) <= Allowance(u)
    <3>1. Granted(u) = {} /\ outages[u] = {} /\ window = 0 /\ losses = 0
          /\ forgotten[u] = 0 /\ used[u] = 0
      BY <2>2 DEF Init, Granted, Sent
    <3>2. Spans(u) = 0
      BY <3>1, FS_EmptySet DEF Spans
    <3>3. Unused(u) = 0 /\ Within(0) = 0 /\ Cap * 0 = 0
      BY <2>2, <3>1, CapAssumption DEF Unused, Within
    <3>4. Allowance(u) = 0
      BY <3>1, <3>2, <3>3 DEF Allowance
    <3>. QED
      BY <3>1, <3>4, FS_EmptySet
  <2>. QED
    BY <2>1, <2>2 DEF CapInv
<1>2. Typed /\ SendInv /\ CapInv /\ [Next]_vars => CapInv'
  BY NextKeepsCap
<1>3. Typed /\ SendInv /\ CapInv => CapHolds
  <2>. SUFFICES ASSUME Typed, SendInv, CapInv, Cap > 0, NEW u \in Users
                PROVE  Cardinality({s \in sent : Owner[s[2]] = u /\ s[2] \notin late})
                           <= Cap * (window + 1 + losses + Cardinality(outages[u])) + forgotten[u]
    BY DEF CapHolds
  <2>. DEFINE mine == {s \in sent : Owner[s[2]] = u /\ s[2] \notin late}
              turn == [s \in mine |-> s[2]]
  <2>1. \A s \in mine : s \in Requests \X Requests /\ s[2] \in Granted(u)
    <3>. SUFFICES ASSUME NEW s \in mine
                  PROVE  s \in Requests \X Requests /\ s[2] \in Granted(u)
      OBVIOUS
    <3>1. s \in Requests \X Requests /\ s \in sent /\ Owner[s[2]] = u /\ s[2] \notin late
      BY DEF Typed, TypeOK
    <3>2. s[1] \in Requests /\ s[2] \in Requests /\ s = <<s[1], s[2]>>
      BY <3>1
    <3>3. Sent(s[2])
      BY <3>1, <3>2 DEF Sent
    <3>. QED
      BY <3>1, <3>2, <3>3 DEF Granted
  <2>2. \A s, p \in mine : s[2] = p[2] => s = p
    BY <2>1 DEF SendInv
  <2>3. turn \in Injection(mine, Granted(u))
    BY <2>1, <2>2 DEF Injection, IsInjective
  <2>4. IsFiniteSet(Granted(u)) /\ Cardinality(Granted(u)) <= Allowance(u)
    BY DEF CapInv
  <2>. HIDE DEF mine, turn
  <2>5. IsFiniteSet(mine) /\ Cardinality(mine) <= Cardinality(Granted(u))
    BY <2>3, <2>4, FS_Injection
  <2>6. Cardinality(mine) \in Nat /\ Cardinality(Granted(u)) \in Nat
    BY <2>4, <2>5, FS_CardinalityType
  <2>. DEFINE bound == Cap * (window + 1 + losses + Cardinality(outages[u])) + forgotten[u]
  <2>7. Allowance(u) \in Int /\ bound \in Int /\ Allowance(u) <= bound
    <3>1. /\ Spans(u) \in Nat /\ Cap * Spans(u) \in Nat /\ forgotten[u] \in Nat /\ Cap \in Nat
          /\ Within(used[u]) \in 0..Cap /\ Unused(u) \in 0..Cap /\ Allowance(u) \in Int
          /\ Allowance(u) = Cap * Spans(u) + forgotten[u] + Within(used[u]) - Unused(u)
      BY AllowanceTyped, CapAssumption DEF Allowance, Typed
    <3>2. Cap * (Spans(u) + 1) = Cap * Spans(u) + Cap
      BY <3>1, OneSpanMore
    <3>3. window + 1 + losses + Cardinality(outages[u]) = Spans(u) + 1
      <4>1. outages[u] \subseteq (0..MaxWindows) \X (0..MaxCrashes)
        BY DEF Typed, TypeOK
      <4>2. window \in Nat /\ losses \in Nat /\ Cardinality(outages[u]) \in Nat
        BY <4>1, OutagesFinite, BoundsAssumption DEF Typed, TypeOK
      <4>. QED
        BY <4>2 DEF Spans
    <3>4. bound = Cap * Spans(u) + Cap + forgotten[u]
      BY <3>2, <3>3
    <3>. HIDE DEF Allowance, Spans, Unused, Within, bound
    <3>. QED
      BY <3>1, <3>4
  <2>. HIDE DEF bound
  <2>8. Cardinality(mine) <= bound
    BY <2>4, <2>5, <2>6, <2>7
  <2>. QED
    BY <2>8 DEF mine, bound
<1>. QED
  BY <1>1, <1>2, <1>3, AlwaysSendInv, AlwaysTyped, PTL DEF Spec

-----------------------------------------------------------------------------
(* The audit trail.                                                        *)

\* A step that neither sends nor records moves no turn into or past an audit.
LEMMA QuietStep ==
    ASSUME Typed, [Next]_vars,
           \A r \in Requests : /\ ~Execute(r) /\ ~ExecuteRaises(r)
                              /\ ~AuditExecution(r) /\ ~AuditRefusal(r)
    PROVE  /\ UNCHANGED <<sent, audit>>
           /\ \A q \in Requests :
                 \/ pc'[q] = pc[q]
                 \/ pc[q] \in Unsent /\ pc'[q] \in Unsent \cup {"finish", "failed"}
                 \/ pc[q] \in {"ask", "finish"} /\ pc'[q] = "done"
                 \/ pc'[q] \in {"failed", "dead"}
<1>0. pc \in [Requests -> {"idle"} \cup Running \cup Ended]
  BY DEF Typed, TypeOK
<1>. USE DEF Unsent, Early
<1>1. ASSUME NEW r \in Requests, Post(r) \/ Step(r)
      PROVE  /\ UNCHANGED <<sent, audit>>
             /\ \A q \in Requests \ {r} : pc'[q] = pc[q]
             /\ \/ pc[r] \in Unsent /\ pc'[r] \in Unsent \cup {"finish", "failed"}
                \/ pc[r] \in {"ask", "finish"} /\ pc'[r] = "done"
                \/ pc'[r] = "failed"
  <2>1. UNCHANGED <<sent, audit>>
    BY <1>1, ChecksStep DEF Step, Post, LoadPending, ExpirePending, ClearPending, DiscardPending, Generate,
       GenerateFails, CheckPolicy, StagePending, CapStep, ReleasePending, Reply
  <2>2. \A q \in Requests \ {r} : pc'[q] = pc[q]
    BY <1>0, <1>1, ChecksStep DEF Step, Post, LoadPending, FindsPending, FindsExpired, FindsNothing,
       ExpirePending, ClearPending, DiscardPending, Generate, GenerateFails, CheckPolicy,
       StagePending, CapStep, ReleasePending, Reply, Goto
  <2>3. CASE Reply(r)
    BY <1>0, <2>1, <2>2, <2>3 DEF Reply, Goto
  <2>4. CASE ~Reply(r)
    <3>1. pc[r] \in Unsent /\ pc'[r] \in Unsent \cup {"finish", "failed"}
      BY <1>0, <1>1, <2>4, ChecksStep DEF Step, Post, LoadPending, FindsPending, FindsExpired, FindsNothing,
         ExpirePending, ClearPending, DiscardPending, Generate, GenerateFails, CheckPolicy,
         StagePending, CapStep, ReleasePending, Goto
    <3>. QED
      BY <2>1, <2>2, <3>1
  <2>. QED
    BY <2>3, <2>4
<1>2. CASE \/ \E u \in Users : GrowStale(u)
           \/ NextWindow \/ RedisLosesData \/ Restart \/ UNCHANGED vars
  BY <1>0, <1>2 DEF GrowStale, NextWindow, RedisLosesData, Restart, vars
<1>. QED
  BY <1>1, <1>2 DEF Next

LEMMA NextKeepsAudit ==
    ASSUME ~DbFaults, Typed, SendInv, AuditInv, [Next]_vars
    PROVE  AuditInv'
<1>0. /\ pc \in [Requests -> {"idle"} \cup Running \cup Ended]
      /\ acting \in [Requests -> Requests \cup {None}]
      /\ audit \subseteq Requests \X {"success", "failure", "denied_policy", "rate_limited"}
  BY DEF Typed, TypeOK
<1>1. SendInv'
  BY NextSends
<1>2. ASSUME NEW r \in Requests, Execute(r) \/ ExecuteRaises(r) PROVE AuditInv'
  <2>1. Executes(r) /\ acting[r] \in Requests
    BY <1>0, <1>2, ExecutionIsOne DEF Executes, Typed, ActsExist, Holding
  <2>2. /\ pc[r] = "send" /\ audit' = audit
        /\ \/ pc'[r] = "audit" /\ Sent(r)'
           \/ pc'[r] \in {"auditFailure", "failed"}
        /\ \A q \in Requests \ {r} : pc'[q] = pc[q] /\ (Sent(q)' <=> Sent(q))
    BY <1>0, <2>1 DEF Executes, Goto, Sent
  <2>3. Unrecorded(r) /\ Unrecorded(r)'
    BY <2>2 DEF AuditInv, Unsent, Unrecorded
  <2>4. ASSUME NEW q \in Requests
        PROVE  /\ pc'[q] \in Unsent \cup {"audit", "auditFailure"} => Unrecorded(q)'
               /\ pc'[q] = "audit" => Sent(q)'
               /\ pc'[q] = "finish" /\ Sent(q)' => Attempted(q)'
               /\ <<q, "success">> \in audit' => Sent(q)'
               /\ <<q, "denied_policy">> \in audit' \/ <<q, "rate_limited">> \in audit' => ~Sent(q)'
               /\ pc'[q] = "done" /\ Sent(q)' => Attempted(q)'
    <3>1. CASE q = r
      BY <2>2, <2>3, <3>1 DEF Unrecorded, Unsent, Early
    <3>2. CASE q # r
      BY <2>2, <3>2 DEF AuditInv, AuditMatchesDeliveries, Unrecorded, Attempted
    <3>. QED
      BY <3>1, <3>2
  <2>. QED
    BY <2>4 DEF AuditInv, AuditMatchesDeliveries
<1>3. ASSUME NEW r \in Requests, AuditExecution(r) \/ AuditRefusal(r) PROVE AuditInv'
  <2>1. PICK outcome \in {"success", "failure", "denied_policy", "rate_limited"} :
           /\ audit' = audit \cup {<<r, outcome>>}
           /\ pc[r] \in {"audit", "auditFailure", "deny", "limit"}
           /\ outcome = "success" => pc[r] = "audit"
           /\ outcome \in {"success", "failure"} <=> pc[r] \in {"audit", "auditFailure"}
    BY <1>3 DEF AuditExecution, AuditRefusal, Record
  <2>2. /\ pc'[r] = "finish" /\ sent' = sent
        /\ \A q \in Requests \ {r} : pc'[q] = pc[q]
    BY <1>0, <1>3 DEF AuditExecution, AuditRefusal, Goto
  <2>3. /\ Unrecorded(r)
        /\ outcome = "success" => Sent(r)
        /\ outcome \notin {"success", "failure"} => ~Sent(r)
    BY <2>1 DEF AuditInv, SendInv, Unsent
  <2>4. ASSUME NEW q \in Requests
        PROVE  /\ pc'[q] \in Unsent \cup {"audit", "auditFailure"} => Unrecorded(q)'
               /\ pc'[q] = "audit" => Sent(q)'
               /\ pc'[q] = "finish" /\ Sent(q)' => Attempted(q)'
               /\ <<q, "success">> \in audit' => Sent(q)'
               /\ <<q, "denied_policy">> \in audit' \/ <<q, "rate_limited">> \in audit' => ~Sent(q)'
               /\ pc'[q] = "done" /\ Sent(q)' => Attempted(q)'
    <3>0. Sent(q)' <=> Sent(q)
      BY <2>2 DEF Sent
    <3>1. CASE q = r
      <4>1. Sent(r) => outcome \in {"success", "failure"}
        BY <2>3
      <4>2. outcome \in {"success", "failure"} => Attempted(r)'
        BY <2>1 DEF Attempted
      <4>3. \A o : <<r, o>> \in audit' => o = outcome
        BY <2>1, <2>3 DEF Unrecorded
      <4>. QED
        BY <2>2, <2>3, <3>0, <3>1, <4>1, <4>2, <4>3 DEF Unsent, Early
    <3>2. CASE q # r
      <4>1. \A o : <<q, o>> \in audit' <=> <<q, o>> \in audit
        BY <2>1, <3>2
      <4>2. Unrecorded(q) => Unrecorded(q)'
        BY <2>1, <3>2 DEF Unrecorded
      <4>3. Attempted(q)' <=> Attempted(q)
        BY <4>1 DEF Attempted
      <4>. QED
        BY <2>2, <3>0, <3>2, <4>1, <4>2, <4>3 DEF AuditInv, AuditMatchesDeliveries
    <3>. QED
      BY <3>1, <3>2
  <2>. QED
    BY <2>4 DEF AuditInv, AuditMatchesDeliveries
<1>4. CASE \A r \in Requests : /\ ~Execute(r) /\ ~ExecuteRaises(r)
                              /\ ~AuditExecution(r) /\ ~AuditRefusal(r)
  <2>. SUFFICES ASSUME NEW q \in Requests
        PROVE  /\ pc'[q] \in Unsent \cup {"audit", "auditFailure"} => Unrecorded(q)'
               /\ pc'[q] = "audit" => Sent(q)'
               /\ pc'[q] = "finish" /\ Sent(q)' => Attempted(q)'
               /\ <<q, "success">> \in audit' => Sent(q)'
               /\ <<q, "denied_policy">> \in audit' \/ <<q, "rate_limited">> \in audit' => ~Sent(q)'
               /\ pc'[q] = "done" /\ Sent(q)' => Attempted(q)'
    BY DEF AuditInv, AuditMatchesDeliveries
  <2>1. /\ UNCHANGED <<sent, audit>>
        /\ \/ pc'[q] = pc[q]
           \/ pc[q] \in Unsent /\ pc'[q] \in Unsent \cup {"finish", "failed"}
           \/ pc[q] \in {"ask", "finish"} /\ pc'[q] = "done"
           \/ pc'[q] \in {"failed", "dead"}
    BY <1>4, QuietStep
  <2>2. /\ Sent(q)' <=> Sent(q)
        /\ Unrecorded(q)' <=> Unrecorded(q)
        /\ Attempted(q)' <=> Attempted(q)
    BY <2>1 DEF Sent, Unrecorded, Attempted
  <2>3. pc[q] \in Unsent => ~Sent(q)
    BY DEF SendInv
  <2>. QED
    BY <2>1, <2>2, <2>3 DEF AuditInv, AuditMatchesDeliveries, Unsent, Early
<1>. QED
  BY <1>2, <1>3, <1>4

\* The audit trail agrees with what left, for any interleaving and any restart,
\* as long as PostgreSQL answers: record_action swallows its own failures, and a
\* row it loses is one the trail cannot have (session_service.py 193-213, 247-268).
THEOREM AuditIsTrue ==
    ASSUME ~DbFaults
    PROVE  Spec => []AuditMatchesDeliveries
<1>1. Init => AuditInv
  BY DEF Init, AuditInv, AuditMatchesDeliveries, Sent, Unrecorded
<1>2. AuditInv => AuditMatchesDeliveries
  BY DEF AuditInv
<1>3. Typed /\ SendInv /\ AuditInv /\ [Next]_vars => AuditInv'
  BY NextKeepsAudit
<1>. QED
  BY <1>1, <1>2, <1>3, AlwaysSendInv, AlwaysTyped, PTL DEF Spec

-----------------------------------------------------------------------------
(* What the user was asked and what is staged.                             *)

\* What a step of a turn can reach: its own label and action, and the row and the
\* last prompt of its own session.
LEMMA StepReach ==
    ASSUME Typed, NEW r \in Requests, Step(r)
    PROVE  /\ \A q \in Requests \ {r} : pc'[q] = pc[q] /\ acting'[q] = acting[q]
           /\ \A v \in Users \ {Owner[r]} : pending'[v] = pending[v] /\ lastPrompt'[v] = lastPrompt[v]
           /\ UNCHANGED <<prompted, crashes, settings>>
<1>0. /\ pc \in [Requests -> {"idle"} \cup Running \cup Ended]
      /\ acting \in [Requests -> Requests \cup {None}]
      /\ pending \in [Users -> Requests \cup {None}]
      /\ lastPrompt \in [Users -> Requests \cup {None}] /\ Owner[r] \in Users
  BY OwnerAssumption DEF Typed, TypeOK
<1>00. \/ LoadPending(r) \/ ExpirePending(r) \/ ClearPending(r) \/ DiscardPending(r)
       \/ Generate(r) \/ GenerateFails(r) \/ CheckPolicy(r) \/ StagePending(r)
       \/ CapStep(r) \/ ReleasePending(r) \/ Execute(r) \/ ExecuteRaises(r)
       \/ AuditExecution(r) \/ AuditRefusal(r) \/ Reply(r)
  BY ChecksStep DEF Step
<1>. USE DEF LoadPending, FindsPending, FindsExpired, FindsNothing, ExpirePending,
     ClearPending, DiscardPending, DeletePending, Generate, GenerateFails, CheckPolicy,
     StagePending, CapStep, ReleasePending, Execute, ExecuteRaises, AuditExecution,
     AuditRefusal, Reply, Goto, store, ghost, clock
<1>1. \A q \in Requests \ {r} : pc'[q] = pc[q]
  BY <1>0, <1>00
<1>2. \A q \in Requests \ {r} : acting'[q] = acting[q]
  BY <1>0, <1>00
<1>3. \A v \in Users \ {Owner[r]} : pending'[v] = pending[v]
  BY <1>0, <1>00
<1>4. \A v \in Users \ {Owner[r]} : lastPrompt'[v] = lastPrompt[v]
  BY <1>0, <1>00
<1>5. UNCHANGED <<prompted, crashes, settings>>
  BY <1>00
<1>. QED
  BY <1>1, <1>2, <1>3, <1>4, <1>5

\* Where the step of a serial turn leaves the row of its session.
LEMMA StepFindsStore ==
    ASSUME ~DbFaults, Typed, OnceInv, NEW r \in Requests, FindsStore(r), Step(r)
    PROVE  /\ InFlight(r)' => FindsStore(r)'
           /\ ~InFlight(r)' => pending'[Owner[r]] = lastPrompt'[Owner[r]]
<1>0. /\ pc \in [Requests -> {"idle"} \cup Running \cup Ended]
      /\ acting \in [Requests -> Requests \cup {None}]
      /\ pending \in [Users -> Requests \cup {None}]
      /\ lastPrompt \in [Users -> Requests \cup {None}] /\ Owner[r] \in Users
  BY OwnerAssumption DEF Typed, TypeOK
<1>. USE <1>0 DEF FindsStore, InFlight, Running, Ended, store, ghost, Goto
<1>1. CASE LoadPending(r)
  BY <1>1 DEF LoadPending, FindsPending, FindsExpired, FindsNothing
<1>2. CASE ExpirePending(r)
  BY <1>2 DEF ExpirePending, DeletePending
<1>3. CASE ClearPending(r)
  BY <1>3 DEF ClearPending, DeletePending
<1>4. CASE DiscardPending(r)
  BY <1>4 DEF DiscardPending, DeletePending
<1>5. CASE ReleasePending(r)
  BY <1>5 DEF ReleasePending, DeletePending
<1>6. CASE Generate(r) \/ GenerateFails(r)
  BY <1>6 DEF Generate, GenerateFails
<1>7. CASE CheckPolicy(r)
  BY <1>7 DEF CheckPolicy
<1>8. CASE StagePending(r)
  BY <1>8 DEF StagePending
<1>9. CASE CapStep(r)
  BY <1>9 DEF CapStep
<1>10. CASE Execute(r) \/ ExecuteRaises(r)
  BY <1>10 DEF Execute, ExecuteRaises
<1>11. CASE AuditExecution(r) \/ AuditRefusal(r)
  BY <1>11 DEF AuditExecution, AuditRefusal
<1>12. CASE Reply(r)
  BY <1>12 DEF Reply
<1>. QED
  BY <1>1, <1>2, <1>3, <1>4, <1>5, <1>6, <1>7, <1>8, <1>9, <1>10, <1>11, <1>12, ChecksStep DEF Step

LEMMA NextKeepsPrompt ==
    ASSUME Serial, ~DbFaults, Typed, SendInv, OnceInv, PromptInv, [Next]_vars
    PROVE  PromptInv'
<1>0. /\ pc \in [Requests -> {"idle"} \cup Running \cup Ended]
      /\ prompted \in [Requests -> Requests \cup {None}]
      /\ Owner \in [Requests -> Users] /\ crashes \in Nat
  BY OwnerAssumption, BoundsAssumption DEF Typed, TypeOK
<1>. SUFFICES ASSUME crashes' = 0
              PROVE  /\ \A q \in Requests : InFlight(q)' => FindsStore(q)'
                     /\ PromptMatchesStaging'
                     /\ ConsentMatchesPrompt'
  BY DEF PromptInv
<1>1. ASSUME NEW r \in Requests, Step(r)
      PROVE  /\ \A q \in Requests : InFlight(q)' => FindsStore(q)'
             /\ PromptMatchesStaging'
             /\ ConsentMatchesPrompt'
  <2>0. /\ \A q \in Requests \ {r} : pc'[q] = pc[q] /\ acting'[q] = acting[q]
        /\ \A v \in Users \ {Owner[r]} : pending'[v] = pending[v] /\ lastPrompt'[v] = lastPrompt[v]
        /\ UNCHANGED <<prompted, crashes, settings>>
    BY <1>1, StepReach
  <2>1. InFlight(r)
    BY <1>1, ChecksStep DEF InFlight, Running, Step, LoadPending, ExpirePending, ClearPending,
       DiscardPending, Generate, GenerateFails, CheckPolicy, StagePending, CapStep,
       ReleasePending, Execute, ExecuteRaises, AuditExecution, AuditRefusal, Reply
  <2>2. /\ \A q \in Requests : InFlight(q) => FindsStore(q)
        /\ PromptMatchesStaging /\ ConsentMatchesPrompt
    BY <2>0 DEF PromptInv
  <2>3. \A q \in Requests \ {r} : InFlight(q) => Owner[q] # Owner[r]
    BY <2>1 DEF OnceInv, OneTurn
  <2>4. /\ InFlight(r)' => FindsStore(r)'
        /\ ~InFlight(r)' => pending'[Owner[r]] = lastPrompt'[Owner[r]]
    BY <1>1, <2>1, <2>2, StepFindsStore
  <2>5. ASSUME NEW q \in Requests, q # r, InFlight(q)' PROVE FindsStore(q)'
    <3>1. InFlight(q) /\ pc'[q] = pc[q] /\ acting'[q] = acting[q]
      BY <2>0, <2>5 DEF InFlight
    <3>2. pending'[Owner[q]] = pending[Owner[q]] /\ prompted'[q] = prompted[q]
      BY <1>0, <2>0, <2>3, <2>5, <3>1
    <3>. QED
      BY <2>2, <3>1, <3>2 DEF FindsStore
  <2>6. PromptMatchesStaging'
    <3>. SUFFICES ASSUME NEW v \in Users, \A q \in Requests : Owner[q] = v => ~InFlight(q)'
                  PROVE  pending'[v] = lastPrompt'[v]
      BY DEF PromptMatchesStaging
    <3>1. CASE v = Owner[r]
      BY <2>4, <3>1
    <3>2. CASE v # Owner[r]
      <4>1. \A q \in Requests : Owner[q] = v => ~InFlight(q)
        BY <2>0, <3>2 DEF InFlight
      <4>2. crashes = 0
        BY <2>0
      <4>. QED
        BY <2>0, <2>2, <3>2, <4>1, <4>2 DEF PromptMatchesStaging
    <3>. QED
      BY <3>1, <3>2
  <2>7. ConsentMatchesPrompt'
    <3>1. CASE sent' = sent
      BY <2>0, <2>2, <3>1 DEF ConsentMatchesPrompt
    <3>2. ASSUME NEW q \in Requests, Executes(q) PROVE ConsentMatchesPrompt'
      <4>1. acting[q] \in {q, prompted[q]}
        BY <2>2, <3>2 DEF Executes, FindsStore, InFlight, Running
      <4>2. sent' \in {sent, sent \cup {<<acting[q], q>>}}
        BY <3>2 DEF Executes
      <4>. QED
        BY <2>0, <2>2, <4>1, <4>2 DEF ConsentMatchesPrompt
    <3>. QED
      BY <3>1, <3>2, NextSends
  <2>. QED
    BY <2>4, <2>5, <2>6, <2>7
<1>2. ASSUME NEW r \in Requests, Post(r)
      PROVE  /\ \A q \in Requests : InFlight(q)' => FindsStore(q)'
             /\ PromptMatchesStaging'
             /\ ConsentMatchesPrompt'
  <2>1. /\ pc[r] = "idle" /\ pc'[r] = "load" /\ prompted'[r] = lastPrompt[Owner[r]]
        /\ \A q \in Requests \ {r} : pc'[q] = pc[q] /\ prompted'[q] = prompted[q]
        /\ \A q \in Requests : Owner[q] = Owner[r] => ~InFlight(q)
        /\ UNCHANGED <<pending, acting, sent, lastPrompt, crashes>>
    BY <1>0, <1>2 DEF Post, Goto, store, clock
  <2>2. /\ \A q \in Requests : InFlight(q) => FindsStore(q)
        /\ PromptMatchesStaging /\ ConsentMatchesPrompt /\ crashes = 0
    BY <2>1 DEF PromptInv
  <2>3. pending[Owner[r]] = lastPrompt[Owner[r]]
    BY <1>0, <2>1, <2>2 DEF PromptMatchesStaging
  <2>4. FindsStore(r)' /\ InFlight(r)'
    BY <2>1, <2>3 DEF FindsStore, InFlight, Running
  <2>5. ASSUME NEW q \in Requests, q # r, InFlight(q)' PROVE FindsStore(q)'
    <3>1. InFlight(q) /\ pc'[q] = pc[q]
      BY <2>1, <2>5 DEF InFlight
    <3>. QED
      BY <2>1, <2>2, <2>5, <3>1 DEF FindsStore
  <2>6. PromptMatchesStaging'
    <3>. SUFFICES ASSUME NEW v \in Users, \A q \in Requests : Owner[q] = v => ~InFlight(q)'
                  PROVE  pending[v] = lastPrompt[v]
      BY <2>1 DEF PromptMatchesStaging
    <3>1. \A q \in Requests : Owner[q] = v => ~InFlight(q)
      BY <2>1, <2>4 DEF InFlight
    <3>. QED
      BY <2>2, <3>1 DEF PromptMatchesStaging
  <2>7. ConsentMatchesPrompt'
    <3>1. ~Sent(r)
      BY <2>1 DEF SendInv, Unsent, Early
    <3>. QED
      BY <2>1, <2>2, <3>1 DEF ConsentMatchesPrompt, Sent
  <2>. QED
    BY <2>4, <2>5, <2>6, <2>7
<1>3. CASE \/ \E u \in Users : GrowStale(u)
           \/ NextWindow \/ RedisLosesData \/ UNCHANGED vars
  <2>1. UNCHANGED <<pending, pc, acting, sent, lastPrompt, prompted, crashes>>
    BY <1>3 DEF GrowStale, NextWindow, RedisLosesData, vars, store, ghost, clock
  <2>. QED
    BY <2>1 DEF PromptInv, FindsStore, InFlight, PromptMatchesStaging, ConsentMatchesPrompt
<1>4. CASE Restart
  BY <1>0, <1>4 DEF Restart
<1>. QED
  BY <1>1, <1>2, <1>3, <1>4 DEF Next

LEMMA AlwaysPromptInv ==
    ASSUME Serial, ~DbFaults
    PROVE  Spec => []PromptInv
<1>1. Init => PromptInv
  BY DEF Init, PromptInv, PromptMatchesStaging, ConsentMatchesPrompt, InFlight, Running
<1>2. Typed /\ SendInv /\ OnceInv /\ PromptInv /\ [Next]_vars => PromptInv'
  BY NextKeepsPrompt
<1>. QED
  BY <1>1, <1>2, AlwaysTyped, AlwaysSendInv, AlwaysOnce, PTL DEF Spec

\* Between the turns of a serial client the store holds exactly what the last
\* reply asked the user to confirm, for any number of sessions interleaved
\* (session_service.py 237-284, 355-360).
THEOREM PromptIsStaged ==
    ASSUME Serial, ~DbFaults
    PROVE  Spec => []PromptMatchesStaging
<1>1. PromptInv => PromptMatchesStaging
  BY DEF PromptInv, PromptMatchesStaging
<1>. QED
  BY <1>1, AlwaysPromptInv, PTL

\* What a serial client's yes executes is what the reply before it asked about,
\* as long as no process died on the way (session_service.py 234-236, 283-284).
THEOREM ConsentIsToThePrompt ==
    ASSUME Serial, ~DbFaults
    PROVE  Spec => []ConsentWithoutCrash
<1>1. PromptInv => ConsentWithoutCrash
  BY DEF PromptInv, ConsentWithoutCrash
<1>. QED
  BY <1>1, AlwaysPromptInv, PTL

-----------------------------------------------------------------------------
(* The gate implements SendLedger.                                         *)

LEMMA NextKeepsHandover ==
    ASSUME Serial, ~DbFaults, Typed, OnceInv, HandoverInv, [Next]_vars
    PROVE  HandoverInv'
<1>0. /\ pc \in [Requests -> {"idle"} \cup Running \cup Ended]
      /\ acting \in [Requests -> Requests \cup {None}]
      /\ Owner \in [Requests -> Users]
  BY OwnerAssumption DEF Typed, TypeOK
<1>1. ASSUME NEW r \in Requests, Step(r) PROVE HandoverInv'
  <2>0. /\ \A q \in Requests \ {r} : pc'[q] = pc[q] /\ acting'[q] = acting[q]
        /\ \A v \in Users \ {Owner[r]} : pending'[v] = pending[v]
        /\ settings' = settings
    BY <1>1, StepReach
  <2>1. InFlight(r)
    BY <1>1, ChecksStep DEF InFlight, Running, Step, LoadPending, ExpirePending, ClearPending,
       DiscardPending, Generate, GenerateFails, CheckPolicy, StagePending, CapStep,
       ReleasePending, Execute, ExecuteRaises, AuditExecution, AuditRefusal, Reply
  <2>2. pc'[r] = "clear" => LoadPending(r)
    BY <1>0, <1>1, ChecksStep DEF Step, ExpirePending, ClearPending, DiscardPending, Generate,
       GenerateFails, CheckPolicy, StagePending, CapStep, ReleasePending, Execute,
       ExecuteRaises, AuditExecution, AuditRefusal, Reply, Goto
  <2>3. pc'[r] = "clear" => acting'[r] = pending'[Owner[r]]
    BY <1>0, <2>2 DEF LoadPending, FindsPending, FindsExpired, FindsNothing, Goto, store
  <2>4. pc'[r] = "stage" => CheckPolicy(r)
    BY <1>0, <1>1, ChecksStep DEF Step, LoadPending, FindsPending, FindsExpired, FindsNothing, ExpirePending,
       ClearPending, DiscardPending, Generate, GenerateFails, StagePending, CapStep,
       ReleasePending, Execute, ExecuteRaises, AuditExecution, AuditRefusal, Reply, Goto
  <2>5. pc'[r] = "stage" => settings'.confirming
    BY <1>0, <2>4 DEF CheckPolicy, Goto, clock
  <2>6. ASSUME NEW q \in Requests, q # r
        PROVE  /\ pc'[q] = "clear" => acting'[q] = pending'[Owner[q]]
               /\ pc'[q] = "stage" => settings'.confirming
    <3>1. pc[q] = "clear" => Owner[q] # Owner[r]
      BY <2>1, <2>6 DEF OnceInv, OneTurn, InFlight, Running
    <3>. QED
      BY <1>0, <2>0, <2>6, <3>1 DEF HandoverInv
  <2>. QED
    BY <2>3, <2>5, <2>6 DEF HandoverInv
<1>2. ASSUME NEW r \in Requests, Post(r) PROVE HandoverInv'
  BY <1>0, <1>2 DEF Post, Goto, store, clock, HandoverInv
<1>3. CASE \/ \E u \in Users : GrowStale(u)
           \/ NextWindow \/ RedisLosesData \/ UNCHANGED vars
  BY <1>3 DEF GrowStale, NextWindow, RedisLosesData, vars, store, clock, HandoverInv
<1>4. CASE Restart
  <2>1. \A q \in Requests : pc'[q] \notin {"clear", "stage"}
    BY <1>0, <1>4 DEF Restart, InFlight, Running
  <2>. QED
    BY <2>1 DEF HandoverInv
<1>. QED
  BY <1>1, <1>2, <1>3, <1>4 DEF Next

\* All that the refinement argument knows of a reachable state.
GateInv == Typed /\ ConsentInv /\ OnceInv /\ HandoverInv

IsClaimed(a) == \E r \in Requests : Claims(r, a)
IsStaged(a) == pending[Owner[a]] = a

ReadsAs(a) ==
    /\ IsClaimed(a) => StatusOf(a) = "claimed" /\ Delivered(a) = {}
    /\ IsStaged(a) => StatusOf(a) = "staged"
    /\ Undecided(a) => StatusOf(a) = "new"
    /\ ~IsClaimed(a) /\ ~IsStaged(a) /\ ~Undecided(a) => StatusOf(a) = "closed"

\* The three states of an open proposal exclude one another and a delivery, so
\* each can be read off the code's variables alone.
LEMMA StatusRead ==
    ASSUME GateInv, NEW a \in Requests
    PROVE  ReadsAs(a)
<1>. USE OwnerAssumption, NoneAssumption
<1>0. /\ sent \subseteq Requests \X Requests /\ Owner[a] \in Users /\ a # None
  BY DEF GateInv, Typed, TypeOK
<1>1. Delivered(a) # {} => \E p \in Requests : <<a, p>> \in sent
  BY <1>0 DEF Delivered
<1>2. Delivered(a) # {} => ~IsClaimed(a) /\ ~IsStaged(a) /\ ~Undecided(a)
  BY <1>1 DEF GateInv, OnceInv, IsClaimed, IsStaged, Undecided, Claims, Early, Holding
<1>3. ASSUME NEW r \in Requests, Claims(r, a)
      PROVE  ~IsStaged(a) /\ ~Undecided(a)
  <2>1. /\ acting[r] = a /\ pc[r] \in {"check", "cap", "release", "send"}
        /\ r = a => ~settings.confirming
    BY <1>3 DEF Claims
  <2>2. r # a => Owner[a] = Owner[r] /\ pc[a] \in Staged
    BY <1>0, <2>1 DEF GateInv, ConsentInv, ActsAreOwn
  <2>3. pending[Owner[r]] # a
    BY <2>1 DEF GateInv, OnceInv, Holding
  <2>4. ~IsStaged(a)
    BY <2>2, <2>3 DEF IsStaged
  <2>5. ~Undecided(a)
    BY <2>1, <2>2 DEF Undecided, Staged, Ended
  <2>. QED
    BY <2>4, <2>5
<1>4. IsStaged(a) => ~Undecided(a)
  <2>1. IsStaged(a) => pc[a] \in Staged
    BY <1>0 DEF IsStaged, GateInv, ConsentInv, RowsAreOwn
  <2>. QED
    BY <2>1 DEF Undecided, Staged, Ended
<1>. QED
  BY <1>2, <1>3, <1>4 DEF StatusOf, IsClaimed, IsStaged, ReadsAs

LEMMA StatusReadNext ==
    ASSUME NEW a \in Requests
    PROVE  GateInv' => ReadsAs(a)'
<1>1. GateInv => ReadsAs(a)
  BY StatusRead
<1>. QED
  BY <1>1, PTL

\* Where a step takes the turn, the action it holds and the row of its session.
LEMMA StepMoves ==
    ASSUME Typed, NEW r \in Requests, Step(r)
    PROVE  /\ \/ pc[r] \in Early
              \/ /\ pc[r] = "check" /\ acting'[r] = acting[r]
                 /\ pc'[r] \notin Early \cup {"check"}
              \/ pc'[r] \notin Early \cup {"check", "stage"}
           /\ pc'[r] \in {"check", "cap", "release", "send"} =>
              \/ pc[r] = "clear" /\ acting'[r] = acting[r]
              \/ pc[r] = "generate" /\ acting'[r] = r
              \/ pc[r] \in {"check", "cap", "release"} /\ acting'[r] = acting[r]
           /\ \/ pending'[Owner[r]] \in {pending[Owner[r]], None}
              \/ pending'[Owner[r]] = r /\ pc[r] = "stage"
<1>0. /\ pc \in [Requests -> {"idle"} \cup Running \cup Ended]
      /\ acting \in [Requests -> Requests \cup {None}]
      /\ pending \in [Users -> Requests \cup {None}] /\ Owner[r] \in Users
  BY OwnerAssumption DEF Typed, TypeOK
<1>. USE <1>0 DEF Goto, store, Early
<1>1. CASE LoadPending(r)
  BY <1>1 DEF LoadPending, FindsPending, FindsExpired, FindsNothing
<1>2. CASE ExpirePending(r) \/ ClearPending(r) \/ DiscardPending(r) \/ ReleasePending(r)
  BY <1>2 DEF ExpirePending, ClearPending, DiscardPending, ReleasePending, DeletePending
<1>3. CASE Generate(r) \/ GenerateFails(r)
  BY <1>3 DEF Generate, GenerateFails
<1>4. CASE CheckPolicy(r) \/ CapStep(r)
  BY <1>4 DEF CheckPolicy, CapStep
<1>5. CASE StagePending(r)
  BY <1>5 DEF StagePending
<1>6. CASE Execute(r) \/ ExecuteRaises(r) \/ AuditExecution(r) \/ AuditRefusal(r) \/ Reply(r)
  BY <1>6 DEF Execute, ExecuteRaises, AuditExecution, AuditRefusal, Reply
<1>. QED
  BY <1>1, <1>2, <1>3, <1>4, <1>5, <1>6, ChecksStep DEF Step

\* An open proposal was open before: it is staged only by the turn that made it,
\* and claimed by that turn or by one that took its row.
LEMMA OpenWasOpen ==
    ASSUME Serial, ~DbFaults, GateInv, [Next]_vars, NEW a \in Requests
    PROVE  /\ Undecided(a)' => Undecided(a)
           /\ IsStaged(a)' => IsStaged(a) \/ Undecided(a)
           /\ IsClaimed(a)' => IsClaimed(a) \/ IsStaged(a) \/ Undecided(a)
<1>. USE OwnerAssumption, NoneAssumption
<1>0. /\ pc \in [Requests -> {"idle"} \cup Running \cup Ended]
      /\ acting \in [Requests -> Requests \cup {None}]
      /\ pending \in [Users -> Requests \cup {None}] /\ a # None
      /\ Owner \in [Requests -> Users]
  BY DEF GateInv, Typed, TypeOK
<1>1. ASSUME NEW r \in Requests, Step(r)
      PROVE  /\ Undecided(a)' => Undecided(a)
             /\ IsStaged(a)' => IsStaged(a) \/ Undecided(a)
             /\ IsClaimed(a)' => IsClaimed(a) \/ IsStaged(a) \/ Undecided(a)
  <2>0. /\ \A q \in Requests \ {r} : pc'[q] = pc[q] /\ acting'[q] = acting[q]
        /\ \A v \in Users \ {Owner[r]} : pending'[v] = pending[v]
        /\ settings' = settings
    BY <1>1, StepReach DEF GateInv
  <2>1. Undecided(r)' => Undecided(r)
    <3>1. \/ pc[r] \in Early
          \/ /\ pc[r] = "check" /\ acting'[r] = acting[r]
             /\ pc'[r] \notin Early \cup {"check"}
          \/ pc'[r] \notin Early \cup {"check", "stage"}
      BY <1>1, StepMoves DEF GateInv
    <3>. QED
      BY <2>0, <3>1 DEF Undecided, Early
  <2>2. Undecided(a)' => Undecided(a)
    BY <2>0, <2>1 DEF Undecided
  <2>3. \/ pending'[Owner[r]] \in {pending[Owner[r]], None}
        \/ pending'[Owner[r]] = r /\ pc[r] = "stage"
    BY <1>1, StepMoves DEF GateInv
  <2>4. pc[r] = "stage" => Undecided(r)
    BY DEF GateInv, OnceInv, HandoverInv, Undecided
  <2>5. IsStaged(a)' => IsStaged(a) \/ Undecided(a)
    BY <1>0, <2>0, <2>3, <2>4 DEF IsStaged
  <2>6. ASSUME Claims(r, a)' PROVE Claims(r, a) \/ IsStaged(a) \/ Undecided(a)
    <3>1. acting'[r] = a /\ pc'[r] \in {"check", "cap", "release", "send"}
          /\ (r = a => ~settings.confirming)
      BY <2>0, <2>6 DEF Claims
    <3>2. \/ pc[r] = "clear" /\ acting'[r] = acting[r]
          \/ pc[r] = "generate" /\ acting'[r] = r
          \/ pc[r] \in {"check", "cap", "release"} /\ acting'[r] = acting[r]
      BY <1>1, <3>1, StepMoves DEF GateInv
    <3>3. CASE pc[r] = "clear" /\ acting'[r] = acting[r]
      <4>1. pending[Owner[r]] = a
        BY <3>1, <3>3 DEF GateInv, HandoverInv
      <4>2. Owner[a] = Owner[r]
        BY <1>0, <4>1 DEF GateInv, ConsentInv, RowsAreOwn
      <4>. QED
        BY <4>1, <4>2 DEF IsStaged
    <3>4. CASE pc[r] = "generate" /\ acting'[r] = r
      BY <3>1, <3>4 DEF Undecided
    <3>5. CASE pc[r] \in {"check", "cap", "release"} /\ acting'[r] = acting[r]
      BY <3>1, <3>5 DEF Claims
    <3>. QED
      BY <3>2, <3>3, <3>4, <3>5
  <2>7. ASSUME NEW q \in Requests, q # r, Claims(q, a)' PROVE Claims(q, a)
    BY <2>0, <2>7 DEF Claims
  <2>. QED
    BY <2>2, <2>5, <2>6, <2>7 DEF IsClaimed
<1>2. ASSUME NEW r \in Requests, Post(r)
      PROVE  /\ Undecided(a)' => Undecided(a)
             /\ IsStaged(a)' => IsStaged(a)
             /\ IsClaimed(a)' => IsClaimed(a)
  <2>1. /\ pc[r] = "idle" /\ pc'[r] = "load" /\ \A q \in Requests \ {r} : pc'[q] = pc[q]
        /\ UNCHANGED <<pending, acting, settings>>
    BY <1>0, <1>2 DEF Post, Goto, store, clock
  <2>. QED
    BY <2>1 DEF Undecided, IsStaged, IsClaimed, Claims
<1>3. CASE \/ \E u \in Users : GrowStale(u)
           \/ NextWindow \/ RedisLosesData \/ UNCHANGED vars
  <2>1. UNCHANGED <<pc, pending, acting, settings>>
    BY <1>3 DEF GrowStale, NextWindow, RedisLosesData, vars, store, clock
  <2>. QED
    BY <2>1 DEF Undecided, IsStaged, IsClaimed, Claims
<1>4. CASE Restart
  <2>1. /\ UNCHANGED <<pending, acting>>
        /\ \A q \in Requests : pc'[q] = "dead" \/ (pc'[q] = pc[q] /\ ~InFlight(q))
    BY <1>0, <1>4 DEF Restart, store
  <2>2. Undecided(a)' => Undecided(a)
    BY <2>1 DEF Undecided, InFlight, Running
  <2>3. ~IsClaimed(a)'
    BY <2>1 DEF IsClaimed, Claims, InFlight, Running
  <2>. QED
    BY <2>1, <2>2, <2>3 DEF IsStaged
<1>. QED
  BY <1>1, <1>2, <1>3, <1>4 DEF Next

\* A delivery is the first of its proposal, and by the turn that claimed it.
LEMMA DeliveryIsClaimed ==
    ASSUME GateInv, SendInv, [Next]_vars, NEW a \in Requests, Delivered(a)' # Delivered(a)
    PROVE  IsClaimed(a) /\ Delivered(a)' # {} /\ Cardinality(Delivered(a)') = 1
<1>0. acting \in [Requests -> Requests \cup {None}] /\ sent \subseteq Requests \X Requests
  BY DEF GateInv, Typed, TypeOK
<1>1. PICK r \in Requests : Executes(r)
  <2>1. sent' # sent
    BY DEF Delivered
  <2>. QED
    BY <2>1, NextSends DEF GateInv
<1>2. /\ pc[r] = "send" /\ sent' \in {sent, sent \cup {<<acting[r], r>>}}
  BY <1>1 DEF Executes
<1>3. acting[r] = a /\ sent' = sent \cup {<<a, r>>}
  BY <1>2 DEF Delivered
<1>4. Claims(r, a)
  <2>1. r = a => ~settings.confirming
    BY <1>2, <1>3 DEF GateInv, ConsentInv, OwnIsStaged
  <2>. QED
    BY <1>2, <1>3, <2>1 DEF Claims
<1>5. Delivered(a) = {}
  BY <1>4, StatusRead DEF IsClaimed, ReadsAs
<1>6. Delivered(a)' = {<<a, r>>}
  BY <1>3, <1>5 DEF Delivered
<1>. QED
  BY <1>4, <1>6, FS_Singleton DEF IsClaimed

\* What a proposal has delivered is counted, and not delivering counts as zero.
LEMMA DeliveriesCounted ==
    ASSUME GateInv, NEW a \in Requests
    PROVE  /\ Cardinality(Delivered(a)) \in Nat
           /\ Delivered(a) = {} => Cardinality(Delivered(a)) = 0
<1>1. sent \subseteq Requests \X Requests
  BY DEF GateInv, Typed, TypeOK
<1>2. CASE Delivered(a) = {}
  BY <1>2, FS_EmptySet
<1>3. CASE Delivered(a) # {}
  <2>1. PICK p \in Requests : <<a, p>> \in sent
    BY <1>1, <1>3 DEF Delivered
  <2>2. \A s \in Delivered(a) : s = <<a, p>>
    BY <1>1, <2>1 DEF Delivered, GateInv, OnceInv, AtMostOneDelivery
  <2>3. Delivered(a) = {<<a, p>>}
    BY <2>1, <2>2 DEF Delivered
  <2>4. Cardinality({<<a, p>>}) = 1
    BY FS_Singleton
  <2>5. Cardinality(Delivered(a)) = 1
    BY <2>3, <2>4, Zenon
  <2>. QED
    BY <1>3, <2>5
<1>. QED
  BY <1>2, <1>3

\* Every step of the gate moves every proposal along the ledger, or not at all.
LEMMA StepIsLedgerStep ==
    ASSUME Serial, ~DbFaults, GateInv, GateInv', SendInv, [Next]_vars
    PROVE  Ledger!Next
<1>. SUFFICES ASSUME NEW a \in Requests
              PROVE  \/ Ledger!Stage(a) \/ Ledger!Claim(a) \/ Ledger!Deliver(a)
                     \/ Ledger!Drop(a) \/ Ledger!Rest(a)
  BY DEF Ledger!Next
<1>1. ReadsAs(a) /\ ReadsAs(a)'
  BY StatusRead, StatusReadNext
<1>2. /\ Undecided(a)' => Undecided(a)
      /\ IsStaged(a)' => IsStaged(a) \/ Undecided(a)
      /\ IsClaimed(a)' => IsClaimed(a) \/ IsStaged(a) \/ Undecided(a)
  BY OpenWasOpen
<1>. DEFINE status == [b \in Requests |-> StatusOf(b)]
            deliveries == [b \in Requests |-> Cardinality(Delivered(b))]
<1>3. /\ status[a] = StatusOf(a) /\ status'[a] = StatusOf(a)'
      /\ deliveries[a] = Cardinality(Delivered(a))
      /\ deliveries'[a] = Cardinality(Delivered(a)')
  OBVIOUS
<1>4. CASE Delivered(a)' = Delivered(a)
  <2>1. Ledger!Delivers(a, 0)
    BY <1>3, <1>4, DeliveriesCounted DEF Ledger!Delivers
  <2>2. CASE IsClaimed(a)'
    <3>1. StatusOf(a) \in {"new", "staged", "claimed"} /\ StatusOf(a)' = "claimed"
      BY <1>1, <1>2, <2>2 DEF ReadsAs
    <3>. QED
      BY <1>3, <2>1, <3>1 DEF Ledger!Claim, Ledger!Rest, Ledger!Moves
  <2>3. CASE IsStaged(a)'
    <3>1. StatusOf(a) \in {"new", "staged"} /\ StatusOf(a)' = "staged"
      BY <1>1, <1>2, <2>3 DEF ReadsAs
    <3>. QED
      BY <1>3, <2>1, <3>1 DEF Ledger!Stage, Ledger!Rest, Ledger!Moves
  <2>4. CASE Undecided(a)'
    <3>1. StatusOf(a) = "new" /\ StatusOf(a)' = "new"
      BY <1>1, <1>2, <2>4 DEF ReadsAs
    <3>. QED
      BY <1>3, <2>1, <3>1 DEF Ledger!Rest
  <2>5. CASE ~IsClaimed(a)' /\ ~IsStaged(a)' /\ ~Undecided(a)'
    <3>1. StatusOf(a) \in {"new", "staged", "claimed", "closed"} /\ StatusOf(a)' = "closed"
      BY <1>1, <2>5 DEF ReadsAs
    <3>. QED
      BY <1>3, <2>1, <3>1 DEF Ledger!Drop, Ledger!Rest, Ledger!Moves
  <2>. QED
    BY <2>2, <2>3, <2>4, <2>5
<1>5. CASE Delivered(a)' # Delivered(a)
  <2>1. IsClaimed(a) /\ Delivered(a)' # {} /\ Cardinality(Delivered(a)') = 1
    BY <1>5, DeliveryIsClaimed
  <2>2. StatusOf(a) = "claimed" /\ Cardinality(Delivered(a)) = 0
    BY <1>1, <2>1, DeliveriesCounted DEF ReadsAs
  <2>3. StatusOf(a)' = "closed"
    BY <2>1 DEF StatusOf
  <2>. QED
    BY <1>3, <2>1, <2>2, <2>3 DEF Ledger!Deliver, Ledger!Moves, Ledger!Delivers
<1>. QED
  BY <1>4, <1>5

\* No proposal has done anything in an initial state.
LEMMA InitIsLedgerInit == Init => Ledger!Init
<1>. SUFFICES ASSUME Init, NEW a \in Requests
              PROVE  StatusOf(a) = "new" /\ Cardinality(Delivered(a)) = 0
  BY DEF Ledger!Init
<1>1. Delivered(a) = {}
  BY DEF Init, Delivered
<1>2. StatusOf(a) = "new"
  BY <1>1, OwnerAssumption, NoneAssumption DEF Init, StatusOf, Claims, Undecided
<1>. QED
  BY <1>1, <1>2, FS_EmptySet

LEMMA AlwaysGateInv ==
    ASSUME Serial, ~DbFaults
    PROVE  Spec => [](GateInv /\ SendInv)
<1>1. Init => HandoverInv
  BY DEF Init, HandoverInv
<1>2. Typed /\ ConsentInv /\ OnceInv /\ HandoverInv /\ [Next]_vars => HandoverInv'
  BY NextKeepsHandover
<1>. QED
  BY <1>1, <1>2, AlwaysTyped, AlwaysConsent, AlwaysOnce, AlwaysSendInv, PTL DEF Spec, GateInv

\* The gate implements the ledger: whatever turns of different users interleave and
\* wherever the process is restarted, a proposal is staged at most once, claimed by
\* one turn, delivered at most once and by that turn, and closed for good
\* (session_service.py 237-284, 342-380).  The assumptions are those of the ledger's
\* run: a client that waits for each answer, and a store that answers.
THEOREM GateImplementsLedger ==
    ASSUME Serial, ~DbFaults
    PROVE  Spec => ImplementsLedger
<1>1. GateInv /\ GateInv' /\ SendInv /\ [Next]_vars => Ledger!Next
  BY StepIsLedgerStep
<1>. QED
  BY <1>1, InitIsLedgerInit, AlwaysGateInv, PTL DEF Spec, ImplementsLedger, Ledger!Spec
=============================================================================
