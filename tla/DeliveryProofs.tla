--------------------------- MODULE DeliveryProofs ---------------------------
(***************************************************************************)
(* Safety of the execution of business actions, for every number of        *)
(* concurrent actions, every directory and every behaviour of the network. *)
(***************************************************************************)
EXTENDS Delivery, TLAPS

-----------------------------------------------------------------------------
(* The breaker.                                                            *)

\* What a breaker operation leaves behind.
LEMMA BreakerTyped ==
    ASSUME NEW b \in Breakers
    PROVE  /\ Closed \in Breakers
           /\ OnSuccess(b) \in Breakers
           /\ OnFailure(b) \in Breakers
           /\ Elapsed(b) \in Breakers
BY FailMaxAssumption DEF Breakers, Closed, OnSuccess, OnFailure, Counted, Elapsed

LEMMA CountedTyped ==
    ASSUME NEW n \in 0..FailMax
    PROVE  Counted(n) \in 0..FailMax
BY FailMaxAssumption DEF Counted

\* The failures a breaker has counted never exceed the silence n of its
\* provider, and it leaves "closed" only at fail_max.
Backed(b, n) ==
    /\ b.failures <= n
    /\ b.gate # "closed" => b.failures = FailMax

LEMMA BreakerBacked ==
    ASSUME NEW b \in Breakers, NEW n \in 0..FailMax, Backed(b, n)
    PROVE  /\ Backed(Closed, 0)
           /\ Backed(OnSuccess(b), 0)
           /\ Backed(OnFailure(b), Counted(n))
           /\ Backed(b, Counted(n))
           /\ b.gate = "open" => Backed(Elapsed(b), n)
           /\ b.gate # "closed" => n = FailMax
BY FailMaxAssumption DEF Backed, Breakers, Closed, OnSuccess, OnFailure, Counted, Elapsed

-----------------------------------------------------------------------------
(* Type correctness.                                                       *)

LEMMA BatchTyped ==
    ASSUME TypeOK, NEW a \in Actions, NEW batch \in Batches(a)
    PROVE  batch \subseteq Members
BY DEF TypeOK, Batches, Left

LEMMA ProviderTyped == \A a \in Actions : Provider(a) \in Providers
BY DEF Provider, Providers

LEMMA GotoTyped ==
    ASSUME TypeOK, NEW a \in Actions, NEW l \in Labels, Goto(a, l)
    PROVE  pc' \in [Actions -> Labels]
BY DEF TypeOK, Goto

LEMMA FinishTyped ==
    ASSUME TypeOK, NEW a \in Actions, NEW r \in Results, Finish(a, r)
    PROVE  pc' \in [Actions -> Labels] /\ result' \in [Actions -> Results \cup {"none"}]
BY GotoTyped DEF TypeOK, Finish, Labels, Ended

LEMMA CodedTyped ==
    ASSUME TypeOK, NEW a \in Actions, NEW batch, NEW c \in Codes \cup {"none"},
           Coded(a, batch, c)
    PROVE  code' \in [Actions -> [Members -> Codes \cup {"none"}]]
BY DEF TypeOK, Coded

LEMMA ReturnTyped ==
    ASSUME TypeOK, NEW a \in Actions, NEW c \in Codes, Return(a, c)
    PROVE  /\ code' \in [Actions -> [Members -> Codes \cup {"none"}]]
           /\ current' \in [Actions -> SUBSET Members]
           /\ pc' \in [Actions -> Labels]
BY CodedTyped, GotoTyped DEF TypeOK, Return, Labels

LEMMA VerdictTyped ==
    ASSUME TypeOK, NEW p \in Providers
    PROVE  /\ Succeeds(p) \/ Fails(p) => breaker' \in [Providers -> Breakers]
           /\ Heard(p) \/ Unheard(p) \/ Succeeds(p) \/ Fails(p)
                => silent' \in [Providers -> 0..FailMax]
<1>1. breaker[p] \in Breakers /\ silent[p] \in 0..FailMax /\ 0 \in 0..FailMax
  BY FailMaxAssumption DEF TypeOK
<1>2. OnSuccess(breaker[p]) \in Breakers /\ OnFailure(breaker[p]) \in Breakers
  BY <1>1, BreakerTyped
<1>3. Counted(silent[p]) \in 0..FailMax
  BY <1>1, CountedTyped
<1>4. Succeeds(p) \/ Fails(p) => breaker' \in [Providers -> Breakers]
  BY <1>2 DEF TypeOK, Succeeds, Fails
<1>5. Heard(p) \/ Unheard(p) => silent' \in [Providers -> 0..FailMax]
  BY <1>1, <1>3 DEF TypeOK, Heard, Unheard
<1>. QED
  BY <1>4, <1>5 DEF Succeeds, Fails

LEMMA NextTyped == TypeOK /\ [Next]_vars => TypeOK'
<1>. SUFFICES ASSUME TypeOK, [Next]_vars PROVE TypeOK'
  OBVIOUS
<1>. USE DEF given, network
<1>1. ASSUME NEW a \in Actions, Start(a) PROVE TypeOK'
  <2>1. request' \in [Actions -> [channel : Channels, complete : BOOLEAN]]
    BY <1>1 DEF Start, TypeOK
  <2>2. pc' \in [Actions -> Labels] /\ result' \in [Actions -> Results \cup {"none"}]
    <3>1. CASE Finish(a, "missing")
      BY <3>1, FinishTyped DEF Results, Codes
    <3>2. CASE Goto(a, IF RestCrm THEN "lookup" ELSE "resolve") /\ UNCHANGED result
      BY <3>2, GotoTyped, CrmAssumption DEF TypeOK, Labels
    <3>. QED
      BY <1>1, <3>1, <3>2 DEF Start
  <2>. QED
    BY <1>1, <2>1, <2>2 DEF Start, TypeOK
<1>2. ASSUME NEW a \in Actions, LookUp(a) PROVE TypeOK'
  <2>1. pc' \in [Actions -> Labels] /\ result' \in [Actions -> Results \cup {"none"}]
    BY <1>2, GotoTyped, FinishTyped DEF LookUp, TypeOK, Labels, Results
  <2>. QED
    BY <1>2, <2>1 DEF LookUp, TypeOK
<1>3. ASSUME NEW a \in Actions, Resolve(a) PROVE TypeOK'
  <2>1. contact' \in [Actions -> [addresses : SUBSET Members, single : BOOLEAN]]
    <3>1. CASE UNCHANGED contact
      BY <3>1 DEF TypeOK
    <3>2. ASSUME NEW found \in SUBSET Members, NEW single \in BOOLEAN,
                 contact' = [contact EXCEPT ![a] = [addresses |-> found, single |-> single]]
          PROVE  contact' \in [Actions -> [addresses : SUBSET Members, single : BOOLEAN]]
      BY <3>2 DEF TypeOK
    <3>. QED
      BY <1>3, <3>1, <3>2 DEF Resolve
  <2>2. pc' \in [Actions -> Labels] /\ result' \in [Actions -> Results \cup {"none"}]
    BY <1>3, GotoTyped, FinishTyped DEF Resolve, TypeOK, Labels, Results
  <2>. QED
    BY <1>3, <2>1, <2>2 DEF Resolve, TypeOK
<1>4. ASSUME NEW a \in Actions, CrmAnswers(a) PROVE TypeOK'
  <2>1. breaker' \in [Providers -> Breakers] /\ silent' \in [Providers -> 0..FailMax]
    BY <1>4, VerdictTyped DEF CrmAnswers, Providers
  <2>2. pc' \in [Actions -> Labels]
    BY <1>4, GotoTyped DEF CrmAnswers, Labels
  <2>. QED
    BY <1>4, <2>1, <2>2 DEF CrmAnswers, TypeOK
<1>5. ASSUME NEW a \in Actions, CrmFails(a) \/ CrmTimesOut(a) PROVE TypeOK'
  <2>1. breaker' \in [Providers -> Breakers] /\ silent' \in [Providers -> 0..FailMax]
    BY <1>5, VerdictTyped DEF CrmFails, CrmTimesOut, TypeOK, Providers
  <2>2. pc' \in [Actions -> Labels] /\ result' \in [Actions -> Results \cup {"none"}]
    BY <1>5, FinishTyped DEF CrmFails, CrmTimesOut, Results
  <2>. QED
    BY <1>5, <2>1, <2>2 DEF CrmFails, CrmTimesOut, TypeOK
<1>6. ASSUME NEW a \in Actions, DeclineSend(a) \/ CircuitOpen(a) PROVE TypeOK'
  <2>1. code' \in [Actions -> [Members -> Codes \cup {"none"}]]
    BY <1>6, CodedTyped DEF DeclineSend, CircuitOpen, Codes
  <2>. QED
    BY <1>6, <2>1 DEF DeclineSend, CircuitOpen, TypeOK
<1>7. ASSUME NEW a \in Actions, BeginCall(a) PROVE TypeOK'
  <2>1. /\ current' \in [Actions -> SUBSET Members]
        /\ wire' \subseteq Actions \X SUBSET Members
    BY <1>7, BatchTyped DEF BeginCall, TypeOK
  <2>2. pc' \in [Actions -> Labels]
    BY <1>7, GotoTyped DEF BeginCall, Labels
  <2>. QED
    BY <1>7, <2>1, <2>2 DEF BeginCall, TypeOK
<1>8. ASSUME NEW a \in Actions, ProviderAccepts(a) PROVE TypeOK'
  BY <1>8 DEF ProviderAccepts, TypeOK
<1>9. ASSUME NEW a \in Actions, Return(a, "success") \/ Return(a, "rejected")
                                    \/ Return(a, "error"),
             CallSucceeds(a) \/ CallRejected(a) \/ CallFails(a) \/ CallTimesOut(a)
      PROVE TypeOK'
  <2>1. /\ code' \in [Actions -> [Members -> Codes \cup {"none"}]]
        /\ current' \in [Actions -> SUBSET Members]
        /\ pc' \in [Actions -> Labels]
    BY <1>9, ReturnTyped DEF Codes
  <2>2. silent' \in [Providers -> 0..FailMax]
    BY <1>9, VerdictTyped, ProviderTyped
       DEF CallSucceeds, CallRejected, CallFails, CallTimesOut
  <2>3. breaker' \in [Providers -> Breakers]
    BY <1>9, VerdictTyped, ProviderTyped, BreakerTyped
       DEF CallSucceeds, CallRejected, CallFails, CallTimesOut, OnSuccess, TypeOK
  <2>4. wire' \subseteq wire /\ UNCHANGED <<given, result, reached>>
    BY <1>9 DEF CallSucceeds, CallRejected, CallFails, CallTimesOut
  <2>. QED
    BY <2>1, <2>2, <2>3, <2>4 DEF TypeOK
<1>10. ASSUME NEW a \in Actions, CallRaises(a) PROVE TypeOK'
  <2>1. breaker' \in [Providers -> Breakers] /\ silent' \in [Providers -> 0..FailMax]
    BY <1>10, VerdictTyped, ProviderTyped DEF CallRaises
  <2>2. pc' \in [Actions -> Labels] /\ current' \in [Actions -> SUBSET Members]
    BY <1>10, GotoTyped DEF CallRaises, Labels, Ended, TypeOK
  <2>. QED
    BY <1>10, <2>1, <2>2 DEF CallRaises, TypeOK
<1>11. ASSUME NEW a \in Actions, Combine(a) PROVE TypeOK'
  <2>1. PICK r \in Results : Finish(a, r)
    <3>1. \A m \in contact[a].addresses : m \in Members /\ code[a][m] # "none"
      BY <1>11 DEF Combine, Left, TypeOK
    <3>2. \A m \in contact[a].addresses : code[a][m] \in Codes
      BY <3>1 DEF TypeOK
    <3>. QED
      BY <1>11, <3>2 DEF Combine, Results, Codes
  <2>. QED
    BY <1>11, <2>1, FinishTyped DEF Combine, TypeOK
<1>12. ASSUME NEW p \in Providers, Cool(p) PROVE TypeOK'
  BY <1>12, BreakerTyped DEF Cool, TypeOK
<1>13. CASE UNCHANGED vars
  BY <1>13 DEF vars, TypeOK
<1>14. ASSUME NEW a \in Actions,
              CallSucceeds(a) \/ CallRejected(a) \/ CallFails(a) \/ CallTimesOut(a)
       PROVE TypeOK'
  BY <1>9, <1>14 DEF CallSucceeds, CallRejected, CallFails, CallTimesOut
<1>. QED
  BY <1>1, <1>2, <1>3, <1>4, <1>5, <1>6, <1>7, <1>8, <1>10, <1>11, <1>12, <1>13, <1>14
     DEF Next, Proceed, Timer, Outcome

\* Every variable of an execution and of the breakers keeps its type
\* (orchestrator.py 164-218, resilience.py 32-110).
THEOREM DeliveryTyped == Spec => []TypeOK
<1>1. Init => TypeOK
  BY FailMaxAssumption DEF Init, TypeOK, Labels, Channels, Breakers, Closed
<1>. QED
  BY <1>1, NextTyped, PTL DEF Spec

-----------------------------------------------------------------------------
(* Breakers.                                                               *)

BreakersBacked == \A p \in Providers : Backed(breaker[p], silent[p])

LEMMA NextBacked == TypeOK /\ BreakersBacked /\ [Next]_vars => BreakersBacked'
<1>. SUFFICES ASSUME TypeOK, BreakersBacked, [Next]_vars PROVE BreakersBacked'
  OBVIOUS
<1>0. \A p \in Providers : breaker[p] \in Breakers /\ silent[p] \in 0..FailMax
  BY DEF TypeOK
<1>1. ASSUME NEW p \in Providers, Succeeds(p) PROVE BreakersBacked'
  BY <1>0, <1>1, BreakerBacked DEF BreakersBacked, Succeeds, Heard, TypeOK
<1>2. ASSUME NEW p \in Providers, Fails(p) PROVE BreakersBacked'
  BY <1>0, <1>2, BreakerBacked DEF BreakersBacked, Fails, Unheard, TypeOK
<1>3. ASSUME NEW p \in Providers, Unheard(p), UNCHANGED breaker PROVE BreakersBacked'
  BY <1>0, <1>3, BreakerBacked DEF BreakersBacked, Unheard, TypeOK
<1>4. ASSUME NEW a \in Actions, CallRejected(a) PROVE BreakersBacked'
  <2>1. OnSuccess(OnFailure(breaker[Provider(a)])) = Closed
    BY DEF OnSuccess
  <2>. QED
    BY <1>0, <1>4, <2>1, BreakerBacked, ProviderTyped
       DEF BreakersBacked, CallRejected, Heard, TypeOK
<1>5. ASSUME NEW p \in Providers, Cool(p) PROVE BreakersBacked'
  BY <1>0, <1>5, BreakerBacked DEF BreakersBacked, Cool, TypeOK
<1>6. CASE UNCHANGED <<breaker, silent>>
  BY <1>6 DEF BreakersBacked
<1>7. ASSUME NEW a \in Actions, Outcome(a) PROVE BreakersBacked'
  BY <1>1, <1>2, <1>4, <1>6, <1>7, ProviderTyped
     DEF Outcome, CrmAnswers, CrmFails, CallSucceeds, CallFails, CallRaises,
         ProviderAccepts, Providers
<1>8. ASSUME NEW a \in Actions, Timer(a) PROVE BreakersBacked'
  BY <1>3, <1>8, ProviderTyped DEF Timer, CrmTimesOut, CallTimesOut, Providers
<1>9. ASSUME NEW a \in Actions, Start(a) \/ Proceed(a) PROVE BreakersBacked'
  BY <1>6, <1>9
     DEF Start, Proceed, LookUp, Resolve, DeclineSend, CircuitOpen, BeginCall, Combine
<1>. QED
  BY <1>5, <1>6, <1>7, <1>8, <1>9 DEF Next, vars

\* Refusals never open a circuit, and neither does anything short of fail_max
\* calls in a row without a usable answer, however many actions share it
\* (resilience.py 53-66, whatsapp_connector.py 194-197).
THEOREM BreakersTripOnFailures == Spec => []TripsNeedFailures
<1>1. Init => BreakersBacked
  BY FailMaxAssumption DEF Init, BreakersBacked, Backed, Closed
<1>2. TypeOK /\ BreakersBacked => TripsNeedFailures
  BY BreakerBacked DEF TypeOK, BreakersBacked, TripsNeedFailures
<1>. QED
  BY <1>1, <1>2, NextBacked, DeliveryTyped, PTL DEF Spec

-----------------------------------------------------------------------------
(* What was sent, and what the user is told.                               *)

\* A contact of its own has one address, and nothing is coded before dispatch.
ContactShape(a) ==
    /\ contact[a].single => \E m \in Members : contact[a].addresses = {m}
    /\ pc[a] \in {"idle", "lookup", "crmCall", "resolve"}
         => \A m \in Members : code[a][m] = "none"

\* A call is for addresses without a result, of a complete request.
CallShape(a) ==
    /\ pc[a] # "call" => current[a] = {}
    /\ pc[a] = "call" =>
         /\ request[a].complete
         /\ request[a].channel = "whatsapp" => \E m \in Members : current[a] = {m}
         /\ \A m \in current[a] : code[a][m] = "none"

\* What may be said of m once a request for it has left and its call is over.
Tried(a, m) ==
    /\ request[a].complete
    /\ \/ code[a][m] \in {"error", "success"}
       \/ pc[a] = "raised" /\ code[a][m] = "none"

Outstanding(a) ==
    \A batch \in SUBSET Members : <<a, batch>> \in wire =>
        /\ batch # {}
        /\ \/ pc[a] = "call" /\ current[a] = batch
           \/ \A m \in batch : Tried(a, m)

Processed(a) ==
    \A m \in Reached(a) :
        \/ pc[a] = "call" /\ m \in current[a] /\ <<a, current[a]>> \notin wire
        \/ Tried(a, m)

\* A success is backed by what a provider accepted.
CodesBacked(a) ==
    \A m \in Members : code[a][m] = "success" =>
        IF request[a].channel = "whatsapp" THEN m \in Reached(a) ELSE Reached(a) # {}

ResultBacked(a) ==
    result[a] = "success" =>
        /\ pc[a] = "done"
        /\ Reached(a) # {}
        /\ request[a].channel = "whatsapp" => contact[a].addresses \subseteq Reached(a)

Sound(a) ==
    /\ ContactShape(a) /\ CallShape(a)
    /\ Outstanding(a) /\ Processed(a)
    /\ CodesBacked(a) /\ ResultBacked(a)

AllSound == \A a \in Actions : Sound(a)

\* Executions share the breakers and nothing else.
Same(b) ==
    /\ pc'[b] = pc[b] /\ request'[b] = request[b] /\ contact'[b] = contact[b]
    /\ code'[b] = code[b] /\ current'[b] = current[b] /\ result'[b] = result[b]
    /\ \A batch \in SUBSET Members : <<b, batch>> \in wire' <=> <<b, batch>> \in wire
    /\ \A m \in Members : <<b, m>> \in reached' <=> <<b, m>> \in reached

LEMMA OthersSame ==
    ASSUME TypeOK, NEW a \in Actions, NEW b \in Actions, b # a,
           Start(a) \/ Proceed(a) \/ Timer(a) \/ Outcome(a)
    PROVE  Same(b)
<1>. USE DEF TypeOK, Same, Goto, Finish, Coded, Return, given, network
<1>1. CASE Start(a) \/ LookUp(a) \/ Resolve(a) \/ Combine(a)
  BY <1>1 DEF Start, LookUp, Resolve, Combine
<1>2. CASE DeclineSend(a) \/ CircuitOpen(a) \/ BeginCall(a)
  BY <1>2 DEF DeclineSend, CircuitOpen, BeginCall
<1>3. CASE CrmAnswers(a) \/ CrmFails(a) \/ CrmTimesOut(a) \/ CallTimesOut(a)
  BY <1>3 DEF CrmAnswers, CrmFails, CrmTimesOut, CallTimesOut
<1>4. CASE CallSucceeds(a) \/ CallRejected(a) \/ CallFails(a) \/ CallRaises(a)
  BY <1>4 DEF CallSucceeds, CallRejected, CallFails, CallRaises
<1>5. CASE ProviderAccepts(a)
  BY <1>5 DEF ProviderAccepts
<1>. QED
  BY <1>1, <1>2, <1>3, <1>4, <1>5 DEF Proceed, Timer, Outcome

LEMMA SameSound ==
    ASSUME TypeOK, TypeOK', NEW b \in Actions, Sound(b), Same(b)
    PROVE  Sound(b)'
<1>1. Reached(b)' = Reached(b)
  BY DEF Reached, Same
<1>2. current[b] \in SUBSET Members
  BY DEF TypeOK
<1>3. (ContactShape(b) /\ CallShape(b))'
  BY DEF Sound, ContactShape, CallShape, Same
<1>4. \A m \in Members : Tried(b, m)' <=> Tried(b, m)
  BY DEF Tried, Same
<1>5. Outstanding(b)'
  BY <1>4 DEF Sound, Outstanding, Same
<1>6. Processed(b)'
  BY <1>1, <1>2, <1>4 DEF Sound, Processed, Same, Reached
<1>7. (CodesBacked(b) /\ ResultBacked(b))'
  BY <1>1 DEF Sound, CodesBacked, ResultBacked, Same
<1>. QED
  BY <1>3, <1>5, <1>6, <1>7 DEF Sound

\* Before dispatch nothing has been sent.
LEMMA EarlySound ==
    ASSUME TypeOK, TypeOK', NEW a \in Actions, Sound(a),
           \/ Start(a) \/ LookUp(a) \/ Resolve(a)
           \/ CrmAnswers(a) \/ CrmFails(a) \/ CrmTimesOut(a)
    PROVE  Sound(a)'
<1>1. pc[a] \in {"idle", "lookup", "crmCall", "resolve"}
  BY DEF Start, LookUp, Resolve, CrmAnswers, CrmFails, CrmTimesOut
<1>2. current[a] = {} /\ \A m \in Members : code[a][m] = "none" /\ ~Tried(a, m)
  BY <1>1 DEF Sound, ContactShape, CallShape, Tried
<1>3. Reached(a) = {} /\ \A batch \in SUBSET Members : <<a, batch>> \notin wire
  BY <1>1, <1>2 DEF Sound, Outstanding, Processed, Reached
<1>4. UNCHANGED <<code, current, wire, reached>>
  BY DEF Start, LookUp, Resolve, CrmAnswers, CrmFails, CrmTimesOut, given, network
<1>5. /\ pc'[a] \in {"lookup", "crmCall", "resolve", "dispatch", "done"}
      /\ result'[a] # "success"
  <2>1. result[a] # "success"
    BY <1>1 DEF Sound, ResultBacked
  <2>2. CASE Start(a) \/ LookUp(a)
    BY <2>1, <2>2, CrmAssumption DEF Start, LookUp, Goto, Finish, TypeOK
  <2>3. CASE Resolve(a)
    BY <2>1, <2>3 DEF Resolve, Goto, Finish, TypeOK
  <2>4. CASE CrmAnswers(a) \/ CrmFails(a) \/ CrmTimesOut(a)
    BY <2>1, <2>4 DEF CrmAnswers, CrmFails, CrmTimesOut, Goto, Finish, TypeOK
  <2>. QED
    BY <2>2, <2>3, <2>4
<1>6. contact'[a].single => \E m \in Members : contact'[a].addresses = {m}
  <2>1. CASE UNCHANGED contact
    BY <2>1 DEF Sound, ContactShape
  <2>2. ASSUME NEW found \in SUBSET Members, NEW single \in BOOLEAN,
               single => \E m \in Members : found = {m},
               contact' = [contact EXCEPT ![a] = [addresses |-> found, single |-> single]]
        PROVE  contact'[a].single => \E m \in Members : contact'[a].addresses = {m}
    BY <2>2 DEF TypeOK
  <2>. QED
    BY <2>1, <2>2
       DEF Start, LookUp, Resolve, CrmAnswers, CrmFails, CrmTimesOut, given
<1>7. (ContactShape(a) /\ CallShape(a))'
  BY <1>2, <1>4, <1>5, <1>6 DEF ContactShape, CallShape
<1>8. (Outstanding(a) /\ Processed(a))'
  BY <1>3, <1>4 DEF Outstanding, Processed, Reached
<1>9. (CodesBacked(a) /\ ResultBacked(a))'
  BY <1>2, <1>4, <1>5 DEF CodesBacked, ResultBacked
<1>. QED
  BY <1>7, <1>8, <1>9 DEF Sound

\* What the connector answers by itself is about addresses without a result.
LEMMA AnsweredSound ==
    ASSUME TypeOK, TypeOK', NEW a \in Actions, Sound(a), DeclineSend(a) \/ CircuitOpen(a)
    PROVE  Sound(a)'
<1>1. /\ pc[a] = "dispatch"
      /\ UNCHANGED <<pc, request, contact, current, result, wire, reached>>
  BY DEF DeclineSend, CircuitOpen, given, network
<1>2. PICK batch \in Batches(a), c \in {"notConfigured", "missing", "error"} :
        Coded(a, batch, c)
  BY DEF DeclineSend, CircuitOpen
<1>3. \A m \in batch : code[a][m] = "none"
  BY <1>2 DEF Batches, Left
<1>4. \A m \in Members : code'[a][m] = IF m \in batch THEN c ELSE code[a][m]
  BY <1>2 DEF Coded, TypeOK
<1>5. \A m \in Members : Tried(a, m) => Tried(a, m)'
  BY <1>1, <1>3, <1>4 DEF Tried
<1>6. (ContactShape(a) /\ CallShape(a))'
  BY <1>1 DEF Sound, ContactShape, CallShape
<1>7. (Outstanding(a) /\ Processed(a))'
  BY <1>1, <1>5 DEF Sound, Outstanding, Processed, Reached
<1>8. (CodesBacked(a) /\ ResultBacked(a))'
  BY <1>1, <1>4 DEF Sound, CodesBacked, ResultBacked, Reached
<1>. QED
  BY <1>6, <1>7, <1>8 DEF Sound

LEMMA BeginSound ==
    ASSUME TypeOK, TypeOK', NEW a \in Actions, Sound(a), BeginCall(a)
    PROVE  Sound(a)'
<1>1. /\ pc[a] = "dispatch" /\ request[a].complete
      /\ UNCHANGED <<request, contact, code, result, reached>>
  BY DEF BeginCall, Ready, given
<1>2. PICK batch \in Batches(a) : /\ batch # {}
                                 /\ current' = [current EXCEPT ![a] = batch]
                                 /\ wire' = wire \cup {<<a, batch>>}
  BY DEF BeginCall
<1>3. pc'[a] = "call" /\ current'[a] = batch
  BY <1>2 DEF BeginCall, Goto, TypeOK
<1>4. /\ batch \subseteq Members
      /\ \A m \in batch : code[a][m] = "none"
      /\ request[a].channel = "whatsapp" => \E m \in Members : batch = {m}
  BY <1>2, BatchTyped DEF Batches, Left, TypeOK
<1>5. \A m \in Members : Tried(a, m) => Tried(a, m)'
  BY <1>1 DEF Tried
<1>6. (ContactShape(a) /\ CallShape(a))'
  BY <1>1, <1>3, <1>4 DEF Sound, ContactShape, CallShape
<1>7. (Outstanding(a) /\ Processed(a))'
  BY <1>1, <1>2, <1>3, <1>5 DEF Sound, Outstanding, Processed, Reached
<1>8. (CodesBacked(a) /\ ResultBacked(a))'
  BY <1>1 DEF Sound, CodesBacked, ResultBacked, Reached
<1>. QED
  BY <1>6, <1>7, <1>8 DEF Sound

LEMMA AcceptSound ==
    ASSUME TypeOK, TypeOK', NEW a \in Actions, Sound(a), ProviderAccepts(a)
    PROVE  Sound(a)'
<1>1. UNCHANGED <<pc, request, contact, code, current, result>>
  BY DEF ProviderAccepts, given
<1>2. PICK batch \in SUBSET Members, some \in SUBSET Members :
        /\ some \subseteq batch
        /\ <<a, batch>> \in wire
        /\ wire' = wire \ {<<a, batch>>}
        /\ reached' = reached \cup ({a} \X some)
  <2>1. PICK w \in wire : /\ w[1] = a
                         /\ wire' = wire \ {w}
                         /\ \E some \in SUBSET w[2] \ {{}} :
                               reached' = reached \cup ({a} \X some)
    BY DEF ProviderAccepts
  <2>2. w = <<a, w[2]>> /\ w[2] \in SUBSET Members
    BY <2>1 DEF TypeOK
  <2>. QED
    BY <2>1, <2>2
<1>3. Reached(a) \subseteq Reached(a)' /\ Reached(a)' \subseteq Reached(a) \cup some
  BY <1>2 DEF Reached
<1>4. \A m \in Members : Tried(a, m) => Tried(a, m)'
  BY <1>1 DEF Tried
<1>5. (ContactShape(a) /\ CallShape(a))'
  BY <1>1 DEF Sound, ContactShape, CallShape
<1>6. Outstanding(a)'
  BY <1>1, <1>2, <1>4 DEF Sound, Outstanding
<1>7. Processed(a)'
  <2>1. ASSUME NEW m \in Reached(a)
        PROVE  (pc[a] = "call" /\ m \in current[a] /\ <<a, current[a]>> \notin wire)'
               \/ Tried(a, m)'
    BY <1>1, <1>2, <1>4 DEF Sound, Processed, Reached
  <2>2. ASSUME NEW m \in some
        PROVE  (pc[a] = "call" /\ m \in current[a] /\ <<a, current[a]>> \notin wire)'
               \/ Tried(a, m)'
    BY <1>1, <1>2, <1>4 DEF Sound, Outstanding
  <2>. QED
    BY <1>3, <2>1, <2>2 DEF Processed
<1>8. (CodesBacked(a) /\ ResultBacked(a))'
  BY <1>1, <1>3 DEF Sound, CodesBacked, ResultBacked
<1>. QED
  BY <1>5, <1>6, <1>7, <1>8 DEF Sound

\* The end of a call: a refusal takes its request off the wire, a success has
\* been accepted for somebody, an error says nothing about the request.
LEMMA ReturnSound ==
    ASSUME TypeOK, TypeOK', NEW a \in Actions, Sound(a), pc[a] = "call",
           NEW c \in {"success", "rejected", "error"}, Return(a, c),
           UNCHANGED <<request, contact, result, reached>>, wire' \subseteq wire,
           c = "rejected" => /\ <<a, current[a]>> \in wire
                             /\ wire' = wire \ {<<a, current[a]>>},
           c = "success" => \E m \in current[a] : m \in Reached(a)
    PROVE  Sound(a)'
<1>1. pc'[a] = "dispatch" /\ current'[a] = {}
  BY DEF Return, Goto, TypeOK
<1>2. \A m \in Members : code'[a][m] = IF m \in current[a] THEN c ELSE code[a][m]
  BY DEF Return, Coded, TypeOK
<1>3. /\ current[a] \subseteq Members
      /\ \A m \in current[a] : code[a][m] = "none"
      /\ request[a].complete
      /\ request[a].channel = "whatsapp" => \E m \in Members : current[a] = {m}
  BY DEF Sound, CallShape, TypeOK
<1>4. \A m \in Members : Tried(a, m) => Tried(a, m)'
  BY <1>2, <1>3 DEF Tried
<1>5. c # "rejected" => \A m \in current[a] : Tried(a, m)'
  BY <1>2, <1>3 DEF Tried
<1>6. (ContactShape(a) /\ CallShape(a))'
  BY <1>1 DEF Sound, ContactShape, CallShape
<1>7. Outstanding(a)'
  BY <1>4, <1>5 DEF Sound, Outstanding
<1>8. Reached(a)' = Reached(a)
  BY DEF Reached
<1>9. Processed(a)'
  <2>1. ASSUME NEW m \in Reached(a) PROVE Tried(a, m)'
    BY <1>4, <1>5 DEF Sound, Processed, Reached
  <2>. QED
    BY <1>8, <2>1 DEF Processed
<1>10. CodesBacked(a)'
  BY <1>2, <1>3, <1>8 DEF Sound, CodesBacked
<1>11. ResultBacked(a)'
  BY DEF Sound, ResultBacked
<1>. QED
  BY <1>6, <1>7, <1>9, <1>10, <1>11 DEF Sound

LEMMA VerdictSound ==
    ASSUME TypeOK, TypeOK', NEW a \in Actions, Sound(a),
           CallSucceeds(a) \/ CallRejected(a) \/ CallFails(a) \/ CallTimesOut(a)
    PROVE  Sound(a)'
<1>1. /\ pc[a] = "call" /\ wire' \subseteq wire
      /\ UNCHANGED <<request, contact, result, reached>>
  BY DEF CallSucceeds, CallRejected, CallFails, CallTimesOut, given, network
<1>2. CASE CallSucceeds(a)
  <2>1. \E m \in current[a] : m \in Reached(a)
    BY <1>2 DEF CallSucceeds, Reached, TypeOK
  <2>. QED
    BY <1>1, <1>2, <2>1, ReturnSound DEF CallSucceeds
<1>3. CASE CallRejected(a)
  BY <1>1, <1>3, ReturnSound DEF CallRejected
<1>4. CASE CallFails(a) \/ CallTimesOut(a)
  BY <1>1, <1>4, ReturnSound DEF CallFails, CallTimesOut
<1>. QED
  BY <1>2, <1>3, <1>4

LEMMA RaiseSound ==
    ASSUME TypeOK, TypeOK', NEW a \in Actions, Sound(a), CallRaises(a)
    PROVE  Sound(a)'
<1>1. /\ pc[a] = "call" /\ pc'[a] = "raised" /\ current'[a] = {}
      /\ UNCHANGED <<request, contact, code, result, wire, reached>>
  BY DEF CallRaises, Goto, TypeOK, given, network
<1>2. /\ current[a] \subseteq Members /\ request[a].complete
      /\ \A m \in current[a] : code[a][m] = "none"
  BY <1>1 DEF Sound, CallShape, TypeOK
<1>3. \A m \in Members : Tried(a, m) \/ m \in current[a] => Tried(a, m)'
  BY <1>1, <1>2 DEF Tried
<1>4. (ContactShape(a) /\ CallShape(a))'
  BY <1>1 DEF Sound, ContactShape, CallShape
<1>5. (Outstanding(a) /\ Processed(a))'
  BY <1>1, <1>2, <1>3 DEF Sound, Outstanding, Processed, Reached
<1>6. (CodesBacked(a) /\ ResultBacked(a))'
  BY <1>1 DEF Sound, CodesBacked, ResultBacked, Reached
<1>. QED
  BY <1>4, <1>5, <1>6 DEF Sound

LEMMA CombineSound ==
    ASSUME TypeOK, TypeOK', NEW a \in Actions, Sound(a), Combine(a)
    PROVE  Sound(a)'
<1>1. /\ pc[a] = "dispatch" /\ pc'[a] = "done"
      /\ UNCHANGED <<request, contact, code, current, wire, reached>>
  BY DEF Combine, Finish, Goto, TypeOK, given, network
<1>2. \A m \in Members : Tried(a, m) => Tried(a, m)'
  BY <1>1 DEF Tried
<1>3. (ContactShape(a) /\ CallShape(a))'
  BY <1>1 DEF Sound, ContactShape, CallShape
<1>4. (Outstanding(a) /\ Processed(a))'
  BY <1>1, <1>2 DEF Sound, Outstanding, Processed, Reached
<1>5. contact[a].addresses \subseteq Members /\ Reached(a)' = Reached(a)
  BY <1>1 DEF TypeOK, Reached
<1>6. ASSUME result'[a] = "success"
      PROVE  /\ \E m \in contact[a].addresses : code[a][m] = "success"
             /\ request[a].channel = "whatsapp" =>
                  \A m \in contact[a].addresses : code[a][m] = "success"
  <2>. DEFINE codes == {code[a][m] : m \in contact[a].addresses}
  <2>1. CASE codes = {"success"}
    BY <2>1
  <2>2. CASE codes # {"success"}
    <3>1. ~(request[a].channel = "whatsapp" /\ ~contact[a].single) /\ "success" \in codes
      BY <1>6, <2>2 DEF Combine, Finish, TypeOK
    <3>2. CASE contact[a].single
      BY <3>1, <3>2 DEF Sound, ContactShape
    <3>. QED
      BY <3>1, <3>2 DEF TypeOK
  <2>. QED
    BY <2>1, <2>2
<1>7. (CodesBacked(a) /\ ResultBacked(a))'
  BY <1>1, <1>5, <1>6 DEF Sound, CodesBacked, ResultBacked
<1>. QED
  BY <1>3, <1>4, <1>7 DEF Sound

LEMMA NextSound == TypeOK /\ AllSound /\ [Next]_vars => AllSound'
<1>. SUFFICES ASSUME TypeOK, AllSound, [Next]_vars, TypeOK', NEW b \in Actions
              PROVE  Sound(b)'
  BY NextTyped DEF AllSound
<1>. Sound(b)
  BY DEF AllSound
<1>1. CASE UNCHANGED vars \/ \E p \in Providers : Cool(p)
  <2>1. Same(b)
    BY <1>1 DEF Cool, Same, vars, given, network
  <2>. QED
    BY <2>1, SameSound
<1>2. ASSUME NEW a \in Actions, Start(a) \/ Proceed(a) \/ Timer(a) \/ Outcome(a)
      PROVE  Sound(b)'
  <2>1. CASE a # b
    BY <1>2, <2>1, OthersSame, SameSound
  <2>2. CASE a = b
    BY <1>2, <2>2, EarlySound, AnsweredSound, BeginSound, AcceptSound, VerdictSound,
       RaiseSound, CombineSound
       DEF Proceed, Timer, Outcome
  <2>. QED
    BY <2>1, <2>2
<1>. QED
  BY <1>1, <1>2 DEF Next

LEMMA AlwaysSound == Spec => []AllSound
<1>1. Init => AllSound
  BY DEF Init, AllSound, Sound, ContactShape, CallShape, Outstanding, Processed,
         CodesBacked, ResultBacked, Reached
<1>. QED
  BY <1>1, NextSound, DeliveryTyped, PTL DEF Spec

\* The user is told "sent" only of messages a provider accepted: all numbers of
\* a WhatsApp send, somebody's for an e-mail (orchestrator.py 270-285).
THEOREM SuccessBacked == Spec => []SuccessIsDelivered
<1>1. AllSound => SuccessIsDelivered
  BY DEF AllSound, Sound, ResultBacked, SuccessIsDelivered
<1>. QED
  BY <1>1, AlwaysSound, PTL

\* A refusal is final: nothing of it is, or comes to be, delivered, however late
\* the network (whatsapp_connector.py 194-203).
THEOREM RefusedStaysUnsent == Spec => []DeclinedIsNotSent
<1>1. TypeOK /\ AllSound => DeclinedIsNotSent
  <2>. SUFFICES ASSUME TypeOK, AllSound, NEW a \in Actions, NEW m \in Reached(a)
                PROVE  code[a][m] \notin {"rejected", "notConfigured", "missing"}
    BY DEF DeclinedIsNotSent, Reached
  <2>. QED
    BY DEF AllSound, Sound, CallShape, Processed, Tried
<1>. QED
  BY <1>1, AlwaysSound, DeliveryTyped, PTL

\* An incomplete action passes no gate and sends nothing
\* (session_service.py 338-341).
THEOREM IncompleteNeverSends == Spec => []UngatedNeverSends
<1>1. TypeOK /\ AllSound => UngatedNeverSends
  <2>. SUFFICES ASSUME TypeOK, AllSound, NEW a \in Actions, ~request[a].complete
                PROVE  /\ Reached(a) = {} /\ result[a] # "success"
                       /\ \A w \in wire : w[1] # a
    BY DEF UngatedNeverSends
  <2>1. Reached(a) = {}
    BY DEF AllSound, Sound, CallShape, Processed, Tried, Reached
  <2>2. result[a] # "success"
    BY <2>1 DEF AllSound, Sound, ResultBacked
  <2>3. \A w \in wire : w[1] # a
    <3>1. \A batch \in SUBSET Members : <<a, batch>> \notin wire
      BY DEF AllSound, Sound, CallShape, Outstanding, Tried
    <3>2. \A w \in wire : w[2] \in SUBSET Members /\ w = <<w[1], w[2]>>
      BY DEF TypeOK
    <3>. QED
      BY <3>1, <3>2
  <2>. QED
    BY <2>1, <2>2, <2>3
<1>. QED
  BY <1>1, AlwaysSound, DeliveryTyped, PTL
=============================================================================
