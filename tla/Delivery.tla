------------------------------ MODULE Delivery ------------------------------
(***************************************************************************)
(* The execution of a business action: execute_action_async of             *)
(* app/connectors/orchestrator.py with the CRM lookup, the WhatsApp and    *)
(* the e-mail connector, and the circuit breakers all actions share.       *)
(*                                                                         *)
(* The network is asynchronous: a request handed to a provider stays on    *)
(* the wire until the provider accepts or refuses it, which may be after   *)
(* the caller has given up on it.                                          *)
(***************************************************************************)
EXTENDS CircuitBreaker

CONSTANTS
    Actions,     \* executions, of confirmed and of incomplete actions
    Members,     \* addresses the CRM may return
    Deployments, \* the sets of channels whose credentials may be set
    RestCrm      \* CRM_PROVIDER is rest, not directory

Channels == {"whatsapp", "email"}
Providers == {"crm", "whatsapp", "smtp"}

ASSUME DeploymentsAssumption == Deployments \subseteq SUBSET Channels
ASSUME CrmAssumption == RestCrm \in BOOLEAN

VARIABLES
    configured, \* channels whose credentials are set
    breaker,    \* the circuit breaker of each provider
    pc,         \* where each execution stands
    request,    \* the BusinessAction: its channel, and whether it has a message
    contact,    \* what the CRM returned: its addresses, and whether it is one of its own
    code,       \* the ActionResult of each address tried
    current,    \* the addresses of the call in flight
    result,     \* the ActionResult of the execution
    wire,       \* <<action, addresses>> of requests a provider has not processed
    reached,    \* <<action, address>> pairs a provider accepted
    silent      \* history: calls in a row that ended without a usable answer

vars == <<configured, breaker, pc, request, contact, code, current, result, wire, reached,
          silent>>

given == <<configured, request, contact>>
network == <<wire, reached>>

Ended == {"done", "raised"}
Labels == {"idle", "lookup", "crmCall", "resolve", "dispatch", "call"} \cup Ended
Codes == {"success", "rejected", "error", "notConfigured", "missing"}
Results == Codes \cup {"notFound", "unavailable"}
Goto(a, label) == pc' = [pc EXCEPT ![a] = label]

Provider(a) == IF request[a].channel = "whatsapp" THEN "whatsapp" ELSE "smtp"
Left(a) == {m \in contact[a].addresses : code[a][m] = "none"}
\* send_text_async has one recipient, send_async all of them.
Batches(a) == IF request[a].channel = "whatsapp" THEN {{m} : m \in Left(a)} ELSE {Left(a)}

Init ==
    /\ configured \in Deployments
    /\ breaker = [p \in Providers |-> Closed]
    /\ pc = [a \in Actions |-> "idle"]
    /\ request = [a \in Actions |-> [channel |-> "whatsapp", complete |-> TRUE]]
    /\ contact = [a \in Actions |-> [addresses |-> {}, single |-> FALSE]]
    /\ code = [a \in Actions |-> [m \in Members |-> "none"]]
    /\ current = [a \in Actions |-> {}]
    /\ result = [a \in Actions |-> "none"]
    /\ wire = {}
    /\ reached = {}
    /\ silent = [p \in Providers |-> 0]

\* A call of provider p ended with a usable answer, or without one.
Heard(p) == silent' = [silent EXCEPT ![p] = 0]
Unheard(p) == silent' = [silent EXCEPT ![p] = Counted(@)]
Succeeds(p) == breaker' = [breaker EXCEPT ![p] = OnSuccess(@)] /\ Heard(p)
Fails(p) == breaker' = [breaker EXCEPT ![p] = OnFailure(@)] /\ Unheard(p)

Finish(a, r) == result' = [result EXCEPT ![a] = r] /\ Goto(a, "done")

(***************************************************************************)
(* Start: a confirmed action, or one that is incomplete and runs ungated.  *)
(* Without a recipient, with a vague one or of an unknown kind, it ends.   *)
(***************************************************************************)
Start(a) ==
    /\ pc[a] = "idle"
    /\ \E c \in Channels, complete \in BOOLEAN :
          request' = [request EXCEPT ![a] = [channel |-> c, complete |-> complete]]
    /\ \/ Goto(a, IF RestCrm THEN "lookup" ELSE "resolve") /\ UNCHANGED result
       \/ Finish(a, "missing")
    /\ UNCHANGED <<configured, breaker, contact, code, current, network, silent>>

(***************************************************************************)
(* RestCRM.resolve_async: one search; whatever goes wrong is "not found".  *)
(***************************************************************************)
LookUp(a) ==
    /\ pc[a] = "lookup"
    /\ \/ Admits(breaker["crm"]) /\ Goto(a, "crmCall") /\ UNCHANGED result
       \/ ~Admits(breaker["crm"]) /\ Finish(a, "notFound")
    /\ UNCHANGED <<given, breaker, code, current, network, silent>>

CrmAnswers(a) ==
    /\ pc[a] = "crmCall"
    /\ Succeeds("crm")
    /\ Goto(a, "resolve")
    /\ UNCHANGED <<given, code, current, result, network>>

CrmFails(a) ==
    /\ pc[a] = "crmCall"
    /\ Fails("crm")
    /\ Finish(a, "notFound")
    /\ UNCHANGED <<given, code, current, network>>

\* The timebox cancels the call from outside the breaker.
CrmTimesOut(a) ==
    /\ pc[a] = "crmCall"
    /\ Unheard("crm")
    /\ Finish(a, "notFound")
    /\ UNCHANGED <<given, breaker, code, current, network>>

\* The contact, if any: one with an address of its own, or a group's members.
Resolve(a) ==
    /\ pc[a] = "resolve"
    /\ \/ Finish(a, "notFound") /\ UNCHANGED contact
       \/ \E found \in SUBSET Members, single \in BOOLEAN :
             /\ single => \E m \in Members : found = {m}
             /\ contact' = [contact EXCEPT ![a] = [addresses |-> found, single |-> single]]
             /\ \/ found # {} /\ Goto(a, "dispatch") /\ UNCHANGED result
                \/ found = {} /\ Finish(a, "unavailable")
    /\ UNCHANGED <<configured, breaker, request, code, current, network, silent>>

(***************************************************************************)
(* send_text_async and send_async                                          *)
(***************************************************************************)
Coded(a, batch, c) ==
    code' = [code EXCEPT ![a] = [m \in Members |-> IF m \in batch THEN c ELSE @[m]]]

\* The connector answers by itself, and checks its settings first.
DeclineSend(a) ==
    /\ pc[a] = "dispatch"
    /\ \E batch \in Batches(a) :
          /\ batch # {}
          /\ \/ request[a].channel \notin configured /\ Coded(a, batch, "notConfigured")
             \/ /\ request[a].channel \in configured
                /\ ~request[a].complete
                /\ Coded(a, batch, "missing")
    /\ UNCHANGED <<given, breaker, pc, current, result, network, silent>>

Ready(a) == request[a].channel \in configured /\ request[a].complete

CircuitOpen(a) ==
    /\ pc[a] = "dispatch" /\ Ready(a)
    /\ ~Admits(breaker[Provider(a)])
    /\ \E batch \in Batches(a) : batch # {} /\ Coded(a, batch, "error")
    /\ UNCHANGED <<given, breaker, pc, current, result, network, silent>>

BeginCall(a) ==
    /\ pc[a] = "dispatch" /\ Ready(a)
    /\ Admits(breaker[Provider(a)])
    /\ \E batch \in Batches(a) :
          /\ batch # {}
          /\ current' = [current EXCEPT ![a] = batch]
          /\ wire' = wire \cup {<<a, batch>>}
    /\ Goto(a, "call")
    /\ UNCHANGED <<given, breaker, code, result, reached, silent>>

\* The provider accepts a message, for one of its recipients at least.
ProviderAccepts(a) ==
    /\ \E w \in wire :
          /\ w[1] = a
          /\ wire' = wire \ {w}
          /\ \E some \in SUBSET w[2] \ {{}} : reached' = reached \cup ({a} \X some)
    /\ UNCHANGED <<given, breaker, pc, code, current, result, silent>>

Return(a, c) ==
    /\ Coded(a, current[a], c)
    /\ current' = [current EXCEPT ![a] = {}]
    /\ Goto(a, "dispatch")

CallSucceeds(a) ==
    /\ pc[a] = "call"
    /\ \E m \in current[a] : <<a, m>> \in reached
    /\ Succeeds(Provider(a))
    /\ Return(a, "success")
    /\ UNCHANGED <<given, result, network>>

\* Mutant: a rejection counts as an outage.
CallRejected_TripsBreaker(a) ==
    /\ pc[a] = "call"
    /\ <<a, current[a]>> \in wire
    /\ wire' = wire \ {<<a, current[a]>>}
    /\ breaker' = [breaker EXCEPT ![Provider(a)] = OnFailure(@)]
    /\ Heard(Provider(a))
    /\ Return(a, "rejected")
    /\ UNCHANGED <<given, result, reached>>

\* An HTTP error of WhatsApp or an SMTP authentication error: the provider
\* answered, so on_success follows the on_failure of call_with_breaker. That a
\* provider which answers with an error has not taken the message is assumed, as
\* the connector assumes it (of 5xx answers too).
CallRejected(a) ==
    /\ pc[a] = "call"
    /\ <<a, current[a]>> \in wire
    /\ wire' = wire \ {<<a, current[a]>>}
    /\ breaker' = [breaker EXCEPT ![Provider(a)] = OnSuccess(OnFailure(@))]
    /\ Heard(Provider(a))
    /\ Return(a, "rejected")
    /\ UNCHANGED <<given, result, reached>>

\* The connection breaks, before or after the provider has the message.
CallFails(a) ==
    /\ pc[a] = "call"
    /\ Fails(Provider(a))
    /\ wire' \in {wire, wire \ {<<a, current[a]>>}}
    /\ Return(a, "error")
    /\ UNCHANGED <<given, result, reached>>

\* Mutant: a timeout is reported like a refusal of the provider.
CallTimesOut_Declined(a) ==
    /\ pc[a] = "call"
    /\ Unheard(Provider(a))
    /\ Return(a, "rejected")
    /\ UNCHANGED <<given, breaker, result, network>>

\* Mutant: an address that timed out is tried again.
CallTimesOut_Retries(a) ==
    /\ pc[a] = "call"
    /\ Unheard(Provider(a))
    /\ Return(a, "none")
    /\ UNCHANGED <<given, breaker, result, network>>

\* The timebox: neither on_success nor on_failure runs, nothing is recalled.
CallTimesOut(a) ==
    /\ pc[a] = "call"
    /\ Unheard(Provider(a))
    /\ Return(a, "error")
    /\ UNCHANGED <<given, breaker, result, network>>

\* An exception the connector does not map ends the whole execution.
CallRaises(a) ==
    /\ pc[a] = "call"
    /\ Fails(Provider(a))
    /\ current' = [current EXCEPT ![a] = {}]
    /\ Goto(a, "raised")
    /\ UNCHANGED <<given, code, result, network>>

\* Mutant: one success makes the group a success.
Combine_Any(a) ==
    /\ pc[a] = "dispatch" /\ Left(a) = {}
    /\ \E m \in contact[a].addresses :
          /\ \/ code[a][m] = "success"
             \/ \A n \in contact[a].addresses : code[a][n] # "success"
          /\ Finish(a, code[a][m])
    /\ UNCHANGED <<given, breaker, code, current, network, silent>>

\* A WhatsApp group is folded by _combine; anything else has one result.
Combine(a) ==
    LET group == request[a].channel = "whatsapp" /\ ~contact[a].single
        codes == {code[a][m] : m \in contact[a].addresses}
    IN  /\ pc[a] = "dispatch" /\ Left(a) = {}
        /\ \/ group /\ Finish(a, IF codes = {"success"} THEN "success" ELSE "rejected")
           \/ ~group /\ \E c \in codes : Finish(a, c)
        /\ UNCHANGED <<given, breaker, code, current, network, silent>>

\* Sixty seconds have passed since the circuit of p last opened.
Cool(p) ==
    /\ breaker[p].gate = "open"
    /\ breaker' = [breaker EXCEPT ![p] = Elapsed(@)]
    /\ UNCHANGED <<given, pc, code, current, result, network, silent>>

\* What the coroutine does by itself, what its timer does, what the world does.
Proceed(a) ==
    \/ LookUp(a) \/ Resolve(a)
    \/ DeclineSend(a) \/ CircuitOpen(a) \/ BeginCall(a) \/ Combine(a)
Timer(a) == CrmTimesOut(a) \/ CallTimesOut(a)
Outcome(a) ==
    \/ CrmAnswers(a) \/ CrmFails(a) \/ CallSucceeds(a) \/ CallRejected(a) \/ CallFails(a)
    \/ CallRaises(a) \/ ProviderAccepts(a)

Next ==
    \/ \E a \in Actions : Start(a) \/ Proceed(a) \/ Timer(a) \/ Outcome(a)
    \/ \E p \in Providers : Cool(p)

\* The event loop runs what is ready and fires timers; no provider owes an
\* answer.
Fairness == \A a \in Actions : WF_vars(Proceed(a)) /\ WF_vars(Timer(a))

Spec == Init /\ [][Next]_vars
FairSpec == Spec /\ Fairness

-----------------------------------------------------------------------------
TypeOK ==
    /\ configured \in Deployments
    /\ breaker \in [Providers -> Breakers]
    /\ pc \in [Actions -> Labels]
    /\ request \in [Actions -> [channel : Channels, complete : BOOLEAN]]
    /\ contact \in [Actions -> [addresses : SUBSET Members, single : BOOLEAN]]
    /\ code \in [Actions -> [Members -> Codes \cup {"none"}]]
    /\ current \in [Actions -> SUBSET Members]
    /\ result \in [Actions -> Results \cup {"none"}]
    /\ wire \subseteq Actions \X SUBSET Members
    /\ reached \subseteq Actions \X Members
    /\ silent \in [Providers -> 0..FailMax]

Reached(a) == {m \in Members : <<a, m>> \in reached}

\* Success is never claimed for a message nobody took: every number of a
\* WhatsApp send was accepted, and the SMTP server took the e-mail for somebody
\* (orchestrator.py 270-285, whatsapp_connector.py 190-193).
SuccessIsDelivered ==
    \A a \in Actions : result[a] = "success" =>
        /\ Reached(a) # {}
        /\ request[a].channel = "whatsapp" => contact[a].addresses \subseteq Reached(a)

\* "declined the message, so it was not sent" and every answer the connector
\* gives by itself are true for good: no such address is reached, not even by a
\* request still on the wire (whatsapp_connector.py 136-150, 194-203).
DeclinedIsNotSent ==
    \A a \in Actions, m \in Members :
        code[a][m] \in {"rejected", "notConfigured", "missing"} => m \notin Reached(a)

\* An incomplete action skips the allow-list, the confirmation and the cap; it
\* "never sends" because no connector sends an empty message
\* (session_service.py 338-341, whatsapp_connector.py 146-150).
UngatedNeverSends ==
    \A a \in Actions : ~request[a].complete =>
        Reached(a) = {} /\ result[a] # "success" /\ \A w \in wire : w[1] # a

\* A circuit is open, or on probation, only after fail_max calls in a row that
\* brought no usable answer, whatever number of actions share it: refusals never
\* open it (resilience.py 6, whatsapp_connector.py 194-197).
TripsNeedFailures ==
    \A p \in Providers : breaker[p].gate # "closed" => silent[p] = FailMax

\* Every execution ends, whatever the providers do (incidents.md 87-88: "never a
\* hang").
EveryActionEnds == \A a \in Actions : pc[a] # "idle" ~> pc[a] \in Ended

\* "action is never sent half-way" (docs/runbooks/incidents.md 75-76): when the
\* user is told it could not be sent, nobody received it.
NeverHalfWay ==
    \A a \in Actions : result[a] \notin {"none", "success"} => Reached(a) = {}

\* "fail_max=5 consecutive failures -> open", "so a dead provider stops consuming
\* the thread pool and queueing clients" (resilience.py 6-10).
DeadProviderTrips ==
    \A p \in Providers : silent[p] = FailMax => breaker[p].gate # "closed"
=============================================================================
