--------------------------- MODULE ProvidersProofs ---------------------------
(***************************************************************************)
(* The fail-through of language-model providers, for every number of       *)
(* concurrent requests, of models and of attempts, and every fail_max.     *)
(***************************************************************************)
EXTENDS Providers, FiniteSetTheorems, WellFoundedInduction, TLAPS

-----------------------------------------------------------------------------
(***************************************************************************)
(* Legs.                                                                   *)
(***************************************************************************)
\* A set of legs that is not empty has a first one: of the intervals from 0
\* to its members one is the smallest.
LEMMA FirstLeg ==
    ASSUME NEW legs \in SUBSET Legs, legs # {}
    PROVE  \E l \in legs : \A m \in legs : l <= m
<1> USE ProvidersAssumption
<1> DEFINE N == OpenRouterModels + 1 + GeminiModels
           I(y) == 0..y
           R == StrictSubsetOrdering(0..N)
<1>1. {I(y) : y \in legs} \subseteq FiniteSubsetsOf(0..N) /\ {I(y) : y \in legs} # {}
  <2>1. \A y \in legs : I(y) \subseteq 0..N /\ IsFiniteSet(I(y))
    BY FS_Interval DEF Legs
  <2> QED  BY <2>1 DEF FiniteSubsetsOf
<1>2. PICK m \in {I(y) : y \in legs} : \A n \in {I(y) : y \in legs} : ~(<<n, m>> \in R)
  <2>1. IsWellFoundedOn(R, FiniteSubsetsOf(0..N))
    BY FS_Interval, FS_StrictSubsetOrderingWellFounded
  <2> HIDE DEF I, R, N
  <2> QED  BY <1>1, <2>1, WFMin
<1>3. PICK l \in legs : m = I(l)
  BY <1>2
<1>4. ASSUME NEW y \in legs, ~(l <= y) PROVE FALSE
  <2>1. I(y) \subseteq I(l) /\ I(y) # I(l)
    BY <1>4 DEF Legs
  <2>2. I(l) \subseteq 0..N /\ I(y) \subseteq 0..N
    BY DEF Legs
  <2>3. <<I(y), I(l)>> \in R
    BY <2>1, <2>2 DEF StrictSubsetOrdering
  <2> QED  BY <2>3, <1>2, <1>3
<1> QED  BY <1>4

LEMMA EveryProviderHasALeg == \A p \in Providers : \E l \in Legs : ProviderOf(l) = p
<1> USE ProvidersAssumption DEF Legs, ProviderOf
<1>1. 1 \in Legs /\ ProviderOf(1) = "openrouter"
  OBVIOUS
<1>2. OpenRouterModels + 1 \in Legs /\ ProviderOf(OpenRouterModels + 1) = "nvidia"
  OBVIOUS
<1>3. OpenRouterModels + 2 \in Legs /\ ProviderOf(OpenRouterModels + 2) = "gemini"
  OBVIOUS
<1> QED  BY <1>1, <1>2, <1>3 DEF Providers

LEMMA ProviderTyped == \A l \in Legs : ProviderOf(l) \in Providers /\ CircuitOf(l) = ProviderOf(l)
BY DEF ProviderOf, Providers, CircuitOf

-----------------------------------------------------------------------------
(***************************************************************************)
(* What the steps of a request do to it.                                   *)
(***************************************************************************)
RequestSet ==
    [at : {"idle", "leg", "call", "done"}, leg : Legs \cup {0}, tries : 0..MaxAttempts,
     plain : BOOLEAN, answer : {"none", "reply", "error", "unconfigured"}]

\* Request r becomes x, and the others stay as they are.
Becomes(r, x) == request' = [request EXCEPT ![r] = x]

LEMMA IdleTyped ==
    /\ Idle \in RequestSet
    /\ \A a \in {"none", "reply", "error", "unconfigured"} :
          [Idle EXCEPT !.at = "done", !.answer = a] \in RequestSet
    /\ \A l \in Legs : [Idle EXCEPT !.at = "leg", !.leg = l] \in RequestSet
<1>1. 0 \in 0..MaxAttempts
  BY ProvidersAssumption
<1>2. Idle \in RequestSet
  BY <1>1 DEF Idle, RequestSet
<1>3. ASSUME NEW a \in {"none", "reply", "error", "unconfigured"}
      PROVE  [Idle EXCEPT !.at = "done", !.answer = a] \in RequestSet
  BY <1>1 DEF Idle, RequestSet
<1>4. ASSUME NEW l \in Legs PROVE [Idle EXCEPT !.at = "leg", !.leg = l] \in RequestSet
  BY <1>1 DEF Idle, RequestSet
<1> QED  BY <1>2, <1>3, <1>4

LEMMA EndsBecomes ==
    ASSUME NEW r \in Requests, NEW a \in {"none", "reply", "error", "unconfigured"}, Ends(r, a)
    PROVE  \E x \in RequestSet : Becomes(r, x) /\ x.at = "done" /\ x.answer = a
<1>1. Becomes(r, [Idle EXCEPT !.at = "done", !.answer = a])
  BY DEF Ends, Becomes
<1> QED  BY <1>1, IdleTyped DEF Idle

LEMMA GoesToBecomes ==
    ASSUME NEW r \in Requests, NEW legs \in SUBSET Legs, GoesTo(r, legs)
    PROVE  \E x \in RequestSet :
              /\ Becomes(r, x)
              /\ IF legs = {} THEN x.at = "done" /\ x.answer = "error"
                 ELSE x.at = "leg" /\ x.answer = "none" /\ x.leg \in legs /\ \A m \in legs : x.leg <= m
<1>1. CASE legs = {}
  BY <1>1, EndsBecomes DEF GoesTo
<1>2. CASE legs # {}
  <2> DEFINE l == CHOOSE l \in legs : \A m \in legs : l <= m
             x == [Idle EXCEPT !.at = "leg", !.leg = l]
  <2>1. l \in legs /\ \A m \in legs : l <= m
    BY <1>2, FirstLeg
  <2>2. Becomes(r, x)
    BY <1>2 DEF GoesTo, Becomes
  <2>3. x.at = "leg" /\ x.answer = "none" /\ x.leg = l
    BY DEF Idle
  <2>4. x \in RequestSet
    BY <2>1, IdleTyped
  <2> HIDE DEF x, l
  <2> QED  BY <1>2, <2>1, <2>2, <2>3, <2>4
<1> QED  BY <1>1, <1>2

LEMMA CallsBecomes ==
    ASSUME NEW r \in Requests, request[r] \in RequestSet, request \in [Requests -> RequestSet],
           NEW n \in 0..MaxAttempts, NEW b \in BOOLEAN, Calls(r, n, b)
    PROVE  \E x \in RequestSet :
              Becomes(r, x) /\ x.at = "call" /\ x.leg = Leg(r) /\ x.answer = request[r].answer
<1> DEFINE x == [request[r] EXCEPT !.at = "call", !.tries = n, !.plain = b]
<1>1. Becomes(r, x)
  BY DEF Calls, Becomes
<1>2. x \in RequestSet /\ x.at = "call" /\ x.leg = Leg(r) /\ x.answer = request[r].answer
  BY DEF RequestSet, Leg
<1> HIDE DEF x
<1> QED  BY <1>1, <1>2

-----------------------------------------------------------------------------
(***************************************************************************)
(* Types.  A request that tries or calls is at a leg of a configured       *)
(* provider.                                                               *)
(***************************************************************************)
AtLegs == \A r \in Requests : request[r].at \in {"leg", "call"} => Leg(r) \in Configured

TypeInv == TypeOK /\ AtLegs

LEMMA BreakerTyped ==
    ASSUME NEW b \in Breakers
    PROVE  /\ OnSuccess(b) = Closed /\ Closed \in Breakers
           /\ OnFailure(b) \in Breakers
           /\ Elapsed(b) \in Breakers
BY FailMaxAssumption DEF Breakers, Closed, OnSuccess, OnFailure, Counted, Elapsed

\* The environment and the keys do not change, and the record of a request
\* that moves stays of its type and at a leg of a configured provider.
LEMMA MovesTyped ==
    ASSUME TypeInv, NEW r \in Requests, NEW x \in RequestSet, Becomes(r, x),
           UNCHANGED <<keys, down>>, x.at \in {"leg", "call"} => x.leg \in Configured
    PROVE  request' \in [Requests -> RequestSet] /\ AtLegs'
BY DEF TypeInv, TypeOK, RequestSet, Becomes, AtLegs, Leg, Configured

LEMMA AfterIsConfigured == \A l \in Legs : After(l) \in SUBSET Legs /\ After(l) \subseteq Configured
BY DEF After, Configured

LEMMA GoesToTyped ==
    ASSUME TypeInv, NEW r \in Requests, NEW legs \in SUBSET Configured, GoesTo(r, legs),
           UNCHANGED <<keys, down>>
    PROVE  request' \in [Requests -> RequestSet] /\ AtLegs'
<1>1. legs \in SUBSET Legs
  BY DEF Configured
<1>2. PICK x \in RequestSet :
         /\ Becomes(r, x)
         /\ IF legs = {} THEN x.at = "done" /\ x.answer = "error"
            ELSE x.at = "leg" /\ x.answer = "none" /\ x.leg \in legs /\ \A m \in legs : x.leg <= m
  BY <1>1, GoesToBecomes
<1> QED  BY <1>2, MovesTyped

LEMMA EndsTyped ==
    ASSUME TypeInv, NEW r \in Requests, NEW a \in {"none", "reply", "error", "unconfigured"},
           Ends(r, a), UNCHANGED <<keys, down>>
    PROVE  request' \in [Requests -> RequestSet] /\ AtLegs'
<1>1. PICK x \in RequestSet : Becomes(r, x) /\ x.at = "done" /\ x.answer = a
  BY EndsBecomes
<1> QED  BY <1>1, MovesTyped

LEMMA CallsTyped ==
    ASSUME TypeInv, NEW r \in Requests, NEW n \in 0..MaxAttempts, NEW b \in BOOLEAN,
           Calls(r, n, b), request[r].at \in {"leg", "call"}, UNCHANGED <<keys, down>>
    PROVE  request' \in [Requests -> RequestSet] /\ AtLegs'
<1>1. request \in [Requests -> RequestSet] /\ request[r] \in RequestSet
  BY DEF TypeInv, TypeOK, RequestSet
<1>2. PICK x \in RequestSet :
         Becomes(r, x) /\ x.at = "call" /\ x.leg = Leg(r) /\ x.answer = request[r].answer
  BY <1>1, CallsBecomes
<1>3. Leg(r) \in Configured
  BY DEF TypeInv, AtLegs
<1> QED  BY <1>2, <1>3, MovesTyped

LEMMA BlamesTyped ==
    ASSUME TypeOK, NEW p \in Providers, Blames(p)
    PROVE  breaker' \in [Providers -> Breakers] /\ failed' \in [Providers -> Nat]
BY BreakerTyped DEF TypeOK, Blames

LEMMA NextTyped == TypeInv /\ [Next]_vars => TypeInv'
<1> SUFFICES ASSUME TypeInv, [Next]_vars PROVE TypeInv'
  OBVIOUS
<1> DEFINE Stays == request' \in [Requests -> RequestSet] /\ AtLegs'
           Rest == /\ UNCHANGED <<keys, down>> /\ calm' \in BOOLEAN
                   /\ breaker' \in [Providers -> Breakers] /\ failed' \in [Providers -> Nat]
<1>0. Stays /\ Rest => TypeInv'
  BY DEF TypeInv, TypeOK, RequestSet
<1>1. \A r \in Requests : request[r].at \in {"leg", "call"} => /\ Leg(r) \in Legs
        /\ Leg(r) \in Configured /\ CircuitOf(Leg(r)) \in Providers
        /\ request[r].tries \in 0..MaxAttempts
  BY ProviderTyped DEF TypeInv, TypeOK, AtLegs, Configured
<1>2. ASSUME NEW r \in Requests, Begin(r) PROVE TypeInv'
  <2>1. Rest
    BY <1>2 DEF Begin, TypeInv, TypeOK
  <2>2. Stays
    BY <1>2, GoesToTyped, EndsTyped DEF Begin
  <2> QED  BY <1>0, <2>1, <2>2
<1>3. ASSUME NEW r \in Requests, Refused(r) \/ TimesOut(r) PROVE TypeInv'
  <2>1. Rest
    BY <1>3 DEF Refused, TimesOut, TypeInv, TypeOK
  <2>2. After(Leg(r)) \subseteq Configured /\ GoesTo(r, After(Leg(r)))
    BY <1>1, <1>3, AfterIsConfigured DEF Refused, TimesOut
  <2>3. Stays
    BY <2>1, <2>2, GoesToTyped
  <2> QED  BY <1>0, <2>1, <2>3
<1>4. ASSUME NEW r \in Requests, Enters(r) PROVE TypeInv'
  <2>1. Rest
    BY <1>4 DEF Enters, TypeInv, TypeOK
  <2>2. 1 \in 0..MaxAttempts
    BY ProvidersAssumption
  <2>3. Stays
    BY <1>4, <2>2, CallsTyped DEF Enters
  <2> QED  BY <1>0, <2>1, <2>3
<1>5. ASSUME NEW r \in Requests, CallFails(r) PROVE TypeInv'
  <2>1. request[r].at = "call" /\ calm' \in BOOLEAN /\ UNCHANGED <<keys, down>>
    BY <1>5 DEF CallFails, TypeInv, TypeOK
  <2>2. CASE JsonRejected(r)
    <3>1. Rest
      BY <2>1, <2>2 DEF JsonRejected, TypeInv, TypeOK
    <3>2. Stays
      BY <1>1, <2>1, <2>2, CallsTyped DEF JsonRejected
    <3> QED  BY <1>0, <3>1, <3>2
  <2>3. CASE Retries(r)
    <3>1. Rest
      BY <2>1, <2>3 DEF Retries, TypeInv, TypeOK
    <3>2. request[r].tries + 1 \in 0..MaxAttempts
      BY <1>1, <2>1, <2>3, ProvidersAssumption DEF Retries, MayRetry
    <3>3. Stays
      BY <2>1, <2>3, <3>2, CallsTyped DEF Retries
    <3> QED  BY <1>0, <3>1, <3>3
  <2>4. CASE Fails(r)
    <3>1. Rest
      BY <1>1, <2>1, <2>4, BlamesTyped DEF Fails, TypeInv, TypeOK
    <3>2. After(Leg(r)) \subseteq Configured
      BY <1>1, <2>1, AfterIsConfigured
    <3>3. Stays
      BY <2>1, <2>4, <3>2, GoesToTyped, EndsTyped DEF Fails
    <3> QED  BY <1>0, <3>1, <3>3
  <2> QED  BY <1>5, <2>2, <2>3, <2>4 DEF CallFails
<1>6. ASSUME NEW r \in Requests, CallAnswers(r) PROVE TypeInv'
  <2>1. Rest
    BY <1>1, <1>6, BreakerTyped DEF CallAnswers, TypeInv, TypeOK
  <2>2. Stays
    BY <1>6, EndsTyped DEF CallAnswers
  <2> QED  BY <1>0, <2>1, <2>2
<1>7. CASE ResetElapses
  BY <1>7, BreakerTyped DEF ResetElapses, TypeInv, TypeOK, AtLegs, Leg, Configured
<1>8. CASE UNCHANGED vars
  BY <1>8 DEF vars, TypeInv, TypeOK, AtLegs, Leg, Configured
<1> QED  BY <1>2, <1>3, <1>4, <1>5, <1>6, <1>7, <1>8 DEF Next, Step

LEMMA InitTyped == Init => TypeInv
<1>1. Closed \in Breakers
  BY FailMaxAssumption DEF Closed, Breakers
<1>2. Init => request \in [Requests -> RequestSet]
  BY IdleTyped DEF Init
<1> QED  BY <1>1, <1>2 DEF Init, TypeInv, TypeOK, RequestSet, AtLegs, Idle

\* Each variable keeps its type; in particular no request makes more than
\* LLM_MAX_RETRIES attempts of a leg.
THEOREM ProvidersTyped == Spec => []TypeOK
<1>1. TypeInv => TypeOK
  BY DEF TypeInv
<1> QED  BY <1>1, InitTyped, NextTyped, PTL DEF Spec

-----------------------------------------------------------------------------
(***************************************************************************)
(* The fail-through.  While nothing that is up falters, the circuit of a   *)
(* healthy provider stays closed, and no request has passed a leg of a     *)
(* healthy configured provider.                                            *)
(***************************************************************************)
Ahead(r) ==
    request[r].at \in {"leg", "call"} =>
        \A p \in keys : Healthy(p) => \A l \in Legs : ProviderOf(l) = p => Leg(r) <= l

CalmInv ==
    calm => /\ \A p \in Providers : Healthy(p) => breaker[p] = Closed
            /\ \A r \in Requests : Ahead(r)
            /\ HealthyProviderAnswers

\* A request that leaves a leg that is not healthy misses no healthy provider:
\* the legs after it still hold one, if any is configured.
LEMMA GoesOn ==
    ASSUME TypeInv, NEW r \in Requests, NEW from \in 0 .. OpenRouterModels + 1 + GeminiModels,
           NEW legs \in SUBSET Configured, GoesTo(r, legs), UNCHANGED <<keys, down>>,
           legs = {m \in Configured : m > from},
           \A p \in keys : Healthy(p) => \A l \in Legs : ProviderOf(l) = p => from < l
    PROVE  /\ Ahead(r)'
           /\ request'[r].answer = "error" => \A p \in keys : ~Healthy(p)
           /\ \A q \in Requests \ {r} : request'[q] = request[q]
<1>1. legs \in SUBSET Legs
  BY DEF Configured
<1>2. PICK x \in RequestSet :
         /\ Becomes(r, x)
         /\ IF legs = {} THEN x.at = "done" /\ x.answer = "error"
            ELSE x.at = "leg" /\ x.answer = "none" /\ x.leg \in legs /\ \A m \in legs : x.leg <= m
  BY <1>1, GoesToBecomes
<1>3. request'[r] = x /\ \A q \in Requests \ {r} : request'[q] = request[q]
  BY <1>2 DEF Becomes, TypeInv, TypeOK
<1>4. ASSUME NEW p \in keys, Healthy(p), NEW l \in Legs, ProviderOf(l) = p PROVE l \in legs
  BY <1>4 DEF Configured, Legs
<1>5. \A p \in keys : Healthy(p)' <=> Healthy(p)
  BY DEF Healthy
<1>6. Ahead(r)'
  BY <1>2, <1>3, <1>4, <1>5 DEF Ahead, Leg
<1>7. ASSUME x.answer = "error", NEW p \in keys, Healthy(p) PROVE FALSE
  <2>1. legs = {}
    BY <1>2, <1>7
  <2>2. p \in Providers
    BY DEF TypeInv, TypeOK
  <2> QED  BY <1>4, <1>7, <2>1, <2>2, EveryProviderHasALeg
<1> QED  BY <1>3, <1>6, <1>7

\* What is ahead of a request stays so when it stays at its leg.
LEMMA StaysAhead ==
    ASSUME TypeInv, NEW r \in Requests, NEW n \in 0..MaxAttempts, NEW b \in BOOLEAN,
           Calls(r, n, b), request[r].at \in {"leg", "call"}, Ahead(r), UNCHANGED <<keys, down>>
    PROVE  /\ Ahead(r)' /\ request'[r].answer = request[r].answer
           /\ \A q \in Requests \ {r} : request'[q] = request[q]
<1>1. request \in [Requests -> RequestSet] /\ request[r] \in RequestSet
  BY DEF TypeInv, TypeOK, RequestSet
<1>2. PICK x \in RequestSet :
         Becomes(r, x) /\ x.at = "call" /\ x.leg = Leg(r) /\ x.answer = request[r].answer
  BY <1>1, CallsBecomes
<1>3. request'[r] = x /\ \A q \in Requests \ {r} : request'[q] = request[q]
  BY <1>1, <1>2 DEF Becomes
<1> QED  BY <1>2, <1>3 DEF Ahead, Leg, Healthy

\* One request moves, and nothing that is healthy was blamed: the parts of the
\* invariant follow from what became of that request.
LEMMA CalmStep ==
    ASSUME TypeInv, CalmInv, NEW r \in Requests, UNCHANGED <<keys, down>>, calm' => calm,
           calm' => \A p \in Providers : Healthy(p) => breaker'[p] = Closed,
           calm' => /\ Ahead(r)'
                    /\ request'[r].answer = "error" => \A p \in keys : ~Healthy(p),
           \A q \in Requests \ {r} : request'[q] = request[q]
    PROVE  CalmInv'
<1> SUFFICES ASSUME calm'
             PROVE  /\ \A p \in Providers : Healthy(p)' => breaker'[p] = Closed
                    /\ \A q \in Requests : Ahead(q)'
                    /\ \A q \in Requests : request'[q].answer = "error" => \A p \in keys : ~Healthy(p)'
  BY DEF CalmInv, HealthyProviderAnswers
<1>1. \A p \in Providers : Healthy(p)' <=> Healthy(p)
  BY DEF Healthy
<1>2. keys \subseteq Providers
  BY DEF TypeInv, TypeOK
<1>3. \A q \in Requests \ {r} : Ahead(q)'
  BY DEF CalmInv, Ahead, Leg, Healthy
<1>4. \A q \in Requests \ {r} : request'[q].answer = "error" => \A p \in keys : ~Healthy(p)
  BY DEF CalmInv, HealthyProviderAnswers
<1> QED  BY <1>1, <1>2, <1>3, <1>4

LEMMA NextCalm == TypeInv /\ CalmInv /\ [Next]_vars => CalmInv'
<1> SUFFICES ASSUME TypeInv, CalmInv, [Next]_vars PROVE CalmInv'
  OBVIOUS
<1> DEFINE Intact == calm' => \A p \in Providers : Healthy(p) => breaker'[p] = Closed
           Unmissed(r) == /\ Ahead(r)'
                          /\ request'[r].answer = "error" => \A p \in keys : ~Healthy(p)
           Apart(r) == \A q \in Requests \ {r} : request'[q] = request[q]
<1>0. \A r \in Requests : request[r].at \in {"leg", "call"} => /\ Leg(r) \in Legs
        /\ CircuitOf(Leg(r)) = ProviderOf(Leg(r)) /\ ProviderOf(Leg(r)) \in Providers
        /\ After(Leg(r)) \in SUBSET Configured /\ request[r].tries \in 0..MaxAttempts
  BY ProviderTyped, AfterIsConfigured DEF TypeInv, TypeOK, AtLegs, Configured
<1>1. ASSUME NEW r \in Requests, request[r].at \in {"leg", "call"}, calm, UNCHANGED <<keys, down>>,
             ~Healthy(ProviderOf(Leg(r))), GoesTo(r, After(Leg(r)))
      PROVE  Unmissed(r) /\ Apart(r)
  <2>1. Leg(r) \in 0 .. OpenRouterModels + 1 + GeminiModels
    BY <1>0, <1>1 DEF Legs
  <2>2. \A p \in keys : Healthy(p) => \A l \in Legs : ProviderOf(l) = p => Leg(r) < l
    <3>1. \A p \in keys : Healthy(p) => \A l \in Legs : ProviderOf(l) = p => Leg(r) <= l
      BY <1>1 DEF CalmInv, Ahead
    <3>2. \A l \in Legs : l \in Int /\ Leg(r) \in Int
      BY <2>1, ProvidersAssumption DEF Legs
    <3> QED  BY <1>1, <3>1, <3>2
  <2>3. After(Leg(r)) = {m \in Configured : m > Leg(r)}
    BY DEF After
  <2>4. After(Leg(r)) \in SUBSET Configured
    BY <1>0, <1>1
  <2> QED  BY <1>1, <2>1, <2>2, <2>3, <2>4, GoesOn
<1>2. ASSUME NEW r \in Requests, NEW legs, GoesTo(r, legs) PROVE Apart(r)
  BY <1>2 DEF GoesTo, Ends, TypeInv, TypeOK
<1>3. ASSUME NEW r \in Requests, request[r].at \in {"leg", "call"}, Down(r)
      PROVE  ~Healthy(ProviderOf(Leg(r)))
  BY <1>0, <1>3 DEF Healthy, Down
<1>4. ASSUME NEW r \in Requests, NEW a, Ends(r, a) PROVE Ahead(r)' /\ request'[r].answer = a /\ Apart(r)
  BY <1>4 DEF Ends, Ahead, Idle, TypeInv, TypeOK
<1>5. ASSUME UNCHANGED breaker, calm' => calm PROVE Intact
  BY <1>5 DEF CalmInv
<1>6. ASSUME NEW r \in Requests, Begin(r) PROVE CalmInv'
  <2>1. UNCHANGED <<keys, down, breaker, calm>>
    BY <1>6 DEF Begin
  <2>2. CASE keys = {}
    <3>1. Ends(r, "unconfigured")
      BY <1>6, <2>2 DEF Begin
    <3>2. Unmissed(r) /\ Apart(r)
      BY <1>4, <3>1
    <3> QED  BY <1>5, <2>1, <3>2, CalmStep
  <2>3. CASE keys # {}
    <3>1. GoesTo(r, Configured)
      BY <1>6, <2>3 DEF Begin
    <3>2. Configured = {m \in Configured : m > 0} /\ \A l \in Legs : 0 < l
      BY ProvidersAssumption DEF Configured, Legs
    <3>3. 0 \in 0 .. OpenRouterModels + 1 + GeminiModels
      BY ProvidersAssumption
    <3>4. Unmissed(r) /\ Apart(r)
      BY <2>1, <3>1, <3>2, <3>3, GoesOn
    <3> QED  BY <1>5, <2>1, <3>4, CalmStep
  <2> QED  BY <2>2, <2>3
<1>7. ASSUME NEW r \in Requests, Refused(r) PROVE CalmInv'
  <2>1. UNCHANGED <<keys, down, breaker, calm>> /\ GoesTo(r, After(Leg(r))) /\ request[r].at = "leg"
    BY <1>7 DEF Refused
  <2>2. calm => ~Healthy(ProviderOf(Leg(r)))
    BY <1>0, <1>7, <2>1 DEF Refused, CalmInv, Admits, Closed
  <2>3. calm => Unmissed(r)
    BY <1>1, <2>1, <2>2
  <2> QED  BY <1>2, <1>5, <2>1, <2>3, CalmStep
<1>8. ASSUME NEW r \in Requests, TimesOut(r) PROVE CalmInv'
  <2>1. UNCHANGED <<keys, down, breaker>> /\ GoesTo(r, After(Leg(r))) /\ request[r].at = "call"
    BY <1>8 DEF TimesOut
  <2>2. calm' => calm /\ Down(r)
    BY <1>8 DEF TimesOut
  <2>3. calm' => Unmissed(r)
    BY <1>1, <1>3, <2>1, <2>2
  <2> QED  BY <1>2, <1>5, <2>1, <2>2, <2>3, CalmStep
<1>9. ASSUME NEW r \in Requests, Enters(r) PROVE CalmInv'
  <2>1. UNCHANGED <<keys, down, breaker, calm>> /\ Calls(r, 1, FALSE) /\ request[r].at = "leg"
    BY <1>9 DEF Enters
  <2>2. 1 \in 0..MaxAttempts
    BY ProvidersAssumption
  <2>3. calm => Unmissed(r) /\ Apart(r)
    BY <2>1, <2>2, StaysAhead DEF CalmInv, HealthyProviderAnswers
  <2>4. Apart(r)
    BY <2>1 DEF Calls, TypeInv, TypeOK
  <2> QED  BY <1>5, <2>1, <2>3, <2>4, CalmStep
<1>10. ASSUME NEW r \in Requests, CallFails(r) PROVE CalmInv'
  <2>1. UNCHANGED <<keys, down>> /\ request[r].at = "call"
    BY <1>10 DEF CallFails
  <2>2. calm' => calm /\ Down(r)
    BY <1>10 DEF CallFails
  <2>3. CASE \E n \in 0..MaxAttempts, b \in BOOLEAN : Calls(r, n, b) /\ UNCHANGED breaker
    <3>1. calm' => Unmissed(r)
      BY <2>1, <2>2, <2>3, StaysAhead DEF CalmInv, HealthyProviderAnswers
    <3>2. Apart(r)
      BY <2>3 DEF Calls, TypeInv, TypeOK
    <3> QED  BY <1>5, <2>1, <2>2, <2>3, <3>1, <3>2, CalmStep
  <2>4. CASE Fails(r)
    <3>1. calm' => ~Healthy(ProviderOf(Leg(r)))
      BY <1>3, <2>1, <2>2
    <3>2. ASSUME calm' PROVE \A p \in Providers : Healthy(p) => breaker'[p] = Closed
      BY <1>0, <2>1, <2>2, <2>4, <3>1, <3>2 DEF Fails, Blames, CalmInv, TypeInv, TypeOK
    <3>3. CASE GoesTo(r, After(Leg(r)))
      <4>1. calm' => Unmissed(r)
        BY <1>1, <2>1, <2>2, <3>1, <3>3
      <4>2. Apart(r)
        BY <1>2, <3>3
      <4> QED  BY <2>1, <2>2, <3>2, <4>1, <4>2, CalmStep
    <3>4. CASE ~Guarded(Leg(r)) /\ Ends(r, "error")
      <4>1. ASSUME calm', NEW p \in keys, Healthy(p) PROVE FALSE
        <5>1. p \in Providers /\ p # "gemini" /\ ProviderOf(Leg(r)) = "gemini"
          BY <3>1, <3>4, <4>1 DEF Guarded, TypeInv, TypeOK
        <5>2. PICK l \in Legs : ProviderOf(l) = p
          BY <5>1, EveryProviderHasALeg
        <5>3. Leg(r) <= l
          BY <2>1, <2>2, <4>1, <5>2 DEF CalmInv, Ahead
        <5>4. Leg(r) \in Legs
          BY <1>0, <2>1
        <5> QED  BY <5>1, <5>2, <5>3, <5>4, ProvidersAssumption DEF ProviderOf, Legs
      <4>2. calm' => Unmissed(r)
        BY <1>4, <3>4, <4>1
      <4> QED  BY <1>4, <2>1, <2>2, <3>2, <3>4, <4>2, CalmStep
    <3> QED  BY <2>4, <3>3, <3>4 DEF Fails
  <2>5. JsonRejected(r) \/ Retries(r)
          => \E n \in 0..MaxAttempts, b \in BOOLEAN : Calls(r, n, b) /\ UNCHANGED breaker
    <3>1. request[r].tries + 1 \in 0..MaxAttempts \/ ~MayRetry(r)
      BY <1>0, <2>1, ProvidersAssumption DEF MayRetry
    <3> QED  BY <1>0, <2>1, <3>1 DEF JsonRejected, Retries
  <2> QED  BY <1>10, <2>3, <2>4, <2>5 DEF CallFails
<1>11. ASSUME NEW r \in Requests, CallAnswers(r) PROVE CalmInv'
  <2>1. UNCHANGED <<keys, down, calm>> /\ Ends(r, "reply")
    BY <1>11 DEF CallAnswers
  <2>2. Intact
    BY <1>11 DEF CallAnswers, OnSuccess, CalmInv, TypeInv, TypeOK
  <2>3. Unmissed(r) /\ Apart(r)
    BY <1>4, <2>1
  <2> QED  BY <2>1, <2>2, <2>3, CalmStep
<1>12. CASE ResetElapses
  <2>1. UNCHANGED <<keys, down, request, calm>>
    BY <1>12 DEF ResetElapses
  <2>2. Intact
    BY <1>12 DEF ResetElapses, CalmInv, Closed, TypeInv, TypeOK
  <2> QED  BY <2>1, <2>2 DEF CalmInv, Ahead, Leg, Healthy, HealthyProviderAnswers
<1>13. CASE UNCHANGED vars
  BY <1>13 DEF vars, CalmInv, Ahead, Leg, Healthy, HealthyProviderAnswers
<1> QED  BY <1>6, <1>7, <1>8, <1>9, <1>10, <1>11, <1>12, <1>13 DEF Next, Step

\* No request ends with an error while a configured provider works, whatever
\* the failures of others did to the circuits, for every number of requests,
\* models and attempts.
THEOREM HealthyAnswers == Spec => []HealthyProviderAnswers
<1>1. Init => CalmInv /\ HealthyProviderAnswers
  BY DEF Init, CalmInv, Ahead, HealthyProviderAnswers, Idle
<1>2. CalmInv => HealthyProviderAnswers
  BY DEF CalmInv, HealthyProviderAnswers
<1> QED  BY <1>1, <1>2, InitTyped, NextTyped, NextCalm, PTL DEF Spec

-----------------------------------------------------------------------------
(***************************************************************************)
(* Failures.  Closed, a circuit counts every failure of its provider; open,*)
(* each failure takes one of the calls that were in flight with it.        *)
(***************************************************************************)
InFlight(p) == {r \in Requests : request[r].at = "call" /\ CircuitOf(Leg(r)) = p}

Bounded(p) ==
    LET b == breaker[p]
    IN  /\ b.gate = "closed" => failed[p] = b.failures /\ b.failures < FailMax
        /\ b.gate = "halfOpen" => failed[p] = 0 /\ b.failures = FailMax
        /\ b.gate = "open" => /\ b.failures = FailMax
                              /\ failed[p] + Cardinality(InFlight(p)) <= FailMax - 1 + Cardinality(Requests)

FailInv == (\A p \in Providers : Bounded(p)) /\ breaker["gemini"] = Closed

\* The calls in flight are finitely many, no more than the requests, and one
\* that leaves makes them fewer.
LEMMA InFlightCounted ==
    ASSUME TypeOK, NEW p \in Providers
    PROVE  /\ IsFiniteSet(InFlight(p)) /\ Cardinality(InFlight(p)) \in Nat
           /\ Cardinality(InFlight(p)) <= Cardinality(Requests) /\ Cardinality(Requests) \in Nat
           /\ \A S \in SUBSET InFlight(p) : Cardinality(S) \in Nat /\ Cardinality(S) <= Cardinality(InFlight(p))
           /\ \A r \in InFlight(p) : \A S \in SUBSET (InFlight(p) \ {r}) :
                 Cardinality(S) \in Nat /\ Cardinality(S) <= Cardinality(InFlight(p)) - 1
<1>1. IsFiniteSet(Requests) /\ InFlight(p) \in SUBSET Requests
  BY ProvidersAssumption DEF InFlight
<1>2. IsFiniteSet(InFlight(p)) /\ Cardinality(InFlight(p)) <= Cardinality(Requests)
  BY <1>1, FS_Subset
<1>3. \A S \in SUBSET InFlight(p) : Cardinality(S) \in Nat /\ Cardinality(S) <= Cardinality(InFlight(p))
  BY <1>2, FS_Subset, FS_CardinalityType
<1>4. ASSUME NEW r \in InFlight(p), NEW S \in SUBSET (InFlight(p) \ {r})
      PROVE  Cardinality(S) \in Nat /\ Cardinality(S) <= Cardinality(InFlight(p)) - 1
  <2>1. IsFiniteSet(InFlight(p) \ {r}) /\ Cardinality(InFlight(p) \ {r}) = Cardinality(InFlight(p)) - 1
    BY <1>2, FS_RemoveElement
  <2>2. IsFiniteSet(S) /\ Cardinality(S) <= Cardinality(InFlight(p) \ {r})
    BY <2>1, FS_Subset
  <2> QED  BY <2>1, <2>2, FS_CardinalityType
<1> QED  BY <1>1, <1>2, <1>3, <1>4, FS_CardinalityType

\* A provider whose circuit and count stay is as bounded as before, if no
\* call joins those in flight while the circuit is open.
LEMMA StaysBounded ==
    ASSUME TypeOK, NEW p \in Providers, Bounded(p), UNCHANGED <<breaker[p], failed[p]>>,
           breaker[p].gate = "open" => InFlight(p)' \subseteq InFlight(p)
    PROVE  Bounded(p)'
<1>1. breaker[p].gate = "open" =>
         Cardinality(InFlight(p))' \in Nat /\ Cardinality(InFlight(p))' <= Cardinality(InFlight(p))
  BY InFlightCounted
<1>2. Cardinality(InFlight(p)) \in Nat /\ Cardinality(Requests) \in Nat /\ failed[p] \in Nat
  BY InFlightCounted DEF TypeOK
<1> QED  BY <1>1, <1>2, FailMaxAssumption DEF Bounded

\* The failure of a call in flight.
LEMMA FailureBounded ==
    ASSUME TypeOK, NEW p \in Providers, Bounded(p), NEW r \in InFlight(p),
           breaker'[p] = OnFailure(breaker[p]), failed'[p] = failed[p] + 1,
           InFlight(p)' \subseteq InFlight(p) \ {r}
    PROVE  Bounded(p)'
<1> DEFINE n == Cardinality(InFlight(p))
           m == Cardinality(InFlight(p))'
           N == Cardinality(Requests)
<1>1. n \in Nat /\ m \in Nat /\ N \in Nat /\ n <= N /\ m <= n - 1
  BY InFlightCounted
<1>2. failed[p] \in Nat /\ breaker[p].failures \in 0..FailMax /\ breaker[p].gate \in {"closed", "open", "halfOpen"}
  BY DEF TypeOK, Breakers
<1>3. /\ breaker'[p].failures = Counted(breaker[p].failures)
      /\ breaker'[p].gate = IF Counted(breaker[p].failures) = FailMax THEN "open" ELSE breaker[p].gate
  BY DEF OnFailure
<1> HIDE DEF n, m, N
<1>4. CASE breaker[p].gate = "closed"
  BY <1>1, <1>2, <1>3, <1>4, FailMaxAssumption DEF Bounded, Counted, n, m, N
<1>5. CASE breaker[p].gate = "halfOpen"
  BY <1>1, <1>2, <1>3, <1>5, FailMaxAssumption DEF Bounded, Counted, n, m, N
<1>6. CASE breaker[p].gate = "open"
  BY <1>1, <1>2, <1>3, <1>6, FailMaxAssumption DEF Bounded, Counted, n, m, N
<1> QED  BY <1>2, <1>4, <1>5, <1>6

LEMMA ClosedBounded ==
    ASSUME NEW p \in Providers, breaker'[p] = Closed, failed'[p] = 0
    PROVE  Bounded(p)'
BY FailMaxAssumption DEF Bounded, Closed

\* How a request that moves changes the calls in flight.
LEMMA MovedInFlight ==
    ASSUME NEW r \in Requests, NEW p \in Providers, \A q \in Requests \ {r} : request'[q] = request[q]
    PROVE  /\ request'[r].at # "call" => InFlight(p)' \subseteq InFlight(p) \ {r}
           /\ request'[r].leg = Leg(r) /\ (request[r].at = "call" \/ CircuitOf(Leg(r)) # p)
                 => InFlight(p)' \subseteq InFlight(p)
BY DEF InFlight, Leg

LEMMA NextBounded == TypeInv /\ FailInv /\ [Next]_vars => FailInv'
<1> SUFFICES ASSUME TypeInv, FailInv, [Next]_vars PROVE FailInv'
  OBVIOUS
<1> USE DEF TypeInv
<1> DEFINE Apart(r) == \A q \in Requests \ {r} : request'[q] = request[q]
           Uncounted == UNCHANGED <<breaker, failed>>
<1>0. \A r \in Requests : request[r].at \in {"leg", "call"} => /\ Leg(r) \in Legs
        /\ CircuitOf(Leg(r)) = ProviderOf(Leg(r)) /\ ProviderOf(Leg(r)) \in Providers
  BY ProviderTyped DEF TypeOK, AtLegs, Configured
<1>1. ASSUME NEW r \in Requests, NEW legs, GoesTo(r, legs) PROVE request'[r].at # "call" /\ Apart(r)
  BY <1>1 DEF GoesTo, Ends, Idle, TypeOK
<1>2. ASSUME NEW r \in Requests, NEW a, Ends(r, a) PROVE request'[r].at # "call" /\ Apart(r)
  BY <1>2 DEF Ends, Idle, TypeOK
<1>3. ASSUME NEW r \in Requests, NEW n, NEW b, Calls(r, n, b)
      PROVE  request'[r].leg = Leg(r) /\ Apart(r)
  BY <1>3 DEF Calls, Leg, TypeOK
<1>4. ASSUME Uncounted, \A p \in Providers : breaker[p].gate = "open" => InFlight(p)' \subseteq InFlight(p)
      PROVE  FailInv'
  BY <1>4, StaysBounded DEF FailInv
<1>5. ASSUME NEW r \in Requests, request'[r].at # "call", Apart(r), Uncounted PROVE FailInv'
  BY <1>4, <1>5, MovedInFlight
<1>6. ASSUME NEW r \in Requests, Begin(r) PROVE FailInv'
  BY <1>1, <1>2, <1>5, <1>6 DEF Begin
<1>7. ASSUME NEW r \in Requests, Refused(r) \/ TimesOut(r) PROVE FailInv'
  BY <1>1, <1>5, <1>7 DEF Refused, TimesOut
<1>8. ASSUME NEW r \in Requests, Enters(r) PROVE FailInv'
  <2>1. request'[r].leg = Leg(r) /\ Apart(r) /\ Uncounted /\ request[r].at = "leg"
    BY <1>3, <1>8 DEF Enters
  <2>2. \A p \in Providers : breaker[p].gate = "open" => CircuitOf(Leg(r)) # p
    BY <1>0, <1>8, <2>1 DEF Enters, Guarded, Admits, FailInv, Closed
  <2> QED  BY <1>4, <2>1, <2>2, MovedInFlight
<1>9. ASSUME NEW r \in Requests, CallFails(r) PROVE FailInv'
  <2>1. request[r].at = "call" /\ Leg(r) \in Legs
    BY <1>0, <1>9 DEF CallFails
  <2>2. CASE JsonRejected(r) \/ Retries(r)
    <3>1. request'[r].leg = Leg(r) /\ Apart(r) /\ Uncounted
      BY <1>3, <2>2 DEF JsonRejected, Retries
    <3> QED  BY <1>4, <2>1, <3>1, MovedInFlight
  <2>3. CASE Fails(r)
    <3>1. request'[r].at # "call" /\ Apart(r)
      BY <1>1, <1>2, <2>3 DEF Fails
    <3>2. CASE ~Guarded(Leg(r))
      BY <1>5, <2>3, <3>1, <3>2 DEF Fails
    <3>3. CASE Guarded(Leg(r))
      <4>1. PICK c \in Providers : c = CircuitOf(Leg(r)) /\ c # "gemini" /\ r \in InFlight(c)
        BY <1>0, <2>1, <3>3 DEF Guarded, InFlight
      <4>2. Blames(c)
        BY <2>3, <3>3, <4>1 DEF Fails
      <4>3. /\ breaker'[c] = OnFailure(breaker[c]) /\ failed'[c] = failed[c] + 1
            /\ \A p \in Providers \ {c} : breaker'[p] = breaker[p] /\ failed'[p] = failed[p]
        BY <4>1, <4>2 DEF Blames, TypeOK
      <4>4. \A p \in Providers : InFlight(p)' \subseteq InFlight(p) \ {r}
        BY <3>1, MovedInFlight
      <4>5. Bounded(c)'
        BY <4>1, <4>3, <4>4, FailureBounded DEF FailInv
      <4>6. \A p \in Providers \ {c} : Bounded(p)'
        BY <4>3, <4>4, StaysBounded DEF FailInv
      <4>7. breaker'["gemini"] = Closed
        BY <4>1, <4>3 DEF FailInv, Providers
      <4> QED  BY <4>5, <4>6, <4>7 DEF FailInv
    <3> QED  BY <3>2, <3>3
  <2> QED  BY <1>9, <2>2, <2>3 DEF CallFails
<1>10. ASSUME NEW r \in Requests, CallAnswers(r) PROVE FailInv'
  <2>1. request[r].at = "call" /\ request'[r].at # "call" /\ Apart(r)
    BY <1>2, <1>10 DEF CallAnswers
  <2>2. CASE ~Guarded(Leg(r))
    BY <1>5, <1>10, <2>1, <2>2 DEF CallAnswers
  <2>3. CASE Guarded(Leg(r))
    <3>1. PICK c \in Providers : c = CircuitOf(Leg(r)) /\ c # "gemini"
      BY <1>0, <2>1, <2>3 DEF Guarded
    <3>2. /\ breaker'[c] = Closed /\ failed'[c] = 0
          /\ \A p \in Providers \ {c} : breaker'[p] = breaker[p] /\ failed'[p] = failed[p]
      BY <1>10, <2>3, <3>1 DEF CallAnswers, OnSuccess, TypeOK
    <3>3. \A p \in Providers : InFlight(p)' \subseteq InFlight(p)
      BY <2>1, MovedInFlight
    <3>4. Bounded(c)'
      BY <3>1, <3>2, ClosedBounded
    <3>5. \A p \in Providers \ {c} : Bounded(p)'
      BY <3>2, <3>3, StaysBounded DEF FailInv
    <3>6. breaker'["gemini"] = Closed
      BY <3>1, <3>2 DEF FailInv, Providers
    <3> QED  BY <3>4, <3>5, <3>6 DEF FailInv
  <2> QED  BY <2>2, <2>3
<1>11. CASE ResetElapses
  <2>1. PICK c \in Providers :
          /\ breaker[c].gate = "open"
          /\ breaker' = [breaker EXCEPT ![c] = Elapsed(@)]
          /\ failed' = [failed EXCEPT ![c] = 0]
    BY <1>11 DEF ResetElapses
  <2>2. \A p \in Providers : InFlight(p)' = InFlight(p)
    BY <1>11 DEF ResetElapses, InFlight, Leg
  <2>3. c # "gemini"
    BY <2>1 DEF FailInv, Closed
  <2>4. Bounded(c)'
    <3>1. breaker[c] \in Breakers /\ breaker[c].failures = FailMax
      BY <2>1 DEF TypeOK, FailInv, Bounded
    <3>2. breaker'[c] = Elapsed(breaker[c]) /\ failed'[c] = 0
      BY <2>1 DEF TypeOK
    <3>3. Elapsed(breaker[c]).gate = "halfOpen" /\ Elapsed(breaker[c]).failures = FailMax
      BY <3>1 DEF Elapsed, Breakers
    <3> QED  BY <3>2, <3>3 DEF Bounded
  <2>5. \A p \in Providers \ {c} : breaker'[p] = breaker[p] /\ failed'[p] = failed[p]
    BY <2>1 DEF TypeOK
  <2>6. \A p \in Providers \ {c} : Bounded(p)'
    BY <2>2, <2>5, StaysBounded DEF FailInv
  <2>7. breaker'["gemini"] = Closed
    BY <2>3, <2>5 DEF FailInv, Providers
  <2> QED  BY <2>4, <2>6, <2>7 DEF FailInv
<1>12. CASE UNCHANGED vars
  <2>1. \A p \in Providers : InFlight(p)' = InFlight(p)
    BY <1>12 DEF vars, InFlight, Leg
  <2> QED  BY <1>4, <1>12, <2>1 DEF vars
<1> QED  BY <1>6, <1>7, <1>8, <1>9, <1>10, <1>11, <1>12 DEF Next, Step

\* Between two changes of its circuit a provider that raises fails FailMax times,
\* and once more for each call in flight by then, however many requests there are.
THEOREM DeadRests == Spec => []DeadProviderRests
<1>1. Init => FailInv
  BY FailMaxAssumption DEF Init, FailInv, Bounded, Closed, Providers
<1>2. TypeInv /\ FailInv => DeadProviderRests
  <2> SUFFICES ASSUME TypeInv, FailInv, NEW p \in Providers
               PROVE  failed[p] <= FailMax - 1 + Cardinality(Requests)
    BY DEF DeadProviderRests
  <2>1. /\ Cardinality(InFlight(p)) \in Nat /\ Cardinality(Requests) \in Nat
        /\ failed[p] \in Nat /\ breaker[p] \in Breakers /\ Bounded(p)
    BY InFlightCounted DEF TypeInv, TypeOK, FailInv
  <2> QED  BY <2>1, FailMaxAssumption DEF Bounded, Breakers
<1> QED  BY <1>1, <1>2, InitTyped, NextTyped, NextBounded, PTL DEF Spec
=============================================================================
