----------------------------- MODULE Providers -----------------------------
(***************************************************************************)
(* app/services/llm_service.py: generate tries the configured providers in *)
(* order, and of OpenRouter and Gemini one model after the other.  The     *)
(* attempts below are those of concurrent requests of one process; the     *)
(* models of OpenRouter share one circuit, Gemini has none.                *)
(***************************************************************************)
EXTENDS CircuitBreaker, Sequences, FiniteSets

CONSTANTS
    Requests,
    OpenRouterModels, \* length of models_to_try: 2 or 3
    GeminiModels,     \* length of models_to_try: 2
    MaxAttempts       \* LLM_MAX_RETRIES

ASSUME ProvidersAssumption ==
    /\ OpenRouterModels \in Nat \ {0} /\ GeminiModels \in Nat \ {0} /\ MaxAttempts \in Nat \ {0}
    /\ IsFiniteSet(Requests)

Providers == {"openrouter", "nvidia", "gemini"}

\* A leg is a model of a provider, in the order in which they are tried.
Legs == 1 .. OpenRouterModels + 1 + GeminiModels
ProviderOf(l) ==
    IF l <= OpenRouterModels THEN "openrouter"
    ELSE IF l = OpenRouterModels + 1 THEN "nvidia" ELSE "gemini"

VARIABLES
    keys,    \* providers with an API key
    down,    \* environment: legs that fail or hang on every call
    request, \* [at, leg, tries, plain, answer]
    breaker, \* the circuit of each provider (that of Gemini is never used)
    calm,    \* history: no leg that is up failed or was timed out
    failed   \* history: guarded calls of a provider that raised since its
             \* circuit last closed or became half-open

vars == <<keys, down, request, breaker, calm, failed>>

Idle == [at |-> "idle", leg |-> 0, tries |-> 0, plain |-> FALSE, answer |-> "none"]

Init ==
    /\ keys \in SUBSET Providers
    /\ down \in SUBSET Legs
    /\ request = [r \in Requests |-> Idle]
    /\ breaker = [p \in Providers |-> Closed]
    /\ calm = TRUE
    /\ failed = [p \in Providers |-> 0]

Leg(r) == request[r].leg
Down(r) == Leg(r) \in down

\* Mutant: NVIDIA uses the circuit of OpenRouter.
CircuitOf_Shared(l) == "openrouter"

CircuitOf(l) == ProviderOf(l)

Guarded(l) == ProviderOf(l) # "gemini"
Ends(r, answer) == request' = [request EXCEPT ![r] = [Idle EXCEPT !.at = "done", !.answer = answer]]

\* The next leg among those of a set, or LLMError.
GoesTo(r, legs) ==
    IF legs = {} THEN Ends(r, "error")
    ELSE request' = [request EXCEPT ![r] = [Idle EXCEPT !.at = "leg",
                        !.leg = CHOOSE l \in legs : \A m \in legs : l <= m]]

Configured == {l \in Legs : ProviderOf(l) \in keys}

After(l) == {m \in Configured : m > l}

\* POST /chat answers 503 at once when no provider has a key.
Begin(r) ==
    /\ request[r].at = "idle"
    /\ IF keys = {} THEN Ends(r, "unconfigured") ELSE GoesTo(r, Configured)
    /\ UNCHANGED <<keys, down, breaker, calm, failed>>

Refused(r) ==
    /\ request[r].at = "leg" /\ Guarded(Leg(r)) /\ ~Admits(breaker[CircuitOf(Leg(r))])
    /\ GoesTo(r, After(Leg(r)))
    /\ UNCHANGED <<keys, down, breaker, calm, failed>>

Calls(r, tries, plain) ==
    request' = [request EXCEPT ![r].at = "call", ![r].tries = tries, ![r].plain = plain]

Enters(r) ==
    /\ request[r].at = "leg" /\ (Guarded(Leg(r)) => Admits(breaker[CircuitOf(Leg(r))]))
    /\ Calls(r, 1, FALSE)
    /\ UNCHANGED <<keys, down, breaker, calm, failed>>

MayRetry(r) == request[r].tries < MaxAttempts

\* Any error of the call in JSON mode: OpenRouter is called without it, in
\* the same attempt.
JsonRejected(r) ==
    /\ ProviderOf(Leg(r)) = "openrouter" /\ ~request[r].plain
    /\ Calls(r, request[r].tries, TRUE)
    /\ UNCHANGED <<breaker, failed>>

\* A timeout or a ConnectionError: tenacity makes another attempt, without
\* asking the circuit again.
Retries(r) ==
    /\ Guarded(Leg(r)) /\ MayRetry(r)
    /\ Calls(r, request[r].tries + 1, FALSE)
    /\ UNCHANGED <<breaker, failed>>

\* Mutant: the failure is not reported to the circuit.
Blames_Not(p) == UNCHANGED breaker /\ failed' = [failed EXCEPT ![p] = @ + 1]

Blames(p) ==
    /\ breaker' = [breaker EXCEPT ![p] = OnFailure(@)]
    /\ failed' = [failed EXCEPT ![p] = @ + 1]

\* Any other error, or the last attempt's.  Gemini: a ClientError that is not
\* a 404 ends the provider, any other error its model.
Fails(r) ==
    /\ IF Guarded(Leg(r)) THEN Blames(CircuitOf(Leg(r))) ELSE UNCHANGED <<breaker, failed>>
    /\ GoesTo(r, After(Leg(r))) \/ (~Guarded(Leg(r)) /\ Ends(r, "error"))

CallFails(r) ==
    /\ request[r].at = "call"
    /\ calm' = (calm /\ Down(r))
    /\ IF ProviderOf(Leg(r)) = "openrouter" /\ ~request[r].plain
       THEN JsonRejected(r)
       ELSE Retries(r) \/ Fails(r)
    /\ UNCHANGED <<keys, down>>

\* Mutant: NVIDIA and OpenRouter run without a timebox of their own.
Boxed_Gemini(l) == ~Guarded(l)

Boxed(l) == TRUE

\* The timebox of the leg: wait_for cancels the attempts, and the circuit
\* hears of neither success nor failure.
TimesOut(r) ==
    /\ request[r].at = "call" /\ Boxed(Leg(r))
    /\ calm' = (calm /\ Down(r))
    /\ GoesTo(r, After(Leg(r)))
    /\ UNCHANGED <<keys, down, breaker, failed>>

CallAnswers(r) ==
    LET p == CircuitOf(Leg(r))
    IN  /\ request[r].at = "call" /\ ~Down(r)
        /\ Ends(r, "reply")
        /\ IF Guarded(Leg(r))
           THEN /\ breaker' = [breaker EXCEPT ![p] = OnSuccess(@)]
                /\ failed' = [failed EXCEPT ![p] = 0]
           ELSE UNCHANGED <<breaker, failed>>
        /\ UNCHANGED <<keys, down, calm>>

ResetElapses ==
    \E p \in Providers :
        /\ breaker[p].gate = "open"
        /\ breaker' = [breaker EXCEPT ![p] = Elapsed(@)]
        /\ failed' = [failed EXCEPT ![p] = 0]
        /\ UNCHANGED <<keys, down, request, calm>>

Step(r) == Begin(r) \/ Refused(r) \/ Enters(r) \/ TimesOut(r)

Next ==
    \/ \E r \in Requests : Step(r) \/ CallFails(r) \/ CallAnswers(r)
    \/ ResetElapses

\* The event loop runs a coroutine that can go on, and a timebox expires; a
\* provider owes no answer, not even an error.
Spec == Init /\ [][Next]_vars /\ \A r \in Requests : WF_vars(Step(r))

-----------------------------------------------------------------------------
TypeOK ==
    /\ keys \subseteq Providers /\ down \subseteq Legs
    /\ request \in [Requests -> [at : {"idle", "leg", "call", "done"}, leg : Legs \cup {0},
                                 tries : 0..MaxAttempts, plain : BOOLEAN,
                                 answer : {"none", "reply", "error", "unconfigured"}]]
    /\ breaker \in [Providers -> Breakers]
    /\ calm \in BOOLEAN
    /\ failed \in [Providers -> Nat]

Healthy(p) == \A l \in Legs : ProviderOf(l) = p => l \notin down

\* No request ends with an error while some configured provider works, models
\* and all, whatever the failures of the others and of concurrent requests
\* have done to the circuits (llm_service.py 3-6, 145-177).
HealthyProviderAnswers ==
    calm => \A r \in Requests : request[r].answer = "error" => \A p \in keys : ~Healthy(p)

\* A provider that raises is left alone after FailMax failures: only what was
\* in flight when its circuit opened can still fail (resilience.py 6-10).
DeadProviderRests ==
    \A p \in Providers : failed[p] <= FailMax - 1 + Cardinality(Requests)

\* Every request ends, though every provider hangs (llm_service.py 3-4).
RequestEnds == \A r \in Requests : request[r].at = "leg" ~> request[r].at = "done"
=============================================================================
