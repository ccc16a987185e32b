----------------------------- MODULE VoiceProofs -----------------------------
(***************************************************************************)
(* Voice replies, for every number of requests, every chain of providers,  *)
(* every number of attempts and of restarts.                               *)
(***************************************************************************)
EXTENDS Voice, FiniteSetTheorems, TLAPS

-----------------------------------------------------------------------------
(***************************************************************************)
(* Types.                                                                  *)
(***************************************************************************)
VoiceSet ==
    [at : {"idle", "tier", "call", "write", "store", "record", "reply", "done"},
     tier : Tiers, tries : 0..MaxAttempts,
     answer : {"none", "audio", "text", "dropped", "unavailable", "failed", "lost"}]
WriterStates == {"none", "queued", "ready", "open", "finished", "failed"}

LEMMA ChainTyped ==
    /\ 1 \in Tiers /\ Tiers \subseteq Nat
    /\ \A t \in Tiers : Chain[t] \in Providers /\ (~IsLast(t) => t + 1 \in Tiers)
    /\ 0 \in 0..MaxAttempts /\ 1 \in 0..MaxAttempts
BY ChainAssumption DEF Tiers, Providers, IsLast

LEMMA BreakerTyped ==
    ASSUME NEW b \in Breakers
    PROVE  /\ OnSuccess(b) = Closed /\ Closed \in Breakers
           /\ OnFailure(b) \in Breakers
           /\ Elapsed(b) \in Breakers
BY FailMaxAssumption DEF Breakers, Closed, OnSuccess, OnFailure, Counted, Elapsed

\* The handler of one request moves.
Moves(r) ==
    voice' \in [Requests -> VoiceSet] /\ \A q \in Requests \ {r} : voice'[q] = voice[q]

LEMMA RecordMoves ==
    ASSUME TypeOK, NEW r \in Requests, NEW x \in VoiceSet, voice' = [voice EXCEPT ![r] = x]
    PROVE  Moves(r) /\ voice'[r] = x
BY DEF TypeOK, VoiceSet, Moves

LEMMA GoesMoves ==
    ASSUME TypeOK, NEW r \in Requests,
           NEW to \in {"tier", "call", "write", "store", "record", "reply"}, Goes(r, to)
    PROVE  /\ Moves(r) /\ voice'[r].at = to /\ voice'[r].tier = voice[r].tier
           /\ voice'[r].answer = voice[r].answer
<1> DEFINE x == [voice[r] EXCEPT !.at = to]
<1>1. x \in VoiceSet /\ x.at = to /\ x.tier = voice[r].tier /\ x.answer = voice[r].answer
  <2>1. voice[r] \in VoiceSet
    BY DEF TypeOK, VoiceSet
  <2> QED  BY <2>1 DEF VoiceSet
<1>2. voice' = [voice EXCEPT ![r] = x]
  BY DEF Goes
<1> HIDE DEF x
<1> QED  BY <1>1, <1>2, RecordMoves

LEMMA GoesTryingMoves ==
    ASSUME TypeOK, NEW r \in Requests, NEW to \in {"call", "store"}, NEW n \in 0..MaxAttempts,
           voice' = [voice EXCEPT ![r].at = to, ![r].tries = n]
    PROVE  /\ Moves(r) /\ voice'[r].at = to /\ voice'[r].tier = voice[r].tier
           /\ voice'[r].answer = voice[r].answer
<1> DEFINE x == [[voice[r] EXCEPT !.at = to] EXCEPT !.tries = n]
<1>1. x \in VoiceSet /\ x.at = to /\ x.tier = voice[r].tier /\ x.answer = voice[r].answer
  <2>1. voice[r] \in VoiceSet
    BY DEF TypeOK, VoiceSet
  <2> QED  BY <2>1 DEF VoiceSet
<1>2. voice' = [voice EXCEPT ![r] = x]
  BY DEF TypeOK
<1> HIDE DEF x
<1> QED  BY <1>1, <1>2, RecordMoves

LEMMA AnswersMoves ==
    ASSUME TypeOK, NEW r \in Requests, NEW a \in {"audio", "text", "dropped"}, Answers(r, "reply", a)
    PROVE  Moves(r) /\ voice'[r].at = "reply" /\ voice'[r].answer = a
<1> DEFINE x == [[voice[r] EXCEPT !.at = "reply"] EXCEPT !.answer = a]
<1>1. x \in VoiceSet /\ x.at = "reply" /\ x.answer = a
  BY DEF TypeOK, VoiceSet
<1>2. voice' = [voice EXCEPT ![r] = x]
  BY DEF Answers, TypeOK
<1> HIDE DEF x
<1> QED  BY <1>1, <1>2, RecordMoves

Endings == {"none", "audio", "text", "dropped", "unavailable", "failed", "lost"}

LEMMA EndsMoves ==
    ASSUME TypeOK, NEW r \in Requests, NEW a \in Endings, Ends(r, a)
    PROVE  Moves(r) /\ voice'[r].at = "done" /\ voice'[r].answer = a
<1> DEFINE x == [Idle EXCEPT !.at = "done", !.answer = a]
<1>1. x \in VoiceSet /\ x.at = "done" /\ x.answer = a
  BY ChainTyped DEF Idle, VoiceSet, Endings
<1>2. voice' = [voice EXCEPT ![r] = x]
  BY DEF Ends
<1> HIDE DEF x
<1> QED  BY <1>1, <1>2, RecordMoves

\* The file of a request is removed; its threads that have not opened it yet
\* may still do so.
Removed(r) ==
    /\ file' = [file EXCEPT ![r] = "none"]
    /\ writer' \in [Requests -> [Tiers -> WriterStates]]
    /\ \A q \in Requests \ {r} : writer'[q] = writer[q]
    /\ \A t \in Tiers : writer'[r][t] \in {"none", "ready"}
    /\ nameless' \in Nat

LEMMA UnlinksRemoves ==
    ASSUME TypeOK, NEW r \in Requests, Unlinks(r)
    PROVE  Removed(r)
<1> DEFINE w == [t \in Tiers |-> IF writer[r][t] = "ready" THEN "ready" ELSE "none"]
<1>1. writer' = [writer EXCEPT ![r] = w] /\ file' = [file EXCEPT ![r] = "none"]
  BY DEF Unlinks
<1>2. w \in [Tiers -> WriterStates] /\ \A t \in Tiers : w[t] \in {"none", "ready"}
  BY DEF WriterStates
<1>3. nameless' \in Nat
  <2> DEFINE open == {t \in Tiers : writer[r][t] = "open"}
  <2>1. IsFiniteSet(Tiers)
    BY ChainAssumption, FS_Interval DEF Tiers
  <2>2. IsFiniteSet(open)
    BY <2>1, FS_Subset
  <2>3. Cardinality(open) \in Nat
    BY <2>2, FS_CardinalityType
  <2>4. nameless' = nameless + Cardinality(open) /\ nameless \in Nat
    BY DEF Unlinks, TypeOK
  <2> HIDE DEF open
  <2> QED  BY <2>3, <2>4
<1> HIDE DEF w
<1> QED  BY <1>1, <1>2, <1>3 DEF Removed, TypeOK, WriterStates

LEMMA GivesUpMoves ==
    ASSUME TypeOK, NEW r \in Requests, GivesUp(r)
    PROVE  /\ Removed(r) /\ Moves(r)
           /\ \/ IsLast(voice[r].tier) /\ voice'[r].at = "reply" /\ voice'[r].answer = "text"
              \/ /\ ~IsLast(voice[r].tier) /\ voice'[r].at = "tier"
                 /\ voice'[r].tier = voice[r].tier + 1 /\ voice'[r].answer = voice[r].answer
<1>1. Removed(r)
  BY UnlinksRemoves DEF GivesUp, CleansUp
<1>2. voice[r] \in VoiceSet
  BY DEF TypeOK, VoiceSet
<1>3. CASE IsLast(voice[r].tier)
  BY <1>1, <1>3, AnswersMoves DEF GivesUp
<1>4. CASE ~IsLast(voice[r].tier)
  <2> DEFINE x == [[[voice[r] EXCEPT !.at = "tier"] EXCEPT !.tier = voice[r].tier + 1] EXCEPT !.tries = 0]
  <2>1. voice[r].tier + 1 \in Tiers
    BY <1>2, <1>4, ChainTyped DEF VoiceSet
  <2>2. x \in VoiceSet /\ x.at = "tier" /\ x.tier = voice[r].tier + 1 /\ x.answer = voice[r].answer
    BY <1>2, <2>1, ChainTyped DEF VoiceSet
  <2>3. voice' = [voice EXCEPT ![r] = x]
    BY <1>4 DEF GivesUp, TypeOK
  <2> HIDE DEF x
  <2> QED  BY <1>1, <1>4, <2>2, <2>3, RecordMoves
<1> QED  BY <1>3, <1>4

\* One thread of a request changes.
LEMMA ThreadChanges ==
    ASSUME TypeOK, NEW r \in Requests, NEW t \in Tiers, NEW v \in WriterStates,
           writer' = [writer EXCEPT ![r][t] = v]
    PROVE  /\ writer' \in [Requests -> [Tiers -> WriterStates]]
           /\ \A q \in Requests \ {r} : writer'[q] = writer[q]
           /\ writer'[r][t] = v /\ \A u \in Tiers \ {t} : writer'[r][u] = writer[r][u]
BY DEF TypeOK, WriterStates

-----------------------------------------------------------------------------
(***************************************************************************)
(* The invariant of one request.                                           *)
(***************************************************************************)
\* A thread at work has a file, and so have a request that stores it and an
\* answer with an audio_url, unless a start-up removed it.
Playable(r) ==
    /\ \A t \in Tiers : writer[r][t] \in {"open", "finished"} => file[r] # "none"
    /\ voice[r].at = "store" => file[r] # "none"
    /\ voice[r].at = "record" => Bytes(r) # "none"
    /\ voice[r].answer = "audio" =>
          /\ voice[r].at \in {"reply", "done"} /\ row[r]
          /\ mode = "s3" \/ r \notin swept => Bytes(r) # "none"

\* While no timed-out thread has opened the path, only the thread of the
\* current tier writes, and from its end on the file is whole; in S3 mode it
\* is gone once it is stored or given up.
Whole(r) ==
    r \notin late =>
      /\ \A t \in Tiers : writer[r][t] \in {"open", "finished"} => Current(r, t)
      /\ \A t \in Tiers : writer[r][t] = "open" => file[r] = "part"
      /\ \A t \in Tiers : writer[r][t] = "finished" => file[r] = "whole"
      /\ voice[r].at = "store" \/ (voice[r].at = "record" /\ mode = "local") => file[r] = "whole"
      /\ row[r] => voice[r].at \in {"reply", "done"} /\ (mode = "local" => file[r] \in {"none", "whole"})
      /\ object[r] \in {"none", "whole"}
      /\ mode = "s3" /\ voice[r].at \in {"record", "reply"} => file[r] = "none"
      /\ mode = "s3" /\ voice[r].at = "done" /\ voice[r].answer # "lost" => file[r] = "none"

\* While no healthy provider falters, the tiers that were given up are those
\* of providers that are down.
FallsThrough(r) ==
    /\ \A t \in Tiers : writer[r][t] = "finished" => Chain[t] \notin down
    /\ voice[r].at = "idle" => voice[r].tier = 1 /\ voice[r].answer = "none"
    /\ voice[r].at = "store" => Chain[voice[r].tier] \notin down
    /\ calm => /\ voice[r].at \in {"tier", "call", "write", "store"} =>
                     \A t \in Tiers : t < voice[r].tier => Chain[t] \in down
               /\ voice[r].at = "reply" /\ voice[r].answer = "text" =>
                     \A t \in Tiers : Chain[t] \in down

Local(r) == Playable(r) /\ Whole(r) /\ FallsThrough(r)

CircuitsCalm == calm => \A p \in Providers \ down : breaker[p] = Closed

Inv == TypeOK /\ (\A r \in Requests : Local(r)) /\ CircuitsCalm

LEMMA InvTyped == Inv => TypeOK
BY DEF Inv

\* A step of one request leaves those of the others alone.
Apart(r) ==
    \A q \in Requests \ {r} :
        /\ voice'[q] = voice[q] /\ writer'[q] = writer[q] /\ file'[q] = file[q]
        /\ object'[q] = object[q] /\ row'[q] = row[q] /\ (q \in late' <=> q \in late)

LEMMA StepKeeps ==
    ASSUME Inv, NEW r \in Requests, Apart(r), UNCHANGED world, calm' => calm,
           TypeOK', Local(r)', CircuitsCalm'
    PROVE  Inv'
<1>1. ASSUME NEW q \in Requests \ {r} PROVE Local(q)'
  <2>1. Playable(q)'
    BY <1>1 DEF Inv, Local, Playable, Apart, world, Bytes
  <2>2. Whole(q)'
    BY <1>1 DEF Inv, Local, Whole, Apart, world, Current
  <2>3. FallsThrough(q)'
    BY <1>1 DEF Inv, Local, FallsThrough, Apart, world
  <2> QED  BY <2>1, <2>2, <2>3 DEF Local
<1> QED  BY <1>1 DEF Inv

-----------------------------------------------------------------------------
(***************************************************************************)
(* The handler.                                                            *)
(***************************************************************************)
\* The variables that are no handler's, typed.
RestTyped ==
    /\ file' \in [Requests -> Contents] /\ object' \in [Requests -> Contents]
    /\ row' \in [Requests -> BOOLEAN] /\ breaker' \in [Providers -> Breakers]
    /\ calm' \in BOOLEAN /\ late' \subseteq Requests
    /\ nameless' \in Nat /\ job' \subseteq Requests

LEMMA TypedAgain ==
    ASSUME TypeOK, UNCHANGED world, voice' \in [Requests -> VoiceSet],
           writer' \in [Requests -> [Tiers -> WriterStates]], RestTyped
    PROVE  TypeOK'
BY DEF TypeOK, world, VoiceSet, WriterStates, RestTyped

LEMMA RequestFacts ==
    ASSUME TypeOK, NEW r \in Requests
    PROVE  /\ voice[r] \in VoiceSet /\ voice[r].tier \in Tiers /\ Provider(r) \in Providers
           /\ Provider(r) = Chain[voice[r].tier] /\ CircuitOf(r) = Provider(r)
           /\ breaker[CircuitOf(r)] \in Breakers
           /\ writer \in [Requests -> [Tiers -> WriterStates]] /\ voice \in [Requests -> VoiceSet]
<1>1. voice[r] \in VoiceSet /\ voice \in [Requests -> VoiceSet]
  BY DEF TypeOK, VoiceSet
<1>2. voice[r].tier \in Tiers
  BY <1>1 DEF VoiceSet
<1> QED  BY <1>1, <1>2, ChainTyped DEF TypeOK, Provider, CircuitOf, WriterStates

LEMMA StartKeeps == ASSUME Inv, NEW r \in Requests, Start(r) PROVE Inv'
<1>1. /\ Moves(r) /\ voice'[r].at = "tier" /\ voice'[r].tier = voice[r].tier
      /\ voice'[r].answer = voice[r].answer
  BY GoesMoves DEF Start, Inv
<1>2. UNCHANGED <<writer, nameless, job, file, object, row, breaker, calm, late, world>> /\ voice[r].at = "idle"
  BY DEF Start
<1>3. TypeOK'
  BY <1>1, <1>2, RequestFacts, TypedAgain DEF Inv, Moves, RestTyped, TypeOK
<1>4. Apart(r)
  BY <1>1, <1>2 DEF Apart, Moves
<1>5. Local(r)'
  BY <1>1, <1>2, ChainTyped DEF Inv, Local, Playable, Whole, FallsThrough, Bytes, Current, world, Tiers
<1> QED  BY <1>2, <1>3, <1>4, <1>5, StepKeeps DEF Inv, CircuitsCalm, world

\* A tier is given up because its provider is down, or something else faltered.
LEMMA GivenUpKeeps ==
    ASSUME Inv, NEW r \in Requests, GivesUp(r), UNCHANGED <<job, object, row, late, world>>,
           voice[r].at \in {"tier", "call", "write"}, calm' \in BOOLEAN, calm' => calm,
           calm' => Provider(r) \in down,
           breaker' = breaker \/ breaker' = [breaker EXCEPT ![CircuitOf(r)] = OnFailure(@)]
    PROVE  Inv'
<1>1. /\ Removed(r) /\ Moves(r)
      /\ \/ IsLast(voice[r].tier) /\ voice'[r].at = "reply" /\ voice'[r].answer = "text"
         \/ /\ ~IsLast(voice[r].tier) /\ voice'[r].at = "tier"
            /\ voice'[r].tier = voice[r].tier + 1 /\ voice'[r].answer = voice[r].answer
  BY GivesUpMoves DEF Inv
<1>2. voice[r].tier \in Tiers /\ Provider(r) = Chain[voice[r].tier] /\ Provider(r) \in Providers
      /\ CircuitOf(r) = Provider(r) /\ breaker[CircuitOf(r)] \in Breakers
  BY RequestFacts DEF Inv
<1>3. file'[r] = "none" /\ \A q \in Requests \ {r} : file'[q] = file[q]
  BY <1>1 DEF Removed, Inv, TypeOK
<1>4. TypeOK'
  <2>1. breaker' \in [Providers -> Breakers]
    BY <1>2, BreakerTyped DEF Inv, TypeOK
  <2>2. file' \in [Requests -> Contents]
    BY <1>1 DEF Removed, Inv, TypeOK, Contents
  <2>3. RestTyped
    BY <1>1, <2>1, <2>2 DEF Removed, RestTyped, Inv, TypeOK
  <2> QED  BY <1>1, <2>3, TypedAgain DEF Inv, Moves, Removed
<1>5. Apart(r)
  BY <1>1, <1>3 DEF Apart, Moves, Removed
<1>6. CircuitsCalm'
  BY <1>2 DEF CircuitsCalm, Inv, TypeOK, world
<1>7. Playable(r)'
  BY <1>1, <1>3 DEF Inv, Local, Playable, Removed
<1>8. Whole(r)'
  BY <1>1, <1>3 DEF Inv, Local, Whole, Removed
<1>9. FallsThrough(r)'
  <2>1. calm' => \A t \in Tiers : t <= voice[r].tier => Chain[t] \in down
    BY <1>2, ChainTyped DEF Inv, Local, FallsThrough, Tiers
  <2>2. IsLast(voice[r].tier) => \A t \in Tiers : t <= voice[r].tier
    BY ChainAssumption DEF IsLast, Tiers
  <2>3. \A t \in Tiers : t < voice[r].tier + 1 => t <= voice[r].tier
    BY <1>2, ChainTyped DEF Tiers
  <2> QED  BY <1>1, <2>1, <2>2, <2>3 DEF FallsThrough, Removed, world
<1> QED  BY <1>4, <1>5, <1>6, <1>7, <1>8, <1>9, StepKeeps DEF Local

LEMMA RefusedKeeps == ASSUME Inv, NEW r \in Requests, Refused(r) PROVE Inv'
<1>1. calm => Provider(r) \in down
  BY RequestFacts DEF Refused, Inv, CircuitsCalm, Admits, Closed
<1> QED  BY <1>1, GivenUpKeeps DEF Refused, Inv, TypeOK

LEMMA TimesOutKeeps == ASSUME Inv, NEW r \in Requests, TimesOut(r) PROVE Inv'
BY GivenUpKeeps DEF TimesOut, Inv, TypeOK

\* The handler goes on to a call or a thread of its tier.
LEMMA GoesOnKeeps ==
    ASSUME Inv, NEW r \in Requests, Moves(r), voice'[r].at \in {"call", "write"},
           voice'[r].tier = voice[r].tier, voice'[r].answer = voice[r].answer,
           voice[r].at \in {"tier", "call", "write"},
           UNCHANGED <<nameless, job, file, object, row, breaker, late, world>>, calm' \in BOOLEAN, calm' => calm,
           \/ \E v \in {"queued", "ready"} : writer' = [writer EXCEPT ![r][voice[r].tier] = v]
           \/ /\ UNCHANGED writer
              /\ voice[r].at = "write" => writer[r][voice[r].tier] = "failed"
    PROVE  Inv'
<1>1. voice[r].tier \in Tiers
  BY RequestFacts DEF Inv
<1>2. /\ writer' \in [Requests -> [Tiers -> WriterStates]]
      /\ \A q \in Requests \ {r} : writer'[q] = writer[q]
      /\ \A u \in Tiers \ {voice[r].tier} : writer'[r][u] = writer[r][u]
      /\ \/ writer'[r][voice[r].tier] \in {"queued", "ready"}
         \/ writer'[r][voice[r].tier] = writer[r][voice[r].tier]
  <2>1. {"queued", "ready"} \subseteq WriterStates
    BY DEF WriterStates
  <2>2. CASE \E v \in {"queued", "ready"} : writer' = [writer EXCEPT ![r][voice[r].tier] = v]
    <3> SUFFICES ASSUME NEW t \in Tiers, t = voice[r].tier, NEW v \in {"queued", "ready"},
                        writer' = [writer EXCEPT ![r][t] = v]
                 PROVE  /\ writer' \in [Requests -> [Tiers -> WriterStates]]
                        /\ \A q \in Requests \ {r} : writer'[q] = writer[q]
                        /\ writer'[r][t] = v
                        /\ \A u \in Tiers \ {t} : writer'[r][u] = writer[r][u]
      BY <1>1, <2>2
    <3> QED  BY <2>1, InvTyped DEF TypeOK, WriterStates
  <2>3. CASE UNCHANGED writer
    BY <2>3, RequestFacts DEF Inv
  <2> QED  BY <2>2, <2>3
<1>3. TypeOK'
  BY <1>2, TypedAgain DEF Inv, Moves, RestTyped, TypeOK
<1>4. Apart(r)
  BY <1>2 DEF Apart, Moves
<1>5. Playable(r)'
  BY <1>2 DEF Inv, Local, Playable, Bytes, world
<1>6. Whole(r)'
  <2>1. ASSUME r \notin late, NEW t \in Tiers, writer'[r][t] \in {"open", "finished"} PROVE FALSE
    <3>1. writer[r][t] = writer'[r][t] /\ Current(r, t)
      BY <1>2, <2>1 DEF Inv, Local, Whole
    <3> QED  BY <1>1, <1>2, <2>1, <3>1 DEF Current
  <2> QED  BY <2>1 DEF Inv, Local, Whole
<1>7. FallsThrough(r)'
  BY <1>2 DEF Inv, Local, FallsThrough, world
<1>8. CircuitsCalm'
  BY DEF Inv, CircuitsCalm, world
<1> QED  BY <1>3, <1>4, <1>5, <1>6, <1>7, <1>8, StepKeeps DEF Local

LEMMA StartsQueuedOrReady ==
    ASSUME NEW r, StartsThread(r)
    PROVE  \E v \in {"queued", "ready"} : writer' = [writer EXCEPT ![r][voice[r].tier] = v]
BY DEF StartsThread

LEMMA CallsKeeps == ASSUME Inv, NEW r \in Requests, Calls(r) PROVE Inv'
<1>1. CASE IsLast(voice[r].tier)
  <2>1. /\ Moves(r) /\ voice'[r].at = "write" /\ voice'[r].tier = voice[r].tier
        /\ voice'[r].answer = voice[r].answer
    BY <1>1, GoesMoves DEF Calls, Inv
  <2> QED  BY <1>1, <2>1, GoesOnKeeps, StartsQueuedOrReady DEF Calls, Inv, TypeOK
<1>2. CASE ~IsLast(voice[r].tier)
  <2>1. /\ Moves(r) /\ voice'[r].at = "call" /\ voice'[r].tier = voice[r].tier
        /\ voice'[r].answer = voice[r].answer
    BY <1>2, GoesTryingMoves, ChainTyped DEF Calls, Inv
  <2> QED  BY <1>2, <2>1, GoesOnKeeps DEF Calls, Inv, TypeOK
<1> QED  BY <1>1, <1>2

LEMMA RespondsKeeps == ASSUME Inv, NEW r \in Requests, Responds(r) PROVE Inv'
<1>1. /\ Moves(r) /\ voice'[r].at = "write" /\ voice'[r].tier = voice[r].tier
      /\ voice'[r].answer = voice[r].answer
  BY GoesMoves DEF Responds, Inv
<1> QED  BY <1>1, GoesOnKeeps, StartsQueuedOrReady DEF Responds, Inv, TypeOK

LEMMA AttemptFailsKeeps == ASSUME Inv, NEW r \in Requests, AttemptFails(r) PROVE Inv'
<1>1. /\ voice[r].at = "call" \/ (voice[r].at = "write" /\ writer[r][voice[r].tier] = "failed")
      /\ calm' = (calm /\ Provider(r) \in down) /\ UNCHANGED <<job, object, row, late, world>>
  BY DEF AttemptFails, Current
<1>2. CASE MayRetry(r) /\ voice' = [voice EXCEPT ![r].at = "call", ![r].tries = @ + 1]
           /\ UNCHANGED <<writer, nameless, file, breaker>>
  <2>1. voice[r].tries + 1 \in 0..MaxAttempts
    BY <1>2, RequestFacts, ChainAssumption DEF MayRetry, VoiceSet, Inv
  <2>2. voice' = [voice EXCEPT ![r].at = "call", ![r].tries = voice[r].tries + 1]
    BY <1>2
  <2>3. /\ Moves(r) /\ voice'[r].at = "call" /\ voice'[r].tier = voice[r].tier
        /\ voice'[r].answer = voice[r].answer
    BY <2>1, <2>2, GoesTryingMoves DEF Inv
  <2> QED  BY <1>1, <1>2, <2>3, GoesOnKeeps DEF Inv, TypeOK
<1>3. CASE breaker' = [breaker EXCEPT ![CircuitOf(r)] = OnFailure(@)] /\ GivesUp(r)
  BY <1>1, <1>3, GivenUpKeeps DEF Inv, TypeOK
<1> QED  BY <1>2, <1>3 DEF AttemptFails

-----------------------------------------------------------------------------
(***************************************************************************)
(* The threads.                                                            *)
(***************************************************************************)
LEMMA RunsThreadKeeps ==
    ASSUME Inv, NEW r \in Requests, NEW t \in Tiers, RunsThread(r, t) PROVE Inv'
<1>1. /\ writer' = [writer EXCEPT ![r][t] = "ready"]
      /\ UNCHANGED <<voice, nameless, job, file, object, row, breaker, calm, late, world>>
  BY DEF RunsThread
<1>2. /\ writer' \in [Requests -> [Tiers -> WriterStates]]
      /\ \A q \in Requests \ {r} : writer'[q] = writer[q]
      /\ writer'[r][t] = "ready" /\ \A u \in Tiers \ {t} : writer'[r][u] = writer[r][u]
  <2>1. "ready" \in WriterStates
    BY DEF WriterStates
  <2> QED  BY <1>1, <2>1, ThreadChanges, InvTyped
<1>3. TypeOK'
  BY <1>1, <1>2, TypedAgain, RequestFacts DEF Inv, RestTyped, TypeOK
<1>4. Apart(r)
  BY <1>1, <1>2 DEF Apart
<1>5. Playable(r)'
  BY <1>1, <1>2 DEF Inv, Local, Playable, Bytes, world
<1>6. Whole(r)'
  BY <1>1, <1>2 DEF Inv, Local, Whole, Current, world
<1>7. FallsThrough(r)'
  BY <1>1, <1>2 DEF Inv, Local, FallsThrough, world
<1>8. CircuitsCalm'
  BY <1>1 DEF Inv, CircuitsCalm, world
<1> QED  BY <1>1, <1>3, <1>4, <1>5, <1>6, <1>7, <1>8, StepKeeps DEF Local

\* A step that only gives a worker to somebody or frees one.
LEMMA WorkersKeep ==
    ASSUME Inv, UNCHANGED <<voice, writer, file, object, row, breaker, calm, late, world>>,
           nameless' \in Nat, job' \subseteq Requests
    PROVE  Inv'
<1>1. TypeOK'
  BY DEF Inv, TypeOK, world
<1>2. CircuitsCalm'
  BY DEF Inv, CircuitsCalm, world
<1>3. ASSUME NEW r \in Requests PROVE Local(r)'
  BY DEF Inv, Local, Playable, Whole, FallsThrough, Bytes, Current, world
<1> QED  BY <1>1, <1>2, <1>3 DEF Inv

LEMMA NamelessEndsKeeps == Inv /\ NamelessEnds => Inv'
<1> SUFFICES ASSUME Inv, NamelessEnds PROVE Inv'
  OBVIOUS
<1>1. nameless' \in Nat /\ job' \subseteq Requests
  BY DEF NamelessEnds, Inv, TypeOK
<1> QED  BY <1>1, WorkersKeep DEF NamelessEnds

LEMMA RunsCallKeeps == ASSUME Inv, NEW r \in Requests, RunsCall(r) PROVE Inv'
<1>1. nameless' \in Nat /\ job' \subseteq Requests
  BY DEF RunsCall, Inv, TypeOK
<1> QED  BY <1>1, WorkersKeep DEF RunsCall

LEMMA OpensKeeps == ASSUME Inv, NEW r \in Requests, NEW t \in Tiers, Opens(r, t) PROVE Inv'
<1>1. /\ writer[r][t] = "ready" /\ writer' = [writer EXCEPT ![r][t] = "open"]
      /\ UNCHANGED <<voice, nameless, job, object, row, breaker, calm, world>>
  BY DEF Opens
<1>2. /\ writer' \in [Requests -> [Tiers -> WriterStates]]
      /\ \A q \in Requests \ {r} : writer'[q] = writer[q]
      /\ writer'[r][t] = "open" /\ \A u \in Tiers \ {t} : writer'[r][u] = writer[r][u]
  <2>1. "open" \in WriterStates
    BY DEF WriterStates
  <2> QED  BY <1>1, <2>1, ThreadChanges, InvTyped
<1>3. /\ file' \in [Requests -> Contents] /\ \A q \in Requests \ {r} : file'[q] = file[q]
      /\ file'[r] = IF \E u \in Tiers : writer[r][u] = "open" THEN "mixed" ELSE "part"
  BY DEF Opens, Inv, TypeOK, Contents
<1>4. late' = IF Current(r, t) THEN late ELSE late \cup {r}
  BY DEF Opens
<1>5. TypeOK'
  BY <1>1, <1>2, <1>3, <1>4, TypedAgain, RequestFacts DEF Inv, RestTyped, TypeOK
<1>6. Apart(r)
  BY <1>1, <1>2, <1>3, <1>4 DEF Apart
<1>7. Playable(r)'
  BY <1>1, <1>2, <1>3 DEF Inv, Local, Playable, Bytes, world
<1>8. Whole(r)'
  <2> SUFFICES ASSUME r \notin late' PROVE Whole(r)'
    BY DEF Whole
  <2>1. Current(r, t) /\ r \notin late /\ Current(r, t)'
    BY <1>1, <1>4 DEF Current
  <2>2. \A u \in Tiers : writer[r][u] \notin {"open", "finished"}
    BY <1>1, <2>1 DEF Inv, Local, Whole, Current
  <2>3. file'[r] = "part"
    BY <1>3, <2>2
  <2>4. \A u \in Tiers \ {t} : writer'[r][u] \notin {"open", "finished"}
    BY <1>2, <2>2
  <2>5. voice'[r].at = "write"
    BY <2>1 DEF Current
  <2>6. ~row'[r] /\ object'[r] \in {"none", "whole"}
    BY <1>1, <2>1 DEF Inv, Local, Whole, Current
  <2> QED  BY <1>2, <2>1, <2>3, <2>4, <2>5, <2>6 DEF Whole
<1>9. FallsThrough(r)'
  BY <1>1, <1>2 DEF Inv, Local, FallsThrough, world
<1>10. CircuitsCalm'
  BY <1>1 DEF Inv, CircuitsCalm, world
<1> QED  BY <1>1, <1>5, <1>6, <1>7, <1>8, <1>9, <1>10, StepKeeps DEF Local

LEMMA FinishesKeeps == ASSUME Inv, NEW r \in Requests, NEW t \in Tiers, Finishes(r, t) PROVE Inv'
<1>1. /\ writer[r][t] = "open" /\ Chain[t] \notin down
      /\ UNCHANGED <<voice, nameless, job, object, row, breaker, calm, late, world>>
  BY DEF Finishes
<1>2. PICK v \in {"finished", "none"} :
         v = (IF Current(r, t) THEN "finished" ELSE "none") /\ writer' = [writer EXCEPT ![r][t] = v]
  BY DEF Finishes, Leaves
<1>3. /\ writer' \in [Requests -> [Tiers -> WriterStates]]
      /\ \A q \in Requests \ {r} : writer'[q] = writer[q]
      /\ writer'[r][t] = v /\ \A u \in Tiers \ {t} : writer'[r][u] = writer[r][u]
  <2>1. v \in WriterStates
    BY DEF WriterStates
  <2>2. writer' = [writer EXCEPT ![r][t] = v]
    BY <1>2
  <2> QED  BY <2>1, <2>2, ThreadChanges, InvTyped
<1>4. /\ file' \in [Requests -> Contents] /\ \A q \in Requests \ {r} : file'[q] = file[q]
      /\ file'[r] = IF file[r] = "part" THEN "whole" ELSE file[r]
  BY DEF Finishes, Inv, TypeOK, Contents
<1>5. TypeOK'
  BY <1>1, <1>3, <1>4, TypedAgain, RequestFacts DEF Inv, RestTyped, TypeOK
<1>6. Apart(r)
  BY <1>1, <1>3, <1>4 DEF Apart
<1>7. Playable(r)'
  BY <1>1, <1>3, <1>4 DEF Inv, Local, Playable, Bytes, world
<1>8. Whole(r)'
  <2> SUFFICES ASSUME r \notin late PROVE Whole(r)'
    BY <1>1 DEF Whole
  <2>1. Current(r, t) /\ v = "finished" /\ file'[r] = "whole" /\ Current(r, t)'
    BY <1>1, <1>2, <1>4 DEF Inv, Local, Whole, Current
  <2>2. \A u \in Tiers \ {t} : writer'[r][u] \notin {"open", "finished"}
    BY <1>3, <2>1 DEF Inv, Local, Whole, Current
  <2>3. voice'[r].at = "write"
    BY <2>1 DEF Current
  <2>4. ~row'[r] /\ object'[r] \in {"none", "whole"}
    BY <1>1, <2>1 DEF Inv, Local, Whole, Current
  <2> QED  BY <1>3, <2>1, <2>2, <2>3, <2>4 DEF Whole
<1>9. FallsThrough(r)'
  BY <1>1, <1>2, <1>3 DEF Inv, Local, FallsThrough, world
<1>10. CircuitsCalm'
  BY <1>1 DEF Inv, CircuitsCalm, world
<1> QED  BY <1>1, <1>5, <1>6, <1>7, <1>8, <1>9, <1>10, StepKeeps DEF Local

LEMMA BreaksKeeps == ASSUME Inv, NEW r \in Requests, NEW t \in Tiers, Breaks(r, t) PROVE Inv'
<1>1. /\ UNCHANGED <<voice, nameless, job, file, object, row, breaker, late, world>>
      /\ calm' = (calm /\ Chain[t] \in down)
  BY DEF Breaks
<1>2. PICK v \in {"failed", "none"} : writer' = [writer EXCEPT ![r][t] = v]
  BY DEF Breaks, Leaves
<1>3. /\ writer' \in [Requests -> [Tiers -> WriterStates]]
      /\ \A q \in Requests \ {r} : writer'[q] = writer[q]
      /\ writer'[r][t] = v /\ \A u \in Tiers \ {t} : writer'[r][u] = writer[r][u]
  <2>1. v \in WriterStates
    BY DEF WriterStates
  <2> QED  BY <1>2, <2>1, ThreadChanges, InvTyped
<1>4. calm' \in BOOLEAN /\ (calm' => calm)
  BY <1>1 DEF Inv, TypeOK
<1>5. TypeOK'
  BY <1>1, <1>3, <1>4, TypedAgain, RequestFacts DEF Inv, RestTyped, TypeOK
<1>6. Apart(r)
  BY <1>1, <1>3 DEF Apart
<1>7. Playable(r)'
  BY <1>1, <1>3 DEF Inv, Local, Playable, Bytes, world
<1>8. Whole(r)'
  BY <1>1, <1>3 DEF Inv, Local, Whole, Current, world
<1>9. FallsThrough(r)'
  BY <1>1, <1>3, <1>4 DEF Inv, Local, FallsThrough, world
<1>10. CircuitsCalm'
  BY <1>1, <1>4 DEF Inv, CircuitsCalm, world
<1> QED  BY <1>1, <1>4, <1>5, <1>6, <1>7, <1>8, <1>9, <1>10, StepKeeps DEF Local

-----------------------------------------------------------------------------
(***************************************************************************)
(* The store and the answer.                                               *)
(***************************************************************************)
LEMMA WrittenKeeps == ASSUME Inv, NEW r \in Requests, Written(r) PROVE Inv'
<1>1. /\ voice[r].at = "write" /\ writer[r][voice[r].tier] = "finished"
      /\ UNCHANGED <<nameless, job, file, object, row, calm, late, world>>
      /\ breaker' = [breaker EXCEPT ![CircuitOf(r)] = OnSuccess(@)]
      /\ writer' = [writer EXCEPT ![r][voice[r].tier] = "none"]
  BY DEF Written, Current
<1>2. /\ Moves(r) /\ voice'[r].at = "store" /\ voice'[r].tier = voice[r].tier
      /\ voice'[r].answer = voice[r].answer
  BY GoesTryingMoves, ChainTyped DEF Written, Inv
<1>3. /\ writer' \in [Requests -> [Tiers -> WriterStates]]
      /\ \A q \in Requests \ {r} : writer'[q] = writer[q]
      /\ writer'[r][voice[r].tier] = "none"
      /\ \A u \in Tiers \ {voice[r].tier} : writer'[r][u] = writer[r][u]
  <2>1. "none" \in WriterStates /\ voice[r].tier \in Tiers
    BY RequestFacts DEF WriterStates, Inv
  <2> QED  BY <1>1, <2>1, ThreadChanges, InvTyped
<1>4. breaker' \in [Providers -> Breakers]
      /\ \A p \in Providers : breaker'[p] = breaker[p] \/ breaker'[p] = Closed
  BY <1>1, RequestFacts, BreakerTyped DEF Inv, TypeOK
<1>5. TypeOK'
  BY <1>1, <1>2, <1>3, <1>4, TypedAgain DEF Inv, Moves, RestTyped, TypeOK
<1>6. Apart(r)
  BY <1>1, <1>2, <1>3 DEF Apart, Moves
<1>7. voice[r].tier \in Tiers
  BY RequestFacts DEF Inv
<1>8. Playable(r)'
  BY <1>1, <1>2, <1>3, <1>7 DEF Inv, Local, Playable, Bytes, world
<1>9. Whole(r)'
  <2>1. ASSUME r \notin late, NEW u \in Tiers, writer'[r][u] \in {"open", "finished"} PROVE FALSE
    BY <1>3, <1>7, <2>1 DEF Inv, Local, Whole, Current
  <2> QED  BY <1>1, <1>2, <1>7, <2>1 DEF Inv, Local, Whole, world
<1>10. FallsThrough(r)'
  BY <1>1, <1>2, <1>3, <1>7 DEF Inv, Local, FallsThrough, world
<1>11. CircuitsCalm'
  BY <1>1, <1>4 DEF Inv, CircuitsCalm, world
<1> QED  BY <1>1, <1>5, <1>6, <1>8, <1>9, <1>10, <1>11, StepKeeps DEF Local

LEMMA StoreKeeps == ASSUME Inv, NEW r \in Requests, Store(r) PROVE Inv'
<1>1. /\ voice[r].at = "store" /\ UNCHANGED <<row, breaker, calm, late, world>>
      /\ job' \subseteq Requests
  BY DEF Store, CallEnds, Inv, TypeOK
<1>2. file[r] # "none" /\ mode' = mode /\ mode \in {"s3", "local"}
  BY <1>1 DEF Inv, Local, Playable, world, TypeOK
<1>3. CASE mode = "local"
  <2>1. UNCHANGED <<file, writer, nameless, object>> /\ Goes(r, "record")
    BY <1>3 DEF Store
  <2>2. /\ Moves(r) /\ voice'[r].at = "record" /\ voice'[r].tier = voice[r].tier
        /\ voice'[r].answer = voice[r].answer
    BY <2>1, GoesMoves DEF Inv
  <2>3. TypeOK'
    BY <1>1, <2>1, <2>2, TypedAgain, RequestFacts DEF Inv, Moves, RestTyped, TypeOK
  <2>4. Apart(r)
    BY <1>1, <2>1, <2>2 DEF Apart, Moves
  <2>5. Playable(r)'
    BY <1>1, <1>2, <1>3, <2>1, <2>2 DEF Inv, Local, Playable, Bytes, world
  <2>6. Whole(r)'
    BY <1>1, <1>2, <1>3, <2>1, <2>2 DEF Inv, Local, Whole, Current, world
  <2>7. FallsThrough(r)'
    BY <1>1, <2>1, <2>2 DEF Inv, Local, FallsThrough, world
  <2>8. CircuitsCalm'
    BY <1>1 DEF Inv, CircuitsCalm, world
  <2> QED  BY <1>1, <2>3, <2>4, <2>5, <2>6, <2>7, <2>8, StepKeeps DEF Local
<1>4. CASE mode = "s3"
  <2>1. PICK uploaded \in BOOLEAN, stored \in BOOLEAN :
          /\ uploaded => stored
          /\ object' = IF stored THEN [object EXCEPT ![r] = file[r]] ELSE object
          /\ Discards(r, uploaded)
          /\ IF uploaded THEN Goes(r, "record") ELSE StoreFailed(r) \/ Answers(r, "reply", "dropped")
    BY <1>4 DEF Store
  <2>2. Removed(r)
    BY <2>1, UnlinksRemoves DEF Discards, Inv
  <2>3. /\ Moves(r)
        /\ \/ uploaded /\ voice'[r].at = "record" /\ voice'[r].answer = voice[r].answer
           \/ voice'[r].at = "done" /\ voice'[r].answer = "unavailable"
           \/ voice'[r].at = "reply" /\ voice'[r].answer = "dropped"
    <3>1. CASE Goes(r, "record") /\ uploaded
      BY <3>1, GoesMoves DEF Inv
    <3>2. CASE StoreFailed(r)
      BY <3>2, EndsMoves DEF Inv, StoreFailed, Endings
    <3>3. CASE Answers(r, "reply", "dropped")
      BY <3>3, AnswersMoves DEF Inv
    <3> QED  BY <2>1, <3>1, <3>2, <3>3
  <2>4. /\ object' \in [Requests -> Contents] /\ \A q \in Requests \ {r} : object'[q] = object[q]
        /\ object'[r] \in {object[r], file[r]} /\ (uploaded => object'[r] = file[r])
    BY <2>1 DEF Inv, TypeOK
  <2>5. file' \in [Requests -> Contents] /\ file'[r] = "none" /\ \A q \in Requests \ {r} : file'[q] = file[q]
    BY <2>2 DEF Removed, Inv, TypeOK, Contents
  <2>6. TypeOK'
    BY <1>1, <2>2, <2>3, <2>4, <2>5, TypedAgain DEF Inv, Moves, Removed, RestTyped, TypeOK
  <2>7. Apart(r)
    BY <1>1, <2>2, <2>3, <2>4, <2>5 DEF Apart, Moves, Removed
  <2>8. \A t \in Tiers : writer'[r][t] \notin {"open", "finished"}
    BY <2>2 DEF Removed
  <2>9. Playable(r)'
    BY <1>1, <1>2, <1>4, <2>3, <2>4, <2>8 DEF Inv, Local, Playable, Bytes
  <2>10. Whole(r)'
    BY <1>1, <1>2, <1>4, <2>3, <2>4, <2>5, <2>8 DEF Inv, Local, Whole
  <2>11. FallsThrough(r)'
    BY <1>1, <2>3, <2>8 DEF Inv, Local, FallsThrough
  <2>12. CircuitsCalm'
    BY <1>1 DEF Inv, CircuitsCalm, world
  <2> QED  BY <1>1, <2>6, <2>7, <2>9, <2>10, <2>11, <2>12, StepKeeps DEF Local
<1> QED  BY <1>2, <1>3, <1>4

LEMMA RecordKeeps == ASSUME Inv, NEW r \in Requests, Record(r) PROVE Inv'
<1>1. /\ voice[r].at = "record"
      /\ UNCHANGED <<writer, nameless, file, object, breaker, calm, late, world>>
      /\ job' \subseteq Requests
  BY DEF Record, CallEnds, Inv, TypeOK
<1>2. /\ Moves(r) /\ voice'[r].at = "reply" /\ row' \in [Requests -> BOOLEAN]
      /\ \A q \in Requests \ {r} : row'[q] = row[q]
      /\ \/ row'[r] /\ voice'[r].answer = "audio"
         \/ row'[r] = row[r] /\ voice'[r].answer = "dropped"
  <2>1. CASE row' = [row EXCEPT ![r] = TRUE] /\ Answers(r, "reply", "audio")
    BY <2>1, AnswersMoves DEF Inv, TypeOK
  <2>2. CASE UNCHANGED row /\ Answers(r, "reply", "dropped")
    BY <2>2, AnswersMoves DEF Inv, TypeOK
  <2> QED  BY <2>1, <2>2 DEF Record
<1>3. TypeOK'
  BY <1>1, <1>2, TypedAgain, RequestFacts DEF Inv, Moves, RestTyped, TypeOK
<1>4. Apart(r)
  BY <1>1, <1>2 DEF Apart, Moves
<1>5. Playable(r)'
  BY <1>1, <1>2 DEF Inv, Local, Playable, Bytes, world
<1>6. Whole(r)'
  BY <1>1, <1>2 DEF Inv, Local, Whole, Current, world
<1>7. FallsThrough(r)'
  BY <1>1, <1>2 DEF Inv, Local, FallsThrough, world
<1>8. CircuitsCalm'
  BY <1>1 DEF Inv, CircuitsCalm, world
<1> QED  BY <1>1, <1>3, <1>4, <1>5, <1>6, <1>7, <1>8, StepKeeps DEF Local

LEMMA ReplyKeeps == ASSUME Inv, NEW r \in Requests, Reply(r) PROVE Inv'
<1>1. /\ voice[r].at = "reply"
      /\ UNCHANGED <<writer, nameless, file, object, row, breaker, calm, late, world>>
      /\ job' \subseteq Requests
  BY DEF Reply, CallEnds, Inv, TypeOK
<1>2. Moves(r) /\ voice'[r].at = "done" /\ voice'[r].answer \in {voice[r].answer, "failed"}
  <2>1. voice[r].answer \in Endings
    BY RequestFacts DEF Inv, VoiceSet, Endings
  <2> QED  BY <2>1, EndsMoves DEF Reply, Inv, Endings
<1>3. TypeOK'
  BY <1>1, <1>2, TypedAgain, RequestFacts DEF Inv, Moves, RestTyped, TypeOK
<1>4. Apart(r)
  BY <1>1, <1>2 DEF Apart, Moves
<1>5. Playable(r)'
  BY <1>1, <1>2 DEF Inv, Local, Playable, Bytes, world
<1>6. Whole(r)'
  BY <1>1, <1>2 DEF Inv, Local, Whole, Current, world
<1>7. FallsThrough(r)'
  BY <1>1, <1>2 DEF Inv, Local, FallsThrough, world
<1>8. CircuitsCalm'
  BY <1>1 DEF Inv, CircuitsCalm, world
<1> QED  BY <1>1, <1>3, <1>4, <1>5, <1>6, <1>7, <1>8, StepKeeps DEF Local

-----------------------------------------------------------------------------
(***************************************************************************)
(* The world.                                                              *)
(***************************************************************************)
LEMMA ResetElapsesKeeps == Inv /\ ResetElapses => Inv'
<1> SUFFICES ASSUME Inv, ResetElapses PROVE Inv'
  OBVIOUS
<1>1. PICK p \in Providers : breaker[p].gate = "open" /\ breaker' = [breaker EXCEPT ![p] = Elapsed(@)]
  BY DEF ResetElapses
<1>2. UNCHANGED <<voice, writer, nameless, job, file, object, row, calm, late, world>>
  BY DEF ResetElapses
<1>3. breaker' \in [Providers -> Breakers] /\ \A q \in Providers \ {p} : breaker'[q] = breaker[q]
  BY <1>1, BreakerTyped DEF Inv, TypeOK
<1>4. TypeOK'
  BY <1>2, <1>3 DEF Inv, TypeOK, world
<1>5. CircuitsCalm'
  BY <1>1, <1>2, <1>3 DEF Inv, CircuitsCalm, Closed, world
<1>6. ASSUME NEW r \in Requests PROVE Local(r)'
  BY <1>2 DEF Inv, Local, Playable, Whole, FallsThrough, Bytes, Current, world
<1> QED  BY <1>4, <1>5, <1>6 DEF Inv

LEMMA RestartKeeps == Inv /\ Restart => Inv'
<1> SUFFICES ASSUME Inv, Restart PROVE Inv'
  OBVIOUS
<1> USE DEF Inv
<1>1. /\ restarts < MaxRestarts /\ restarts' = restarts + 1
      /\ voice' = [r \in Requests |-> IF voice[r].at \in {"idle", "done"} THEN voice[r]
                                      ELSE [Idle EXCEPT !.at = "done", !.answer = "lost"]]
      /\ writer' = [r \in Requests |-> NoWriters] /\ nameless' = 0 /\ job' = {}
      /\ breaker' = [p \in Providers |-> Closed]
      /\ UNCHANGED <<mode, down, object, row, calm, late>>
  BY DEF Restart
<1>2. PICK old \in SUBSET {r \in Requests : file[r] # "none"} :
        /\ file' = [r \in Requests |-> IF r \in old THEN "none" ELSE file[r]]
        /\ swept' = swept \cup old
  BY DEF Restart
<1>3. ASSUME NEW r \in Requests
      PROVE  /\ voice'[r] \in VoiceSet
             /\ \/ voice[r].at \in {"idle", "done"} /\ voice'[r] = voice[r]
                \/ voice'[r].at = "done" /\ voice'[r].answer = "lost"
  <2>1. CASE voice[r].at \in {"idle", "done"}
    BY <1>1, <2>1, RequestFacts
  <2>2. CASE voice[r].at \notin {"idle", "done"}
    <3> DEFINE x == [Idle EXCEPT !.at = "done", !.answer = "lost"]
    <3>1. x \in VoiceSet /\ x.at = "done" /\ x.answer = "lost"
      BY ChainTyped DEF Idle, VoiceSet
    <3>2. voice'[r] = x
      BY <1>1, <2>2
    <3> HIDE DEF x
    <3> QED  BY <3>1, <3>2
  <2> QED  BY <2>1, <2>2
<1>4. \A r \in Requests, t \in Tiers : writer'[r][t] = "none"
  BY <1>1 DEF NoWriters
<1>5. ASSUME NEW r \in Requests
      PROVE  file'[r] = file[r] \/ (file'[r] = "none" /\ r \in swept')
  BY <1>2
<1>6. TypeOK'
  <2>1. voice' \in [Requests -> VoiceSet]
    BY <1>1, <1>3
  <2>2. writer' \in [Requests -> [Tiers -> WriterStates]]
    BY <1>1 DEF NoWriters, WriterStates
  <2>3. breaker' \in [Providers -> Breakers]
    BY <1>1, FailMaxAssumption DEF Closed, Breakers
  <2>4. file' \in [Requests -> Contents] /\ swept' \subseteq Requests
    BY <1>2 DEF TypeOK, Contents
  <2>5. restarts' \in 0..MaxRestarts
    BY <1>1, ChainAssumption DEF TypeOK
  <2> QED  BY <1>1, <2>1, <2>2, <2>3, <2>4, <2>5 DEF TypeOK, VoiceSet, WriterStates
<1>7. CircuitsCalm'
  BY <1>1 DEF CircuitsCalm
<1>8. ASSUME NEW r \in Requests PROVE Local(r)'
  <2>1. Playable(r)'
    BY <1>1, <1>2, <1>3, <1>4, <1>5 DEF Local, Playable, Bytes
  <2>2. Whole(r)'
    BY <1>1, <1>3, <1>4, <1>5 DEF Local, Whole
  <2>3. FallsThrough(r)'
    BY <1>1, <1>3, <1>4 DEF Local, FallsThrough
  <2> QED  BY <2>1, <2>2, <2>3 DEF Local
<1> QED  BY <1>6, <1>7, <1>8

-----------------------------------------------------------------------------
(***************************************************************************)
(* The theorems.                                                           *)
(***************************************************************************)
LEMMA NextKeeps == Inv /\ [Next]_vars => Inv'
<1> SUFFICES ASSUME Inv, [Next]_vars PROVE Inv'
  OBVIOUS
<1>1. ASSUME NEW r \in Requests, Step(r) PROVE Inv'
  BY <1>1, RefusedKeeps, CallsKeeps, TimesOutKeeps, WrittenKeeps, RunsCallKeeps DEF Step
<1>2. CASE UNCHANGED vars
  <2>1. UNCHANGED <<voice, writer, nameless, job, file, object, row, breaker, calm, late, mode, down, restarts, swept>>
    BY <1>2 DEF vars
  <2>2. TypeOK' /\ CircuitsCalm'
    BY <2>1 DEF Inv, TypeOK, CircuitsCalm
  <2>3. ASSUME NEW r \in Requests PROVE Local(r)'
    BY <2>1 DEF Inv, Local, Playable, Whole, FallsThrough, Bytes, Current
  <2> QED  BY <2>2, <2>3 DEF Inv
<1> QED
  BY <1>1, <1>2, StartKeeps, RespondsKeeps, AttemptFailsKeeps, StoreKeeps, RecordKeeps, ReplyKeeps,
     RunsThreadKeeps, OpensKeeps, FinishesKeeps, BreaksKeeps, NamelessEndsKeeps,
     ResetElapsesKeeps, RestartKeeps DEF Next

LEMMA InitKeeps == Init => Inv
<1> SUFFICES ASSUME Init PROVE Inv
  OBVIOUS
<1>1. \A r \in Requests : voice[r] = Idle /\ writer[r] = NoWriters /\ file[r] = "none"
                          /\ object[r] = "none" /\ row[r] = FALSE
  BY DEF Init
<1>2. \A r \in Requests, t \in Tiers : writer[r][t] = "none"
  BY <1>1 DEF NoWriters
<1>3. TypeOK
  <2>1. Idle \in VoiceSet /\ voice = [r \in Requests |-> Idle]
    BY ChainTyped DEF Idle, VoiceSet, Init
  <2>2. NoWriters \in [Tiers -> WriterStates]
    BY DEF NoWriters, WriterStates
  <2>3. Closed \in Breakers
    BY FailMaxAssumption DEF Closed, Breakers
  <2>4. voice \in [Requests -> VoiceSet] /\ writer \in [Requests -> [Tiers -> WriterStates]]
    BY <2>1, <2>2 DEF Init
  <2> QED  BY <2>3, <2>4, ChainAssumption DEF Init, TypeOK, VoiceSet, WriterStates, Contents
<1>4. CircuitsCalm
  BY DEF Init, CircuitsCalm
<1>5. ASSUME NEW r \in Requests PROVE Local(r)
  BY <1>1, <1>2 DEF Local, Playable, Whole, FallsThrough, Idle
<1> QED  BY <1>3, <1>4, <1>5 DEF Inv

LEMMA AlwaysInv == Spec => []Inv
BY InitKeeps, NextKeeps, PTL DEF Spec

\* Each variable keeps its type: no request leaves the chain of tiers or makes
\* more than TTS_MAX_RETRIES attempts of one.
THEOREM VoiceTyped == Spec => []TypeOK
BY AlwaysInv, PTL DEF Inv

\* An audio_url that was answered can be played by its user, whatever failed
\* or crashed: a row is written only for bytes that are stored.
THEOREM UrlPlayable == Spec => []UrlIsPlayable
<1>1. ASSUME Inv, NEW r \in Requests, voice[r].answer = "audio", mode = "s3" \/ r \notin swept
      PROVE  Served(Owner[r], r) # "404"
  <2>1. row[r] /\ Bytes(r) # "none"
    BY <1>1 DEF Inv, Local, Playable
  <2>2. Bytes(r) \in Contents
    BY <1>1 DEF Bytes, Inv, TypeOK
  <2>3. Served(Owner[r], r) = Bytes(r)
    BY <2>1 DEF Served
  <2> QED  BY <2>2, <2>3 DEF Contents
<1>2. Inv => UrlIsPlayable
  BY <1>1 DEF UrlIsPlayable
<1> QED  BY <1>2, AlwaysInv, PTL

\* What is served is one provider's audio to its end, while no thread that was
\* given up has opened the path of the request.
THEOREM AudioWhole == Spec => []AudioIsWhole
<1>1. Inv => AudioIsWhole
  BY DEF Inv, Local, Whole, AudioIsWhole, Served, Bytes, TypeOK
<1> QED  BY <1>1, AlwaysInv, PTL

\* In S3 mode every path to an answer removes the local file.
THEOREM FilesGone == Spec => []LocalFilesGone
<1>1. Inv => LocalFilesGone
  BY DEF Inv, Local, Whole, LocalFilesGone
<1> QED  BY <1>1, AlwaysInv, PTL

\* The asynchronous chain ends at the tier at which generate_speech would,
\* for every chain and every set of providers that are down.
THEOREM FailThroughAgrees == Spec => []SameFailThrough
<1>1. ASSUME Inv, NEW r \in Requests, calm, voice[r].at = "store"
      PROVE  voice[r].tier = SyncWinner(down)
  <2> DEFINE up == {t \in Tiers : Chain[t] \notin down}
             w == CHOOSE t \in up : \A u \in up : t <= u
  <2>1. voice[r].tier \in up /\ Tiers \subseteq Nat
    BY <1>1, RequestFacts, ChainTyped DEF Inv, Local, FallsThrough
  <2>2. ASSUME NEW u \in up PROVE voice[r].tier <= u
    <3>1. ~(u < voice[r].tier)
      BY <1>1, <2>2 DEF Inv, Local, FallsThrough
    <3>2. u \in Nat /\ voice[r].tier \in Nat
      BY <2>1
    <3> QED  BY <3>1, <3>2
  <2>3. SyncWinner(down) = w
    BY <2>1 DEF SyncWinner
  <2> HIDE DEF up
  <2>4. w \in up /\ \A u \in up : w <= u
    BY <2>1, <2>2
  <2>5. w <= voice[r].tier /\ voice[r].tier <= w
    BY <2>1, <2>2, <2>4
  <2>6. w \in Nat /\ voice[r].tier \in Nat
    BY <2>1, <2>4 DEF up
  <2> HIDE DEF w
  <2> QED  BY <2>3, <2>5, <2>6
<1>2. ASSUME Inv, NEW r \in Requests, calm, voice[r].at = "reply", voice[r].answer = "text"
      PROVE  SyncWinner(down) = 0
  BY <1>2 DEF Inv, Local, FallsThrough, SyncWinner
<1>3. Inv => SameFailThrough
  BY <1>1, <1>2 DEF SameFailThrough
<1> QED  BY <1>3, AlwaysInv, PTL
=============================================================================
