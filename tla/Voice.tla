------------------------------- MODULE Voice -------------------------------
(***************************************************************************)
(* The voice half of POST /chat and GET /audio: generate_speech_async of   *)
(* app/services/tts_service.py, app/services/audio_storage.py and the      *)
(* routes of app/api/chat.py, from the moment the text reply is stored.    *)
(*                                                                         *)
(* Each provider of the chain writes the file of the request from a thread *)
(* (asyncio.to_thread) that its timebox cannot stop.  A path that is       *)
(* unlinked and opened again holds another file; one that is opened again  *)
(* without that holds the same file, truncated.  Of a thread whose file    *)
(* has lost its name nothing more can be seen but that it keeps a worker:  *)
(* all threads, and the calls of the store and of the database, share the  *)
(* workers of asyncio's default executor, and none of them has to end.     *)
(***************************************************************************)
EXTENDS CircuitBreaker, Sequences, FiniteSets

CONSTANTS
    Requests,    \* voice requests, each with a file name of its own (uuid4)
    Users,
    Owner,       \* the user of each request
    Chain,       \* the configured providers in order; gTTS is the last
    MaxAttempts, \* TTS_MAX_RETRIES
    Workers,     \* of the default executor
    MaxRestarts  \* bound: crashes of the process

ASSUME OwnerAssumption == Owner \in [Requests -> Users]
ASSUME ChainAssumption ==
    /\ Chain \in Seq(STRING) /\ Len(Chain) > 0
    /\ MaxAttempts \in Nat \ {0} /\ MaxRestarts \in Nat
ASSUME WorkersAssumption == Workers \in Nat \ {0}

Tiers == 1..Len(Chain)
Providers == {Chain[t] : t \in Tiers}

VARIABLES
    mode,     \* audio_mode()
    down,     \* environment: the providers that fail every call
    voice,    \* the handler of each request
    writer,   \* the thread of each request and tier, while its file has a name
    nameless, \* how many threads run whose file has none
    job,      \* requests whose call of the store or the database has a worker
    file,     \* AUDIO_DIR: what is in the file at the path of each request
    object,   \* the S3 object of each request
    row,      \* audio_files
    breaker,  \* the circuit of each provider
    restarts,
    calm,     \* history: no provider that is up failed or was timed out
    late,     \* history: requests whose path a timed-out thread opened
    swept     \* history: requests whose local file a start-up removed

vars == <<mode, down, voice, writer, nameless, job, file, object, row, breaker,
          restarts, calm, late, swept>>
world == <<mode, down, restarts, swept>>

Idle == [at |-> "idle", tier |-> 1, tries |-> 0, answer |-> "none"]
NoWriters == [t \in Tiers |-> "none"]

Init ==
    /\ mode \in {"s3", "local"}
    /\ down \in SUBSET Providers
    /\ voice = [r \in Requests |-> Idle]
    /\ writer = [r \in Requests |-> NoWriters] /\ nameless = 0 /\ job = {}
    /\ file = [r \in Requests |-> "none"]
    /\ object = [r \in Requests |-> "none"]
    /\ row = [r \in Requests |-> FALSE]
    /\ breaker = [p \in Providers |-> Closed]
    /\ restarts = 0 /\ calm = TRUE /\ late = {} /\ swept = {}

Provider(r) == Chain[voice[r].tier]
IsLast(t) == t = Len(Chain)
Current(r, t) == voice[r].at = "write" /\ voice[r].tier = t
Goes(r, to) == voice' = [voice EXCEPT ![r].at = to]
Answers(r, to, answer) == voice' = [voice EXCEPT ![r].at = to, ![r].answer = answer]
Ends(r, answer) == voice' = [voice EXCEPT ![r] = [Idle EXCEPT !.at = "done", !.answer = answer]]

\* The workers in use, and whether one is free.
Running == {x \in Requests \X Tiers : writer[x[1]][x[2]] \in {"ready", "open"}}
WorkerFree == Cardinality(Running) + nameless + Cardinality(job) < Workers

\* The file loses its name.  A thread that is queued is cancelled, one that
\* runs goes on.
Unlinks(r) ==
    /\ file' = [file EXCEPT ![r] = "none"]
    /\ writer' = [writer EXCEPT ![r] = [t \in Tiers |-> IF @[t] = "ready" THEN "ready" ELSE "none"]]
    /\ nameless' = nameless + Cardinality({t \in Tiers : writer[r][t] = "open"})

\* Mutant: the partial file of a failed tier is left for the next one.
CleansUp_Not(r) == UNCHANGED <<file, writer, nameless>>

CleansUp(r) == Unlinks(r)

\* The except clause of a tier: the next one, or the text alone.
GivesUp(r) ==
    /\ CleansUp(r)
    /\ IF IsLast(voice[r].tier)
       THEN Answers(r, "reply", "text")
       ELSE voice' = [voice EXCEPT ![r].at = "tier", ![r].tier = @ + 1, ![r].tries = 0]

\* Mutant: the providers share one circuit.
CircuitOf_Shared(r) == Chain[1]

CircuitOf(r) == Provider(r)

Start(r) ==
    /\ voice[r].at = "idle"
    /\ Goes(r, "tier")
    /\ UNCHANGED <<writer, nameless, job, file, object, row, breaker, calm, late, world>>

\* CircuitOpenError.
Refused(r) ==
    /\ voice[r].at = "tier" /\ ~Admits(breaker[CircuitOf(r)])
    /\ GivesUp(r)
    /\ UNCHANGED <<job, object, row, breaker, calm, late, world>>

\* A free worker takes the thread at once.
StartsThread(r) ==
    writer' = [writer EXCEPT ![r][voice[r].tier] = IF WorkerFree THEN "ready" ELSE "queued"]

\* gTTS does all of its work in the thread.
Calls(r) ==
    /\ voice[r].at = "tier" /\ Admits(breaker[CircuitOf(r)])
    /\ IF IsLast(voice[r].tier)
       THEN Goes(r, "write") /\ StartsThread(r)
       ELSE voice' = [voice EXCEPT ![r].at = "call", ![r].tries = 1] /\ UNCHANGED writer
    /\ UNCHANGED <<nameless, job, file, object, row, breaker, calm, late, world>>

Responds(r) ==
    /\ voice[r].at = "call" /\ Provider(r) \notin down
    /\ Goes(r, "write") /\ StartsThread(r)
    /\ UNCHANGED <<nameless, job, file, object, row, breaker, calm, late, world>>

MayRetry(r) == voice[r].tries < MaxAttempts /\ ~IsLast(voice[r].tier)

\* The call or its thread raised.  Tenacity repeats it for a timeout or a
\* ConnectionError; gTTS is not decorated.
AttemptFails(r) ==
    LET t == voice[r].tier
    IN  /\ voice[r].at = "call" \/ (Current(r, t) /\ writer[r][t] = "failed")
        /\ calm' = (calm /\ Provider(r) \in down)
        /\ \/ /\ MayRetry(r)
              /\ voice' = [voice EXCEPT ![r].at = "call", ![r].tries = @ + 1]
              /\ UNCHANGED <<writer, nameless, file, breaker>>
           \/ /\ breaker' = [breaker EXCEPT ![CircuitOf(r)] = OnFailure(@)]
              /\ GivesUp(r)
        /\ UNCHANGED <<job, object, row, late, world>>

\* Mutant: the last provider runs without a timebox.
Boxed_NotLast(r) == ~IsLast(voice[r].tier)

Boxed(r) == TRUE

\* wait_for cancels the coroutine: its breaker sees neither success nor
\* failure, and its thread goes on if it has a worker.
TimesOut(r) ==
    /\ voice[r].at \in {"call", "write"} /\ Boxed(r)
    /\ GivesUp(r)
    /\ calm' = (calm /\ Provider(r) \in down)
    /\ UNCHANGED <<job, object, row, breaker, late, world>>

-----------------------------------------------------------------------------
(***************************************************************************)
(* The threads.                                                            *)
(***************************************************************************)
RunsThread(r, t) ==
    /\ writer[r][t] = "queued" /\ WorkerFree
    /\ writer' = [writer EXCEPT ![r][t] = "ready"]
    /\ UNCHANGED <<voice, nameless, job, file, object, row, breaker, calm, late, world>>

\* open(filepath, "wb") creates the file or truncates the one that is there.
Opens(r, t) ==
    /\ writer[r][t] = "ready"
    /\ writer' = [writer EXCEPT ![r][t] = "open"]
    /\ file' = [file EXCEPT ![r] = IF \E u \in Tiers : writer[r][u] = "open" THEN "mixed" ELSE "part"]
    /\ late' = IF Current(r, t) THEN late ELSE late \cup {r}
    /\ UNCHANGED <<voice, nameless, job, object, row, breaker, calm, world>>

Leaves(r, t, how) == writer' = [writer EXCEPT ![r][t] = IF Current(r, t) THEN how ELSE "none"]

Finishes(r, t) ==
    /\ writer[r][t] = "open" /\ Chain[t] \notin down
    /\ Leaves(r, t, "finished")
    /\ file' = [file EXCEPT ![r] = IF @ = "part" THEN "whole" ELSE @]
    /\ UNCHANGED <<voice, nameless, job, object, row, breaker, calm, late, world>>

\* The stream or the disk fails.
Breaks(r, t) ==
    /\ writer[r][t] \in {"ready", "open"}
    /\ Leaves(r, t, "failed")
    /\ calm' = (calm /\ Chain[t] \in down)
    /\ UNCHANGED <<voice, nameless, job, file, object, row, breaker, late, world>>

NamelessEnds ==
    /\ nameless > 0
    /\ nameless' = nameless - 1
    /\ UNCHANGED <<voice, writer, job, file, object, row, breaker, calm, late, world>>

Written(r) ==
    /\ \E t \in Tiers : Current(r, t) /\ writer[r][t] = "finished"
    /\ breaker' = [breaker EXCEPT ![CircuitOf(r)] = OnSuccess(@)]
    /\ voice' = [voice EXCEPT ![r].at = "store", ![r].tries = 0]
    /\ writer' = [writer EXCEPT ![r][voice[r].tier] = "none"]
    /\ UNCHANGED <<nameless, job, file, object, row, calm, late, world>>

-----------------------------------------------------------------------------
(***************************************************************************)
(* The store and the answer: "audio", "text" (no provider spoke),          *)
(* "dropped" (text, the audio could not be kept), "unavailable" (503) or   *)
(* "failed" (500).                                                         *)
(***************************************************************************)
\* asyncio.to_thread, in a worker of its own; no timebox surrounds it.
RunsCall(r) ==
    /\ voice[r].at \in {"store", "record", "reply"} /\ r \notin job /\ WorkerFree
    /\ job' = job \cup {r}
    /\ UNCHANGED <<voice, writer, nameless, file, object, row, breaker, calm, late, world>>

\* ... and its end, if it has one.
CallEnds(r, at) == voice[r].at = at /\ r \in job /\ job' = job \ {r}

\* Mutant: the finally clause is missing.
Discards_Uploaded(r, uploaded) == IF uploaded THEN Unlinks(r) ELSE UNCHANGED <<file, writer, nameless>>

Discards(r, uploaded) == Unlinks(r)

\* Mutant: the request goes on after an error of the store.
StoreFailed_Silently(r) == Goes(r, "record")

\* AudioStoreError: 503.
StoreFailed(r) == Ends(r, "unavailable")

\* upload_file fails as a BotoCoreError or an OSError, or with
\* S3UploadFailedError, which is neither; the object may be there all the same.
Store(r) ==
    /\ CallEnds(r, "store")
    /\ IF mode = "local"
       THEN Goes(r, "record") /\ UNCHANGED <<file, writer, nameless, object>>
       ELSE \E uploaded, stored \in BOOLEAN :
               /\ stored => file[r] # "none"
               /\ uploaded => stored
               /\ object' = IF stored THEN [object EXCEPT ![r] = file[r]] ELSE object
               /\ Discards(r, uploaded)
               /\ IF uploaded THEN Goes(r, "record")
                  ELSE StoreFailed(r) \/ Answers(r, "reply", "dropped")
    /\ UNCHANGED <<row, breaker, calm, late, world>>

\* _record_audio_file, or the text alone when the database fails.
Record(r) ==
    /\ CallEnds(r, "record")
    /\ \/ row' = [row EXCEPT ![r] = TRUE] /\ Answers(r, "reply", "audio")
       \/ UNCHANGED row /\ Answers(r, "reply", "dropped")
    /\ UNCHANGED <<writer, nameless, file, object, breaker, calm, late, world>>

\* get_all_memories, and the answer; 500 when the database fails.
Reply(r) ==
    /\ CallEnds(r, "reply")
    /\ Ends(r, voice[r].answer) \/ Ends(r, "failed")
    /\ UNCHANGED <<writer, nameless, file, object, row, breaker, calm, late, world>>

\* GET /audio/{filename} while the store can be reached: _own_audio_file,
\* then stream_audio.
Bytes(r) == IF mode = "s3" THEN object[r] ELSE file[r]
Served(u, r) == IF row[r] /\ Owner[r] = u /\ Bytes(r) # "none" THEN Bytes(r) ELSE "404"

-----------------------------------------------------------------------------
ResetElapses ==
    \E p \in Providers :
        /\ breaker[p].gate = "open"
        /\ breaker' = [breaker EXCEPT ![p] = Elapsed(@)]
        /\ UNCHANGED <<voice, writer, nameless, job, file, object, row, calm, late, world>>

\* The process dies and starts again; cleanup_old_audio_files then removes the
\* files, served or left over, that have grown old.
Restart ==
    /\ restarts < MaxRestarts
    /\ restarts' = restarts + 1
    /\ voice' = [r \in Requests |-> IF voice[r].at \in {"idle", "done"} THEN voice[r]
                                    ELSE [Idle EXCEPT !.at = "done", !.answer = "lost"]]
    /\ writer' = [r \in Requests |-> NoWriters] /\ nameless' = 0 /\ job' = {}
    /\ breaker' = [p \in Providers |-> Closed]
    /\ \E old \in SUBSET {r \in Requests : file[r] # "none"} :
          /\ file' = [r \in Requests |-> IF r \in old THEN "none" ELSE file[r]]
          /\ swept' = swept \cup old
    /\ UNCHANGED <<mode, down, object, row, calm, late>>

Step(r) == Refused(r) \/ Calls(r) \/ TimesOut(r) \/ Written(r) \/ RunsCall(r)

Next ==
    \/ \E r \in Requests :
          \/ Start(r) \/ Step(r) \/ Responds(r) \/ AttemptFails(r)
          \/ Store(r) \/ Record(r) \/ Reply(r)
          \/ \E t \in Tiers : RunsThread(r, t) \/ Opens(r, t) \/ Finishes(r, t) \/ Breaks(r, t)
    \/ NamelessEnds \/ ResetElapses \/ Restart

\* The event loop runs a coroutine that can go on, a timebox expires, and a
\* free worker takes a call that waits for one; providers, threads, the store
\* and the database owe nothing.
Spec == Init /\ [][Next]_vars /\ \A r \in Requests : WF_vars(Step(r))

-----------------------------------------------------------------------------
Contents == {"none", "part", "whole", "mixed"}

TypeOK ==
    /\ mode \in {"s3", "local"} /\ down \subseteq Providers
    /\ voice \in [Requests -> [at : {"idle", "tier", "call", "write", "store", "record", "reply", "done"},
                               tier : Tiers, tries : 0..MaxAttempts,
                               answer : {"none", "audio", "text", "dropped", "unavailable", "failed", "lost"}]]
    /\ writer \in [Requests -> [Tiers -> {"none", "queued", "ready", "open", "finished", "failed"}]]
    /\ nameless \in Nat /\ job \subseteq Requests
    /\ file \in [Requests -> Contents]
    /\ object \in [Requests -> Contents]
    /\ row \in [Requests -> BOOLEAN]
    /\ breaker \in [Providers -> Breakers]
    /\ restarts \in 0..MaxRestarts /\ calm \in BOOLEAN
    /\ late \subseteq Requests /\ swept \subseteq Requests

\* An audio_url the client is given can be played by its user, whatever failed
\* or crashed on the way: its row is the user's and its object is stored
\* (chat.py 125-144).  A restart may sweep local files (main.py 41-42).
UrlIsPlayable ==
    \A r \in Requests : voice[r].answer = "audio" /\ (mode = "s3" \/ r \notin swept) =>
        Served(Owner[r], r) # "404"

\* What is served is one provider's audio to its end, never a partial file or
\* two providers' bytes in one, although a thread outlives its timebox: the
\* unlink between two tiers parts their files.  It does not help against a
\* timed-out thread that opens the path afterwards (tts_service.py 22-26, 230, 290).
AudioIsWhole ==
    \A r \in Requests : \A u \in Users :
        r \notin late => Served(u, r) \in {"404", "whole"}

\* In S3 mode no local file is left behind once the request is answered, on
\* any path through the providers and the store (audio_storage.py 66-71).
LocalFilesGone ==
    \A r \in Requests :
        mode = "s3" /\ voice[r].at = "done" /\ voice[r].answer # "lost" /\ r \notin late
            => file[r] = "none"

\* generate_speech, for the providers that fail: the tier whose audio is
\* returned, 0 when all of them fail.
SyncWinner(failing) ==
    LET up == {t \in Tiers : Chain[t] \notin failing}
    IN  IF up = {} THEN 0 ELSE CHOOSE t \in up : \A u \in up : t <= u

\* While no healthy provider falters, the asynchronous chain ends where its
\* synchronous twin does, whatever the circuits of other requests' failures
\* (tts_service.py 118-187, 266-271).
SameFailThrough ==
    \A r \in Requests :
        /\ calm /\ voice[r].at = "store" => voice[r].tier = SyncWinner(down)
        /\ calm /\ voice[r].at = "reply" /\ voice[r].answer = "text" => SyncWinner(down) = 0

\* Every voice request ends, though no provider answers and no thread ends
\* (tts_service.py 193-195): unless the threads that no timebox can stop hold
\* all the workers for good, or its own call of the store or the database,
\* which has no time limit, never ends (chat.py 133-150, s3_client.py 63-76,
\* database.py 135-137).
VoiceEnds ==
    \A r \in Requests :
        []<>WorkerFree /\ []<>(r \notin job) => (voice[r].at = "tier" ~> voice[r].at = "done")
=============================================================================
