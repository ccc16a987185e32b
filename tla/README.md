# A TLA+ model of the Enterprise Voice Assistant

The assistant is a FastAPI service with a React client. A signed-in user talks to
it; a chain of LLM providers answers, remembers facts, and may propose a *business
action*: a WhatsApp message or an e-mail to somebody in the company's CRM. This
directory models the parts of the service in which order, concurrency and partial
failure decide whether it is correct, checks them with TLC, and proves their most
important properties with TLAPS.

File names without a path below are files of `src/app`.

## 1. The system

### Components, their state and their operations

| Component | State | Operations | Talks to |
|---|---|---|---|
| Business-action gate: `services/session_service.py` (`process_message`), `services/action_policy.py` | tables `pending_actions`, `action_audit`; settings read at start-up | stage, confirm, discard, expire, allow-list, hourly cap, execute, audit | rate limiter, orchestrator, PostgreSQL |
| Conversation context: `session_service.py`, `memory_service.py`, `database_chat_history.py`, `context_builder.py` | tables `messages`, `memories`; Redis `ctx:{session}` | load or rebuild, extend, save, three clears | PostgreSQL, Redis |
| Authentication sessions: `api/auth.py`, `services/auth_service.py`, `core/redis_sessions.py` | table `auth_sessions`; Redis `session:{token}` | register, login, resolve a token, logout | PostgreSQL, Redis |
| Orchestrator and connectors: `connectors/*.py` | none of their own | resolve a recipient, send to one or to a group, combine the results | CRM, WhatsApp, SMTP through the resilience layer |
| Resilience: `core/resilience.py` | one breaker per provider, in process memory | timebox, breaker, retries | used by every provider client |
| Rate limiter: `core/rate_limiter.py` | Redis counters per window; in-process fallback | consume one unit of a scope | Redis |
| LLM providers: `services/llm_service.py` | none | OpenRouter, then NVIDIA, then Gemini | three HTTP APIs |
| Text to speech: `services/tts_service.py` | audio files being written | ElevenLabs, then OpenAI-compatible, then gTTS | HTTP APIs, local disk |
| Audio storage: `services/audio_storage.py`, `api/chat.py` | files on disk or in S3; table `audio_files` | store, record the owner, stream | disk, S3, PostgreSQL |
| Chat API: `api/chat.py` | none | chat, history, memories, clears, audio | all of the above |
| Database access: `core/database.py`, Alembic | connection pool | borrow, commit, roll back | PostgreSQL |
| Client: `frontend/src/App.jsx`, `ChatInput.jsx` | messages shown, request epochs, playback, recorder | send, play, clear, log out | Chat API |
| Migration scripts: `scripts/*.py` | two databases, two file stores | copy tables, copy audio | SQLite, PostgreSQL, S3 |
| Start-up, configuration, prompts, infrastructure | settings | migrate, open the pool, read settings | - |

The service is one asyncio process per task. Every `await` of a database, Redis or
provider call lets other requests run, there is no lock per session, and nothing
stops two requests of one session from overlapping (two browser tabs, a client that
retries). The process may be replaced at any time (ECS), and what it comes back
with is PostgreSQL, perhaps Redis (which has no persistence), and settings that may
differ.

### What makes each part correct, and what makes that hard

- **Gate.** Nothing leaves without the user's consent and the operator's
  permission *at the moment it leaves*; a proposal is delivered at most once; a yes
  runs what was asked last; the cap holds; the audit trail is true. Hard: the row is
  read and deleted in two steps, a delete may fail silently, the process may die
  between staging, prompting, sending and auditing, and the settings may change
  while a row waits.
- **Context.** The tables are the truth and the Redis snapshot is only a copy. Hard:
  turns and clears overlap, each writes its own snapshot whole, writes to Redis fail
  silently or are skipped.
- **Sessions.** A token authorises from its issue to its end, never after. Hard: two
  stores, a Redis command that times out may have taken effect, and several requests
  resolve the same token while one of them logs out.
- **Delivery.** What the user is told agrees with what happened; a failing provider
  does not hang the service. Hard: the network delivers after the caller's timeout,
  groups fail in part, and every execution shares the breakers.
- **Rate limiter.** No window of an identifier lets more than its limit pass, through
  all processes together. Hard: replies are lost after the command took effect, Redis goes
  away with or without its data, and the table that replaces it is written by threads
  without a lock.
- **LLM providers.** A user gets an answer while a configured provider works with all of its models,
  and an answer or an error in bounded time. Hard: the models of one provider share a circuit, so
  requests open it under one another.
- **Voice.** An `audio_url` can be played by its user and nobody else, and is one
  provider's whole audio. Hard: the timebox stops the coroutine but not the thread that
  writes the file, and that thread keeps one of the workers every other call needs; uploads fail
  after the object was stored.
- **Client.** What was cleared stays cleared, one voice is heard, no flag is stuck. Hard:
  clears, replies, loads, fetches of audio, logouts and logins overlap, and the server carries out a
  request the client has given up on.
- **Pool.** Every connection that is taken is given back.
- **Migration.** A run that ends has copied everything once. Hard: it may stop between two
  commits and be made again, beside an application whose registrations draw an id before they
  commit it.

`PROJECT.json` lists the hazards one by one, at their lines.

## 2. The modules

```
SendLedger ........ abstract: the life of a proposal
  ^ implemented by (ActionGateLedger)
ActionGate ........ process_message's gate  <- ActionGateInvariants <- ActionGateProofs
  | its Execute abstracts
Delivery .......... execute_action_async    <- DeliveryProofs
  | uses
CircuitBreaker .... resilience.py's breaker, as operators over one record

ContextCache ...... tables and Redis snapshot  <- ContextCacheProofs

TokenLifecycle .... abstract: what a login token promises
  ^ implemented by
AuthSessions ...... login, token resolution, logout  <- AuthSessionsProofs

RateLimiter ....... Redis counters and local tables  <- RateLimiterProofs

CircuitBreaker
  ^ used by
Providers ......... llm_service.generate             <- ProvidersProofs
Voice ............. speech, storage and GET /audio   <- VoiceProofs

Client ............ App.jsx over an abstract server  <- OutsideProofs
Migration ......... migrate_sqlite_to_pg.py          <- OutsideProofs
ConnectionPool .... get_connection and close
```

`MC*.tla` give the constants of each module small values. OutsideProofs holds the theorems of the two
programs outside the service, one after the other; they share nothing, and Migration's general names
(`MigrationInit`, `MigrationSpec`, ...) carry a prefix so that one module can extend both.

### ActionGate

One request is one `POST /chat`. `pc[r]` is where its coroutine stands; every action
is one awaited call with the code up to the next one.

| Action | Code |
|---|---|
| `Post` | a turn begins, with a message that `classify_confirmation` reads as yes, no or other |
| `LoadPending`, `ExpirePending` | `get_pending_action`: the SELECT, then the DELETE of an expired row |
| `ClearPending`, `DiscardPending` | `clear_pending_action` after a yes or no, or before an ordinary turn |
| `Generate`, `GenerateFails` | the LLM answers with a complete action, without one, or not at all |
| `CheckPolicy` | `is_enabled_for`, then the choice between confirming and sending |
| `StagePending` | `store_pending_action`, an upsert per session |
| `ConsumeCap` | `hourly_cap_ok` while Redis answers |
| `FallBack`, `CountLocally`, `CountRaises` | its `RedisError`: the count is read from the table of the process, then written back and compared; a prune may raise |
| `ReleasePending` | the clear of single-turn mode |
| `Execute`, `ExecuteRaises` | `execute_action_async`: success, a failure result, or an exception |
| `AuditExecution`, `AuditRefusal` | `record_action` |
| `Reply` | the turn is stored and answered, or fails in `add_message` |
| `GrowStale`, `NextWindow`, `RedisLosesData`, `Restart` | time, a restart of Redis or an eviction, and the death of the process |

The cap is the rate limiter's, in the form the gate meets it. `used` is Redis's counter, which an
evaluation may raise although the caller gets an error; `local` is the table of the process (`RateLimiter`
has it entry by entry), which starts empty, is written back from a count (`seen`) other threads may have
overtaken, and is lost in a restart. A check that straddles the hour is `late`: what it finds at its key is
not the new hour's. `losses`, `outages` and `forgotten` record what `CapHolds` has to allow for. A swallowed database error leaves its table as it was (`DbFaults`). A failed result of
`Execute` may still hide a delivered message, as Delivery shows. `lastPrompt` and
`prompted` record what the user has been asked and are read by properties only.

`SendLedger` is what the gate promises of each proposal: staged at most once, claimed
by one turn, delivered at most once, closed for good. `ActionGateLedger` holds the
mapping: a proposal is "claimed" while a turn that took it out of the table stands
before its execution.

### Delivery and CircuitBreaker

An execution starts, looks the recipient up (`LookUp`, `CrmAnswers`, `CrmFails`,
`CrmTimesOut`, only with the REST CRM), receives any contact the CRM may return
(`Resolve`), sends (`DeclineSend`, `CircuitOpen`, `BeginCall` and an outcome, once per
number for WhatsApp and once for all addresses of an e-mail) and folds the results
(`Combine`). `wire` holds requests handed to a provider. `ProviderAccepts` takes one off
the wire at any later time, whether or not its caller still waits: that is how a
timeout, a broken connection, or an unmapped exception leaves the caller ignorant. The
provider owes no answer; only the timers are fair.

The breaker counts failures up to `FailMax`, which is all the code compares them
with, and time is the step `Cool`. Three facts of the code matter: half-open admits
any number of calls, a refusal runs `on_failure` and then `on_success`, and a timebox
cancels the call from outside the breaker, so neither runs.

An incomplete action (no message, say) takes the path of `session_service.py` 338-341
without the gate; here it is an execution whose request is not `complete`.

### ContextCache

One session. `messages` and `memories` are the tables, `cache` the snapshot, `ctx[t]` the
`SessionContext` a turn works on. A message is the turn and its role; a memory's value
is the turn that learned it. Every table read, insert, delete and Redis command of a turn or a clear is a
step. `tainted` is a history variable: it becomes true when one of the events after which
the code cannot promise a true snapshot happens (two operations overlap, a Redis write
fails or is skipped over an older snapshot, an operation dies between the tables and the
snapshot), and false when the key is next lost or dropped.

### AuthSessions and TokenLifecycle

A token is the login that drew it. A login inserts the row, then writes the hash and its
TTL, and takes the row back when Redis fails (`Rollback`). A request looks the key up,
touches it, checks the row, and deletes whichever half is stale; a logout deletes the row
and then the key. With `RedisFaults` a command fails before *or after* it took effect.
`LoseKey` is a TTL that runs out, an eviction or a Redis restart. `TokenLifecycle` is the
contract of both stores together; the row decides whether a token is live.

### RateLimiter

A check of a thread enters (`Enter` computes the key from the time), is counted by the Lua
script (`Eval`, atomic, its reply perhaps lost) or fails without an effect (`EvalFails`), and
in the second case reads, writes and prunes the table of its process (`LocalRead`,
`LocalWrite`, `Prune`), each a step because another thread may run in between. A
prune raises when an entry is added during its iteration (`PruneRaises`). `Tick` advances a
clock of `Window` ticks per window and removes counters whose TTL is over;
`RedisFails` and `RedisReturns` are outages. `Sliced` is Python's slice with an end that may be
negative. `granted` and `tally` count what passed and are read by properties only.

### Providers

A *leg* is a model of a provider in the order in which `generate` tries them. A request
begins (`Begin`), is refused by an open circuit (`Refused`) or calls (`Enters`); the call
answers, fails, or runs into its timebox. A failure of OpenRouter in JSON mode is
repeated without it inside the same attempt (`JsonRejected`), tenacity repeats timeouts
without asking the circuit again (`Retries`), and a Gemini error either goes to the next model
or ends the provider (`Fails`). `keys` and `down` are arbitrary from the start. What the
models answer is abstracted to whether they do.

### Voice

From the stored text reply to the audio in the browser. `voice[r]` is the handler: it tries
the tiers of the chain, each through its circuit, timebox and attempts, then stores, records
and replies. `writer[r][t]` is the thread that writes the file for tier `t`; `Opens`,
`Finishes` and `Breaks` are its steps and go on after `TimesOut`. `CleansUp` unlinks the partial
file between two tiers: a thread that still has it open then writes to a file without a
name. `Store` uploads (or keeps the file, in local mode), `Record` inserts the ownership row, `Reply` reads
the memories; `Served` is what `GET /audio` returns to a user. The threads and these three calls share the
`Workers` of asyncio's default executor: a thread without a worker is "queued" (`RunsThread`; the timebox
still cancels it there), one that lost its file is counted in `nameless` until it ends, and a call takes a
worker (`RunsCall`) and may keep it for ever. `Restart` kills the handlers and threads,
and the start-up sweep removes old local files.

### Client

The browser and, behind it, a server that carries out each request at a moment of its own.
`epoch`, `cleared` (`clearedSectionsRef`), `clearing`, `resetting` and `current` (`audioRef`) are
the refs of `App.jsx`. Chats are `Send`, `Serve`, `Reply` or `ReplyFails`. A click on a clear
button waits for the chats in flight, posts and marks its section (`ClearChat`, `ClearMemories`, `Post`,
`Execute`, `NoteClearedSection`, `PostFails`); the second section to be cleared turns the handler into the
full reset (`FullReset`, `ResetEnds`). `Send` shows the user's own message at once. `Login` is that of any user, the one who has just
left included, and starts `fetchInitialData`, whose answer may arrive later
(`LoadRead`, `LoadArrives`); a clear that waits across it is posted with the new cookie. `Fetches`, `Fetched`, `Ends` and `Silences` are the playback. A recording is one
of the reasons for `Silences`. History variables mark what the properties speak of or exempt: `erased` is what
answered clears were to remove, `gaveUp`, `stale`, `crossed`; `orphans` are the clears whose session ended, or whose
flag another handler released, before they did; `inherited`, that the client counts such a clear, or one of an
earlier session, as its own; `stray`, that an orphan or a clear the client had given up on deleted messages.

### ConnectionPool

Three kinds of helper by where they call `close()`: in a `finally` clause, after the last
statement, or (authenticate) in the `except` clause and at the end only. The pool follows
psycopg2's ThreadedConnectionPool as the code uses it.

### Migration

`Begin` is everything up to the loop (the count, the refusal, `TRUNCATE ... RESTART
IDENTITY` with `--force`), `CopyUsers` and `CopyTable` are one transaction each,
`ReadMax` and `SetSequences` are the two halves of the last statement (the SELECT sees committed rows only,
`setval` is never rolled back), `Aborts` is an error or a crash. The running application registers in two steps:
`Inserts` draws an id from the sequence, `Commits` makes the row visible or `Fails` gives the id up.
PostgreSQL's locks are guards: TRUNCATE waits for transactions under way, and an INSERT
of a legacy row for the one that holds its id.
Because a table is copied whole or not at all, `copies` counts the copies of its rows.

## 3. What the runs show

`tlc -config <run>.cfg <module>` for each line. All constants are in the `.cfg`;
deadlock is not an error because every instance has finitely many requests.

| Run | Instance | Shows |
|---|---|---|
| GateTurns (MCActionGate) | 2 overlapping turns, cap 1, failing statements, failing calls of Redis, and one of a restart, a change of hour and a loss of Redis's counters; fairness | `SendsAreAuthorised`, `CapHolds`, `TurnsEnd`, `LedgerSettles` |
| GateSerial | 3 turns one after the other, cap 2, store answers, 1 restart | `AtMostOneDelivery`, `ConsentWithoutCrash`, `PromptMatchesStaging`, `AuditMatchesDeliveries`, `ImplementsLedger` |
| Context (MCContextCache) | 2 turns, 1 clear, 1 memory, 3 messages fit, both stores fail, 1 crash | `CacheNeverAhead`, `CacheIsTruth`, `PromptsSeeTruth`, `AnsweredIsCommitted` |
| Auth (MCAuthSessions) | 1 token, 3 requests, both stores fail, 1 crash | `ImplementsLifecycle`, `LogoutIsFinal`, `RefusedLoginLeavesNoRow`, `NoSpuriousLogout`, `SessionsHaveTtl` |
| Delivery (MCDelivery) | 2 executions, 2 addresses, `fail_max` 2, REST CRM, with and without SMTP settings, fairness | `SuccessIsDelivered`, `DeclinedIsNotSent`, `TripsNeedFailures`, `EveryActionEnds` |
| RateLimiter (MCRateLimiter) | 1 process, 2 threads, 2 identifiers, 4 checks, limit 1, windows of 2 ticks, a delay of 1 | `SharedLimit`, `CountersDie`, `FallbackOvershoot`, `PruningKeepsFew` |
| Providers (MCProviders) | 2 requests, 2 OpenRouter models, NVIDIA, 2 Gemini models, 2 attempts, `fail_max` 2, any keys, any legs down, fairness | `HealthyProviderAnswers`, `DeadProviderRests`, `RequestEnds` |
| Voice (MCVoice) | 2 requests of one of 2 users, 2 tiers, 2 attempts, 2 workers, `fail_max` 1, 1 restart, S3 and local, fairness | `UrlIsPlayable`, `AudioIsWhole`, `LocalFilesGone`, `SameFailThrough`, `VoiceEnds` |
| Client (MCClient) | 2 users, and any four of 2 chats, 3 clicks on the clear buttons and 2 further logins | `ClearedIsGone`, `ShownIsStored`, `OneVoice`, `FlagsAreHeld` (with its types) |
| Migration (MCMigration) | users and 2 tables, one of them without a key, 3 ids, 3 runs, registrations in flight | `CompletedIsComplete`, `NewIdsAreFree` |

Two runs are counterexamples: each checks one sentence of the repository that the code does
not live up to.

| Run | The sentence | What the code does |
|---|---|---|
| GateDoubleYes | a confirmed action is sent exactly once (`tests/test_security_controls.py` 132, 170) | two overlapping yes turns both read the row before either deletes it |
| PoolLeak | "minconn == maxconn keeps a stable, pre-warmed set of connections" (`config.py` 298-299) | a refused login (`auth_service.py` 79-82) and a failing statement of a helper without `finally` (`memory_service.py`, `database_chat_history.py`) keep their connection for good |

### Further disagreements

The modules define five more properties that state a sentence of the repository and do not
hold. No configuration is kept for them; with the constants below TLC finds each violated.

| Property | The sentence | What the code does | Constants |
|---|---|---|---|
| `ConsentMatchesPrompt` (ActionGate) | anything but an explicit yes discards the action (`session_service.py` 234-236) | the row outlives a process that died before it asked; a yes to something else runs it | GateSerial's with `Requests <- TwoTurns`, `Cap = 0` |
| `SkippedSaveIsCovered` (ContextCache) | "oversized: skip caching; the DB rebuild covers it" (`session_service.py` 120) | the older snapshot stays and no rebuild happens | `SerialSpec`, `Clears <- NoClear`, `MaxEntries = 2`, no faults, no crash |
| `RevokedKeyHasTtl` (AuthSessions) | "the key dies by TTL at the latest" (`redis_sessions.py` 80-82) | `HSET last_activity` after a logout recreates the key without a TTL | `Requests <- TwoRequests`, no faults, no crash |
| `NeverHalfWay` (Delivery) | an "action is **never** sent half-way" (`docs/runbooks/incidents.md` 75-76) | a late acceptance or a partly reached group is reported as not sent | `OneAction`, `WhatsAppOnly`, `RestCrm = FALSE` |
| `DeadProviderTrips` (Delivery) | five consecutive failures open the circuit (`resilience.py` 6-10) | a timeout cancels the call outside the breaker and is not counted | `OneMember`, `WhatsAppOnly`, `RestCrm = FALSE` |

Other things the models show, which the properties above exempt through a history variable
or a hypothesis:

- *Gate.* While Redis does not answer, the cap of an hour is granted a second time by the table of the
  process, and once more by each process and each restart; a restart of Redis, which has no persistence, grants it
  again as well. `check_rate_limit` says of the first "fail-open until Redis recovers" (80).
- *Client.* `handleLogout` (`App.jsx` 912-925) advances no epoch and releases nothing, and a login loads
  with the epoch it finds. A reply, or the audio of one, that arrives after a logout is shown or played in
  the session of the next user of the browser. A user who signs out and in again while his clear waits for a chat, or
  has been posted, is shown what the clear then removes: the cleared messages stay on the screen (387-396, 876-877).
  If somebody else signs in meanwhile, the clear is posted with that user's cookie and removes *his* messages.
  `clearedSectionsRef` survives the logout too, so that one clear of the next
  user may become a full reset. A reply to a message that was sent before *clear memories* brings
  the cleared memories back on the screen. A clear whose timer ran out is carried out later,
  perhaps after new messages. The full reset releases the flag of a second clear of the conversation that
  is still under way (809-810), and so does a clear of the conversation that ends beside another one (881-884): messages may then be sent beside it, its request takes them from the
  server, and when it returns the conversation is marked as cleared although messages followed, so
  that the next *clear memories*, which "preserves active chat messages" (891), is a full reset. Audio that was being fetched during a stop plays all the same, since
  `playAudio` does not look at its token after the await.
- *Voice.* A thread whose tier timed out before it opened the path writes the file of the
  next tier at the same time; what is then stored may be of both. Threads that never end keep
  their workers (`tts_service.py` 227, 256, 262): when they hold all of them, each request that comes as far as a call of the
  database or the store waits for ever, outside any timebox (`chat.py` 133-150). An upload that fails with
  `S3UploadFailedError` is not an `AudioStoreError`: the answer falls back to text instead of 503.
- *Migration.* When the target has no users, a rerun truncates nothing, so a legacy
  database without accounts has its messages copied twice; an account that registers during the
  copy may take the id or the name of a legacy one, whose row is then dropped silently. A registration that has drawn its id
  but not committed when the sequences are set is not seen by `MAX(id)`: the sequence may be put back on the id
  it then commits, and the registration after it fails on the primary key.
- *Providers.* One model of OpenRouter that is down opens the circuit it shares with the others
  (`llm_service.py` 79-82): its working siblings are not tried until the circuit is half-open.
  `HealthyProviderAnswers` therefore speaks of providers all of whose models work.
- *Rate limiter.* Two threads that read the same entry lose a check, and a prune during which
  another thread adds an entry raises `RuntimeError` out of `check_rate_limit`.

### Bounds, and why they are enough

- *Turns.* A turn that confirms and a turn that interferes are enough for the races of the
  gate between a delete and another turn's staging, and a third one, serial, gives a proposal a
  past (GateSerial). A user's turns touch no row of another user, and the theorems hold
  for any number of both.
- *Cap* 1 makes two turns compete for one unit, of Redis or of the table; GateTurns has one change of the world
  besides failing calls, a restart, a new hour or a loss of the counters (the constraint `OneChange`), for each of them
  grants a unit by itself. `CapHolds` has also been checked without this constraint, and the
  theorem `CapIsRespected` is for any number. GateSerial has a cap of 2 so that two deliveries in
  one hour are possible there; Redis answers in it and in GateDoubleYes, for who passes the cap does not matter to what they ask.
- *Context.* Two turns and a clear give each pairwise overlap; with three messages that
  fit, the second turn outgrows the snapshot of the first. One memory key
  is enough because keys are stored, learned and forgotten independently of one another.
- *Auth.* Tokens do not interact. Three requests are one that logs out, one that
  resolves, and one that arrives after both.
- *Delivery.* Two executions race for a shared breaker and a group of two is partly
  reached; `fail_max` 2 is the least at which "consecutive" means something. E-mail without
  credentials makes the connector decline. WhatsApp's settings take the same branch of the code.
- *Crashes* 1: a second one meets only states the first can leave. Fault booleans do
  not bound the number of faults: any statement may fail any number of times.
- *Symmetry* is used where requests are interchangeable and only safety is checked
  (Context, RateLimiter, Client).
- *Rate limiter.* Two threads race for one entry; with a limit of 1 the second check is already
  too many; windows of two ticks and a delay of one let a command arrive in the window
  after its own; a cap of 1 and a spare of 1 make the table prune, with an end of the slice
  that is positive, zero or negative.
- *Providers.* Two requests share the circuits; two models behind one circuit and two behind
  none are the least that tell a model from a provider. Two attempts and two failures
  tell the first from the last.
- *Voice.* A guarded tier and gTTS, the last, are the two kinds of tier; the theorems are for
  any chain. Two requests share circuits and workers only, as their files and objects have names of their own. Two workers are
  the least of which a hung thread leaves one. A request that has not begun when the process restarts does not begin any more
  (`BeginsBeforeRestart`): it would find what the first ones found.
- *Client.* Two clicks are what the full reset takes, and a third is what may overlap with it; two chats are a
  reply and a newer one; two further logins are a user and the next, or the same one back, in either order. `FewOfEach`, a state constraint, keeps the
  number of chats, clicks and logins together at four, or allows both logins beside one chat and two clicks; it leaves out only what takes
  five of them. The theorems are for any number of each.
- *Migration.* A table with a key and one without are the two kinds of copy, three runs are
  a stopped one, one with `--force` and a refused one in any order; three ids are a copied account, one
  in flight and the next. The theorems are for any tables and ids.

### Fairness

- ActionGate: `WF(Step(r))` for each request. The event loop keeps scheduling a coroutine
  that is ready. That what it awaits ends is the code's doing for Redis (`socket_timeout=2`,
  `redis_client.py` 32-33) and for the providers (timeboxes); that PostgreSQL answers or fails in the end, and that a
  worker of the executor is free for its calls, are assumptions, for the pool is opened with
  the DSN alone (`database.py` 135-137) and sets no timeout. A turn is cut short by a restart, which is no fairness
  assumption but a disjunct. Users, clocks and restarts owe nothing.
- Delivery: `WF(Proceed(a))` (ready code runs) and `WF(Timer(a))` (a timebox fires). No
  provider is ever obliged to answer, which is the point of `EveryActionEnds`.
- Providers: `WF(Step(r))` for each request, where `Step` holds what the event loop
  runs by itself, timeboxes included, and neither an answer nor an error of a provider. `RequestEnds` says that this is enough.
- Voice: the same; and a free worker takes a call that waits for one (`RunsCall`). A provider, a writer thread, the
  store and the database owe nothing, not even an end. `VoiceEnds` therefore has two premises: a worker is free
  again and again, and no call of the request itself for the store or the database keeps its worker for ever. Neither boto3's
  client (`s3_client.py` 63-76) nor psycopg2's is given a timeout by the code, so it does not guarantee them. What it does
  guarantee, and a missing timebox would break, is that nothing else is needed.

No other specification states fairness. The Client has no liveness property: a flag is released by a
handler that ends, by its timer at the latest, and `FlagsAreHeld` says that such a handler is there.

## 4. What is proved

The theorems hold for all values of the constants under the assumptions declared with
them: any number of users, turns, tokens, executions and addresses, any cap, any bound
on crashes.

| Theorem | Statement | Argument |
|---|---|---|
| `TypeCorrect` (ActionGateProofs) | types | with `ActsExist`: a turn that may execute holds an action |
| `AlwaysConsent`, `DeliveriesAuthorised` | `ConsentInv`, `SendsAreAuthorised` | see below |
| `DeliveredOnce` | `AtMostOneDelivery`, given `Serial` and no failing statements | `OnceInv`: a delivered proposal is neither staged nor held nor still to be made |
| `CapIsRespected` | `CapHolds`, with failing Redis, losses and restarts | `CapInv`, see below |
| `AuditIsTrue` | `AuditMatchesDeliveries`, given no failing statements | `AuditInv` and `SendInv`: a turn delivers at one place, refuses at another, and writes its one row after either |
| `PromptIsStaged`, `ConsentIsToThePrompt` | `PromptMatchesStaging`, `ConsentWithoutCrash`, given `Serial` and no failing statements | `PromptInv`: what a turn finds in the store at each of its lines |
| `GateImplementsLedger` | `ImplementsLedger`: ActionGate implements SendLedger, given `Serial` and no failing statements | step simulation, see below |
| `ContextTyped`, `SnapshotIsBacked` (ContextCacheProofs) | types, `CacheNeverAhead` | tables, contexts and snapshot are each backed by what was committed; a context is ahead of the tables by one message, between two lines |
| `AnswersAreCommitted` | `AnsweredIsCommitted` | `RecordInv`: a turn past one of its transactions finds what it wrote there among the committed, and nothing is taken back |
| `SnapshotIsTruth`, `PromptsAreTrue` | `CacheIsTruth`, `PromptsSeeTruth` | `TruthInv`, see below |
| `AuthTyped`, `LogoutEndsSession`, `RefusedLoginIsUndone` (AuthSessionsProofs) | types, `LogoutIsFinal`, `RefusedLoginLeavesNoRow` | a login has no row before its INSERT, and rows are never inserted again |
| `LogoutsAreEarned`, `SessionsExpire` | `NoSpuriousLogout`, `SessionsHaveTtl` | `HalvesInv`, see below |
| `SessionsFollowLifecycle` | AuthSessions implements TokenLifecycle | step simulation: each action is an issue, an end, an expiry, a grant or a stutter |
| `DeliveryTyped`, `BreakersTripOnFailures` (DeliveryProofs) | types, `TripsNeedFailures` | a breaker's count never exceeds the silence of its provider |
| `SuccessBacked`, `RefusedStaysUnsent`, `IncompleteNeverSends` | `SuccessIsDelivered`, `DeclinedIsNotSent`, `UngatedNeverSends` | see below |
| `LimiterTyped`, `SharedHolds`, `CountersExpire`, `OvershootBounded`, `PruningBounds` (RateLimiterProofs) | types, `SharedLimit`, `CountersDie`, `FallbackOvershoot`, `PruningKeepsFew` | see below |
| `ProvidersTyped`, `HealthyAnswers`, `DeadRests` (ProvidersProofs) | types, `HealthyProviderAnswers`, `DeadProviderRests` | see below |
| `VoiceTyped`, `UrlPlayable`, `AudioWhole`, `FilesGone`, `FailThroughAgrees` (VoiceProofs) | types, `UrlIsPlayable`, `AudioIsWhole`, `LocalFilesGone`, `SameFailThrough` | see below |
| `FlagsReleased`, `NewestIsHeard`, `ClearedStaysGone`, `ScreenIsBacked` (OutsideProofs) | `FlagsAreHeld` with the types, `OneVoice`, `ClearedIsGone`, `ShownIsStored` | `ClientInv`, see below |
| `MigrationTyped`, `NewIdsFree`, `CompleteMigration` (OutsideProofs) | types, `NewIdsAreFree`, `CompletedIsComplete` | see below for the ids; where no account is in the target nothing was copied; a run that met no registration has copied the tables before its step once and none of the others |

*ConsentInv.* That a sent action was confirmed says nothing of the turn that is about to send
it. The invariant adds where every action a turn holds came from: rows belong to the
session whose turn staged them; a turn holds its own proposal or one its own session had
staged; past `clear`, holding somebody else's means the message was a yes; with confirmation
on, no turn carries its own proposal as far as the cap; and past the policy check, the user is
on the list this process started with (a restart kills every turn, so a turn never sees two
settings).

*CapInv.* The cap counts deliveries, and a turn that was granted a unit may still deliver, in a later
window than the one that granted it. The invariant therefore counts the turns of a user that deliver,
or may, each by itself (`Granted`), against what has been granted him (`Allowance`): a cap for each hour
that has passed, each loss of Redis's counters and each hour of a process whose table judged him, less what the present
count and the present table still hold back, and what a table forgot. It never mentions which turn took which unit. A step of Redis (`RedisCounts`)
and one of the table (`TableCounts`) raise the allowance by what they grant; the second needs `TablesInv`, that a
table knows only of users it has judged. A write-back that overtakes another's lowers the count and raises `forgotten` by as much.
That a turn delivers at most one
action (`SendInv`) turns the count of turns into the count of messages. It needs no serial client, no
PostgreSQL and no Redis that answers, and the set of turns may be infinite: that `Granted` is finite is part of the invariant.

*PromptInv.* The prompt and the row agree between turns only, so the invariant says what a turn
finds on the way (`FindsStore`): before the clear, the row its user was asked about; after it, none, while
what it holds is its own proposal or that row; after staging, its own. It holds until a restart:
a restart between the clear and the reply loses the row and not the prompt, which is why both theorems are
about `crashes = 0`.

*GateImplementsLedger.* Each proposal is in one of the ledger's four states, read off rows and turns.
`StatusRead` shows that the readings exclude one another: a turn holds no action that is staged, staged, or
undecided (`ConsentInv`, `OnceInv`), and a delivered one is none of these. `OpenWasOpen` shows that no step leads
back: what is staged afterwards was staged or undecided, what is claimed was claimed, staged or
undecided. A delivery is by a turn that had claimed (`DeliveryIsClaimed`). What is added to the
earlier invariants is `HandoverInv`: a turn about to clear the row holds what is in it, and only a process
that asks for confirmations stages. `Serial` and a store that answers are needed: the run GateDoubleYes delivers twice
without the first, and a swallowed DELETE puts a claimed action back on offer.

*TruthInv.* `CacheIsTruth` speaks of quiet states, so the invariant follows the one operation
that is in flight while nothing taints the snapshot (`Holds`): until it changes the tables the snapshot
is fresh; the context it loaded or rebuilt follows the tables line by line, and is ahead of them by the reply
between two inserts; a clear of everything has dropped the snapshot before it touches the tables.

*HalvesInv.* A session is a row and a hash, written and removed one after the other. The
invariant says of a token that neither expired nor was lost that both halves are there from
the moment its key is written (`Kept`), and of a request that takes one away that the session is past
(`Earned`); `HasTtl` says the same of the TTL once the login has passed its EXPIRE.

*AllSound.* That a refused address is not reached depends on requests that are still on the wire. The
invariant (`Sound(a)`, one execution at a time) says that a request on the wire belongs to the
call in flight or only to addresses whose code is error or success; that an address reached
is in the same situation; and that a call is for addresses without a code, of a complete
request. A refusal removes its own request from the wire, and by the invariant there is no
other for that address. Executions share only the breakers (`OthersSame`), so the proof looks at
one at a time.

*SharedInv.* The limit alone is not inductive: a counter that expired in its own window would
start anew. The invariant adds that a counter that counts expires in a later window than its
own, that one of a later window counts nothing yet, and that what was granted in the
current window is counted. Arithmetic on windows (`WindowOf`, `NextWindow`) gives the first.
`CountersDie` rests on the time a check remembers: its key is of the window it entered in, and the
command arrives at most `Delay` later.

*TableInv.* A thread about to write holds a count it read before others wrote. The invariant
says that whatever has been judged since leaves room for it (`Pending`), and that no
more passed than was judged, which is needed when the thread's own check passes.

*Providers.* A provider is healthy when every model of it is up. `HealthyAnswers` depends on a healthy provider's circuit staying closed: with no
leg of it down and no healthy leg faltering its circuit stays closed, and no request in progress is past
a leg of such a provider (`Ahead`). `DeadRests` bounds the failures since the circuit last
changed by the breaker's count and the number of calls in flight, the cardinality of a finite set of requests.
The first leg of a set is its least element; its existence is proved from the well-foundedness of
strict inclusion.

*Voice.* `Local` relates, for one request, the handler to its threads, file, object and row. `Whole`: while no
late thread has opened the path, only the current thread has it open, the file is whole from
the moment that thread finished, and so is what is stored and owned afterwards. `FallsThrough`: the
tiers that were given up are those of providers that are down, while no healthy one falters. Requests
share only the circuits.

*ClientInv.* What is on the screen after a clear depends on what its handler found, so the
invariant follows the handlers. `Handlers`: a flag has its one handler, and a clear under way holds its flag,
unless it is an orphan. `Waits`: a clear of this session that holds its flag lists every chat in flight, none is left when it
posts and none is sent before it has marked its section, and its request is of this user; hence the server holds
nothing of his afterwards but what the client gave up on (`Gone`). `Screen`: beside such a clear the screen is empty and
no load of this epoch is under way (`Blank`); what was erased has been answered and is neither shown, nor stored, nor in a load that will be
shown (`Erasure`); what is shown is stored or in flight until something strays (`Backed`). `Voice`, by
itself: whatever moves the epoch or ends the session stops the playback in the same step. Without `orphans`
each of `ClearedIsGone` and `ShownIsStored` is false: three clicks show it, or one click and a login of the same user.

*Migration.* `SequenceIsAbove`: from the end of a run on the sequence is above every id in use, or a registration was
in flight when it was set; then it is still on no copied account, since the script's own rows are committed before it
reads their maximum (`NobodyWaits` is the moment in between).

*The assumptions.* `Serial` (a user sends nothing while his turn is in flight) and `~DbFaults` (no
statement of the gate fails) are constants of ActionGate and hypotheses of the theorems that name
them, as of the run GateSerial; authorisation and the cap need neither. The text field does not send while a message of it is under
way; two tabs or devices overlap, the server does not prevent it, and section 5 says what is lost then. No other theorem has a
hypothesis besides the assumptions on the constants.

*Only model-checked*: liveness (`TurnsEnd`, `LedgerSettles`, `EveryActionEnds`, `RequestEnds`,
`VoiceEnds`), since TLAPS has no rules for fairness here. Every other property of the passing runs is
stated by a theorem.

## 5. What the properties do not say

- `AtMostOneDelivery`, `ConsentWithoutCrash`, `PromptMatchesStaging` and `AuditMatchesDeliveries` are
  claims about a client that waits and a store that answers. GateDoubleYes shows the first
  is false of overlapping turns. A swallowed failure of the DELETE in `clear_pending_action`
  breaks it as well: the row survives and a second yes repeats the send.
- The audit row is written after the send in a transaction of its own. A process that dies
  between the two, an exception that leaves `execute_action_async`, or an insert whose
  error is swallowed leaves a delivery without a row, although `action_policy.py` 10 says
  that every attempt is written. `AuditMatchesDeliveries` speaks of turns that were answered.
- A provider that answers with an error is assumed not to have taken the message. The WhatsApp
  connector assumes this of 5xx answers too; a gateway that fails after acceptance would
  break `DeclinedIsNotSent`.
- `CapHolds` counts fixed hourly windows, which is what `check_rate_limit` implements;
  `action_policy.py` 66 speaks of a rolling hour. It allows a cap more for each loss of the counters and for each hour in
  which a process had to judge the user by its table, and what such a table forgot; turns whose check straddled the hour
  are not counted. With Redis up and keeping its data it is the cap itself. The gate's model has one process at a time;
  several have a table each, and an outage grants a cap by each of them.
- A CRM failure of any kind reads as "not found" (`crm_connector.py` 259-261), and the model
  keeps that.
- The 200-entry cut of the cached history is left out: the prompt uses fewer entries.
- `SharedLimit` counts the checks that Redis judged in the window of their key while it kept its
  data. A command that arrives after its window may find its counter expired and start it anew,
  and a failed-over check is counted by the table of its process, so an outage multiplies the limit
  by the number of processes and of outages.
- `CompletedIsComplete` assumes a legacy database with an account and an application that stays
  away during the copy. `NewIdsAreFree` assumes neither, but says of a run that met a registration in flight at
  its last step only that the next id is not a copied account's.
- `ClearedIsGone` is of clears that end in their session and with their flag, `ShownIsStored` of the time before any
  other clear deletes messages: section 3 lists what the others do.
- `OneVoice` says nothing of audio that was being fetched at a stop, nor whose it is after a session ended
  with work in flight.
- `CacheIsTruth` and `PromptsSeeTruth` say nothing of a tainted snapshot, which the next prompt may still be built from.
- `SessionsHaveTtl` is of full hashes of tokens that clients hold, not of the activity that a touch writes after
  a logout nor of the token of a login that was answered with an error.
- `SuccessIsDelivered` says that a success is one; that a group which failed in part is not sent again to those
  it reached is left to the user who asks again.
- `TripsNeedFailures` and `DeadProviderRests` are of failures the breaker sees; calls that hang are cancelled outside it
  and are not counted.
- `LocalFilesGone` takes an unlink to succeed: `audio_storage.py` swallows an OSError of it.
- `AudioIsWhole` says nothing of a path that a timed-out thread opened afterwards.

## 6. What is not modelled, and the plan

Modelled: the gate, the context, the sessions, the delivery of actions, the rate limiter, both provider
chains, the audio store, the client, the pool and the database migration. What could still be added:

| Part | Why it matters | Why it is not here |
|---|---|---|
| matching a spoken name to a contact (`crm_connector.py`), `classify_confirmation` | which of several contacts is chosen | substrings and word lists; Delivery lets the CRM return any contact, and the gate sees the three classes |
| `ChatInput.jsx`: recorder, transcript | overlapping recordings | one step of the Client; its state is the browser's MediaRecorder |
| registration | one account per name | the unique index decides it; Migration has the insert that draws an id and its commit |
| ActionGate with Providers and Delivery in one state space | the time of a turn is bounded by the sum of its timeboxes | each part ends by itself; the product is out of TLC's reach |

Proofs that remain: none of the safety properties; what could be stated next is the refinement of an
abstract specification of the delivery of actions and of the context cache.

Not modelled at all: `migrate_audio_to_s3.py`, which imports a name that `audio_storage.py` does not
define (line 26) and therefore ends in an ImportError; prompt texts, logging, headers and correlation ids,
layout of replies, the synchronous twins in `connectors/` (no route calls them), the load test, Terraform
and the container files. They change no state these properties read, or are not run by
the service. Password hashing and the contents of messages are data the properties do not tell apart.
