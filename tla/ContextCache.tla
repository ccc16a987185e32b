---------------------------- MODULE ContextCache ----------------------------
(***************************************************************************)
(* The conversation context of one session: rows of the tables messages    *)
(* and memories, the snapshot of them that session_service.py keeps in     *)
(* Redis under ctx:{session_id}, the turns of process_message that load,   *)
(* extend and save it, and the three clear operations.                     *)
(*                                                                         *)
(* A message is the turn that wrote it with its role; the value of a       *)
(* memory is the turn that learned it.  Every database transaction and     *)
(* every Redis command is a step, so turns, clears, crashes and outages    *)
(* fall between any two of them.                                           *)
(***************************************************************************)
EXTENDS Naturals, FiniteSets

CONSTANTS
    Turns,        \* chat turns of the session
    Clears,       \* calls of /clear-chat, /clear-memories and /clear
    Keys,         \* memory keys
    None,         \* no value, or no cached snapshot
    MaxEntries,   \* messages that fit MAX_CTX_BYTES
    RedisFaults,  \* a Redis command may fail
    DbFaults,     \* a PostgreSQL statement may fail
    MaxCrashes    \* bound: restarts of the API process

ASSUME NoneAssumption == None \notin Turns
ASSUME OpsAssumption == Turns \cap Clears = {}
ASSUME SizeAssumption == MaxEntries \in Nat /\ MaxCrashes \in Nat
ASSUME FaultsAssumption == RedisFaults \in BOOLEAN /\ DbFaults \in BOOLEAN

VARIABLES
    messages,   \* table messages
    memories,   \* table memories: key -> the turn that wrote its value
    cache,      \* the Redis snapshot, or None
    pc,         \* where each turn and each clear stands
    ctx,        \* the SessionContext a turn works on
    plan,       \* what the LLM told a turn to remember and to forget
    kind,       \* what a clear clears
    crashes,    \* restarts so far
    committed,  \* ghost: every message and memory ever committed
    tainted     \* ghost: something that may leave a wrong snapshot happened

vars == <<messages, memories, cache, pc, ctx, plan, kind, crashes, committed, tainted>>

Ops == Turns \cup Clears
Ended == {"done", "failed", "dead"}
Labels == {"idle", "lookup", "readMemories", "readMessages", "fill", "generate", "forget",
           "addUser", "addReply", "learn", "saveLearned", "saveCtx", "clearMessages",
           "clearMemories", "drop"} \cup Ended
InFlight(o) == pc[o] \notin {"idle"} \cup Ended
Sole(o) == \A p \in Ops \ {o} : ~InFlight(p)
Goto(o, label) == pc' = [pc EXCEPT ![o] = label]

Empty == [hist |-> {}, mem |-> [k \in Keys |-> None]]
NoPlan == [learn |-> {}, forget |-> {}]
\* What SessionContext reads when there is no snapshot.
Database == [hist |-> messages, mem |-> memories]

Init ==
    /\ messages = {}
    /\ memories = [k \in Keys |-> None]
    /\ cache = None
    /\ pc = [o \in Ops |-> "idle"]
    /\ ctx = [t \in Turns |-> Empty]
    /\ plan = [t \in Turns |-> NoPlan]
    /\ kind = [c \in Clears |-> "all"]
    /\ crashes = 0
    /\ committed = {}
    /\ tainted = FALSE

(***************************************************************************)
(* _ctx_save: SET, or nothing at all when the payload is oversized or      *)
(* Redis fails; then an older snapshot stays in place.                     *)
(***************************************************************************)
Oversized(c) == Cardinality(c.hist) > MaxEntries

CtxSave(c) ==
    \/ /\ ~Oversized(c)
       /\ cache' = c
       /\ UNCHANGED tainted
    \/ /\ Oversized(c) \/ RedisFaults
       /\ UNCHANGED cache
       /\ tainted' = (tainted \/ cache # None)

\* _ctx_drop, called by o: DEL, best effort.
CtxDrop(o) ==
    \/ /\ cache' = None
       /\ tainted' = (tainted /\ ~Sole(o))
    \/ /\ RedisFaults
       /\ UNCHANGED cache
       /\ tainted' = (tainted \/ cache # None)

(***************************************************************************)
(* A turn: get_session, the prompt, and the writes at the end.             *)
(***************************************************************************)
StartTurn(t) ==
    /\ pc[t] = "idle"
    /\ Goto(t, "lookup")
    /\ tainted' = (tainted \/ ~Sole(t))
    /\ UNCHANGED <<messages, memories, cache, ctx, plan, kind, crashes, committed>>

\* _ctx_load; a Redis error reads as a miss.
CtxLoad(t) ==
    /\ pc[t] = "lookup"
    /\ \/ /\ cache # None
          /\ ctx' = [ctx EXCEPT ![t] = cache]
          /\ Goto(t, "generate")
          /\ UNCHANGED tainted
       \/ /\ cache = None \/ RedisFaults
          /\ Goto(t, "readMemories")
          /\ tainted' = (tainted /\ ~(cache = None /\ Sole(t)))
          /\ UNCHANGED ctx
    /\ UNCHANGED <<messages, memories, cache, plan, kind, crashes, committed>>

\* The rebuild reads the two tables one after the other.
ReadMemories(t) ==
    /\ pc[t] = "readMemories"
    /\ ctx' = [ctx EXCEPT ![t].mem = memories]
    /\ Goto(t, "readMessages")
    /\ UNCHANGED <<messages, memories, cache, plan, kind, crashes, committed, tainted>>

ReadMessages(t) ==
    /\ pc[t] = "readMessages"
    /\ ctx' = [ctx EXCEPT ![t].hist = messages]
    /\ Goto(t, "fill")
    /\ UNCHANGED <<messages, memories, cache, plan, kind, crashes, committed, tainted>>

FillCache(t) ==
    /\ pc[t] = "fill"
    /\ CtxSave(ctx[t])
    /\ Goto(t, "generate")
    /\ UNCHANGED <<messages, memories, ctx, plan, kind, crashes, committed>>

\* The LLM answers with memories to learn and to forget, or fails (503).  A
\* confirmation turn writes its two messages and nothing else.
Generate(t) ==
    /\ pc[t] = "generate"
    /\ \/ /\ \E learn, forget \in SUBSET Keys :
                plan' = [plan EXCEPT ![t] = [learn |-> learn, forget |-> forget]]
          /\ Goto(t, IF plan'[t].forget = {} THEN "addUser" ELSE "forget")
       \/ /\ Goto(t, "failed")
          /\ UNCHANGED plan
    /\ UNCHANGED <<messages, memories, cache, ctx, kind, crashes, committed, tainted>>

\* Mutant: the keys are deleted from the table but not from the context.
Forget_TableOnly(t) ==
    /\ pc[t] = "forget"
    /\ memories' = [k \in Keys |-> IF k \in plan[t].forget THEN None ELSE memories[k]]
    /\ Goto(t, "addUser")
    /\ UNCHANGED <<messages, cache, ctx, plan, kind, crashes, committed, tainted>>

\* delete_memories, and the same keys popped from the context.
Forget(t) ==
    LET without(m) == [k \in Keys |-> IF k \in plan[t].forget THEN None ELSE m[k]] IN
    /\ pc[t] = "forget"
    /\ memories' = without(memories)
    /\ ctx' = [ctx EXCEPT ![t].mem = without(@)]
    /\ Goto(t, "addUser")
    /\ UNCHANGED <<messages, cache, plan, kind, crashes, committed, tainted>>

\* Mutant: the snapshot is written together with the context.
AddUserMessage_CachesFirst(t) ==
    /\ pc[t] = "addUser"
    /\ ctx' = [ctx EXCEPT ![t].hist = @ \cup {<<t, "user">>, <<t, "assistant">>}]
    /\ cache' = ctx'[t]
    /\ messages' = messages \cup {<<t, "user">>}
    /\ committed' = committed \cup {<<t, "user">>}
    /\ Goto(t, "addReply")
    /\ UNCHANGED <<memories, plan, kind, crashes, tainted>>

\* Both messages are appended to the context, then the user's is inserted.
AddUserMessage(t) ==
    /\ pc[t] = "addUser"
    /\ ctx' = [ctx EXCEPT ![t].hist = @ \cup {<<t, "user">>, <<t, "assistant">>}]
    /\ messages' = messages \cup {<<t, "user">>}
    /\ committed' = committed \cup {<<t, "user">>}
    /\ Goto(t, "addReply")
    /\ UNCHANGED <<memories, cache, plan, kind, crashes, tainted>>

\* Mutant: what the turn learned stays in its context.
AddReply_ForgetsToLearn(t) ==
    /\ pc[t] = "addReply"
    /\ messages' = messages \cup {<<t, "assistant">>}
    /\ committed' = committed \cup {<<t, "assistant">>}
    /\ Goto(t, "saveCtx")
    /\ UNCHANGED <<memories, cache, ctx, plan, kind, crashes, tainted>>

AddReply(t) ==
    /\ pc[t] = "addReply"
    /\ messages' = messages \cup {<<t, "assistant">>}
    /\ committed' = committed \cup {<<t, "assistant">>}
    /\ Goto(t, IF plan[t].learn = {} THEN "saveCtx" ELSE "learn")
    /\ UNCHANGED <<memories, cache, ctx, plan, kind, crashes, tainted>>

\* update_memories: the context first, then save_memories in one transaction...
Learn(t) ==
    LET with(m) == [k \in Keys |-> IF k \in plan[t].learn THEN t ELSE m[k]] IN
    /\ pc[t] = "learn"
    /\ ctx' = [ctx EXCEPT ![t].mem = with(@)]
    /\ memories' = with(memories)
    /\ committed' = committed \cup {<<t, k>> : k \in plan[t].learn}
    /\ Goto(t, "saveLearned")
    /\ UNCHANGED <<messages, cache, plan, kind, crashes, tainted>>

\* ... and the snapshot, which process_message saves once more at the end.
SaveLearned(t) ==
    /\ pc[t] = "saveLearned"
    /\ CtxSave(ctx[t])
    /\ Goto(t, "saveCtx")
    /\ UNCHANGED <<messages, memories, ctx, plan, kind, crashes, committed>>

SaveContext(t) ==
    /\ pc[t] = "saveCtx"
    /\ CtxSave(ctx[t])
    /\ Goto(t, "done")
    /\ UNCHANGED <<messages, memories, ctx, plan, kind, crashes, committed>>

Turn(t) ==
    \/ StartTurn(t) \/ CtxLoad(t) \/ ReadMemories(t) \/ ReadMessages(t) \/ FillCache(t)
    \/ Generate(t) \/ Forget(t) \/ AddUserMessage(t) \/ AddReply(t) \/ Learn(t)
    \/ SaveLearned(t) \/ SaveContext(t)

(***************************************************************************)
(* clear_chat_history and clear_memory_data empty a table and then drop    *)
(* the snapshot; clear_session drops it first and then empties both.       *)
(***************************************************************************)
StartClear(c) ==
    /\ pc[c] = "idle"
    /\ \E w \in {"chat", "memories", "all"} :
          /\ kind' = [kind EXCEPT ![c] = w]
          /\ Goto(c, CASE w = "chat" -> "clearMessages"
                       [] w = "memories" -> "clearMemories"
                       [] w = "all" -> "drop")
    /\ tainted' = (tainted \/ ~Sole(c))
    /\ UNCHANGED <<messages, memories, cache, ctx, plan, crashes, committed>>

ClearMessages(c) ==
    /\ pc[c] = "clearMessages"
    /\ messages' = {}
    /\ Goto(c, IF kind[c] = "chat" THEN "drop" ELSE "done")
    /\ UNCHANGED <<memories, cache, ctx, plan, kind, crashes, committed, tainted>>

\* Mutant: clearing the memories leaves the snapshot alone.
ClearMemories_KeepsSnapshot(c) ==
    /\ pc[c] = "clearMemories"
    /\ memories' = [k \in Keys |-> None]
    /\ Goto(c, IF kind[c] = "memories" THEN "done" ELSE "clearMessages")
    /\ UNCHANGED <<messages, cache, ctx, plan, kind, crashes, committed, tainted>>

ClearMemories(c) ==
    /\ pc[c] = "clearMemories"
    /\ memories' = [k \in Keys |-> None]
    /\ Goto(c, IF kind[c] = "memories" THEN "drop" ELSE "clearMessages")
    /\ UNCHANGED <<messages, cache, ctx, plan, kind, crashes, committed, tainted>>

DropCache(c) ==
    /\ pc[c] = "drop"
    /\ CtxDrop(c)
    /\ Goto(c, IF kind[c] = "all" THEN "clearMemories" ELSE "done")
    /\ UNCHANGED <<messages, memories, ctx, plan, kind, crashes, committed>>

Clear(c) == StartClear(c) \/ ClearMessages(c) \/ ClearMemories(c) \/ DropCache(c)

(***************************************************************************)
(* The environment.                                                        *)
(***************************************************************************)
\* o has changed the tables and has not refreshed or dropped the snapshot yet.
Unsettled(o) ==
    \/ pc[o] \in {"addReply", "learn", "saveLearned", "saveCtx"}
    \/ o \in Turns /\ pc[o] = "addUser" /\ plan[o].forget # {}
    \/ o \in Clears /\ pc[o] = "drop" /\ kind[o] # "all"

\* A statement fails and the exception ends the operation.
DbError(o) ==
    /\ DbFaults
    /\ pc[o] \in {"readMemories", "readMessages", "forget", "addUser", "addReply", "learn",
                  "clearMessages", "clearMemories"}
    /\ Goto(o, "failed")
    /\ tainted' = (tainted \/ (Unsettled(o) /\ cache # None))
    /\ UNCHANGED <<messages, memories, cache, ctx, plan, kind, crashes, committed>>

Crash ==
    /\ crashes < MaxCrashes
    /\ crashes' = crashes + 1
    /\ pc' = [o \in Ops |-> IF InFlight(o) THEN "dead" ELSE pc[o]]
    /\ tainted' = (tainted \/ (cache # None /\ \E o \in Ops : Unsettled(o)))
    /\ UNCHANGED <<messages, memories, cache, ctx, plan, kind, committed>>

\* Redis loses the key: its TTL, allkeys-lru eviction, or a restart of Redis,
\* which persists nothing.
Evict ==
    /\ cache # None
    /\ cache' = None
    /\ tainted' = (tainted /\ \E o \in Ops : InFlight(o))
    /\ UNCHANGED <<messages, memories, pc, ctx, plan, kind, crashes, committed>>

Next ==
    \/ \E t \in Turns : Turn(t)
    \/ \E c \in Clears : Clear(c)
    \/ \E o \in Ops : DbError(o)
    \/ Crash
    \/ Evict

Spec == Init /\ [][Next]_vars

-----------------------------------------------------------------------------
Messages == Turns \X {"user", "assistant"}
Contexts == [hist : SUBSET Messages, mem : [Keys -> Turns \cup {None}]]

TypeOK ==
    /\ messages \subseteq Messages
    /\ memories \in [Keys -> Turns \cup {None}]
    /\ cache \in Contexts \cup {None}
    /\ pc \in [Ops -> Labels]
    /\ ctx \in [Turns -> Contexts]
    /\ plan \in [Turns -> [learn : SUBSET Keys, forget : SUBSET Keys]]
    /\ kind \in [Clears -> {"chat", "memories", "all"}]
    /\ crashes \in 0..MaxCrashes
    /\ tainted \in BOOLEAN

\* A snapshot never runs ahead of the database: whatever it holds was committed
\* first, under any interleaving, fault or crash (session_service.py 402-423).
CacheNeverAhead ==
    cache # None =>
        /\ cache.hist \subseteq committed
        /\ \A k \in Keys : cache.mem[k] # None => <<cache.mem[k], k>> \in committed

\* "The database remains the source of truth" (session_service.py 75-81): with
\* nothing in flight the snapshot is what a rebuild would read.  Only these
\* events can break it, and only until the key is next lost or dropped: two
\* overlapping operations, a Redis write that failed or was skipped over an older
\* snapshot, an operation that died between the tables and the snapshot.
CacheIsTruth ==
    ~tainted /\ (\A o \in Ops : ~InFlight(o)) => cache \in {None, Database}

\* The prompt of a turn is built from what the tables hold, so every answered
\* turn and no cleared one is in it (session_service.py 223, 288-305).
PromptsSeeTruth ==
    \A t \in Turns : pc[t] = "generate" /\ ~tainted => ctx[t] = Database

\* A turn that was answered has both its messages and what it learned in the
\* database (session_service.py 402-421).
AnsweredIsCommitted ==
    \A t \in Turns : pc[t] = "done" =>
        {<<t, "user">>, <<t, "assistant">>} \cup {<<t, k>> : k \in plan[t].learn}
            \subseteq committed

\* "oversized: skip caching; the DB rebuild covers it" (session_service.py 120):
\* serial operations and stores that answer keep the snapshot true whatever the
\* size of the context.
SkippedSaveIsCovered ==
    (\A o \in Ops : ~InFlight(o)) => cache \in {None, Database}
=============================================================================
