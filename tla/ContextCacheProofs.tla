------------------------- MODULE ContextCacheProofs -------------------------
(***************************************************************************)
(* The snapshot, the prompts and the answers against the database, for any *)
(* number of turns and clears: the snapshot never runs ahead of it and no  *)
(* turn answers unless it committed, under every interleaving, crash,      *)
(* eviction and failing store; snapshot and prompts are the whole truth    *)
(* while nothing overlaps, crashes or fails.                               *)
(***************************************************************************)
EXTENDS ContextCache, TLAPS

LEMMA TurnKeepsTypes ==
    ASSUME TypeOK, NEW t \in Turns, Turn(t)
    PROVE  TypeOK'
<1>. USE OpsAssumption
<1>. USE DEF TypeOK, Ops, Labels, Ended, Goto
<1>0. ctx[t] \in Contexts /\ ctx[t].hist \subseteq Messages
      /\ ctx[t].mem \in [Keys -> Turns \cup {None}]
  BY DEF Contexts
<1>1. CASE StartTurn(t)
  BY <1>1 DEF StartTurn
<1>2. CASE CtxLoad(t)
  <2>1. tainted' \in BOOLEAN
    BY <1>2 DEF CtxLoad, Sole, InFlight
  <2>2. ctx' \in [Turns -> Contexts]
    BY <1>2 DEF CtxLoad
  <2>. QED
    BY <1>2, <2>1, <2>2 DEF CtxLoad
<1>3. CASE ReadMemories(t)
  <2>1. [ctx[t] EXCEPT !.mem = memories] \in Contexts
    BY <1>0 DEF Contexts
  <2>. QED
    BY <1>3, <2>1 DEF ReadMemories
<1>4. CASE ReadMessages(t)
  <2>1. [ctx[t] EXCEPT !.hist = messages] \in Contexts
    BY <1>0 DEF Contexts
  <2>. QED
    BY <1>4, <2>1 DEF ReadMessages
<1>5. CASE FillCache(t) \/ SaveLearned(t) \/ SaveContext(t)
  BY <1>0, <1>5 DEF FillCache, SaveLearned, SaveContext, CtxSave
<1>6. CASE Generate(t)
  BY <1>6 DEF Generate
<1>7. CASE Forget(t)
  <2>. DEFINE without(m) == [k \in Keys |-> IF k \in plan[t].forget THEN None ELSE m[k]]
  <2>1. without(memories) \in [Keys -> Turns \cup {None}]
    OBVIOUS
  <2>2. without(ctx[t].mem) \in [Keys -> Turns \cup {None}]
    BY <1>0
  <2>. HIDE DEF without
  <2>3. [ctx[t] EXCEPT !.mem = without(ctx[t].mem)] \in Contexts
    BY <1>0, <2>2 DEF Contexts
  <2>4. memories' = without(memories)
        /\ ctx' = [ctx EXCEPT ![t] = [ctx[t] EXCEPT !.mem = without(ctx[t].mem)]]
    BY <1>7 DEF Forget, without
  <2>5. ctx' \in [Turns -> Contexts] /\ memories' \in [Keys -> Turns \cup {None}]
    BY <2>1, <2>3, <2>4
  <2>6. pc' = [pc EXCEPT ![t] = "addUser"]
        /\ UNCHANGED <<messages, cache, plan, kind, crashes, tainted>>
    BY <1>7 DEF Forget
  <2>. QED
    BY <2>5, <2>6
<1>8. CASE AddUserMessage(t)
  <2>. DEFINE said == ctx[t].hist \cup {<<t, "user">>, <<t, "assistant">>}
  <2>1. said \subseteq Messages
    BY <1>0 DEF Messages
  <2>. HIDE DEF said
  <2>2. [ctx[t] EXCEPT !.hist = said] \in Contexts
    BY <1>0, <2>1 DEF Contexts
  <2>3. ctx' = [ctx EXCEPT ![t] = [ctx[t] EXCEPT !.hist = said]]
    BY <1>8 DEF AddUserMessage, said
  <2>4. messages' \subseteq Messages
    BY <1>8 DEF AddUserMessage, Messages
  <2>5. ctx' \in [Turns -> Contexts]
    BY <2>2, <2>3
  <2>6. pc' = [pc EXCEPT ![t] = "addReply"]
        /\ UNCHANGED <<memories, cache, plan, kind, crashes, tainted>>
    BY <1>8 DEF AddUserMessage
  <2>. QED
    BY <2>4, <2>5, <2>6
<1>9. CASE AddReply(t)
  BY <1>9 DEF AddReply, Messages
<1>10. CASE Learn(t)
  <2>. DEFINE with(m) == [k \in Keys |-> IF k \in plan[t].learn THEN t ELSE m[k]]
  <2>1. with(memories) \in [Keys -> Turns \cup {None}]
    OBVIOUS
  <2>2. with(ctx[t].mem) \in [Keys -> Turns \cup {None}]
    BY <1>0
  <2>. HIDE DEF with
  <2>3. [ctx[t] EXCEPT !.mem = with(ctx[t].mem)] \in Contexts
    BY <1>0, <2>2 DEF Contexts
  <2>4. memories' = with(memories)
        /\ ctx' = [ctx EXCEPT ![t] = [ctx[t] EXCEPT !.mem = with(ctx[t].mem)]]
    BY <1>10 DEF Learn, with
  <2>5. ctx' \in [Turns -> Contexts] /\ memories' \in [Keys -> Turns \cup {None}]
    BY <2>1, <2>3, <2>4
  <2>6. pc' = [pc EXCEPT ![t] = "saveLearned"]
        /\ UNCHANGED <<messages, cache, plan, kind, crashes, tainted>>
    BY <1>10 DEF Learn
  <2>. QED
    BY <2>5, <2>6
<1>. QED
  BY <1>1, <1>2, <1>3, <1>4, <1>5, <1>6, <1>7, <1>8, <1>9, <1>10 DEF Turn

LEMMA NextKeepsTypes == TypeOK /\ [Next]_vars => TypeOK'
<1>. SUFFICES ASSUME TypeOK, [Next]_vars PROVE TypeOK'
  OBVIOUS
<1>. USE OpsAssumption, SizeAssumption
<1>. USE DEF TypeOK, Ops, Labels, Ended, Goto
<1>1. ASSUME NEW t \in Turns, Turn(t) PROVE TypeOK'
  BY <1>1, TurnKeepsTypes
<1>2. ASSUME NEW c \in Clears, StartClear(c) PROVE TypeOK'
  BY <1>2 DEF StartClear
<1>3. ASSUME NEW c \in Clears, ClearMessages(c) \/ ClearMemories(c) \/ DropCache(c)
      PROVE TypeOK'
  BY <1>3 DEF ClearMessages, ClearMemories, DropCache, CtxDrop, Sole, InFlight
<1>4. ASSUME NEW o \in Ops, DbError(o) PROVE TypeOK'
  BY <1>4 DEF DbError
<1>5. CASE Crash
  BY <1>5 DEF Crash
<1>6. CASE Evict
  BY <1>6 DEF Evict
<1>7. CASE UNCHANGED vars
  BY <1>7 DEF vars
<1>. QED
  BY <1>1, <1>2, <1>3, <1>4, <1>5, <1>6, <1>7 DEF Next, Clear

LEMMA InitTyped == Init => TypeOK
<1>1. Empty \in Contexts
  BY DEF Empty, Contexts
<1>. SUFFICES ASSUME Init PROVE TypeOK
  OBVIOUS
<1>2. pc \in [Ops -> Labels] /\ ctx \in [Turns -> Contexts]
  BY <1>1 DEF Init, Labels
<1>3. plan \in [Turns -> [learn : SUBSET Keys, forget : SUBSET Keys]]
  BY DEF Init, NoPlan
<1>4. memories \in [Keys -> Turns \cup {None}] /\ messages \subseteq Messages
  BY DEF Init
<1>5. kind \in [Clears -> {"chat", "memories", "all"}]
  BY DEF Init
<1>6. crashes \in 0..MaxCrashes
  BY SizeAssumption DEF Init
<1>. QED
  BY <1>2, <1>3, <1>4, <1>5, <1>6 DEF Init, TypeOK

\* Every variable keeps its type, whatever fails and however operations overlap.
THEOREM ContextTyped == Spec => []TypeOK
  BY InitTyped, NextKeepsTypes, PTL DEF Spec

-----------------------------------------------------------------------------
\* Everything a context says was committed, but for messages still to be
\* written.
Backed(c, owed) ==
    /\ c.hist \subseteq committed \cup owed
    /\ \A k \in Keys : c.mem[k] # None => <<c.mem[k], k>> \in committed

\* What turn t holds in its context and has not committed yet.
Owed(t) == IF pc[t] = "addReply" THEN {<<t, "assistant">>} ELSE {}

\* Why CacheNeverAhead is inductive: the tables and the context of every turn
\* that can still act are backed, and a turn saves only when it owes nothing.
TablesBacked ==
    /\ messages \subseteq committed
    /\ \A k \in Keys : memories[k] # None => <<memories[k], k>> \in committed
ContextsBacked == \A t \in Turns : pc[t] \notin Ended => Backed(ctx[t], Owed(t))
Inv == TypeOK /\ TablesBacked /\ ContextsBacked /\ CacheNeverAhead

\* A step of turn t leaves the contexts of the others as backed as they were.
LEMMA OthersStayBacked ==
    ASSUME ContextsBacked, NEW t \in Turns, committed \subseteq committed',
           \A s \in Turns \ {t} : ctx'[s] = ctx[s] /\ pc'[s] = pc[s],
           pc'[t] \notin Ended => Backed(ctx[t], Owed(t))'
    PROVE  ContextsBacked'
<1>1. ASSUME NEW s \in Turns, s # t, pc'[s] \notin Ended PROVE Backed(ctx[s], Owed(s))'
  <2>1. Backed(ctx[s], Owed(s)) /\ ctx'[s] = ctx[s] /\ pc'[s] = pc[s]
    BY <1>1 DEF ContextsBacked
  <2>. QED
    BY <2>1 DEF Backed, Owed
<1>. QED
  BY <1>1 DEF ContextsBacked

LEMMA TurnKeepsBacking ==
    ASSUME Inv, NEW t \in Turns, Turn(t)
    PROVE  TablesBacked' /\ ContextsBacked' /\ CacheNeverAhead'
<1>. USE OpsAssumption, NoneAssumption DEF Inv
<1>0. /\ pc \in [Ops -> Labels] /\ t \in Ops /\ ctx \in [Turns -> Contexts]
      /\ ctx[t].hist \subseteq Messages /\ ctx[t].mem \in [Keys -> Turns \cup {None}]
      /\ memories \in [Keys -> Turns \cup {None}]
      /\ plan[t].learn \subseteq Keys /\ plan[t].forget \subseteq Keys
  BY DEF TypeOK, Ops, Contexts
<1>1. pc[t] \notin Ended => Backed(ctx[t], Owed(t))
  BY DEF ContextsBacked
<1>2. \A s \in Turns \ {t} : ctx'[s] = ctx[s] /\ pc'[s] = pc[s]
  <2>1. \A s \in Turns \ {t} : pc'[s] = pc[s]
    BY <1>0 DEF Turn, StartTurn, CtxLoad, ReadMemories, ReadMessages, FillCache, Generate,
       Forget, AddUserMessage, AddReply, Learn, SaveLearned, SaveContext, Goto, Ops
  <2>2. \/ UNCHANGED ctx
        \/ \E c : ctx' = [ctx EXCEPT ![t] = c]
    BY DEF Turn, StartTurn, CtxLoad, ReadMemories, ReadMessages, FillCache, Generate,
       Forget, AddUserMessage, AddReply, Learn, SaveLearned, SaveContext
  <2>. QED
    BY <1>0, <2>1, <2>2
<1>3. CASE StartTurn(t)
  <2>1. pc'[t] \notin Ended => Backed(ctx[t], Owed(t))'
    BY <1>0, <1>1, <1>3 DEF StartTurn, Goto, Ended, Owed, Backed
  <2>2. ContextsBacked'
    BY <1>2, <1>3, <2>1, OthersStayBacked DEF StartTurn
  <2>. QED
    BY <1>3, <2>2 DEF StartTurn, TablesBacked, CacheNeverAhead
<1>4. CASE CtxLoad(t)
  <2>1. pc'[t] \notin Ended => Backed(ctx[t], Owed(t))'
    BY <1>0, <1>1, <1>4 DEF CtxLoad, Goto, Ended, Owed, Backed, CacheNeverAhead
  <2>2. ContextsBacked'
    BY <1>2, <1>4, <2>1, OthersStayBacked DEF CtxLoad
  <2>. QED
    BY <1>4, <2>2 DEF CtxLoad, TablesBacked, CacheNeverAhead
<1>5. CASE ReadMemories(t) \/ ReadMessages(t)
  <2>1. pc'[t] \notin Ended => Backed(ctx[t], Owed(t))'
    <3>1. /\ ctx'[t].hist \in {ctx[t].hist, messages}
          /\ ctx'[t].mem \in {ctx[t].mem, memories}
      BY <1>0, <1>5 DEF ReadMemories, ReadMessages, Contexts
    <3>2. pc[t] \notin Ended /\ Owed(t) = {} /\ committed' = committed
      BY <1>0, <1>5 DEF ReadMemories, ReadMessages, Ended, Owed
    <3>. QED
      BY <1>1, <3>1, <3>2 DEF Backed, TablesBacked
  <2>2. ContextsBacked'
    BY <1>2, <1>5, <2>1, OthersStayBacked DEF ReadMemories, ReadMessages
  <2>. QED
    BY <1>5, <2>2 DEF ReadMemories, ReadMessages, TablesBacked, CacheNeverAhead
<1>6. CASE FillCache(t) \/ SaveLearned(t) \/ SaveContext(t)
  <2>1. /\ Backed(ctx[t], {}) /\ committed' = committed /\ ctx' = ctx
        /\ cache' \in {cache, ctx[t]} /\ Owed(t)' = {}
    BY <1>0, <1>1, <1>6 DEF FillCache, SaveLearned, SaveContext, CtxSave, Ended, Owed, Goto
  <2>2. ContextsBacked'
    BY <1>2, <2>1, OthersStayBacked DEF Backed
  <2>3. CacheNeverAhead'
    BY <2>1 DEF CacheNeverAhead, Backed
  <2>. QED
    BY <1>6, <2>1, <2>2, <2>3 DEF FillCache, SaveLearned, SaveContext, TablesBacked
<1>7. CASE Generate(t)
  <2>1. pc'[t] \notin Ended => Backed(ctx[t], Owed(t))'
    BY <1>0, <1>1, <1>7 DEF Generate, Goto, Ended, Owed, Backed
  <2>2. ContextsBacked'
    BY <1>2, <1>7, <2>1, OthersStayBacked DEF Generate
  <2>. QED
    BY <1>7, <2>2 DEF Generate, TablesBacked, CacheNeverAhead
<1>8. CASE Forget(t)
  <2>1. /\ ctx'[t].hist = ctx[t].hist
        /\ \A k \in Keys : ctx'[t].mem[k] \in {None, ctx[t].mem[k]}
        /\ \A k \in Keys : memories'[k] \in {None, memories[k]}
    BY <1>0, <1>8 DEF Forget, Contexts
  <2>2. /\ pc[t] \notin Ended /\ Owed(t) = {} /\ committed' = committed
    BY <1>0, <1>8 DEF Forget, Ended, Owed
  <2>3. (Backed(ctx[t], Owed(t)))'
    BY <1>1, <2>1, <2>2 DEF Backed
  <2>4. ContextsBacked'
    BY <1>2, <2>2, <2>3, OthersStayBacked
  <2>5. messages' = messages /\ cache' = cache
    BY <1>8 DEF Forget
  <2>. QED
    BY <2>1, <2>2, <2>4, <2>5 DEF TablesBacked, CacheNeverAhead
<1>9. CASE AddUserMessage(t)
  <2>1. /\ ctx'[t].hist = ctx[t].hist \cup {<<t, "user">>, <<t, "assistant">>}
        /\ ctx'[t].mem = ctx[t].mem
        /\ committed' = committed \cup {<<t, "user">>}
        /\ Owed(t)' = {<<t, "assistant">>}
    BY <1>0, <1>9 DEF AddUserMessage, Contexts, Goto, Owed
  <2>2. Backed(ctx[t], {})
    BY <1>0, <1>1, <1>9 DEF AddUserMessage, Ended, Owed
  <2>3. (Backed(ctx[t], Owed(t)))'
    BY <2>1, <2>2 DEF Backed
  <2>4. ContextsBacked'
    BY <1>2, <2>1, <2>3, OthersStayBacked
  <2>5. /\ messages' = messages \cup {<<t, "user">>}
        /\ memories' = memories /\ cache' = cache
    BY <1>9 DEF AddUserMessage
  <2>. QED
    BY <2>1, <2>4, <2>5 DEF TablesBacked, CacheNeverAhead
<1>10. CASE AddReply(t)
  <2>1. ctx' = ctx /\ committed' = committed \cup {<<t, "assistant">>}
    BY <1>10 DEF AddReply
  <2>2. Backed(ctx[t], {<<t, "assistant">>})
    BY <1>0, <1>1, <1>10 DEF AddReply, Ended, Owed
  <2>3. (Backed(ctx[t], Owed(t)))'
    BY <2>1, <2>2 DEF Backed
  <2>4. ContextsBacked'
    BY <1>2, <2>1, <2>3, OthersStayBacked
  <2>5. /\ messages' = messages \cup {<<t, "assistant">>}
        /\ memories' = memories /\ cache' = cache
    BY <1>10 DEF AddReply
  <2>. QED
    BY <2>1, <2>4, <2>5 DEF TablesBacked, CacheNeverAhead
<1>11. CASE Learn(t)
  <2>1. /\ ctx'[t].hist = ctx[t].hist
        /\ \A k \in Keys : ctx'[t].mem[k] = IF k \in plan[t].learn THEN t ELSE ctx[t].mem[k]
        /\ \A k \in Keys : memories'[k] = IF k \in plan[t].learn THEN t ELSE memories[k]
    BY <1>0, <1>11 DEF Learn, Contexts
  <2>2. /\ pc[t] \notin Ended /\ Owed(t) = {} /\ Owed(t)' = {}
        /\ committed \subseteq committed'
        /\ \A k \in plan[t].learn : <<t, k>> \in committed'
    BY <1>0, <1>11 DEF Learn, Ended, Owed, Goto
  <2>3. (Backed(ctx[t], Owed(t)))'
    BY <1>1, <2>1, <2>2 DEF Backed
  <2>4. ContextsBacked'
    BY <1>2, <2>2, <2>3, OthersStayBacked
  <2>5. messages' = messages /\ cache' = cache
    BY <1>11 DEF Learn
  <2>. QED
    BY <2>1, <2>2, <2>4, <2>5 DEF TablesBacked, CacheNeverAhead
<1>. QED
  BY <1>3, <1>4, <1>5, <1>6, <1>7, <1>8, <1>9, <1>10, <1>11 DEF Turn

LEMMA NextKeepsInv == Inv /\ [Next]_vars => Inv'
<1>. SUFFICES ASSUME Inv, [Next]_vars PROVE Inv'
  OBVIOUS
<1>0. TypeOK' /\ pc \in [Ops -> Labels]
  BY NextKeepsTypes DEF Inv, TypeOK
<1>. USE OpsAssumption DEF TablesBacked, ContextsBacked, CacheNeverAhead, Backed, Owed
<1>1. ASSUME NEW t \in Turns, Turn(t) PROVE Inv'
  BY <1>0, <1>1, TurnKeepsBacking DEF Inv
<1>2. ASSUME NEW c \in Clears, Clear(c) PROVE Inv'
  <2>1. /\ UNCHANGED <<ctx, committed>>
        /\ \A t \in Turns : pc'[t] = pc[t]
    BY <1>0, <1>2 DEF Clear, StartClear, ClearMessages, ClearMemories, DropCache, Goto, Ops
  <2>2. /\ messages' \subseteq messages
        /\ \A k \in Keys : memories'[k] \in {None, memories[k]}
        /\ cache' \in {None, cache}
    BY <1>2 DEF Clear, StartClear, ClearMessages, ClearMemories, DropCache, CtxDrop
  <2>. QED
    BY <1>0, <2>1, <2>2 DEF Inv
<1>3. ASSUME NEW o \in Ops, DbError(o) \/ Crash \/ Evict PROVE Inv'
  <2>1. /\ UNCHANGED <<ctx, committed, messages, memories>>
        /\ cache' \in {None, cache}
    BY <1>3 DEF DbError, Crash, Evict
  <2>2. \A t \in Turns : pc'[t] = pc[t] \/ pc'[t] \in Ended
    BY <1>0, <1>3 DEF DbError, Crash, Evict, Goto, Ops, Ended
  <2>. QED
    BY <1>0, <2>1, <2>2 DEF Inv
<1>4. CASE UNCHANGED vars
  BY <1>0, <1>4 DEF vars, Inv
<1>5. CASE Turns \cup Clears = {}
  BY <1>0, <1>5 DEF Inv, Next, Ops, Crash, Evict, vars
<1>. QED
  BY <1>1, <1>2, <1>3, <1>4, <1>5 DEF Next, Ops

\* The snapshot holds nothing that was not committed to PostgreSQL before, so
\* losing it never loses data (session_service.py 75-81, 402-423).
THEOREM SnapshotIsBacked == Spec => []CacheNeverAhead
<1>1. Init => Inv
  <2>. SUFFICES ASSUME Init PROVE TablesBacked /\ ContextsBacked /\ CacheNeverAhead
    BY InitTyped DEF Inv
  <2>. QED
    BY DEF Init, TablesBacked, ContextsBacked, CacheNeverAhead, Backed, Owed, Empty, Ops, Ended
<1>2. Inv => CacheNeverAhead
  BY DEF Inv
<1>. QED
  BY <1>1, <1>2, NextKeepsInv, PTL DEF Spec
-----------------------------------------------------------------------------
\* Why AnsweredIsCommitted is inductive: a turn that has passed a transaction
\* finds what it wrote there among the committed, and nothing is ever taken back.
Recorded(t) ==
    /\ pc[t] \in {"addReply", "learn", "saveLearned", "saveCtx", "done"} =>
           <<t, "user">> \in committed
    /\ pc[t] \in {"learn", "saveLearned", "saveCtx", "done"} =>
           <<t, "assistant">> \in committed
    /\ pc[t] \in {"saveLearned", "saveCtx", "done"} =>
           \A k \in plan[t].learn : <<t, k>> \in committed

RecordInv == TypeOK /\ \A t \in Turns : Recorded(t)

\* A step of a turn moves that turn alone, and takes nothing back.
LEMMA TurnFrame ==
    ASSUME TypeOK, NEW t \in Turns, Turn(t)
    PROVE  /\ \A o \in Ops \ {t} : pc'[o] = pc[o]
           /\ \A s \in Turns \ {t} : plan'[s] = plan[s] /\ ctx'[s] = ctx[s]
           /\ kind' = kind
           /\ committed \subseteq committed'
<1>0. /\ pc \in [Ops -> Labels] /\ ctx \in [Turns -> Contexts]
      /\ plan \in [Turns -> [learn : SUBSET Keys, forget : SUBSET Keys]]
  BY DEF TypeOK
<1>. USE DEF Turn, StartTurn, CtxLoad, ReadMemories, ReadMessages, FillCache, Generate, Forget,
       AddUserMessage, AddReply, Learn, SaveLearned, SaveContext, Goto
<1>1. \A o \in Ops \ {t} : pc'[o] = pc[o]
  BY <1>0
<1>2. \/ UNCHANGED ctx
      \/ \E c : ctx' = [ctx EXCEPT ![t] = c]
  OBVIOUS
<1>3. \/ UNCHANGED plan
      \/ \E c : plan' = [plan EXCEPT ![t] = c]
  OBVIOUS
<1>4. kind' = kind /\ committed \subseteq committed'
  OBVIOUS
<1>. QED
  BY <1>0, <1>1, <1>2, <1>3, <1>4

\* What a turn has recorded stays recorded while it does not move.
LEMMA RecordedStays ==
    ASSUME NEW t \in Turns, Recorded(t), pc'[t] = pc[t] \/ pc'[t] \in {"failed", "dead"},
           plan'[t] = plan[t], committed \subseteq committed'
    PROVE  Recorded(t)'
  BY DEF Recorded

LEMMA TurnRecords ==
    ASSUME TypeOK, NEW t \in Turns, Turn(t), Recorded(t)
    PROVE  Recorded(t)'
<1>. USE OpsAssumption
<1>0. /\ pc \in [Ops -> Labels] /\ t \in Ops
      /\ plan \in [Turns -> [learn : SUBSET Keys, forget : SUBSET Keys]]
  BY DEF TypeOK, Ops
<1>1. CASE \/ StartTurn(t) \/ CtxLoad(t) \/ ReadMemories(t) \/ ReadMessages(t) \/ FillCache(t)
           \/ Generate(t) \/ Forget(t)
  <2>1. pc'[t] \in {"lookup", "readMemories", "readMessages", "fill", "generate", "forget",
                    "addUser", "failed"}
    BY <1>0, <1>1 DEF StartTurn, CtxLoad, ReadMemories, ReadMessages, FillCache, Generate,
       Forget, Goto
  <2>. QED
    BY <2>1 DEF Recorded
<1>2. CASE AddUserMessage(t)
  BY <1>0, <1>2 DEF AddUserMessage, Goto, Recorded
<1>3. CASE AddReply(t)
  <2>1. /\ pc[t] = "addReply" /\ plan' = plan
        /\ committed' = committed \cup {<<t, "assistant">>}
        /\ pc'[t] = IF plan[t].learn = {} THEN "saveCtx" ELSE "learn"
    BY <1>0, <1>3 DEF AddReply, Goto
  <2>. QED
    BY <2>1 DEF Recorded
<1>4. CASE Learn(t)
  <2>1. /\ pc[t] = "learn" /\ plan' = plan /\ pc'[t] = "saveLearned"
        /\ committed' = committed \cup {<<t, k>> : k \in plan[t].learn}
    BY <1>0, <1>4 DEF Learn, Goto
  <2>. QED
    BY <2>1 DEF Recorded
<1>5. CASE SaveLearned(t) \/ SaveContext(t)
  BY <1>0, <1>5 DEF SaveLearned, SaveContext, Goto, Recorded
<1>. QED
  BY <1>1, <1>2, <1>3, <1>4, <1>5 DEF Turn

\* A clear, a failing statement, a restart and an eviction move no turn forward.
LEMMA OthersFrame ==
    ASSUME TypeOK,
           \/ \E c \in Clears : Clear(c)
           \/ \E o \in Ops : DbError(o)
           \/ Crash \/ Evict \/ UNCHANGED vars
    PROVE  /\ UNCHANGED <<ctx, plan, committed>>
           /\ \A t \in Turns : pc'[t] = pc[t] \/ pc'[t] \in {"failed", "dead"}
<1>0. pc \in [Ops -> Labels] /\ Turns \subseteq Ops /\ Turns \cap Clears = {}
  BY OpsAssumption DEF TypeOK, Ops
<1>1. ASSUME NEW c \in Clears, Clear(c) PROVE \A t \in Turns : pc'[t] = pc[t]
  BY <1>0, <1>1 DEF Clear, StartClear, ClearMessages, ClearMemories, DropCache, Goto
<1>2. ASSUME NEW o \in Ops, DbError(o)
      PROVE  \A t \in Turns : pc'[t] = pc[t] \/ pc'[t] \in {"failed", "dead"}
  BY <1>0, <1>2 DEF DbError, Goto
<1>3. CASE Crash \/ Evict \/ UNCHANGED vars
  BY <1>0, <1>3 DEF Crash, Evict, vars
<1>4. UNCHANGED <<ctx, plan, committed>>
  BY DEF Clear, StartClear, ClearMessages, ClearMemories, DropCache, DbError, Crash, Evict, vars
<1>. QED
  BY <1>1, <1>2, <1>3, <1>4

\* Whatever fails, a turn that ends answered has committed both its messages and
\* everything it was told to learn (session_service.py 402-421).
THEOREM AnswersAreCommitted == Spec => []AnsweredIsCommitted
<1>1. Init => RecordInv
  <2>. SUFFICES ASSUME Init PROVE \A t \in Turns : Recorded(t)
    BY InitTyped DEF RecordInv
  <2>. QED
    BY DEF Init, Recorded, Ops
<1>2. RecordInv /\ [Next]_vars => RecordInv'
  <2>. SUFFICES ASSUME RecordInv, [Next]_vars, NEW s \in Turns PROVE Recorded(s)'
    BY NextKeepsTypes DEF RecordInv
  <2>0. TypeOK /\ Recorded(s)
    BY DEF RecordInv
  <2>1. ASSUME NEW t \in Turns, Turn(t) PROVE Recorded(s)'
    <3>1. CASE s = t
      BY <2>0, <2>1, <3>1, TurnRecords
    <3>2. CASE s # t
      <4>1. pc'[s] = pc[s] /\ plan'[s] = plan[s] /\ committed \subseteq committed'
        BY <2>0, <2>1, <3>2, TurnFrame DEF Ops
      <4>. QED
        BY <2>0, <4>1, RecordedStays
    <3>. QED
      BY <3>1, <3>2
  <2>2. CASE \/ \E c \in Clears : Clear(c)
             \/ \E o \in Ops : DbError(o)
             \/ Crash \/ Evict \/ UNCHANGED vars
    BY <2>0, <2>2, OthersFrame, RecordedStays
  <2>. QED
    BY <2>1, <2>2 DEF Next
<1>3. RecordInv => AnsweredIsCommitted
  BY DEF RecordInv, Recorded, AnsweredIsCommitted
<1>. QED
  BY <1>1, <1>2, <1>3, PTL DEF Spec

-----------------------------------------------------------------------------
\* c is what a rebuild would read.
Matches(c) == c.hist = messages /\ c.mem = memories
Fresh == cache = None \/ Matches(cache)

\* What an operation in flight can rely on as long as nothing tainted the
\* snapshot: until it changes the tables the snapshot is fresh, and the context
\* it has rebuilt or loaded follows the tables.
Holds(o) ==
    /\ ~Unsettled(o) => Fresh
    /\ o \in Turns =>
        /\ pc[o] = "readMessages" => ctx[o].mem = memories
        /\ pc[o] \in {"fill", "generate", "forget", "addUser", "learn", "saveLearned", "saveCtx"}
              => Matches(ctx[o])
        /\ pc[o] = "addReply" =>
              ctx[o].hist = messages \cup {<<o, "assistant">>} /\ ctx[o].mem = memories
    /\ o \in Clears =>
        /\ pc[o] = "clearMessages" /\ kind[o] # "chat" => cache = None
        /\ pc[o] = "clearMemories" /\ kind[o] # "memories" => cache = None

\* Why CacheIsTruth and PromptsSeeTruth are inductive: without a taint at most one
\* operation is in flight, and the snapshot is what that operation relies on.
Truth ==
    /\ \A p, q \in Ops : InFlight(p) /\ InFlight(q) => p = q
    /\ (\A o \in Ops : ~InFlight(o)) => Fresh
    /\ \A o \in Ops : InFlight(o) => Holds(o)
TruthInv == TypeOK /\ (~tainted => Truth)

LEMMA MatchesIsDatabase ==
    ASSUME NEW c \in Contexts
    PROVE  Matches(c) <=> c = Database
  BY DEF Contexts, Matches, Database

\* With one operation that is or was in flight, Truth is about that one only.
LEMMA TruthOfOne ==
    ASSUME NEW o \in Ops, Sole(o), \A p \in Ops \ {o} : pc'[p] = pc[p],
           InFlight(o)' => Holds(o)', ~InFlight(o)' => Fresh'
    PROVE  Truth'
<1>1. \A p \in Ops \ {o} : ~InFlight(p)'
  BY DEF Sole, InFlight
<1>2. (\A p, q \in Ops : InFlight(p) /\ InFlight(q) => p = q)'
  BY <1>1
<1>3. ((\A p \in Ops : ~InFlight(p)) => Fresh)'
  OBVIOUS
<1>4. (\A p \in Ops : InFlight(p) => Holds(p))'
  BY <1>1
<1>. QED
  BY <1>2, <1>3, <1>4 DEF Truth

LEMMA TurnKeepsTruth ==
    ASSUME TruthInv, NEW t \in Turns, Turn(t), ~tainted'
    PROVE  Truth'
<1>. USE OpsAssumption
<1>0. /\ pc \in [Ops -> Labels] /\ t \in Ops /\ t \notin Clears
      /\ ctx \in [Turns -> Contexts] /\ ctx[t] \in Contexts
      /\ plan \in [Turns -> [learn : SUBSET Keys, forget : SUBSET Keys]]
      /\ tainted \in BOOLEAN
  BY DEF TruthInv, TypeOK, Ops
<1>1. ~tainted /\ InFlight(t) => Sole(t) /\ Holds(t)
  BY <1>0 DEF TruthInv, Truth, Sole
<1>2. \A o \in Ops \ {t} : pc'[o] = pc[o]
  BY TurnFrame DEF TruthInv
<1>3. Sole(t) /\ (InFlight(t)' => Holds(t)') /\ (~InFlight(t)' => Fresh') => Truth'
  BY <1>0, <1>2, TruthOfOne
<1>4. CASE StartTurn(t)
  <2>1. ~tainted /\ Sole(t) /\ ~InFlight(t)
    BY <1>4 DEF StartTurn, InFlight
  <2>2. Fresh
    BY <2>1 DEF TruthInv, Truth, Sole
  <2>3. pc'[t] = "lookup" /\ UNCHANGED <<messages, memories, cache>>
    BY <1>0, <1>4 DEF StartTurn, Goto
  <2>4. Holds(t)' /\ InFlight(t)'
    BY <1>0, <2>2, <2>3 DEF Holds, Fresh, Matches, InFlight, Ended
  <2>. QED
    BY <1>3, <2>1, <2>4
<1>5. CASE CtxLoad(t)
  <2>0. InFlight(t) /\ ~Unsettled(t)
    BY <1>0, <1>5 DEF CtxLoad, InFlight, Ended, Unsettled
  <2>1. CASE tainted
    <3>1. /\ Sole(t) /\ cache = None /\ cache' = None
          /\ pc'[t] = "readMemories"
      BY <1>0, <1>5, <2>1 DEF CtxLoad, Goto
    <3>2. Holds(t)' /\ InFlight(t)'
      BY <1>0, <3>1 DEF Holds, Fresh, InFlight, Ended
    <3>. QED
      BY <1>3, <3>1, <3>2
  <2>2. CASE ~tainted
    <3>1. Sole(t) /\ Fresh
      BY <1>1, <2>0, <2>2 DEF Holds
    <3>2. UNCHANGED <<messages, memories, cache>>
      BY <1>5 DEF CtxLoad
    <3>3. Fresh'
      BY <3>1, <3>2 DEF Fresh, Matches
    <3>4. \/ pc'[t] = "generate" /\ ctx'[t] = cache /\ cache # None
          \/ pc'[t] = "readMemories"
      BY <1>0, <1>5 DEF CtxLoad, Goto
    <3>5. Holds(t)' /\ InFlight(t)'
      BY <1>0, <3>1, <3>2, <3>3, <3>4 DEF Holds, Fresh, Matches, InFlight, Ended
    <3>. QED
      BY <1>3, <3>1, <3>5
  <2>. QED
    BY <2>1, <2>2
<1>6. ASSUME ReadMemories(t) \/ ReadMessages(t) \/ FillCache(t) \/ Generate(t) \/ Forget(t)
             \/ AddUserMessage(t) \/ AddReply(t) \/ Learn(t) \/ SaveLearned(t) \/ SaveContext(t)
      PROVE  Truth'
  <2>0. ~tainted
    BY <1>6 DEF ReadMemories, ReadMessages, FillCache, Generate, Forget, AddUserMessage,
       AddReply, Learn, SaveLearned, SaveContext, CtxSave
  <2>1. InFlight(t)
    BY <1>6 DEF InFlight, Ended, ReadMemories, ReadMessages, FillCache, Generate, Forget,
       AddUserMessage, AddReply, Learn, SaveLearned, SaveContext
  <2>2. Sole(t) /\ Holds(t)
    BY <1>1, <2>0, <2>1
  <2>3. CASE ReadMemories(t)
    <3>1. /\ pc[t] = "readMemories" /\ pc'[t] = "readMessages" /\ ctx'[t].mem = memories
          /\ UNCHANGED <<messages, memories, cache>>
      BY <1>0, <2>3 DEF ReadMemories, Goto, Contexts
    <3>2. Fresh
      BY <2>2, <3>1 DEF Holds, Unsettled
    <3>3. Holds(t)' /\ InFlight(t)'
      BY <1>0, <3>1, <3>2 DEF Holds, Fresh, Matches, InFlight, Ended
    <3>. QED
      BY <1>3, <2>2, <3>3
  <2>4. CASE ReadMessages(t)
    <3>1. /\ pc[t] = "readMessages" /\ pc'[t] = "fill"
          /\ ctx'[t].hist = messages /\ ctx'[t].mem = ctx[t].mem
          /\ UNCHANGED <<messages, memories, cache>>
      BY <1>0, <2>4 DEF ReadMessages, Goto, Contexts
    <3>2. Fresh /\ ctx[t].mem = memories
      BY <2>2, <3>1 DEF Holds, Unsettled
    <3>3. Holds(t)' /\ InFlight(t)'
      BY <1>0, <3>1, <3>2 DEF Holds, Fresh, Matches, InFlight, Ended
    <3>. QED
      BY <1>3, <2>2, <3>3
  <2>5. CASE FillCache(t)
    <3>1. /\ pc[t] = "fill" /\ pc'[t] = "generate" /\ cache' \in {cache, ctx[t]}
          /\ UNCHANGED <<messages, memories, ctx>>
      BY <1>0, <2>5 DEF FillCache, CtxSave, Goto
    <3>2. Fresh /\ Matches(ctx[t])
      BY <2>2, <3>1 DEF Holds, Unsettled
    <3>3. Holds(t)' /\ InFlight(t)'
      BY <1>0, <3>1, <3>2 DEF Holds, Fresh, Matches, InFlight, Ended
    <3>. QED
      BY <1>3, <2>2, <3>3
  <2>6. CASE Generate(t)
    <3>1. /\ pc[t] = "generate" /\ UNCHANGED <<messages, memories, cache, ctx>>
          /\ \/ pc'[t] = "failed"
             \/ pc'[t] = "forget"
             \/ pc'[t] = "addUser" /\ plan'[t].forget = {}
      BY <1>0, <2>6 DEF Generate, Goto
    <3>2. Fresh /\ Matches(ctx[t])
      BY <2>2, <3>1 DEF Holds, Unsettled
    <3>3. Fresh' /\ Matches(ctx[t])'
      BY <3>1, <3>2 DEF Fresh, Matches
    <3>4. Holds(t)'
      BY <1>0, <3>1, <3>3 DEF Holds, Matches
    <3>. QED
      BY <1>3, <2>2, <3>3, <3>4
  <2>7. CASE Forget(t)
    <3>. DEFINE without(m) == [k \in Keys |-> IF k \in plan[t].forget THEN None ELSE m[k]]
    <3>1. /\ pc[t] = "forget" /\ pc'[t] = "addUser"
          /\ memories' = without(memories)
          /\ ctx'[t].hist = ctx[t].hist /\ ctx'[t].mem = without(ctx[t].mem)
          /\ UNCHANGED <<messages, cache, plan>>
      BY <1>0, <2>7 DEF Forget, Goto, Contexts
    <3>. HIDE DEF without
    <3>2. Matches(ctx[t])
      BY <2>2, <3>1 DEF Holds
    <3>3. Matches(ctx[t])'
      BY <3>1, <3>2 DEF Matches
    <3>4. plan[t].forget = {} => memories' = memories
      <4>1. memories \in [Keys -> Turns \cup {None}]
        BY DEF TruthInv, TypeOK
      <4>. QED
        BY <3>1, <4>1 DEF without
    <3>5. Fresh
      BY <2>2, <3>1 DEF Holds, Unsettled
    <3>6. plan[t].forget = {} => Fresh'
      BY <3>1, <3>4, <3>5 DEF Fresh, Matches
    <3>7. Holds(t)' /\ InFlight(t)'
      BY <1>0, <3>1, <3>3, <3>6 DEF Holds, InFlight, Ended, Unsettled
    <3>. QED
      BY <1>3, <2>2, <3>7
  <2>8. CASE AddUserMessage(t)
    <3>1. /\ pc[t] = "addUser" /\ pc'[t] = "addReply"
          /\ ctx'[t].hist = ctx[t].hist \cup {<<t, "user">>, <<t, "assistant">>}
          /\ ctx'[t].mem = ctx[t].mem
          /\ messages' = messages \cup {<<t, "user">>} /\ memories' = memories
      BY <1>0, <2>8 DEF AddUserMessage, Goto, Contexts
    <3>2. Matches(ctx[t])
      BY <2>2, <3>1 DEF Holds
    <3>3. /\ ctx'[t].hist = messages' \cup {<<t, "assistant">>}
          /\ ctx'[t].mem = memories'
      BY <3>1, <3>2 DEF Matches
    <3>4. Holds(t)' /\ InFlight(t)'
      BY <1>0, <3>1, <3>3 DEF Holds, InFlight, Ended, Unsettled
    <3>. QED
      BY <1>3, <2>2, <3>4
  <2>9. CASE AddReply(t)
    <3>1. /\ pc[t] = "addReply" /\ pc'[t] \in {"learn", "saveCtx"} /\ UNCHANGED <<ctx, memories>>
          /\ messages' = messages \cup {<<t, "assistant">>}
      BY <1>0, <2>9 DEF AddReply, Goto
    <3>2. Matches(ctx[t])'
      BY <2>2, <3>1 DEF Holds, Matches
    <3>3. Holds(t)' /\ InFlight(t)'
      BY <1>0, <3>1, <3>2 DEF Holds, InFlight, Ended, Unsettled
    <3>. QED
      BY <1>3, <2>2, <3>3
  <2>10. CASE Learn(t)
    <3>. DEFINE with(m) == [k \in Keys |-> IF k \in plan[t].learn THEN t ELSE m[k]]
    <3>1. /\ pc[t] = "learn" /\ pc'[t] = "saveLearned"
          /\ memories' = with(memories)
          /\ ctx'[t].hist = ctx[t].hist /\ ctx'[t].mem = with(ctx[t].mem)
          /\ messages' = messages
      BY <1>0, <2>10 DEF Learn, Goto, Contexts
    <3>. HIDE DEF with
    <3>2. Matches(ctx[t])'
      BY <2>2, <3>1 DEF Holds, Matches
    <3>3. Holds(t)' /\ InFlight(t)'
      BY <1>0, <3>1, <3>2 DEF Holds, InFlight, Ended, Unsettled
    <3>. QED
      BY <1>3, <2>2, <3>3
  <2>11. CASE SaveLearned(t) \/ SaveContext(t)
    <3>1. /\ pc[t] \in {"saveLearned", "saveCtx"} /\ pc'[t] \in {"saveCtx", "done"}
          /\ pc[t] = "saveLearned" => pc'[t] = "saveCtx"
          /\ cache' = ctx[t] \/ cache' = None
          /\ UNCHANGED <<messages, memories, ctx>>
      BY <1>0, <2>11 DEF SaveLearned, SaveContext, CtxSave, Goto
    <3>2. Matches(ctx[t])
      BY <2>2, <3>1 DEF Holds
    <3>3. Matches(ctx[t])' /\ Fresh'
      BY <3>1, <3>2 DEF Fresh, Matches
    <3>4. Holds(t)'
      BY <1>0, <3>1, <3>3 DEF Holds
    <3>. QED
      BY <1>3, <2>2, <3>3, <3>4
  <2>. QED
    BY <1>6, <2>3, <2>4, <2>5, <2>6, <2>7, <2>8, <2>9, <2>10, <2>11
<1>. QED
  BY <1>4, <1>5, <1>6 DEF Turn

LEMMA ClearKeepsTruth ==
    ASSUME TruthInv, NEW c \in Clears, Clear(c), ~tainted'
    PROVE  Truth'
<1>. USE OpsAssumption
<1>0. /\ pc \in [Ops -> Labels] /\ c \in Ops /\ c \notin Turns
      /\ kind \in [Clears -> {"chat", "memories", "all"}] /\ tainted \in BOOLEAN
  BY DEF TruthInv, TypeOK, Ops
<1>1. ~tainted /\ InFlight(c) => Sole(c) /\ Holds(c)
  BY <1>0 DEF TruthInv, Truth, Sole
<1>2. \A o \in Ops \ {c} : pc'[o] = pc[o]
  BY <1>0 DEF Clear, StartClear, ClearMessages, ClearMemories, DropCache, Goto
<1>3. Sole(c) /\ (InFlight(c)' => Holds(c)') /\ (~InFlight(c)' => Fresh') => Truth'
  BY <1>0, <1>2, TruthOfOne
<1>4. CASE StartClear(c)
  <2>1. ~tainted /\ Sole(c) /\ ~InFlight(c)
    BY <1>4 DEF StartClear, InFlight
  <2>2. Fresh
    BY <2>1 DEF TruthInv, Truth, Sole
  <2>3. /\ UNCHANGED <<messages, memories, cache>>
        /\ \/ pc'[c] = "clearMessages" /\ kind'[c] = "chat"
           \/ pc'[c] = "clearMemories" /\ kind'[c] = "memories"
           \/ pc'[c] = "drop" /\ kind'[c] = "all"
    BY <1>0, <1>4 DEF StartClear, Goto
  <2>4. Holds(c)' /\ InFlight(c)'
    BY <1>0, <2>2, <2>3 DEF Holds, Fresh, Matches, InFlight, Ended
  <2>. QED
    BY <1>3, <2>1, <2>4
<1>5. CASE ClearMessages(c) \/ ClearMemories(c)
  <2>1. ~tainted /\ InFlight(c)
    BY <1>5 DEF ClearMessages, ClearMemories, InFlight, Ended
  <2>2. Sole(c) /\ Holds(c)
    BY <1>1, <2>1
  <2>3. /\ cache' = cache /\ kind' = kind
        /\ \/ /\ pc[c] = "clearMessages"
              /\ pc'[c] = IF kind[c] = "chat" THEN "drop" ELSE "done"
           \/ /\ pc[c] = "clearMemories"
              /\ pc'[c] = IF kind[c] = "memories" THEN "drop" ELSE "clearMessages"
    BY <1>0, <1>5 DEF ClearMessages, ClearMemories, Goto
  <2>4. pc'[c] # "drop" => cache' = None
    BY <1>0, <2>2, <2>3 DEF Holds
  <2>5. pc'[c] = "drop" => kind'[c] # "all"
    BY <2>3
  <2>6. Holds(c)' /\ (~InFlight(c)' => Fresh')
    BY <1>0, <2>3, <2>4, <2>5 DEF Holds, Unsettled, Fresh, InFlight, Ended
  <2>. QED
    BY <1>3, <2>2, <2>6
<1>6. CASE DropCache(c)
  <2>0. InFlight(c)
    BY <1>6 DEF DropCache, InFlight, Ended
  <2>1. Sole(c)
    BY <1>0, <1>1, <1>6, <2>0 DEF DropCache, CtxDrop, Sole
  <2>2. cache' = None
    BY <1>0, <1>6 DEF DropCache, CtxDrop
  <2>3. kind' = kind /\ pc'[c] = IF kind[c] = "all" THEN "clearMemories" ELSE "done"
    BY <1>0, <1>6 DEF DropCache, Goto
  <2>4. Holds(c)' /\ Fresh'
    BY <1>0, <2>2, <2>3 DEF Holds, Fresh
  <2>. QED
    BY <1>3, <2>1, <2>4
<1>. QED
  BY <1>4, <1>5, <1>6 DEF Clear

\* An operation that fails or dies leaves nobody behind that relies on it; it
\* taints the snapshot unless that is fresh.
LEMMA FaultKeepsTruth ==
    ASSUME TruthInv, ~tainted', (\E o \in Ops : DbError(o)) \/ Crash \/ Evict
    PROVE  Truth'
<1>0. pc \in [Ops -> Labels] /\ tainted \in BOOLEAN
  BY DEF TruthInv, TypeOK
<1>1. ASSUME NEW o \in Ops, DbError(o) PROVE Truth'
  <2>1. /\ ~tainted /\ InFlight(o)
        /\ Unsettled(o) => cache = None
        /\ UNCHANGED <<messages, memories, cache>>
    BY <1>0, <1>1 DEF DbError, InFlight, Ended
  <2>2. Truth /\ Sole(o) /\ Holds(o)
    BY <2>1 DEF TruthInv, Truth, Sole
  <2>3. Fresh'
    BY <2>1, <2>2 DEF Holds, Fresh, Matches
  <2>4. pc'[o] = "failed" /\ \A p \in Ops \ {o} : pc'[p] = pc[p]
    BY <1>0, <1>1 DEF DbError, Goto
  <2>5. ~InFlight(o)'
    BY <2>4 DEF InFlight, Ended
  <2>. QED
    BY <2>2, <2>3, <2>4, <2>5, TruthOfOne
<1>2. CASE Crash
  <2>1. /\ ~tainted
        /\ cache = None \/ \A o \in Ops : ~Unsettled(o)
        /\ UNCHANGED <<messages, memories, cache>>
    BY <1>0, <1>2 DEF Crash
  <2>2. Truth
    BY <2>1 DEF TruthInv
  <2>3. Fresh
    BY <2>1, <2>2 DEF Truth, Holds, Fresh
  <2>4. \A o \in Ops : ~InFlight(o)'
    BY <1>0, <1>2 DEF Crash, InFlight, Ended
  <2>. QED
    BY <2>1, <2>3, <2>4 DEF Truth, Fresh, Matches
<1>3. CASE Evict
  <2>1. cache' = None /\ UNCHANGED <<messages, memories, pc, ctx, kind, plan>>
    BY <1>3 DEF Evict
  <2>2. CASE tainted
    <3>1. \A o \in Ops : ~InFlight(o)'
      BY <1>3, <2>1, <2>2 DEF Evict, InFlight
    <3>. QED
      BY <2>1, <3>1 DEF Truth, Fresh
  <2>3. CASE ~tainted
    <3>1. Truth
      BY <2>3 DEF TruthInv
    <3>2. \A o \in Ops : InFlight(o)' <=> InFlight(o)
      BY <2>1 DEF InFlight
    <3>3. ASSUME NEW o \in Ops, InFlight(o) PROVE Holds(o)'
      <4>1. Holds(o)
        BY <3>1, <3>3 DEF Truth
      <4>. QED
        BY <2>1, <4>1 DEF Holds, Fresh, Matches, Unsettled
    <3>. QED
      BY <2>1, <3>1, <3>2, <3>3 DEF Truth, Fresh
  <2>. QED
    BY <1>0, <2>2, <2>3
<1>. QED
  BY <1>1, <1>2, <1>3

LEMMA NextKeepsTruth == TruthInv /\ [Next]_vars => TruthInv'
<1>. SUFFICES ASSUME TruthInv, [Next]_vars PROVE TruthInv'
  OBVIOUS
<1>1. TypeOK'
  BY NextKeepsTypes DEF TruthInv
<1>2. ASSUME ~tainted', Next PROVE Truth'
  BY <1>2, TurnKeepsTruth, ClearKeepsTruth, FaultKeepsTruth DEF Next
<1>3. ASSUME ~tainted', UNCHANGED vars PROVE Truth'
  <2>1. Truth
    BY <1>3 DEF vars, TruthInv
  <2>. QED
    BY <1>3, <2>1 DEF vars, Truth, Holds, Fresh, Matches, InFlight, Unsettled
<1>. QED
  BY <1>1, <1>2, <1>3 DEF TruthInv

LEMMA InitTrue == Init => TruthInv
<1>. SUFFICES ASSUME Init PROVE Truth
  BY InitTyped DEF TruthInv
<1>. QED
  BY DEF Init, Truth, InFlight, Fresh

\* With nothing in flight and nothing that taints it, the snapshot is what a
\* rebuild would read, for any number of turns and clears, wherever a statement
\* fails or the process restarts (session_service.py 75-81).
THEOREM SnapshotIsTruth == Spec => []CacheIsTruth
<1>1. TruthInv => CacheIsTruth
  BY MatchesIsDatabase DEF TruthInv, Truth, Fresh, TypeOK, CacheIsTruth
<1>. QED
  BY <1>1, InitTrue, NextKeepsTruth, PTL DEF Spec

\* The context a prompt is built from is what the tables hold, whether it was
\* loaded from the snapshot or rebuilt (session_service.py 223, 288-305).
THEOREM PromptsAreTrue == Spec => []PromptsSeeTruth
<1>1. TruthInv => PromptsSeeTruth
  <2>. SUFFICES ASSUME TruthInv, NEW t \in Turns, pc[t] = "generate", ~tainted
                PROVE  ctx[t] = Database
    BY DEF PromptsSeeTruth
  <2>1. InFlight(t) /\ t \in Ops
    BY DEF InFlight, Ended, Ops
  <2>2. Matches(ctx[t])
    BY <2>1 DEF TruthInv, Truth, Holds
  <2>. QED
    BY <2>2, MatchesIsDatabase DEF TruthInv, TypeOK
<1>. QED
  BY <1>1, InitTrue, NextKeepsTruth, PTL DEF Spec
=============================================================================
