---------------------------- MODULE RateLimiter ----------------------------
(***************************************************************************)
(* app/core/rate_limiter.py: fixed-window counters in Redis, shared by all *)
(* processes, and the table of each process that replaces them while Redis *)
(* does not answer.  Checks run in threads, so the steps of two of them    *)
(* interleave; only the Lua script of Redis is atomic.                     *)
(*                                                                         *)
(* Time is a clock of Window ticks per window.  A key of Redis or of a     *)
(* table is <<identifier, window>>, for one scope.                         *)
(***************************************************************************)
EXTENDS Integers, FiniteSets

CONSTANTS
    Processes, Threads,
    Home,       \* the process of each thread
    Ids,        \* identifiers: client addresses or users
    Limit,      \* 0 switches the limiter off
    Window,     \* window_seconds, in ticks
    Delay,      \* ticks a command may be on its way to Redis (socket_timeout)
    LocalCap,   \* _LOCAL_BUCKET_CAP
    Spare,      \* _LOCAL_BUCKET_CAP // 10
    MaxChecks,  \* bound: checks begun
    MaxClock    \* bound: ticks

ASSUME HomeAssumption == Home \in [Threads -> Processes]
ASSUME IdsAssumption == IsFiniteSet(Ids)
ASSUME NumbersAssumption ==
    /\ Limit \in Nat /\ Delay \in Nat /\ LocalCap \in Nat /\ Spare \in Nat
    /\ Window \in Nat \ {0} /\ MaxChecks \in Nat /\ MaxClock \in Nat

Keys == Ids \X (0..MaxClock \div Window)

VARIABLES
    clock,
    redisUp,
    counter, \* Redis: count of each key (0: no key) and the tick it expires at
    table,   \* _local_buckets of each process: [start, count] (count 0: no entry)
    check,   \* the check each thread is making
    begun,   \* number of checks begun
    granted, \* history: checks Redis let pass in the window of their key,
             \* since it last lost its data
    tally    \* history: checks a table has judged, and how many it let pass

vars == <<clock, redisUp, counter, table, check, begun, granted, tally>>

NoKey == [count |-> 0, expires |-> 0]
NoEntry == [start |-> 0, count |-> 0]
NoCheck == [at |-> "idle", key |-> <<>>, entered |-> 0, entry |-> NoEntry, out |-> "none"]
CurrentWindow == clock \div Window

Init ==
    /\ clock = 0
    /\ redisUp = TRUE
    /\ counter = [k \in Keys |-> NoKey]
    /\ table = [p \in Processes |-> [k \in Keys |-> NoEntry]]
    /\ check = [t \in Threads |-> NoCheck]
    /\ begun = 0
    /\ granted = [k \in Keys |-> 0]
    /\ tally = [p \in Processes |-> [k \in Keys |-> [checks |-> 0, passed |-> 0]]]

\* Mutant: the comparison is off by one.
Passes_OffByOne(count) == count <= Limit + 1
Passes(count) == count <= Limit
Verdict(count) == IF Passes(count) THEN "allowed" ELSE "refused"
Ends(t, out) == check' = [check EXCEPT ![t] = [NoCheck EXCEPT !.out = out]]

\* check_rate_limit: the key is computed before the call.
Enter(t) ==
    /\ check[t].at = "idle" /\ begun < MaxChecks
    /\ begun' = begun + 1
    /\ IF Limit = 0
       THEN Ends(t, "allowed")
       ELSE \E i \in Ids :
               check' = [check EXCEPT ![t] = [at |-> "eval", key |-> <<i, CurrentWindow>>,
                                              entered |-> clock, entry |-> NoEntry, out |-> "none"]]
    /\ UNCHANGED <<clock, redisUp, counter, table, granted, tally>>

(***************************************************************************)
(* The script: INCR, and EXPIRE by the first INCR.  Its reply may be lost, *)
(* which the client reports as any other RedisError.                       *)
(***************************************************************************)
\* Mutant: the TTL is one tick short.
Counted_ShortTtl(k) ==
    [count |-> counter[k].count + 1,
     expires |-> IF counter[k].count = 0 THEN clock + Window - 1 ELSE counter[k].expires]

\* Mutant: no EXPIRE.
Counted_NoTtl(k) == [count |-> counter[k].count + 1, expires |-> 0]

Counted(k) ==
    [count |-> counter[k].count + 1,
     expires |-> IF counter[k].count = 0 THEN clock + Window ELSE counter[k].expires]

Arrives(t) == redisUp /\ clock <= check[t].entered + Delay

Eval(t) ==
    LET k == check[t].key
        next == Counted(k)
    IN  /\ check[t].at = "eval" /\ Arrives(t)
        /\ counter' = [counter EXCEPT ![k] = next]
        /\ \/ /\ Ends(t, Verdict(next.count))
              /\ granted' = IF k[2] = CurrentWindow /\ Passes(next.count)
                            THEN [granted EXCEPT ![k] = @ + 1] ELSE granted
           \/ check' = [check EXCEPT ![t].at = "read"] /\ UNCHANGED granted
        /\ UNCHANGED <<clock, redisUp, table, begun, tally>>

\* RedisError without an effect: refused, lost on the way, or too late.
EvalFails(t) ==
    /\ check[t].at = "eval"
    /\ check' = [check EXCEPT ![t].at = "read"]
    /\ UNCHANGED <<clock, redisUp, counter, table, begun, granted, tally>>

(***************************************************************************)
(* _local_check: reading the entry, writing it back and pruning are steps  *)
(* of a thread that may be preempted between them.  It takes the time      *)
(* anew: the window of the entry may be later than that of the key.        *)
(***************************************************************************)
LocalRead(t) ==
    LET old == table[Home[t]][check[t].key]
    IN  /\ check[t].at = "read"
        /\ check' = [check EXCEPT ![t].at = "write",
                         ![t].entry = [start |-> CurrentWindow,
                                       count |-> IF old.start = CurrentWindow
                                                 THEN old.count + 1 ELSE 1]]
        /\ UNCHANGED <<clock, redisUp, counter, table, begun, granted, tally>>

Present(p) == {k \in Keys : table[p][k].count > 0}
Judged(p, k, count) ==
    tally' = [tally EXCEPT ![p][k].checks = @ + 1,
                           ![p][k].passed = @ + IF Passes(count) THEN 1 ELSE 0]

LocalWrite(t) ==
    LET p == Home[t]
        mine == check[t].entry
    IN  /\ check[t].at = "write"
        /\ table' = [table EXCEPT ![p][check[t].key] = mine]
        /\ Judged(p, check[t].key, mine.count)
        /\ IF Cardinality(Present(p)') > LocalCap
           THEN check' = [check EXCEPT ![t].at = "prune"]
           ELSE Ends(t, Verdict(mine.count))
        /\ UNCHANGED <<clock, redisUp, counter, begun, granted>>

\* Mutant: the slice keeps what it should drop.
Sliced_Kept(n) == IF n < Spare THEN n ELSE Spare

\* How many of n entries the slice [: n - Spare] holds: Python counts a
\* negative end from the back.
Sliced(n) == IF n >= Spare THEN n - Spare ELSE IF 2 * n > Spare THEN 2 * n - Spare ELSE 0

\* Entries of another window than this thread's are stale to it; the oldest go.
Prune(t) ==
    LET p == Home[t]
        stale == {k \in Present(p) : table[p][k].start # check[t].entry.start}
    IN  /\ check[t].at = "prune"
        /\ \E gone \in SUBSET stale :
              /\ Cardinality(gone) = Sliced(Cardinality(stale))
              /\ table' = [table EXCEPT ![p] = [k \in Keys |-> IF k \in gone THEN NoEntry ELSE @[k]]]
        /\ Ends(t, Verdict(check[t].entry.count))
        /\ UNCHANGED <<clock, redisUp, counter, begun, granted, tally>>

\* Another thread adds an entry while the table is iterated: RuntimeError.
PruneRaises(t) ==
    /\ check[t].at = "prune"
    /\ \E u \in Threads \ {t} :
          Home[u] = Home[t] /\ check[u].at = "write" /\ check[u].key \notin Present(Home[t])
    /\ Ends(t, "raised")
    /\ UNCHANGED <<clock, redisUp, counter, table, begun, granted, tally>>

(***************************************************************************)
(* The world: time, and Redis going away, with or without its data.        *)
(***************************************************************************)
Tick ==
    /\ clock < MaxClock
    /\ clock' = clock + 1
    /\ counter' = [k \in Keys |-> IF counter[k].expires = clock' THEN NoKey ELSE counter[k]]
    /\ UNCHANGED <<redisUp, table, check, begun, granted, tally>>

RedisFails == redisUp /\ redisUp' = FALSE
              /\ UNCHANGED <<clock, counter, table, check, begun, granted, tally>>

RedisReturns ==
    /\ ~redisUp /\ redisUp' = TRUE
    /\ \/ UNCHANGED <<counter, granted>>
       \/ counter' = [k \in Keys |-> NoKey] /\ granted' = [k \in Keys |-> 0]
    /\ UNCHANGED <<clock, table, check, begun, tally>>

Next ==
    \/ \E t \in Threads :
          \/ Enter(t) \/ Eval(t) \/ EvalFails(t)
          \/ LocalRead(t) \/ LocalWrite(t) \/ Prune(t) \/ PruneRaises(t)
    \/ Tick \/ RedisFails \/ RedisReturns

Spec == Init /\ [][Next]_vars

-----------------------------------------------------------------------------
Counter == [count : Nat, expires : Nat]
Entry == [start : Nat, count : Nat]
Tally == [checks : Nat, passed : Nat]
Check == [at : {"idle", "eval", "read", "write", "prune"}, key : Keys \cup {<<>>},
          entered : Nat, entry : Entry, out : {"none", "allowed", "refused", "raised"}]

TypeOK ==
    /\ clock \in 0..MaxClock /\ begun \in Nat
    /\ redisUp \in BOOLEAN
    /\ counter \in [Keys -> Counter]
    /\ table \in [Processes -> [Keys -> Entry]]
    /\ check \in [Threads -> Check]
    /\ granted \in [Keys -> Nat]
    /\ tally \in [Processes -> [Keys -> Tally]]

\* However many processes and threads share it, Redis lets no more than Limit
\* checks of an identifier pass in a window: lost replies, expiry and
\* outages give nothing back while it keeps its data (rate_limiter.py 4-6).  A
\* check that reaches Redis after its window is over is not counted here: by
\* then its counter may have expired and start anew.
SharedLimit == \A k \in Keys : granted[k] <= Limit

\* Every counter is on its way out, at most one window after the last command
\* of its own window can arrive: none stays without a TTL (rate_limiter.py 31-32).
CountersDie ==
    \A k \in Keys : counter[k].count > 0 =>
        counter[k].expires \in clock + 1 .. (k[2] + 2) * Window - 1 + Delay

\* The table of a process lets pass the limit and what racing threads
\* overwrote or pruned, never more (rate_limiter.py 42-43).
FallbackOvershoot ==
    \A p \in Processes, k \in Keys :
        tally[p][k].passed <= Limit + (tally[p][k].checks - table[p][k].count)

\* Whoever prunes leaves at most Spare entries of other windows than his
\* own behind, so an outage accumulates those of one window only
\* (rate_limiter.py 42-43, 101).
PruningKeepsFew ==
    [][\A t \in Threads : check[t].at = "prune" /\ check'[t].out \in {"allowed", "refused"} =>
          Cardinality({k \in Present(Home[t])' :
                          table'[Home[t]][k].start # check[t].entry.start}) <= Spare]_vars
=============================================================================
