-------------------------- MODULE RateLimiterProofs --------------------------
(***************************************************************************)
(* The rate limiter, for every number of processes, threads, identifiers   *)
(* and checks, every limit, window and delay.                              *)
(***************************************************************************)
EXTENDS RateLimiter, FiniteSetTheorems, TLAPS

-----------------------------------------------------------------------------
(***************************************************************************)
(* Windows.                                                                *)
(***************************************************************************)
LEMMA WindowOf ==
    ASSUME NEW x \in Nat
    PROVE  /\ x \div Window \in Nat
           /\ (x \div Window) * Window <= x
           /\ x < (x \div Window) * Window + Window
BY NumbersAssumption

LEMMA WindowUnique ==
    ASSUME NEW x \in Nat, NEW q \in Nat, q * Window <= x, x < q * Window + Window
    PROVE  x \div Window = q
BY NumbersAssumption

LEMMA NextWindow ==
    ASSUME NEW x \in Nat
    PROVE  (x + Window) \div Window = x \div Window + 1
BY NumbersAssumption

LEMMA WindowsGrow ==
    ASSUME NEW x \in Nat, NEW y \in Nat, x <= y
    PROVE  x \div Window <= y \div Window
BY NumbersAssumption

-----------------------------------------------------------------------------
(***************************************************************************)
(* Types, and what a check in progress                                     *)
(* remembers: a key of the window in which it was made.                    *)
(***************************************************************************)
UnderWay(c) ==
    /\ c.key \in Keys /\ c.key[2] = c.entered \div Window
    /\ c.entered <= clock /\ c.out = "none"

Typed ==
    /\ clock \in 0..MaxClock /\ begun \in Nat
    /\ counter \in [Keys -> Counter]
    /\ table \in [Processes -> [Keys -> Entry]]
    /\ check \in [Threads -> Check]
    /\ granted \in [Keys -> Nat]
    /\ tally \in [Processes -> [Keys -> Tally]]
    /\ \A t \in Threads : check[t].at # "idle" => UnderWay(check[t])

\* The checks of the other threads stay as they are.
Others(t) == \A u \in Threads \ {t} : check'[u] = check[u]

LEMMA KeysTyped ==
    /\ \A k \in Keys : k[2] \in Nat
    /\ \A i \in Ids : clock \in 0..MaxClock => <<i, CurrentWindow>> \in Keys
    /\ IsFiniteSet(Keys)
<1>1. MaxClock \div Window \in Nat
  BY WindowOf, NumbersAssumption
<1>2. clock \in 0..MaxClock => CurrentWindow \in 0..MaxClock \div Window
  BY <1>1, WindowOf, WindowsGrow, NumbersAssumption DEF CurrentWindow
<1>3. IsFiniteSet(0..MaxClock \div Window)
  BY <1>1, FS_Interval
<1> QED  BY <1>1, <1>2, <1>3, IdsAssumption, FS_Product DEF Keys

LEMMA EndsTyped ==
    ASSUME Typed, NEW t \in Threads, NEW out \in {"allowed", "refused", "raised"}, Ends(t, out)
    PROVE  /\ check' \in [Threads -> Check] /\ Others(t)
           /\ check'[t].at = "idle" /\ check'[t].out = out
<1> DEFINE x == [NoCheck EXCEPT !.out = out]
<1>1. x \in Check /\ x.at = "idle" /\ x.out = out
  BY DEF NoCheck, NoEntry, Check, Entry
<1>2. check' = [check EXCEPT ![t] = x]
  BY DEF Ends
<1> HIDE DEF x
<1> QED  BY <1>1, <1>2 DEF Typed, Others

LEMMA VerdictTyped == \A n \in Nat : Verdict(n) \in {"allowed", "refused", "raised"}
BY DEF Verdict

\* A check goes on: it keeps its key, its time and its want of an outcome.
LEMMA GoesOnTyped ==
    ASSUME Typed, NEW t \in Threads, NEW to \in {"read", "write", "prune"},
           check[t].at # "idle", check' = [check EXCEPT ![t].at = to]
    PROVE  /\ check' \in [Threads -> Check] /\ Others(t)
           /\ check'[t].at = to /\ check'[t].key = check[t].key /\ check'[t].entry = check[t].entry
           /\ check'[t].entered = check[t].entered /\ check'[t].out = check[t].out
<1> DEFINE x == [check[t] EXCEPT !.at = to]
<1>1. /\ x \in Check /\ x.at = to /\ x.key = check[t].key /\ x.entry = check[t].entry
      /\ x.entered = check[t].entered /\ x.out = check[t].out
  BY DEF Typed, Check
<1>2. check' = [check EXCEPT ![t] = x]
  OBVIOUS
<1> HIDE DEF x
<1> QED  BY <1>1, <1>2 DEF Typed, Others

\* The variables but check, typed; and who of the checks is under way.
RestTyped ==
    /\ clock' = clock /\ begun' \in Nat
    /\ counter' \in [Keys -> Counter] /\ table' \in [Processes -> [Keys -> Entry]]
    /\ granted' \in [Keys -> Nat] /\ tally' \in [Processes -> [Keys -> Tally]]

LEMMA TypedAgain ==
    ASSUME Typed, NEW t \in Threads, RestTyped, check' \in [Threads -> Check], Others(t),
           check'[t].at # "idle" => UnderWay(check'[t])
    PROVE  Typed'
BY DEF Typed, RestTyped, Others, UnderWay

LEMMA CheckFacts ==
    ASSUME Typed, NEW t \in Threads, check[t].at # "idle"
    PROVE  /\ check[t].key \in Keys /\ check[t].key[2] \in Nat /\ Home[t] \in Processes
           /\ UnderWay(check[t]) /\ check[t].entry \in Entry /\ clock \in Nat
           /\ table[Home[t]][check[t].key] \in Entry /\ counter[check[t].key] \in Counter
           /\ tally[Home[t]][check[t].key] \in Tally
BY KeysTyped, HomeAssumption DEF Typed, UnderWay, Check

LEMMA GoesOnAgain ==
    ASSUME Typed, NEW t \in Threads, NEW to \in {"read", "write", "prune"},
           check[t].at # "idle", check' = [check EXCEPT ![t].at = to], RestTyped
    PROVE  Typed'
<1>1. /\ check' \in [Threads -> Check] /\ Others(t) /\ check'[t].key = check[t].key
      /\ check'[t].entered = check[t].entered /\ check'[t].out = check[t].out
  BY GoesOnTyped
<1>2. UnderWay(check[t])
  BY CheckFacts
<1>3. UnderWay(check'[t])
  BY <1>1, <1>2 DEF UnderWay
<1> QED  BY <1>1, <1>3, TypedAgain

LEMMA EnterTyped == ASSUME Typed, NEW t \in Threads, Enter(t) PROVE Typed'
<1>1. RestTyped
  BY DEF Enter, RestTyped, Typed
<1>2. CASE Limit = 0
  <2>1. Ends(t, "allowed")
    BY <1>2 DEF Enter
  <2> QED  BY <1>1, <2>1, EndsTyped, TypedAgain
<1>3. CASE Limit # 0
  <2>1. PICK i \in Ids :
          check' = [check EXCEPT ![t] = [at |-> "eval", key |-> <<i, CurrentWindow>>,
                                         entered |-> clock, entry |-> NoEntry, out |-> "none"]]
    BY <1>3 DEF Enter
  <2> DEFINE x == [at |-> "eval", key |-> <<i, CurrentWindow>>,
                   entered |-> clock, entry |-> NoEntry, out |-> "none"]
  <2>2. <<i, CurrentWindow>> \in Keys /\ clock \in Nat
    BY KeysTyped DEF Typed
  <2>3. x \in Check /\ UnderWay(x)
    BY <2>2 DEF Check, NoEntry, Entry, UnderWay, CurrentWindow
  <2>4. check' = [check EXCEPT ![t] = x]
    BY <2>1
  <2> HIDE DEF x
  <2>5. check' \in [Threads -> Check] /\ Others(t) /\ check'[t] = x
    BY <2>3, <2>4 DEF Typed, Others
  <2> QED  BY <1>1, <2>3, <2>5, TypedAgain
<1> QED  BY <1>2, <1>3

LEMMA EvalTyped == ASSUME Typed, NEW t \in Threads, Eval(t) PROVE Typed'
<1>1. check[t].at = "eval" /\ check[t].key \in Keys /\ counter[check[t].key] \in Counter
      /\ UnderWay(check[t]) /\ clock \in Nat
  BY CheckFacts DEF Eval
<1>2. Counted(check[t].key) \in Counter
  BY <1>1, NumbersAssumption DEF Counted, Counter
<1>3. counter' \in [Keys -> Counter]
  BY <1>1, <1>2 DEF Eval, Typed
<1>4. granted' \in [Keys -> Nat]
  BY <1>1 DEF Eval, Typed
<1>5. RestTyped
  BY <1>3, <1>4 DEF Eval, RestTyped, Typed
<1>6. CASE Ends(t, Verdict(Counted(check[t].key).count))
  <2>1. Counted(check[t].key).count \in Nat
    BY <1>2 DEF Counter
  <2> QED  BY <1>5, <1>6, <2>1, VerdictTyped, EndsTyped, TypedAgain
<1>7. CASE check' = [check EXCEPT ![t].at = "read"]
  BY <1>1, <1>5, <1>7, GoesOnAgain
<1> QED  BY <1>6, <1>7 DEF Eval

LEMMA EvalFailsTyped == ASSUME Typed, NEW t \in Threads, EvalFails(t) PROVE Typed'
<1>1. check[t].at = "eval" /\ UnderWay(check[t])
  BY CheckFacts DEF EvalFails
<1>2. RestTyped
  BY DEF EvalFails, RestTyped, Typed
<1> QED  BY <1>1, <1>2, GoesOnAgain DEF EvalFails

\* What a thread reads is one more than the entry it found, or one.
LEMMA LocalReadEffect ==
    ASSUME Typed, NEW t \in Threads, LocalRead(t)
    PROVE  /\ check' \in [Threads -> Check] /\ Others(t)
           /\ check'[t].at = "write" /\ check'[t].key = check[t].key
           /\ check'[t].entered = check[t].entered /\ check'[t].out = check[t].out
           /\ check'[t].entry.count \in {1, table[Home[t]][check[t].key].count + 1}
<1> DEFINE old == table[Home[t]][check[t].key]
           e == [start |-> CurrentWindow, count |-> IF old.start = CurrentWindow THEN old.count + 1 ELSE 1]
           x == [[check[t] EXCEPT !.at = "write"] EXCEPT !.entry = e]
<1>1. old \in Entry /\ CurrentWindow \in Nat
  BY CheckFacts, WindowOf DEF LocalRead, CurrentWindow
<1>2. e \in Entry /\ e.count \in {1, old.count + 1}
  BY <1>1 DEF Entry
<1>3. check' = [check EXCEPT ![t].at = "write", ![t].entry = e]
  BY DEF LocalRead
<1> HIDE DEF e
<1>4. /\ x \in Check /\ x.at = "write" /\ x.key = check[t].key /\ x.entry = e
      /\ x.entered = check[t].entered /\ x.out = check[t].out
  BY <1>2 DEF Typed, Check
<1>5. check' = [check EXCEPT ![t] = x]
  BY <1>3 DEF Typed
<1> HIDE DEF x
<1> QED  BY <1>2, <1>4, <1>5 DEF Typed, Others

LEMMA LocalReadTyped == ASSUME Typed, NEW t \in Threads, LocalRead(t) PROVE Typed'
<1>1. check[t].at = "read" /\ UnderWay(check[t])
  BY CheckFacts DEF LocalRead
<1>2. RestTyped
  BY DEF LocalRead, RestTyped, Typed
<1> QED  BY <1>1, <1>2, LocalReadEffect, TypedAgain DEF UnderWay

\* A judgement, on the record of the tally.
LEMMA OneMore ==
    ASSUME NEW z \in Tally, NEW m \in Nat
    PROVE  [[z EXCEPT !.checks = @ + 1] EXCEPT !.passed = @ + m]
             = [checks |-> z.checks + 1, passed |-> z.passed + m]
<1> DEFINE c == z.checks + 1
           w == [z EXCEPT !.checks = c]
<1>1. z = [checks |-> z.checks, passed |-> z.passed]
  BY DEF Tally
<1>2. w = [checks |-> c, passed |-> z.passed]
  BY <1>1
<1> HIDE DEF c, w
<1>3. w.passed = z.passed
  BY <1>2
<1>4. [w EXCEPT !.passed = w.passed + m] = [checks |-> c, passed |-> z.passed + m]
  BY <1>2, <1>3
<1> QED  BY <1>4 DEF c, w

\* A judgement counts one check, and at most one that passed.
LEMMA JudgedEffect ==
    ASSUME Typed, NEW p \in Processes, NEW k \in Keys, NEW count \in Nat, Judged(p, k, count)
    PROVE  /\ tally' \in [Processes -> [Keys -> Tally]]
           /\ tally'[p][k] = [checks |-> tally[p][k].checks + 1,
                              passed |-> tally[p][k].passed + IF Passes(count) THEN 1 ELSE 0]
           /\ \A q \in Processes, l \in Keys : q # p \/ l # k => tally'[q][l] = tally[q][l]
<1> DEFINE more == IF Passes(count) THEN 1 ELSE 0
           y == [checks |-> tally[p][k].checks + 1, passed |-> tally[p][k].passed + more]
<1>1. tally \in [Processes -> [Keys -> Tally]] /\ tally[p][k] \in Tally /\ more \in Nat
  BY DEF Typed
<1>2. y \in Tally
  BY <1>1 DEF Tally
<1>3. tally' = [tally EXCEPT ![p][k].checks = @ + 1, ![p][k].passed = @ + more]
  BY DEF Judged
<1> HIDE DEF more
<1>4. [[tally[p][k] EXCEPT !.checks = @ + 1] EXCEPT !.passed = @ + more] = y
  BY <1>1, OneMore
<1>5. tally' = [tally EXCEPT ![p] = [tally[p] EXCEPT ![k] =
                  [[tally[p][k] EXCEPT !.checks = @ + 1] EXCEPT !.passed = @ + more]]]
  BY <1>1, <1>3 DEF Tally
<1>6. tally' = [tally EXCEPT ![p] = [tally[p] EXCEPT ![k] = y]]
  BY <1>4, <1>5
<1> HIDE DEF y
<1>7. /\ tally' \in [Processes -> [Keys -> Tally]] /\ tally'[p][k] = y
      /\ \A q \in Processes, l \in Keys : q # p \/ l # k => tally'[q][l] = tally[q][l]
  BY <1>1, <1>2, <1>6
<1> QED  BY <1>7 DEF y, more

\* What a thread writes is its entry, and it is judged by it.
LEMMA LocalWriteEffect ==
    ASSUME Typed, NEW t \in Threads, LocalWrite(t)
    PROVE  /\ check[t].at = "write" /\ RestTyped
           /\ table' = [table EXCEPT ![Home[t]][check[t].key] = check[t].entry]
           /\ Judged(Home[t], check[t].key, check[t].entry.count)
           /\ \/ check' = [check EXCEPT ![t].at = "prune"]
              \/ Ends(t, Verdict(check[t].entry.count))
<1>1. /\ check[t].at = "write"
      /\ table' = [table EXCEPT ![Home[t]][check[t].key] = check[t].entry]
      /\ Judged(Home[t], check[t].key, check[t].entry.count)
      /\ \/ check' = [check EXCEPT ![t].at = "prune"]
         \/ Ends(t, Verdict(check[t].entry.count))
      /\ UNCHANGED <<clock, redisUp, counter, begun, granted>>
  BY DEF LocalWrite
<1>2. /\ check[t].key \in Keys /\ Home[t] \in Processes /\ check[t].entry \in Entry
      /\ tally[Home[t]][check[t].key] \in Tally
  BY <1>1, CheckFacts
<1>3. table' \in [Processes -> [Keys -> Entry]]
  BY <1>1, <1>2 DEF Typed
<1>4. tally' \in [Processes -> [Keys -> Tally]]
  BY <1>1, <1>2, JudgedEffect DEF Entry
<1> QED  BY <1>1, <1>3, <1>4 DEF RestTyped, Typed

LEMMA LocalWriteTyped == ASSUME Typed, NEW t \in Threads, LocalWrite(t) PROVE Typed'
<1>1. CASE check' = [check EXCEPT ![t].at = "prune"]
  BY <1>1, LocalWriteEffect, GoesOnAgain
<1>2. CASE Ends(t, Verdict(check[t].entry.count))
  <2>1. check[t].entry.count \in Nat
    BY LocalWriteEffect, CheckFacts DEF Entry
  <2> QED  BY <1>2, <2>1, LocalWriteEffect, VerdictTyped, EndsTyped, TypedAgain
<1> QED  BY <1>1, <1>2, LocalWriteEffect

\* Who prunes empties entries, and gives his verdict.
LEMMA PruneEffect ==
    ASSUME Typed, NEW t \in Threads, Prune(t)
    PROVE  /\ check[t].at = "prune" /\ RestTyped /\ Ends(t, Verdict(check[t].entry.count))
           /\ \A p \in Processes, k \in Keys : table'[p][k] \in {table[p][k], NoEntry}
<1>1. PICK gone \in SUBSET Keys :
        table' = [table EXCEPT ![Home[t]] = [k \in Keys |-> IF k \in gone THEN NoEntry ELSE @[k]]]
  BY DEF Prune, Present
<1>2. Home[t] \in Processes
  BY HomeAssumption
<1>3. \A p \in Processes, k \in Keys : table'[p][k] \in {table[p][k], NoEntry}
  BY <1>1, <1>2 DEF Typed
<1>4. table' \in [Processes -> [Keys -> Entry]]
  <2>1. NoEntry \in Entry
    BY DEF NoEntry, Entry
  <2>2. [k \in Keys |-> IF k \in gone THEN NoEntry ELSE table[Home[t]][k]] \in [Keys -> Entry]
    BY <1>2, <2>1 DEF Typed
  <2> QED  BY <1>1, <1>2, <2>2 DEF Typed
<1> QED  BY <1>3, <1>4 DEF Prune, RestTyped, Typed

LEMMA PruneTyped == ASSUME Typed, NEW t \in Threads, Prune(t) PROVE Typed'
<1>1. check[t].entry.count \in Nat
  BY PruneEffect, CheckFacts DEF Entry
<1> QED  BY <1>1, PruneEffect, VerdictTyped, EndsTyped, TypedAgain

LEMMA PruneRaisesTyped == ASSUME Typed, NEW t \in Threads, PruneRaises(t) PROVE Typed'
<1>1. RestTyped
  BY DEF PruneRaises, RestTyped, Typed
<1> QED  BY <1>1, EndsTyped, TypedAgain DEF PruneRaises

LEMMA NoKeyTyped == NoKey \in Counter
BY DEF NoKey, Counter

LEMMA TickTyped == ASSUME Typed, Tick PROVE Typed'
<1>1. clock' \in 0..MaxClock /\ clock <= clock' /\ check' = check
  BY NumbersAssumption DEF Tick, Typed
<1>2. counter' \in [Keys -> Counter]
  BY NoKeyTyped DEF Tick, Typed
<1>3. \A t \in Threads : check[t].at # "idle" => UnderWay(check[t])'
  BY <1>1 DEF Typed, UnderWay, Check
<1> QED  BY <1>1, <1>2, <1>3 DEF Tick, Typed

LEMMA RedisTyped == ASSUME Typed, RedisFails \/ RedisReturns PROVE Typed'
<1>1. clock' = clock /\ check' = check /\ UNCHANGED <<table, begun, tally>>
  BY DEF RedisFails, RedisReturns
<1>2. counter' \in [Keys -> Counter] /\ granted' \in [Keys -> Nat]
  BY NoKeyTyped DEF RedisFails, RedisReturns, Typed
<1> QED  BY <1>1, <1>2 DEF Typed, UnderWay

LEMMA InitTyped == Init => Typed
BY NumbersAssumption, NoKeyTyped
   DEF Init, Typed, Entry, NoEntry, Tally, Check, NoCheck

LEMMA NextTyped == Typed /\ [Next]_vars => Typed'
<1> SUFFICES ASSUME Typed, [Next]_vars PROVE Typed'
  OBVIOUS
<1>1. CASE UNCHANGED vars
  BY <1>1 DEF vars, Typed, UnderWay
<1>2. CASE Next
  BY <1>2, EnterTyped, EvalTyped, EvalFailsTyped, LocalReadTyped, LocalWriteTyped, PruneTyped,
     PruneRaisesTyped, TickTyped, RedisTyped DEF Next
<1> QED  BY <1>1, <1>2

LEMMA AlwaysTyped == Spec => []Typed
BY InitTyped, NextTyped, PTL DEF Spec

\* The variables keep their types.
THEOREM LimiterTyped == Spec => []TypeOK
<1>1. Init => redisUp \in BOOLEAN
  BY DEF Init
<1>2. redisUp \in BOOLEAN /\ [Next]_vars => (redisUp \in BOOLEAN)'
  BY DEF Next, vars, Enter, Eval, EvalFails, LocalRead, LocalWrite, Prune, PruneRaises, Tick,
         RedisFails, RedisReturns
<1>3. Typed /\ redisUp \in BOOLEAN => TypeOK
  BY DEF Typed, TypeOK
<1> QED  BY <1>1, <1>2, <1>3, AlwaysTyped, PTL DEF Spec

-----------------------------------------------------------------------------
(***************************************************************************)
(* The shared counters.  While a counter lives its window is not over; one *)
(* of a later window counts nothing yet; and what Redis let pass it also   *)
(* counted.                                                                *)
(***************************************************************************)
Shared(k) ==
    /\ counter[k].count > 0 => k[2] < counter[k].expires \div Window
    /\ counter[k].count > 0 => k[2] <= CurrentWindow
    /\ granted[k] > 0 => k[2] <= CurrentWindow
    /\ k[2] = CurrentWindow => granted[k] <= counter[k].count
    /\ granted[k] <= Limit

SharedInv == Typed /\ \A k \in Keys : Shared(k)

LEMMA InitShared == Init => SharedInv
<1> SUFFICES ASSUME Init, NEW k \in Keys PROVE Shared(k)
  BY InitTyped DEF SharedInv
<1> QED  BY NumbersAssumption, KeysTyped, WindowOf DEF Init, Shared, NoKey, CurrentWindow

LEMMA EvalShared ==
    ASSUME SharedInv, NEW t \in Threads, Eval(t), NEW k \in Keys
    PROVE  Shared(k)'
<1> DEFINE m == check[t].key
           next == Counted(m)
<1>1. /\ m \in Keys /\ m[2] \in Nat /\ UnderWay(check[t]) /\ clock \in Nat
      /\ counter[m] \in Counter /\ check[t].entered \in Nat
  BY CheckFacts DEF Eval, SharedInv, Typed, Check
<1>2. /\ counter' = [counter EXCEPT ![m] = next] /\ clock' = clock
      /\ \/ granted' = granted
         \/ /\ m[2] = CurrentWindow /\ Passes(next.count)
            /\ granted' = [granted EXCEPT ![m] = @ + 1]
  BY DEF Eval
<1>3. CurrentWindow' = CurrentWindow /\ CurrentWindow \in Nat
  BY <1>1, <1>2, WindowOf DEF CurrentWindow
<1>4. m[2] <= CurrentWindow
  BY <1>1, WindowsGrow DEF UnderWay, CurrentWindow
<1>5. next.count = counter[m].count + 1 /\ next \in Counter
  BY <1>1, NumbersAssumption DEF Counted, Counter
<1>6. m[2] < next.expires \div Window
  <2>1. CASE counter[m].count = 0
    <3>1. next.expires = clock + Window
      BY <2>1 DEF Counted
    <3> QED  BY <1>1, <1>3, <1>4, <3>1, NextWindow DEF CurrentWindow
  <2>2. CASE counter[m].count # 0
    BY <1>1, <2>2 DEF SharedInv, Shared, Counted, Counter
  <2> QED  BY <2>1, <2>2
<1> HIDE DEF next
<1>7. granted \in [Keys -> Nat] /\ counter \in [Keys -> Counter] /\ k[2] \in Nat
  BY KeysTyped DEF SharedInv, Typed
<1>8. CASE k # m
  <2>1. counter'[k] = counter[k] /\ granted'[k] = granted[k]
    BY <1>2, <1>7, <1>8
  <2> QED  BY <1>3, <2>1 DEF SharedInv, Shared
<1>9. CASE k = m
  <2>1. counter'[k] = next
    BY <1>1, <1>2, <1>7, <1>9
  <2>2. \/ granted'[k] = granted[k]
        \/ k[2] = CurrentWindow /\ Passes(next.count) /\ granted'[k] = granted[k] + 1
    BY <1>1, <1>2, <1>7, <1>9
  <2>3. granted[k] \in Nat /\ counter[k].count \in Nat
    BY <1>7 DEF Counter
  <2>4. Shared(k)
    BY DEF SharedInv
  <2> QED  BY <1>3, <1>4, <1>5, <1>6, <1>9, <2>1, <2>2, <2>3, <2>4, NumbersAssumption
           DEF Shared, Passes
<1> QED  BY <1>8, <1>9

LEMMA TickShared ==
    ASSUME SharedInv, Tick, NEW k \in Keys
    PROVE  Shared(k)'
<1>1. /\ clock \in Nat /\ clock' = clock + 1 /\ granted' = granted /\ k[2] \in Nat
      /\ granted[k] \in Nat /\ counter[k] \in Counter /\ Shared(k)
      /\ counter'[k] = IF counter[k].expires = clock' THEN NoKey ELSE counter[k]
  BY KeysTyped DEF SharedInv, Typed, Tick
<1>2. CurrentWindow \in Nat /\ CurrentWindow' \in Nat /\ CurrentWindow <= CurrentWindow'
  BY <1>1, WindowOf, WindowsGrow DEF CurrentWindow
<1>3. CASE counter'[k] = counter[k]
  <2>1. k[2] = CurrentWindow' => granted[k] <= counter[k].count
    BY <1>1, <1>2 DEF Shared, Counter
  <2> QED  BY <1>1, <1>2, <1>3, <2>1 DEF Shared, Counter
<1>4. CASE counter[k].expires = clock' /\ counter'[k] = NoKey /\ counter[k].count > 0
  <2>1. k[2] < CurrentWindow'
    BY <1>1, <1>4 DEF Shared, CurrentWindow
  <2> QED  BY <1>1, <1>2, <1>4, <2>1 DEF Shared, NoKey
<1>5. CASE counter'[k] = NoKey /\ counter[k].count = 0
  <2>1. k[2] = CurrentWindow' => granted[k] <= 0
    BY <1>1, <1>2, <1>5 DEF Shared
  <2> QED  BY <1>1, <1>2, <1>5, <2>1 DEF Shared, NoKey
<1> QED  BY <1>1, <1>3, <1>4, <1>5 DEF Counter

LEMMA RedisShared ==
    ASSUME SharedInv, RedisFails \/ RedisReturns, NEW k \in Keys
    PROVE  Shared(k)'
<1>1. /\ clock' = clock /\ k[2] \in Nat
      /\ \/ counter'[k] = counter[k] /\ granted'[k] = granted[k]
         \/ counter'[k] = NoKey /\ granted'[k] = 0
  BY KeysTyped DEF RedisFails, RedisReturns
<1> QED  BY <1>1, NumbersAssumption DEF SharedInv, Shared, NoKey, CurrentWindow

LEMMA NextShared == SharedInv /\ [Next]_vars => SharedInv'
<1> SUFFICES ASSUME SharedInv, [Next]_vars, NEW k \in Keys PROVE Shared(k)'
  BY NextTyped DEF SharedInv
<1>1. CASE UNCHANGED <<clock, counter, granted>>
  BY <1>1 DEF SharedInv, Shared, CurrentWindow
<1>2. CASE Next
  BY <1>1, <1>2, EvalShared, TickShared, RedisShared
     DEF Next, Enter, EvalFails, LocalRead, LocalWrite, Prune, PruneRaises
<1> QED  BY <1>1, <1>2 DEF vars

\* Redis lets no more than Limit checks of an identifier pass in a window,
\* whatever is lost, late or down, as long as it keeps its data
\* (rate_limiter.py 4-6).
THEOREM SharedHolds == Spec => []SharedLimit
<1>1. SharedInv => SharedLimit
  BY DEF SharedInv, Shared, SharedLimit
<1> QED  BY <1>1, InitShared, NextShared, PTL DEF Spec

-----------------------------------------------------------------------------
(***************************************************************************)
(* The life of a counter.                                                  *)
(***************************************************************************)
Dies(k) == counter[k].count > 0 =>
               /\ clock + 1 <= counter[k].expires
               /\ counter[k].expires <= (k[2] + 2) * Window - 1 + Delay
DyingInv == Typed /\ \A k \in Keys : Dies(k)

LEMMA EvalDies ==
    ASSUME DyingInv, NEW t \in Threads, Eval(t), NEW k \in Keys
    PROVE  Dies(k)'
<1> DEFINE m == check[t].key
<1>1. /\ m \in Keys /\ m[2] \in Nat /\ m[2] = check[t].entered \div Window /\ clock \in Nat
      /\ counter[m] \in Counter /\ check[t].entered \in Nat
  BY CheckFacts DEF Eval, DyingInv, Typed, Check, UnderWay
<1>2. counter' = [counter EXCEPT ![m] = Counted(m)] /\ clock' = clock
      /\ clock <= check[t].entered + Delay
  BY DEF Eval, Arrives
<1>3. counter \in [Keys -> Counter] /\ Dies(k)
  BY DEF DyingInv, Typed
<1>4. CASE k # m
  BY <1>2, <1>3, <1>4 DEF Dies
<1>5. CASE k = m /\ counter[m].count # 0
  <2>1. counter[m].count > 0
    BY <1>1, <1>5 DEF Counter
  <2>2. counter'[k].expires = counter[k].expires
    BY <1>1, <1>2, <1>3, <1>5 DEF Counted
  <2> QED  BY <1>2, <1>3, <1>5, <2>1, <2>2 DEF Dies
<1>6. CASE k = m /\ counter[m].count = 0
  <2>1. counter'[k].expires = clock + Window
    BY <1>1, <1>2, <1>3, <1>6 DEF Counted
  <2>2. check[t].entered < m[2] * Window + Window
    BY <1>1, WindowOf
  <2>3. clock + Window <= (m[2] + 2) * Window - 1 + Delay
    BY <1>1, <1>2, <2>2, NumbersAssumption
  <2> QED  BY <1>1, <1>2, <1>6, <2>1, <2>3, NumbersAssumption DEF Dies
<1> QED  BY <1>4, <1>5, <1>6

LEMMA TickDies == ASSUME DyingInv, Tick, NEW k \in Keys PROVE Dies(k)'
<1>1. /\ clock \in Nat /\ clock' = clock + 1 /\ counter[k] \in Counter /\ Dies(k)
      /\ counter'[k] = IF counter[k].expires = clock' THEN NoKey ELSE counter[k]
  BY DEF DyingInv, Typed, Tick
<1> QED  BY <1>1 DEF Dies, NoKey, Counter

LEMMA NextDies == DyingInv /\ [Next]_vars => DyingInv'
<1> SUFFICES ASSUME DyingInv, [Next]_vars, NEW k \in Keys PROVE Dies(k)'
  BY NextTyped DEF DyingInv
<1>1. CASE UNCHANGED <<clock, counter>>
  BY <1>1 DEF DyingInv, Dies
<1>2. CASE RedisReturns
  BY <1>2 DEF RedisReturns, DyingInv, Dies, NoKey
<1>3. CASE Next
  BY <1>1, <1>2, <1>3, EvalDies, TickDies
     DEF Next, Enter, EvalFails, LocalRead, LocalWrite, Prune, PruneRaises, RedisFails
<1> QED  BY <1>1, <1>3 DEF vars

\* No counter stays without a TTL, and none longer than two windows and the
\* delay of a command (rate_limiter.py 31-32).
THEOREM CountersExpire == Spec => []CountersDie
<1>1. Init => DyingInv
  BY InitTyped DEF Init, DyingInv, Dies, NoKey
<1>2. DyingInv => CountersDie
  <2> SUFFICES ASSUME DyingInv, NEW k \in Keys, counter[k].count > 0
               PROVE  counter[k].expires \in clock + 1 .. (k[2] + 2) * Window - 1 + Delay
    BY DEF CountersDie
  <2>1. /\ clock \in Nat /\ counter[k].expires \in Nat /\ k[2] \in Nat
        /\ clock + 1 <= counter[k].expires
        /\ counter[k].expires <= (k[2] + 2) * Window - 1 + Delay
    BY KeysTyped DEF DyingInv, Dies, Typed, Counter
  <2>2. (k[2] + 2) * Window - 1 + Delay \in Int
    BY <2>1, NumbersAssumption
  <2> QED  BY <2>1, <2>2
<1> QED  BY <1>1, <1>2, NextDies, PTL DEF Spec

-----------------------------------------------------------------------------
(***************************************************************************)
(* The table of a process.  A thread about to write has counted a check    *)
(* the table has not judged; what passed since then was judged since then. *)
(***************************************************************************)
Fits(p, k) ==
    /\ tally[p][k].passed <= tally[p][k].checks
    /\ tally[p][k].passed + table[p][k].count <= Limit + tally[p][k].checks
Pending(u) ==
    check[u].at = "write" =>
        LET seen == tally[Home[u]][check[u].key]
        IN  seen.passed + check[u].entry.count <= Limit + seen.checks + 1
TableInv ==
    /\ Typed
    /\ \A p \in Processes, k \in Keys : Fits(p, k)
    /\ \A u \in Threads : Pending(u)

LEMMA InitTable == Init => TableInv
BY InitTyped, NumbersAssumption DEF Init, TableInv, Fits, Pending, NoEntry, NoCheck

\* Nothing is judged, no entry grows, nobody else is about to write.
LEMMA QuietTable ==
    ASSUME TableInv, Typed', tally' = tally,
           \A p \in Processes, k \in Keys : table'[p][k] \in {table[p][k], NoEntry},
           \A u \in Threads : check'[u].at = "write" => check'[u] = check[u]
    PROVE  TableInv'
<1>1. ASSUME NEW p \in Processes, NEW k \in Keys PROVE Fits(p, k)'
  <2>1. /\ table[p][k] \in Entry /\ tally[p][k] \in Tally /\ Fits(p, k)
        /\ table'[p][k] \in {table[p][k], NoEntry}
    BY DEF TableInv, Typed
  <2> QED  BY <2>1, NumbersAssumption DEF Fits, Entry, Tally, NoEntry
<1>2. ASSUME NEW u \in Threads PROVE Pending(u)'
  BY DEF TableInv, Pending
<1> QED  BY <1>1, <1>2 DEF TableInv

LEMMA ReadTable == ASSUME TableInv, NEW t \in Threads, LocalRead(t) PROVE TableInv'
<1>1. Typed /\ Typed' /\ tally' = tally /\ table' = table /\ check[t].at # "idle"
  BY LocalReadTyped DEF TableInv, LocalRead
<1>2. /\ check' \in [Threads -> Check] /\ Others(t) /\ check'[t].key = check[t].key
      /\ check'[t].entry.count \in {1, table[Home[t]][check[t].key].count + 1}
  BY <1>1, LocalReadEffect
<1>3. /\ check[t].key \in Keys /\ Home[t] \in Processes
      /\ table[Home[t]][check[t].key] \in Entry /\ tally[Home[t]][check[t].key] \in Tally
  BY <1>1, CheckFacts
<1>4. Fits(Home[t], check[t].key)
  BY <1>3 DEF TableInv
<1>5. Pending(t)'
  BY <1>1, <1>2, <1>3, <1>4, NumbersAssumption DEF Pending, Fits, Entry, Tally
<1>6. ASSUME NEW u \in Threads, u # t PROVE Pending(u)'
  BY <1>1, <1>2, <1>6 DEF TableInv, Pending, Others
<1> QED  BY <1>1, <1>5, <1>6 DEF TableInv, Fits

LEMMA WriteTable == ASSUME TableInv, NEW t \in Threads, LocalWrite(t) PROVE TableInv'
<1> SUFFICES ASSUME NEW p, NEW k, NEW n,
                    p = Home[t], k = check[t].key, n = check[t].entry.count
             PROVE  TableInv'
  OBVIOUS
<1>1. Typed /\ Typed' /\ check[t].at = "write"
  BY LocalWriteTyped DEF TableInv, LocalWrite
<1>2. /\ k \in Keys /\ p \in Processes /\ n \in Nat /\ check[t].entry \in Entry
      /\ table[p][k] \in Entry /\ tally[p][k] \in Tally
  BY <1>1, CheckFacts DEF Entry
<1>3. /\ table' = [table EXCEPT ![p][k] = check[t].entry] /\ Judged(p, k, n)
      /\ \/ check' = [check EXCEPT ![t].at = "prune"]
         \/ Ends(t, Verdict(n))
  BY <1>1, LocalWriteEffect
<1>4. check'[t].at # "write" /\ Others(t)
  BY <1>1, <1>2, <1>3, GoesOnTyped, EndsTyped, VerdictTyped
<1>5. /\ tally'[p][k].checks = tally[p][k].checks + 1
      /\ tally'[p][k].passed = tally[p][k].passed + IF Passes(n) THEN 1 ELSE 0
      /\ \A q \in Processes, l \in Keys : q # p \/ l # k => tally'[q][l] = tally[q][l]
  <2>1. /\ tally'[p][k] = [checks |-> tally[p][k].checks + 1,
                           passed |-> tally[p][k].passed + IF Passes(n) THEN 1 ELSE 0]
        /\ \A q \in Processes, l \in Keys : q # p \/ l # k => tally'[q][l] = tally[q][l]
    BY <1>1, <1>2, <1>3, JudgedEffect
  <2> QED  BY <2>1
<1>6. /\ table'[p][k].count = n
      /\ \A q \in Processes, l \in Keys : q # p \/ l # k => table'[q][l] = table[q][l]
  BY <1>1, <1>2, <1>3 DEF Typed
<1>7. Fits(p, k) /\ Pending(t) /\ tally[p][k].passed \in Nat /\ tally[p][k].checks \in Nat
  BY <1>2 DEF TableInv, Tally
<1>8. Fits(p, k)'
  <2>1. tally'[p][k].passed <= tally'[p][k].checks
    BY <1>5, <1>7 DEF Fits
  <2>2. tally'[p][k].passed + n <= Limit + tally'[p][k].checks
    BY <1>1, <1>2, <1>5, <1>7, NumbersAssumption DEF Fits, Pending, Passes
  <2> QED  BY <1>6, <2>1, <2>2 DEF Fits
<1>9. ASSUME NEW q \in Processes, NEW l \in Keys, q # p \/ l # k
      PROVE  tally'[q][l].passed <= tally'[q][l].checks
             /\ tally'[q][l].passed + table'[q][l].count <= Limit + tally'[q][l].checks
  BY <1>5, <1>6, <1>9 DEF TableInv, Fits
<1>10. ASSUME NEW u \in Threads, u # t, check[u].at = "write"
       PROVE  tally'[Home[u]][check[u].key].passed + check[u].entry.count
                <= Limit + tally'[Home[u]][check[u].key].checks + 1
  <2>1. /\ Home[u] \in Processes /\ check[u].key \in Keys /\ check[u].entry.count \in Nat
        /\ tally[Home[u]][check[u].key] \in Tally /\ Pending(u)
    BY <1>1, <1>10, CheckFacts DEF Entry, TableInv
  <2>2. CASE Home[u] = p /\ check[u].key = k
    BY <1>5, <1>7, <1>10, <2>1, <2>2, NumbersAssumption DEF Pending
  <2>3. CASE Home[u] # p \/ check[u].key # k
    BY <1>5, <1>10, <2>1, <2>3 DEF Pending
  <2> QED  BY <2>2, <2>3
<1>11. \A q \in Processes, l \in Keys : Fits(q, l)'
  BY <1>8, <1>9 DEF Fits
<1>12. \A u \in Threads : Pending(u)'
  BY <1>4, <1>10 DEF Pending, Others
<1> QED  BY <1>1, <1>11, <1>12 DEF TableInv

LEMMA NextTable == TableInv /\ [Next]_vars => TableInv'
<1> SUFFICES ASSUME TableInv, [Next]_vars PROVE TableInv'
  OBVIOUS
<1>1. Typed /\ Typed'
  BY NextTyped DEF TableInv
<1>2. CASE UNCHANGED <<table, check, tally>>
  BY <1>1, <1>2, QuietTable
<1>3. ASSUME NEW t \in Threads, Prune(t) PROVE TableInv'
  <2>1. /\ tally' = tally /\ check[t].entry.count \in Nat /\ Ends(t, Verdict(check[t].entry.count))
        /\ \A p \in Processes, k \in Keys : table'[p][k] \in {table[p][k], NoEntry}
    BY <1>1, <1>3, PruneEffect, CheckFacts DEF Entry, Prune
  <2>2. check'[t].at # "write" /\ Others(t)
    BY <1>1, <2>1, VerdictTyped, EndsTyped
  <2> QED  BY <1>1, <2>1, <2>2, QuietTable DEF Others
<1>4. ASSUME NEW t \in Threads, Enter(t) \/ Eval(t) \/ EvalFails(t) \/ PruneRaises(t)
      PROVE  TableInv'
  <2>1. UNCHANGED <<table, tally>>
    BY <1>4 DEF Enter, Eval, EvalFails, PruneRaises
  <2>2. \A p \in Processes, k \in Keys : table'[p][k] \in {table[p][k], NoEntry}
    BY <2>1
  <2>3. check'[t].at # "write" /\ Others(t)
    <3>1. ASSUME NEW out, Ends(t, out) PROVE check'[t].at # "write" /\ Others(t)
      BY <1>1, <3>1 DEF Typed, Ends, NoCheck, Others
    <3>2. ASSUME check' = [check EXCEPT ![t].at = "read"]
          PROVE  check'[t].at # "write" /\ Others(t)
      <4>1. check'[t] = [check[t] EXCEPT !.at = "read"] /\ Others(t) /\ check[t] \in Check
        BY <1>1, <3>2 DEF Typed, Others
      <4> QED  BY <4>1 DEF Check
    <3>3. CASE Enter(t)
      BY <1>1, <3>1, <3>3 DEF Typed, Enter, Others
    <3>4. CASE Eval(t)
      BY <3>1, <3>2, <3>4 DEF Eval
    <3>5. CASE EvalFails(t)
      BY <3>2, <3>5 DEF EvalFails
    <3>6. CASE PruneRaises(t)
      BY <3>1, <3>6 DEF PruneRaises
    <3> QED  BY <1>4, <3>3, <3>4, <3>5, <3>6
  <2> QED  BY <1>1, <2>1, <2>2, <2>3, QuietTable DEF Others
<1>5. CASE Next
  BY <1>2, <1>3, <1>4, <1>5, ReadTable, WriteTable DEF Next, Tick, RedisFails, RedisReturns
<1> QED  BY <1>2, <1>5 DEF vars

\* However threads race and prune, a table lets pass the limit and at most
\* one check more for each it forgot (rate_limiter.py 42-43).
THEOREM OvershootBounded == Spec => []FallbackOvershoot
<1>1. TableInv => FallbackOvershoot
  <2> SUFFICES ASSUME TableInv, NEW p \in Processes, NEW k \in Keys
               PROVE  tally[p][k].passed <= Limit + (tally[p][k].checks - table[p][k].count)
    BY DEF FallbackOvershoot
  <2>1. table[p][k] \in Entry /\ tally[p][k] \in Tally /\ Fits(p, k)
    BY DEF TableInv, Typed
  <2> QED  BY <2>1, NumbersAssumption DEF Fits, Entry, Tally
<1> QED  BY <1>1, InitTable, NextTable, PTL DEF Spec

-----------------------------------------------------------------------------
(***************************************************************************)
(* Pruning: the slice with its negative end leaves Spare stale entries or  *)
(* fewer.                                                                  *)
(***************************************************************************)
LEMMA SlicedLeaves ==
    ASSUME NEW n \in Nat
    PROVE  Sliced(n) \in 0..n /\ n - Sliced(n) <= Spare
BY NumbersAssumption DEF Sliced

LEMMA PruneLeaves ==
    ASSUME Typed, NEW t \in Threads, Prune(t)
    PROVE  Cardinality({k \in Present(Home[t])' :
                          table'[Home[t]][k].start # check[t].entry.start}) <= Spare
<1> DEFINE p == Home[t]
           stale == {k \in Present(p) : table[p][k].start # check[t].entry.start}
           left == {k \in Present(p)' : table'[p][k].start # check[t].entry.start}
<1>1. PICK gone \in SUBSET stale :
        /\ Cardinality(gone) = Sliced(Cardinality(stale))
        /\ table' = [table EXCEPT ![p] = [k \in Keys |-> IF k \in gone THEN NoEntry ELSE @[k]]]
  BY DEF Prune
<1>2. p \in Processes /\ table \in [Processes -> [Keys -> Entry]]
  BY HomeAssumption DEF Typed
<1>3. \A k \in Keys : table'[p][k] = IF k \in gone THEN NoEntry ELSE table[p][k]
  BY <1>1, <1>2
<1>4. left = stale \ gone
  BY <1>1, <1>3 DEF Present, NoEntry
<1>5. IsFiniteSet(stale)
  BY KeysTyped, FS_Subset DEF Present
<1>6. stale \cap gone = gone
  OBVIOUS
<1>7. Cardinality(stale) \in Nat
  BY <1>5, FS_CardinalityType
<1> HIDE DEF stale, left
<1>8. Cardinality(left) = Cardinality(stale) - Cardinality(gone)
  <2>1. IsFiniteSet(gone)
    BY <1>1, <1>5, FS_Subset
  <2>2. Cardinality(stale \ gone) = Cardinality(stale) - Cardinality(stale \cap gone)
    BY <1>5, <2>1, FS_Difference
  <2> QED  BY <1>4, <1>6, <2>2
<1>9. Cardinality(left) <= Spare
  BY <1>1, <1>7, <1>8, SlicedLeaves
<1> QED  BY <1>9 DEF left

Moves(t) == Enter(t) \/ Eval(t) \/ EvalFails(t) \/ LocalRead(t) \/ LocalWrite(t) \/ PruneRaises(t)

LEMMA OnlyOne == ASSUME Typed, NEW u \in Threads, Moves(u) \/ Prune(u) PROVE Others(u)
<1>1. ASSUME NEW x, check' = [check EXCEPT ![u] = x] PROVE Others(u)
  BY <1>1 DEF Typed, Others
<1>2. ASSUME NEW to, check' = [check EXCEPT ![u].at = to] PROVE Others(u)
  BY <1>2 DEF Typed, Others
<1>3. \A out : Ends(u, out) => Others(u)
  BY <1>1 DEF Ends
<1>4. CASE Enter(u)
  BY <1>1, <1>3, <1>4 DEF Enter
<1>5. CASE Eval(u) \/ EvalFails(u)
  BY <1>2, <1>3, <1>5 DEF Eval, EvalFails
<1>6. CASE LocalRead(u)
  BY <1>6, LocalReadEffect
<1>7. CASE LocalWrite(u) \/ PruneRaises(u) \/ Prune(u)
  BY <1>2, <1>3, <1>7 DEF LocalWrite, PruneRaises, Prune
<1> QED  BY <1>4, <1>5, <1>6, <1>7 DEF Moves

\* Whoever prunes leaves at most Spare entries of other windows than his own
\* (rate_limiter.py 42-43, 101).
THEOREM PruningBounds == Spec => PruningKeepsFew
<1> DEFINE Few(t) == check[t].at = "prune" /\ check'[t].out \in {"allowed", "refused"} =>
                       Cardinality({k \in Present(Home[t])' :
                          table'[Home[t]][k].start # check[t].entry.start}) <= Spare
<1>1. Typed /\ [Next]_vars => [\A t \in Threads : Few(t)]_vars
  <2> SUFFICES ASSUME Typed, Next, NEW t \in Threads,
                      check[t].at = "prune", check'[t].out \in {"allowed", "refused"}
               PROVE  Prune(t)
    BY PruneLeaves
  <2>1. check[t].out = "none"
    BY CheckFacts DEF UnderWay
  <2>2. CASE check' = check
    BY <2>1, <2>2
  <2>3. ASSUME NEW u \in Threads, Moves(u) \/ Prune(u) PROVE Prune(t)
    <3>1. CASE u # t
      BY <2>1, <2>3, <3>1, OnlyOne DEF Others
    <3>2. CASE Prune(u) /\ u = t
      BY <3>2
    <3>3. CASE Moves(t) /\ u = t
      <4>1. PruneRaises(t)
        BY <3>3 DEF Moves, Enter, Eval, EvalFails, LocalRead, LocalWrite
      <4>2. check'[t].out = "raised"
        BY <4>1, EndsTyped DEF PruneRaises
      <4> QED  BY <4>2
    <3> QED  BY <2>3, <3>1, <3>2, <3>3
  <2> QED  BY <2>2, <2>3 DEF Next, Moves, Tick, RedisFails, RedisReturns
<1> QED  BY <1>1, AlwaysTyped, PTL DEF Spec, PruningKeepsFew
=============================================================================
