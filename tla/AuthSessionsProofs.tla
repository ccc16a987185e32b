------------------------- MODULE AuthSessionsProofs -------------------------
(***************************************************************************)
(* Theorems about AuthSessions, for any number of logins and requests, any *)
(* interleaving, crash, key loss and failing store.                        *)
(***************************************************************************)
EXTENDS AuthSessions, TLAPS

LEMMA InitTyped == Init => TypeOK
<1>. SUFFICES ASSUME Init PROVE TypeOK
  OBVIOUS
<1>1. key \in [Logins -> Keys]
  BY DEF Init, Keys, NoKey
<1>2. pc \in [Ops -> Labels] /\ tok \in [Ops -> Logins \cup {None}]
  BY DEF Init, Labels
<1>3. purpose \in [Requests -> {"use", "logout"}] /\ crashes \in 0..MaxCrashes
  BY CrashesAssumption DEF Init
<1>4. \A o \in Ops : o \in Logins \/ pc[o] # "idle" => tok[o] \in Logins
  BY DEF Init, Ops
<1>. QED
  BY <1>1, <1>2, <1>3, <1>4 DEF Init, TypeOK

\* Whatever a Redis command leaves under a key is a key.
LEMMA CommandsTyped ==
    ASSUME TypeOK, NEW t \in Logins
    PROVE  /\ Deleted(t) \in [Logins -> Keys]
           /\ WithAll(t) \in [Logins -> Keys]
           /\ WithActivity(t) \in [Logins -> Keys]
           /\ WithTtl(t) \in [Logins -> Keys]
<1>1. key \in [Logins -> Keys] /\ key[t] \in Keys
  BY DEF TypeOK
<1>2. /\ NoKey \in Keys
      /\ [key[t] EXCEPT !.fields = "all"] \in Keys
      /\ [key[t] EXCEPT !.fields = IF @ = "none" THEN "activity" ELSE @] \in Keys
      /\ [key[t] EXCEPT !.ttl = (key[t].fields # "none")] \in Keys
  BY <1>1 DEF Keys, NoKey
<1>. QED
  BY <1>1, <1>2 DEF Deleted, WithAll, WithActivity, WithTtl

\* An operation that holds a token and does nothing but a Redis command.
LEMMA RedisKeepsTypes ==
    ASSUME TypeOK, NEW o \in Ops, o \in Logins \/ pc[o] # "idle",
           NEW after \in [Logins -> Keys], NEW ok \in Labels, NEW failed \in Labels,
           Redis(o, after, ok, failed), known' \subseteq Logins,
           UNCHANGED <<rows, expired, tok, purpose, crashes, granted, gone>>
    PROVE  TypeOK'
<1>1. key' \in [Logins -> Keys] /\ pc' \in [Ops -> Labels]
  BY DEF Redis, Goto, TypeOK
<1>2. \A p \in Ops : p = o \/ pc'[p] = pc[p]
  BY DEF Redis, Goto, TypeOK
<1>3. tok[o] \in Logins
  BY DEF TypeOK
<1>. QED
  BY <1>1, <1>2, <1>3 DEF TypeOK

LEMMA NextKeepsTypes == TypeOK /\ [Next]_vars => TypeOK'
<1>. SUFFICES ASSUME TypeOK, [Next]_vars PROVE TypeOK'
  OBVIOUS
<1>. USE OpsAssumption, NoneAssumption, CrashesAssumption
<1>. USE DEF Ops, Labels, Ended, Goto
<1>1. ASSUME NEW l \in Logins, Login(l) \/ Expire(l) \/ LoseKey(l) PROVE TypeOK'
  <2>1. CASE InsertRow(l)
    BY <2>1 DEF InsertRow, TypeOK
  <2>2. CASE CreateKey(l)
    BY <2>2, CommandsTyped, RedisKeepsTypes DEF CreateKey, TypeOK
  <2>3. CASE SetTtl(l)
    <3>1. CASE Redis(l, WithTtl(l), "lookup", "rollback") /\ UNCHANGED known
      BY <2>3, <3>1, CommandsTyped, RedisKeepsTypes DEF SetTtl, TypeOK
    <3>2. CASE key' = WithTtl(l) /\ Goto(l, "done") /\ known' = known \cup {l}
      BY <2>3, <3>2, CommandsTyped DEF SetTtl, TypeOK
    <3>. QED
      BY <2>3, <3>1, <3>2 DEF SetTtl
  <2>4. CASE Rollback(l)
    BY <2>4 DEF Rollback, TypeOK
  <2>5. CASE Expire(l)
    BY <2>5 DEF Expire, TypeOK
  <2>6. CASE LoseKey(l)
    BY <2>6, CommandsTyped DEF LoseKey, TypeOK
  <2>. QED
    BY <1>1, <2>1, <2>2, <2>3, <2>4, <2>5, <2>6 DEF Login
<1>2. ASSUME NEW r \in Requests, StartRequest(r) \/ Logout(r) PROVE TypeOK'
  <2>1. CASE StartRequest(r)
    BY <2>1 DEF StartRequest, TypeOK
  <2>2. CASE RevokeRow(r)
    BY <2>2 DEF RevokeRow, TypeOK
  <2>3. CASE RevokeKey(r)
    <3>1. tok[r] \in Logins /\ pc[r] # "idle"
      BY <2>3 DEF RevokeKey, TypeOK
    <3>. QED
      BY <2>3, <3>1, CommandsTyped, RedisKeepsTypes DEF RevokeKey, TypeOK
  <2>. QED
    BY <1>2, <2>1, <2>2, <2>3 DEF Logout
<1>3. ASSUME NEW o \in Ops, Resolve(o) \/ DbError(o) PROVE TypeOK'
  <2>0. o \in Logins \/ pc[o] # "idle" => tok[o] \in Logins
    BY DEF TypeOK
  <2>1. CASE Lookup(o)
    BY <2>1 DEF Lookup, Unavailable, stores, TypeOK
  <2>2. CASE DropKey(o)
    <3>1. tok[o] \in Logins /\ pc[o] # "idle" /\ Unavailable(o) \in Labels
      BY <2>0, <2>2 DEF DropKey, Unavailable
    <3>. QED
      BY <2>2, <3>1, CommandsTyped, RedisKeepsTypes DEF DropKey, TypeOK
  <2>3. CASE Touch(o)
    <3>1. tok[o] \in Logins /\ pc[o] # "idle" /\ Unavailable(o) \in Labels
      BY <2>0, <2>3 DEF Touch, Unavailable
    <3>. QED
      BY <2>3, <3>1, CommandsTyped, RedisKeepsTypes DEF Touch, TypeOK
  <2>4. CASE DropRow(o)
    BY <2>4 DEF DropRow, Denied, TypeOK
  <2>5. CASE SelectRow(o)
    BY <2>0, <2>5 DEF SelectRow, Denied, TypeOK
  <2>6. CASE ForgetKey(o)
    <3>1. tok[o] \in Logins /\ pc[o] # "idle" /\ Denied(o) \in Labels
      BY <2>0, <2>6 DEF ForgetKey, Denied
    <3>. QED
      BY <2>6, <3>1, CommandsTyped, RedisKeepsTypes DEF ForgetKey, TypeOK
  <2>7. CASE DbError(o)
    BY <2>7 DEF DbError, stores, TypeOK
  <2>. QED
    BY <1>3, <2>1, <2>2, <2>3, <2>4, <2>5, <2>6, <2>7 DEF Resolve
<1>4. CASE Crash
  BY <1>4 DEF Crash, stores, TypeOK, InFlight
<1>5. CASE UNCHANGED vars
  BY <1>5 DEF vars, TypeOK
<1>. QED
  BY <1>1, <1>2, <1>3, <1>4, <1>5 DEF Next

\* Every variable keeps its type, and only an operation that holds a token runs.
THEOREM AuthTyped == Spec => []TypeOK
  BY InitTyped, NextKeepsTypes, PTL DEF Spec

-----------------------------------------------------------------------------
\* Who holds which token: a login its own, a request one that was handed out.
TokensHeld ==
    /\ \A l \in Logins : tok[l] = l
    /\ \A t \in known : pc[t] = "done"
    /\ \A r \in Requests : pc[r] # "idle" => tok[r] \in known

\* A login that has not begun, or was refused, has no row.
NoEarlyRow == \A l \in Logins : pc[l] \in {"idle", "refused"} => l \notin rows

RowInv == TypeOK /\ TokensHeld /\ NoEarlyRow /\ LogoutIsFinal

\* The inventory of what one operation may do to the rows and the tokens.
LEMMA OneOperationMoves ==
    ASSUME RowInv, TypeOK', NEW o \in Ops, NEW label \in Labels \ {"idle"}, Goto(o, label),
           o \in Logins \/ pc[o] # "idle", pc[o] \notin Ended, tok' = tok, rows' \subseteq rows,
           known' = known \/ (known' = known \cup {o} /\ o \in Logins /\ label = "done"),
           label = "refused" => o \notin rows',
           label \in {"revokeKey", "loggedOut"} => o \in Logins \/ tok[o] \notin rows'
    PROVE  RowInv'
<1>. USE OpsAssumption DEF RowInv, Ops
<1>1. pc'[o] = label /\ \A p \in Ops \ {o} : pc'[p] = pc[p]
  BY DEF Goto, TypeOK
<1>2. TokensHeld'
  <2>1. known \subseteq Logins
    BY DEF TypeOK
  <2>. QED
    BY <1>1, <2>1 DEF TokensHeld, Ended
<1>3. ASSUME NEW l \in Logins, pc'[l] \in {"idle", "refused"} PROVE l \notin rows'
  <2>1. CASE l = o
    BY <1>1, <1>3, <2>1
  <2>2. CASE l # o
    BY <1>1, <1>3, <2>2 DEF NoEarlyRow
  <2>. QED
    BY <2>1, <2>2
<1>4. ASSUME NEW r \in Requests, pc'[r] \in {"revokeKey", "loggedOut"}
      PROVE  tok'[r] \notin rows'
  <2>1. CASE r = o
    BY <1>1, <1>4, <2>1
  <2>2. CASE r # o
    BY <1>1, <1>4, <2>2 DEF LogoutIsFinal
  <2>. QED
    BY <2>1, <2>2
<1>. QED
  BY <1>2, <1>3, <1>4 DEF LogoutIsFinal, NoEarlyRow

LEMMA NextKeepsRowInv == RowInv /\ [Next]_vars => RowInv'
<1>. SUFFICES ASSUME RowInv, [Next]_vars PROVE RowInv'
  OBVIOUS
<1>0. TypeOK'
  BY NextKeepsTypes DEF RowInv
<1>1. pc \in [Ops -> Labels] /\ tok \in [Ops -> Logins \cup {None}] /\ known \subseteq Logins
  BY DEF RowInv, TypeOK
<1>. USE OpsAssumption DEF Ops
<1>2. ASSUME NEW l \in Logins, Login(l) PROVE RowInv'
  <2>1. CASE InsertRow(l)
    <3>1. /\ \A p \in Ops : pc'[p] = IF p = l THEN pc'[l] ELSE pc[p]
          /\ pc[l] = "idle" /\ pc'[l] \in {"hset", "denied"}
      BY <1>1, <2>1 DEF InsertRow, Goto
    <3>2. rows' \subseteq rows \cup {l} /\ UNCHANGED <<known, tok>>
      BY <2>1 DEF InsertRow
    <3>3. l \notin known
      BY <3>1 DEF RowInv, TokensHeld
    <3>4. TokensHeld' /\ NoEarlyRow'
      BY <1>1, <3>1, <3>2, <3>3 DEF RowInv, TokensHeld, NoEarlyRow
    <3>5. ASSUME NEW r \in Requests, pc'[r] \in {"revokeKey", "loggedOut"}
          PROVE  tok'[r] \notin rows'
      <4>1. pc'[r] = pc[r] /\ tok'[r] = tok[r]
        BY <3>1, <3>2
      <4>2. tok[r] \notin rows /\ tok[r] \in known
        BY <3>5, <4>1 DEF RowInv, LogoutIsFinal, TokensHeld
      <4>. QED
        BY <3>2, <3>3, <4>1, <4>2
    <3>. QED
      BY <1>0, <3>4, <3>5 DEF RowInv, LogoutIsFinal
  <2>2. CASE CreateKey(l)
    BY <1>0, <2>2, OneOperationMoves DEF CreateKey, Redis, Labels, Ended
  <2>3. CASE SetTtl(l)
    BY <1>0, <2>3, OneOperationMoves DEF SetTtl, Redis, Labels, Ended
  <2>4. CASE Rollback(l)
    BY <1>0, <2>4, OneOperationMoves DEF Rollback, Labels, Ended
  <2>. QED
    BY <1>2, <2>1, <2>2, <2>3, <2>4 DEF Login
<1>3. ASSUME NEW l \in Logins, Expire(l) \/ LoseKey(l) PROVE RowInv'
  BY <1>0, <1>3 DEF Expire, LoseKey, RowInv, TokensHeld, NoEarlyRow, LogoutIsFinal
<1>4. ASSUME NEW r \in Requests, StartRequest(r) PROVE RowInv'
  <2>1. \A p \in Ops : p # r => pc'[p] = pc[p] /\ tok'[p] = tok[p]
    BY <1>1, <1>4 DEF StartRequest, Goto
  <2>2. pc'[r] = "lookup" /\ tok'[r] \in known /\ UNCHANGED <<rows, known>>
    BY <1>1, <1>4 DEF StartRequest, Goto
  <2>. QED
    BY <1>0, <1>1, <2>1, <2>2 DEF RowInv, TokensHeld, NoEarlyRow, LogoutIsFinal
<1>5. ASSUME NEW r \in Requests, Logout(r) PROVE RowInv'
  <2>1. CASE RevokeRow(r)
    BY <1>0, <2>1, OneOperationMoves DEF RevokeRow, Labels, Ended
  <2>2. CASE RevokeKey(r)
    <3>1. tok[r] \notin rows
      BY <2>2 DEF RevokeKey, RowInv, LogoutIsFinal
    <3>. QED
      BY <1>0, <2>2, <3>1, OneOperationMoves DEF RevokeKey, Redis, Labels, Ended
  <2>. QED
    BY <1>5, <2>1, <2>2 DEF Logout
<1>6. ASSUME NEW o \in Ops, Resolve(o) PROVE RowInv'
  <2>1. CASE Lookup(o)
    BY <1>0, <2>1, OneOperationMoves DEF Lookup, Unavailable, stores, Labels, Ended
  <2>2. CASE DropKey(o)
    BY <1>0, <2>2, OneOperationMoves DEF DropKey, Redis, Unavailable, Labels, Ended
  <2>3. CASE Touch(o)
    BY <1>0, <2>3, OneOperationMoves DEF Touch, Redis, Unavailable, Labels, Ended
  <2>4. CASE DropRow(o)
    BY <1>0, <2>4, OneOperationMoves DEF DropRow, Denied, Labels, Ended
  <2>5. CASE SelectRow(o)
    <3>1. tok[o] = o \/ o \in Requests
      BY DEF RowInv, TokensHeld
    <3>. QED
      BY <1>0, <2>5, <3>1, OneOperationMoves DEF SelectRow, Denied, Labels, Ended
  <2>6. CASE ForgetKey(o)
    BY <1>0, <2>6, OneOperationMoves DEF ForgetKey, Redis, Denied, Labels, Ended
  <2>. QED
    BY <1>6, <2>1, <2>2, <2>3, <2>4, <2>5, <2>6 DEF Resolve
<1>7. ASSUME NEW o \in Ops, DbError(o) PROVE RowInv'
  BY <1>0, <1>7, OneOperationMoves DEF DbError, stores, Labels, Ended
<1>8. CASE Crash
  <2>1. UNCHANGED <<rows, known, tok>>
    BY <1>8 DEF Crash, stores
  <2>2. \A o \in Ops : pc'[o] = pc[o] \/ (pc'[o] = "dead" /\ InFlight(o))
    BY <1>1, <1>8 DEF Crash
  <2>. QED
    BY <1>0, <1>1, <2>1, <2>2 DEF RowInv, TokensHeld, NoEarlyRow, LogoutIsFinal, InFlight, Ended
<1>9. CASE UNCHANGED vars
  BY <1>0, <1>9 DEF vars, RowInv, TokensHeld, NoEarlyRow, LogoutIsFinal
<1>. QED
  BY <1>2, <1>3, <1>4, <1>5, <1>6, <1>7, <1>8, <1>9 DEF Next

LEMMA AlwaysRowInv == Spec => []RowInv
<1>1. Init => RowInv
  BY InitTyped, OpsAssumption
     DEF Init, RowInv, TokensHeld, NoEarlyRow, LogoutIsFinal, Ops
<1>. QED
  BY <1>1, NextKeepsRowInv, PTL DEF Spec

\* A logout that was answered ended the session for good (auth_service.py 182-192).
THEOREM LogoutEndsSession == Spec => []LogoutIsFinal
  BY AlwaysRowInv, PTL DEF RowInv

\* A refused login leaves no row behind (auth_service.py 96-109).
THEOREM RefusedLoginIsUndone == Spec => []RefusedLoginLeavesNoRow
<1>1. RowInv => RefusedLoginLeavesNoRow
  BY DEF RowInv, NoEarlyRow, RefusedLoginLeavesNoRow
<1>. QED
  BY <1>1, AlwaysRowInv, PTL

-----------------------------------------------------------------------------
EndedTokens == {l \in Logins : pc[l] # "idle" /\ l \notin rows}

\* A step that removes the row of an issued token, or none at all, is an End or
\* a stutter of the lifecycle.
LEMMA RowRemovalEnds ==
    ASSUME RowInv, NEW t \in Logins, pc[t] # "idle", rows' = rows \ {t},
           \A l \in Logins : pc'[l] = "idle" <=> pc[l] = "idle", UNCHANGED <<expired, granted>>
    PROVE  [Lifecycle!Next]_(Lifecycle!vars)
<1>1. rows \subseteq Logins
  BY DEF RowInv, TypeOK
<1>2. CASE t \in rows
  <2>1. EndedTokens' = EndedTokens \cup {t} /\ t \notin EndedTokens
    BY <1>2 DEF EndedTokens
  <2>. QED
    BY <2>1 DEF Lifecycle!Next, Lifecycle!End, EndedTokens
<1>3. CASE t \notin rows
  <2>1. rows' = rows /\ EndedTokens' = EndedTokens
    BY <1>3 DEF EndedTokens
  <2>. QED
    BY <2>1 DEF Lifecycle!vars, EndedTokens
<1>. QED
  BY <1>2, <1>3

\* A step that leaves the rows and the grants alone is a stutter.
LEMMA NoRowStutters ==
    ASSUME UNCHANGED <<rows, expired, granted>>,
           \A l \in Logins : pc'[l] = "idle" <=> pc[l] = "idle"
    PROVE  UNCHANGED Lifecycle!vars
<1>1. EndedTokens' = EndedTokens
  BY DEF EndedTokens
<1>. QED
  BY <1>1 DEF Lifecycle!vars, EndedTokens

LEMMA StepIsLifecycleStep ==
    ASSUME RowInv, [Next]_vars
    PROVE  [Lifecycle!Next]_(Lifecycle!vars)
<1>1. /\ pc \in [Ops -> Labels] /\ tok \in [Ops -> Logins \cup {None}]
      /\ rows \subseteq Logins /\ known \subseteq Logins
  BY DEF RowInv, TypeOK
<1>. USE OpsAssumption DEF Ops
<1>2. ASSUME NEW o \in Ops, pc[o] # "idle", o \in Logins \/ o \in Requests
      PROVE  tok[o] \in Logins /\ pc[tok[o]] # "idle"
  BY <1>1, <1>2 DEF RowInv, TokensHeld
<1>3. ASSUME NEW l \in Logins, InsertRow(l) PROVE [Lifecycle!Next]_(Lifecycle!vars)
  <2>1. l \notin rows
    BY <1>3 DEF InsertRow, RowInv, NoEarlyRow
  <2>2. CASE rows' = rows \cup {l}
    <3>1. EndedTokens' = EndedTokens /\ l \notin EndedTokens
      BY <1>1, <1>3, <2>1, <2>2 DEF InsertRow, Goto, EndedTokens
    <3>. QED
      BY <1>3, <2>1, <2>2, <3>1 DEF InsertRow, Lifecycle!Next, Lifecycle!Issue, EndedTokens
  <2>3. CASE UNCHANGED rows /\ Goto(l, "denied")
    <3>1. EndedTokens' = EndedTokens \cup {l} /\ l \notin EndedTokens
      BY <1>1, <1>3, <2>1, <2>3 DEF InsertRow, Goto, EndedTokens
    <3>2. rows' = rows \ {l}
      BY <2>1, <2>3
    <3>. QED
      BY <1>3, <3>1, <3>2 DEF InsertRow, Lifecycle!Next, Lifecycle!End, EndedTokens
  <2>. QED
    BY <1>3, <2>2, <2>3 DEF InsertRow
<1>4. ASSUME NEW l \in Logins, CreateKey(l) \/ SetTtl(l) \/ LoseKey(l)
      PROVE  [Lifecycle!Next]_(Lifecycle!vars)
  BY <1>1, <1>4, NoRowStutters DEF CreateKey, SetTtl, LoseKey, Redis, Goto
<1>5. ASSUME NEW l \in Logins, Rollback(l) PROVE [Lifecycle!Next]_(Lifecycle!vars)
  BY <1>1, <1>5, RowRemovalEnds DEF Rollback, Goto
<1>6. ASSUME NEW l \in Logins, Expire(l) PROVE [Lifecycle!Next]_(Lifecycle!vars)
  BY <1>6 DEF Expire, Lifecycle!Next, Lifecycle!Expire
<1>7. ASSUME NEW r \in Requests, StartRequest(r) \/ RevokeKey(r)
      PROVE  [Lifecycle!Next]_(Lifecycle!vars)
  BY <1>1, <1>7, NoRowStutters DEF StartRequest, RevokeKey, Redis, Goto
<1>8. ASSUME NEW r \in Requests, RevokeRow(r) PROVE [Lifecycle!Next]_(Lifecycle!vars)
  <2>1. tok[r] \in Logins /\ pc[tok[r]] # "idle"
    BY <1>2, <1>8 DEF RevokeRow
  <2>. QED
    BY <1>1, <1>8, <2>1, RowRemovalEnds DEF RevokeRow, Goto
<1>9. ASSUME NEW o \in Ops, Lookup(o) \/ DropKey(o) \/ Touch(o) \/ ForgetKey(o)
      PROVE  [Lifecycle!Next]_(Lifecycle!vars)
  BY <1>1, <1>9, NoRowStutters
     DEF Lookup, DropKey, Touch, ForgetKey, Redis, Goto, Unavailable, Denied, stores
<1>10. ASSUME NEW o \in Ops, DropRow(o) PROVE [Lifecycle!Next]_(Lifecycle!vars)
  <2>1. tok[o] \in Logins /\ pc[tok[o]] # "idle"
    BY <1>2, <1>10 DEF DropRow
  <2>. QED
    BY <1>1, <1>10, <2>1, RowRemovalEnds DEF DropRow, Denied, Goto
<1>11. ASSUME NEW o \in Ops, SelectRow(o) PROVE [Lifecycle!Next]_(Lifecycle!vars)
  <2>1. tok[o] \in Logins /\ pc[tok[o]] # "idle"
    BY <1>2, <1>11 DEF SelectRow
  <2>2. \A l \in Logins : pc'[l] = "idle" <=> pc[l] = "idle"
    BY <1>1, <1>11 DEF SelectRow, Denied, Goto
  <2>3. CASE UNCHANGED <<rows, granted>>
    BY <1>11, <2>2, <2>3, NoRowStutters DEF SelectRow
  <2>4. CASE rows' = rows \ {tok[o]} /\ UNCHANGED granted
    BY <1>11, <2>1, <2>2, <2>4, RowRemovalEnds DEF SelectRow
  <2>5. CASE tok[o] \in rows \ expired /\ granted' = granted \cup {<<o, tok[o]>>} /\ UNCHANGED rows
    <3>1. EndedTokens' = EndedTokens
      BY <2>2, <2>5 DEF EndedTokens
    <3>. QED
      BY <1>11, <2>1, <2>5, <3>1 DEF SelectRow, Lifecycle!Next, Lifecycle!Grant, EndedTokens
  <2>. QED
    BY <1>11, <2>3, <2>4, <2>5 DEF SelectRow
<1>12. ASSUME NEW o \in Ops, DbError(o) PROVE [Lifecycle!Next]_(Lifecycle!vars)
  <2>1. UNCHANGED <<rows, expired, granted>>
    BY <1>12 DEF DbError, stores
  <2>2. CASE o \in Logins /\ pc[o] = "idle"
    <3>1. o \notin rows
      BY <2>2 DEF RowInv, NoEarlyRow
    <3>2. EndedTokens' = EndedTokens \cup {o} /\ o \notin EndedTokens /\ rows' = rows \ {o}
      BY <1>1, <1>12, <2>1, <2>2, <3>1 DEF DbError, Goto, EndedTokens
    <3>. QED
      BY <2>1, <2>2, <3>2 DEF Lifecycle!Next, Lifecycle!End, EndedTokens
  <2>3. CASE ~(o \in Logins /\ pc[o] = "idle")
    BY <1>1, <1>12, <2>1, <2>3, NoRowStutters DEF DbError, Goto
  <2>. QED
    BY <2>2, <2>3
<1>13. CASE Crash
  <2>1. UNCHANGED <<rows, expired, granted>>
    BY <1>13 DEF Crash, stores
  <2>2. \A l \in Logins : pc'[l] = "idle" <=> pc[l] = "idle"
    BY <1>1, <1>13 DEF Crash, InFlight
  <2>. QED
    BY <2>1, <2>2, NoRowStutters
<1>14. CASE UNCHANGED vars
  BY <1>14, NoRowStutters DEF vars
<1>. QED
  BY <1>3, <1>4, <1>5, <1>6, <1>7, <1>8, <1>9, <1>10, <1>11, <1>12, <1>13, <1>14
     DEF Next, Login, Logout, Resolve

\* Two stores, one session: a token authorises only between its issue and its end
\* (auth_service.py 72-192).
THEOREM SessionsFollowLifecycle == Spec => ImplementsLifecycle
<1>1. Init => Lifecycle!Init
  BY DEF Init, Lifecycle!Init, Ops
<1>. QED
  BY <1>1, StepIsLifecycleStep, AlwaysRowInv, PTL DEF Spec, ImplementsLifecycle, Lifecycle!Spec

-----------------------------------------------------------------------------
Past(t) == t \in expired \cup gone

\* A token that neither expired nor was lost keeps both its halves from the
\* moment its key is written.
Kept(l) ==
    /\ pc[l] = "hset" => l \in rows
    /\ pc[l] \in {"setTtl", "lookup", "touch", "select"} \/ l \in known =>
           Past(l) \/ (l \in rows /\ key[l].fields = "all")

\* Once a login has passed EXPIRE, its full hash has a TTL.
HasTtl(l) ==
    pc[l] \in {"lookup", "touch", "select", "done"} => (key[l].fields = "all" => key[l].ttl)

\* A request takes a half of a session away only when the session is past.
Earned(r) ==
    pc[r] \in {"dropKey", "dropRow", "forgetKey", "revokeKey", "denied"} => Past(tok[r])

HalvesInv ==
    /\ RowInv
    /\ \A l \in Logins : Kept(l) /\ HasTtl(l)
    /\ \A r \in Requests : Earned(r)

\* An operation touches the halves of its own token only.
LEMMA OneTokenMoves ==
    ASSUME HalvesInv, RowInv', NEW o \in Ops, NEW label, Goto(o, label),
           o \in Logins \/ pc[o] # "idle", UNCHANGED <<tok, expired>>, gone \subseteq gone',
           known' \subseteq known \cup {tok[o]},
           \A l \in Logins \ {tok[o]} : (l \in rows => l \in rows') /\ key'[l] = key[l],
           Kept(tok[o])', HasTtl(tok[o])', o \in Requests => Earned(o)'
    PROVE  HalvesInv'
<1>. USE OpsAssumption DEF Ops
<1>1. pc'[o] = label /\ \A p \in Ops \ {o} : pc'[p] = pc[p]
  BY DEF Goto, HalvesInv, RowInv, TypeOK
<1>2. o \in Logins => tok[o] = o
  BY DEF HalvesInv, RowInv, TokensHeld
<1>3. ASSUME NEW l \in Logins PROVE Kept(l)' /\ HasTtl(l)'
  <2>1. CASE l = tok[o]
    BY <2>1
  <2>2. CASE l # tok[o]
    <3>1. pc'[l] = pc[l] /\ (l \in known' => l \in known) /\ key'[l] = key[l]
      BY <1>1, <1>2, <2>2
    <3>. QED
      BY <2>2, <3>1 DEF HalvesInv, Kept, HasTtl, Past
  <2>. QED
    BY <2>1, <2>2
<1>4. ASSUME NEW r \in Requests PROVE Earned(r)'
  <2>1. CASE r = o
    BY <2>1
  <2>2. CASE r # o
    BY <1>1, <2>2 DEF HalvesInv, Earned, Past
  <2>. QED
    BY <2>1, <2>2
<1>. QED
  BY <1>3, <1>4 DEF HalvesInv

\* The four things a Redis command can do to the fields and the TTL of a key.
LEMMA CommandsMean ==
    ASSUME TypeOK, NEW t \in Logins
    PROVE  /\ \A l \in Logins \ {t} : /\ Deleted(t)[l] = key[l] /\ WithAll(t)[l] = key[l]
                                      /\ WithActivity(t)[l] = key[l] /\ WithTtl(t)[l] = key[l]
           /\ Deleted(t)[t].fields = "none"
           /\ WithAll(t)[t].fields = "all"
           /\ WithTtl(t)[t].fields = key[t].fields
           /\ WithTtl(t)[t].fields = "all" => WithTtl(t)[t].ttl
           /\ WithActivity(t)[t].fields = "all" <=> key[t].fields = "all"
           /\ WithActivity(t)[t].ttl = key[t].ttl
<1>1. key \in [Logins -> Keys] /\ key[t] \in Keys
  BY DEF TypeOK
<1>. QED
  BY <1>1 DEF Keys, NoKey, Deleted, WithAll, WithActivity, WithTtl

\* A login writes the row first, then the key, then its TTL.
LEMMA LoginKeepsHalves ==
    ASSUME HalvesInv, RowInv', NEW l \in Logins, Login(l)
    PROVE  HalvesInv'
<1>. USE OpsAssumption DEF Ops
<1>0. /\ TypeOK /\ pc \in [Ops -> Labels] /\ tok[l] = l /\ l \in Ops /\ l \notin Requests
      /\ Kept(l) /\ HasTtl(l) /\ (l \in known => pc[l] = "done")
      /\ rows' \subseteq Logins
  BY DEF HalvesInv, RowInv, TypeOK, TokensHeld
<1>1. CASE InsertRow(l)
  <2>1. /\ pc[l] = "idle" /\ UNCHANGED <<key, expired, known, tok, gone>>
        /\ rows \subseteq rows' /\ \E label \in {"hset", "denied"} : Goto(l, label)
    BY <1>1 DEF InsertRow
  <2>2. pc'[l] = "denied" \/ (pc'[l] = "hset" /\ l \in rows')
    BY <1>0, <1>1 DEF InsertRow, Goto
  <2>3. Kept(l)' /\ HasTtl(l)'
    BY <1>0, <2>1, <2>2 DEF Kept, HasTtl
  <2>. QED
    BY <1>0, <2>1, <2>3, OneTokenMoves
<1>2. CASE CreateKey(l)
  <2>1. /\ pc[l] = "hset" /\ UNCHANGED <<rows, expired, known, tok, gone>>
        /\ \/ key' = WithAll(l) /\ Goto(l, "setTtl")
           \/ key' \in {key, WithAll(l)} /\ Goto(l, "rollback")
    BY <1>2 DEF CreateKey, Redis
  <2>2. Kept(l)' /\ HasTtl(l)'
    <3>1. \/ pc'[l] = "setTtl" /\ key'[l].fields = "all"
          \/ pc'[l] = "rollback"
      BY <1>0, <2>1, CommandsMean DEF Goto
    <3>2. l \notin known /\ known' = known
      BY <1>0, <2>1
    <3>3. l \in rows'
      BY <1>0, <2>1 DEF Kept
    <3>. QED
      BY <3>1, <3>2, <3>3 DEF Kept, HasTtl
  <2>3. \A m \in Logins \ {l} : key'[m] = key[m]
    BY <1>0, <2>1, CommandsMean
  <2>. QED
    BY <1>0, <2>1, <2>2, <2>3, OneTokenMoves
<1>3. CASE SetTtl(l)
  <2>1. /\ pc[l] = "setTtl" /\ UNCHANGED <<rows, expired, tok, gone>>
        /\ \/ key' = WithTtl(l) /\ Goto(l, "lookup") /\ known' = known
           \/ key' = WithTtl(l) /\ Goto(l, "done") /\ known' = known \cup {l}
           \/ key' \in {key, WithTtl(l)} /\ Goto(l, "rollback") /\ known' = known
    BY <1>3 DEF SetTtl, Redis
  <2>2. Kept(l)' /\ HasTtl(l)'
    <3>1. Past(l) \/ (l \in rows /\ key[l].fields = "all")
      BY <1>0, <2>1 DEF Kept
    <3>2. \/ pc'[l] \in {"lookup", "done"} /\ key'[l].fields = key[l].fields
             /\ (key'[l].fields = "all" => key'[l].ttl)
          \/ pc'[l] = "rollback" /\ l \notin known'
      BY <1>0, <2>1, CommandsMean DEF Goto
    <3>. QED
      BY <2>1, <3>1, <3>2 DEF Kept, HasTtl, Past
  <2>3. \A m \in Logins \ {l} : key'[m] = key[m]
    BY <1>0, <2>1, CommandsMean
  <2>. QED
    BY <1>0, <2>1, <2>2, <2>3, OneTokenMoves
<1>4. CASE Rollback(l)
  <2>1. /\ pc[l] = "rollback" /\ UNCHANGED <<key, expired, known, tok, gone>>
        /\ rows' = rows \ {l} /\ Goto(l, "refused")
    BY <1>4 DEF Rollback
  <2>2. pc'[l] = "refused" /\ l \notin known'
    BY <1>0, <2>1 DEF Goto
  <2>3. Kept(l)' /\ HasTtl(l)'
    BY <2>2 DEF Kept, HasTtl
  <2>. QED
    BY <1>0, <2>1, <2>3, OneTokenMoves
<1>. QED
  BY <1>1, <1>2, <1>3, <1>4 DEF Login

\* A lookup that misses, a purge, a refused row and a logout meet a past token.
LEMMA ResolveKeepsHalves ==
    ASSUME HalvesInv, RowInv', NEW o \in Ops, Resolve(o) \/ (o \in Requests /\ Logout(o))
    PROVE  HalvesInv'
<1>. USE OpsAssumption DEF Ops
<1>00. /\ TypeOK /\ pc[o] # "idle"
  BY DEF HalvesInv, RowInv, Resolve, Logout, Lookup, DropKey, Touch, DropRow, SelectRow,
     ForgetKey, RevokeRow, RevokeKey
<1>t. PICK t \in Logins : t = tok[o]
  BY <1>00 DEF TypeOK
<1>. USE <1>t
<1>0. /\ TypeOK /\ pc \in [Ops -> Labels] /\ pc[o] # "idle" /\ t \in Logins /\ key[t] \in Keys
      /\ UNCHANGED <<tok, expired>> /\ gone \subseteq gone'
      /\ known' \subseteq known \cup {t} /\ known \subseteq known'
  <2>1. UNCHANGED <<tok, expired>> /\ gone \subseteq gone' /\ known' \subseteq known \cup {t}
        /\ known \subseteq known'
    BY DEF Resolve, Logout, Lookup, DropKey, Touch, DropRow, SelectRow, ForgetKey, RevokeRow,
       RevokeKey, stores
  <2>. QED
    BY <1>00, <2>1 DEF TypeOK
<1>1. PICK label \in Labels : Goto(o, label)
  BY DEF Resolve, Logout, Lookup, DropKey, Touch, DropRow, SelectRow, ForgetKey, RevokeRow,
     RevokeKey, Redis, Unavailable, Denied, Labels, Ended
<1>2. /\ o \in Logins => t = o /\ (pc[o] = "done" \/ o \notin known)
      /\ o \in Requests => t \in known /\ pc[t] = "done" /\ pc'[t] = "done"
      /\ pc'[o] = label
  BY <1>0, <1>1 DEF Goto, HalvesInv, RowInv, TokensHeld
<1>3. Kept(t) /\ HasTtl(t) /\ (o \in Requests => Earned(o))
  BY <1>0 DEF HalvesInv
<1>4. Past(t) => Past(t)'
  BY <1>0 DEF Past
<1>5. ASSUME \A l \in Logins \ {t} : (l \in rows => l \in rows') /\ key'[l] = key[l],
             Kept(t)', HasTtl(t)', o \in Requests => Earned(o)'
      PROVE  HalvesInv'
  BY <1>0, <1>1, <1>5, OneTokenMoves
<1>6. CASE Lookup(o)
  <2>1. /\ pc[o] = "lookup" /\ UNCHANGED <<rows, key, known, gone>>
        /\ \/ label = "dropRow" /\ key[t].fields = "none"
           \/ label = "touch" /\ key[t].fields = "all"
           \/ label = "dropKey" /\ (key[t].fields = "activity" \/ t \in expired)
           \/ label \in {"error", "unavailable"}
    BY <1>0, <1>1, <1>2, <1>6 DEF Lookup, Goto, stores, Unavailable
  <2>2. Kept(t)' /\ HasTtl(t)'
    BY <1>0, <1>2, <1>3, <1>4, <2>1 DEF Kept, HasTtl, Past
  <2>3. o \in Requests => Earned(o)'
    BY <1>0, <1>2, <1>3, <2>1 DEF Kept, Earned, Past
  <2>. QED
    BY <1>5, <2>1, <2>2, <2>3
<1>7. CASE Touch(o)
  <2>1. /\ pc[o] = "touch" /\ key' \in {key, WithActivity(t)}
        /\ UNCHANGED <<rows, known, gone>>
        /\ label \in {"select", "error", "unavailable"}
    BY <1>0, <1>1, <1>2, <1>7 DEF Touch, Redis, Goto, Unavailable
  <2>2. /\ key'[t].fields = "all" <=> key[t].fields = "all"
        /\ key'[t].ttl = key[t].ttl
        /\ \A l \in Logins \ {t} : key'[l] = key[l]
    BY <1>0, <2>1, CommandsMean
  <2>3. Kept(t)' /\ HasTtl(t)'
    BY <1>0, <1>2, <1>3, <1>4, <2>1, <2>2 DEF Kept, HasTtl, Past
  <2>4. o \in Requests => Earned(o)'
    BY <1>2, <2>1 DEF Earned
  <2>. QED
    BY <1>5, <2>1, <2>2, <2>3, <2>4
<1>8. CASE DropKey(o) \/ ForgetKey(o) \/ RevokeKey(o)
  <2>1. /\ pc[o] \in {"dropKey", "forgetKey", "revokeKey"} /\ key' \in {key, Deleted(t)}
        /\ UNCHANGED <<rows, known, gone>>
        /\ label \in {"dropRow", "error", "unavailable", "denied", "loggedOut"}
    BY <1>0, <1>1, <1>2, <1>8 DEF DropKey, ForgetKey, RevokeKey, Redis, Goto, Unavailable,
       Denied
  <2>2. /\ key'[t].fields = "all" => key'[t] = key[t]
        /\ \A l \in Logins \ {t} : key'[l] = key[l]
    BY <1>0, <2>1, CommandsMean
  <2>3. o \in Requests => Past(t) /\ Past(t)'
    BY <1>3, <1>4, <2>1 DEF Earned
  <2>4. o \in Logins => t \notin known
    BY <1>2, <2>1
  <2>5. Kept(t)' /\ HasTtl(t)'
    BY <1>0, <1>2, <1>3, <2>1, <2>2, <2>3, <2>4 DEF Kept, HasTtl
  <2>6. o \in Requests => Earned(o)'
    BY <1>0, <2>3 DEF Earned, Past
  <2>. QED
    BY <1>5, <2>1, <2>2, <2>5, <2>6
<1>9. CASE DropRow(o) \/ RevokeRow(o)
  <2>1. /\ pc[o] \in {"dropRow", "revokeRow"} /\ rows' = rows \ {t} /\ UNCHANGED <<key, known>>
        /\ pc[o] = "revokeRow" => t \in gone'
        /\ label \in {"error", "denied", "revokeKey"}
    BY <1>0, <1>1, <1>2, <1>9 DEF DropRow, RevokeRow, Goto, Denied
  <2>2. o \in Requests => Past(t)'
    BY <1>3, <1>4, <2>1 DEF Earned, Past
  <2>3. o \in Logins => t \notin known
    BY <1>2, <2>1
  <2>4. Kept(t)' /\ HasTtl(t)'
    BY <1>0, <1>2, <1>3, <2>1, <2>2, <2>3 DEF Kept, HasTtl
  <2>5. o \in Requests => Earned(o)'
    BY <1>0, <2>2 DEF Earned, Past
  <2>. QED
    BY <1>5, <2>1, <2>4, <2>5
<1>10. CASE SelectRow(o)
  <2>1. /\ pc[o] = "select" /\ UNCHANGED <<key, gone>>
        /\ \/ label = "forgetKey" /\ t \notin rows /\ UNCHANGED <<rows, known>>
           \/ label \in {"error", "denied"} /\ t \in expired /\ rows' = rows \ {t} /\ known' = known
           \/ /\ label \in {"done", "revokeRow", "granted"} /\ rows' = rows
              /\ o \in Logins => label = "done"
    BY <1>0, <1>1, <1>2, <1>10 DEF SelectRow, Goto, Denied
  <2>2. Kept(t)' /\ HasTtl(t)'
    BY <1>0, <1>2, <1>3, <1>4, <2>1 DEF Kept, HasTtl, Past
  <2>3. o \in Requests => Earned(o)'
    BY <1>0, <1>2, <1>3, <2>1 DEF Kept, Earned, Past
  <2>. QED
    BY <1>5, <2>1, <2>2, <2>3
<1>. QED
  BY <1>6, <1>7, <1>8, <1>9, <1>10 DEF Resolve, Logout

LEMMA NextKeepsHalves == HalvesInv /\ [Next]_vars => HalvesInv'
<1>. SUFFICES ASSUME HalvesInv, [Next]_vars PROVE HalvesInv'
  OBVIOUS
<1>. USE OpsAssumption DEF Ops
<1>0. RowInv' /\ TypeOK /\ pc \in [Ops -> Labels] /\ known \subseteq Logins
  BY NextKeepsRowInv DEF HalvesInv, RowInv, TypeOK
<1>1. ASSUME NEW l \in Logins, Login(l) PROVE HalvesInv'
  BY <1>0, <1>1, LoginKeepsHalves
<1>2. ASSUME NEW o \in Ops, Resolve(o) \/ (o \in Requests /\ Logout(o)) PROVE HalvesInv'
  BY <1>0, <1>2, ResolveKeepsHalves
<1>3. ASSUME NEW l \in Logins, Expire(l) PROVE HalvesInv'
  <2>1. UNCHANGED <<rows, key, known, pc, tok, gone>> /\ expired \subseteq expired'
    BY <1>3 DEF Expire
  <2>. QED
    BY <1>0, <2>1 DEF HalvesInv, Kept, HasTtl, Earned, Past
<1>4. ASSUME NEW l \in Logins, LoseKey(l) PROVE HalvesInv'
  <2>1. /\ key' = Deleted(l) /\ gone' = gone \cup {l}
        /\ UNCHANGED <<rows, expired, known, pc, tok>>
    BY <1>4 DEF LoseKey
  <2>2. key'[l].fields = "none" /\ \A m \in Logins \ {l} : key'[m] = key[m]
    BY <1>0, <2>1, CommandsMean
  <2>3. ASSUME NEW m \in Logins PROVE Kept(m)' /\ HasTtl(m)'
    <3>1. Kept(m) /\ HasTtl(m)
      BY DEF HalvesInv
    <3>. QED
      BY <2>1, <2>2, <3>1 DEF Kept, HasTtl, Past
  <2>4. ASSUME NEW r \in Requests PROVE Earned(r)'
    BY <2>1 DEF HalvesInv, Earned, Past
  <2>. QED
    BY <1>0, <2>3, <2>4 DEF HalvesInv
<1>5. ASSUME NEW r \in Requests, StartRequest(r) PROVE HalvesInv'
  <2>1. /\ \A l \in Logins : pc'[l] = pc[l]
        /\ \A q \in Requests \ {r} : pc'[q] = pc[q] /\ tok'[q] = tok[q]
        /\ pc'[r] = "lookup" /\ UNCHANGED <<rows, key, expired, known, gone>>
    BY <1>0, <1>5 DEF StartRequest, Goto, TypeOK
  <2>2. ASSUME NEW l \in Logins PROVE Kept(l)' /\ HasTtl(l)'
    BY <2>1 DEF HalvesInv, Kept, HasTtl, Past
  <2>3. ASSUME NEW q \in Requests PROVE Earned(q)'
    BY <2>1 DEF HalvesInv, Earned, Past
  <2>. QED
    BY <1>0, <2>2, <2>3 DEF HalvesInv
<1>6. ASSUME \/ \E o \in Ops : DbError(o)
             \/ Crash \/ UNCHANGED vars
      PROVE  HalvesInv'
  <2>1. UNCHANGED <<rows, key, expired, known, tok, gone>>
    BY <1>6 DEF DbError, Crash, vars, stores
  <2>2. \A p \in Ops : pc'[p] \in {pc[p], "error", "dead"}
    BY <1>0, <1>6 DEF DbError, Crash, vars, Goto
  <2>3. ASSUME NEW l \in Logins PROVE Kept(l)' /\ HasTtl(l)'
    BY <2>1, <2>2 DEF HalvesInv, Kept, HasTtl, Past
  <2>4. ASSUME NEW r \in Requests PROVE Earned(r)'
    BY <2>1, <2>2 DEF HalvesInv, Earned, Past
  <2>. QED
    BY <1>0, <2>3, <2>4 DEF HalvesInv
<1>. QED
  BY <1>1, <1>2, <1>3, <1>4, <1>5, <1>6 DEF Next

LEMMA AlwaysHalvesInv == Spec => []HalvesInv
<1>1. Init => RowInv
  BY InitTyped, OpsAssumption DEF Init, RowInv, TokensHeld, NoEarlyRow, LogoutIsFinal, Ops
<1>2. Init => HalvesInv
  BY <1>1, OpsAssumption DEF Init, HalvesInv, Kept, HasTtl, Earned, Ops
<1>. QED
  BY <1>2, NextKeepsHalves, PTL DEF Spec

\* A client is told 401 only when its token expired, was logged out or lost its
\* key: no failure of Redis or of PostgreSQL and no interleaving with other
\* requests takes a session away (api/auth.py 70-76).
THEOREM LogoutsAreEarned == Spec => []NoSpuriousLogout
<1>1. HalvesInv => NoSpuriousLogout
  BY DEF HalvesInv, Earned, Past, NoSpuriousLogout
<1>. QED
  BY <1>1, AlwaysHalvesInv, PTL

\* Every full hash of a token a client holds has a TTL, although HSET and EXPIRE
\* are two commands that fail one without the other (redis_sessions.py 40-50).
THEOREM SessionsExpire == Spec => []SessionsHaveTtl
<1>1. HalvesInv => SessionsHaveTtl
  BY DEF HalvesInv, RowInv, TypeOK, TokensHeld, HasTtl, SessionsHaveTtl
<1>. QED
  BY <1>1, AlwaysHalvesInv, PTL
=============================================================================
