---------------------------- MODULE AuthSessions ----------------------------
(***************************************************************************)
(* Login, the resolution of a bearer token on every request, and logout,   *)
(* over the two stores that hold a session: the row of auth_sessions in    *)
(* PostgreSQL and the hash session:{token} in Redis.                       *)
(*                                                                         *)
(* A token is named by the login that drew it: secrets.token_hex never     *)
(* repeats one.  Every Redis command and every transaction is a step.      *)
(***************************************************************************)
EXTENDS Naturals

CONSTANTS
    Logins,       \* calls of /auth/login and /auth/register, and their tokens
    Requests,     \* authenticated requests, /auth/logout among them
    None,         \* no token
    RedisFaults,  \* a Redis command may fail, before or after it took effect
    DbFaults,     \* a PostgreSQL statement may fail
    MaxCrashes    \* bound: restarts of the API process

ASSUME NoneAssumption == None \notin Logins
ASSUME OpsAssumption == Logins \cap Requests = {}
ASSUME CrashesAssumption == MaxCrashes \in Nat
ASSUME FaultsAssumption == RedisFaults \in BOOLEAN /\ DbFaults \in BOOLEAN

VARIABLES
    rows,     \* tokens with a row in auth_sessions
    key,      \* the Redis hash of each token
    expired,  \* tokens past their expires_at
    known,    \* tokens handed to a client
    pc,       \* where each operation stands
    tok,      \* the token it resolves
    purpose,  \* what an authenticated request asks for
    crashes,  \* restarts so far
    granted,  \* history: <<operation, token>> pairs that were authorised
    gone      \* history: tokens whose key was lost or whose row was revoked

stores == <<rows, key, expired, gone>>
vars == <<rows, key, expired, known, pc, tok, purpose, crashes, granted, gone>>

Ops == Logins \cup Requests
Ended == {"done", "granted", "loggedOut", "denied", "refused", "unavailable", "error", "dead"}
Labels == {"idle", "hset", "setTtl", "rollback", "lookup", "dropKey", "touch", "dropRow",
           "select", "forgetKey", "revokeRow", "revokeKey"} \cup Ended
InFlight(o) == pc[o] \notin {"idle"} \cup Ended
Goto(o, label) == pc' = [pc EXCEPT ![o] = label]

\* A hash has all its fields, or only last_activity, or does not exist.
Keys == [fields : {"none", "activity", "all"}, ttl : BOOLEAN]
NoKey == [fields |-> "none", ttl |-> FALSE]

Init ==
    /\ rows = {}
    /\ key = [t \in Logins |-> NoKey]
    /\ expired = {}
    /\ known = {}
    /\ pc = [o \in Ops |-> "idle"]
    /\ tok = [o \in Ops |-> IF o \in Logins THEN o ELSE None]
    /\ purpose = [r \in Requests |-> "use"]
    /\ crashes = 0
    /\ granted = {}
    /\ gone = {}

(***************************************************************************)
(* Redis commands on the key of token t, as the new value of the key.  A   *)
(* command that fails raises RedisError; a timeout may hide its effect.    *)
(***************************************************************************)
Deleted(t) == [key EXCEPT ![t] = NoKey]
WithAll(t) == [key EXCEPT ![t].fields = "all"]
\* HSET of one field creates the hash, without a TTL, when it is not there.
WithActivity(t) == [key EXCEPT ![t].fields = IF @ = "none" THEN "activity" ELSE @]
\* EXPIRE does nothing when there is no key.
WithTtl(t) == [key EXCEPT ![t].ttl = (key[t].fields # "none")]

Redis(o, after, ok, failed) ==
    \/ key' = after /\ Goto(o, ok)
    \/ RedisFaults /\ key' \in {key, after} /\ Goto(o, failed)

\* RedisError is a 503 in require_user; login catches none around resolve_user.
Unavailable(o) == IF o \in Logins THEN "error" ELSE "unavailable"
\* No user is a 401; login subscripts it and fails with a 500.
Denied(o) == IF o \in Logins THEN "error" ELSE "denied"

(***************************************************************************)
(* authenticate and create_session                                         *)
(***************************************************************************)
InsertRow(l) ==
    /\ pc[l] = "idle"
    /\ \/ rows' = rows \cup {l} /\ Goto(l, "hset")
       \/ UNCHANGED rows /\ Goto(l, "denied")     \* wrong credentials
    /\ UNCHANGED <<key, expired, known, tok, purpose, crashes, granted, gone>>

CreateKey(l) ==
    /\ pc[l] = "hset"
    /\ Redis(l, WithAll(l), "setTtl", "rollback")
    /\ UNCHANGED <<rows, expired, known, tok, purpose, crashes, granted, gone>>

\* Mutant: the hash is created without EXPIRE.
SetTtl_Forgotten(l) ==
    /\ pc[l] = "setTtl"
    /\ \/ Goto(l, "lookup") /\ UNCHANGED known
       \/ Goto(l, "done") /\ known' = known \cup {l}
    /\ UNCHANGED <<rows, key, expired, tok, purpose, crashes, granted, gone>>

\* /auth/login then resolves the token it just made; /auth/register does not.
SetTtl(l) ==
    /\ pc[l] = "setTtl"
    /\ \/ Redis(l, WithTtl(l), "lookup", "rollback") /\ UNCHANGED known
       \/ key' = WithTtl(l) /\ Goto(l, "done") /\ known' = known \cup {l}
    /\ UNCHANGED <<rows, expired, tok, purpose, crashes, granted, gone>>

\* Mutant: the login is refused and its row stays.
Rollback_KeepsRow(l) ==
    /\ pc[l] = "rollback"
    /\ Goto(l, "refused")
    /\ UNCHANGED <<rows, key, expired, known, tok, purpose, crashes, granted, gone>>

Rollback(l) ==
    /\ pc[l] = "rollback"
    /\ rows' = rows \ {l}
    /\ Goto(l, "refused")
    /\ UNCHANGED <<key, expired, known, tok, purpose, crashes, granted, gone>>

(***************************************************************************)
(* require_user and resolve_user                                           *)
(***************************************************************************)
\* A request with no token is answered 401 and touches neither store.
StartRequest(r) ==
    /\ pc[r] = "idle"
    /\ \E t \in known, p \in {"use", "logout"} :
          /\ tok' = [tok EXCEPT ![r] = t]
          /\ purpose' = [purpose EXCEPT ![r] = p]
    /\ Goto(r, "lookup")
    /\ UNCHANGED <<rows, key, expired, known, crashes, granted, gone>>

\* Mutant: an unreachable Redis is taken for a session that is gone.
Lookup_ErrorIsMiss(o) ==
    LET t == tok[o] IN
    /\ pc[o] = "lookup"
    /\ \/ /\ key[t].fields = "none" \/ RedisFaults
          /\ Goto(o, "dropRow")
       \/ key[t].fields = "all" /\ t \notin expired /\ Goto(o, "touch")
       \/ /\ key[t].fields = "activity" \/ (key[t].fields = "all" /\ t \in expired)
          /\ Goto(o, "dropKey")
    /\ UNCHANGED <<known, tok, purpose, crashes, granted>>
    /\ UNCHANGED stores

\* get_session: HGETALL; the expiry is checked again whatever the TTL did.
Lookup(o) ==
    LET t == tok[o] IN
    /\ pc[o] = "lookup"
    /\ \/ key[t].fields = "none" /\ Goto(o, "dropRow")
       \/ key[t].fields = "all" /\ t \notin expired /\ Goto(o, "touch")
       \/ /\ key[t].fields = "activity" \/ (key[t].fields = "all" /\ t \in expired)
          /\ Goto(o, "dropKey")
       \/ RedisFaults /\ Goto(o, Unavailable(o))
    /\ UNCHANGED <<known, tok, purpose, crashes, granted>>
    /\ UNCHANGED stores

DropKey(o) ==
    /\ pc[o] = "dropKey"
    /\ Redis(o, Deleted(tok[o]), "dropRow", Unavailable(o))
    /\ UNCHANGED <<rows, expired, known, tok, purpose, crashes, granted, gone>>

\* HSET last_activity, which may find the key deleted or lost since the HGETALL.
Touch(o) ==
    /\ pc[o] = "touch"
    /\ Redis(o, WithActivity(tok[o]), "select", Unavailable(o))
    /\ UNCHANGED <<rows, expired, known, tok, purpose, crashes, granted, gone>>

\* A miss: the stale row goes, the answer is 401.
DropRow(o) ==
    /\ pc[o] = "dropRow"
    /\ rows' = rows \ {tok[o]}
    /\ Goto(o, Denied(o))
    /\ UNCHANGED <<key, expired, known, tok, purpose, crashes, granted, gone>>

\* Mutant: the expiry of the row is not looked at.
SelectRow_IgnoresExpiry(o) ==
    LET t == tok[o] IN
    /\ pc[o] = "select"
    /\ \/ t \notin rows /\ Goto(o, "forgetKey") /\ UNCHANGED <<known, granted>>
       \/ /\ t \in rows
          /\ granted' = granted \cup {<<o, t>>}
          /\ \/ o \in Logins /\ Goto(o, "done") /\ known' = known \cup {t}
             \/ /\ o \in Requests
                /\ Goto(o, IF purpose[o] = "logout" THEN "revokeRow" ELSE "granted")
                /\ UNCHANGED known
    /\ UNCHANGED <<rows, key, expired, tok, purpose, crashes, gone>>

\* The row decides: absent, expired (and then deleted), or the user it names.
SelectRow(o) ==
    LET t == tok[o] IN
    /\ pc[o] = "select"
    /\ \/ t \notin rows /\ Goto(o, "forgetKey") /\ UNCHANGED <<rows, known, granted>>
       \/ /\ t \in rows \cap expired
          /\ rows' = rows \ {t}
          /\ Goto(o, Denied(o))
          /\ UNCHANGED <<known, granted>>
       \/ /\ t \in rows \ expired
          /\ granted' = granted \cup {<<o, t>>}
          /\ \/ o \in Logins /\ Goto(o, "done") /\ known' = known \cup {t}
             \/ /\ o \in Requests
                /\ Goto(o, IF purpose[o] = "logout" THEN "revokeRow" ELSE "granted")
                /\ UNCHANGED known
          /\ UNCHANGED rows
    /\ UNCHANGED <<key, expired, tok, purpose, crashes, gone>>

\* delete_session logs a RedisError and goes on.
ForgetKey(o) ==
    /\ pc[o] = "forgetKey"
    /\ Redis(o, Deleted(tok[o]), Denied(o), Denied(o))
    /\ UNCHANGED <<rows, expired, known, tok, purpose, crashes, granted, gone>>

(***************************************************************************)
(* revoke_token                                                            *)
(***************************************************************************)
\* Mutant: logout relies on Redis and leaves the row.
RevokeRow_KeyOnly(r) ==
    /\ pc[r] = "revokeRow"
    /\ gone' = gone \cup {tok[r]}
    /\ Goto(r, "revokeKey")
    /\ UNCHANGED <<rows, key, expired, known, tok, purpose, crashes, granted>>

RevokeRow(r) ==
    /\ pc[r] = "revokeRow"
    /\ rows' = rows \ {tok[r]}
    /\ gone' = gone \cup {tok[r]}
    /\ Goto(r, "revokeKey")
    /\ UNCHANGED <<key, expired, known, tok, purpose, crashes, granted>>

RevokeKey(r) ==
    /\ pc[r] = "revokeKey"
    /\ Redis(r, Deleted(tok[r]), "loggedOut", "loggedOut")
    /\ UNCHANGED <<rows, expired, known, tok, purpose, crashes, granted, gone>>

(***************************************************************************)
(* The environment.                                                        *)
(***************************************************************************)
\* A statement fails and the exception becomes a 500.
DbError(o) ==
    /\ DbFaults
    /\ \/ o \in Logins /\ pc[o] = "idle"
       \/ pc[o] \in {"rollback", "dropRow", "select", "revokeRow"}
    /\ Goto(o, "error")
    /\ UNCHANGED <<known, tok, purpose, crashes, granted>>
    /\ UNCHANGED stores

\* The lifetime of an issued token ends.
Expire(t) ==
    /\ pc[t] # "idle"
    /\ t \notin expired
    /\ expired' = expired \cup {t}
    /\ UNCHANGED <<rows, key, known, pc, tok, purpose, crashes, granted, gone>>

\* Redis loses a key: its TTL, allkeys-lru eviction or a restart of Redis.
LoseKey(t) ==
    /\ key[t].fields # "none"
    /\ key' = Deleted(t)
    /\ gone' = gone \cup {t}
    /\ UNCHANGED <<rows, expired, known, pc, tok, purpose, crashes, granted>>

Crash ==
    /\ crashes < MaxCrashes
    /\ crashes' = crashes + 1
    /\ pc' = [o \in Ops |-> IF InFlight(o) THEN "dead" ELSE pc[o]]
    /\ UNCHANGED <<known, tok, purpose, granted>>
    /\ UNCHANGED stores

Login(l) == InsertRow(l) \/ CreateKey(l) \/ SetTtl(l) \/ Rollback(l)
Resolve(o) ==
    Lookup(o) \/ DropKey(o) \/ Touch(o) \/ DropRow(o) \/ SelectRow(o) \/ ForgetKey(o)
Logout(r) == RevokeRow(r) \/ RevokeKey(r)

Next ==
    \/ \E l \in Logins : Login(l) \/ Expire(l) \/ LoseKey(l)
    \/ \E r \in Requests : StartRequest(r) \/ Logout(r)
    \/ \E o \in Ops : Resolve(o) \/ DbError(o)
    \/ Crash

Spec == Init /\ [][Next]_vars

-----------------------------------------------------------------------------
TypeOK ==
    /\ rows \subseteq Logins
    /\ key \in [Logins -> Keys]
    /\ expired \subseteq Logins
    /\ known \subseteq Logins
    /\ pc \in [Ops -> Labels]
    /\ tok \in [Ops -> Logins \cup {None}]
    /\ \A o \in Ops : o \in Logins \/ pc[o] # "idle" => tok[o] \in Logins
    /\ purpose \in [Requests -> {"use", "logout"}]
    /\ crashes \in 0..MaxCrashes
    /\ granted \subseteq Ops \X Logins
    /\ gone \subseteq Logins

\* A token authorises only while its row is there and before it expires, and a
\* token that lost its row never authorises again, whatever is left of it in
\* Redis and however logouts, lookups and crashes interleave (auth_service.py
\* 113-192).
Lifecycle == INSTANCE TokenLifecycle WITH
    Tokens <- Logins,
    Operations <- Ops,
    live <- rows,
    ended <- {l \in Logins : pc[l] # "idle" /\ l \notin rows}
ImplementsLifecycle == Lifecycle!Spec

\* "Fail-closed": a login refused because Redis failed leaves no durable session
\* (auth_service.py 96-109).
RefusedLoginLeavesNoRow == \A l \in Logins : pc[l] = "refused" => l \notin rows

\* A logout that was answered ended the session in the durable store, even when
\* another request was resolving the same token or Redis failed
\* (auth_service.py 182-192).
LogoutIsFinal ==
    \A r \in Requests : pc[r] \in {"revokeKey", "loggedOut"} => tok[r] \notin rows

\* A 401 is earned: the token expired, was logged out, or Redis lost its key.  An
\* outage of Redis answers 503 and costs nobody the session (api/auth.py 70-76).
NoSpuriousLogout ==
    \A r \in Requests : pc[r] = "denied" => tok[r] \in expired \cup gone

\* A key that can still authorise a client's token has a TTL, so a session nobody
\* uses leaves Redis by itself (redis_sessions.py 40-50).
SessionsHaveTtl ==
    \A t \in known : key[t].fields = "all" => key[t].ttl

\* "the key dies by TTL at the latest" (redis_sessions.py 80-82): once a logout is
\* answered, whatever is left under the key has a TTL.
RevokedKeyHasTtl ==
    \A r \in Requests : pc[r] = "loggedOut" =>
        key[tok[r]].fields = "none" \/ key[tok[r]].ttl
=============================================================================
