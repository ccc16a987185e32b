--------------------------- MODULE TokenLifecycle ---------------------------
(***************************************************************************)
(* What a login token promises, whatever Redis and PostgreSQL do: it is    *)
(* issued at most once, it authorises only between its issue and its end   *)
(* and before it expires, and once ended it never authorises again.        *)
(***************************************************************************)
CONSTANTS Tokens, Operations

VARIABLES
    live,     \* tokens issued and not ended
    ended,    \* tokens that can never authorise again
    expired,  \* tokens whose lifetime is over
    granted   \* pairs <<operation, token>> that were authorised

vars == <<live, ended, expired, granted>>

Init ==
    /\ live = {}
    /\ ended = {}
    /\ expired = {}
    /\ granted = {}

Issue(t) ==
    /\ t \notin live \cup ended
    /\ live' = live \cup {t}
    /\ UNCHANGED <<ended, expired, granted>>

\* Logout, a lookup that finds the session gone, or a login that fails.
End(t) ==
    /\ t \notin ended
    /\ live' = live \ {t}
    /\ ended' = ended \cup {t}
    /\ UNCHANGED <<expired, granted>>

Expire(t) ==
    /\ expired' = expired \cup {t}
    /\ UNCHANGED <<live, ended, granted>>

Grant(o, t) ==
    /\ t \in live \ expired
    /\ granted' = granted \cup {<<o, t>>}
    /\ UNCHANGED <<live, ended, expired>>

Next ==
    \/ \E t \in Tokens : Issue(t) \/ End(t) \/ Expire(t)
    \/ \E o \in Operations, t \in Tokens : Grant(o, t)

Spec == Init /\ [][Next]_vars
=============================================================================
