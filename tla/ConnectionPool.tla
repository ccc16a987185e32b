--------------------------- MODULE ConnectionPool ---------------------------
(***************************************************************************)
(* app/core/database.py over psycopg2's ThreadedConnectionPool, and the    *)
(* three ways in which the services take a connection and give it back:    *)
(*                                                                         *)
(*   "finally"  close() in a finally clause: register_user, most routes    *)
(*   "bare"     close() after the last statement: memory_service,          *)
(*              database_chat_history                                      *)
(*   "login"    close() in the except clause and after the try: the return *)
(*              for a wrong name or password passes both (authenticate)    *)
(***************************************************************************)
EXTENDS Naturals, FiniteSets

CONSTANTS
    Calls,           \* calls of a service helper, in threads
    Connections,     \* identities of server connections
    MinConn, MaxConn \* PG_POOL_MIN, PG_POOL_MAX

Kinds == {"finally", "bare", "login"}

VARIABLES
    idle, used, \* the pool: connections at rest and handed out
    call        \* [at, kind, conn] of each call

vars == <<idle, used, call>>

Unused(at, kind) == [at |-> at, kind |-> kind, conn |-> {}]

\* initialize_database connects MinConn times.
Init ==
    /\ idle \in {first \in SUBSET Connections : Cardinality(first) = MinConn}
    /\ used = {}
    /\ call = [c \in Calls |-> Unused("idle", "finally")]

\* get_connection: an idle connection, else a new one, else PoolError.
Get(c, kind) ==
    /\ call[c].at = "idle"
    /\ IF idle = {} /\ Cardinality(used) = MaxConn
       THEN call' = [call EXCEPT ![c] = Unused("poolError", kind)] /\ UNCHANGED <<idle, used>>
       ELSE \E n \in IF idle # {} THEN idle ELSE Connections \ used :
               /\ idle' = idle \ {n}
               /\ used' = used \cup {n}
               /\ call' = [call EXCEPT ![c] = [at |-> "taken", kind |-> kind, conn |-> {n}]]

\* How the body of a helper ends; only authenticate has an early return.
Exits(c, exit) ==
    /\ call[c].at = "taken"
    /\ exit = "denied" => call[c].kind = "login"
    /\ call' = [call EXCEPT ![c].at = exit]
    /\ UNCHANGED <<idle, used>>

\* Which exits of a helper reach conn.close().
Closes(kind, exit) ==
    \/ exit = "worked"
    \/ exit = "raised" /\ kind \in {"finally", "login"}

\* _Connection.close rolls back and gives the connection back; one that is
\* broken, and one the pool has no room for, are dropped.
Leaves(c) ==
    LET n == call[c].conn
    IN  /\ call[c].at \in {"worked", "raised", "denied"}
        /\ IF Closes(call[c].kind, call[c].at)
           THEN /\ used' = used \ n
                /\ \/ Cardinality(idle) < MinConn /\ idle' = idle \cup n
                   \/ (Cardinality(idle) >= MinConn \/ call[c].at = "raised") /\ UNCHANGED idle
           ELSE UNCHANGED <<used, idle>>
        /\ call' = [call EXCEPT ![c] = Unused("over", @.kind)]

Next ==
    \E c \in Calls :
        \/ \E kind \in Kinds : Get(c, kind)
        \/ \E exit \in {"worked", "raised", "denied"} : Exits(c, exit)
        \/ Leaves(c)

Spec == Init /\ [][Next]_vars

-----------------------------------------------------------------------------
\* While calls run their connections are out; when none runs they are all
\* back, so the set of connections stays what it was (config.py 294-299).
PoolIsStable ==
    (\A c \in Calls : call[c].at \in {"idle", "over", "poolError"}) => used = {}
=============================================================================
