------------------------------ MODULE Migration ------------------------------
(***************************************************************************)
(* scripts/migrate_sqlite_to_pg.py: the tables of a legacy database are    *)
(* copied one by one, each in a transaction of its own, and the sequences  *)
(* are set at the end.  A run may stop anywhere and be made again, with or *)
(* without --force, and nothing keeps the application from registering     *)
(* accounts in the target meanwhile: it draws an id of the sequence with   *)
(* its INSERT and commits later, or never.  Until then nobody sees the row,*)
(* but INSERTs of the same id, and TRUNCATE, wait for it.                  *)
(*                                                                         *)
(* A table is copied whole or not at all, so a count of its copies stands  *)
(* for its rows; users have ids, which the other tables refer to.          *)
(*                                                                         *)
(* The general names carry a prefix, for OutsideProofs extends this module *)
(* and Client.                                                             *)
(***************************************************************************)
EXTENDS Naturals, Sequences, FiniteSetsExt

CONSTANTS
    Tables,  \* the tables copied after users, in order
    Keyless, \* those whose rows no key of the target tells apart
    MaxId,   \* bound: ids of users
    MaxRuns  \* bound: runs of the script

ASSUME BoundsAssumption == MaxId \in Nat /\ MaxRuns \in Nat
ASSUME TablesAssumption ==
    /\ Tables \in Seq(STRING) /\ Keyless \subseteq STRING
    /\ \A i, j \in DOMAIN Tables : Tables[i] = Tables[j] => i = j

Ids == 1..MaxId
Copied == {Tables[i] : i \in DOMAIN Tables}
Last == Len(Tables) + 1

VARIABLES
    oldUsers, oldTables, \* source: ids of users, and the tables that have rows
    users,   \* target: who owns each id: "none", "old" (copied) or "app"
    copies,  \* target: copies of the rows of each table
    nextId,  \* target: next value of the sequence of users.id
    drawn,   \* target: registrations that have drawn each id and are not over
    run,     \* [at, force, step]: step 0 copies users, i > 0 Tables[i]
    top,     \* what the run's SELECT of MAX(id) + 1 has found
    runs,
    overlap, \* history: an account was committed while a run copied
    raced    \* history: an account was under way while a run set the sequences

migrationVars ==
    <<oldUsers, oldTables, users, copies, nextId, drawn, run, top, runs, overlap, raced>>
source == <<oldUsers, oldTables>>
ghosts == <<overlap, raced>>

Stopped(at) == [at |-> at, force |-> FALSE, step |-> 0]

MigrationInit ==
    /\ oldUsers \in SUBSET Ids
    /\ oldTables \in SUBSET Copied
    /\ users = [i \in Ids |-> "none"]
    /\ copies = [t \in Copied |-> 0]
    /\ nextId = 1 /\ drawn = [i \in Ids |-> 0]
    /\ run = Stopped("none") /\ top = 1 /\ runs = 0
    /\ overlap = FALSE /\ raced = FALSE

Taken == {i \in Ids : users[i] # "none"}
UnderWay == {i \in Ids : drawn[i] > 0}

\* Mutant: the check is made after the copy of users only.
Refuses_Late(force) == FALSE

Refuses(force) == Taken # {} /\ ~force

Truncates(force) == Taken # {} /\ force

\* main, up to the loop: SELECT COUNT, the refusal, TRUNCATE RESTART IDENTITY,
\* which waits for every registration under way.
Begin(force) ==
    /\ run.at # "copying" /\ runs < MaxRuns
    /\ runs' = runs + 1
    /\ run' = IF Refuses(force) THEN Stopped("refused")
              ELSE [at |-> "copying", force |-> force, step |-> 0]
    /\ IF ~Refuses(force) /\ Truncates(force)
       THEN /\ UnderWay = {}
            /\ users' = [i \in Ids |-> "none"]
            /\ copies' = [t \in Copied |-> 0]
            /\ nextId' = 1
       ELSE UNCHANGED <<users, copies, nextId>>
    /\ UNCHANGED <<source, drawn, top, ghosts>>

\* INSERT ... ON CONFLICT DO NOTHING, and commit.  A row is dropped when the
\* application has given its id, or its unique username, to somebody else;
\* while that is under way the statement waits.
CopyUsers ==
    /\ run.at = "copying" /\ run.step = 0
    /\ oldUsers \cap UnderWay \subseteq Taken
    /\ \E named \in SUBSET oldUsers :
          /\ Cardinality(named) <= Cardinality({i \in Ids : users[i] = "app"})
          /\ users' = [i \in Ids |-> IF i \in oldUsers \ (Taken \cup named) THEN "old" ELSE users[i]]
    /\ run' = [run EXCEPT !.step = 1]
    /\ UNCHANGED <<source, copies, nextId, drawn, top, runs, ghosts>>

CopiesAfter(t) == IF t \in Keyless THEN copies[t] + 1 ELSE 1

CopyTable ==
    /\ run.at = "copying" /\ run.step \in 1..Len(Tables)
    /\ LET t == Tables[run.step]
       IN  copies' = IF t \in oldTables THEN [copies EXCEPT ![t] = CopiesAfter(t)] ELSE copies
    /\ run' = [run EXCEPT !.step = @ + 1]
    /\ UNCHANGED <<source, users, nextId, drawn, top, runs, ghosts>>

\* Mutant: the largest id itself.
NextFree_Used(ids) == Max(ids \cup {1})

\* COALESCE(MAX(id), 0) + 1
NextFree(ids) == Max(ids \cup {0}) + 1

\* The statement reads the committed rows ...
ReadMax ==
    /\ run.at = "copying" /\ run.step = Last
    /\ top' = NextFree(Taken)
    /\ run' = [run EXCEPT !.step = @ + 1]
    /\ raced' = (UnderWay # {})
    /\ UNCHANGED <<source, users, copies, nextId, drawn, runs, overlap>>

\* ... and sets the sequence, which no transaction protects: it stays set when
\* the run dies before its commit.
SetSequences ==
    /\ run.at = "copying" /\ run.step = Last + 1
    /\ nextId' = top
    /\ run' \in {Stopped("complete"), Stopped("stopped")}
    /\ UNCHANGED <<source, users, copies, drawn, top, runs, ghosts>>

\* An error or a crash: what is not committed is rolled back.
Aborts ==
    /\ run.at = "copying"
    /\ run' = Stopped("stopped")
    /\ UNCHANGED <<source, users, copies, nextId, drawn, top, runs, ghosts>>

\* register_user, INSERT: nextval is spent whatever becomes of the row.
Inserts ==
    /\ nextId \in Ids
    /\ drawn' = [drawn EXCEPT ![nextId] = @ + 1]
    /\ nextId' = nextId + 1
    /\ raced' = (raced \/ (run.at = "copying" /\ run.step = Last + 1))
    /\ UNCHANGED <<source, users, copies, run, top, runs, overlap>>

\* COMMIT, of a row whose id nobody else holds.
Commits(i) ==
    /\ i \in UnderWay \ Taken
    /\ users' = [users EXCEPT ![i] = "app"]
    /\ drawn' = [drawn EXCEPT ![i] = @ - 1]
    /\ overlap' = (overlap \/ run.at = "copying")
    /\ UNCHANGED <<source, copies, nextId, run, top, runs, raced>>

\* The id or the username is taken, or the connection is lost: a rollback.
Fails(i) ==
    /\ i \in UnderWay
    /\ drawn' = [drawn EXCEPT ![i] = @ - 1]
    /\ UNCHANGED <<source, users, copies, nextId, run, top, runs, ghosts>>

MigrationNext ==
    \/ \E force \in BOOLEAN : Begin(force)
    \/ CopyUsers \/ CopyTable \/ ReadMax \/ SetSequences \/ Aborts
    \/ Inserts \/ \E i \in Ids : Commits(i) \/ Fails(i)

MigrationSpec == MigrationInit /\ [][MigrationNext]_migrationVars

-----------------------------------------------------------------------------
MigrationTypeOK ==
    /\ oldUsers \subseteq Ids /\ oldTables \subseteq Copied
    /\ users \in [Ids -> {"none", "old", "app"}]
    /\ copies \in [Copied -> 0..MaxRuns]
    /\ \A t \in Copied \ Keyless : copies[t] <= 1
    /\ nextId \in 1 .. MaxId + 1 /\ top \in 1 .. MaxId + 1
    /\ drawn \in [Ids -> Nat]
    /\ run \in [at : {"none", "refused", "copying", "stopped", "complete"}, force : BOOLEAN, step : 0 .. Last + 1]
    /\ runs \in 0..MaxRuns /\ overlap \in BOOLEAN /\ raced \in BOOLEAN

\* When the script reports a complete migration, each account of the legacy
\* database is under its id and each row of the other tables is there once,
\* however many runs stopped half-way before (lines 14-16).  It takes an
\* account in the source, for the rerun is recognised by the target's users,
\* and an application that stays away.
CompletedIsComplete ==
    run.at = "complete" /\ ~overlap /\ oldUsers # {} =>
        /\ \A i \in oldUsers : users[i] = "old"
        /\ \A t \in Copied : copies[t] = IF t \in oldTables THEN 1 ELSE 0

\* After a complete run the sequence gives out no migrated id, whatever was
\* being registered meanwhile (line 160), and no id at all that is taken, as
\* long as no registration was between its INSERT and its COMMIT while the
\* statement read MAX(id) and set the sequence.
NewIdsAreFree ==
    run.at = "complete" /\ nextId \in Ids =>
        /\ users[nextId] # "old"
        /\ ~raced => nextId \notin Taken

=============================================================================
