----------------------------- MODULE OpenDatabase -----------------------------
(***************************************************************************)
(* How processes of different app versions create, open, migrate and       *)
(* reindex the database file at one path (src/internal/db/connection.go,   *)
(* migration.go, reindex.go), each step of which a kill may end.           *)
(*                                                                         *)
(* DuckDB locks the file that a process has open and creates a file where  *)
(* there is none.  A process whose file was removed goes on with a file    *)
(* that no longer has a name.                                              *)
(***************************************************************************)
EXTENDS Integers, FiniteSets

CONSTANTS
    Proc,
    Newest,    \* the newest schema version
    App,       \* the schema version of each process' app
    Index,     \* the secondary indexes
    NoProc, NoFile,
    MaxFile    \* bound: files made at the path

ASSUME OpenAssumption ==
    /\ Newest \in Nat /\ App \in [Proc -> 1..Newest]
    /\ NoProc \notin Proc
    /\ MaxFile \in Nat
    /\ NoFile \notin [id : 1..MaxFile, meta : BOOLEAN, version : 0..Newest,
                      applied : [1..Newest -> Nat],
                      index : [Index -> {"absent", "good", "desynced"}]]

VARIABLES
    file,    \* the file at the path
    holder,  \* who has it open
    job,     \* what each process is doing
    made,    \* how many files were made
    crossed  \* history: the processes whose file another one has migrated or
             \* removed since they last looked at its version

vars == <<file, holder, job, made, crossed>>

Step == {"idle", "crashed", "stat", "connect", "init", "check", "migrate",
         "close", "reopen", "open", "list", "drop", "create"}
Op   == {"none", "create", "open", "reindex"}

(* since is history: how many files there had been when a Create looked.   *)
Job == [op : Op, at : Step, made : 0..MaxFile, since : 0..MaxFile,
        next : 1..(Newest + 1), todo : SUBSET Index]

(* applied counts how often each migration ran in this file.               *)
File == [id : 1..MaxFile, meta : BOOLEAN, version : 0..Newest,
         applied : [1..Newest -> Nat], index : [Index -> {"absent", "good", "desynced"}]]

TypeOK ==
    /\ file \in File \cup {NoFile}
    /\ holder \in Proc \cup {NoProc}
    /\ file = NoFile => holder = NoProc
    /\ job \in [Proc -> Job]
    /\ made \in 0..MaxFile
    /\ crossed \subseteq Proc

Idle == [op |-> "none", at |-> "idle", made |-> 0, since |-> 0, next |-> 1, todo |-> {}]

Init ==
    /\ file = NoFile /\ holder = NoProc
    /\ job = [p \in Proc |-> Idle] /\ made = 0 /\ crossed = {}

NewFile(id) ==
    [id |-> id, meta |-> FALSE, version |-> 0, applied |-> [v \in 1..Newest |-> 0],
     index |-> [i \in Index |-> "absent"]]

Has(p) == holder = p

(* A write of p: lost when its file has no name any more.                  *)
Write(p, f) == file' = IF Has(p) THEN f ELSE file
Free(p)     == holder' = IF Has(p) THEN NoProc ELSE holder

(* Another process than p has the file, or has closed it to open it again. *)
Between(p) == {q \in Proc \ {p} : Has(q) \/ job[q].at = "reopen"}

(* os.Remove of the path by p, whoever has that file.                      *)
Remove(p) == file' = NoFile /\ holder' = NoProc /\ crossed' = crossed \cup Between(p)

GoTo(p, step) == job' = [job EXCEPT ![p].at = step]
Ends(p)       == job' = [job EXCEPT ![p] = Idle]

-----------------------------------------------------------------------------
(* Create and Open, up to the connection.                                  *)

Calls(p, op) ==
    /\ job[p].at = "idle" /\ op \in {"create", "open"}
    /\ job' = [job EXCEPT ![p].op = op, ![p].at = "stat"]
    /\ crossed' = crossed \ {p}
    /\ UNCHANGED <<file, holder, made>>

(* Create wants no file there, Open wants one.                             *)
Stats(p) ==
    /\ job[p].at = "stat"
    /\ IF (job[p].op = "create") = (file = NoFile)
       THEN job' = [job EXCEPT ![p].at = "connect",
                               ![p].since = IF job[p].op = "create" THEN made ELSE 0]
       ELSE Ends(p)
    /\ UNCHANGED <<file, holder, made, crossed>>

AfterConnect(p) == IF job[p].op = "create" THEN "init" ELSE "check"

(* The first ping makes the file when there is none.                       *)
ConnectMakes(p) ==
    /\ job[p].at = "connect" /\ file = NoFile /\ made < MaxFile
    /\ made' = made + 1 /\ file' = NewFile(made') /\ holder' = p
    /\ job' = [job EXCEPT ![p].at = AfterConnect(p), ![p].made = made']
    /\ UNCHANGED crossed

ConnectOpens(p) ==
    /\ job[p].at = "connect" /\ file # NoFile /\ holder = NoProc
    /\ holder' = p /\ GoTo(p, AfterConnect(p))
    /\ UNCHANGED <<file, made, crossed>>

(* Create removes the path when its ping fails.                            *)
ConnectFails(p) ==
    /\ job[p].at = "connect" /\ file # NoFile /\ holder # NoProc
    /\ IF job[p].op = "create" THEN Remove(p) ELSE UNCHANGED <<file, holder, crossed>>
    /\ Ends(p) /\ UNCHANGED made

(* Mutant of Fails: Open and Reindex clean up as Create does.               *)
FailsClean(p) == Remove(p) /\ Ends(p) /\ UNCHANGED made

(* Every later failure closes the connection, and Create removes the path. *)
Fails(p) ==
    /\ IF job[p].op = "create" THEN Remove(p) ELSE Free(p) /\ UNCHANGED <<file, crossed>>
    /\ Ends(p) /\ UNCHANGED made

-----------------------------------------------------------------------------
(* The metadata and the migrations.                                        *)

(* initializeMetadata, one transaction.  A table that exists fails it.     *)
InitializeMetadata(p) ==
    /\ job[p].at = "init" /\ (Has(p) => ~file.meta)
    /\ Write(p, [file EXCEPT !.meta = TRUE]) /\ GoTo(p, "check")
    /\ UNCHANGED <<holder, made, crossed>>

InitializeFails(p) == job[p].at = "init" /\ Fails(p)

(* Mutant of StartMigrations: every migration runs at every open.          *)
StartAll(p) ==
    /\ job[p].at = "check"
    /\ Has(p) => file.meta /\ file.version <= App[p]
    /\ job' = [job EXCEPT ![p].at = "migrate", ![p].next = 1]
    /\ UNCHANGED <<file, holder, made, crossed>>

(* Mutant of StartMigrations: a newer file is taken as it is.              *)
StartNewer(p) ==
    /\ job[p].at = "check" /\ (Has(p) => file.meta)
    /\ job' = [job EXCEPT ![p].at = "migrate",
                          ![p].next = IF Has(p) THEN file.version + 1 ELSE 1]
    /\ UNCHANGED <<file, holder, made, crossed>>

(* validateTMoneyFile, and the start of Migrate: the version is read once, *)
(* and the migrations above it run in order.                               *)
StartMigrations(p) ==
    /\ job[p].at = "check"
    /\ Has(p) => file.meta /\ file.version <= App[p]
    /\ job' = [job EXCEPT ![p].at = "migrate",
                          ![p].next = IF Has(p) THEN file.version + 1 ELSE 1]
    /\ UNCHANGED <<file, holder, made, crossed>>

CheckFails(p) ==
    /\ job[p].at = "check" /\ Has(p) /\ ~(file.meta /\ file.version <= App[p])
    /\ Fails(p)

(* loadMigrations: what the app has embedded, in the order of versions.    *)
Migrations(p) == 1..App[p]

(* runMigration: the statements and the version, in one transaction.  The  *)
(* first one stands for those that make the indexes.                       *)
RunMigration(p) ==
    /\ job[p].at = "migrate" /\ job[p].next \in Migrations(p)
    /\ LET m == job[p].next
       IN  /\ Write(p, [file EXCEPT !.version = m, !.applied[m] = @ + 1,
                          !.index = IF m = 1 THEN [i \in Index |-> "good"] ELSE @])
           /\ job' = [job EXCEPT ![p].next = m + 1]
    /\ crossed' = IF Has(p) THEN crossed \cup Between(p) ELSE crossed
    /\ UNCHANGED <<holder, made>>

MigrationFails(p) ==
    /\ job[p].at = "migrate" /\ job[p].next \in Migrations(p)
    /\ Fails(p)

(* The connection that ran the migrations is closed and the file opened    *)
(* again (reconnect), without a look at its version.                       *)
Migrated(p) ==
    /\ job[p].at = "migrate" /\ job[p].next \notin Migrations(p)
    /\ GoTo(p, "close")
    /\ UNCHANGED <<file, holder, made, crossed>>

ReconnectCloses(p) ==
    /\ job[p].at = "close"
    /\ Free(p) /\ GoTo(p, "reopen")
    /\ UNCHANGED <<file, made, crossed>>

ReconnectOpens(p) ==
    /\ job[p].at = "reopen" /\ file # NoFile /\ holder = NoProc
    /\ holder' = p
    /\ job' = [job EXCEPT ![p] = [Idle EXCEPT !.at = "open"]]
    /\ UNCHANGED <<file, made, crossed>>

ReconnectFails(p) == job[p].at = "reopen" /\ Fails(p)

CloseSession(p) ==
    /\ job[p].at = "open" /\ Free(p) /\ Ends(p)
    /\ UNCHANGED <<file, made, crossed>>

-----------------------------------------------------------------------------
(* Reindex: every index in the catalog is dropped and made again, each     *)
(* statement a transaction of its own.                                     *)

ListIndexes(p) ==
    /\ job[p].at = "open" /\ Has(p)
    /\ job' = [job EXCEPT ![p].op = "reindex", ![p].at = "drop",
                          ![p].todo = {i \in Index : file.index[i] # "absent"}]
    /\ UNCHANGED <<file, holder, made, crossed>>

DropIndex(p, i) ==
    /\ job[p].at = "drop" /\ i \in job[p].todo
    /\ Write(p, [file EXCEPT !.index[i] = "absent"])
    /\ job' = [job EXCEPT ![p].at = "create", ![p].todo = (@ \ {i})]
    /\ UNCHANGED <<holder, made, crossed>>

CreateIndex(p, i) ==
    /\ job[p].at = "create" /\ Has(p) /\ file.index[i] = "absent"
    /\ Write(p, [file EXCEPT !.index[i] = "good"])
    /\ GoTo(p, "drop")
    /\ UNCHANGED <<holder, made, crossed>>

Reindexed(p) ==
    /\ job[p].at = "drop" /\ job[p].todo = {}
    /\ GoTo(p, "close")
    /\ UNCHANGED <<file, holder, made, crossed>>

ReindexFails(p) ==
    /\ job[p].at \in {"drop", "create"} /\ Fails(p)

(* An index loses a key, as DuckDB's do.                                   *)
Desync(i) ==
    /\ file # NoFile /\ holder = NoProc /\ file.index[i] = "good"
    /\ \A p \in Proc : job[p].at # "reopen"
    /\ file' = [file EXCEPT !.index[i] = "desynced"]
    /\ UNCHANGED <<holder, job, made, crossed>>

-----------------------------------------------------------------------------
(* A kill leaves what was committed; the lock goes with the process.       *)
Crash(p) ==
    /\ job[p].at \notin {"idle", "crashed"}
    /\ Free(p) /\ job' = [job EXCEPT ![p] = [Idle EXCEPT !.at = "crashed"]]
    /\ UNCHANGED <<file, made, crossed>>

Restart(p) ==
    /\ job[p].at = "crashed" /\ Ends(p)
    /\ UNCHANGED <<file, holder, made, crossed>>

Next ==
    \/ \E p \in Proc :
         \/ \E op \in Op : Calls(p, op)
         \/ Stats(p) \/ ConnectMakes(p) \/ ConnectOpens(p) \/ ConnectFails(p)
         \/ InitializeMetadata(p) \/ InitializeFails(p)
         \/ StartMigrations(p) \/ CheckFails(p)
         \/ RunMigration(p) \/ MigrationFails(p) \/ Migrated(p)
         \/ ReconnectCloses(p) \/ ReconnectOpens(p) \/ ReconnectFails(p)
         \/ CloseSession(p) \/ ListIndexes(p) \/ Reindexed(p) \/ ReindexFails(p)
         \/ \E i \in Index : DropIndex(p, i) \/ CreateIndex(p, i)
         \/ Crash(p) \/ Restart(p)
    \/ \E i \in Index : Desync(i)

Spec == Init /\ [][Next]_vars

-----------------------------------------------------------------------------
(* Whatever apps opened the file and were killed on the way, each          *)
(* migration up to its version ran exactly once, and none above it.        *)
EachOnce ==
    file # NoFile => \A v \in 1..Newest :
        file.applied[v] = IF v <= file.version THEN 1 ELSE 0

(* An app that goes on with a file has it at its own schema version, also  *)
(* when the file was closed and opened again without another look at the   *)
(* version: whatever other apps opened, closed or indexed it meanwhile.    *)
(* Only when one of them migrated the file just then, or a failing Create  *)
(* removed it, nobody notices (MCOpenNewer.cfg).                           *)
OpenIsCurrent ==
    \A p \in Proc \ crossed :
        job[p].at \in {"open", "drop", "create"}
            => Has(p) /\ file.meta /\ file.version = App[p]

(* A database that was there when a Create looked is never removed by it,  *)
(* however many processes create, open and fail around it: what a failing  *)
(* Create removes was made after that look.  By itself, or by another      *)
(* process (MCOpenRace.cfg).                                               *)
CreateSpares ==
    [][file # NoFile /\ file' = NoFile
         => \E p \in Proc : /\ job[p].op = "create" /\ job'[p] = Idle
                            /\ file.id > job[p].since]_vars

(* Do not hold: an open file is always at its app's version; a failed      *)
(* Create removes only a file that it made itself.                         *)
AlwaysCurrent ==
    \A p \in Proc :
        job[p].at \in {"open", "drop", "create"} /\ Has(p)
            => file.meta /\ file.version = App[p]

RemovesOnlyItsOwn ==
    [][file # NoFile /\ file' = NoFile
         => \E p \in Proc : job[p].op = "create" /\ job[p].made = file.id]_vars

(* A Create that fails, and is not killed, leaves no file behind.          *)
FailedCreateLeavesNothing ==
    [][\A p \in Proc :
         job[p].op = "create" /\ job[p].made # 0 /\ job'[p] = Idle
           => file' = NoFile \/ file'.id # job[p].made]_vars

(* A reindex that ends well leaves every index it found in step with its   *)
(* table.                                                                  *)
ReindexRepairs ==
    [][\A p \in Proc :
         job[p].op = "reindex" /\ job[p].at = "reopen" /\ job'[p].at = "open"
           => \A i \in Index : file.index[i] # "desynced"]_vars

(* A database keeps its indexes.                                           *)
IndexesKept ==
    file # NoFile /\ file.version > 0 /\ holder = NoProc
        => \A i \in Index : file.index[i] # "absent"
=============================================================================
