---------------------------- MODULE BackupRestore ----------------------------
(***************************************************************************)
(* Backups of a database file and the restore of one (src/internal/backup, *)
(* with the file functions of src/internal/db/file.go), while another      *)
(* tmoney process may open the same file, and either may be killed at any  *)
(* step.                                                                   *)
(*                                                                         *)
(* A database is a file and the logs beside it.  An open replays a good    *)
(* log onto whatever file is there, passes over a torn one and fails on a  *)
(* damaged one.  The number of the last commit stands for the rows, Mixed  *)
(* for a file onto which the log of another file was replayed.             *)
(***************************************************************************)
EXTENDS Naturals, FiniteSets

CONSTANTS
    Mixed,
    NoFile, NoName,
    MaxAutoBackups,
    Clock,       \* what the wall clock may show when a backup is named
    Window,      \* whether the other process may act while a copy reads
                 \* the file and its log, or between the last checks of a
                 \* restore and its rename
    MaxCommit,   \* bound: commits
    MaxName,     \* bound: timestamps
    MaxOps,      \* bound: backups and restores
    MaxOther     \* bound: opens by the other process

ASSUME BackupAssumption ==
    /\ MaxAutoBackups \in Nat \ {0}
    /\ Clock \subseteq Nat \ {0} /\ Clock # {} /\ IsFiniteSet(Clock)
    /\ Window \in BOOLEAN
    /\ MaxCommit \in Nat /\ MaxName \in Nat /\ MaxOps \in Nat /\ MaxOther \in Nat
    /\ Mixed \notin Nat

VARIABLES
    file,     \* the database: its file and log
    backups,  \* the named backups
    temp,     \* the copy a restore puts in place
    part,     \* the partial file of a backup
    aside,    \* the log a restore has moved away
    job,      \* the backup or restore under way in this process
    other,    \* the other process: away, with the file open, with a file
              \* open that a restore replaced, or quitting
    want,     \* history: what the chosen backup shows
    last, ops, opens

vars == <<file, backups, temp, part, aside, job, other, want, last, ops, opens>>

Kind    == {"auto", "manual"}
Name    == Kind \X (1..MaxName)
Content == 0..MaxCommit \cup {Mixed}
Log     == [kind : {"none", "good", "torn", "damaged"}, base : Content, to : 0..MaxCommit]
Files   == [rows : Content, log : Log]

NoLog  == [kind |-> "none", base |-> 0, to |-> 0]
HasWAL(f)  == f.log.kind # "none"

(* What an open of f shows; Opens(f) says whether one succeeds.            *)
Opens(f) == f.log.kind # "damaged"
Shown(f) == IF f.log.kind # "good" THEN f.rows
            ELSE IF f.log.base = f.rows THEN f.log.to ELSE Mixed

(* ValidateFile: a read-only attach, with the logs beside the file.  Nothing *)
(* tells it that a log belongs to another file.                            *)
Valid(f) == Opens(f)

(* f holds what g holds: they show the same, and no log that an open does  *)
(* not read is missing.                                                    *)
Holds(f, g) ==
    /\ Shown(f) = Shown(g)
    /\ g.log.kind \in {"torn", "damaged"} => f.log = g.log

Step == {"idle", "name", "copy", "logs", "publish", "rename", "rawlogs",
         "retain", "source", "fold", "stamp", "compare", "held", "aside", "swap", "clean"}

Job == [op : Kind \cup {"restore", "none"}, at : Step, raw : BOOLEAN,
        dst : Name \cup {NoName}, source : Name \cup {NoName},
        seen : Files \cup {NoFile}]

TypeOK ==
    /\ file \in Files
    /\ DOMAIN backups \subseteq Name /\ backups \in [DOMAIN backups -> Files]
    /\ temp \in Files \cup {NoFile} /\ part \in Files \cup {NoFile}
    /\ aside \in Log
    /\ job \in Job
    /\ other \in {"away", "open", "unlinked", "leaving"}
    /\ want \in Content \cup {NoFile}
    /\ last \in 0..MaxCommit /\ ops \in 0..MaxOps /\ opens \in 0..MaxOther

Idle == [op |-> "none", at |-> "idle", raw |-> FALSE, dst |-> NoName,
         source |-> NoName, seen |-> NoFile]

Init ==
    /\ file = [rows |-> 0, log |-> NoLog]
    /\ backups = << >>
    /\ temp = NoFile /\ part = NoFile /\ aside = NoLog
    /\ job = Idle /\ other = "away" /\ want = NoFile
    /\ last = 0 /\ ops = 0 /\ opens = 0

-----------------------------------------------------------------------------
(* Sessions.  DuckDB folds the log in at a clean close; a crash, a kill or *)
(* an invalidated instance leaves it, whole, torn or damaged.              *)

HeldElsewhere == other = "open"

MayAct == job.at \in {"logs", "held", "aside", "swap"} => Window

(* A session of this process opens the file, commits and lets it go.       *)
SessionCommits(left) ==
    /\ job = Idle /\ ~HeldElsewhere /\ Opens(file) /\ last < MaxCommit
    /\ last' = last + 1
    /\ file' = IF left = "none" THEN [rows |-> last', log |-> NoLog]
               ELSE [rows |-> Shown(file),
                     log |-> [kind |-> "good", base |-> Shown(file), to |-> last']]
    /\ UNCHANGED <<backups, temp, part, aside, job, other, want, ops, opens>>

(* The other process takes the lock on the file.                           *)
OtherOpens ==
    /\ other = "away" /\ opens < MaxOther /\ Opens(file) /\ MayAct
    /\ other' = "open" /\ opens' = opens + 1
    /\ UNCHANGED <<file, backups, temp, part, aside, job, want, last, ops>>

(* Its commits go to the log beside the path, whichever file is there now. *)
OtherCommits ==
    /\ other \in {"open", "unlinked"} /\ last < MaxCommit /\ MayAct
    /\ last' = last + 1
    /\ file' = [file EXCEPT !.log =
                  [kind |-> "good", to |-> last',
                   base |-> IF other = "open" THEN file.rows ELSE Mixed]]
    /\ UNCHANGED <<backups, temp, part, aside, job, other, want, ops, opens>>

OtherCloses ==
    /\ other \in {"open", "unlinked"} /\ other' = "leaving" /\ MayAct
    /\ file' = IF other = "unlinked" THEN [file EXCEPT !.log = NoLog]
               ELSE IF file.log.kind = "good" THEN [rows |-> Shown(file), log |-> NoLog]
               ELSE file
    /\ UNCHANGED <<backups, temp, part, aside, job, want, last, ops, opens>>

(* A kill of it may cut its log.                                           *)
OtherDies(left) ==
    /\ other \in {"open", "unlinked"} /\ other' = "away" /\ MayAct
    /\ left # "good" => file.log.kind = "good"
    /\ file' = IF left = "good" THEN file
               ELSE [file EXCEPT !.log.kind = left]
    /\ UNCHANGED <<backups, temp, part, aside, job, want, last, ops, opens>>

-----------------------------------------------------------------------------
(* Naming and retention.                                                   *)

Stamps(kind) == {n[2] : n \in {m \in DOMAIN backups : m[1] = kind}}

(* freeBackupPath: now, or one after the newest of its kind.               *)
FreeName(kind, name) ==
    /\ name \in Name /\ name[1] = kind
    /\ \A s \in Stamps(kind) : name[2] > s
    /\ \E now \in Clock :
         /\ name[2] >= now
         /\ \A u \in now..(name[2] - 1) : \E s \in Stamps(kind) : u <= s

(* Mutant of Expired: the source of a restore is not spared.               *)
ExpiredAny(keep) ==
    LET autos == {n \in DOMAIN backups : n[1] = "auto"}
    IN  {n \in autos : Cardinality({m \in autos : m[2] > n[2]}) >= MaxAutoBackups}

(* enforceRetention: the auto-backups beyond the limit, oldest first.      *)
Expired(keep) ==
    LET autos == {n \in DOMAIN backups : n[1] = "auto" /\ n # keep}
    IN  {n \in autos : Cardinality({m \in autos : m[2] > n[2]}) >= MaxAutoBackups}

(* They are deleted newest first, up to one that cannot be deleted.        *)
Removals(names) == {names} \cup {{n \in names : n[2] > x[2]} : x \in names}

Without(names) == [n \in DOMAIN backups \ names |-> backups[n]]

With(name, f) ==
    [n \in DOMAIN backups \cup {name} |-> IF n = name THEN f ELSE backups[n]]

-----------------------------------------------------------------------------
(* copyDatabase: a backup is copied to a partial file and then named.      *)

(* The operation ends; what it was still writing is removed.               *)
Ends == job' = Idle /\ part' = NoFile /\ temp' = NoFile

(* A kill leaves the partial files, which nothing ever lists.              *)
Crash ==
    /\ job # Idle
    /\ Ends /\ aside' = NoLog /\ want' = NoFile
    /\ UNCHANGED <<file, backups, other, last, ops, opens>>

StartBackup(kind) ==
    /\ job = Idle /\ ops < MaxOps
    /\ job' = [Idle EXCEPT !.op = kind, !.at = "name"]
    /\ ops' = ops + 1
    /\ UNCHANGED <<file, backups, temp, part, aside, other, want, last, opens>>

KindOfJob == IF job.op = "restore" THEN "auto" ELSE job.op

PickName ==
    /\ job.at = "name"
    /\ \E name \in Name :
         FreeName(KindOfJob, name) /\ job' = [job EXCEPT !.at = "copy", !.dst = name]
    /\ UNCHANGED <<file, backups, temp, part, aside, other, want, last, ops, opens>>

CopyFile ==
    /\ job.at = "copy"
    /\ part' = [rows |-> file.rows, log |-> NoLog]
    /\ job' = [job EXCEPT !.at = "logs"]
    /\ UNCHANGED <<file, backups, temp, aside, other, want, last, ops, opens>>

(* Mutant of CopyLogs: the log that was folded in is kept beside the copy. *)
CopyLogsTwice ==
    /\ job.at = "logs" /\ Opens(file)
    /\ part' = [rows |-> Shown(file), log |-> file.log]
    /\ job' = [job EXCEPT !.at = "publish"]
    /\ UNCHANGED <<file, backups, temp, aside, other, want, last, ops, opens>>

(* The logs are copied, and folded in unless they are kept raw.            *)
CopyLogs ==
    /\ job.at = "logs"
    /\ LET copy == [part EXCEPT !.log = file.log]
       IN  IF job.raw \/ ~HasWAL(file)
           THEN part' = copy /\ job' = [job EXCEPT !.at = "publish"] /\ UNCHANGED temp
           ELSE IF Opens(copy)
           THEN /\ part' = [rows |-> Shown(copy), log |-> NoLog]
                /\ job' = [job EXCEPT !.at = "publish"] /\ UNCHANGED temp
           ELSE Ends
    /\ UNCHANGED <<file, backups, aside, other, want, last, ops, opens>>

(* The complete copy gets its name in one step, by a hard link.            *)
Publish ==
    /\ job.at = "publish" /\ job.dst \notin DOMAIN backups
    /\ backups' = With(job.dst, [part EXCEPT !.log = NoLog])
    /\ job' = [job EXCEPT !.at = "rawlogs"]
    /\ UNCHANGED <<file, temp, part, aside, other, want, last, ops, opens>>

(* Another process took the name: the next free one is tried.              *)
NameTaken ==
    /\ job.at = "publish" /\ job.dst \in DOMAIN backups
    /\ \E name \in Name :
         FreeName(KindOfJob, name) /\ job' = [job EXCEPT !.dst = name]
    /\ UNCHANGED <<file, backups, temp, part, aside, other, want, last, ops, opens>>

(* A file system without hard links: a look whether the name is free, and  *)
(* a rename, which replaces what has come there since.                     *)
NoLink ==
    /\ job.at = "publish" /\ job.dst \notin DOMAIN backups
    /\ job' = [job EXCEPT !.at = "rename"]
    /\ UNCHANGED <<file, backups, temp, part, aside, other, want, last, ops, opens>>

Rename ==
    /\ job.at = "rename"
    /\ backups' = With(job.dst,
         [part EXCEPT !.log = IF job.dst \in DOMAIN backups THEN backups[job.dst].log
                              ELSE NoLog])
    /\ job' = [job EXCEPT !.at = "rawlogs"]
    /\ UNCHANGED <<file, temp, part, aside, other, want, last, ops, opens>>

(* The raw logs go beside it; alone, if its file is deleted by now.        *)
PublishRawLogs ==
    /\ job.at = "rawlogs"
    /\ backups' = IF job.dst \in DOMAIN backups THEN With(job.dst, part) ELSE backups
    /\ part' = NoFile
    /\ job' = [job EXCEPT !.at = "retain"]
    /\ UNCHANGED <<file, temp, aside, other, want, last, ops, opens>>

(* One of them does not get its name: the backup, which would miss rows,   *)
(* is deleted again, if it can be.                                         *)
RawLogsFail ==
    /\ job.at = "rawlogs"
    /\ backups' \in {Without({job.dst}), backups}
    /\ Ends /\ want' = NoFile
    /\ UNCHANGED <<file, aside, other, last, ops, opens>>

(* A restore goes on also when retention fails.                            *)
Retain ==
    /\ job.at = "retain"
    /\ IF KindOfJob = "auto"
       THEN \E gone \in Removals(Expired(job.source)) : backups' = Without(gone)
       ELSE UNCHANGED backups
    /\ IF job.op = "restore"
       THEN job' = [job EXCEPT !.at = "compare"] /\ UNCHANGED <<part, temp>>
       ELSE Ends
    /\ UNCHANGED <<file, aside, other, want, last, ops, opens>>

(* A full disk, a lost share: a copy fails and is removed.                 *)
CopyFails ==
    /\ job.at \in {"copy", "logs", "publish", "rename", "source"}
    /\ Ends /\ want' = NoFile
    /\ UNCHANGED <<file, backups, aside, other, last, ops, opens>>

(* The other process quits with an auto-backup of its own, whose retention *)
(* knows nothing of this process.                                          *)
OtherBacksUp ==
    /\ other = "leaving" /\ other' = "away"
    /\ \E name \in Name :
         LET all  == With(name, [rows |-> Shown(file), log |-> NoLog])
             old  == {n \in DOMAIN all :
                        n[1] = "auto" /\ Cardinality({m \in DOMAIN all :
                          m[1] = "auto" /\ m[2] > n[2]}) >= MaxAutoBackups}
         IN  /\ FreeName("auto", name)
             /\ \E gone \in Removals(old) :
                  backups' = [n \in DOMAIN all \ gone |-> all[n]]
    /\ UNCHANGED <<file, temp, part, aside, job, want, last, ops, opens>>

-----------------------------------------------------------------------------
(* Restore.                                                                *)

Fails == Ends /\ want' = NoFile /\ UNCHANGED <<file, backups, aside, other, last, ops, opens>>

(* The chosen backup is a database that opens.                             *)
StartRestore(b) ==
    /\ job = Idle /\ ops < MaxOps
    /\ Valid(backups[b])
    /\ job' = [Idle EXCEPT !.op = "restore", !.at = "source", !.source = b]
    /\ want' = Shown(backups[b])
    /\ ops' = ops + 1
    /\ UNCHANGED <<file, backups, temp, part, aside, other, last, opens>>

(* It is copied beside the database, its log folded in.                    *)
CopySource ==
    /\ job.at = "source" /\ job.source \in DOMAIN backups
    /\ temp' = [rows |-> Shown(backups[job.source]), log |-> NoLog]
    /\ job' = [job EXCEPT !.at = "fold"]
    /\ UNCHANGED <<file, backups, part, aside, other, want, last, ops, opens>>

SourceGone == job.at = "source" /\ job.source \notin DOMAIN backups /\ Fails

(* The log of the database is folded into it, in place.  A damaged log or  *)
(* a read-only file fails the fold; a torn log is passed over.             *)
Fold(readOnly) ==
    /\ job.at = "fold" /\ ~HeldElsewhere
    /\ file' = IF readOnly \/ file.log.kind # "good" THEN file
               ELSE [rows |-> Shown(file), log |-> NoLog]
    /\ job' = [job EXCEPT !.at = "stamp", !.raw = readOnly \/ ~Opens(file)]
    /\ UNCHANGED <<backups, temp, part, aside, other, want, last, ops, opens>>

FoldRefused == job.at = "fold" /\ HeldElsewhere /\ Fails

(* Mutant of Stamp: a log that the fold passed over is folded again.       *)
StampFolded ==
    /\ job.at = "stamp"
    /\ job' = [job EXCEPT !.at = "name", !.seen = file]
    /\ UNCHANGED <<file, backups, temp, part, aside, other, want, last, ops, opens>>

(* What the safety backup will hold, and what the file looks like now.     *)
Stamp ==
    /\ job.at = "stamp"
    /\ job' = [job EXCEPT !.at = "name", !.raw = job.raw \/ HasWAL(file),
                          !.seen = file]
    /\ UNCHANGED <<file, backups, temp, part, aside, other, want, last, ops, opens>>

(* A write since then is not in the safety backup.                         *)
Compare ==
    /\ job.at = "compare" /\ file = job.seen
    /\ job' = [job EXCEPT !.at = "held"]
    /\ UNCHANGED <<file, backups, temp, part, aside, other, want, last, ops, opens>>

CompareRefused == job.at = "compare" /\ file # job.seen /\ Fails

CheckHeld ==
    /\ job.at = "held" /\ ~HeldElsewhere
    /\ job' = [job EXCEPT !.at = "aside"]
    /\ UNCHANGED <<file, backups, temp, part, aside, other, want, last, ops, opens>>

HeldRefused == job.at = "held" /\ HeldElsewhere /\ Fails

(* Mutant of MoveAside: the log stays where the next open replays it.      *)
MoveNothing ==
    /\ job.at = "aside"
    /\ job' = [job EXCEPT !.at = "swap"]
    /\ UNCHANGED <<file, backups, temp, part, aside, other, want, last, ops, opens>>

MoveAside ==
    /\ job.at = "aside"
    /\ aside' = file.log /\ file' = [file EXCEPT !.log = NoLog]
    /\ job' = [job EXCEPT !.at = "swap"]
    /\ UNCHANGED <<backups, temp, part, other, want, last, ops, opens>>

(* The rename.  A process that has the file open keeps the old one.        *)
Swap ==
    /\ job.at = "swap"
    /\ file' = [file EXCEPT !.rows = temp.rows]
    /\ temp' = NoFile
    /\ other' = IF other = "open" THEN "unlinked" ELSE other
    /\ job' = [job EXCEPT !.at = "clean"]
    /\ UNCHANGED <<backups, part, aside, want, last, ops, opens>>

SwapFails ==
    /\ job.at = "swap"
    /\ file' = [file EXCEPT !.log = IF aside = NoLog THEN @ ELSE aside]
    /\ aside' = NoLog /\ Ends /\ want' = NoFile
    /\ UNCHANGED <<backups, other, last, ops, opens>>

RemoveAside ==
    /\ job.at = "clean"
    /\ aside' = NoLog /\ Ends /\ want' = NoFile
    /\ UNCHANGED <<file, backups, other, last, ops, opens>>

-----------------------------------------------------------------------------
Others ==
    \/ OtherOpens \/ OtherCommits \/ OtherCloses \/ OtherBacksUp
    \/ \E left \in {"good", "torn", "damaged"} : OtherDies(left)

Backs ==
    \/ \E kind \in Kind : StartBackup(kind)
    \/ PickName \/ CopyFile \/ CopyLogs \/ Publish \/ NameTaken \/ NoLink \/ Rename
    \/ PublishRawLogs \/ RawLogsFail \/ Retain \/ CopyFails

Restores ==
    \/ \E b \in DOMAIN backups : StartRestore(b)
    \/ CopySource \/ SourceGone \/ \E readOnly \in BOOLEAN : Fold(readOnly)
    \/ FoldRefused \/ Stamp \/ Compare \/ CompareRefused \/ CheckHeld
    \/ HeldRefused \/ MoveAside \/ Swap \/ SwapFails \/ RemoveAside

Next ==
    \/ \E left \in {"none", "good"} : SessionCommits(left)
    \/ Others \/ Backs \/ Restores \/ Crash

Spec == Init /\ [][Next]_vars

-----------------------------------------------------------------------------
(* The database is whole at every step, also if the process dies there: no *)
(* log of another file lies beside it for the next open to replay.         *)
DatabaseWhole == Opens(file) => Shown(file) # Mixed

(* A file with the name of a backup is a whole database, as long as no     *)
(* other process folds the log of the database between the copies of the   *)
(* two (Window; MCBackupTorn.cfg).                                         *)
BackupsWhole == \A n \in DOMAIN backups : Shown(backups[n]) # Mixed

(* There are enough newer automatic backups for retention to delete n.     *)
PushedOut(n) ==
    Cardinality({m \in DOMAIN backups : m[1] = "auto" /\ m[2] > n[2]}) >= MaxAutoBackups

(* A restore that was not interrupted while it named its safety backup has *)
(* it: what the database held when the restored file took its place, every *)
(* log included, is in a backup, unless other processes made so many newer *)
(* ones meanwhile that their retention deleted it, or got at the file      *)
(* between its last check and the rename (Window; SwapAlone).              *)
SwapKeepsOld ==
    [][job.at = "swap" /\ job'.at = "clean"
         => \/ \E n \in DOMAIN backups : Holds(backups[n], [file EXCEPT !.log = aside])
            \/ PushedOut(job.dst)]_vars

(* The restored database shows what the chosen backup shows.               *)
RestoresTheChoice ==
    [][job.at = "swap" /\ job'.at = "clean" => Shown(file') = want]_vars

(* Only the process itself has the file when the restored one replaces it. *)
SwapAlone == [][job.at = "swap" /\ job'.at = "clean" => ~HeldElsewhere]_vars

(* A backup is deleted for its age - then it is no manual one, not the one *)
(* a restore of this process reads, and none of the newest - or it is the  *)
(* copy that the operation under way has just named and whose raw logs did *)
(* not get their names (copyDatabase).  None is written over, except by    *)
(* the rename that publish falls back to where there are no hard links, at *)
(* the name that a look has just found free.  Raw logs are put beside the  *)
(* copy they were read with, and nothing else.                             *)
RetentionSpares ==
    [][\A n \in DOMAIN backups :
         /\ n \notin DOMAIN backups' =>
              \/ /\ n[1] = "auto" /\ PushedOut(n)'
                 /\ job.at = "retain" /\ job' # job => n # job.source
              \/ /\ job.at = "rawlogs" /\ job' = Idle /\ n = job.dst
                 /\ backups[n].rows = part.rows
         /\ n \in DOMAIN backups' /\ backups'[n] # backups[n] =>
              /\ n = job.dst /\ job' # job /\ job.at \in {"rename", "rawlogs"}
              /\ job.at = "rawlogs" => backups'[n].rows = backups[n].rows]_vars

(* A named backup has the raw logs that were copied for it.                *)
NamedIsComplete ==
    [][job.at = "rawlogs" /\ job'.at = "idle" /\ job.dst \in DOMAIN backups =>
         Holds(backups[job.dst], part)]_vars
=============================================================================
