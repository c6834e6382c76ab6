--------------------------- MODULE FileSwitching ----------------------------
(***************************************************************************)
(* A session of the terminal program over several database files           *)
(* (src/internal/tui: file_dialog.go, file_of.go, backup_dialog.go).       *)
(*                                                                         *)
(* Update handles one message at a time.  File > New, File > Open, loads,  *)
(* writes, backups, restores and ledger moves run as commands beside it:   *)
(* each one takes the handle that is open when it is asked for, and its    *)
(* message comes back in any order.  A switch keeps the handle it leaves   *)
(* (prevDB) for the commands that still hold it; the switch after that     *)
(* closes it for good and asks it until its work has ended.                *)
(*                                                                         *)
(* DuckDB has one instance per path, so that two handles on one file       *)
(* undermine each other's backups; module DatabaseHandle shows what one    *)
(* handle does.  Here CloseAndSettle is one step, which says yes when no   *)
(* work runs on the handle and no when its wait runs out.  The checks of a *)
(* File > New or Open see one state of their file.                         *)
(*                                                                         *)
(* The contents of a file are a number that a restore, a ledger move or a  *)
(* new file changes; the steps of an undo history, whatever stack they are *)
(* on, are the contents they were made over.  Each open makes a handle and *)
(* a history with it, so a history is named by its handle.                 *)
(***************************************************************************)
EXTENDS Naturals, FiniteSets

CONSTANTS
    File,        \* the files; a file is named by one of its paths
    Path,        \* those names and others for the same files
    FileOf,      \* the file a path names
    First,       \* the file the session starts with
    Present,     \* the files that exist then
    Opener,      \* bound: File > New and Open commands in flight
    Worker,      \* bound: writes, undos, backups, restores, moves in flight
    MaxHandle,   \* bound: handles of a session, in the order of their opens
    MaxContent,  \* bound: the contents a file has one after the other
    Scopes       \* bound: what one behaviour may do and how much of it is
                 \*        in flight

NoPath   == "none"
NoHandle == 0
Handle   == 1..MaxHandle
Kinds    == {"write", "undo", "backup", "restore", "move"}

(* A file that is not there has one name only.                             *)
ASSUME FileSwitchingAssumption ==
    /\ NoPath \notin Path
    /\ File \subseteq Path /\ FileOf \in [Path -> File]
    /\ \A f \in File : FileOf[f] = f
    /\ \A p \in Path : FileOf[p] \notin Present => p \in File
    /\ First \in Present /\ Present \subseteq File
    /\ MaxHandle \in Nat \ {0} /\ MaxContent \in Nat
    /\ Scopes \subseteq
         [openers : SUBSET Opener, workers : SUBSET Worker, kinds : SUBSET Kinds,
          paths : SUBSET Path, handles : Handle, loads : Nat, losses : Nat,
          overOpen : BOOLEAN]

VARIABLES
    file,      \* each file: whether it is there, and its contents
    handle,    \* each handle: its path, an open pool, closed for good
    db, prevDB, retired,  \* the handles the App holds
    settling,  \* the settleRetired command of each handle and its answer
    op,        \* the file operations in flight (filesInFlight)
    work,      \* the other commands in flight, loads apart
    loads,     \* the loads in flight, with what they have read
    history,   \* the undo history of each handle's session
    shown,     \* the view data
    dialog,    \* the handle of the Restore list, when it is open
    used,      \* handles made so far
    losses, scope

vars  == <<file, handle, db, prevDB, retired, settling, op, work, loads,
           history, shown, dialog, used, losses, scope>>
app   == <<db, prevDB, retired, settling>>
views == <<shown, dialog>>
bounds == <<used, losses, scope>>

Version   == File \X (0..MaxContent)
NoVersion == <<>>
LoadOf(h) == [h |-> h, pc |-> "asked", seen |-> NoVersion]
Load      == [h : Handle, pc : {"asked", "reading", "read"},
              seen : Version \cup {NoVersion}]
Nothing   == [h |-> NoHandle, seen |-> NoVersion]
Unused    == [path |-> NoPath, up |-> FALSE, final |-> TRUE]
NoOp      == [pc |-> "idle", kind |-> "open", path |-> NoPath,
              cur |-> NoHandle, kept |-> {}, new |-> NoHandle]
NoWork    == [pc |-> "idle", kind |-> "write", h |-> NoHandle]

FileState   == [there : BOOLEAN, content : 0..MaxContent]
HandleState == [path : Path \cup {NoPath}, up : BOOLEAN, final : BOOLEAN]
Operation   == [pc : {"idle", "asked", "already", "saved", "failed"},
                kind : {"open", "new"}, path : Path \cup {NoPath},
                cur : Handle \cup {NoHandle}, kept : SUBSET Handle,
                new : Handle \cup {NoHandle}]
Command     == [pc : {"idle", "asked", "locked", "filing", "moving", "writing", "report"},
                kind : Kinds, h : Handle \cup {NoHandle}]

TypeOK ==
    /\ file \in [File -> FileState] /\ handle \in [Handle -> HandleState]
    /\ db \in Handle /\ prevDB \in Handle \cup {NoHandle} /\ retired \subseteq Handle
    /\ settling \in [Handle -> {"none", "asked", "yes", "no"}]
    /\ op \in [Opener -> Operation] /\ work \in [Worker -> Command]
    /\ loads \subseteq Load
    /\ history \in [Handle -> SUBSET Version]
    /\ shown = Nothing \/ (shown.h \in Handle /\ shown.seen \in Version)
    /\ dialog \in Handle \cup {NoHandle} /\ used \in Handle /\ losses \in 0..scope.losses
    /\ scope \in Scopes

Init ==
    /\ file = [f \in File |-> [there |-> f \in Present, content |-> 0]]
    /\ db = 1 /\ prevDB = NoHandle /\ retired = {}
    /\ handle = [h \in Handle |->
                   IF h = 1 THEN [path |-> First, up |-> TRUE, final |-> FALSE]
                   ELSE Unused]
    /\ settling = [h \in Handle |-> "none"]
    /\ op = [o \in Opener |-> NoOp]
    /\ work = [w \in Worker |-> NoWork]
    /\ loads = {LoadOf(1)}
    /\ history = [h \in Handle |-> {}]
    /\ shown = Nothing /\ dialog = NoHandle /\ used = 1 /\ losses = 0
    /\ scope \in Scopes

-----------------------------------------------------------------------------
(* Paths, handles and the work on them.                                    *)

There(p) == file[FileOf[p]].there

(* sameFile reads both files; sameTarget also knows one path by its text.  *)
SameFile(p, q)   == q # NoPath /\ FileOf[p] = FileOf[q] /\ There(p)
SameTarget(p, q) == p = q \/ SameFile(p, q)

FileAt(h)  == FileOf[handle[h].path]
Content(h) == <<FileAt(h), file[FileAt(h)].content>>

Filing(h)  == \E w \in Worker : work[w].h = h /\ work[w].pc = "filing"
Writing(h) == \E w \in Worker : work[w].h = h /\ work[w].pc = "writing"
Reading(h) == \E l \in loads : l.h = h /\ l.pc = "reading"
Busy(h)    == Filing(h) \/ Writing(h) \/ Reading(h)

(* txMu of the handle, and the lock of its undo manager.                   *)
TxFree(h)      == ~Filing(h) /\ ~Writing(h)
ManagerFree(h) == \A w \in Worker :
                    ~(/\ work[w].h = h /\ work[w].kind \in {"write", "undo"}
                      /\ work[w].pc \in {"locked", "writing"})

(* Mutant: the retired handles are forgotten.                              *)
KeptWithoutRetired == {prevDB} \ {NoHandle}

(* keptHandles.                                                            *)
Kept == ({prevDB} \ {NoHandle}) \cup retired

(* CloseForGood.                                                           *)
ForGood(h) == [handle EXCEPT ![h].up = FALSE, ![h].final = TRUE]

-----------------------------------------------------------------------------
(* startFileOperation, submitNewFile and submitOpenFile, in Update.        *)

InFlight(p) == \E o \in Opener : op[o].pc # "idle" /\ SameTarget(op[o].path, p)

Started(kind, p) ==
    [pc |-> "asked", kind |-> kind, path |-> p, cur |-> db, kept |-> Kept,
     new |-> NoHandle]

(* A file that is not there has one name only.                             *)
Submit(o, kind, p) ==
    /\ op[o].pc = "idle" /\ ~InFlight(p)
    /\ kind = "new" => p \in File /\ (scope.overOpen \/ FileAt(db) # p)
    /\ op' = [op EXCEPT ![o] = Started(kind, p)]
    /\ UNCHANGED <<file, handle, app, work, loads, history, views, bounds>>

Reports(o, outcome) == op' = [op EXCEPT ![o].pc = outcome, ![o].kept = {}]

(* The command of File > Open finds its file open ...                      *)
FindsItOpen(o) ==
    /\ op[o].pc = "asked" /\ op[o].kind = "open"
    /\ SameFile(op[o].path, handle[op[o].cur].path)
    /\ Reports(o, "already")
    /\ UNCHANGED <<file, handle, app, work, loads, history, views, bounds>>

(* ... that of File > New finds that its file exists, which db.Create      *)
(* refuses ...                                                             *)
NewFindsFile(o) ==
    /\ op[o].pc = "asked" /\ op[o].kind = "new" /\ There(op[o].path)
    /\ Reports(o, "failed")
    /\ UNCHANGED <<file, handle, app, work, loads, history, views, bounds>>

GoesOn(o) ==
    /\ op[o].pc = "asked"
    /\ IF op[o].kind = "open" THEN ~SameFile(op[o].path, handle[op[o].cur].path)
       ELSE ~There(op[o].path)

(* ... or they settle the earlier handles on the file, one by one ...      *)
ToSettle(o) == {h \in op[o].kept : SameTarget(op[o].path, handle[h].path)}

SettlesKept(o, h) ==
    /\ GoesOn(o) /\ h \in ToSettle(o)
    /\ handle' = ForGood(h)
    /\ IF Busy(h) THEN Reports(o, "failed")
       ELSE op' = [op EXCEPT ![o].kept = @ \ {h}]
    /\ UNCHANGED <<file, app, work, loads, history, views, bounds>>

Saved(o, h) ==
    [pc |-> "saved", kind |-> op[o].kind, path |-> op[o].path, cur |-> op[o].cur,
     kept |-> {}, new |-> h]

(* ... and open or create the file.  A create fails on an instance that    *)
(* has the tables, and takes whatever open pool its path has.              *)
Opens(o) ==
    /\ GoesOn(o) /\ ToSettle(o) = {}
    /\ op[o].kind = "open" => There(op[o].path)
    /\ op[o].kind = "new" =>
         /\ file[op[o].path].content < MaxContent
         /\ \A h \in Handle : ~(handle[h].up /\ handle[h].path = op[o].path)
    /\ used < scope.handles /\ used' = used + 1
    /\ LET h == used + 1 IN
       /\ op' = [op EXCEPT ![o] = Saved(o, h)]
       /\ handle' = [handle EXCEPT ![h] =
                       [path |-> op[o].path, up |-> TRUE, final |-> FALSE]]
       /\ history' = [history EXCEPT ![h] = {}]
    /\ file' = IF op[o].kind = "open" THEN file
               ELSE [file EXCEPT ![op[o].path] =
                       [there |-> TRUE, content |-> @.content + 1]]
    /\ UNCHANGED <<app, work, loads, views, losses, scope>>

OpenFails(o) ==
    /\ GoesOn(o) /\ ToSettle(o) = {}
    /\ Reports(o, "failed")
    /\ UNCHANGED <<file, handle, app, work, loads, history, views, bounds>>

-----------------------------------------------------------------------------
(* Their messages.                                                         *)

(* alreadyOpen: the open runs again when another one switched meanwhile.   *)
AlreadyOpen(o) ==
    /\ op[o].pc = "already"
    /\ op' = [op EXCEPT ![o] = IF op[o].cur = db THEN NoOp
                               ELSE Started("open", op[o].path)]
    /\ UNCHANGED <<file, handle, app, work, loads, history, views, bounds>>

OperationFailed(o) ==
    /\ op[o].pc = "failed"
    /\ op' = [op EXCEPT ![o] = NoOp]
    /\ UNCHANGED <<file, handle, app, work, loads, history, views, bounds>>

(* switchDatabase: the handle before the one we leave retires, dialogs and *)
(* views go, the new file has its own history and loads start on it.       *)
Switch(o) ==
    /\ op[o].pc = "saved" /\ Cardinality(loads) < scope.loads
    /\ op' = [op EXCEPT ![o] = NoOp]
    /\ db' = op[o].new /\ prevDB' = db
    /\ IF prevDB = NoHandle THEN UNCHANGED <<handle, retired, settling>>
       ELSE /\ handle' = ForGood(prevDB)
            /\ retired' = retired \cup {prevDB}
            /\ settling' = [settling EXCEPT ![prevDB] = "asked"]
    /\ shown' = Nothing /\ dialog' = NoHandle
    /\ loads' = loads \cup {LoadOf(op[o].new)}
    /\ UNCHANGED <<file, work, history, bounds>>

(* settleRetired: CloseAndSettle of a handle that is closed for good.      *)
RetiredAnswers(h) ==
    /\ settling[h] = "asked"
    /\ settling' = [settling EXCEPT ![h] = IF Busy(h) THEN "no" ELSE "yes"]
    /\ UNCHANGED <<file, handle, db, prevDB, retired, op, work, loads, history,
                   views, bounds>>

(* Mutant: a busy one is not asked again.                                  *)
RetiredSettledOnce(h) ==
    /\ settling[h] \in {"yes", "no"}
    /\ settling' = [settling EXCEPT ![h] = "none"]
    /\ IF settling[h] = "no" THEN UNCHANGED <<handle, retired>>
       ELSE /\ retired' = retired \ {h}
            /\ handle' = [handle EXCEPT ![h] = Unused]
    /\ UNCHANGED <<file, db, prevDB, op, work, loads, history, views, bounds>>

(* retiredSettled: a busy one is asked again after a pause.                *)
RetiredSettled(h) ==
    /\ settling[h] \in {"yes", "no"}
    /\ IF settling[h] = "no"
       THEN /\ settling' = [settling EXCEPT ![h] = "asked"]
            /\ UNCHANGED <<handle, retired>>
       ELSE /\ settling' = [settling EXCEPT ![h] = "none"]
            /\ retired' = retired \ {h}
            /\ handle' = [handle EXCEPT ![h] = Unused]
    /\ UNCHANGED <<file, db, prevDB, op, work, loads, history, views, bounds>>

-----------------------------------------------------------------------------
(* Loads, tagged with their handle (fileOf).                               *)

Refresh ==
    /\ Cardinality(loads) < scope.loads
    /\ loads' = loads \cup {LoadOf(db)}
    /\ UNCHANGED <<file, handle, app, op, work, history, views, bounds>>

LoadReads(l) ==
    /\ l.pc = "asked" /\ handle[l.h].up
    /\ loads' = (loads \ {l}) \cup {[h |-> l.h, pc |-> "reading", seen |-> Content(l.h)]}
    /\ UNCHANGED <<file, handle, app, op, work, history, views, bounds>>

(* The handle is closed: the error shows no data.                          *)
LoadFails(l) ==
    /\ l.pc = "asked" /\ ~handle[l.h].up
    /\ loads' = loads \ {l}
    /\ UNCHANGED <<file, handle, app, op, work, history, views, bounds>>

LoadEnds(l) ==
    /\ l.pc = "reading"
    /\ loads' = (loads \ {l}) \cup {[l EXCEPT !.pc = "read"]}
    /\ UNCHANGED <<file, handle, app, op, work, history, views, bounds>>

(* Mutant: the message carries no tag.                                     *)
LoadArrivesUntagged(l) ==
    /\ l.pc = "read"
    /\ loads' = loads \ {l}
    /\ shown' = [h |-> l.h, seen |-> l.seen]
    /\ UNCHANGED <<file, handle, app, op, work, history, dialog, bounds>>

(* Update drops the message of another file (fromAnotherFile).             *)
LoadArrives(l) ==
    /\ l.pc = "read"
    /\ loads' = loads \ {l}
    /\ shown' = IF l.h = db THEN [h |-> l.h, seen |-> l.seen] ELSE shown
    /\ UNCHANGED <<file, handle, app, op, work, history, dialog, bounds>>

-----------------------------------------------------------------------------
(* Writes, undos, backups, restores and ledger moves.                      *)

Goes(w, pc) == work' = [work EXCEPT ![w].pc = pc]
Ends(w)     == work' = [work EXCEPT ![w] = NoWork]
Asked(w, kind, h) == work' = [work EXCEPT ![w] = [pc |-> "asked", kind |-> kind, h |-> h]]

Ask(w, kind) ==
    /\ work[w].pc = "idle" /\ kind \in scope.kinds \ {"restore"}
    /\ Asked(w, kind, db)
    /\ UNCHANGED <<file, handle, app, op, loads, history, views, bounds>>

(* The Restore list remembers its handle, and the restore takes it along.  *)
OpenRestoreList ==
    /\ "restore" \in scope.kinds /\ dialog = NoHandle /\ dialog' = db
    /\ UNCHANGED <<file, handle, app, op, work, loads, history, shown, bounds>>

PickRestore(w) ==
    /\ dialog # NoHandle /\ work[w].pc = "idle"
    /\ Asked(w, "restore", dialog)
    /\ dialog' = NoHandle
    /\ UNCHANGED <<file, handle, app, op, loads, history, shown, bounds>>

(* Manager.Execute and Manager.Undo hold the manager for their whole run.  *)
LocksManager(w) ==
    /\ work[w].pc = "asked" /\ work[w].kind \in {"write", "undo"}
    /\ ManagerFree(work[w].h)
    /\ IF work[w].kind = "undo" /\ history[work[w].h] = {} THEN Ends(w)
       ELSE Goes(w, "locked")
    /\ UNCHANGED <<file, handle, app, op, loads, history, views, bounds>>

(* WithTx.                                                                 *)
Begins(w) ==
    /\ work[w].pc \in {"locked", "moving"} /\ TxFree(work[w].h)
    /\ IF handle[work[w].h].up THEN Goes(w, "writing") ELSE Ends(w)
    /\ UNCHANGED <<file, handle, app, op, loads, history, views, bounds>>

(* Mutant: the step is recorded in the manager of the open file.           *)
CommitsOnOpen(w) ==
    LET h == work[w].h IN
    /\ work[w].pc = "writing"
    /\ Goes(w, "report")
    /\ history' = IF work[w].kind = "write"
                  THEN [history EXCEPT ![db] = @ \cup {Content(h)}] ELSE history
    /\ work[w].kind = "move" => file[FileAt(h)].content < MaxContent
    /\ file' = IF work[w].kind = "move"
               THEN [file EXCEPT ![FileAt(h)].content = @ + 1] ELSE file
    /\ UNCHANGED <<handle, app, op, loads, views, bounds>>

(* A step is recorded in the manager the command took; the move of rows to *)
(* the other ledger leaves none, and steps before it no longer fit.        *)
Commits(w) ==
    LET h == work[w].h IN
    /\ work[w].pc = "writing"
    /\ Goes(w, "report")
    /\ history' = IF work[w].kind = "write"
                  THEN [history EXCEPT ![h] = @ \cup {Content(h)}] ELSE history
    /\ work[w].kind = "move" => file[FileAt(h)].content < MaxContent
    /\ file' = IF work[w].kind = "move"
               THEN [file EXCEPT ![FileAt(h)].content = @ + 1] ELSE file
    /\ UNCHANGED <<handle, app, op, loads, views, bounds>>

WriteFails(w) ==
    /\ work[w].pc = "writing" /\ Ends(w)
    /\ UNCHANGED <<file, handle, app, op, loads, history, views, bounds>>

(* WithFileClosed: refused once the handle is closed for good, or while a  *)
(* read holds on; a ledger move begins with a backup.                      *)
FileOpBegins(w) ==
    LET h == work[w].h IN
    /\ work[w].pc = "asked" /\ work[w].kind \in {"backup", "restore", "move"}
    /\ TxFree(h)
    /\ IF handle[h].final \/ Reading(h) THEN Ends(w) /\ UNCHANGED handle
       ELSE Goes(w, "filing") /\ handle' = [handle EXCEPT ![h].up = FALSE]
    /\ UNCHANGED <<file, app, op, loads, history, views, bounds>>

(* The handle opens the file again, unless it is closed for good or gone.  *)
Reopened(h) == [handle EXCEPT ![h].up = ~handle[h].final /\ There(handle[h].path)]

FileOpEnds(w) ==
    LET h == work[w].h IN
    /\ work[w].pc = "filing" /\ file[FileAt(h)].there
    /\ handle' = Reopened(h)
    /\ Goes(w, IF work[w].kind = "move" THEN "moving" ELSE "report")
    /\ work[w].kind = "restore" => file[FileAt(h)].content < MaxContent
    /\ file' = IF work[w].kind = "restore"
               THEN [file EXCEPT ![FileAt(h)].content = @ + 1] ELSE file
    /\ UNCHANGED <<app, op, loads, history, views, bounds>>

FileOpFails(w) ==
    /\ work[w].pc = "filing"
    /\ handle' = Reopened(work[w].h) /\ Ends(w)
    /\ UNCHANGED <<file, app, op, loads, history, views, bounds>>

(* The message of a command: the view of the open file loads again, and    *)
(* after a restore or a move (afterRestore, ledgerMoveSavedMsg) the undo   *)
(* history of the open file goes, for which Update waits for its manager.  *)
Arrives(w) ==
    LET h == work[w].h
        clears == work[w].kind \in {"restore", "move"}
    IN
    /\ work[w].pc = "report" /\ Ends(w)
    /\ IF h # db \/ work[w].kind = "backup" THEN UNCHANGED <<history, shown, loads>>
       ELSE /\ clears => ManagerFree(h)
            /\ history' = IF clears THEN [history EXCEPT ![h] = {}] ELSE history
            /\ shown' = IF work[w].kind = "restore" THEN Nothing ELSE shown
            /\ Cardinality(loads) < scope.loads /\ loads' = loads \cup {LoadOf(h)}
    /\ UNCHANGED <<file, handle, app, op, dialog, bounds>>

-----------------------------------------------------------------------------
(* Behind the program's back.                                              *)

FileDeleted(f) ==
    /\ file[f].there /\ losses < scope.losses
    /\ \/ scope.overOpen
       \/ f # FileAt(db) /\ \A p \in Path : FileOf[p] = f => p = f
    /\ file' = [file EXCEPT ![f].there = FALSE] /\ losses' = losses + 1
    /\ UNCHANGED <<handle, app, op, work, loads, history, views, used, scope>>

FileReturns(f) ==
    /\ losses > 0 /\ ~file[f].there /\ file[f].content = 0
    /\ scope.overOpen \/ f # FileAt(db)
    /\ file' = [file EXCEPT ![f].there = TRUE]
    /\ UNCHANGED <<handle, app, op, work, loads, history, views, bounds>>

(* A use of a handle that failed to reopen its file opens it again.        *)
Heals(h) ==
    /\ ~handle[h].final /\ ~handle[h].up /\ ~Filing(h) /\ There(handle[h].path)
    /\ handle' = [handle EXCEPT ![h].up = TRUE]
    /\ UNCHANGED <<file, app, op, work, loads, history, views, bounds>>

-----------------------------------------------------------------------------
Opening(o) ==
    \/ FindsItOpen(o) \/ NewFindsFile(o) \/ Opens(o) \/ OpenFails(o)
    \/ \E h \in Handle : SettlesKept(o, h)
    \/ AlreadyOpen(o) \/ OperationFailed(o) \/ Switch(o)

Settling(h) == RetiredAnswers(h) \/ RetiredSettled(h)

Loading(l) == LoadReads(l) \/ LoadFails(l) \/ LoadEnds(l) \/ LoadArrives(l)

Working(w) ==
    \/ LocksManager(w) \/ Begins(w) \/ Commits(w) \/ WriteFails(w)
    \/ FileOpBegins(w) \/ FileOpEnds(w) \/ FileOpFails(w) \/ Arrives(w)

User ==
    \/ \E o \in scope.openers, kind \in {"open", "new"}, p \in scope.paths : Submit(o, kind, p)
    \/ Refresh \/ OpenRestoreList
    \/ \E w \in scope.workers : PickRestore(w) \/ \E kind \in Kinds : Ask(w, kind)

World ==
    \/ \E f \in File : FileDeleted(f) \/ FileReturns(f)
    \/ \E h \in Handle : Heals(h)

Next ==
    \/ User \/ World
    \/ \E o \in Opener : Opening(o)
    \/ \E h \in Handle : Settling(h)
    \/ \E l \in loads : Loading(l)
    \/ \E w \in Worker : Working(w)

(* Every command that runs ends and its message is handled.  Nothing is    *)
(* assumed of the user, or of how long a read, a write or a file operation *)
(* takes.                                                                  *)
Spec ==
    /\ Init /\ [][Next]_vars
    /\ \A o \in Opener : WF_vars(Opening(o))
    /\ \A h \in Handle : WF_vars(Settling(h))
    /\ WF_vars(\E l \in loads : Loading(l))
    /\ \A w \in Worker : WF_vars(Working(w))

-----------------------------------------------------------------------------
(* At most one handle of a file can still touch it: the others are closed  *)
(* for good and their work has ended.  Whatever runs on an earlier handle, *)
(* and by whichever name the file is opened again.                         *)
Touches(h) == handle[h].path # NoPath /\ (~handle[h].final \/ Busy(h))

OneHandle ==
    \A g, h \in Handle : g # h /\ Touches(g) /\ Touches(h) => FileAt(g) # FileAt(h)

(* What the views show, and the Restore list, is of the open file.         *)
ShownIsOpen == shown.h \in {db, NoHandle} /\ dialog \in {db, NoHandle}

(* The undo history of the open file holds only steps made over its        *)
(* present contents, unless the report that they changed is on its way.    *)
Changing(w) ==
    /\ work[w].h = db /\ work[w].pc = "report"
    /\ work[w].kind \in {"restore", "move"}

HistoryFits == (\E w \in Worker : Changing(w)) \/ history[db] \subseteq {Content(db)}

(* A retired handle is closed for good, and there is always a command or a *)
(* message that asks whether its work has ended.                           *)
RetiredIsAsked ==
    \A h \in retired : handle[h].final /\ settling[h] # "none"

(* Two wishes the code does not fulfil.  An undo acts on the contents its  *)
(* steps were made over; and when no load is in flight and no report is on *)
(* its way, the view shows the present contents of the file.               *)
UndoActsOnItsContents ==
    [][\A w \in Worker :
         Commits(w) /\ work[w].kind = "undo"
            => Content(work[w].h) \in history[work[w].h]]_vars

ShownIsPresent ==
    (loads = {} /\ \A w \in Worker : ~Changing(w))
        => shown = Nothing \/ shown.seen = Content(db)
=============================================================================
