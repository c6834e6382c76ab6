----------------------------- MODULE FilesProofs ----------------------------
(***************************************************************************)
(* Proofs about FileSwitching, for any files and names, any commands in    *)
(* flight and any number of handles.                                       *)
(*                                                                         *)
(* The argument: a handle that can touch a file is the open one, one just  *)
(* made, or one the App still holds to be closed; two operations in flight *)
(* are never on one file; and an operation that goes on has every handle   *)
(* of its file among those it settles or compares first, because whatever  *)
(* came to its file after it started would have been an operation too.     *)
(***************************************************************************)
EXTENDS FileSwitching, TLAPS

(* Handles: those not made yet have no path, a handle that is closed for   *)
(* good is down, and only a handle of a file has work.                     *)
Made ==
    \A h \in Handle :
        /\ handle[h].path = NoPath => handle[h].final /\ ~Busy(h)
        /\ handle[h].final => ~handle[h].up
        /\ h > used => handle[h].path = NoPath

(* The retired handles are closed for good and being settled; one that     *)
(* answered yes has no work.                                               *)
Retirement ==
    \A h \in Handle :
        /\ settling[h] # "none" <=> h \in retired
        /\ h \in retired => handle[h].final
        /\ settling[h] = "yes" => ~Busy(h)

(* What a file operation holds.                                            *)
OpsFit ==
    \A o \in Opener : op[o].pc # "idle" =>
        /\ op[o].path \in Path /\ op[o].cur \in Handle
        /\ op[o].kind = "new" => op[o].path \in File
        /\ op[o].pc = "already" => op[o].kind = "open"
        /\ op[o].pc = "saved" => op[o].new \in Handle /\ handle[op[o].new].path = op[o].path

(* The handles in use, the open one and those about to be, are none of the *)
(* earlier ones.                                                           *)
InUse == {db} \cup {op[o].new : o \in {x \in Opener : op[x].pc = "saved"}}
Older == ({prevDB} \ {NoHandle}) \cup retired \cup UNION {op[o].kept : o \in Opener}

Apart ==
    /\ \A h \in InUse : h <= used /\ h \notin Older
                        /\ handle[h].path # NoPath /\ ~handle[h].final
    /\ \A h \in Older : h <= used
    /\ \A o, x \in Opener : op[o].pc = "saved" =>
          /\ op[o].new # db
          /\ op[x].pc = "saved" /\ op[x].new = op[o].new => x = o

(* A handle that nobody switched to yet has neither steps nor work.        *)
Fresh ==
    /\ \A w \in Worker : work[w].h <= used
    /\ \A o \in Opener : op[o].pc = "saved" =>
          /\ history[op[o].new] = {}
          /\ \A w \in Worker : work[w].h # op[o].new

(* What a load and a command hold.                                         *)
WorkFits ==
    /\ \A l \in loads : l.pc = "asked" \/ l.seen \in Version
    /\ \A w \in Worker : work[w].pc # "idle" => work[w].h \in Handle

BaseInv ==
    /\ TypeOK /\ Made /\ Retirement /\ OpsFit /\ Apart /\ Fresh /\ WorkFits
    /\ ShownIsOpen

NamesFit == \A p \in Path : There(p) \/ p \in File

(* Whoever can touch a file is known to the App or about to be.            *)
Known ==
    \A h \in Handle : Touches(h) => h \in InUse \/ h = prevDB \/ h \in retired

(* No two operations are on one file; one that goes on has every handle of *)
(* its file in sight.                                                      *)
OpsApart ==
    \A o, x \in Opener : o # x /\ op[o].pc # "idle" /\ op[x].pc # "idle"
        => FileOf[op[o].path] # FileOf[op[x].path]

Covered ==
    \A o \in Opener, h \in Handle :
        op[o].pc = "asked" /\ Touches(h) /\ FileAt(h) = FileOf[op[o].path]
        => h \in op[o].kept \/ (op[o].kind = "open" /\ h = op[o].cur)

AloneInv == /\ BaseInv /\ NamesFit /\ Known /\ OpsApart /\ Covered /\ OneHandle

IInv == AloneInv /\ HistoryFits

(* No file is deleted while it is the open one, and none made over it.     *)
FilesKept == \A s \in Scopes : ~s.overOpen

----------------------------------------------------------------------------
(* Writes to one entry of a function.                                      *)

LEMMA Numbers == NoHandle \notin Handle /\ Handle \subseteq Nat /\ 1 \in Handle
BY FileSwitchingAssumption DEF NoHandle, Handle

LEMMA Went ==
    ASSUME work \in [Worker -> Command], NEW w \in Worker,
           NEW pc \in {"idle", "asked", "locked", "filing", "moving", "writing", "report"},
           Goes(w, pc)
    PROVE  /\ work' \in [Worker -> Command]
           /\ work'[w].pc = pc /\ work'[w].h = work[w].h /\ work'[w].kind = work[w].kind
           /\ \A x \in Worker : x # w => work'[x] = work[x]
BY DEF Goes, Command

LEMMA Ended ==
    ASSUME work \in [Worker -> Command], NEW w \in Worker, Ends(w)
    PROVE  /\ work' \in [Worker -> Command]
           /\ work'[w].pc = "idle" /\ work'[w].h = NoHandle
           /\ \A x \in Worker : x # w => work'[x] = work[x]
BY DEF Ends, Command, NoWork, Kinds

LEMMA WasAsked ==
    ASSUME work \in [Worker -> Command], NEW w \in Worker, NEW kind \in Kinds,
           NEW h \in Handle, Asked(w, kind, h)
    PROVE  /\ work' \in [Worker -> Command]
           /\ work'[w].pc = "asked" /\ work'[w].h = h /\ work'[w].kind = kind
           /\ \A x \in Worker : x # w => work'[x] = work[x]
BY DEF Asked, Command

LEMMA Upped ==
    ASSUME handle \in [Handle -> HandleState], NEW h \in Handle, NEW up \in BOOLEAN,
           handle' = [handle EXCEPT ![h].up = up]
    PROVE  /\ handle' \in [Handle -> HandleState]
           /\ handle'[h].up = up
           /\ \A g \in Handle : /\ handle'[g].path = handle[g].path
                                /\ handle'[g].final = handle[g].final
                                /\ g # h => handle'[g].up = handle[g].up
BY DEF HandleState

LEMMA Closed ==
    ASSUME handle \in [Handle -> HandleState], NEW h \in Handle, handle' = ForGood(h)
    PROVE  /\ handle' \in [Handle -> HandleState]
           /\ ~handle'[h].up /\ handle'[h].final /\ handle'[h].path = handle[h].path
           /\ \A g \in Handle : g # h => handle'[g] = handle[g]
BY DEF HandleState, ForGood

LEMMA NewContent ==
    ASSUME file \in [File -> FileState], NEW f \in File, file[f].content < MaxContent,
           file' = [file EXCEPT ![f].content = @ + 1]
    PROVE  /\ file' \in [File -> FileState]
           /\ \A g \in File : /\ file'[g].there = file[g].there
                              /\ g # f => file'[g].content = file[g].content
<1>1. file[f].content + 1 \in 0..MaxContent
  BY FileSwitchingAssumption DEF FileState
<1>2. file' = [file EXCEPT ![f] = [file[f] EXCEPT !.content = file[f].content + 1]]
  OBVIOUS
<1>3. [file[f] EXCEPT !.content = file[f].content + 1] \in FileState
  BY <1>1 DEF FileState
<1>4. [file[f] EXCEPT !.content = file[f].content + 1].there = file[f].there
  BY DEF FileState
<1> QED
  BY <1>2, <1>3, <1>4

LEMMA Moved ==
    ASSUME file \in [File -> FileState], NEW f \in File, NEW b \in BOOLEAN,
           file' = [file EXCEPT ![f].there = b]
    PROVE  /\ file' \in [File -> FileState]
           /\ file'[f].there = b
           /\ \A g \in File : /\ g # f => file'[g].there = file[g].there
                              /\ file'[g].content = file[g].content
BY DEF FileState

LEMMA OneOp ==
    ASSUME op \in [Opener -> Operation], NEW o \in Opener, NEW r \in Operation,
           op' = [op EXCEPT ![o] = r]
    PROVE  /\ op' \in [Opener -> Operation] /\ op'[o] = r
           /\ \A x \in Opener : x # o => op'[x] = op[x]
OBVIOUS

LEMMA Reported ==
    ASSUME op \in [Opener -> Operation], NEW o \in Opener,
           NEW pc \in {"already", "failed"}, Reports(o, pc)
    PROVE  /\ op' \in [Opener -> Operation]
           /\ op'[o].pc = pc /\ op'[o].kept = {} /\ op'[o].kind = op[o].kind
           /\ op'[o].path = op[o].path /\ op'[o].cur = op[o].cur
           /\ \A x \in Opener : x # o => op'[x] = op[x]
BY DEF Operation, Reports

LEMMA Read ==
    ASSUME NEW l \in Load
    PROVE  /\ [l EXCEPT !.pc = "read"] \in Load /\ [l EXCEPT !.pc = "read"].pc = "read"
           /\ [l EXCEPT !.pc = "read"].seen = l.seen
BY DEF Load

(* What a handle shows of its file.                                        *)
LEMMA Located ==
    ASSUME TypeOK, NEW h \in Handle, handle[h].path # NoPath
    PROVE  FileAt(h) \in File /\ Content(h) \in Version
BY FileSwitchingAssumption DEF TypeOK, FileAt, Content, Version, HandleState, FileState

----------------------------------------------------------------------------
(* Steps after which the same handles are open, older and closed for good. *)

Steady ==
    /\ UNCHANGED <<app, op, used>>
    /\ \A h \in Handle :
         /\ handle'[h].path = handle[h].path /\ handle'[h].final = handle[h].final
         /\ handle[h].final => ~handle'[h].up
         /\ Busy(h)' => Busy(h) \/ ~handle[h].final
    /\ \A w \in Worker : work'[w].h \in {work[w].h, NoHandle, db}
    /\ \A h \in Handle : history'[h] \subseteq history[h] \/ \E w \in Worker : work[w].h = h

LEMMA SteadyBase ==
    ASSUME BaseInv, TypeOK', Steady, WorkFits', ShownIsOpen'
    PROVE  BaseInv'
<1>1. UNCHANGED <<db, prevDB, retired, settling, op, used>>
  BY DEF Steady, app
<1>2. Made'
  BY <1>1 DEF Steady, BaseInv, Made
<1>3. Retirement'
  BY <1>1 DEF Steady, BaseInv, Retirement
<1>4. OpsFit'
  BY <1>1 DEF Steady, BaseInv, OpsFit
<1>5. Apart'
  <2>1. InUse' = InUse /\ Older' = Older
    BY <1>1 DEF InUse, Older
  <2>2. InUse \subseteq Handle
    BY DEF InUse, BaseInv, TypeOK, OpsFit
  <2> QED
    BY <1>1, <2>1, <2>2 DEF Steady, BaseInv, Apart
<1>6. Fresh'
  <2>1. NoHandle <= used /\ db <= used
    BY Numbers DEF BaseInv, TypeOK, Apart, InUse, NoHandle, Handle
  <2> QED
    <3>1. \A w \in Worker : work'[w].h <= used
      BY <2>1 DEF Steady, BaseInv, Fresh
    <3>2. ASSUME NEW o \in Opener, op[o].pc = "saved"
          PROVE  /\ history'[op[o].new] = {}
                 /\ \A w \in Worker : work'[w].h # op[o].new
      <4>1. op[o].new \in Handle /\ op[o].new # db /\ op[o].new # NoHandle
        BY <3>2, Numbers DEF BaseInv, OpsFit, Apart
      <4> QED
        BY <3>2, <4>1 DEF Steady, BaseInv, Fresh
    <3> QED
      BY <1>1, <3>1, <3>2 DEF Fresh
<1> QED
  BY <1>2, <1>3, <1>4, <1>5, <1>6 DEF BaseInv

LEMMA SteadyAlone ==
    ASSUME AloneInv, BaseInv', Steady, NamesFit'
    PROVE  AloneInv'
<1>1. UNCHANGED <<db, prevDB, retired, settling, op, used>> /\ InUse' = InUse
  BY DEF Steady, app, InUse
<1>2. \A h \in Handle : (Touches(h)' => Touches(h)) /\ FileAt(h)' = FileAt(h)
  BY DEF Steady, Touches, FileAt
<1>3. Known'
  BY <1>1, <1>2 DEF AloneInv, Known
<1>4. OpsApart'
  BY <1>1 DEF AloneInv, OpsApart
<1>5. Covered'
  BY <1>1, <1>2 DEF AloneInv, Covered
<1>6. OneHandle'
  BY <1>2 DEF AloneInv, OneHandle
<1> QED
  BY <1>3, <1>4, <1>5, <1>6 DEF AloneInv

(* Loads.                                                                  *)
LEMMA LoadSteps ==
    ASSUME BaseInv, NEW l \in loads, Loading(l)
    PROVE  TypeOK' /\ Steady /\ WorkFits' /\ ShownIsOpen' /\ UNCHANGED <<file, work, history>>
<1> USE DEF BaseInv
<1>1. TypeOK /\ l \in Load /\ WorkFits
  BY DEF TypeOK
<1>2. CASE LoadReads(l)
  <2>1. /\ l.pc = "asked" /\ handle[l.h].up /\ l.h \in Handle
        /\ loads' = (loads \ {l}) \cup {[h |-> l.h, pc |-> "reading", seen |-> Content(l.h)]}
        /\ UNCHANGED <<file, handle, app, op, work, history, views, bounds>>
    BY <1>1, <1>2 DEF LoadReads, Load
  <2>2. ~handle[l.h].final /\ Content(l.h) \in Version
    BY <2>1, Located DEF Made
  <2> DEFINE k == [h |-> l.h, pc |-> "reading", seen |-> Content(l.h)]
  <2>3. k \in Load /\ k.h = l.h /\ k.seen \in Version
    BY <2>1, <2>2 DEF Load
  <2> HIDE DEF k
  <2>4. loads' \subseteq loads \cup {k}
    BY <2>1 DEF k
  <2>5. \A h \in Handle : Busy(h)' => Busy(h) \/ ~handle[h].final
    BY <2>1, <2>2, <2>3, <2>4 DEF Busy, Filing, Writing, Reading
  <2> QED
    BY <1>1, <2>1, <2>3, <2>4, <2>5 DEF TypeOK, Steady, WorkFits, ShownIsOpen, Made, app, views,
       bounds, NoHandle
<1>3. CASE LoadFails(l)
  BY <1>1, <1>3 DEF LoadFails, TypeOK, Steady, WorkFits, ShownIsOpen, Made, app, views, bounds,
     Busy, Filing, Writing, Reading
<1>4. CASE LoadEnds(l)
  <2> DEFINE k == [l EXCEPT !.pc = "read"]
  <2>1. k \in Load /\ k.pc = "read" /\ k.seen = l.seen
    BY <1>1, Read
  <2> HIDE DEF k
  <2>2. /\ l.pc = "reading" /\ loads' \subseteq loads \cup {k}
        /\ UNCHANGED <<file, handle, app, op, work, history, views, bounds>>
    BY <1>4 DEF LoadEnds, k
  <2>3. \A h \in Handle : Busy(h)' => Busy(h)
    BY <2>1, <2>2 DEF Busy, Filing, Writing, Reading
  <2> QED
    BY <1>1, <2>1, <2>2, <2>3 DEF TypeOK, Steady, WorkFits, ShownIsOpen, Made, app, views,
       bounds
<1>5. CASE LoadArrives(l)
  <2>1. l.pc = "read" /\ l.seen \in Version /\ l.h \in Handle
    BY <1>1, <1>5 DEF LoadArrives, WorkFits, Load
  <2>2. /\ loads' \subseteq loads /\ UNCHANGED <<file, handle, app, op, work, history, dialog, bounds>>
        /\ shown' = shown \/ (shown' = [h |-> l.h, seen |-> l.seen] /\ l.h = db)
    BY <1>5 DEF LoadArrives
  <2>3. \A h \in Handle : Busy(h)' => Busy(h)
    BY <2>2 DEF Busy, Filing, Writing, Reading
  <2> QED
    BY <1>1, <2>1, <2>2, <2>3 DEF TypeOK, Steady, WorkFits, ShownIsOpen, Made, app, bounds
<1> QED
  BY <1>2, <1>3, <1>4, <1>5 DEF Loading

(* Work that goes on keeps its handle.                                     *)
LEMMA WorkGoesOn ==
    ASSUME BaseInv, NEW w \in Worker, work' \in [Worker -> Command],
           UNCHANGED <<handle, app, op, used, loads>>,
           history' = history,
           \A x \in Worker : x # w => work'[x] = work[x],
           work'[w].h \in {work[w].h, NoHandle, db},
           work'[w].pc # "idle" => work'[w].h \in Handle,
           work'[w].pc \in {"filing", "writing"} =>
              ~handle[work'[w].h].final \/ work'[w] = work[w]
    PROVE  Steady /\ WorkFits'
<1>1. \A h \in Handle : Busy(h)' => Busy(h) \/ ~handle[h].final
  BY DEF Busy, Filing, Writing, Reading
<1> QED
  BY <1>1 DEF Steady, BaseInv, WorkFits, Made, app

LEMMA WorkSteps ==
    ASSUME BaseInv, NEW w \in Worker, Working(w)
    PROVE  /\ TypeOK' /\ Steady /\ WorkFits' /\ ShownIsOpen'
           /\ \A f \in File : file'[f].there = file[f].there
<1>1. /\ TypeOK /\ WorkFits /\ ShownIsOpen /\ Made
      /\ work \in [Worker -> Command] /\ db \in Handle
      /\ file \in [File -> FileState] /\ handle \in [Handle -> HandleState]
  BY DEF TypeOK, BaseInv
<1>2. work[w].pc # "idle" /\ work[w].h \in Handle
  BY <1>1 DEF WorkFits, Working, LocksManager, Begins, Commits, WriteFails, FileOpBegins,
     FileOpEnds, FileOpFails, Arrives
<1>3. \A h \in Handle : handle[h].path # NoPath => FileAt(h) \in File /\ Content(h) \in Version
  BY <1>1, Located
<1>4. CASE LocksManager(w)
  <2>1. UNCHANGED <<file, handle, app, op, loads, history, views, bounds>>
    BY <1>4 DEF LocksManager
  <2>2. Ends(w) \/ Goes(w, "locked")
    BY <1>4 DEF LocksManager
  <2>3. /\ work' \in [Worker -> Command] /\ \A x \in Worker : x # w => work'[x] = work[x]
        /\ work'[w].pc # "idle" => work'[w].h = work[w].h
        /\ work'[w].h \in {work[w].h, NoHandle} /\ work'[w].pc \in {"idle", "locked"}
    BY <1>1, <2>2, Ended, Went
  <2>4. Steady /\ WorkFits'
    BY <1>2, <2>1, <2>3, WorkGoesOn DEF bounds
  <2> QED
    BY <1>1, <2>1, <2>3, <2>4 DEF TypeOK, ShownIsOpen, views, bounds, app
<1>5. CASE Begins(w)
  <2>1. UNCHANGED <<file, handle, app, op, loads, history, views, bounds>>
    BY <1>5 DEF Begins
  <2>2. Ends(w) \/ (Goes(w, "writing") /\ handle[work[w].h].up)
    BY <1>5 DEF Begins
  <2>3. /\ work' \in [Worker -> Command] /\ \A x \in Worker : x # w => work'[x] = work[x]
        /\ work'[w].pc # "idle" => work'[w].h = work[w].h /\ handle[work[w].h].up
        /\ work'[w].h \in {work[w].h, NoHandle} /\ work'[w].pc \in {"idle", "writing"}
    BY <1>1, <2>2, Ended, Went
  <2>4. Steady /\ WorkFits'
    BY <1>1, <1>2, <2>1, <2>3, WorkGoesOn DEF bounds, Made
  <2> QED
    BY <1>1, <2>1, <2>3, <2>4 DEF TypeOK, ShownIsOpen, views, bounds, app
<1>6. CASE WriteFails(w)
  <2>1. Ends(w) /\ UNCHANGED <<file, handle, app, op, loads, history, views, bounds>>
    BY <1>6 DEF WriteFails
  <2>2. /\ work' \in [Worker -> Command] /\ \A x \in Worker : x # w => work'[x] = work[x]
        /\ work'[w].h = NoHandle /\ work'[w].pc = "idle"
    BY <1>1, <2>1, Ended
  <2>3. Steady /\ WorkFits'
    BY <1>1, <1>2, <2>1, <2>2, WorkGoesOn DEF bounds
  <2> QED
    BY <1>1, <2>1, <2>2, <2>3 DEF TypeOK, ShownIsOpen, views, bounds, app
<1>7. CASE Commits(w)
  <2> DEFINE h == work[w].h
  <2>1. /\ Goes(w, "report") /\ work[w].pc = "writing"
        /\ UNCHANGED <<handle, app, op, loads, views, bounds>>
        /\ history' = history \/ history' = [history EXCEPT ![h] = @ \cup {Content(h)}]
        /\ \/ file' = file
           \/ /\ file[FileAt(h)].content < MaxContent
              /\ file' = [file EXCEPT ![FileAt(h)].content = @ + 1]
    BY <1>7 DEF Commits
  <2>2. /\ work' \in [Worker -> Command] /\ \A x \in Worker : x # w => work'[x] = work[x]
        /\ work'[w].h = h /\ work'[w].pc = "report"
    BY <1>1, <2>1, Went
  <2>3. FileAt(h) \in File /\ Content(h) \in Version
    BY <1>1, <1>2, <1>3, <2>1 DEF Made, Busy, Writing
  <2>4. file' \in [File -> FileState] /\ \A f \in File : file'[f].there = file[f].there
    BY <1>1, <2>1, <2>3, NewContent
  <2>5. history' \in [Handle -> SUBSET Version]
    BY <1>1, <1>2, <2>1, <2>3 DEF TypeOK
  <2>6. \A g \in Handle : history'[g] \subseteq history[g] \/ g = h
    BY <1>1, <2>1 DEF TypeOK
  <2>7. \A g \in Handle : Busy(g)' => Busy(g)
    BY <2>1, <2>2 DEF Busy, Filing, Writing, Reading
  <2>8. Steady /\ WorkFits'
    <3> HIDE DEF h
    <3> QED
      BY <1>1, <1>2, <2>1, <2>2, <2>6, <2>7 DEF Steady, Made, WorkFits, app, bounds, h
  <2> QED
    BY <1>1, <2>1, <2>2, <2>4, <2>5, <2>8 DEF TypeOK, ShownIsOpen, views, bounds, app
<1>8. CASE FileOpBegins(w)
  <2> DEFINE h == work[w].h
  <2>1. /\ \/ Ends(w) /\ UNCHANGED handle
           \/ /\ ~handle[h].final /\ Goes(w, "filing")
              /\ handle' = [handle EXCEPT ![h].up = FALSE]
        /\ UNCHANGED <<file, app, op, loads, history, views, bounds>>
    BY <1>8 DEF FileOpBegins
  <2>2. /\ work' \in [Worker -> Command] /\ \A x \in Worker : x # w => work'[x] = work[x]
        /\ work'[w].pc # "idle" => work'[w].h = h /\ ~handle[h].final
        /\ work'[w].h \in {h, NoHandle}
    BY <1>1, <2>1, Ended, Went
  <2>3. /\ handle' \in [Handle -> HandleState]
        /\ \A g \in Handle : /\ handle'[g].path = handle[g].path
                             /\ handle'[g].final = handle[g].final
                             /\ handle'[g].up => handle[g].up
    BY <1>1, <1>2, <2>1, Upped
  <2>4. \A g \in Handle : Busy(g)' => Busy(g) \/ ~handle[g].final
    BY <1>2, <2>1, <2>2 DEF Busy, Filing, Writing, Reading
  <2>5. Steady /\ WorkFits'
    <3> HIDE DEF h
    <3> QED
      BY <1>1, <1>2, <2>1, <2>2, <2>3, <2>4 DEF Steady, Made, WorkFits, app, bounds, h
  <2> QED
    BY <1>1, <2>1, <2>2, <2>3, <2>5 DEF TypeOK, ShownIsOpen, views, bounds, app
<1>9. CASE FileOpEnds(w) \/ FileOpFails(w)
  <2> DEFINE h == work[w].h
  <2>1. /\ work[w].pc = "filing" /\ handle' = Reopened(h)
        /\ Ends(w) \/ Goes(w, "moving") \/ Goes(w, "report")
        /\ UNCHANGED <<app, op, loads, history, views, bounds>>
        /\ \/ file' = file
           \/ /\ file[FileAt(h)].content < MaxContent
              /\ file' = [file EXCEPT ![FileAt(h)].content = @ + 1]
    BY <1>9 DEF FileOpEnds, FileOpFails
  <2>2. /\ work' \in [Worker -> Command] /\ \A x \in Worker : x # w => work'[x] = work[x]
        /\ work'[w].pc # "idle" => work'[w].h = h
        /\ work'[w].h \in {h, NoHandle} /\ work'[w].pc \in {"idle", "moving", "report"}
    BY <1>1, <2>1, Ended, Went
  <2>3. FileAt(h) \in File
    BY <1>1, <1>2, <1>3, <2>1 DEF Made, Busy, Filing
  <2>4. file' \in [File -> FileState] /\ \A f \in File : file'[f].there = file[f].there
    BY <1>1, <2>1, <2>3, NewContent
  <2>5. PICK up \in BOOLEAN : /\ handle' = [handle EXCEPT ![h].up = up]
                              /\ handle[h].final => ~up
    <3>1. There(handle[h].path) \in BOOLEAN /\ handle[h].final \in BOOLEAN
      BY <1>1, <1>2, <2>3 DEF There, FileAt, FileState, HandleState
    <3> QED
      BY <2>1, <3>1 DEF Reopened
  <2>6. /\ handle' \in [Handle -> HandleState]
        /\ \A g \in Handle : /\ handle'[g].path = handle[g].path
                             /\ handle'[g].final = handle[g].final
                             /\ handle[g].final => ~handle'[g].up
    BY <1>1, <1>2, <2>5, Upped DEF Made
  <2>7. \A g \in Handle : Busy(g)' => Busy(g)
    BY <2>1, <2>2 DEF Busy, Filing, Writing, Reading
  <2>8. Steady /\ WorkFits'
    <3> HIDE DEF h
    <3> QED
      BY <1>1, <1>2, <2>1, <2>2, <2>6, <2>7 DEF Steady, WorkFits, app, bounds, h
  <2> QED
    BY <1>1, <2>1, <2>2, <2>4, <2>6, <2>8 DEF TypeOK, ShownIsOpen, views, bounds, app
<1>10. CASE Arrives(w)
  <2>1. /\ Ends(w) /\ UNCHANGED <<file, handle, app, op, dialog, bounds>>
        /\ history' = history \/ history' = [history EXCEPT ![work[w].h] = {}]
        /\ loads' = loads \/ loads' = loads \cup {LoadOf(work[w].h)}
        /\ shown' = shown \/ shown' = Nothing
    BY <1>10 DEF Arrives
  <2>2. /\ work' \in [Worker -> Command] /\ \A x \in Worker : x # w => work'[x] = work[x]
        /\ work'[w].h = NoHandle /\ work'[w].pc = "idle"
    BY <1>1, <2>1, Ended
  <2>3. /\ history' \in [Handle -> SUBSET Version]
        /\ \A g \in Handle : history'[g] \subseteq history[g]
    BY <1>1, <1>2, <2>1 DEF TypeOK
  <2>4. LoadOf(work[w].h) \in Load /\ LoadOf(work[w].h).pc = "asked"
    BY <1>2 DEF LoadOf, Load
  <2>5. \A g \in Handle : Busy(g)' => Busy(g)
    BY <2>1, <2>2, <2>4 DEF Busy, Filing, Writing, Reading
  <2>6. Steady /\ WorkFits'
    BY <1>1, <2>1, <2>2, <2>3, <2>4, <2>5 DEF Steady, Made, WorkFits, app, bounds
  <2> QED
    BY <1>1, <2>1, <2>2, <2>3, <2>4, <2>6 DEF TypeOK, ShownIsOpen, Nothing, bounds, app
<1> QED
  BY <1>4, <1>5, <1>6, <1>7, <1>8, <1>9, <1>10 DEF Working

(* What the user asks, and what happens behind the program's back.         *)
LEMMA AskSteps ==
    ASSUME BaseInv, Refresh \/ OpenRestoreList \/
           \E w \in Worker : PickRestore(w) \/ \E kind \in Kinds : Ask(w, kind)
    PROVE  TypeOK' /\ Steady /\ WorkFits' /\ ShownIsOpen' /\ UNCHANGED <<file, history>>
<1>1. /\ TypeOK /\ WorkFits /\ ShownIsOpen /\ Made
      /\ work \in [Worker -> Command] /\ db \in Handle
  BY DEF TypeOK, BaseInv
<1>2. CASE Refresh
  <2>1. /\ loads' = loads \cup {LoadOf(db)} /\ LoadOf(db) \in Load /\ LoadOf(db).pc = "asked"
        /\ UNCHANGED <<file, handle, app, op, work, history, views, bounds>>
    BY <1>1, <1>2 DEF Refresh, LoadOf, Load
  <2>2. \A g \in Handle : Busy(g)' => Busy(g)
    BY <2>1 DEF Busy, Filing, Writing, Reading
  <2> QED
    BY <1>1, <2>1, <2>2 DEF TypeOK, Steady, WorkFits, ShownIsOpen, Made, views, bounds, app
<1>3. CASE OpenRestoreList
  <2>1. /\ dialog' = db
        /\ UNCHANGED <<file, handle, app, op, work, loads, history, shown, bounds>>
    BY <1>3 DEF OpenRestoreList
  <2>2. \A g \in Handle : Busy(g)' => Busy(g)
    BY <2>1 DEF Busy, Filing, Writing, Reading
  <2> QED
    BY <1>1, <2>1, <2>2 DEF TypeOK, Steady, WorkFits, ShownIsOpen, Made, bounds, app
<1>4. ASSUME NEW w \in Worker, PickRestore(w) \/ \E kind \in Kinds : Ask(w, kind)
      PROVE  TypeOK' /\ Steady /\ WorkFits' /\ ShownIsOpen' /\ UNCHANGED <<file, history>>
  <2>1. /\ UNCHANGED <<file, handle, app, op, loads, history, shown, bounds>>
        /\ dialog' \in {dialog, NoHandle}
    BY <1>4 DEF PickRestore, Ask, views
  <2>2. \E kind \in Kinds : Asked(w, kind, db)
    BY <1>1, <1>4 DEF PickRestore, Ask, Kinds, ShownIsOpen
  <2>3. /\ work' \in [Worker -> Command] /\ \A x \in Worker : x # w => work'[x] = work[x]
        /\ work'[w].h = db /\ work'[w].pc = "asked"
    BY <1>1, <2>2, WasAsked
  <2>4. Steady /\ WorkFits'
    BY <1>1, <2>1, <2>3, WorkGoesOn DEF bounds
  <2> QED
    BY <1>1, <2>1, <2>3, <2>4 DEF TypeOK, ShownIsOpen, bounds, app
<1> QED
  BY <1>2, <1>3, <1>4

LEMMA WorldSteps ==
    ASSUME BaseInv, World
    PROVE  /\ TypeOK' /\ Steady /\ WorkFits' /\ ShownIsOpen' /\ UNCHANGED <<history, work>>
           /\ \A f \in File : file'[f].content = file[f].content
           /\ FilesKept /\ NamesFit => NamesFit'
<1>1. /\ TypeOK /\ WorkFits /\ ShownIsOpen /\ Made
      /\ file \in [File -> FileState] /\ handle \in [Handle -> HandleState]
  BY DEF TypeOK, BaseInv
<1>2. ASSUME NEW f \in File, FileDeleted(f) \/ FileReturns(f)
      PROVE  /\ TypeOK' /\ Steady /\ WorkFits' /\ ShownIsOpen' /\ UNCHANGED <<history, work>>
             /\ \A g \in File : file'[g].content = file[g].content
             /\ FilesKept /\ NamesFit => NamesFit'
  <2>1. /\ \E b \in BOOLEAN : file' = [file EXCEPT ![f].there = b]
        /\ UNCHANGED <<handle, app, op, work, loads, history, views, used, scope>>
        /\ losses' = losses \/ (losses' = losses + 1 /\ losses < scope.losses)
    BY <1>2 DEF FileDeleted, FileReturns, bounds
  <2>2. losses' \in 0..scope.losses
    BY <1>1, <2>1, FileSwitchingAssumption DEF TypeOK
  <2>3. /\ file' \in [File -> FileState]
        /\ \A g \in File : /\ g # f => file'[g].there = file[g].there
                           /\ file'[g].content = file[g].content
    BY <1>1, <2>1, Moved
  <2>4. \A g \in Handle : Busy(g)' => Busy(g)
    BY <2>1 DEF Busy, Filing, Writing, Reading
  <2>5. ASSUME FilesKept, NamesFit
        PROVE  NamesFit'
    <3>1. file'[f].there \/ \A p \in Path : FileOf[p] = f => p = f
      <4>1. CASE FileDeleted(f)
        BY <1>1, <2>5, <4>1 DEF FileDeleted, FilesKept, TypeOK
      <4>2. CASE FileReturns(f)
        BY <1>1, <4>2, Moved DEF FileReturns
      <4> QED
        BY <1>2, <4>1, <4>2
    <3> QED
      BY <2>3, <2>5, <3>1, FileSwitchingAssumption DEF NamesFit, There
  <2> QED
    BY <1>1, <2>1, <2>2, <2>3, <2>4, <2>5
       DEF TypeOK, Steady, WorkFits, ShownIsOpen, Made, views, app
<1>3. ASSUME NEW h \in Handle, Heals(h)
      PROVE  /\ TypeOK' /\ Steady /\ WorkFits' /\ ShownIsOpen' /\ UNCHANGED <<history,
                                                                              work, file>>
  <2>1. /\ handle' = [handle EXCEPT ![h].up = TRUE] /\ ~handle[h].final
        /\ UNCHANGED <<file, app, op, work, loads, history, views, bounds>>
    BY <1>3 DEF Heals
  <2>2. /\ handle' \in [Handle -> HandleState]
        /\ \A g \in Handle : /\ handle'[g].path = handle[g].path
                             /\ handle'[g].final = handle[g].final
                             /\ g # h => handle'[g].up = handle[g].up
    BY <1>1, <2>1, Upped
  <2>3. \A g \in Handle : Busy(g)' => Busy(g)
    BY <2>1 DEF Busy, Filing, Writing, Reading
  <2> QED
    BY <1>1, <2>1, <2>2, <2>3
       DEF TypeOK, Steady, WorkFits, ShownIsOpen, Made, views, bounds, app
<1> QED
  BY <1>2, <1>3 DEF World, NamesFit, There

----------------------------------------------------------------------------
(* Steps of one file operation that leave the handles alone.               *)

Waits(o) ==
    /\ UNCHANGED <<file, handle, app, work, loads, history, views, bounds>>
    /\ op' \in [Opener -> Operation]
    /\ \A x \in Opener : x # o => op'[x] = op[x]
    /\ op'[o].pc # "saved" /\ op'[o].kept \subseteq Older
    /\ op'[o].pc # "idle" =>
         /\ op'[o].path \in Path /\ op'[o].cur \in Handle
         /\ op'[o].kind = "new" => op'[o].path \in File
         /\ op'[o].pc = "already" => op'[o].kind = "open"

(* It is on no other operation's file, and has the handles of its file in  *)
(* sight.                                                                  *)
Cares(o) ==
    /\ op'[o].pc # "idle" =>
         \A x \in Opener : x # o /\ op[x].pc # "idle"
            => FileOf[op'[o].path] # FileOf[op[x].path]
    /\ op'[o].pc = "asked" =>
         \A h \in Handle : Touches(h) /\ FileAt(h) = FileOf[op'[o].path]
            => h \in op'[o].kept \/ (op'[o].kind = "open" /\ h = op'[o].cur)

LEMMA WaitsBase ==
    ASSUME BaseInv, NEW o \in Opener, Waits(o)
    PROVE  BaseInv'
<1>1. /\ UNCHANGED <<file, handle, db, prevDB, retired, settling, work, loads, history, shown,
                     dialog, used, losses, scope>>
      /\ op' \in [Opener -> Operation] /\ op'[o].pc # "saved"
      /\ \A x \in Opener : x # o => op'[x] = op[x]
  BY DEF Waits, app, views, bounds
<1>2. TypeOK'
  BY <1>1 DEF BaseInv, TypeOK
<1>3. \A h \in Handle : Busy(h)' = Busy(h)
  BY <1>1 DEF Busy, Filing, Writing, Reading
<1>4. Made' /\ Retirement' /\ WorkFits' /\ ShownIsOpen'
  BY <1>1, <1>3 DEF BaseInv, Made, Retirement, WorkFits, ShownIsOpen
<1>5. OpsFit'
  BY <1>1 DEF BaseInv, OpsFit, Waits
<1>6. InUse' \subseteq InUse /\ Older' \subseteq Older
  BY <1>1 DEF InUse, Older, Waits
<1>7. Apart'
  BY <1>1, <1>6 DEF BaseInv, Apart
<1>8. Fresh'
  BY <1>1 DEF BaseInv, Fresh
<1> QED
  BY <1>2, <1>4, <1>5, <1>7, <1>8 DEF BaseInv

LEMMA WaitsAlone ==
    ASSUME AloneInv, NEW o \in Opener, Waits(o), op[o].pc # "saved", Cares(o)
    PROVE  AloneInv' /\ (HistoryFits => HistoryFits')
<1>1. /\ UNCHANGED <<file, handle, db, prevDB, retired, work, loads, history>>
      /\ op'[o].pc # "saved"
      /\ \A x \in Opener : x # o => op'[x] = op[x]
  BY DEF Waits, app
<1>2. BaseInv'
  BY WaitsBase DEF AloneInv
<1>3. \A h \in Handle : Touches(h)' = Touches(h) /\ FileAt(h)' = FileAt(h)
  BY <1>1 DEF Touches, FileAt, Busy, Filing, Writing, Reading
<1>4. NamesFit' /\ OneHandle'
  BY <1>1, <1>3 DEF AloneInv, NamesFit, There, OneHandle
<1>5. InUse' = InUse
  BY <1>1 DEF InUse
<1>6. Known'
  BY <1>1, <1>3, <1>5 DEF AloneInv, Known
<1>7. OpsApart'
  BY <1>1 DEF AloneInv, OpsApart, Cares
<1>8. Covered'
  BY <1>1, <1>3 DEF AloneInv, Covered, Cares
<1>9. HistoryFits => HistoryFits'
  BY <1>1 DEF HistoryFits, Changing, Content, FileAt
<1> QED
  BY <1>2, <1>4, <1>6, <1>7, <1>8, <1>9 DEF AloneInv

(* A name of a file finds the other names of the file, when it has any.    *)
LEMMA Same ==
    ASSUME NamesFit, NEW p \in Path, NEW q \in Path
    PROVE  SameTarget(p, q) <=> FileOf[p] = FileOf[q]
BY FileSwitchingAssumption DEF NamesFit, There, SameTarget, SameFile

LEMMA NewOp ==
    ASSUME BaseInv, NEW kind \in {"open", "new"}, NEW p \in Path
    PROVE  /\ Started(kind, p) \in Operation
           /\ Started(kind, p).pc = "asked" /\ Started(kind, p).kind = kind
           /\ Started(kind, p).path = p /\ Started(kind, p).cur = db
           /\ Started(kind, p).kept = Kept /\ Kept \subseteq Older
<1>1. Kept \subseteq Handle
  BY DEF BaseInv, TypeOK, Kept
<1> QED
  BY <1>1 DEF BaseInv, TypeOK, Started, Operation, Older, Kept

LEMMA NoOps == NoOp \in Operation /\ NoOp.pc = "idle" /\ NoOp.kept = {}
BY DEF NoOp, Operation

(* Every handle that touches a file but the new ones is in sight.          *)
LEMMA InSight ==
    ASSUME AloneInv, NEW p \in Path, NEW o \in Opener,
           \A x \in Opener : x # o /\ op[x].pc # "idle" => FileOf[p] # FileOf[op[x].path],
           op[o].pc # "saved"
    PROVE  \A h \in Handle : Touches(h) /\ FileAt(h) = FileOf[p] => h \in Kept \/ h = db
<1> SUFFICES ASSUME NEW h \in Handle, Touches(h), FileAt(h) = FileOf[p]
             PROVE  h \in Kept \/ h = db
  OBVIOUS
<1>1. h \in InUse \/ h = prevDB \/ h \in retired
  BY DEF AloneInv, Known
<1>2. ASSUME NEW x \in Opener, op[x].pc = "saved", h = op[x].new
      PROVE  FALSE
  BY <1>2 DEF AloneInv, BaseInv, OpsFit, FileAt
<1> QED
  BY <1>1, <1>2, Numbers DEF InUse, Kept

LEMMA WaitingSteps ==
    ASSUME BaseInv, NEW o \in Opener,
           \/ FindsItOpen(o) \/ NewFindsFile(o) \/ OpenFails(o) \/ AlreadyOpen(o)
           \/ OperationFailed(o)
           \/ \E kind \in {"open", "new"}, p \in Path : Submit(o, kind, p)
    PROVE  /\ Waits(o) /\ op[o].pc # "saved"
           /\ FilesKept /\ AloneInv => Cares(o)
<1> USE DEF BaseInv
<1>1. op \in [Opener -> Operation] /\ OpsFit
  BY DEF TypeOK
<1>2. CASE FindsItOpen(o) \/ NewFindsFile(o) \/ OpenFails(o)
  <2>1. /\ UNCHANGED <<file, handle, app, work, loads, history, views, bounds>>
        /\ op[o].pc = "asked"
        /\ Reports(o, "failed") \/ (Reports(o, "already") /\ op[o].kind = "open")
    BY <1>2 DEF FindsItOpen, NewFindsFile, OpenFails, GoesOn
  <2>2. /\ op' \in [Opener -> Operation] /\ op'[o].kept = {} /\ op'[o].kind = op[o].kind
        /\ op'[o].path = op[o].path /\ op'[o].cur = op[o].cur
        /\ op'[o].pc = "failed" \/ (op'[o].pc = "already" /\ op[o].kind = "open")
        /\ \A x \in Opener : x # o => op'[x] = op[x]
    BY <1>1, <2>1, Reported
  <2> QED
    BY <1>1, <2>1, <2>2 DEF Waits, OpsFit, AloneInv, OpsApart, Cares
<1>3. CASE OperationFailed(o) \/ (AlreadyOpen(o) /\ op[o].cur = db)
  <2>1. /\ UNCHANGED <<file, handle, app, work, loads, history, views, bounds>>
        /\ op[o].pc \in {"failed", "already"} /\ op' = [op EXCEPT ![o] = NoOp]
    BY <1>3 DEF OperationFailed, AlreadyOpen
  <2>2. /\ op' \in [Opener -> Operation] /\ op'[o] = NoOp
        /\ \A x \in Opener : x # o => op'[x] = op[x]
    BY <1>1, <2>1, NoOps, OneOp
  <2> QED
    BY <2>1, <2>2, NoOps DEF Waits, Cares
<1>4. CASE AlreadyOpen(o) /\ op[o].cur # db
  <2>1. /\ UNCHANGED <<file, handle, app, work, loads, history, views, bounds>>
        /\ op[o].pc = "already" /\ op' = [op EXCEPT ![o] = Started("open", op[o].path)]
        /\ op[o].path \in Path
    BY <1>1, <1>4 DEF AlreadyOpen, OpsFit
  <2>2. /\ op' \in [Opener -> Operation] /\ op'[o] = Started("open", op[o].path)
        /\ \A x \in Opener : x # o => op'[x] = op[x]
    BY <1>1, <2>1, NewOp, OneOp
  <2>3. Waits(o)
    BY <2>1, <2>2, NewOp DEF Waits, TypeOK
  <2>4. ASSUME AloneInv
        PROVE  Cares(o)
    <3>1. \A x \in Opener : x # o /\ op[x].pc # "idle" => FileOf[op[o].path] # FileOf[op[x].path]
      BY <2>1, <2>4 DEF AloneInv, OpsApart
    <3> QED
      BY <2>1, <2>2, <2>4, <3>1, NewOp, InSight DEF Cares
  <2> QED
    BY <2>1, <2>3, <2>4
<1>5. ASSUME NEW kind \in {"open", "new"}, NEW p \in Path, Submit(o, kind, p)
      PROVE  /\ Waits(o) /\ op[o].pc # "saved"
             /\ FilesKept /\ AloneInv => Cares(o)
  <2>1. /\ UNCHANGED <<file, handle, app, work, loads, history, views, bounds>>
        /\ op[o].pc = "idle" /\ op' = [op EXCEPT ![o] = Started(kind, p)]
        /\ ~InFlight(p)
        /\ kind = "new" => p \in File /\ (scope.overOpen \/ FileAt(db) # p)
    BY <1>5 DEF Submit
  <2>2. /\ op' \in [Opener -> Operation] /\ op'[o] = Started(kind, p)
        /\ \A x \in Opener : x # o => op'[x] = op[x]
    BY <1>1, <2>1, NewOp, OneOp
  <2>3. Waits(o)
    BY <2>1, <2>2, NewOp DEF Waits, TypeOK
  <2>4. ASSUME FilesKept, AloneInv
        PROVE  Cares(o)
    <3>1. \A x \in Opener : x # o /\ op[x].pc # "idle" => FileOf[p] # FileOf[op[x].path]
      BY <1>1, <2>1, <2>4, Same DEF InFlight, OpsFit, AloneInv
    <3>2. \A h \in Handle : Touches(h) /\ FileAt(h) = FileOf[p] => h \in Kept \/ h = db
      BY <2>1, <2>4, <3>1, InSight
    <3>3. kind = "new" => FileAt(db) # FileOf[p]
      BY <2>1, <2>4, FileSwitchingAssumption DEF FilesKept, TypeOK
    <3> QED
      BY <2>1, <2>2, <3>1, <3>2, <3>3, NewOp DEF Cares
  <2> QED
    BY <2>1, <2>3, <2>4
<1> QED
  BY <1>2, <1>3, <1>4, <1>5

----------------------------------------------------------------------------
(* Steps that close, make, switch or drop a handle.                        *)

LEMMA Answers ==
    ASSUME BaseInv, NEW h \in Handle, RetiredAnswers(h)
    PROVE  /\ BaseInv'
           /\ AloneInv => AloneInv' /\ (HistoryFits => HistoryFits')
<1>1. /\ settling[h] = "asked"
      /\ settling' = [settling EXCEPT ![h] = IF Busy(h) THEN "no" ELSE "yes"]
      /\ UNCHANGED <<file, handle, db, prevDB, retired, op, work, loads, history, shown, dialog,
                     used, losses, scope>>
  BY DEF RetiredAnswers, views, bounds
<1>2. TypeOK'
  BY <1>1 DEF BaseInv, TypeOK
<1>3. \A g \in Handle : /\ Busy(g)' = Busy(g) /\ Touches(g)' = Touches(g)
                        /\ FileAt(g)' = FileAt(g)
  BY <1>1 DEF Touches, FileAt, Busy, Filing, Writing, Reading
<1>4. Retirement'
  BY <1>1, <1>3 DEF BaseInv, TypeOK, Retirement
<1>5. InUse' = InUse /\ Older' = Older
  BY <1>1 DEF InUse, Older
<1>6. Made' /\ OpsFit' /\ Apart' /\ Fresh' /\ WorkFits' /\ ShownIsOpen'
  BY <1>1, <1>3, <1>5 DEF BaseInv, Made, OpsFit, Apart, Fresh, WorkFits, ShownIsOpen
<1>7. BaseInv'
  BY <1>2, <1>4, <1>6 DEF BaseInv
<1>8. ASSUME AloneInv
      PROVE  AloneInv'
  BY <1>1, <1>3, <1>5, <1>7, <1>8
     DEF AloneInv, NamesFit, There, Known, OpsApart, Covered, OneHandle
<1>9. HistoryFits => HistoryFits'
  BY <1>1, <1>3 DEF BaseInv, TypeOK, HistoryFits, Changing, Content
<1> QED
  BY <1>7, <1>8, <1>9

(* The older handle a new path leads to is closed for good.                *)
LEMMA SettlesOne ==
    ASSUME BaseInv, NEW o \in Opener, NEW h \in Handle, SettlesKept(o, h)
    PROVE  /\ BaseInv'
           /\ AloneInv => AloneInv' /\ (HistoryFits => HistoryFits')
<1>1. /\ op[o].pc = "asked" /\ h \in op[o].kept /\ handle' = ForGood(h)
      /\ \/ Busy(h) /\ Reports(o, "failed")
         \/ ~Busy(h) /\ op' = [op EXCEPT ![o].kept = @ \ {h}]
      /\ UNCHANGED <<file, db, prevDB, retired, settling, work, loads, history, shown, dialog,
                     used, losses, scope>>
  BY DEF SettlesKept, GoesOn, ToSettle, app, views, bounds
<1>2. op \in [Opener -> Operation] /\ handle \in [Handle -> HandleState]
  BY DEF BaseInv, TypeOK
<1>3. /\ op' \in [Opener -> Operation]
      /\ op'[o].kind = op[o].kind /\ op'[o].path = op[o].path /\ op'[o].cur = op[o].cur
      /\ op'[o].kept \subseteq op[o].kept
      /\ \/ op'[o].pc = "failed"
         \/ op'[o].pc = "asked" /\ ~Busy(h) /\ op'[o].kept = op[o].kept \ {h}
      /\ \A x \in Opener : x # o => op'[x] = op[x]
  <2>1. CASE Reports(o, "failed")
    BY <1>2, <2>1, Reported
  <2>2. CASE ~Busy(h) /\ op' = [op EXCEPT ![o].kept = @ \ {h}]
    BY <1>1, <1>2, <2>2 DEF Operation
  <2> QED
    BY <1>1, <2>1, <2>2
<1>4. /\ handle' \in [Handle -> HandleState]
      /\ ~handle'[h].up /\ handle'[h].final /\ handle'[h].path = handle[h].path
      /\ \A g \in Handle : g # h => handle'[g] = handle[g]
  BY <1>1, <1>2, Closed
<1>5. TypeOK'
  BY <1>1, <1>3, <1>4 DEF BaseInv, TypeOK
<1>6. \A g \in Handle : /\ Busy(g)' = Busy(g) /\ handle'[g].path = handle[g].path
                        /\ FileAt(g)' = FileAt(g) /\ (Touches(g)' => Touches(g))
  BY <1>1, <1>4 DEF Touches, FileAt, Busy, Filing, Writing, Reading
<1>7. InUse' = InUse /\ Older' \subseteq Older /\ h \in Older
  BY <1>1, <1>3 DEF InUse, Older
<1>8. Made' /\ Retirement' /\ OpsFit' /\ Fresh' /\ WorkFits' /\ ShownIsOpen'
  <2>1. Made'
    BY <1>1, <1>4, <1>6 DEF BaseInv, Made
  <2>2. Retirement'
    BY <1>1, <1>4, <1>6 DEF BaseInv, TypeOK, Retirement
  <2>3. OpsFit'
    BY <1>1, <1>3, <1>6 DEF BaseInv, OpsFit
  <2>4. Fresh' /\ WorkFits' /\ ShownIsOpen'
    BY <1>1, <1>3 DEF BaseInv, Fresh, WorkFits, ShownIsOpen
  <2> QED
    BY <2>1, <2>2, <2>3, <2>4
<1>9. Apart'
  <2>1. \A g \in InUse : g # h /\ g \in Handle
    BY <1>7 DEF BaseInv, TypeOK, Apart, InUse, OpsFit
  <2> QED
    BY <1>1, <1>3, <1>4, <1>7, <2>1 DEF BaseInv, Apart
<1>10. BaseInv'
  BY <1>5, <1>8, <1>9 DEF BaseInv
<1>11. ASSUME AloneInv
       PROVE  AloneInv' /\ (HistoryFits => HistoryFits')
  <2>1. ~Busy(h) => ~Touches(h)'
    BY <1>4, <1>6 DEF Touches
  <2>2. Covered'
    BY <1>1, <1>3, <1>6, <1>11, <2>1 DEF AloneInv, Covered
  <2>3. NamesFit' /\ Known' /\ OpsApart' /\ OneHandle'
    BY <1>1, <1>3, <1>6, <1>7, <1>11 DEF AloneInv, NamesFit, There, Known, OpsApart, OneHandle
  <2>4. HistoryFits => HistoryFits'
    BY <1>1, <1>6 DEF HistoryFits, Changing, Content, BaseInv, TypeOK
  <2> QED
    BY <1>10, <2>2, <2>3, <2>4 DEF AloneInv
<1> QED
  BY <1>10, <1>11

(* An open makes a handle.                                                 *)
LEMMA OpensOne ==
    ASSUME BaseInv, NEW o \in Opener, Opens(o)
    PROVE  /\ BaseInv'
           /\ AloneInv => AloneInv' /\ (HistoryFits => HistoryFits')
<1>3. PICK h \in Handle : h = used + 1 /\ used \in Nat /\ \A g \in Handle : g <= used => g # h
  BY FileSwitchingAssumption DEF Opens, BaseInv, TypeOK, Handle
<1> DEFINE p == op[o].path
<1>1. /\ GoesOn(o) /\ op[o].pc = "asked" /\ ToSettle(o) = {}
      /\ op[o].kind = "open" => There(p)
      /\ op' = [op EXCEPT ![o] = Saved(o, h)]
      /\ handle' = [handle EXCEPT ![h] = [path |-> p, up |-> TRUE, final |-> FALSE]]
      /\ history' = [history EXCEPT ![h] = {}]
      /\ \/ file' = file
         \/ /\ op[o].kind = "new" /\ file[p].content < MaxContent
            /\ file' = [file EXCEPT ![p] = [there |-> TRUE, content |-> @.content + 1]]
      /\ used < scope.handles /\ used' = h
      /\ UNCHANGED <<db, prevDB, retired, settling, work, loads, shown, dialog, losses, scope>>
  <2>1. op[o].kind \in {"open", "new"}
    BY DEF BaseInv, TypeOK, Operation
  <2> QED
    BY <1>3, <2>1 DEF Opens, GoesOn, app, views
<1>2. /\ op \in [Opener -> Operation] /\ handle \in [Handle -> HandleState] /\ p \in Path
      /\ op[o].kind = "new" => p \in File
      /\ file \in [File -> FileState]
  BY <1>1 DEF BaseInv, TypeOK, OpsFit
<1>4. /\ op' \in [Opener -> Operation]
      /\ op'[o].kind = op[o].kind /\ op'[o].path = p /\ op'[o].cur = op[o].cur
      /\ op'[o].kept = {} /\ op'[o].pc = "saved" /\ op'[o].new = h
      /\ \A x \in Opener : x # o => op'[x] = op[x]
  <2>1. /\ Saved(o, h) \in Operation /\ Saved(o, h).kind = op[o].kind /\ Saved(o, h).path = p
        /\ Saved(o, h).cur = op[o].cur /\ Saved(o, h).kept = {} /\ Saved(o, h).pc = "saved"
        /\ Saved(o, h).new = h
    BY <1>2, <1>3 DEF Operation, Saved
  <2> QED
    BY <1>1, <1>2, <2>1, OneOp
<1>5. /\ handle' \in [Handle -> HandleState]
      /\ handle'[h].path = p /\ handle'[h].up /\ ~handle'[h].final
      /\ \A g \in Handle : g # h => handle'[g] = handle[g]
  BY <1>1, <1>2, <1>3 DEF HandleState
<1>6. /\ file' \in [File -> FileState]
      /\ \A f \in File : file[f].there => file'[f].there
      /\ \A f \in File : f # p => file'[f] = file[f]
      /\ file' = file \/ op[o].kind = "new"
  <2>1. CASE file' = file
    BY <1>2, <2>1
  <2>2. CASE file' # file
    <3>1. /\ p \in File /\ file[p].content + 1 \in 0..MaxContent
          /\ file' = [file EXCEPT ![p] = [there |-> TRUE, content |-> file[p].content + 1]]
      BY <1>1, <1>2, <2>2, FileSwitchingAssumption DEF FileState
    <3>2. [there |-> TRUE, content |-> file[p].content + 1] \in FileState
      BY <3>1 DEF FileState
    <3> QED
      BY <1>1, <1>2, <2>2, <3>1, <3>2
  <2> QED
    BY <2>1, <2>2
<1>7. /\ history' \in [Handle -> SUBSET Version] /\ history'[h] = {}
      /\ \A g \in Handle : g # h => history'[g] = history[g]
  BY <1>1, <1>3 DEF BaseInv, TypeOK
<1>8. TypeOK'
  BY <1>1, <1>3, <1>4, <1>5, <1>6, <1>7 DEF BaseInv, TypeOK
<1>9. /\ handle[h].path = NoPath /\ ~Busy(h) /\ \A g \in Handle : Busy(g)' = Busy(g)
      /\ h \notin InUse \cup Older
  <2>1. handle[h].path = NoPath /\ ~Busy(h)
    BY <1>3 DEF BaseInv, Made, Handle
  <2>2. \A g \in Handle : Busy(g)' = Busy(g)
    BY <1>1 DEF Busy, Filing, Writing, Reading
  <2> QED
    BY <1>3, <2>1, <2>2 DEF BaseInv, Apart
<1>10. InUse' = InUse \cup {h} /\ Older' \subseteq Older
  BY <1>1, <1>4 DEF InUse, Older
<1>11. Made' /\ Retirement'
  BY <1>1, <1>2, <1>3, <1>5, <1>9, FileSwitchingAssumption
     DEF BaseInv, TypeOK, Made, Retirement, HandleState, Handle, Older
<1>12. OpsFit' /\ WorkFits' /\ ShownIsOpen'
  <2>1. OpsFit'
    BY <1>1, <1>2, <1>3, <1>4, <1>5, <1>9 DEF BaseInv, OpsFit, InUse
  <2> QED
    BY <1>1, <2>1 DEF BaseInv, WorkFits, ShownIsOpen
<1>13. Apart'
  <2>1. InUse \subseteq Handle /\ Older \subseteq Handle
    BY DEF BaseInv, TypeOK, InUse, OpsFit, Older, Operation
  <2>2. p # NoPath /\ \A g \in InUse \cup Older : g <= h /\ g # h /\ g \in Handle
    <3>1. \A g \in InUse \cup Older : g <= used /\ g \in Nat
      BY <2>1, Numbers DEF BaseInv, Apart
    <3> QED
      BY <1>2, <1>3, <1>9, <2>1, <3>1, FileSwitchingAssumption
  <2>3. \A g \in InUse' : g <= h /\ g \notin Older'
                          /\ handle'[g].path # NoPath /\ ~handle'[g].final
    BY <1>3, <1>5, <1>9, <1>10, <2>2 DEF BaseInv, Apart, Handle
  <2>4. db \in InUse /\ \A x \in Opener : op[x].pc = "saved" => op[x].new \in InUse
    BY DEF InUse
  <2>5. \A x, y \in Opener : op'[x].pc = "saved" =>
          /\ op'[x].new # db'
          /\ op'[y].pc = "saved" /\ op'[y].new = op'[x].new => y = x
    BY <1>1, <1>4, <2>2, <2>4 DEF BaseInv, Apart
  <2> QED
    BY <1>1, <1>10, <2>2, <2>3, <2>5 DEF Apart
<1>14. Fresh'
  <2>1. \A w \in Worker : work[w].h # h /\ work[w].h <= h
    BY <1>3 DEF BaseInv, TypeOK, Fresh, Command, NoHandle, Handle
  <2>2. \A x \in Opener : op[x].pc = "saved" => op[x].new # h /\ op[x].new \in Handle
    BY <1>9 DEF BaseInv, OpsFit, InUse
  <2> QED
    BY <1>1, <1>4, <1>7, <2>1, <2>2 DEF BaseInv, Fresh
<1>15. BaseInv'
  BY <1>8, <1>11, <1>12, <1>13, <1>14 DEF BaseInv
<1>16. ASSUME AloneInv
       PROVE  AloneInv' /\ (HistoryFits => HistoryFits')
  <2>1. \A g \in Handle : g # h => Touches(g)' = Touches(g) /\ FileAt(g)' = FileAt(g)
    BY <1>5, <1>9 DEF Touches, FileAt
  <2>2. FileAt(h)' = FileOf[p]
    BY <1>5 DEF FileAt
  <2>3. \A g \in Handle : Touches(g) => FileAt(g) # FileOf[p]
    <3> SUFFICES ASSUME NEW g \in Handle, Touches(g), FileAt(g) = FileOf[p]
                 PROVE  FALSE
      OBVIOUS
    <3>1. handle[g].path \in Path /\ NamesFit
      BY <1>2, <1>16 DEF Touches, HandleState, AloneInv
    <3>2. g \notin op[o].kept
      <4>1. SameTarget(p, handle[g].path)
        BY <1>2, <3>1, Same DEF FileAt
      <4> QED
        BY <1>1, <4>1 DEF ToSettle
    <3>3. op[o].kind = "open" /\ g = op[o].cur
      BY <1>1, <1>16, <3>2 DEF AloneInv, Covered
    <3>4. SameFile(p, handle[g].path)
      BY <1>1, <3>1, <3>3, FileSwitchingAssumption DEF SameFile, FileAt
    <3> QED
      BY <1>1, <3>3, <3>4 DEF GoesOn
  <2>4. NamesFit'
    BY <1>6, <1>16, FileSwitchingAssumption DEF AloneInv, NamesFit, There
  <2>5. Known'
    BY <1>1, <1>10, <1>16, <2>1 DEF AloneInv, Known
  <2>6. OpsApart'
    BY <1>1, <1>4, <1>16 DEF AloneInv, OpsApart
  <2>7. Covered'
    BY <1>1, <1>4, <1>16, <2>1, <2>2 DEF AloneInv, Covered, OpsApart
  <2>8. OneHandle'
    BY <1>16, <2>1, <2>2, <2>3 DEF AloneInv, OneHandle
  <2>9. HistoryFits => HistoryFits'
    <3>1. db \in Handle /\ db # h /\ Touches(db)
      BY <1>3 DEF BaseInv, TypeOK, Apart, InUse, Touches
    <3>2. FileAt(db) # p \/ file' = file
      BY <1>2, <1>6, <2>3, <3>1, FileSwitchingAssumption
    <3>3. FileAt(db) \in File
      BY <3>1, Located DEF BaseInv, Touches
    <3>4. Content(db)' = Content(db)
      BY <1>1, <1>6, <2>1, <3>1, <3>2, <3>3 DEF Content
    <3> QED
      BY <1>1, <1>7, <3>1, <3>4 DEF HistoryFits, Changing
  <2> QED
    BY <1>15, <2>4, <2>5, <2>6, <2>7, <2>8, <2>9 DEF AloneInv
<1> QED
  BY <1>15, <1>16

(* A switch goes to the handle that was opened for it.                     *)
LEMMA SwitchesTo ==
    ASSUME BaseInv, NEW o \in Opener, Switch(o)
    PROVE  /\ BaseInv'
           /\ AloneInv => AloneInv' /\ HistoryFits'
<1>1. PICK new \in Handle : new = op[o].new
  BY DEF Switch, BaseInv, OpsFit
<1>2. PICK old \in Handle : old = db
  BY DEF BaseInv, TypeOK
<1>3. PICK prev \in Handle \cup {NoHandle} : prev = prevDB
  BY DEF BaseInv, TypeOK
<1>4. /\ op[o].pc = "saved" /\ op' = [op EXCEPT ![o] = NoOp]
      /\ db' = new /\ prevDB' = old /\ shown' = Nothing /\ dialog' = NoHandle
      /\ \/ prev = NoHandle /\ UNCHANGED <<handle, retired, settling>>
         \/ /\ prev \in Handle /\ prev # NoHandle
            /\ handle' = ForGood(prev) /\ retired' = retired \cup {prev}
            /\ settling' = [settling EXCEPT ![prev] = "asked"]
      /\ loads' = loads \cup {LoadOf(new)}
      /\ UNCHANGED <<file, work, history, used, losses, scope>>
  BY <1>1, <1>2, <1>3 DEF Switch, bounds
<1>5. /\ op' \in [Opener -> Operation] /\ op'[o].pc = "idle" /\ op'[o].kept = {}
      /\ \A x \in Opener : x # o => op'[x] = op[x]
  BY <1>4, NoOps, OneOp DEF BaseInv, TypeOK
<1>6. /\ handle' \in [Handle -> HandleState]
      /\ \A g \in Handle : /\ handle'[g].path = handle[g].path
                           /\ g # prev => handle'[g] = handle[g]
                           /\ g = prev => handle'[g].final /\ ~handle'[g].up
  BY <1>4, Closed, Numbers DEF BaseInv, TypeOK
<1>7. LoadOf(new) \in Load /\ LoadOf(new).pc = "asked"
  BY DEF LoadOf, Load
<1>8. settling' \in [Handle -> {"none", "asked", "yes", "no"}] /\ retired' \subseteq Handle
  BY <1>4 DEF BaseInv, TypeOK
<1>9. TypeOK'
  BY <1>4, <1>5, <1>6, <1>7, <1>8 DEF BaseInv, TypeOK
<1>10. \A g \in Handle : /\ Busy(g)' = Busy(g) /\ FileAt(g)' = FileAt(g)
                         /\ (Touches(g)' => Touches(g))
  <2>1. \A g \in Handle : Busy(g)' = Busy(g)
    BY <1>4, <1>7 DEF Busy, Filing, Writing, Reading
  <2> QED
    BY <1>6, <2>1 DEF Touches, FileAt
<1>11. /\ InUse' = InUse \ {old} /\ old \in InUse /\ new \in InUse /\ new # old
       /\ prev \in Older \cup {NoHandle}
       /\ Older' \subseteq Older \cup {old}
       /\ InUse \subseteq Handle /\ InUse \cap Older = {}
  <2>1. \A x \in Opener : op[x].pc = "saved" => op[x].new # old /\ (x # o => op[x].new # new)
    BY <1>1, <1>2, <1>4 DEF BaseInv, Apart
  <2>2. InUse' = {new} \cup {op[x].new : x \in {y \in Opener \ {o} : op[y].pc = "saved"}}
    BY <1>4, <1>5 DEF InUse
  <2>3. new \in InUse /\ InUse \subseteq Handle
    BY <1>1, <1>4 DEF InUse, BaseInv, OpsFit, TypeOK
  <2>4. InUse' = InUse \ {old}
    BY <1>1, <1>2, <1>4, <2>1, <2>2 DEF InUse
  <2>5. Older' \subseteq Older \cup {old} /\ prev \in Older \cup {NoHandle}
    BY <1>3, <1>4, <1>5 DEF Older
  <2> QED
    BY <1>1, <1>2, <1>4, <2>1, <2>3, <2>4, <2>5 DEF InUse, BaseInv, Apart
<1>12. Made'
  BY <1>4, <1>6, <1>10 DEF BaseInv, Made
<1>13. Retirement'
  BY <1>4, <1>6, <1>10, Numbers DEF BaseInv, TypeOK, Retirement
<1>14. OpsFit' /\ WorkFits' /\ ShownIsOpen'
  BY <1>4, <1>5, <1>6, <1>7 DEF BaseInv, OpsFit, WorkFits, ShownIsOpen, Nothing
<1>15. Apart'
  <2>1. \A g \in InUse' : /\ g <= used /\ g \notin Older'
                          /\ handle'[g].path # NoPath /\ ~handle'[g].final
    BY <1>6, <1>11, Numbers DEF BaseInv, Apart
  <2>2. \A g \in Older' : g <= used
    BY <1>11 DEF BaseInv, Apart
  <2>3. \A x, y \in Opener : op'[x].pc = "saved" =>
          /\ op'[x].new # new
          /\ op'[y].pc = "saved" /\ op'[y].new = op'[x].new => y = x
    BY <1>1, <1>4, <1>5 DEF BaseInv, Apart
  <2> QED
    BY <1>4, <2>1, <2>2, <2>3 DEF Apart
<1>16. Fresh'
  BY <1>4, <1>5 DEF BaseInv, Fresh
<1>17. BaseInv'
  BY <1>9, <1>12, <1>13, <1>14, <1>15, <1>16 DEF BaseInv
<1>18. ASSUME AloneInv
       PROVE  AloneInv' /\ HistoryFits'
  <2>1. Known'
    BY <1>3, <1>4, <1>10, <1>11, <1>18, Numbers DEF AloneInv, Known
  <2>2. OpsApart' /\ Covered' /\ OneHandle' /\ NamesFit'
    BY <1>4, <1>5, <1>10, <1>18 DEF AloneInv, OpsApart, Covered, OneHandle, NamesFit, There
  <2>3. HistoryFits'
    BY <1>1, <1>4 DEF HistoryFits, BaseInv, Fresh
  <2> QED
    BY <1>17, <2>1, <2>2, <2>3 DEF AloneInv
<1> QED
  BY <1>17, <1>18

(* A retired handle whose work has ended is dropped.                       *)
LEMMA DropsOne ==
    ASSUME BaseInv, NEW h \in Handle, RetiredSettled(h)
    PROVE  /\ BaseInv'
           /\ AloneInv => AloneInv' /\ (HistoryFits => HistoryFits')
<1>1. /\ settling[h] \in {"yes", "no"} /\ h \in retired
      /\ \/ /\ settling[h] = "no" /\ settling' = [settling EXCEPT ![h] = "asked"]
            /\ UNCHANGED <<handle, retired>>
         \/ /\ settling[h] = "yes" /\ settling' = [settling EXCEPT ![h] = "none"]
            /\ retired' = retired \ {h} /\ handle' = [handle EXCEPT ![h] = Unused]
      /\ UNCHANGED <<file, db, prevDB, op, work, loads, history, shown, dialog, used, losses,
                     scope>>
  BY DEF RetiredSettled, views, bounds, BaseInv, Retirement
<1>2. Unused \in HandleState /\ Unused.path = NoPath /\ Unused.final /\ ~Unused.up
  BY DEF Unused, HandleState
<1>3. /\ handle' \in [Handle -> HandleState]
      /\ \A g \in Handle : g # h => handle'[g] = handle[g]
      /\ handle' = handle \/ (~Busy(h) /\ handle'[h] = Unused)
  BY <1>1, <1>2 DEF BaseInv, TypeOK, Retirement
<1>4. settling' \in [Handle -> {"none", "asked", "yes", "no"}] /\ retired' \subseteq retired
  BY <1>1 DEF BaseInv, TypeOK
<1>5. TypeOK'
  BY <1>1, <1>3, <1>4 DEF BaseInv, TypeOK
<1>6. \A g \in Handle : /\ Busy(g)' = Busy(g) /\ (Touches(g)' => Touches(g) /\ FileAt(g)' = FileAt(g))
                        /\ g \notin retired => handle'[g] = handle[g]
  <2>1. \A g \in Handle : Busy(g)' = Busy(g)
    BY <1>1 DEF Busy, Filing, Writing, Reading
  <2>2. h \in retired /\ (handle' = handle \/ handle'[h].path = NoPath)
    BY <1>1, <1>2, <1>3
  <2>3. ASSUME NEW g \in Handle, handle'[g] = handle[g]
        PROVE  Touches(g)' = Touches(g) /\ FileAt(g)' = FileAt(g)
    BY <2>1, <2>3 DEF Touches, FileAt
  <2>4. handle'[h].path = NoPath => ~Touches(h)'
    BY DEF Touches
  <2>5. ASSUME NEW g \in Handle
        PROVE  /\ Touches(g)' => Touches(g) /\ FileAt(g)' = FileAt(g)
               /\ g \notin retired => handle'[g] = handle[g]
    <3>1. CASE g = h
      BY <2>2, <2>3, <2>4, <3>1
    <3>2. CASE g # h
      BY <1>3, <2>3, <3>2
    <3> QED
      BY <3>1, <3>2
  <2> QED
    BY <2>1, <2>5
<1>7. InUse' = InUse /\ Older' \subseteq Older /\ InUse \cap retired = {} /\ InUse \subseteq Handle
  <2>1. InUse' = InUse /\ Older' \subseteq Older
    BY <1>1, <1>4 DEF InUse, Older
  <2>2. InUse \subseteq Handle
    BY DEF BaseInv, InUse, TypeOK, OpsFit
  <2>3. retired \subseteq Older
    BY DEF Older
  <2> QED
    BY <2>1, <2>2, <2>3 DEF BaseInv, Apart
<1>8. Made' /\ Retirement'
  BY <1>1, <1>2, <1>3, <1>4, <1>6 DEF BaseInv, TypeOK, Made, Retirement
<1>9. OpsFit' /\ WorkFits' /\ ShownIsOpen' /\ Fresh'
  BY <1>1, <1>6, <1>7 DEF BaseInv, OpsFit, WorkFits, ShownIsOpen, Fresh, InUse
<1>10. Apart'
  BY <1>1, <1>6, <1>7 DEF BaseInv, Apart
<1>11. BaseInv'
  BY <1>5, <1>8, <1>9, <1>10 DEF BaseInv
<1>12. ASSUME AloneInv
       PROVE  AloneInv' /\ (HistoryFits => HistoryFits')
  <2>1. Known'
    <3>1. (handle' = handle /\ retired' = retired) \/ ~Touches(h)'
      BY <1>1, <1>2, <1>3 DEF Touches
    <3> QED
      BY <1>1, <1>6, <1>7, <1>12, <3>1 DEF AloneInv, Known
  <2>2. NamesFit' /\ OpsApart' /\ Covered' /\ OneHandle'
    BY <1>1, <1>6, <1>12 DEF AloneInv, NamesFit, There, OpsApart, Covered, OneHandle
  <2>3. db \in InUse /\ Content(db)' = Content(db)
    BY <1>1, <1>6, <1>7 DEF InUse, Content, FileAt
  <2>4. HistoryFits => HistoryFits'
    BY <1>1, <2>3 DEF HistoryFits, Changing
  <2> QED
    BY <1>11, <2>1, <2>2, <2>4 DEF AloneInv
<1> QED
  BY <1>11, <1>12

----------------------------------------------------------------------------
(* The history of the open file.                                           *)

(* Its contents do not change, and a step is recorded over them.           *)
LEMMA HistoryKept ==
    ASSUME HistoryFits, db' = db, Content(db)' = Content(db),
           history'[db] \subseteq history[db] \cup {Content(db)},
           \A w \in Worker : Changing(w) => Changing(w)' \/ history'[db] = {}
    PROVE  HistoryFits'
BY DEF HistoryFits

LEMMA WorkKeepsHistory ==
    ASSUME AloneInv, HistoryFits, NEW w \in Worker, Working(w)
    PROVE  HistoryFits'
<1>1. PICK cur \in Handle : /\ cur = db /\ handle[cur].path # NoPath /\ Touches(cur)
  BY DEF AloneInv, BaseInv, TypeOK, Apart, InUse, Touches
<1>2. BaseInv /\ Steady /\ work \in [Worker -> Command] /\ OneHandle
  BY WorkSteps DEF AloneInv, BaseInv, TypeOK
<1>3. db' = cur /\ handle'[cur].path = handle[cur].path /\ FileAt(cur)' = FileAt(cur)
  BY <1>1, <1>2 DEF Steady, app, FileAt
<1>4. work[w].pc # "idle" /\ work[w].h \in Handle
  BY <1>2 DEF BaseInv, WorkFits, Working, LocksManager, Begins, Commits, WriteFails,
     FileOpBegins, FileOpEnds, FileOpFails, Arrives
<1>5. ASSUME work[w].pc \in {"filing", "writing"}, work[w].h # cur
      PROVE  FileAt(work[w].h) # FileAt(cur)
  <2>1. Busy(work[w].h)
    BY <1>5 DEF Busy, Filing, Writing
  <2>2. Touches(work[w].h)
    BY <1>2, <1>4, <2>1 DEF Touches, BaseInv, Made
  <2> QED
    BY <1>1, <1>2, <1>4, <1>5, <2>2 DEF OneHandle
<1>6. FileAt(cur) \in File /\ file \in [File -> FileState]
  BY <1>1, <1>2, Located DEF BaseInv, TypeOK
<1>7. ASSUME work[w].pc # "report", work'[w].pc = "report" => work[w].pc \in {"filing", "writing"},
             \A x \in Worker : x # w => work'[x] = work[x],
             file' = file, history'[cur] \subseteq history[cur] \cup {Content(cur)}
      PROVE  HistoryFits'
  <2>1. Content(cur)' = Content(cur)
    BY <1>3, <1>7 DEF Content
  <2>2. \A x \in Worker : Changing(x) => Changing(x)'
    BY <1>1, <1>3, <1>7 DEF Changing
  <2> QED
    BY <1>1, <1>3, <1>7, <2>1, <2>2, HistoryKept
<1>8. CASE LocksManager(w) \/ Begins(w) \/ WriteFails(w) \/ FileOpBegins(w) \/ FileOpFails(w)
  <2>1. Ends(w) \/ Goes(w, "locked") \/ Goes(w, "writing") \/ Goes(w, "filing")
    BY <1>8 DEF LocksManager, Begins, WriteFails, FileOpBegins, FileOpFails
  <2>2. /\ \A x \in Worker : x # w => work'[x] = work[x]
        /\ work'[w].pc # "report"
    BY <1>2, <2>1, Ended, Went
  <2>3. work[w].pc # "report" /\ file' = file /\ history' = history
    BY <1>8 DEF LocksManager, Begins, WriteFails, FileOpBegins, FileOpFails
  <2> QED
    BY <1>7, <2>2, <2>3
<1>9. CASE Commits(w) \/ FileOpEnds(w)
  <2> DEFINE h == work[w].h
             newFile == [file EXCEPT ![FileAt(h)].content = @ + 1]
  <2>1. /\ Goes(w, "report") \/ Goes(w, "moving")
        /\ work[w].pc \in {"filing", "writing"}
        /\ history' = history \/ history' = [history EXCEPT ![h] = @ \cup {Content(h)}]
        /\ \/ file' = file
           \/ /\ Goes(w, "report") /\ work[w].kind \in {"restore", "move"} /\ history' = history
              /\ file[FileAt(h)].content < MaxContent /\ file' = newFile
    BY <1>9 DEF Commits, FileOpEnds
  <2>2. /\ \A x \in Worker : x # w => work'[x] = work[x]
        /\ work'[w].h = h /\ work'[w].kind = work[w].kind
        /\ Goes(w, "report") => work'[w].pc = "report"
    BY <1>2, <2>1, Went
  <2>3. history'[cur] \subseteq history[cur] \cup {Content(cur)}
    BY <1>2, <2>1 DEF BaseInv, TypeOK
  <2>4. CASE file' = file
    BY <1>7, <2>1, <2>2, <2>3, <2>4
  <2>5. CASE file' # file /\ h = cur
    BY <1>3, <2>1, <2>2, <2>5 DEF HistoryFits, Changing
  <2>6. CASE file' # file /\ h # cur
    <3>1. FileAt(h) # FileAt(cur) /\ FileAt(h) \in File
      BY <1>2, <1>4, <1>5, <2>1, <2>6, Located DEF BaseInv, Made, Busy, Filing, Writing
    <3>2. file'[FileAt(cur)].content = file[FileAt(cur)].content
      BY <1>6, <2>1, <2>6, <3>1, NewContent
    <3>3. Content(cur)' = Content(cur)
      BY <1>3, <3>2 DEF Content
    <3>4. \A x \in Worker : Changing(x) => Changing(x)'
      BY <1>1, <1>3, <2>1, <2>2 DEF Changing
    <3> QED
      BY <1>1, <1>3, <2>3, <3>3, <3>4, HistoryKept
  <2> QED
    BY <2>4, <2>5, <2>6
<1>10. CASE Arrives(w)
  <2>1. /\ Ends(w) /\ file' = file
        /\ \/ history' = history /\ (work[w].h # cur \/ work[w].kind \notin {"restore", "move"})
           \/ work[w].h = cur /\ history' = [history EXCEPT ![cur] = {}]
    BY <1>1, <1>10 DEF Arrives
  <2>2. \A x \in Worker : x # w => work'[x] = work[x]
    BY <1>2, <2>1, Ended
  <2>3. Content(cur)' = Content(cur)
    BY <1>3, <2>1 DEF Content
  <2>4. history'[cur] \subseteq history[cur] /\ (history' = history \/ history'[cur] = {})
    BY <1>2, <2>1 DEF BaseInv, TypeOK
  <2>5. \A x \in Worker : Changing(x) => Changing(x)' \/ history'[cur] = {}
    BY <1>1, <1>2, <1>3, <2>1, <2>2 DEF Changing, BaseInv, TypeOK
  <2> QED
    BY <1>1, <1>3, <2>3, <2>4, <2>5, HistoryKept
<1> QED
  BY <1>8, <1>9, <1>10 DEF Working

----------------------------------------------------------------------------
(* Theorems.                                                               *)

LEMMA Starts == Init => IInv
<1> SUFFICES ASSUME Init
             PROVE  IInv
  OBVIOUS
<1>1. /\ NoOp \in Operation /\ NoWork \in Command /\ Unused \in HandleState
      /\ NoOp.pc = "idle" /\ NoOp.kept = {} /\ NoWork.pc = "idle" /\ NoWork.h = NoHandle
      /\ Unused.path = NoPath /\ Unused.final /\ ~Unused.up
      /\ LoadOf(1) \in Load /\ LoadOf(1).pc = "asked"
  BY NoOps, Numbers DEF NoWork, Command, Kinds, Unused, HandleState, LoadOf, Load
<1>2. /\ \A f \in File : file[f].there = (f \in Present) /\ file[f].content = 0
      /\ handle[1] = [path |-> First, up |-> TRUE, final |-> FALSE]
      /\ \A h \in Handle : h # 1 => handle[h] = Unused
      /\ \A o \in Opener : op[o] = NoOp
      /\ \A w \in Worker : work[w] = NoWork
      /\ \A h \in Handle : settling[h] = "none" /\ history[h] = {}
      /\ db = 1 /\ prevDB = NoHandle /\ retired = {} /\ loads = {LoadOf(1)} /\ used = 1
      /\ shown = Nothing /\ dialog = NoHandle /\ losses = 0 /\ scope \in Scopes
  BY Numbers DEF Init
<1>3. First \in Path /\ First # NoPath /\ First \in File
  BY FileSwitchingAssumption
<1>4. TypeOK
  <2>1. file \in [File -> FileState]
    BY FileSwitchingAssumption DEF Init, FileState
  <2>2. handle \in [Handle -> HandleState]
    BY <1>1, <1>3 DEF Init, HandleState
  <2>3. losses \in 0..scope.losses
    BY <1>2, FileSwitchingAssumption
  <2> QED
    BY <1>1, <1>2, <2>1, <2>2, <2>3, Numbers DEF Init, TypeOK, Version
<1>5. \A h \in Handle : ~Busy(h) /\ (h # 1 => ~Touches(h))
  BY <1>1, <1>2 DEF Busy, Filing, Writing, Reading, Touches
<1>6. InUse = {1} /\ Older = {}
  BY <1>1, <1>2 DEF InUse, Older
<1>7. Made /\ Retirement /\ OpsFit /\ Fresh /\ WorkFits /\ ShownIsOpen
  BY <1>1, <1>2, <1>3, <1>5, Numbers DEF Made, Retirement, OpsFit, Fresh, WorkFits, ShownIsOpen,
     Nothing, NoHandle, Handle
<1>8. Apart
  BY <1>1, <1>2, <1>3, <1>6 DEF Apart
<1>9. NamesFit
  BY <1>2, FileSwitchingAssumption DEF NamesFit, There
<1>10. Known /\ OpsApart /\ Covered /\ OneHandle /\ HistoryFits
  BY <1>1, <1>2, <1>5, <1>6, Numbers DEF Known, OpsApart, Covered, OneHandle, HistoryFits
<1> QED
  BY <1>4, <1>7, <1>8, <1>9, <1>10 DEF IInv, AloneInv, BaseInv

LEMMA BaseKeeps == BaseInv /\ [Next]_vars => BaseInv'
<1> SUFFICES ASSUME BaseInv, [Next]_vars
             PROVE  BaseInv'
  OBVIOUS
<1>1. CASE UNCHANGED vars
  BY <1>1 DEF vars, app, views, bounds, BaseInv, TypeOK, Made, Retirement, OpsFit, Apart, Fresh,
     WorkFits, ShownIsOpen, InUse, Older, Busy, Filing, Writing, Reading
<1>2. ASSUME NEW o \in Opener, Opening(o)
      PROVE  BaseInv'
  BY <1>2, WaitingSteps, WaitsBase, OpensOne, SettlesOne, SwitchesTo DEF Opening
<1>3. CASE \E o \in scope.openers, kind \in {"open", "new"}, p \in scope.paths : Submit(o, kind, p)
  <2>1. scope.openers \subseteq Opener /\ scope.paths \subseteq Path
    BY FileSwitchingAssumption DEF BaseInv, TypeOK
  <2> QED
    BY <1>3, <2>1, WaitingSteps, WaitsBase
<1>4. scope.workers \subseteq Worker
  BY FileSwitchingAssumption DEF BaseInv, TypeOK
<1> QED
  BY <1>1, <1>2, <1>3, <1>4, Answers, DropsOne, LoadSteps, WorkSteps, AskSteps, WorldSteps,
     SteadyBase DEF Next, User, Settling

LEMMA InvKeeps == FilesKept /\ IInv /\ [Next]_vars => IInv'
<1> SUFFICES ASSUME FilesKept, AloneInv, HistoryFits, [Next]_vars
             PROVE  AloneInv' /\ HistoryFits'
  BY DEF IInv
<1>1. BaseInv /\ BaseInv'
  BY BaseKeeps DEF AloneInv
<1>2. CASE UNCHANGED vars
  BY <1>1, <1>2 DEF vars, app, views, bounds, AloneInv, NamesFit, There, Known, OpsApart,
     Covered, OneHandle, HistoryFits, Changing, Content, Touches, FileAt, InUse, Busy, Filing,
     Writing, Reading
<1>3. ASSUME NEW o \in Opener, Opening(o)
      PROVE  AloneInv' /\ HistoryFits'
  BY <1>1, <1>3, WaitingSteps, WaitsAlone, OpensOne, SettlesOne, SwitchesTo DEF Opening
<1>4. CASE \E o \in scope.openers, kind \in {"open", "new"}, p \in scope.paths : Submit(o, kind, p)
  <2>1. scope.openers \subseteq Opener /\ scope.paths \subseteq Path
    BY <1>1, FileSwitchingAssumption DEF BaseInv, TypeOK
  <2> QED
    BY <1>1, <1>4, <2>1, WaitingSteps, WaitsAlone
<1>5. ASSUME NEW w \in Worker, Working(w)
      PROVE  AloneInv' /\ HistoryFits'
  <2>1. NamesFit'
    BY <1>1, <1>5, WorkSteps, FileSwitchingAssumption DEF AloneInv, NamesFit, There
  <2> QED
    BY <1>1, <1>5, <2>1, WorkSteps, SteadyAlone, WorkKeepsHistory
<1>6. ASSUME Steady, NamesFit', history' = history,
             \A f \in File : file'[f].content = file[f].content,
             \A w \in Worker : Changing(w) => Changing(w)'
      PROVE  AloneInv' /\ HistoryFits'
  <2>1. db' = db /\ FileAt(db)' = FileAt(db) /\ FileAt(db) \in File
    BY <1>1, <1>6, Located DEF Steady, app, BaseInv, TypeOK, Apart, InUse, FileAt
  <2>2. Content(db)' = Content(db)
    BY <1>6, <2>1 DEF Content
  <2> QED
    BY <1>1, <1>6, <2>1, <2>2, SteadyAlone, HistoryKept
<1>7. CASE World
  <2>1. \A w \in Worker : Changing(w) => Changing(w)'
    BY <1>1, <1>7, WorldSteps DEF Changing, Steady, app
  <2> QED
    BY <1>1, <1>6, <1>7, <2>1, WorldSteps DEF AloneInv
<1>8. ASSUME NEW l \in loads, Loading(l)
      PROVE  AloneInv' /\ HistoryFits'
  <2>1. \A w \in Worker : Changing(w) => Changing(w)'
    BY <1>1, <1>8, LoadSteps DEF Changing, Steady, app
  <2> QED
    BY <1>1, <1>6, <1>8, <2>1, LoadSteps DEF AloneInv, NamesFit, There
<1>9. CASE Refresh \/ OpenRestoreList \/
           \E w \in Worker : PickRestore(w) \/ \E kind \in Kinds : Ask(w, kind)
  <2>1. Steady /\ UNCHANGED <<file, history>>
    BY <1>1, <1>9, AskSteps
  <2>2. \A w \in Worker : Changing(w) => Changing(w)'
    <3>1. work' = work \/ \E w \in Worker, r \in [pc : {"asked"}, kind : Kinds, h : Handle] :
                            work[w].pc = "idle" /\ work' = [work EXCEPT ![w] = r]
      BY <1>1, <1>9 DEF Refresh, OpenRestoreList, PickRestore, Ask, Asked, BaseInv, TypeOK,
         ShownIsOpen, Kinds
    <3> QED
      BY <1>1, <2>1, <3>1 DEF Changing, Steady, app, BaseInv, TypeOK
  <2> QED
    BY <1>6, <2>1, <2>2 DEF AloneInv, NamesFit, There
<1>10. scope.workers \subseteq Worker
  BY <1>1, FileSwitchingAssumption DEF BaseInv, TypeOK
<1> QED
  BY <1>1, <1>2, <1>3, <1>4, <1>5, <1>7, <1>8, <1>9, <1>10, Answers, DropsOne
     DEF Next, User, Settling

(* Every state is well typed, with files deleted under the program too.    *)
THEOREM TypeCorrect == Spec => []TypeOK
<1>1. Init => BaseInv
  BY Starts DEF IInv, AloneInv
<1> QED
  BY <1>1, BaseKeeps, PTL DEF Spec, BaseInv

(* What the views show, and the Restore list, is of the open file, in      *)
(* whatever order loads end and files are switched (file_of.go).           *)
THEOREM ShowsTheOpenFile == Spec => []ShownIsOpen
<1>1. Init => BaseInv
  BY Starts DEF IInv, AloneInv
<1> QED
  BY <1>1, BaseKeeps, PTL DEF Spec, BaseInv

(* A retired handle is closed for good and settled until its work has      *)
(* ended (settleRetired, retiredSettled).                                  *)
THEOREM RetiredIsSettled == Spec => []RetiredIsAsked
<1>1. Init => BaseInv
  BY Starts DEF IInv, AloneInv
<1>2. BaseInv => RetiredIsAsked
  BY DEF BaseInv, Retirement, RetiredIsAsked, TypeOK
<1> QED
  BY <1>1, <1>2, BaseKeeps, PTL DEF Spec

(* At most one handle of a file can touch it, whatever is opened, created, *)
(* switched, restored or moved at once, and by whichever of its names a    *)
(* file is opened, as long as no file is deleted while it is open.         *)
THEOREM OneHandlePerFile == FilesKept => (Spec => []OneHandle)
<1> SUFFICES ASSUME FilesKept
             PROVE  Spec => []OneHandle
  OBVIOUS
<1>1. IInv => OneHandle
  BY DEF IInv, AloneInv
<1>2. IInv /\ [Next]_vars => IInv'
  BY InvKeeps
<1> QED
  BY <1>1, <1>2, Starts, PTL DEF Spec

(* Under the same condition the undo history of the open file holds only   *)
(* steps over its present contents.                                        *)
THEOREM HistoryIsOfThisFile == FilesKept => (Spec => []HistoryFits)
<1> SUFFICES ASSUME FilesKept
             PROVE  Spec => []HistoryFits
  OBVIOUS
<1>1. IInv => HistoryFits
  BY DEF IInv
<1>2. IInv /\ [Next]_vars => IInv'
  BY InvKeeps
<1> QED
  BY <1>1, <1>2, Starts, PTL DEF Spec
=============================================================================
