-------------------------- MODULE ScheduledPosting --------------------------
(***************************************************************************)
(* Recurring transactions and the register rows they post                  *)
(* (src/internal/scheduled, their commands in src/internal/undo, and the   *)
(* scheduled view of src/internal/tui).                                    *)
(*                                                                         *)
(* Two processes write schedules.  The start-up batch lists what is due,   *)
(* then catches each schedule up in a transaction of its own, from the     *)
(* copy it listed; when it has finished it hands the undo manager one      *)
(* command for all of it.  The lane of the undo manager's mutex runs one   *)
(* command, undo or redo at a time, whose reads and writes are separate    *)
(* steps.  The view is what the user acts on: a copy of the schedules that *)
(* is loaded when the view opens and after each command, but not when the  *)
(* batch ends.  A crash or a quit keeps the schedules and the rows.        *)
(*                                                                         *)
(* An occurrence is its number in the series, which stands for its date.   *)
(* Amounts, split lines, payees and the loan computation are left out.     *)
(***************************************************************************)
EXTENDS Integers, FiniteSets, SequencesExt

CONSTANTS
    Schedule,
    AutoPosting,  \* those the batch posts; the others wait for the user
    Template,     \* each schedule as the first session finds it
    Lead,         \* post_lead_days of each, counted in occurrences
    Trouble,      \* what may ail a schedule in an instance
    RowId,        \* identifiers of posted rows; unreferenced ones are reused
    Rearm,        \* what an edit may write in the Occurrences field
    NoLimit, NoEnd, NoRow, Gone, NotRead, Due, Done,
    Early,        \* what the user does although the batch or a load is under
                  \* way ("look", "act"), and whether an undone batch is redone
                  \* with commands that followed it ("redo")
    Used,         \* bound: the kinds of command issued in an instance
    Handled,      \* bound: the schedules they are issued for
    MaxDay,       \* bound: the last day
    MaxSession,   \* bound: sessions
    MaxDepth      \* bound: commands on the undo stack

Ail == {"none", "closed", "refused"}

(* A schedule as it is stored: the next occurrence, how many are left, the *)
(* last one.                                                               *)
Kept == [next : Nat, left : Nat \cup {NoLimit}, end : Nat \cup {NoEnd}]

ASSUME PostingAssumption ==
    /\ RowId \subseteq Nat /\ IsFiniteSet(RowId)
    /\ AutoPosting \subseteq Schedule
    /\ Template \in [Schedule -> Kept]
    /\ Lead \in [Schedule -> Nat]
    /\ Trouble \subseteq Ail
    /\ Rearm \subseteq (Nat \ {0}) \cup {NoLimit}
    /\ Early \subseteq {"look", "act", "redo"}
    /\ Used \subseteq {"post", "skip", "edit", "delete"}
    /\ Handled \subseteq Schedule
    /\ MaxDay \in Nat /\ MaxSession \in Nat /\ MaxDepth \in Nat

ASSUME AbsentAssumption ==
    /\ Gone \notin Kept /\ Due # Done
    /\ NoRow \notin [sched : Schedule, occ : Nat]

VARIABLES
    sched,      \* the stored schedules
    rows,       \* the rows they posted
    ail,        \* a closed account, a posting the ledger refuses, or none
    today, session,
    batch,      \* the start-up batch: Due, what it is at, or Done
    lane,       \* what runs under the undo manager's mutex
    undoStack, redoStack,
    view,       \* the schedules as the view shows them, Gone if it does not
    reload,     \* a load of the view is under way
    skipped,    \* history: the occurrences passed over on purpose
    cut         \* history: those whose undo a crash cut short

(* Nothing runs under the mutex.                                           *)
Idle == [how |-> "idle"]

vars == <<sched, rows, ail, today, session, batch, lane, undoStack, redoStack,
          view, reload, skipped, cut>>
store == <<sched, rows, skipped>>

Live(r) == rows[r] # NoRow
Posting(s, occ) == [sched |-> s, occ |-> occ]

(* Mutant of Completed: the number of occurrences does not end a schedule. *)
CompletedByDate(st) == st.end # NoEnd /\ st.next > st.end

Completed(st) == st.left = 0 \/ (st.end # NoEnd /\ st.next > st.end)

(* AdvanceSchedule, k times.                                               *)
Advanced(st, k) ==
    [st EXCEPT !.next = @ + k, !.left = IF @ = NoLimit THEN @ ELSE @ - k]

AutoPostDue(s, st, day) == ~ Completed(st) /\ st.next - Lead[s] <= day

(* How many occurrences of st a catch-up posts on this day.                *)
Overdue(s, st, day) ==
    CHOOSE k \in 0 .. MaxDay + Lead[s] + 1 :
        /\ ~ AutoPostDue(s, Advanced(st, k), day)
        /\ \A j \in 0 .. k - 1 : AutoPostDue(s, Advanced(st, j), day)

RowsOf(c) ==
    CASE c.op = "post" -> {c.row}
      [] c.op = "auto" -> UNION {Range(e.rows) : e \in Range(c.entries)}
      [] OTHER -> {}

Referenced ==
    (UNION {RowsOf(c) : c \in Range(undoStack) \cup Range(redoStack)})
      \cup (IF lane = Idle THEN {} ELSE RowsOf(lane.cmd))
      \cup (IF batch \in {Due, Done} THEN {}
            ELSE UNION {Range(e.rows) : e \in Range(batch.entries)})

Fresh == {r \in RowId : ~ Live(r)} \ Referenced
FreshRow(i) == CHOOSE r \in Fresh : Cardinality({x \in Fresh : x <= r}) = i

----------------------------------------------------------------------------
(* The start-up batch.                                                     *)

(* ListAutoPostDue.                                                        *)
AutoList ==
    /\ batch = Due
    /\ batch' = [day |-> today, entries |-> <<>>,
                 todo |-> {[sched |-> s, st |-> sched[s]] : s \in
                     {x \in AutoPosting : sched[x] # Gone /\ AutoPostDue(x, sched[x], today)}}]
    /\ UNCHANGED <<sched, rows, ail, today, session, lane, undoStack, redoStack,
                   view, reload, skipped, cut>>

Running == batch \notin {Due, Done}

(* The earliest candidates first.                                          *)
Candidates ==
    {c \in batch.todo : \A d \in batch.todo : c.st.next <= d.st.next}

(* Mutant of AutoSkip: a closed account aborts the batch.                  *)
AutoSkipAborts(c) ==
    /\ ail[c.sched] = "closed"
    /\ batch' = Done
    /\ UNCHANGED store

(* Mutant of AutoSkip: the schedule is advanced past what was not posted.  *)
AutoSkipAdvances(c) ==
    /\ ail[c.sched] = "closed" /\ sched[c.sched] # Gone
    /\ batch' = [batch EXCEPT !.todo = @ \ {c}]
    /\ sched' = [sched EXCEPT ![c.sched] = Advanced(c.st, 1)]
    /\ UNCHANGED <<rows, skipped>>

(* A schedule on a closed account stays due.                               *)
AutoSkip(c) ==
    /\ ail[c.sched] = "closed"
    /\ batch' = [batch EXCEPT !.todo = @ \ {c}]
    /\ UNCHANGED store

(* Any other refusal, or a schedule deleted since it was listed, ends the  *)
(* batch; what it posted so far is reported to nobody.                     *)
AutoAbort(c) ==
    /\ ail[c.sched] = "refused" \/ (ail[c.sched] = "none" /\ sched[c.sched] = Gone)
    /\ batch' = Done
    /\ UNCHANGED store

CatchUp(c, n) ==
    LET new == [i \in 1..n |-> FreshRow(i)] IN
    /\ rows' = [r \in RowId |->
          IF r \in Range(new)
          THEN Posting(c.sched, c.st.next - 1 + CHOOSE i \in 1..n : new[i] = r) ELSE rows[r]]
    /\ batch' = [batch EXCEPT
          !.todo = @ \ {c},
          !.entries = Append(@, [sched |-> c.sched, rows |-> new, before |-> c.st])]
    /\ skipped' = skipped \ {Posting(c.sched, o) : o \in c.st.next .. c.st.next + n - 1}

(* Every overdue occurrence of the listed copy, and the schedule advanced  *)
(* from that copy, in one transaction.                                     *)
AutoPost(c) ==
    LET n == Overdue(c.sched, c.st, batch.day) IN
    /\ ail[c.sched] = "none" /\ sched[c.sched] # Gone
    /\ n <= Cardinality(Fresh)
    /\ CatchUp(c, n)
    /\ sched' = [sched EXCEPT ![c.sched] = Advanced(c.st, n)]

AutoCandidate ==
    /\ Running /\ batch.todo # {}
    /\ \E c \in Candidates : AutoSkip(c) \/ AutoAbort(c) \/ AutoPost(c)
    /\ UNCHANGED <<ail, today, session, lane, undoStack, redoStack, view, reload, cut>>

(* applyAutoPostResult: one undo step for the batch, if it posted          *)
(* anything.  Push waits for the mutex.  The scheduled view is not loaded  *)
(* again.                                                                  *)
AutoFinish ==
    /\ Running /\ batch.todo = {}
    /\ lane = Idle
    /\ batch' = Done
    /\ IF batch.entries = <<>> THEN UNCHANGED <<undoStack, redoStack>>
       ELSE /\ undoStack' = Append(undoStack, [op |-> "auto", entries |-> batch.entries])
            /\ redoStack' = <<>>
    /\ UNCHANGED <<sched, rows, ail, today, session, lane, view, reload, skipped, cut>>

----------------------------------------------------------------------------
(* The view, and the commands it issues.                                   *)

(* A completed schedule is not listed.                                     *)
LoadView ==
    /\ batch = Done \/ "look" \in Early
    /\ view' = [s \in Schedule |->
          IF sched[s] # Gone /\ Completed(sched[s]) THEN Gone ELSE sched[s]]
    /\ reload' = FALSE
    /\ UNCHANGED <<sched, rows, ail, today, session, batch, lane, undoStack, redoStack,
                   skipped, cut>>

(* The schedules a command may be issued for, and what an edit writes.     *)
Shown == {s \in Handled : view[s] # Gone}
Edited(st, n) == [st EXCEPT !.left = n, !.end = NoEnd]

(* A command fixes the schedule, and with it what the dialog showed of it: *)
(* the date of the occurrence it posts, the schedule an edit will write.   *)
Offered ==
         {[op |-> "post", sched |-> s, occ |-> view[s].next, row |-> r, before |-> NotRead] :
              s \in Shown, r \in IF Fresh = {} THEN {} ELSE {FreshRow(1)}}
    \cup [op : {"skip", "delete"}, sched : Shown, before : {NotRead}]
    \cup {[op |-> "edit", sched |-> s, before |-> NotRead, after |-> Edited(view[s], n)] :
              s \in Shown, n \in Rearm}

MayAct ==
    /\ lane = Idle
    /\ (batch = Done /\ ~ reload) \/ "act" \in Early

(* The state before the command is read; only then does it run.            *)
Start(how, c) ==
    /\ sched[c.sched] # Gone
    /\ lane' = [how |-> how, cmd |-> [c EXCEPT !.before = sched[c.sched]],
                st |-> NotRead, todo |-> <<>>]
    /\ UNCHANGED <<sched, rows, ail, today, session, batch, undoStack, redoStack,
                   view, reload, skipped, cut>>

Execute ==
    /\ MayAct
    /\ Len(undoStack) < MaxDepth
    /\ \E c \in Offered : c.op \in Used /\ Start("do", c)

Redo ==
    /\ MayAct
    /\ redoStack # <<>> /\ Last(redoStack).op # "auto"
    /\ Start("redo", Last(redoStack))

(* Executing the batch's command again does nothing.                       *)
RedoAuto ==
    /\ MayAct
    /\ Len(redoStack) = 1 \/ "redo" \in Early
    /\ redoStack # <<>> /\ Last(redoStack).op = "auto"
    /\ undoStack' = Append(undoStack, Last(redoStack))
    /\ redoStack' = Front(redoStack)
    /\ reload' = TRUE
    /\ UNCHANGED <<sched, rows, ail, today, session, batch, lane, view, skipped, cut>>

(* The schedule is read a second time by the service.  A completed one and *)
(* a closed account are refused; the command is dropped.                   *)
Check ==
    /\ lane # Idle /\ lane.how # "undo"
    /\ lane.cmd.op \in {"post", "skip"} /\ lane.st = NotRead
    /\ LET s  == lane.cmd.sched
           ok == /\ sched[s] # Gone /\ ~ Completed(sched[s])
                 /\ lane.cmd.op = "post" => ail[s] # "closed"
       IN lane' = IF ok THEN [lane EXCEPT !.st = sched[s]] ELSE Idle
    /\ UNCHANGED <<sched, rows, ail, today, session, batch, undoStack, redoStack,
                   view, reload, skipped, cut>>

(* The row is dated as the dialog showed it, and the schedule advances     *)
(* from the second read.                                                   *)
WritePost(c, st) ==
    /\ c.op = "post" /\ st # NotRead
    /\ ail[c.sched] # "refused" /\ sched[c.sched] # Gone
    /\ rows' = [rows EXCEPT ![c.row] = Posting(c.sched, c.occ)]
    /\ sched' = [sched EXCEPT ![c.sched] = Advanced(st, 1)]
    /\ skipped' = skipped \ {Posting(c.sched, c.occ)}

WriteSkip(c, st) ==
    /\ c.op = "skip" /\ st # NotRead
    /\ sched[c.sched] # Gone
    /\ sched' = [sched EXCEPT ![c.sched] = Advanced(st, 1)]
    /\ skipped' = skipped \cup {Posting(c.sched, st.next)}
    /\ UNCHANGED rows

WriteEdit(c) ==
    /\ c.op = "edit"
    /\ sched[c.sched] # Gone
    /\ sched' = [sched EXCEPT ![c.sched] = c.after]
    /\ UNCHANGED <<rows, skipped>>

WriteDelete(c) ==
    /\ c.op = "delete"
    /\ sched[c.sched] # Gone
    /\ sched' = [sched EXCEPT ![c.sched] = Gone]
    /\ UNCHANGED <<rows, skipped>>

Write(c, st) == WritePost(c, st) \/ WriteSkip(c, st) \/ WriteEdit(c) \/ WriteDelete(c)

Ready == lane # Idle /\ lane.how # "undo"
         /\ (lane.cmd.op \in {"post", "skip"} => lane.st # NotRead)

Commit ==
    /\ Ready
    /\ Write(lane.cmd, lane.st)
    /\ undoStack' = Append(undoStack, lane.cmd)
    /\ redoStack' = IF lane.how = "do" THEN <<>> ELSE Front(redoStack)
    /\ lane' = Idle /\ reload' = TRUE
    /\ UNCHANGED <<ail, today, session, batch, view, cut>>

(* The ledger refuses the row, or the schedule is gone: nothing is written *)
(* and the stacks stay as they are.                                        *)
Refuse ==
    /\ Ready
    /\ \/ sched[lane.cmd.sched] = Gone
       \/ lane.cmd.op = "post" /\ ail[lane.cmd.sched] = "refused"
    /\ lane' = Idle
    /\ UNCHANGED <<sched, rows, ail, today, session, batch, undoStack, redoStack,
                   view, reload, skipped, cut>>

----------------------------------------------------------------------------
(* Undo: a command's writes are taken back one transaction at a time.      *)

Drop(rs)     == [do |-> "drop", rows |-> rs]
Put(s, st)   == [do |-> "put", sched |-> s, st |-> st]
Again(s, st) == [do |-> "again", sched |-> s, st |-> st]

(* The rows of the last entry go first, and each entry's latest row.       *)
AutoReversal(entries) ==
    Reverse([i \in DOMAIN entries |-> Drop(entries[i].rows)])
    \o [i \in DOMAIN entries |-> Put(entries[i].sched, entries[i].before)]

(* Mutant of Reversal: the schedule is put back before the row is deleted. *)
ReversalPutsFirst(c) ==
    CASE c.op = "post" -> <<Put(c.sched, c.before), Drop(<<c.row>>)>>
      [] c.op \in {"skip", "edit"} -> <<Put(c.sched, c.before)>>
      [] c.op = "delete" -> <<Again(c.sched, c.before)>>
      [] c.op = "auto" -> AutoReversal(c.entries)

Reversal(c) ==
    CASE c.op = "post" -> <<Drop(<<c.row>>), Put(c.sched, c.before)>>
      [] c.op \in {"skip", "edit"} -> <<Put(c.sched, c.before)>>
      [] c.op = "delete" -> <<Again(c.sched, c.before)>>
      [] c.op = "auto" -> AutoReversal(c.entries)

StartUndo ==
    /\ MayAct
    /\ undoStack # <<>>
    /\ lane' = [how |-> "undo", cmd |-> Last(undoStack), st |-> NotRead,
                todo |-> Reversal(Last(undoStack))]
    /\ UNCHANGED <<sched, rows, ail, today, session, batch, undoStack, redoStack,
                   view, reload, skipped, cut>>

Undoing == lane # Idle /\ lane.how = "undo"

(* A row that is not there, a schedule that is not there, or its recreation*)
(* on a closed account.                                                    *)
Possible(w) ==
    CASE w.do = "drop"  -> Live(Last(w.rows))
      [] w.do = "put"   -> sched[w.sched] # Gone
      [] w.do = "again" -> ail[w.sched] # "closed"

Rest(todo) ==
    IF Head(todo).do = "drop" /\ Len(Head(todo).rows) > 1
    THEN <<Drop(Front(Head(todo).rows))>> \o Tail(todo)
    ELSE Tail(todo)

UndoWrite ==
    /\ Undoing
    /\ LET w == Head(lane.todo) IN
       /\ Possible(w)
       /\ rows' = IF w.do = "drop" THEN [rows EXCEPT ![Last(w.rows)] = NoRow] ELSE rows
       /\ sched' = IF w.do = "drop" THEN sched ELSE [sched EXCEPT ![w.sched] = w.st]
    /\ IF Rest(lane.todo) = <<>>
       THEN /\ lane' = Idle /\ reload' = TRUE
            /\ undoStack' = Front(undoStack)
            /\ redoStack' = Append(redoStack, lane.cmd)
       ELSE /\ lane' = [lane EXCEPT !.todo = Rest(@)]
            /\ UNCHANGED <<undoStack, redoStack, reload>>
    /\ UNCHANGED <<ail, today, session, batch, view, skipped, cut>>

(* The command stays on the undo stack, what it wrote so far stays undone. *)
UndoFail ==
    /\ Undoing
    /\ ~ Possible(Head(lane.todo))
    /\ lane' = Idle
    /\ UNCHANGED <<sched, rows, ail, today, session, batch, undoStack, redoStack,
                   view, reload, skipped, cut>>

----------------------------------------------------------------------------
(* What the rows of a command under undo posted; it is on top of the stack.*)
PostedBy(c) ==
    CASE c.op = "post" -> {Posting(c.sched, c.occ)}
      [] c.op = "auto" ->
            UNION {{Posting(e.sched, e.before.next - 1 + i) : i \in DOMAIN e.rows} :
                   e \in Range(c.entries)}
      [] OTHER -> {}

HalfUndone == IF Undoing THEN PostedBy(lane.cmd) ELSE {}

(* The process ends, anywhere, and the file is opened again.               *)
Restart ==
    /\ session < MaxSession
    /\ session' = session + 1
    /\ batch' = Due /\ lane' = Idle
    /\ undoStack' = <<>> /\ redoStack' = <<>>
    /\ view' = [s \in Schedule |-> Gone] /\ reload' = FALSE
    /\ cut' = cut \cup HalfUndone
    /\ UNCHANGED <<sched, rows, ail, today, skipped>>

Tick ==
    /\ today < MaxDay
    /\ today' = today + 1
    /\ UNCHANGED <<sched, rows, ail, session, batch, lane, undoStack, redoStack,
                   view, reload, skipped, cut>>

Init ==
    /\ sched = Template
    /\ rows = [r \in RowId |-> NoRow]
    /\ ail \in [Schedule -> Trouble]
    /\ today = 0 /\ session = 1
    /\ batch = Due /\ lane = Idle
    /\ undoStack = <<>> /\ redoStack = <<>>
    /\ view = [s \in Schedule |-> Gone] /\ reload = FALSE
    /\ skipped = {} /\ cut = {}

AutoStep == AutoList \/ AutoCandidate \/ AutoFinish
Work == Check \/ Commit \/ Refuse \/ UndoWrite \/ UndoFail

Next ==
    \/ AutoStep \/ Work
    \/ LoadView \/ Execute \/ Redo \/ RedoAuto \/ StartUndo
    \/ Tick \/ Restart

(* A goroutine that was started runs on: the batch and a command in the    *)
(* lane.  Nobody has to open a view, issue a command or wait for a day.    *)
Spec == Init /\ [][Next]_vars /\ WF_vars(AutoStep) /\ WF_vars(Work)

----------------------------------------------------------------------------
(* Properties.                                                             *)

(* No schedule runs below zero occurrences, every row was posted by a      *)
(* schedule, and what runs and waits is made of stored schedules.          *)
TypeOK ==
    /\ \A s \in Schedule : {sched[s], view[s]} \subseteq Kept \cup {Gone}
    /\ \A r \in RowId : Live(r) => rows[r].sched \in Schedule /\ rows[r].occ \in Nat
    /\ batch \in {Due, Done} \/ \A c \in batch.todo : c.sched \in AutoPosting /\ c.st \in Kept
    /\ lane = Idle \/ lane.how \in {"do", "redo", "undo"}
    /\ \A c \in Range(undoStack) \cup Range(redoStack) : c.op = "auto" \/ c.before \in Kept

(* No occurrence is posted twice (scheduled/posting.go, postManually): not *)
(* by a crash between the post and the advance, not by an undo that a      *)
(* crash cuts short, not by a second session catching up, not by an edit   *)
(* or a redo that brings an earlier date back.  This is so for a user who  *)
(* waits (Early = {}); MCStaleView.cfg has one who does not.               *)
PostedOnce ==
    \A p, q \in RowId : Live(p) /\ Live(q) /\ rows[p] = rows[q] => p = q

(* An occurrence the schedule has passed was posted, or passed over on     *)
(* purpose, unless its undo is under way or was cut short by a crash.  For *)
(* a user who waits, as well (MCBatchRedo.cfg).                            *)
NothingMissed ==
    \A s \in Schedule : sched[s] # Gone =>
        \A o \in Template[s].next .. sched[s].next - 1 :
            \/ \E r \in RowId : Live(r) /\ rows[r] = Posting(s, o)
            \/ Posting(s, o) \in skipped \cup cut \cup HalfUndone

(* What a command on top of the undo stack wrote is still there to be      *)
(* taken back, whatever was undone and redone since.  Left out are the     *)
(* batch, whose redo does nothing, and a delete on a closed account, which *)
(* Create refuses to take back.                                            *)
UndoReady ==
    lane = Idle /\ undoStack # <<>> =>
        LET c == Last(undoStack) IN
        \/ c.op = "auto" \/ (c.op = "delete" /\ ail[c.sched] = "closed")
        \/ \A w \in Range(Reversal(c)) : Possible(w)

(* What is due when the file is opened gets posted, however many schedules *)
(* are on closed accounts, as long as no posting is refused outright: that *)
(* ends the batch for all.                                                 *)
CaughtUp ==
    \A s \in AutoPosting, d \in 0 .. MaxDay :
        /\ batch = Due /\ today = d
        /\ sched[s] # Gone /\ AutoPostDue(s, sched[s], d)
        /\ ail[s] = "none" /\ \A x \in Schedule : ail[x] # "refused"
        ~> sched[s] = Gone \/ ~ AutoPostDue(s, sched[s], d)
=============================================================================
