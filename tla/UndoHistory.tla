---------------------------- MODULE UndoHistory ----------------------------
(***************************************************************************)
(* The undo history of one terminal session (src/internal/undo) over the   *)
(* transfers of two or more bank accounts, the marks a reconciliation      *)
(* makes, and the closing of accounts.                                     *)
(*                                                                         *)
(* A command keeps what its own undo will need: the identifier it drew,    *)
(* the values it overwrote, snapshots of rows.  Redo runs the same command *)
(* object again.  The manager's mutex is held for a command's whole run    *)
(* and nothing else writes these rows, so a run is one step here; what the *)
(* database does inside one is the subject of Transfers.  A run that fails *)
(* leaves the database and both stacks as they were: it is a stuttering    *)
(* step.  Date, memo and category follow the amount and stand in it.       *)
(***************************************************************************)
EXTENDS Integers, FiniteSets, SequencesExt

CONSTANTS
    Account,      \* bank accounts, every opening balance zero
    RowId,        \* identifiers of rows, drawn in order
    TransferId,   \* identifiers of transfers, drawn in order
    Amount,       \* positive magnitudes a user may enter
    NoTransfer,   \* the identifier a create command holds before it runs
    NoStatus,     \* the status a mark command holds before it runs
    Unused, Deleted,
    Menus,        \* bound: what the user of a session does, a set of menus
    MaxDepth      \* bound: commands on both stacks together

Kind == {"create", "edit", "delete", "void", "mark", "finish", "close", "reopen",
         "clear"}

ASSUME HistoryAssumption ==
    /\ RowId \subseteq Nat /\ IsFiniteSet(RowId) /\ TransferId \subseteq Nat
    /\ NoTransfer \notin TransferId
    /\ Amount \subseteq Nat \ {0}
    /\ Menus \subseteq [kinds : SUBSET Kind, amounts : SUBSET Amount]
    /\ MaxDepth \in Nat

Status == {"uncleared", "cleared", "reconciled", "void"}
Signed == {0} \cup Amount \cup {-m : m \in Amount}

Row == [tid : TransferId, acct : Account, amount : Signed, status : Status]

ASSUME RowAssumption ==
    Unused \notin Row /\ Deleted \notin Row /\ Unused # Deleted

(* No command keeps the status of a reconciled row: the services refuse    *)
(* to write such a row.                                                    *)
Kept == Status \ {"reconciled"}

TransferSpec == [from : Account, to : Account, amount : Signed, status : Kept]

Snapshot == [row : RowId, amount : Signed, status : Kept]

(* The status and amount an edit writes to both legs.                      *)
Values == [amount : Signed, status : Kept]

VARIABLES
    rows,       \* the register: a row, Unused or Deleted per identifier
    open,       \* the accounts that are not closed
    minted,     \* the transfer identifiers drawn so far
    undoStack, redoStack,
    menu        \* bound: the commands and the amounts of this session

vars == <<rows, open, minted, undoStack, redoStack, menu>>

Live(r) == rows[r] \notin {Unused, Deleted}
Legs(t) == {r \in RowId : Live(r) /\ rows[r].tid = t}
Marks(S) == {rows[r].status : r \in S}

(* Get's order of the two legs: the negative one sends; the row identifier *)
(* decides when both are zero.                                             *)
IsTransfer(t, f, o) ==
    /\ f # o
    /\ Legs(t) = {f, o}
    /\ rows[f].amount < 0 \/ (rows[o].amount >= 0 /\ f < o)

GuardSpec(s) ==
    /\ s.amount > 0
    /\ s.from # s.to
    /\ {s.from, s.to} \subseteq open
    /\ s.status # "void"

Balance(a) ==
    MapThenSumSet(LAMBDA r : rows[r].amount, {r \in RowId : Live(r) /\ rows[r].acct = a})

Lowest(S) == CHOOSE x \in S : \A y \in S : x <= y

FreshRows   == {r \in RowId : rows[r] = Unused}
FreshFrom   == Lowest(FreshRows)
FreshTo     == Lowest(FreshRows \ {FreshFrom})
NewTransfer == Lowest(TransferId \ minted)

(* The register with both legs of spec s under transfer t in new rows.     *)
WithPair(t, s) ==
    [rows EXCEPT
        ![FreshFrom] = [tid |-> t, acct |-> s.from, amount |-> -s.amount, status |-> s.status],
        ![FreshTo]   = [tid |-> t, acct |-> s.to, amount |-> s.amount, status |-> s.status]]

WithValues(f, o, v) ==
    [rows EXCEPT ![f] = [@ EXCEPT !.amount = -v.amount, !.status = v.status],
                 ![o] = [@ EXCEPT !.amount = v.amount, !.status = v.status]]

SnapshotOf(r) == [row |-> r, amount |-> rows[r].amount, status |-> rows[r].status]

(* What a command keeps of a transfer: the amount and the status of the    *)
(* sending leg, for both.                                                  *)
ValuesOf(f, o) == [amount |-> rows[o].amount, status |-> rows[f].status]

----------------------------------------------------------------------------
(* A command runs, for the first time or again, and lands on the undo      *)
(* stack with what it captured.                                            *)

Ran(c) == undoStack' = Append(undoStack, c)

RunCreate(c) ==
    /\ c.op = "create"
    /\ GuardSpec(c.spec)
    /\ Cardinality(FreshRows) >= 2 /\ TransferId # minted
    /\ rows' = WithPair(NewTransfer, c.spec)
    /\ minted' = minted \cup {NewTransfer}
    /\ Ran([c EXCEPT !.tid = NewTransfer])
    /\ UNCHANGED open

(* What Update asks of the transfer and of what is to be written.          *)
MayUpdate(t, f, o, v) ==
    /\ IsTransfer(t, f, o)
    /\ Marks({f, o}) \cap {"reconciled", "void"} = {}
    /\ GuardSpec([from |-> rows[f].acct, to |-> rows[o].acct,
                  amount |-> v.amount, status |-> v.status])

(* Update, of a run or of an undo.                                         *)
UpdateLegs(t, f, o, v) ==
    /\ MayUpdate(t, f, o, v)
    /\ rows' = WithValues(f, o, v)
    /\ UNCHANGED <<open, minted>>

(* Mutant of RunEdit: a half-reconciled transfer is not protected.         *)
RunEditReconciled(c) ==
    /\ c.op = "edit"
    /\ \E f, o \in Legs(c.tid) :
          /\ IsTransfer(c.tid, f, o)
          /\ rows' = WithValues(f, o, c.values)
          /\ Ran([c EXCEPT !.before = ValuesOf(f, o)])
    /\ UNCHANGED <<open, minted>>

(* Mutant of RunEdit: the values are captured after the write.             *)
RunEditCapturesAfter(c) ==
    /\ c.op = "edit"
    /\ \E f, o \in Legs(c.tid) : UpdateLegs(c.tid, f, o, c.values)
    /\ Ran([c EXCEPT !.before = c.values])

RunEdit(c) ==
    /\ c.op = "edit"
    /\ \E f, o \in Legs(c.tid) :
          /\ UpdateLegs(c.tid, f, o, c.values)
          /\ Ran([c EXCEPT !.before = ValuesOf(f, o)])

MayDelete(t, f, o) == IsTransfer(t, f, o) /\ "reconciled" \notin Marks({f, o})

(* Delete, of a run or of an undo.                                         *)
DeleteLegs(t, f, o) ==
    /\ MayDelete(t, f, o)
    /\ rows' = [rows EXCEPT ![f] = Deleted, ![o] = Deleted]
    /\ UNCHANGED <<open, minted>>

RunDelete(c) ==
    /\ c.op = "delete"
    /\ \E f, o \in Legs(c.tid) :
          /\ DeleteLegs(c.tid, f, o)
          /\ Ran([c EXCEPT !.spec =
                [from |-> rows[f].acct, to |-> rows[o].acct,
                 amount |-> rows[o].amount, status |-> rows[f].status]])

(* Mutant of RunVoid: only the sending leg is struck.                      *)
RunVoidOneLeg(c) ==
    /\ c.op = "void"
    /\ \E f, o \in Legs(c.tid) :
          /\ IsTransfer(c.tid, f, o)
          /\ Marks({f, o}) \cap {"reconciled", "void"} = {}
          /\ rows' = [rows EXCEPT ![f] = [@ EXCEPT !.amount = 0, !.status = "void"]]
          /\ Ran([c EXCEPT !.snapshots = @ \o <<SnapshotOf(f), SnapshotOf(o)>>])
    /\ UNCHANGED <<open, minted>>

(* The snapshots are appended to those of an earlier run.                  *)
RunVoid(c) ==
    /\ c.op = "void"
    /\ \E f, o \in Legs(c.tid) :
          /\ IsTransfer(c.tid, f, o)
          /\ Marks({f, o}) \cap {"reconciled", "void"} = {}
          /\ rows' = [rows EXCEPT ![f] = [@ EXCEPT !.amount = 0, !.status = "void"],
                                  ![o] = [@ EXCEPT !.amount = 0, !.status = "void"]]
          /\ Ran([c EXCEPT !.snapshots = @ \o <<SnapshotOf(f), SnapshotOf(o)>>])
    /\ UNCHANGED <<open, minted>>

(* SetLegStatus, of a run or of an undo.                                   *)
SetLegStatus(r, s) ==
    /\ Live(r)
    /\ s # "void"
    /\ rows[r].status # "reconciled"
    /\ rows' = [rows EXCEPT ![r].status = s]
    /\ UNCHANGED <<open, minted>>

RunMark(c) ==
    /\ c.op = "mark"
    /\ SetLegStatus(c.row, c.status)
    /\ Ran([c EXCEPT !.before = rows[c.row].status])

(* Only the rows that were not reconciled are remembered.                  *)
RunFinish(c) ==
    /\ c.op = "finish"
    /\ \A r \in c.rows : Live(r) /\ rows[r].status # "void"
    /\ rows' = [r \in RowId |-> IF r \in c.rows
                                THEN [rows[r] EXCEPT !.status = "reconciled"] ELSE rows[r]]
    /\ Ran([c EXCEPT !.before =
          {SnapshotOf(r) : r \in {x \in c.rows : rows[x].status # "reconciled"}}])
    /\ UNCHANGED <<open, minted>>

RunClose(c) ==
    /\ c.op = "close"
    /\ c.acct \in open
    /\ Balance(c.acct) = 0
    /\ open' = open \ {c.acct}
    /\ Ran(c)
    /\ UNCHANGED <<rows, minted>>

RunReopen(c) ==
    /\ c.op = "reopen"
    /\ c.acct \notin open
    /\ open' = open \cup {c.acct}
    /\ Ran(c)
    /\ UNCHANGED <<rows, minted>>

Run(c) ==
    \/ RunCreate(c) \/ RunEdit(c) \/ RunDelete(c) \/ RunVoid(c)
    \/ RunMark(c) \/ RunFinish(c) \/ RunClose(c) \/ RunReopen(c)

----------------------------------------------------------------------------
(* A command is undone.                                                    *)

(* Deleting what the command created.                                      *)
UndoCreate(c) ==
    /\ c.op = "create"
    /\ \E f, o \in Legs(c.tid) : DeleteLegs(c.tid, f, o)

UndoEdit(c) ==
    /\ c.op = "edit"
    /\ \E f, o \in Legs(c.tid) : UpdateLegs(c.tid, f, o, c.before)

(* Mutant of UndoDelete: the transfer comes back under a new identifier.   *)
UndoDeleteRenamed(c) ==
    /\ c.op = "delete"
    /\ GuardSpec(c.spec)
    /\ Cardinality(FreshRows) >= 2 /\ TransferId # minted
    /\ rows' = WithPair(NewTransfer, c.spec)
    /\ minted' = minted \cup {NewTransfer}
    /\ UNCHANGED open

(* Both legs again, under the old transfer identifier, in new rows.        *)
UndoDelete(c) ==
    /\ c.op = "delete"
    /\ GuardSpec(c.spec)
    /\ Cardinality(FreshRows) >= 2
    /\ rows' = WithPair(c.tid, c.spec)
    /\ UNCHANGED <<open, minted>>

(* Restore takes exactly two snapshots, of the transfer's own rows, and    *)
(* writes them one after the other.                                        *)
UndoVoid(c) ==
    /\ c.op = "void"
    /\ Len(c.snapshots) = 2
    /\ Cardinality(Legs(c.tid)) = 2
    /\ \A i \in 1..2 : c.snapshots[i].row \in Legs(c.tid)
    /\ rows' = [r \in RowId |->
          IF \E i \in 1..2 : c.snapshots[i].row = r
          THEN LET k == c.snapshots[IF c.snapshots[2].row = r THEN 2 ELSE 1] IN
               [rows[r] EXCEPT !.amount = k.amount, !.status = k.status]
          ELSE rows[r]]
    /\ UNCHANGED <<open, minted>>

UndoMark(c) == c.op = "mark" /\ SetLegStatus(c.row, c.before)

(* Rows that are no longer reconciled are skipped.                         *)
UndoFinish(c) ==
    /\ c.op = "finish"
    /\ \A k \in c.before : Live(k.row)
    /\ rows' = [r \in RowId |->
          LET mine == {k \in c.before : k.row = r} IN
          IF mine = {} \/ rows[r].status # "reconciled" THEN rows[r]
          ELSE [rows[r] EXCEPT !.status = (CHOOSE k \in mine : TRUE).status]]
    /\ UNCHANGED <<open, minted>>

(* Reopen, and RestoreClosed, which asks nothing.                          *)
UndoClose(c) ==
    /\ c.op = "close" /\ c.acct \notin open
    /\ open' = open \cup {c.acct}
    /\ UNCHANGED <<rows, minted>>

(* Mutant of UndoReopen: the account stays open.                           *)
UndoReopenNothing(c) == c.op = "reopen" /\ UNCHANGED <<rows, open, minted>>

UndoReopen(c) ==
    /\ c.op = "reopen"
    /\ open' = open \ {c.acct}
    /\ UNCHANGED <<rows, minted>>

Revert(c) ==
    \/ UndoCreate(c) \/ UndoEdit(c) \/ UndoDelete(c) \/ UndoVoid(c)
    \/ UndoMark(c) \/ UndoFinish(c) \/ UndoClose(c) \/ UndoReopen(c)

----------------------------------------------------------------------------
(* The manager.                                                            *)

Execute(c) ==
    /\ Len(undoStack) < MaxDepth
    /\ Run(c)
    /\ redoStack' = <<>>

Undo ==
    /\ undoStack # <<>>
    /\ Revert(Last(undoStack))
    /\ undoStack' = Front(undoStack)
    /\ redoStack' = Append(redoStack, Last(undoStack))

Redo ==
    /\ redoStack # <<>>
    /\ Run(Last(redoStack))
    /\ redoStack' = Front(redoStack)

(* After a restore, a move to the other ledger, or at the end of the       *)
(* session.                                                                *)
Clear ==
    /\ "clear" \in menu.kinds
    /\ undoStack' = <<>> /\ redoStack' = <<>>
    /\ UNCHANGED <<rows, open, minted>>

(* The commands the register, the dialogs and the sidebar issue.  They     *)
(* show the rows as they are: a void or reconciled row offers no delete,   *)
(* no void and no mark, and a mark toggles.                                *)
Toggled(s) == IF s = "cleared" THEN "uncleared" ELSE "cleared"

Mutable == {r \in RowId : Live(r) /\ rows[r].status \in {"uncleared", "cleared"}}
Here    == {rows[r].tid : r \in Mutable}

Offered ==
           [op : {"create"}, tid : {NoTransfer},
            spec : [from : Account, to : Account, amount : menu.amounts, status : {"uncleared"}]]
      \cup [op : {"edit"}, tid : Here, before : {<<>>},
            values : [amount : menu.amounts, status : {"uncleared", "cleared"}]]
      \cup [op : {"delete"}, tid : Here, spec : {<<>>}]
      \cup [op : {"void"}, tid : Here, snapshots : {<<>>}]
      \cup {[op |-> "mark", row |-> r, status |-> Toggled(rows[r].status),
             before |-> NoStatus] : r \in Mutable}
      \cup (UNION {[op : {"finish"}, before : {{}},
                    rows : (SUBSET {r \in Mutable : rows[r].acct = a}) \ {{}}] : a \in Account})
      \cup [op : {"close", "reopen"}, acct : Account]

Init ==
    /\ rows = [r \in RowId |-> Unused]
    /\ open = Account
    /\ minted = {}
    /\ undoStack = <<>> /\ redoStack = <<>>
    /\ menu \in Menus

Next ==
    /\ \/ \E c \in Offered : c.op \in menu.kinds /\ Execute(c)
       \/ Undo
       \/ Redo
       \/ Clear
    /\ UNCHANGED menu

Spec == Init /\ [][Next]_vars

----------------------------------------------------------------------------
(* Properties.                                                             *)

(* What a command may hold once it has run.                                *)
Held ==
         [op : {"create"}, tid : TransferId, spec : TransferSpec]
    \cup [op : {"edit"}, tid : TransferId, values : Values, before : Values]
    \cup [op : {"delete"}, tid : TransferId, spec : TransferSpec]
    \cup [op : {"void"}, tid : TransferId, snapshots : Seq(Snapshot)]
    \cup [op : {"mark"}, row : RowId, status : Kept, before : Kept]
    \cup [op : {"finish"}, rows : SUBSET RowId, before : SUBSET Snapshot]
    \cup [op : {"close", "reopen"}, acct : Account]

TypeOK ==
    /\ rows \in [RowId -> Row \cup {Unused, Deleted}]
    /\ open \subseteq Account
    /\ minted \subseteq TransferId
    /\ menu \in Menus
    /\ undoStack \in Seq(Held) /\ redoStack \in Seq(Held)

(* What the undo of a create, an edit, a finished reconciliation or a      *)
(* closed or reopened account asks of the books.                           *)
Revertible(c) ==
    CASE c.op = "create" -> \E f, o \in Legs(c.tid) : MayDelete(c.tid, f, o)
      [] c.op = "edit"   -> \E f, o \in Legs(c.tid) : MayUpdate(c.tid, f, o, c.before)
      [] c.op = "finish" -> \A k \in c.before : Live(k.row)
      [] c.op = "close"  -> c.acct \notin open
      [] c.op = "reopen" -> TRUE

(* Undo addresses the transfer it was recorded for: a create or an edit on *)
(* top of the stack can always be taken back, and so can a finished        *)
(* reconciliation and a closed or reopened account, although transfers     *)
(* have been deleted and recreated in other rows since, accounts closed,   *)
(* and marks set.                                                          *)
UndoReady ==
    undoStack # <<>> /\ Last(undoStack).op \in {"create", "edit", "finish", "close", "reopen"}
    => Revertible(Last(undoStack))

(* The snapshots of a void on top of the stack describe the rows the       *)
(* transfer has now, and those are as the void left them: a restore never  *)
(* revives a row that was deleted or overwrites one that counts.           *)
VoidSnapshotFits ==
    undoStack # <<>> /\ Last(undoStack).op = "void" =>
        LET c == Last(undoStack) IN
        /\ {k.row : k \in Range(c.snapshots)} = Legs(c.tid)
        /\ Marks(Legs(c.tid)) = {"void"}

(* Only finishing a reconciliation marks a row reconciled and only undoing *)
(* it takes the mark off; no undo or redo of anything else passes through  *)
(* the lock, or brings back a mark from a snapshot.                        *)
ReconciledOnlyByFinish ==
    [][\A r \in RowId :
          LET was == Live(r) /\ rows[r].status = "reconciled"
              is  == Live(r)' /\ rows'[r].status = "reconciled"
          IN /\ is /\ ~ was => Last(undoStack').op = "finish"
             /\ was => Live(r)' /\ rows'[r].amount = rows[r].amount
             /\ was /\ ~ is => Last(undoStack).op = "finish"
      ]_vars

(* An undone void can be redone and undone again (specs/undo-redo.md,      *)
(* "Stack Behavior"): a void on top of the stack can be taken back.        *)
VoidReady ==
    undoStack # <<>> /\ Last(undoStack).op = "void" => ENABLED Revert(Last(undoStack))

(* What was undone can be re-applied (specs/undo-redo.md, "Overview"), as  *)
(* long as identifiers are left to draw.                                   *)
RedoReady ==
    /\ redoStack # <<>> /\ minted # TransferId /\ Cardinality(FreshRows) >= 2
    => ENABLED Run(Last(redoStack))
=============================================================================
