---------------------------- MODULE UndoTimeline ----------------------------
(***************************************************************************)
(* The undo history with two history variables, which remember what the    *)
(* user saw before each command on the undo stack and after each command   *)
(* on the redo stack, so that the history can be compared with Timeline.   *)
(***************************************************************************)
EXTENDS UndoHistory

VARIABLES past, future

hvars == <<rows, open, minted, undoStack, redoStack, menu, past, future>>

Present == {rows[r].tid : r \in {x \in RowId : Live(x)}}

(* How many transfers look alike, when Look(r) is what one sees of a leg.  *)
(* Neither rows nor transfers are told apart by their identifiers, which   *)
(* the user never sees.                                                    *)
Tally(Look(_)) ==
    LET face(t) == {Look(r) : r \in Legs(t)} IN
    [x \in {face(t) : t \in Present} |-> Cardinality({t \in Present : face(t) = x})]

Money == [open  |-> open,
          moved |-> Tally(LAMBDA r : <<rows[r].acct, rows[r].amount, rows[r].status = "void">>)]
MarksSeen == Tally(LAMBDA r : <<rows[r].acct, rows[r].amount, rows[r].status>>)

View == [money |-> Money, marks |-> MarksSeen]

HInit == Init /\ past = <<>> /\ future = <<>>

HExecute ==
    /\ \E c \in Offered : c.op \in menu.kinds /\ Execute(c)
    /\ past' = Append(past, View)
    /\ future' = SubSeq(future, 1, Len(redoStack'))

HUndo == Undo /\ past' = Front(past) /\ future' = Append(future, View)
HRedo == Redo /\ past' = Append(past, View) /\ future' = Front(future)
HClear == Clear /\ past' = <<>> /\ future' = <<>>

HNext == (HExecute \/ HUndo \/ HRedo \/ HClear) /\ UNCHANGED menu

HSpec == HInit /\ [][HNext]_hvars

----------------------------------------------------------------------------
Line == INSTANCE Timeline WITH
    past   <- [i \in DOMAIN past |-> past[i].money],
    now    <- Money,
    future <- [i \in DOMAIN future |-> future[i].money]

(* As far as money and open accounts go, the history is a timeline: undo   *)
(* leads exactly to what was there before the command, redo exactly to     *)
(* what was there after it, whatever was undone and redone in between and  *)
(* whatever rows the transfers live in by now.                             *)
KeepsATimeline == Line!Spec

(* Undo restores the state before an edit and the full data of a deleted   *)
(* transfer (specs/undo-redo.md, "Before/After State"), the cleared marks  *)
(* of its two legs included.                                               *)
UndoRestoresMarks ==
    [][undoStack # <<>> /\ undoStack' = Front(undoStack) /\ redoStack' # redoStack /\ redoStack' # <<>>
       => MarksSeen' = Last(past).marks]_hvars
=============================================================================
