----------------------------- MODULE UndoProofs -----------------------------
(***************************************************************************)
(* Proofs about UndoHistory, for any accounts, identifiers, amounts, menus *)
(* and depth.                                                              *)
(*                                                                         *)
(* The undo stack followed by the redo stack, its latest entry first, is   *)
(* one line of commands in the order they were first run.  The argument is *)
(* about that line: after a delete or a void of a transfer no later        *)
(* command deletes, voids or creates that transfer, or marks a row a void  *)
(* has struck, because each of them was asked for on a register that did   *)
(* not show it.  Undo and redo move along the line, so that nothing but    *)
(* its own undo touches what a void has struck.                            *)
(*                                                                         *)
(* That a create, an edit, a finish or a close on top of the stack can be  *)
(* taken back needs what each of them can count on further down: whatever  *)
(* stands in its way, a leg deleted, struck or locked or an account closed *)
(* or reopened, was put there by a command above it, whose own undo comes  *)
(* first and takes it away again.                                          *)
(***************************************************************************)
EXTENDS UndoTimeline, TLAPS, FiniteSetTheorems, WellFoundedInduction

(* The rows a void command would restore.                                  *)
Restored(c) == {c.snapshots[i].row : i \in DOMAIN c.snapshots}

(* What command c did is not what the later command d works on.            *)
Spares(c, d) ==
    /\ c.op \in {"delete", "void"} /\ d.op \in {"create", "delete", "void"} => d.tid # c.tid
    /\ c.op = "void" /\ d.op = "mark" => d.row \notin Restored(c)

InOrder ==
    /\ \A i, j \in DOMAIN undoStack : i < j => Spares(undoStack[i], undoStack[j])
    /\ \A i \in DOMAIN undoStack : \A j \in DOMAIN redoStack : Spares(undoStack[i], redoStack[j])
    /\ \A i, j \in DOMAIN redoStack : i < j => Spares(redoStack[j], redoStack[i])

(* A transfer in use was drawn, so that a create never draws it again.     *)
Removes(c) == c.op \in {"delete", "void"}

Drawn ==
    /\ \A r \in RowId : Live(r) => rows[r].tid \in minted
    /\ \A i \in DOMAIN undoStack : Removes(undoStack[i]) => undoStack[i].tid \in minted
    /\ \A i \in DOMAIN redoStack : Removes(redoStack[i]) => redoStack[i].tid \in minted

(* What is done shows in the rows; what is undone can be done again there, *)
(* or its transfer is gone.                                                *)
Struck(t) == \A r \in Legs(t) : rows[r].status = "void"

Shows(c) ==
    /\ c.op = "delete" => Legs(c.tid) = {}
    /\ c.op = "void" => /\ Restored(c) = Legs(c.tid) /\ Legs(c.tid) # {}
                       /\ Struck(c.tid)

MayReturn(c) == c.op = "void" => Legs(c.tid) \in {{}, Restored(c)}

DoneFits   == \A i \in DOMAIN undoStack : Shows(undoStack[i])
UndoneFits == \A i \in DOMAIN redoStack : MayReturn(redoStack[i])

UInv == TypeOK /\ InOrder /\ Drawn /\ DoneFits /\ UndoneFits

----------------------------------------------------------------------------
(* Identifiers.                                                            *)

LEMMA FiniteLeast ==
    ASSUME NEW T \in SUBSET Nat, IsFiniteSet(T), T # {}
    PROVE  \E e \in T : \A m \in T : ~(m < e)
<1> DEFINE Below(x) == {m \in T : m < x}
           D == {Below(x) : x \in T}
<1>1. D \subseteq FiniteSubsetsOf(T) /\ D # {}
  <2>1. \A U \in D : U \subseteq T
    OBVIOUS
  <2>2. D # {}
    OBVIOUS
  <2> HIDE DEF D
  <2> QED
    BY <2>1, <2>2, FS_Subset DEF FiniteSubsetsOf
<1>2. PICK x \in D : \A y \in D : <<y, x>> \notin StrictSubsetOrdering(T)
  <2> HIDE DEF D
  <2> QED
    BY <1>1, FS_StrictSubsetOrderingWellFounded, WFMin
<1>3. PICK e \in T : x = Below(e)
  OBVIOUS
<1>4. ASSUME NEW m \in T, m < e
      PROVE  FALSE
  <2>1. Below(m) \in D /\ m \in Below(e) /\ m \notin Below(m)
    BY <1>4
  <2>2. Below(m) \subseteq Below(e)
    <3> SUFFICES ASSUME NEW k \in T, k < m PROVE k < e
      OBVIOUS
    <3> k \in Nat /\ m \in Nat /\ e \in Nat
      OBVIOUS
    <3> QED
      BY <1>4
  <2> HIDE DEF D
  <2>3. <<Below(m), x>> \in StrictSubsetOrdering(T)
    BY <1>3, <2>1, <2>2 DEF StrictSubsetOrdering
  <2> QED
    BY <1>2, <2>1, <2>3
<1> QED
  BY <1>4

LEMMA LowestIs ==
    ASSUME NEW S \in SUBSET Nat, S # {}
    PROVE  Lowest(S) \in S
<1>1. PICK n \in S : TRUE
  OBVIOUS
<1> DEFINE T == {m \in S : m <= n}
<1>2. T \subseteq 0..n /\ T \subseteq Nat /\ n \in T
  <2>1. \A m \in S : m \in Nat
    OBVIOUS
  <2>2. \A m \in T : m \in Nat /\ m <= n
    BY <2>1
  <2>3. n \in T
    BY <2>1
  <2> HIDE DEF T
  <2> QED
    BY <2>1, <2>2, <2>3
<1>3. IsFiniteSet(T)
  <2> HIDE DEF T
  <2>1. IsFiniteSet(0..n)
    BY <1>2, FS_Interval
  <2> QED
    BY <1>2, <2>1, FS_Subset
<1>4. PICK e \in T : \A m \in T : ~(m < e)
  <2> HIDE DEF T
  <2> QED
    BY <1>2, <1>3, FiniteLeast
<1>5. e \in S /\ \A y \in S : e <= y
  BY <1>4
<1> QED
  BY <1>5 DEF Lowest

LEMMA FreshTwo ==
    ASSUME Cardinality(FreshRows) >= 2
    PROVE  /\ FreshFrom \in RowId /\ FreshTo \in RowId /\ FreshFrom # FreshTo
           /\ rows[FreshFrom] = Unused /\ rows[FreshTo] = Unused
<1>1. FreshRows \subseteq RowId /\ RowId \subseteq Nat /\ IsFiniteSet(RowId)
  BY HistoryAssumption DEF FreshRows
<1>2. IsFiniteSet(FreshRows) /\ Cardinality(FreshRows) \in Nat
  BY <1>1, FS_Subset, FS_CardinalityType
<1>3. FreshRows # {}
  BY <1>2, FS_EmptySet
<1>4. FreshFrom \in FreshRows
  BY <1>1, <1>3, LowestIs DEF FreshFrom
<1>5. IsFiniteSet(FreshRows \ {FreshFrom}) /\ Cardinality(FreshRows \ {FreshFrom}) >= 1
  BY <1>2, <1>4, FS_RemoveElement
<1>6. FreshRows \ {FreshFrom} # {}
  BY <1>5, FS_EmptySet
<1>7. FreshTo \in FreshRows \ {FreshFrom}
  BY <1>1, <1>6, LowestIs DEF FreshTo
<1> QED
  BY <1>4, <1>7 DEF FreshRows

LEMMA FreshTransfer ==
    ASSUME minted \subseteq TransferId, TransferId # minted
    PROVE  NewTransfer \in TransferId /\ NewTransfer \notin minted
<1>1. TransferId \ minted \in SUBSET Nat /\ TransferId \ minted # {}
  BY HistoryAssumption
<1> QED
  BY <1>1, LowestIs DEF NewTransfer

----------------------------------------------------------------------------
(* Commands.                                                               *)

(* A command before it runs: as the user asks for it, or undone.           *)
Asked ==
         [op : {"create"}, tid : TransferId \cup {NoTransfer}, spec : TransferSpec]
    \cup [op : {"edit"}, tid : TransferId, values : Values, before : Values \cup {<<>>}]
    \cup [op : {"delete"}, tid : TransferId, spec : TransferSpec \cup {<<>>}]
    \cup [op : {"void"}, tid : TransferId, snapshots : Seq(Snapshot)]
    \cup [op : {"mark"}, row : RowId, status : Kept, before : Kept \cup {NoStatus}]
    \cup [op : {"finish"}, rows : SUBSET RowId, before : SUBSET Snapshot]
    \cup [op : {"close", "reopen"}, acct : Account]

LEMMA HeldIsAsked == Held \subseteq Asked
BY DEF Held, Asked

LEMMA AskedKinds ==
    ASSUME NEW c \in Asked
    PROVE  /\ c.op = "create" => c \in [op : {"create"}, tid : TransferId \cup {NoTransfer},
                                       spec : TransferSpec]
           /\ c.op = "edit" => c \in [op : {"edit"}, tid : TransferId, values : Values,
                                     before : Values \cup {<<>>}]
           /\ c.op = "delete" => c \in [op : {"delete"}, tid : TransferId,
                                       spec : TransferSpec \cup {<<>>}]
           /\ c.op = "void" => c \in [op : {"void"}, tid : TransferId,
                                     snapshots : Seq(Snapshot)]
           /\ c.op = "mark" => c \in [op : {"mark"}, row : RowId, status : Kept,
                                     before : Kept \cup {NoStatus}]
           /\ c.op = "finish" => c \in [op : {"finish"}, rows : SUBSET RowId,
                                       before : SUBSET Snapshot]
           /\ c.op \in {"close", "reopen"} => c \in [op : {"close", "reopen"}, acct : Account]
BY DEF Asked

LEMMA HeldKinds ==
    ASSUME NEW c \in Held
    PROVE  /\ c.op = "create" => c \in [op : {"create"}, tid : TransferId, spec : TransferSpec]
           /\ c.op = "edit" => c \in [op : {"edit"}, tid : TransferId, values : Values,
                                     before : Values]
           /\ c.op = "delete" => c \in [op : {"delete"}, tid : TransferId, spec : TransferSpec]
           /\ c.op = "void" => c \in [op : {"void"}, tid : TransferId,
                                     snapshots : Seq(Snapshot)]
           /\ c.op = "mark" => c \in [op : {"mark"}, row : RowId, status : Kept, before : Kept]
           /\ c.op = "finish" => c \in [op : {"finish"}, rows : SUBSET RowId,
                                       before : SUBSET Snapshot]
           /\ c.op \in {"close", "reopen"} => c \in [op : {"close", "reopen"}, acct : Account]
BY DEF Held

RowsOK == rows \in [RowId -> Row \cup {Unused, Deleted}]

(* What a run or an undo may do to one row: nothing, ...                   *)
RowStep(c, r) ==
    LET is == rows[r]
        will == rows'[r]
        live == is \notin {Unused, Deleted} IN
    \/ will = is
    \/ /\ is = Unused /\ will \in Row /\ will.status # "reconciled"
       /\ \/ c.op = "create" /\ will.tid \in minted' \ minted
          \/ c.op = "delete" /\ will.tid = c.tid
    \/ /\ live /\ will = Deleted /\ is.status # "reconciled"
       /\ is.tid = c.tid /\ c.op \in {"create", "delete"}
    \/ /\ live /\ will \in Row /\ will.tid = is.tid /\ will.acct = is.acct
       /\ \/ /\ c.op = "edit" /\ is.status \notin {"void", "reconciled"}
             /\ will.status # "reconciled"
          \/ /\ c.op = "void" /\ is.tid = c.tid /\ is.status # "reconciled"
             /\ will.status # "reconciled"
          \/ c.op = "mark" /\ r = c.row /\ is.status # "reconciled" /\ will.status # "reconciled"
          \/ c.op = "finish" /\ is.status # "void" /\ will.amount = is.amount

LEMMA Negated ==
    ASSUME NEW n \in Signed
    PROVE  -n \in Signed /\ n \in Int
<1>1. CASE n = 0
  <2>1. 0 \in Signed /\ \A k \in Int : k = 0 => -k = 0
    BY DEF Signed
  <2> QED
    BY <1>1, <2>1
<1>2. CASE n \in Amount
  BY <1>2, HistoryAssumption DEF Signed
<1>3. ASSUME NEW m \in Amount, n = -m
      PROVE  -n \in Signed /\ n \in Int
  <2>1. m \in Int /\ -n = m
    BY <1>3, HistoryAssumption
  <2> QED
    BY <1>3, <2>1 DEF Signed
<1> QED
  BY <1>1, <1>2, <1>3 DEF Signed

Rewrite(x, a, m) == [x EXCEPT !.amount = a, !.status = m]

LEMMA Rewritten ==
    ASSUME NEW x \in Row, NEW a \in Signed, NEW m \in Status
    PROVE  /\ Rewrite(x, a, m) \in Row
           /\ Rewrite(x, a, m).tid = x.tid /\ Rewrite(x, a, m).acct = x.acct
           /\ Rewrite(x, a, m).amount = a /\ Rewrite(x, a, m).status = m
BY DEF Row, Rewrite

LEMMA Marked ==
    ASSUME NEW x \in Row, NEW m \in Status
    PROVE  /\ [x EXCEPT !.status = m] \in Row
           /\ [x EXCEPT !.status = m].tid = x.tid
           /\ [x EXCEPT !.status = m].acct = x.acct
           /\ [x EXCEPT !.status = m].amount = x.amount
           /\ [x EXCEPT !.status = m].status = m
BY DEF Row

LEMMA PairRows ==
    ASSUME TypeOK, Cardinality(FreshRows) >= 2, NEW t \in TransferId, NEW s \in TransferSpec,
           rows' = WithPair(t, s)
    PROVE  /\ rows' \in [RowId -> Row \cup {Unused, Deleted}]
           /\ \A r \in RowId : \/ rows'[r] = rows[r]
                               \/ /\ rows[r] = Unused /\ rows'[r] \in Row
                                  /\ rows'[r].tid = t /\ rows'[r].status # "reconciled"
<1> DEFINE out == [tid |-> t, acct |-> s.from, amount |-> -s.amount, status |-> s.status]
           in  == [tid |-> t, acct |-> s.to, amount |-> s.amount, status |-> s.status]
<1>1. s.amount \in Signed /\ -s.amount \in Signed /\ s.status \in Status /\ s.status # "reconciled"
  BY Negated DEF TransferSpec, Kept
<1>2. out \in Row /\ in \in Row /\ out.tid = t /\ in.tid = t /\ out.status # "reconciled"
      /\ in.status # "reconciled"
  BY <1>1 DEF Row, TransferSpec
<1>3. rows' = [rows EXCEPT ![FreshFrom] = out, ![FreshTo] = in]
  BY DEF WithPair
<1> HIDE DEF out, in
<1> QED
  BY <1>2, <1>3, FreshTwo DEF TypeOK

(* Both legs of a transfer rewritten.                                      *)
LEMMA LegsRows ==
    ASSUME TypeOK, NEW f \in RowId, NEW o \in RowId, Live(f), Live(o), f # o,
           NEW a \in Signed, NEW b \in Signed, NEW m \in Status,
           rows' = [rows EXCEPT ![f] = [@ EXCEPT !.amount = a, !.status = m],
                                ![o] = [@ EXCEPT !.amount = b, !.status = m]]
    PROVE  /\ rows' \in [RowId -> Row \cup {Unused, Deleted}]
           /\ \A r \in RowId : IF r \in {f, o}
                THEN /\ rows'[r] \in Row /\ rows'[r].status = m
                     /\ rows'[r].tid = rows[r].tid /\ rows'[r].acct = rows[r].acct
                ELSE rows'[r] = rows[r]
<1>1. rows[f] \in Row /\ rows[o] \in Row
  BY DEF TypeOK, Live
<1>2. rows' = [rows EXCEPT ![f] = Rewrite(rows[f], a, m), ![o] = Rewrite(rows[o], b, m)]
  BY DEF Rewrite
<1> QED
  BY <1>1, <1>2, Rewritten DEF TypeOK

LEMMA VoidRows ==
    ASSUME TypeOK, NEW t, NEW f \in Legs(t), NEW o \in Legs(t), IsTransfer(t, f, o),
           rows' = [rows EXCEPT ![f] = [@ EXCEPT !.amount = 0, !.status = "void"],
                                ![o] = [@ EXCEPT !.amount = 0, !.status = "void"]]
    PROVE  /\ rows' \in [RowId -> Row \cup {Unused, Deleted}]
           /\ \A r \in RowId : IF r \in Legs(t)
                THEN /\ rows'[r] \in Row /\ rows'[r].status = "void"
                     /\ rows'[r].tid = rows[r].tid /\ rows'[r].acct = rows[r].acct
                ELSE rows'[r] = rows[r]
<1>1. f \in RowId /\ o \in RowId /\ Live(f) /\ Live(o) /\ f # o /\ Legs(t) = {f, o}
  BY DEF Legs, IsTransfer
<1>2. 0 \in Signed /\ "void" \in Status
  BY DEF Signed, Status
<1>3. /\ rows' \in [RowId -> Row \cup {Unused, Deleted}]
      /\ \A r \in RowId : IF r \in {f, o}
           THEN /\ rows'[r] \in Row /\ rows'[r].status = "void"
                /\ rows'[r].tid = rows[r].tid /\ rows'[r].acct = rows[r].acct
           ELSE rows'[r] = rows[r]
  BY <1>1, <1>2, LegsRows
<1> QED
  BY <1>1, <1>3

LEMMA UpdateRows ==
    ASSUME TypeOK, NEW t \in TransferId, NEW f \in Legs(t), NEW o \in Legs(t), NEW v \in Values,
           UpdateLegs(t, f, o, v)
    PROVE  /\ rows' \in [RowId -> Row \cup {Unused, Deleted}]
           /\ \A r \in RowId :
                \/ rows'[r] = rows[r]
                \/ /\ Live(r) /\ rows'[r] \in Row /\ rows'[r].status # "reconciled"
                   /\ rows'[r].tid = rows[r].tid /\ rows'[r].acct = rows[r].acct
                   /\ rows[r].status \notin {"void", "reconciled"}
<1>1. f \in RowId /\ o \in RowId /\ Live(f) /\ Live(o) /\ f # o
  BY DEF Legs, UpdateLegs, MayUpdate, IsTransfer
<1>2. v.amount \in Signed /\ -v.amount \in Signed /\ v.status \in Status /\ v.status # "reconciled"
  BY Negated DEF Values, Kept
<1>3. rows' = [rows EXCEPT ![f] = [@ EXCEPT !.amount = -v.amount, !.status = v.status],
                           ![o] = [@ EXCEPT !.amount = v.amount, !.status = v.status]]
  BY DEF UpdateLegs, MayUpdate, WithValues
<1>4. \A r \in {f, o} : rows[r].status \notin {"void", "reconciled"}
  BY DEF UpdateLegs, MayUpdate, Marks
<1>5. /\ rows' \in [RowId -> Row \cup {Unused, Deleted}]
      /\ \A r \in RowId : IF r \in {f, o}
           THEN /\ rows'[r] \in Row /\ rows'[r].status = v.status
                /\ rows'[r].tid = rows[r].tid /\ rows'[r].acct = rows[r].acct
           ELSE rows'[r] = rows[r]
  BY <1>1, <1>2, <1>3, LegsRows
<1> QED
  BY <1>1, <1>2, <1>4, <1>5

LEMMA RunRows ==
    ASSUME TypeOK, NEW c \in Asked, Run(c)
    PROVE  rows' \in [RowId -> Row \cup {Unused, Deleted}] /\ \A r \in RowId : RowStep(c, r)
<1> USE RowAssumption
<1>1. CASE RunCreate(c)
  BY <1>1, PairRows, FreshTransfer, AskedKinds DEF RunCreate, RowStep, TypeOK
<1>2. CASE RunEdit(c)
  <2>1. PICK f, o \in Legs(c.tid) : UpdateLegs(c.tid, f, o, c.values)
    BY <1>2 DEF RunEdit
  <2>2. c.op = "edit" /\ c.values \in Values /\ c.tid \in TransferId
    BY <1>2, AskedKinds DEF RunEdit
  <2> QED
    BY <2>1, <2>2, UpdateRows DEF RowStep, Live
<1>3. CASE RunDelete(c)
  BY <1>3, AskedKinds DEF RunDelete, DeleteLegs, MayDelete, IsTransfer, Legs, Live, Marks,
                          RowStep, TypeOK
<1>4. CASE RunVoid(c)
  <2>1. PICK f, o \in Legs(c.tid) :
          /\ IsTransfer(c.tid, f, o)
          /\ Marks({f, o}) \cap {"reconciled", "void"} = {}
          /\ rows' = [rows EXCEPT ![f] = [@ EXCEPT !.amount = 0, !.status = "void"],
                                  ![o] = [@ EXCEPT !.amount = 0, !.status = "void"]]
    BY <1>4 DEF RunVoid
  <2>2. c.op = "void" /\ Legs(c.tid) = {f, o}
    BY <1>4, <2>1 DEF IsTransfer, RunVoid
  <2>3. \A r \in Legs(c.tid) : Live(r) /\ rows[r].tid = c.tid /\ rows[r].status # "reconciled"
    BY <2>1, <2>2 DEF Legs, Marks
  <2>4. /\ rows' \in [RowId -> Row \cup {Unused, Deleted}]
        /\ \A r \in RowId : IF r \in Legs(c.tid)
             THEN /\ rows'[r] \in Row /\ rows'[r].status = "void"
                  /\ rows'[r].tid = rows[r].tid /\ rows'[r].acct = rows[r].acct
             ELSE rows'[r] = rows[r]
    BY <2>1, VoidRows
  <2> QED
    BY <2>2, <2>3, <2>4 DEF RowStep, Live
<1>5. CASE RunMark(c)
  <2>1. /\ c.op = "mark" /\ c.row \in RowId /\ c.status \in Status /\ c.status # "reconciled"
        /\ Live(c.row) /\ rows[c.row].status # "reconciled" /\ rows[c.row] \in Row
        /\ rows' = [rows EXCEPT ![c.row] = [rows[c.row] EXCEPT !.status = c.status]]
    BY <1>5, AskedKinds DEF RunMark, SetLegStatus, Live, Kept, TypeOK
  <2> QED
    BY <2>1, Marked DEF RowStep, Live, TypeOK
<1>6. CASE RunFinish(c)
  <2>1. /\ c.op = "finish" /\ \A r \in c.rows : Live(r) /\ rows[r].status # "void"
        /\ rows' = [r \in RowId |-> IF r \in c.rows
                                    THEN [rows[r] EXCEPT !.status = "reconciled"] ELSE rows[r]]
    BY <1>6 DEF RunFinish
  <2>2. "reconciled" \in Status
    BY DEF Status
  <2>3. \A r \in RowId : Live(r) => rows[r] \in Row
    BY DEF TypeOK, Live
  <2> QED
    BY <2>1, <2>2, <2>3, Marked DEF RowStep, Live, TypeOK
<1>7. CASE RunClose(c) \/ RunReopen(c)
  BY <1>7 DEF RunClose, RunReopen, RowStep, TypeOK
<1> QED
  BY <1>1, <1>2, <1>3, <1>4, <1>5, <1>6, <1>7 DEF Run

LEMMA RevertRows ==
    ASSUME TypeOK, NEW c \in Held, Revert(c), c.op = "void" => Shows(c)
    PROVE  rows' \in [RowId -> Row \cup {Unused, Deleted}] /\ \A r \in RowId : RowStep(c, r)
<1> USE RowAssumption
<1>1. CASE UndoCreate(c)
  BY <1>1, HeldKinds DEF UndoCreate, DeleteLegs, MayDelete, IsTransfer, Legs, Live, Marks,
                         RowStep, TypeOK
<1>2. CASE UndoEdit(c)
  <2>1. PICK f, o \in Legs(c.tid) : UpdateLegs(c.tid, f, o, c.before)
    BY <1>2 DEF UndoEdit
  <2>2. c.op = "edit" /\ c.before \in Values /\ c.tid \in TransferId
    BY <1>2, HeldKinds DEF UndoEdit
  <2> QED
    BY <2>1, <2>2, UpdateRows DEF RowStep, Live
<1>3. CASE UndoDelete(c)
  BY <1>3, PairRows, HeldKinds DEF UndoDelete, RowStep
<1>4. CASE UndoVoid(c)
  <2>1. /\ c.op = "void" /\ c.snapshots \in Seq(Snapshot) /\ Len(c.snapshots) = 2
        /\ \A i \in 1..2 : c.snapshots[i].row \in Legs(c.tid)
    BY <1>4, HeldKinds DEF UndoVoid
  <2>2. \A r \in Legs(c.tid) : /\ r \in RowId /\ Live(r) /\ rows[r] \in Row
                              /\ rows[r].tid = c.tid /\ rows[r].status = "void"
    BY <2>1 DEF Shows, Struck, Legs, Live, TypeOK
  <2>3. \A i \in 1..2 : /\ c.snapshots[i].amount \in Signed /\ c.snapshots[i].status \in Status
                        /\ c.snapshots[i].status # "reconciled"
    <3>1. \A i \in 1..2 : c.snapshots[i] \in Snapshot
      BY <2>1
    <3> QED
      BY <3>1 DEF Snapshot, Kept
  <2>4. ASSUME NEW r \in RowId
        PROVE  rows'[r] \in Row \cup {Unused, Deleted} /\ RowStep(c, r)
    <3>1. CASE \E i \in 1..2 : c.snapshots[i].row = r
      <4> DEFINE i == IF c.snapshots[2].row = r THEN 2 ELSE 1
      <4>1. i \in 1..2 /\ r \in Legs(c.tid)
        BY <2>1, <3>1
      <4>3. rows[r] \in Row /\ rows[r].tid = c.tid /\ rows[r].status = "void" /\ Live(r)
        BY <2>2, <4>1
      <4>2. rows'[r] = Rewrite(rows[r], c.snapshots[i].amount, c.snapshots[i].status)
        BY <1>4, <3>1 DEF UndoVoid, Rewrite
      <4> HIDE DEF i
      <4> QED
        BY <2>1, <2>3, <4>1, <4>2, <4>3, Rewritten DEF RowStep, Live
    <3>2. CASE ~ \E i \in 1..2 : c.snapshots[i].row = r
      BY <1>4, <3>2 DEF UndoVoid, RowStep, TypeOK
    <3> QED
      BY <3>1, <3>2
  <2>5. rows' = [r \in RowId |-> rows'[r]]
    BY <1>4 DEF UndoVoid
  <2> QED
    BY <2>4, <2>5
<1>5. CASE UndoMark(c)
  <2>1. /\ c.op = "mark" /\ c.row \in RowId /\ c.before \in Status /\ c.before # "reconciled"
        /\ Live(c.row) /\ rows[c.row].status # "reconciled" /\ rows[c.row] \in Row
        /\ rows' = [rows EXCEPT ![c.row] = [rows[c.row] EXCEPT !.status = c.before]]
    BY <1>5, HeldKinds DEF UndoMark, SetLegStatus, Live, Kept, TypeOK
  <2> QED
    BY <2>1, Marked DEF RowStep, Live, TypeOK
<1>6. CASE UndoFinish(c)
  <2>1. c.op = "finish" /\ c.before \subseteq Snapshot /\ \A k \in c.before : Live(k.row)
    BY <1>6, HeldKinds DEF UndoFinish
  <2>2. ASSUME NEW r \in RowId
        PROVE  rows'[r] \in Row \cup {Unused, Deleted} /\ RowStep(c, r)
    <3> DEFINE mine == {k \in c.before : k.row = r}
    <3>1. CASE mine = {} \/ rows[r].status # "reconciled"
      <4>1. rows'[r] = rows[r]
        BY <1>6, <3>1 DEF UndoFinish
      <4> QED
        BY <4>1 DEF RowStep, TypeOK
    <3>2. CASE mine # {} /\ rows[r].status = "reconciled"
      <4>1. rows'[r] = [rows[r] EXCEPT !.status = (CHOOSE k \in mine : TRUE).status]
        BY <1>6, <3>2 DEF UndoFinish
      <4>2. (CHOOSE k \in mine : TRUE) \in mine
        BY <3>2
      <4>3. (CHOOSE k \in mine : TRUE).status \in Status /\ Live(r) /\ rows[r] \in Row
        BY <2>1, <4>2 DEF Snapshot, Kept, TypeOK, Live
      <4> HIDE DEF mine
      <4> QED
        BY <2>1, <3>2, <4>1, <4>3, Marked DEF RowStep, Live
    <3> QED
      BY <3>1, <3>2
  <2>3. rows' = [r \in RowId |-> rows'[r]]
    BY <1>6 DEF UndoFinish
  <2> QED
    BY <2>2, <2>3
<1>7. CASE UndoClose(c) \/ UndoReopen(c)
  BY <1>7 DEF UndoClose, UndoReopen, RowStep, TypeOK
<1> QED
  BY <1>1, <1>2, <1>3, <1>4, <1>5, <1>6, <1>7 DEF Revert

----------------------------------------------------------------------------
(* What a step does to the legs of a transfer.                             *)

LEMMA Frame ==
    ASSUME TypeOK, rows' \in [RowId -> Row \cup {Unused, Deleted}],
           NEW c, \A r \in RowId : RowStep(c, r), NEW t \in minted,
           c.op \in {"create", "delete"} => c.tid # t
    PROVE  /\ Legs(t)' = Legs(t)
           /\ /\ Struck(t)
              /\ c.op = "void" => c.tid # t
              /\ c.op = "mark" => c.row \notin Legs(t)
              => Struck(t)'
<1>1. \A r \in RowId : r \in Legs(t)' <=> r \in Legs(t)
  BY RowAssumption DEF TypeOK, RowStep, Legs, Live
<1>2. Legs(t)' = Legs(t)
  BY <1>1 DEF Legs
<1> QED
  BY <1>2 DEF Struck, RowStep, Legs, Live

LEMMA RunsInTable ==
    ASSUME TypeOK, Drawn, NEW c \in Asked, Run(c)
    PROVE  /\ open' \subseteq Account /\ minted \subseteq minted' /\ minted' \subseteq TransferId
           /\ \A r \in RowId : Live(r)' => rows'[r].tid \in minted'
<1>1. open' \subseteq Account /\ minted \subseteq minted' /\ minted' \subseteq TransferId
  BY FreshTransfer, AskedKinds
     DEF Run, RunCreate, RunEdit, RunDelete, RunVoid, RunMark, RunFinish, RunClose, RunReopen,
         UpdateLegs, MayUpdate, DeleteLegs, MayDelete, SetLegStatus, TypeOK
<1>2. Removes(c) => c.tid \in minted
  BY DEF Removes, Run, RunCreate, RunEdit, RunDelete, RunVoid, RunMark, RunFinish, RunClose,
         RunReopen, Drawn, Legs
<1> QED
  BY <1>1, <1>2, RunRows, RowAssumption DEF RowStep, Drawn, Live, Removes

LEMMA RevertsInTable ==
    ASSUME TypeOK, Drawn, NEW c \in Held, Revert(c), c.op = "void" => Shows(c),
           Removes(c) => c.tid \in minted
    PROVE  /\ open' \subseteq Account /\ minted' = minted
           /\ \A r \in RowId : Live(r)' => rows'[r].tid \in minted'
<1>1. open' \subseteq Account /\ minted' = minted
  BY HeldKinds
     DEF Revert, UndoCreate, UndoEdit, UndoDelete, UndoVoid, UndoMark, UndoFinish, UndoClose,
         UndoReopen, UpdateLegs, MayUpdate, DeleteLegs, MayDelete, SetLegStatus, TypeOK
<1> QED
  BY <1>1, RevertRows, RowAssumption DEF RowStep, Drawn, Live, Removes

(* What a command keeps of its run.                                        *)
Becomes(c, d) ==
    /\ d \in Held /\ d.op = c.op
    /\ c.op = "create" => d.tid \notin minted
    /\ Removes(c) => d.tid = c.tid /\ c.tid \in minted
    /\ c.op = "mark" => d.row = c.row
    /\ c.op = "delete" => Legs(c.tid)' = {}
    /\ c.op = "void" => /\ Restored(d) = Restored(c) \cup Legs(c.tid) /\ Legs(c.tid) # {}
                       /\ Legs(c.tid)' = Legs(c.tid) /\ Struck(c.tid)'

LEMMA Appended ==
    ASSUME NEW q \in Seq(Snapshot), NEW a \in Snapshot, NEW b \in Snapshot
    PROVE  /\ q \o <<a, b>> \in Seq(Snapshot)
           /\ {(q \o <<a, b>>)[i].row : i \in DOMAIN (q \o <<a, b>>)}
                = {q[i].row : i \in DOMAIN q} \cup {a.row, b.row}
<1> DEFINE both == q \o <<a, b>>
<1>1. /\ both \in Seq(Snapshot) /\ Len(both) = Len(q) + 2
      /\ \A i \in 1..Len(q) : both[i] = q[i]
      /\ both[Len(q) + 1] = a /\ both[Len(q) + 2] = b
  OBVIOUS
<1>2. DOMAIN both = 1..(Len(q) + 2) /\ DOMAIN q = 1..Len(q) /\ Len(q) \in Nat
  BY <1>1
<1>3. \A i \in DOMAIN both : i \in 1..Len(q) \/ i = Len(q) + 1 \/ i = Len(q) + 2
  BY <1>2
<1> HIDE DEF both
<1>4. \A x : (\E i \in DOMAIN both : x = both[i].row)
                <=> (\E i \in DOMAIN q : x = q[i].row) \/ x = a.row \/ x = b.row
  BY <1>1, <1>2, <1>3
<1>5. {both[i].row : i \in DOMAIN both} = {q[i].row : i \in DOMAIN q} \cup {a.row, b.row}
  BY <1>4
<1> QED
  BY <1>1, <1>5 DEF both

LEMMA RunResult ==
    ASSUME TypeOK, Drawn, NEW c \in Asked, Run(c)
    PROVE  \E d : undoStack' = Append(undoStack, d) /\ Becomes(c, d)
<1> USE RowAssumption DEF Becomes, Removes, Ran, TypeOK
<1>1. CASE RunCreate(c)
  <2>1. [c EXCEPT !.tid = NewTransfer] \in Held
    BY <1>1, FreshTransfer, AskedKinds DEF RunCreate, Held
  <2> QED
    BY <1>1, <2>1, FreshTransfer, AskedKinds DEF RunCreate
<1>2. CASE RunEdit(c)
  <2>1. PICK f, o \in Legs(c.tid) : UpdateLegs(c.tid, f, o, c.values)
                                    /\ Ran([c EXCEPT !.before = ValuesOf(f, o)])
    BY <1>2 DEF RunEdit
  <2>2. ValuesOf(f, o) \in Values
    BY <2>1 DEF UpdateLegs, MayUpdate, IsTransfer, Legs, Live, Marks, ValuesOf, Values, Row, Kept
  <2>3. [c EXCEPT !.before = ValuesOf(f, o)] \in Held
    BY <1>2, <2>2, AskedKinds DEF RunEdit, Held
  <2> QED
    BY <1>2, <2>1, <2>3, AskedKinds DEF RunEdit
<1>3. CASE RunDelete(c)
  <2>1. PICK f, o \in Legs(c.tid) :
           /\ DeleteLegs(c.tid, f, o)
           /\ Ran([c EXCEPT !.spec = [from |-> rows[f].acct, to |-> rows[o].acct,
                                      amount |-> rows[o].amount, status |-> rows[f].status]])
    BY <1>3 DEF RunDelete
  <2> DEFINE kept == [from |-> rows[f].acct, to |-> rows[o].acct,
                      amount |-> rows[o].amount, status |-> rows[f].status]
  <2>2. kept \in TransferSpec
    BY <2>1 DEF DeleteLegs, MayDelete, Legs, Live, Marks, TransferSpec, Row, Kept
  <2>3. [c EXCEPT !.spec = kept] \in Held
    BY <1>3, <2>2, AskedKinds DEF RunDelete, Held
  <2>4. Legs(c.tid)' = {}
    BY <2>1 DEF DeleteLegs, MayDelete, IsTransfer, Legs, Live
  <2>5. c.tid \in minted
    BY <2>1 DEF Drawn, Legs
  <2> QED
    BY <1>3, <2>1, <2>3, <2>4, <2>5, AskedKinds DEF RunDelete
<1>4. CASE RunVoid(c)
  <2>1. PICK f, o \in Legs(c.tid) :
          /\ IsTransfer(c.tid, f, o)
          /\ Marks({f, o}) \cap {"reconciled", "void"} = {}
          /\ rows' = [rows EXCEPT ![f] = [@ EXCEPT !.amount = 0, !.status = "void"],
                                  ![o] = [@ EXCEPT !.amount = 0, !.status = "void"]]
          /\ Ran([c EXCEPT !.snapshots = @ \o <<SnapshotOf(f), SnapshotOf(o)>>])
    BY <1>4 DEF RunVoid
  <2>2. SnapshotOf(f) \in Snapshot /\ SnapshotOf(o) \in Snapshot
    BY <2>1 DEF Legs, Live, Marks, SnapshotOf, Snapshot, Row, Kept
  <2>3. c.op = "void" /\ c \in [op : {"void"}, tid : TransferId, snapshots : Seq(Snapshot)]
    BY <1>4, AskedKinds DEF RunVoid
  <2> DEFINE d == [c EXCEPT !.snapshots = @ \o <<SnapshotOf(f), SnapshotOf(o)>>]
  <2>4. d \in [op : {"void"}, tid : TransferId, snapshots : Seq(Snapshot)]
        /\ d.tid = c.tid /\ d.op = "void"
        /\ d.snapshots = c.snapshots \o <<SnapshotOf(f), SnapshotOf(o)>>
    BY <2>2, <2>3, Appended
  <2>5. Restored(d) = Restored(c) \cup {f, o}
    <3>1. SnapshotOf(f).row = f /\ SnapshotOf(o).row = o /\ c.snapshots \in Seq(Snapshot)
      BY <2>3 DEF SnapshotOf
    <3> DEFINE a == SnapshotOf(f)
               b == SnapshotOf(o)
    <3>2. d.snapshots = c.snapshots \o <<SnapshotOf(f), SnapshotOf(o)>>
      BY <2>4
    <3> HIDE DEF d, a, b
    <3>3. {(c.snapshots \o <<a, b>>)[i].row : i \in DOMAIN (c.snapshots \o <<a, b>>)}
            = {c.snapshots[i].row : i \in DOMAIN c.snapshots} \cup {a.row, b.row}
      <4>1. a \in Snapshot /\ b \in Snapshot
        BY <2>2 DEF a, b
      <4> QED
        BY <4>1, <3>1, Appended
    <3>4. a.row = f /\ b.row = o /\ d.snapshots = c.snapshots \o <<a, b>>
      BY <3>1, <3>2 DEF a, b
    <3> QED
      BY <3>3, <3>4 DEF Restored
  <2>6. Legs(c.tid)' = Legs(c.tid) /\ Struck(c.tid)'
    <3>1. /\ rows' \in [RowId -> Row \cup {Unused, Deleted}]
          /\ \A r \in RowId : IF r \in Legs(c.tid)
               THEN /\ rows'[r] \in Row /\ rows'[r].status = "void"
                    /\ rows'[r].tid = rows[r].tid /\ rows'[r].acct = rows[r].acct
               ELSE rows'[r] = rows[r]
      BY <2>1, VoidRows
    <3>2. \A r \in RowId : r \in Legs(c.tid)' <=> r \in Legs(c.tid)
      BY <3>1 DEF Legs, Live
    <3>3. Legs(c.tid)' = Legs(c.tid)
      BY <3>2 DEF Legs
    <3>4. \A r \in Legs(c.tid) : r \in RowId
      BY DEF Legs
    <3> QED
      BY <3>1, <3>3, <3>4 DEF Struck
  <2>7. c.tid \in minted /\ Legs(c.tid) = {f, o}
    BY <2>1 DEF Drawn, Legs, IsTransfer
  <2> QED
    BY <2>1, <2>3, <2>4, <2>5, <2>6, <2>7 DEF Held
<1>5. CASE RunMark(c)
  <2>1. [c EXCEPT !.before = rows[c.row].status] \in Held
    BY <1>5, AskedKinds DEF RunMark, SetLegStatus, Live, Held, Row, Kept
  <2> QED
    BY <1>5, <2>1, AskedKinds DEF RunMark
<1>6. CASE RunFinish(c)
  <2> DEFINE kept == {SnapshotOf(r) : r \in {x \in c.rows : rows[x].status # "reconciled"}}
  <2>1. kept \subseteq Snapshot
    BY <1>6, AskedKinds DEF RunFinish, Live, SnapshotOf, Snapshot, Row, Kept
  <2>2. [c EXCEPT !.before = kept] \in Held
    <3> HIDE DEF kept
    <3> QED
      BY <1>6, <2>1, AskedKinds DEF RunFinish, Held
  <2> QED
    BY <1>6, <2>2, AskedKinds DEF RunFinish
<1>7. CASE RunClose(c) \/ RunReopen(c)
  BY <1>7, AskedKinds DEF RunClose, RunReopen, Held
<1> QED
  BY <1>1, <1>2, <1>3, <1>4, <1>5, <1>6, <1>7 DEF Run

----------------------------------------------------------------------------
(* The two stacks as sequences.                                            *)

LEMMA Pushed ==
    ASSUME NEW S, NEW s \in Seq(S), NEW e \in S
    PROVE  /\ Append(s, e) \in Seq(S)
           /\ DOMAIN Append(s, e) = DOMAIN s \cup {Len(s) + 1}
           /\ \A i \in DOMAIN s : Append(s, e)[i] = s[i] /\ i < Len(s) + 1
           /\ Append(s, e)[Len(s) + 1] = e /\ Last(Append(s, e)) = e
           /\ DOMAIN s \subseteq Nat /\ Len(s) \in Nat
<1>1. Len(s) \in Nat /\ DOMAIN s = 1..Len(s) /\ Len(Append(s, e)) = Len(s) + 1
  OBVIOUS
<1>2. DOMAIN Append(s, e) = 1..(Len(s) + 1)
  BY <1>1
<1> QED
  BY <1>1, <1>2 DEF Last

LEMMA Popped ==
    ASSUME NEW S, NEW s \in Seq(S), s # <<>>
    PROVE  /\ Front(s) \in Seq(S) /\ Last(s) \in S
           /\ DOMAIN Front(s) = DOMAIN s \ {Len(s)}
           /\ \A i \in DOMAIN Front(s) : Front(s)[i] = s[i] /\ i < Len(s)
           /\ Last(s) = s[Len(s)] /\ Len(s) \in DOMAIN s /\ DOMAIN s \subseteq Nat
<1>1. Len(s) \in Nat \ {0} /\ DOMAIN s = 1..Len(s)
  OBVIOUS
<1>2. Front(s) = [i \in 1..(Len(s) - 1) |-> s[i]] /\ Front(s) \in Seq(S)
  BY <1>1 DEF Front
<1>3. DOMAIN Front(s) = 1..(Len(s) - 1)
  BY <1>2
<1> QED
  BY <1>1, <1>2, <1>3 DEF Last

----------------------------------------------------------------------------
(* A command that runs on the register it was asked for on, or again.      *)

MayRun(c) ==
    /\ \A i \in DOMAIN undoStack : Spares(undoStack[i], c)
    /\ \A j \in DOMAIN redoStack' : Spares(c, redoStack'[j])
    /\ c.op = "void" => \/ Restored(c) = Legs(c.tid)
                        \/ Restored(c) = {} /\ redoStack' = <<>>

LEMMA OfferedKinds ==
    ASSUME NEW c \in Offered
    PROVE  \/ c \in [op : {"create"}, tid : {NoTransfer},
                     spec : [from : Account, to : Account, amount : menu.amounts,
                             status : {"uncleared"}]]
           \/ c \in [op : {"edit"}, tid : Here, before : {<<>>},
                     values : [amount : menu.amounts, status : {"uncleared", "cleared"}]]
           \/ c \in [op : {"delete"}, tid : Here, spec : {<<>>}]
           \/ c \in [op : {"void"}, tid : Here, snapshots : {<<>>}]
           \/ \E r \in Mutable : c = [op |-> "mark", row |-> r,
                                      status |-> Toggled(rows[r].status), before |-> NoStatus]
           \/ c \in [op : {"finish"}, before : {{}}, rows : SUBSET RowId]
           \/ c \in [op : {"close", "reopen"}, acct : Account]
<1>1. ASSUME NEW a \in Account,
             c \in [op : {"finish"}, before : {{}},
                   rows : (SUBSET {r \in Mutable : rows[r].acct = a}) \ {{}}]
      PROVE  c \in [op : {"finish"}, before : {{}}, rows : SUBSET RowId]
  <2>1. (SUBSET {r \in Mutable : rows[r].acct = a}) \ {{}} \subseteq SUBSET RowId
    BY DEF Mutable
  <2> QED
    BY <1>1, <2>1
<1> DEFINE marks == {[op |-> "mark", row |-> r, status |-> Toggled(rows[r].status),
                      before |-> NoStatus] : r \in Mutable}
           finishes == UNION {[op : {"finish"}, before : {{}},
                 rows : (SUBSET {r \in Mutable : rows[r].acct = a}) \ {{}}] : a \in Account}
<1>2. c \in marks => \E r \in Mutable : c = [op |-> "mark", row |-> r,
                                     status |-> Toggled(rows[r].status), before |-> NoStatus]
  OBVIOUS
<1>3. c \in finishes => c \in [op : {"finish"}, before : {{}}, rows : SUBSET RowId]
  BY <1>1
<1>4. \/ c \in [op : {"create"}, tid : {NoTransfer},
                spec : [from : Account, to : Account, amount : menu.amounts,
                        status : {"uncleared"}]]
      \/ c \in [op : {"edit"}, tid : Here, before : {<<>>},
                values : [amount : menu.amounts, status : {"uncleared", "cleared"}]]
      \/ c \in [op : {"delete"}, tid : Here, spec : {<<>>}]
      \/ c \in [op : {"void"}, tid : Here, snapshots : {<<>>}]
      \/ c \in marks
      \/ c \in finishes
      \/ c \in [op : {"close", "reopen"}, acct : Account]
  BY Zenon DEF Offered
<1> HIDE DEF marks, finishes
<1> QED
  BY <1>2, <1>3, <1>4

LEMMA OfferedFits ==
    ASSUME UInv, NEW c \in Offered, redoStack' = <<>>
    PROVE  c \in Asked /\ MayRun(c)
<1>1. \A r \in Mutable : r \in RowId /\ rows[r] \in Row
  BY DEF UInv, TypeOK, Live, Mutable
<1>2. /\ Here \subseteq TransferId /\ menu.amounts \subseteq Signed
      /\ {"uncleared", "cleared"} \subseteq Kept
  BY <1>1, HistoryAssumption DEF Row, UInv, TypeOK, Signed, Kept, Status, Here
<1>3. \A t \in Here : Legs(t) # {} /\ ~Struck(t)
  BY DEF Legs, Struck, Here, Mutable
<1>4. \A r \in Mutable, t \in TransferId : ~(r \in Legs(t) /\ Struck(t))
  BY DEF Struck, Mutable
<1>5. c \in Asked
  <2>1. \A r \in RowId : Toggled(rows[r].status) \in Kept
    BY DEF Toggled, Kept, Status
  <2>2. [from : Account, to : Account, amount : menu.amounts, status : {"uncleared"}]
          \subseteq TransferSpec
    BY <1>2 DEF TransferSpec
  <2>3. [amount : menu.amounts, status : {"uncleared", "cleared"}] \subseteq Values
    BY <1>2 DEF Values
  <2>4. <<>> \in Seq(Snapshot)
    OBVIOUS
  <2> HIDE DEF Here, Mutable, Toggled
  <2>5. CASE \E r \in Mutable : c = [op |-> "mark", row |-> r,
                                   status |-> Toggled(rows[r].status), before |-> NoStatus]
    BY <1>1, <2>1, <2>5 DEF Asked
  <2>6. CASE ~ \E r \in Mutable : c = [op |-> "mark", row |-> r,
                                   status |-> Toggled(rows[r].status), before |-> NoStatus]
    BY <1>2, <2>2, <2>3, <2>4, <2>6, OfferedKinds DEF Asked
  <2> QED
    BY <2>5, <2>6
<1>6. ASSUME NEW i \in DOMAIN undoStack
      PROVE  Spares(undoStack[i], c)
  <2>1. undoStack[i] \in Held /\ Shows(undoStack[i])
    BY DEF UInv, TypeOK, DoneFits
  <2>2. Removes(undoStack[i]) => undoStack[i].tid \in TransferId
    BY <2>1, HeldKinds DEF Removes
  <2>3. c.op = "create" => c.tid = NoTransfer
    BY OfferedKinds
  <2>4. c.op \in {"delete", "void"} => c.tid \in Here
    BY OfferedKinds
  <2>5. c.op = "mark" => c.row \in Mutable
    BY OfferedKinds
  <2> QED
    BY <1>3, <1>4, <2>1, <2>2, <2>3, <2>4, <2>5, HistoryAssumption DEF Spares, Shows, Removes
<1>7. c.op = "void" => Restored(c) = {}
  <2>1. c.op = "void" => c.snapshots = <<>>
    BY OfferedKinds
  <2> QED
    BY <2>1 DEF Restored
<1> QED
  BY <1>5, <1>6, <1>7 DEF MayRun

LEMMA RedoFits ==
    ASSUME UInv, redoStack # <<>>, Run(Last(redoStack)), redoStack' = Front(redoStack)
    PROVE  Last(redoStack) \in Asked /\ MayRun(Last(redoStack))
<1> DEFINE n == Len(redoStack)
<1>1. /\ n \in DOMAIN redoStack /\ Last(redoStack) = redoStack[n] /\ redoStack[n] \in Held
      /\ DOMAIN redoStack' = DOMAIN redoStack \ {n}
      /\ \A j \in DOMAIN redoStack' : redoStack'[j] = redoStack[j] /\ j < n
  <2>1. redoStack \in Seq(Held)
    BY DEF UInv, TypeOK
  <2>2. Last(redoStack) = redoStack[n] /\ redoStack[n] \in Held
    <3>1. Last(redoStack) = redoStack[n]
      BY <2>1, Popped
    <3>2. Last(redoStack) \in Held
      BY <2>1, Popped
    <3> QED
      BY <3>1, <3>2
  <2>5. n \in DOMAIN redoStack
    BY <2>1, Popped
  <2>3. DOMAIN Front(redoStack) = DOMAIN redoStack \ {n}
    BY <2>1, Popped
  <2>4. \A j \in DOMAIN Front(redoStack) : Front(redoStack)[j] = redoStack[j] /\ j < n
    BY <2>1, Popped
  <2> QED
    BY <2>2, <2>3, <2>4, <2>5
<1> HIDE DEF n
<1>2. redoStack[n].op = "void" => Legs(redoStack[n].tid) # {}
  BY <1>1 DEF Run, RunCreate, RunEdit, RunDelete, RunVoid, RunMark, RunFinish, RunClose,
     RunReopen
<1>3. redoStack[n].op = "void" => Restored(redoStack[n]) = Legs(redoStack[n].tid)
  BY <1>1, <1>2 DEF UInv, UndoneFits, MayReturn
<1> QED
  BY <1>1, <1>3, HeldIsAsked DEF MayRun, UInv, InOrder

(* A run of anything but a delete leaves the legs of every transfer drawn  *)
(* so far.                                                                 *)
LEMMA RunFrame ==
    ASSUME TypeOK, NEW c \in Asked, Run(c), NEW t \in minted, c.op = "delete" => c.tid # t
    PROVE  Legs(t)' = Legs(t)
<1>1. CASE c.op = "create"
  <2>1. RunCreate(c) /\ NewTransfer \in TransferId /\ NewTransfer # t
    BY <1>1, FreshTransfer DEF Run, RunCreate, RunEdit, RunDelete, RunVoid, RunMark, RunFinish,
                               RunClose, RunReopen, TypeOK
  <2>2. \A r \in RowId : \/ rows'[r] = rows[r]
                         \/ rows[r] = Unused /\ rows'[r] \in Row /\ rows'[r].tid = NewTransfer
    BY <1>1, <2>1, PairRows, AskedKinds DEF RunCreate
  <2>3. \A r \in RowId : r \in Legs(t)' <=> r \in Legs(t)
    BY <2>1, <2>2 DEF Legs, Live
  <2> QED
    BY <2>3 DEF Legs
<1>2. CASE c.op # "create"
  BY <1>2, RunRows, Frame
<1> QED
  BY <1>1, <1>2

----------------------------------------------------------------------------
(* Every step keeps the invariant.                                         *)

LEMMA RunKeeps ==
    ASSUME UInv, NEW c \in Asked, Run(c), MayRun(c), UNCHANGED menu,
           redoStack' \in Seq(Held),
           \A j \in DOMAIN redoStack' : j \in DOMAIN redoStack /\ redoStack'[j] = redoStack[j]
    PROVE  UInv'
<1> USE DEF UInv
<1>1. PICK d : undoStack' = Append(undoStack, d) /\ Becomes(c, d)
  BY RunResult
<1> DEFINE n == Len(undoStack) + 1
<1>2. /\ undoStack' \in Seq(Held) /\ DOMAIN undoStack' = DOMAIN undoStack \cup {n}
      /\ \A i \in DOMAIN undoStack : undoStack'[i] = undoStack[i] /\ i < n /\ i \in Nat
      /\ undoStack'[n] = d /\ n \in Nat /\ ~(n < n)
  BY <1>1, Pushed DEF Becomes, TypeOK
<1>3. /\ \A i \in DOMAIN undoStack : undoStack[i] \in Held
      /\ \A j \in DOMAIN redoStack' : redoStack'[j] \in Held /\ redoStack[j] \in Held
  BY DEF TypeOK
<1>4. DOMAIN redoStack' \subseteq Nat
  OBVIOUS
<1>5. \A i, j \in DOMAIN undoStack' : i < j => i \in DOMAIN undoStack
  BY <1>2
<1> HIDE DEF n
<1>6. TypeOK'
  BY <1>2, RunRows, RunsInTable DEF TypeOK
<1>7. InOrder'
  <2>1. \A i \in DOMAIN undoStack : Spares(undoStack[i], d)
    BY <1>1 DEF MayRun, Spares, Becomes, Removes, Drawn
  <2>2. ASSUME NEW j \in DOMAIN redoStack'
        PROVE  Spares(d, redoStack'[j])
    <3>1. Spares(c, redoStack'[j]) /\ redoStack' # <<>>
      BY DEF MayRun
    <3>2. c.op = "void" => Restored(d) = Restored(c)
      BY <1>1, <3>1 DEF MayRun, Becomes
    <3> QED
      BY <1>1, <3>1, <3>2 DEF Spares, Becomes, Removes
  <2>3. \A i, j \in DOMAIN undoStack' : i < j => Spares(undoStack'[i], undoStack'[j])
    BY <1>2, <1>5, <2>1 DEF InOrder
  <2>4. \A i \in DOMAIN undoStack' : \A j \in DOMAIN redoStack' :
           Spares(undoStack'[i], redoStack'[j])
    BY <1>2, <2>2 DEF InOrder
  <2>5. \A i, j \in DOMAIN redoStack' : i < j => Spares(redoStack'[j], redoStack'[i])
    BY DEF InOrder
  <2> QED
    BY <2>3, <2>4, <2>5 DEF InOrder, Spares, Restored
<1>8. Drawn'
  <2>1. \A r \in RowId : Live(r)' => rows'[r].tid \in minted'
    BY RunsInTable
  <2>2. minted \subseteq minted'
    BY RunsInTable
  <2>3. \A i \in DOMAIN undoStack' : Removes(undoStack'[i]) => undoStack'[i].tid \in minted'
    BY <1>1, <1>2, <2>2 DEF Drawn, Becomes, Removes
  <2>4. \A i \in DOMAIN redoStack' : Removes(redoStack'[i]) => redoStack'[i].tid \in minted'
    BY <2>2 DEF Drawn
  <2> QED
    BY <2>1, <2>3, <2>4 DEF Drawn, Removes
<1>9. DoneFits'
  <2>1. ASSUME NEW i \in DOMAIN undoStack, NEW e, e = undoStack[i]
        PROVE  Shows(e)'
    <3>1. Shows(e) /\ Spares(e, c)
      BY <2>1 DEF DoneFits, MayRun
    <3>2. CASE Removes(e)
      <4>1. e.tid \in minted /\ (c.op \in {"create", "delete", "void"} => c.tid # e.tid)
        BY <2>1, <3>1, <3>2 DEF Drawn, Removes, Spares
      <4>2. /\ Legs(e.tid)' = Legs(e.tid)
            /\ Struck(e.tid) /\ (c.op = "mark" => c.row \notin Legs(e.tid)) => Struck(e.tid)'
        BY <4>1, RunRows, Frame
      <4>3. e.op = "void" /\ c.op = "mark" => c.row \notin Legs(e.tid)
        BY <3>1 DEF Shows, Spares
      <4> QED
        BY <3>1, <4>2, <4>3 DEF Shows, Restored
    <3>3. CASE ~Removes(e)
      BY <3>3 DEF Shows, Removes
    <3> QED
      BY <3>2, <3>3
  <2>2. Shows(d)'
    BY <1>1 DEF Becomes, Shows, MayRun, Removes, Restored
  <2>3. ASSUME NEW i \in DOMAIN undoStack', NEW e, e = undoStack'[i]
        PROVE  Shows(e)'
    BY <1>2, <2>1, <2>2, <2>3
  <2> QED
    BY <2>3 DEF DoneFits, Shows, Restored
<1>10. UndoneFits'
  <2>1. ASSUME NEW j \in DOMAIN redoStack', NEW e, e = redoStack[j], e.op = "void"
        PROVE  Legs(e.tid)' \in {{}, Restored(e)}
    <3>1. Legs(e.tid) \in {{}, Restored(e)}
      BY <2>1 DEF UndoneFits, MayReturn
    <3>2. e.tid \in minted
      BY <2>1 DEF Drawn, Removes
    <3>3. c.op = "delete" => c.tid # e.tid
      BY <2>1 DEF MayRun, Spares
    <3> QED
      BY <3>1, <3>2, <3>3, RunFrame
  <2> QED
    BY <2>1 DEF UndoneFits, MayReturn, Restored
<1> QED
  BY <1>6, <1>7, <1>8, <1>9, <1>10

LEMMA UndoKeeps ==
    ASSUME UInv, Undo, UNCHANGED menu
    PROVE  UInv'
<1> USE DEF UInv
<1>1. undoStack # <<>>
  BY DEF Undo
<1> DEFINE n == Len(undoStack)
           m == Len(redoStack) + 1
<1>0. PICK c : c = Last(undoStack)
  OBVIOUS
<1>2. /\ undoStack' \in Seq(Held) /\ DOMAIN undoStack' = DOMAIN undoStack \ {n}
      /\ \A i \in DOMAIN undoStack' : undoStack'[i] = undoStack[i] /\ i < n
      /\ DOMAIN undoStack' \subseteq DOMAIN undoStack
      /\ undoStack[n] = c /\ n \in DOMAIN undoStack /\ c \in Held
      /\ DOMAIN undoStack' \subseteq Nat
  BY <1>0, <1>1, Popped DEF Undo, TypeOK
<1>3. /\ redoStack' \in Seq(Held) /\ DOMAIN redoStack' = DOMAIN redoStack \cup {m}
      /\ \A j \in DOMAIN redoStack : redoStack'[j] = redoStack[j] /\ j < m /\ j \in Nat
      /\ redoStack'[m] = c /\ m \in Nat
  BY <1>0, <1>2, Pushed DEF Undo, TypeOK
<1>4. Revert(c)
  BY <1>0 DEF Undo
<1>5. Shows(c) /\ (Removes(c) => c.tid \in minted)
  BY <1>2 DEF DoneFits, Drawn
<1>6. \A j \in DOMAIN redoStack : redoStack[j] \in Held /\ Spares(c, redoStack[j])
  BY <1>2 DEF TypeOK, InOrder
<1>7. \A i \in DOMAIN undoStack' : undoStack[i] \in Held /\ Spares(undoStack[i], c)
  BY <1>2 DEF TypeOK, InOrder
<1>8. \A i, j \in DOMAIN redoStack' : i < j => i \in DOMAIN redoStack
  BY <1>3
<1> HIDE DEF n, m
<1>9. \A r \in RowId : RowStep(c, r)
  BY <1>2, <1>4, <1>5, RevertRows
<1>10. TypeOK'
  BY <1>2, <1>3, <1>4, <1>5, RevertRows, RevertsInTable DEF TypeOK
<1>11. InOrder'
  <2>1. \A i, j \in DOMAIN undoStack' : i < j => Spares(undoStack'[i], undoStack'[j])
    BY <1>2 DEF InOrder
  <2>2. \A i \in DOMAIN undoStack' : \A j \in DOMAIN redoStack' :
           Spares(undoStack'[i], redoStack'[j])
    BY <1>2, <1>3, <1>7 DEF InOrder
  <2>3. \A i, j \in DOMAIN redoStack' : i < j => Spares(redoStack'[j], redoStack'[i])
    BY <1>3, <1>6, <1>8 DEF InOrder
  <2> QED
    BY <2>1, <2>2, <2>3 DEF InOrder, Spares, Restored
<1>12. Drawn'
  <2>1. /\ minted' = minted
        /\ \A r \in RowId : Live(r)' => rows'[r].tid \in minted'
    BY <1>2, <1>4, <1>5, RevertsInTable
  <2>2. \A i \in DOMAIN undoStack' : Removes(undoStack'[i]) => undoStack'[i].tid \in minted'
    BY <1>2, <2>1 DEF Drawn
  <2>3. \A i \in DOMAIN redoStack' : Removes(redoStack'[i]) => redoStack'[i].tid \in minted'
    BY <1>3, <1>5, <2>1 DEF Drawn
  <2> QED
    BY <2>1, <2>2, <2>3 DEF Drawn, Removes
<1>13. DoneFits'
  <2>1. ASSUME NEW i \in DOMAIN undoStack', NEW e, e = undoStack'[i]
        PROVE  Shows(e)'
    <3>1. Shows(e) /\ Spares(e, c)
      BY <1>2, <1>7, <2>1 DEF DoneFits
    <3>2. CASE Removes(e)
      <4>1. e.tid \in minted /\ (c.op \in {"create", "delete", "void"} => c.tid # e.tid)
        BY <1>2, <2>1, <3>1, <3>2 DEF Drawn, Removes, Spares
      <4>2. /\ Legs(e.tid)' = Legs(e.tid)
            /\ Struck(e.tid) /\ (c.op = "mark" => c.row \notin Legs(e.tid)) => Struck(e.tid)'
        BY <1>9, <1>10, <4>1, Frame DEF TypeOK
      <4>3. e.op = "void" /\ c.op = "mark" => c.row \notin Legs(e.tid)
        BY <3>1 DEF Shows, Spares
      <4> QED
        BY <3>1, <4>2, <4>3 DEF Shows, Restored
    <3>3. CASE ~Removes(e)
      BY <3>3 DEF Shows, Removes
    <3> QED
      BY <3>2, <3>3
  <2> QED
    BY <2>1 DEF DoneFits, Shows, Restored
<1>14. UndoneFits'
  <2>1. ASSUME NEW j \in DOMAIN redoStack, NEW e, e = redoStack[j], e.op = "void"
        PROVE  Legs(e.tid)' \in {{}, Restored(e)}
    <3>1. Legs(e.tid) \in {{}, Restored(e)} /\ e.tid \in minted
      BY <2>1 DEF UndoneFits, MayReturn, Drawn, Removes
    <3>2. c.op = "delete" => c.tid # e.tid
      BY <1>6, <2>1 DEF Spares
    <3>3. CASE c.op = "create" /\ c.tid = e.tid
      <4>1. PICK f, o \in Legs(c.tid) : DeleteLegs(c.tid, f, o)
        BY <1>4, <3>3 DEF Revert, UndoCreate, UndoEdit, UndoDelete, UndoVoid, UndoMark,
           UndoFinish,
                          UndoClose, UndoReopen
      <4>2. Legs(c.tid)' = {}
        BY <4>1 DEF DeleteLegs, MayDelete, IsTransfer, Legs, Live, TypeOK
      <4> QED
        BY <3>3, <4>2
    <3>4. CASE c.op \in {"create", "delete"} => c.tid # e.tid
      BY <1>9, <1>10, <3>1, <3>4, Frame DEF TypeOK
    <3> QED
      BY <3>2, <3>3, <3>4
  <2>2. c.op = "void" => Legs(c.tid)' = Restored(c)
    BY <1>5, <1>9, <1>10, Frame DEF TypeOK, Shows, Removes
  <2>3. ASSUME NEW j \in DOMAIN redoStack', NEW e, e = redoStack'[j], e.op = "void"
        PROVE  Legs(e.tid)' \in {{}, Restored(e)}
    BY <1>3, <2>1, <2>2, <2>3
  <2> QED
    BY <2>3 DEF UndoneFits, MayReturn, Restored
<1> QED
  BY <1>10, <1>11, <1>12, <1>13, <1>14

LEMMA ClearKeeps ==
    ASSUME UInv, Clear, UNCHANGED menu
    PROVE  UInv'
<1>1. undoStack' \in Seq(Held) /\ redoStack' \in Seq(Held)
      /\ DOMAIN undoStack' = {} /\ DOMAIN redoStack' = {}
  BY DEF Clear
<1>2. TypeOK'
  BY <1>1 DEF UInv, TypeOK, Clear
<1>3. Drawn'
  BY <1>1 DEF UInv, Drawn, Clear, Live
<1> QED
  BY <1>1, <1>2, <1>3 DEF UInv, InOrder, DoneFits, UndoneFits

LEMMA StutterKeeps ==
    ASSUME UInv, UNCHANGED vars
    PROVE  UInv'
<1> USE DEF vars
<1>1. TypeOK' /\ InOrder'
  BY DEF UInv, TypeOK, InOrder, Spares, Restored
<1>2. \A t : Legs(t)' = Legs(t)
  BY DEF Legs, Live
<1>3. Drawn' /\ UndoneFits'
  BY <1>2 DEF UInv, Drawn, Live, Removes, UndoneFits, MayReturn, Restored
<1>4. DoneFits'
  BY <1>2 DEF UInv, DoneFits, Shows, Struck, Restored
<1> QED
  BY <1>1, <1>3, <1>4 DEF UInv

LEMMA NextKeeps ==
    ASSUME UInv, [Next]_vars
    PROVE  UInv'
<1>1. ASSUME NEW c \in Offered, Execute(c), UNCHANGED menu
      PROVE  UInv'
  <2>1. redoStack' = <<>> /\ Run(c)
    BY <1>1 DEF Execute
  <2> QED
    BY <1>1, <2>1, OfferedFits, RunKeeps
<1>2. ASSUME Redo, UNCHANGED menu
      PROVE  UInv'
  <2>1. PICK c : c = Last(redoStack)
    OBVIOUS
  <2>2. /\ redoStack # <<>> /\ Run(c) /\ redoStack' = Front(redoStack) /\ c \in Asked
        /\ MayRun(c)
    BY <1>2, <2>1, RedoFits DEF Redo
  <2>3. redoStack \in Seq(Held)
    BY DEF UInv, TypeOK
  <2>4. /\ redoStack' \in Seq(Held)
        /\ \A j \in DOMAIN redoStack' : j \in DOMAIN redoStack /\ redoStack'[j] = redoStack[j]
    BY <2>2, <2>3, Popped
  <2> QED
    BY <1>2, <2>2, <2>4, RunKeeps
<1>3. CASE Undo /\ UNCHANGED menu
  BY <1>3, UndoKeeps
<1>4. CASE Clear /\ UNCHANGED menu
  BY <1>4, ClearKeeps
<1>5. CASE UNCHANGED vars
  BY <1>5, StutterKeeps
<1> QED
  BY <1>1, <1>2, <1>3, <1>4, <1>5 DEF Next

LEMMA InitHolds == Init => UInv
<1> SUFFICES ASSUME Init PROVE UInv
  OBVIOUS
<1> USE DEF Init
<1>1. undoStack \in Seq(Held) /\ redoStack \in Seq(Held) /\ DOMAIN undoStack = {}
      /\ DOMAIN redoStack = {}
  OBVIOUS
<1>2. TypeOK
  BY <1>1 DEF TypeOK
<1> QED
  BY <1>1, <1>2 DEF UInv, InOrder, Drawn, DoneFits, UndoneFits, Live

(* The history variables of UndoTimeline only watch.                       *)
LEMMA TimelineIsHistory == HSpec => Spec
<1>1. HInit => Init
  BY DEF HInit
<1>2. [HNext]_hvars => [Next]_vars
  BY DEF HNext, HExecute, HUndo, HRedo, HClear, Next, hvars, vars
<1> QED
  BY <1>1, <1>2, PTL DEF HSpec, Spec

THEOREM Invariant == Spec => []UInv
<1>1. Init => UInv
  BY InitHolds
<1>2. UInv /\ [Next]_vars => UInv'
  BY NextKeeps
<1> QED
  BY <1>1, <1>2, PTL DEF Spec

(* The rows, the counters and every command on both stacks are of their    *)
(* types, whatever is done, undone and redone.                             *)
THEOREM TypeCorrect == Spec => []TypeOK
<1>1. UInv => TypeOK
  BY DEF UInv
<1> QED
  BY <1>1, Invariant, PTL

(* The snapshots of a void on top of the stack are of the rows its         *)
(* transfer has, and all of those are void.                                *)
THEOREM VoidFits == HSpec => []VoidSnapshotFits
<1>1. ASSUME UInv
      PROVE  VoidSnapshotFits
  <2> SUFFICES ASSUME undoStack # <<>>, Last(undoStack).op = "void"
               PROVE  LET c == Last(undoStack)
                      IN  /\ {k.row : k \in Range(c.snapshots)} = Legs(c.tid)
                          /\ Marks(Legs(c.tid)) = {"void"}
    BY DEF VoidSnapshotFits
  <2>1. undoStack \in Seq(Held)
    BY <1>1 DEF UInv, TypeOK
  <2>2. Last(undoStack) = undoStack[Len(undoStack)] /\ Len(undoStack) \in DOMAIN undoStack
    BY <2>1, Popped
  <2>3. PICK c : c = Last(undoStack)
    OBVIOUS
  <2>4. Restored(c) = Legs(c.tid) /\ Legs(c.tid) # {} /\ Struck(c.tid)
    BY <1>1, <2>2, <2>3 DEF UInv, DoneFits, Shows
  <2>5. {k.row : k \in Range(c.snapshots)} = Restored(c)
    BY DEF Range, Restored
  <2>6. Marks(Legs(c.tid)) = {"void"}
    BY <2>4 DEF Marks, Struck
  <2> QED
    BY <2>3, <2>4, <2>5, <2>6
<1> QED
  BY <1>1, Invariant, TimelineIsHistory, PTL

----------------------------------------------------------------------------
(* The lock of a reconciled row.                                           *)

Locked(r) == Live(r) /\ rows[r].status = "reconciled"

(* A run sets a lock only to finish and never takes one off.               *)
LEMMA RunLocks ==
    ASSUME UInv, NEW c \in Asked, Run(c), NEW r \in RowId
    PROVE  /\ Locked(r)' /\ ~Locked(r) => c.op = "finish"
           /\ Locked(r) => Locked(r)' /\ rows'[r].amount = rows[r].amount
<1> USE RowAssumption DEF UInv
<1>1. RowStep(c, r)
  BY RunRows
<1>2. Locked(r)' /\ ~Locked(r) => c.op = "finish"
  BY <1>1 DEF RowStep, Locked, Live
<1>3. ASSUME Locked(r), c.op = "finish"
      PROVE  Locked(r)' /\ rows'[r].amount = rows[r].amount
  <2>1. rows' = [x \in RowId |-> IF x \in c.rows
                                 THEN [rows[x] EXCEPT !.status = "reconciled"] ELSE rows[x]]
    BY <1>3 DEF Run, RunCreate, RunEdit, RunDelete, RunVoid, RunMark, RunFinish, RunClose,
       RunReopen
  <2>2. rows[r] \in Row /\ "reconciled" \in Status
    BY <1>3 DEF TypeOK, Locked, Live, Status
  <2> QED
    BY <1>3, <2>1, <2>2, Marked DEF Locked, Live
<1>4. ASSUME Locked(r), c.op # "finish"
      PROVE  Locked(r)' /\ rows'[r].amount = rows[r].amount
  BY <1>1, <1>4 DEF RowStep, Locked, Live
<1> QED
  BY <1>2, <1>3, <1>4

(* An undo sets no lock and takes one off only from a finish.              *)
LEMMA RevertLocks ==
    ASSUME UInv, NEW c \in Held, Revert(c), c.op = "void" => Shows(c), NEW r \in RowId
    PROVE  /\ Locked(r)' => Locked(r)
           /\ Locked(r) => Live(r)' /\ rows'[r].amount = rows[r].amount
           /\ Locked(r) /\ ~Locked(r)' => c.op = "finish"
<1> USE RowAssumption DEF UInv
<1>1. RowStep(c, r)
  BY RevertRows
<1>2. CASE c.op = "finish"
  <2>1. /\ \A k \in c.before : Live(k.row)
        /\ rows' = [x \in RowId |->
              LET mine == {k \in c.before : k.row = x} IN
              IF mine = {} \/ rows[x].status # "reconciled" THEN rows[x]
              ELSE [rows[x] EXCEPT !.status = (CHOOSE k \in mine : TRUE).status]]
    BY <1>2 DEF Revert, UndoCreate, UndoEdit, UndoDelete, UndoVoid, UndoMark, UndoFinish,
                UndoClose, UndoReopen
  <2>2. Locked(r)' => Locked(r)
    <3> DEFINE mine == {k \in c.before : k.row = r}
    <3>1. CASE mine = {} \/ rows[r].status # "reconciled"
      BY <2>1, <3>1 DEF Locked, Live
    <3>2. CASE mine # {} /\ rows[r].status = "reconciled"
      BY <2>1, <3>2 DEF Locked
    <3> QED
      BY <3>1, <3>2
  <2>3. Locked(r) => Live(r)' /\ rows'[r].amount = rows[r].amount
    BY <1>1, <1>2 DEF RowStep, Locked, Live
  <2> QED
    BY <1>2, <2>2, <2>3
<1>3. CASE c.op # "finish"
  BY <1>1, <1>3 DEF RowStep, Locked, Live
<1> QED
  BY <1>2, <1>3

(* Only finishing a reconciliation locks a row and only undoing it takes   *)
(* the lock off, and nothing changes the amount of a locked row.           *)
THEOREM LockHolds == HSpec => ReconciledOnlyByFinish
<1> DEFINE Keeps ==
      \A r \in RowId :
          LET was == Live(r) /\ rows[r].status = "reconciled"
              is  == Live(r)' /\ rows'[r].status = "reconciled"
          IN /\ is /\ ~ was => Last(undoStack').op = "finish"
             /\ was => Live(r)' /\ rows'[r].amount = rows[r].amount
             /\ was /\ ~ is => Last(undoStack).op = "finish"
<1>1. ASSUME UInv, NEW c \in Asked, Run(c)
      PROVE  Keeps
  <2>1. PICK d : undoStack' = Append(undoStack, d) /\ Becomes(c, d)
    BY <1>1, RunResult DEF UInv
  <2>2. Last(undoStack').op = c.op
    BY <2>1, Pushed, <1>1 DEF UInv, TypeOK, Becomes
  <2>3. ASSUME NEW r \in RowId
        PROVE  /\ Locked(r)' /\ ~Locked(r) => c.op = "finish"
               /\ Locked(r) => Locked(r)' /\ rows'[r].amount = rows[r].amount
    BY <1>1, RunLocks
  <2> QED
    BY <2>2, <2>3 DEF Locked
<1>2. ASSUME UInv, Undo
      PROVE  Keeps
  <2>1. PICK c : c = Last(undoStack)
    OBVIOUS
  <2>2. undoStack \in Seq(Held) /\ undoStack # <<>>
    BY <1>2 DEF UInv, TypeOK, Undo
  <2>3. c = undoStack[Len(undoStack)] /\ Len(undoStack) \in DOMAIN undoStack /\ c \in Held
    BY <2>1, <2>2, Popped
  <2>4. Revert(c) /\ Shows(c)
    BY <1>2, <2>1, <2>3 DEF UInv, DoneFits, Undo
  <2>5. ASSUME NEW r \in RowId
        PROVE  /\ Locked(r)' => Locked(r)
               /\ Locked(r) => Live(r)' /\ rows'[r].amount = rows[r].amount
               /\ Locked(r) /\ ~Locked(r)' => c.op = "finish"
    BY <1>2, <2>3, <2>4, RevertLocks
  <2> QED
    BY <2>1, <2>5 DEF Locked
<1>3. ASSUME UInv, [Next]_vars
      PROVE  Keeps \/ UNCHANGED vars
  <2>1. ASSUME NEW c \in Offered, Execute(c)
        PROVE  Keeps
    BY <1>1, <1>3, <2>1, OfferedFits DEF Execute
  <2>2. ASSUME Redo
        PROVE  Keeps
    <3>1. PICK c : c = Last(redoStack)
      OBVIOUS
    <3>2. Run(c) /\ c \in Asked
      BY <1>3, <2>2, <3>1, RedoFits DEF Redo
    <3> QED
      BY <1>1, <1>3, <3>2
  <2>3. ASSUME Clear
        PROVE  Keeps
    BY <2>3 DEF Clear, Live
  <2> QED
    BY <1>2, <1>3, <2>1, <2>2, <2>3 DEF Next
<1>4. UInv /\ [Next]_vars => [Keeps]_vars
  BY <1>3
<1> QED
  BY <1>4, Invariant, TimelineIsHistory, PTL DEF Spec, ReconciledOnlyByFinish

----------------------------------------------------------------------------
(* What a create, an edit, a finish or a close on the undo stack can count *)
(* on, once the commands above it are undone.                              *)

Above(i) == {j \in DOMAIN undoStack : i < j}

(* The two legs of a transfer mirror each other, or both are struck.       *)
Mirrored(f, o) ==
    /\ rows[f].status # "void" /\ rows[o].status # "void"
    /\ rows[o].amount > 0 /\ rows[f].amount = -rows[o].amount

Zeroed(f, o) ==
    /\ rows[f].status = "void" /\ rows[o].status = "void"
    /\ rows[f].amount = 0 /\ rows[o].amount = 0

PairOf(t, f, o) ==
    /\ Legs(t) = {f, o} /\ f # o /\ rows[f].acct # rows[o].acct
    /\ Mirrored(f, o) \/ Zeroed(f, o)

PairedAt(t) == Legs(t) = {} \/ \E f, o \in RowId : PairOf(t, f, o)

Paired == \A t \in TransferId : PairedAt(t)

(* The transfer of a create or an edit was not drawn later; it has legs,   *)
(* or a command above deleted it; if a leg is locked, a command above did  *)
(* it.                                                                     *)
Owns(c) == c.op \in {"create", "edit"}

Takes(op, t, i) == \E j \in Above(i) : undoStack[j].op = op /\ undoStack[j].tid = t

Caught(r, c) == \E k \in c.before : k.row = r

Owner(c, i) == Owns(c) =>
    /\ c.tid \in minted /\ ~ Takes("create", c.tid, i)
    /\ Legs(c.tid) # {} \/ Takes("delete", c.tid, i)
    /\ \A r \in Legs(c.tid) : Locked(r) =>
         \E j \in Above(i) : undoStack[j].op = "finish" /\ Caught(r, undoStack[j])

(* The accounts of transfer t above command i: those of its legs, or of    *)
(* the legs that undoing its delete would bring back.                      *)
Home(a, t, i) ==
    \/ \E r \in Legs(t) : rows[r].acct = a
    \/ \E j \in Above(i) : /\ undoStack[j].op = "delete" /\ undoStack[j].tid = t
                           /\ a \in {undoStack[j].spec.from, undoStack[j].spec.to}

(* Closing and reopening of an account above command i alternate, with the *)
(* account open, or closed, at command i.                                  *)
Switched(op, a, i) == \E j \in Above(i) : undoStack[j].op = op /\ undoStack[j].acct = a

Between(op, a, i, j) ==
    \E k \in Above(i) : k < j /\ undoStack[k].op = op /\ undoStack[k].acct = a

OpenAt(a, i) ==
    /\ a \notin open => Switched("close", a, i)
    /\ \A j \in Above(i) : undoStack[j].op = "reopen" /\ undoStack[j].acct = a
                           => Between("close", a, i, j)

ClosedAt(a, i) ==
    /\ a \in open => Switched("reopen", a, i)
    /\ \A j \in Above(i) : undoStack[j].op = "close" /\ undoStack[j].acct = a
                           => Between("reopen", a, i, j)

(* Below what voided it or closed its accounts, an edited transfer counts, *)
(* on open accounts.                                                       *)
Editor(c, i) == c.op = "edit" =>
    /\ \A r \in Legs(c.tid) : rows[r].status = "void" => Takes("void", c.tid, i)
    /\ \A a \in Account : Home(a, c.tid, i) => OpenAt(a, i)

Closer(c, i) == c.op = "close" => ClosedAt(c.acct, i)

(* What a finish caught is still locked, and no other finish caught it.    *)
Finisher(c, i) == c.op = "finish" => \A k \in c.before :
    /\ Locked(k.row) /\ k.status # "void"
    /\ \A j \in Above(i) : undoStack[j].op = "finish" => ~ Caught(k.row, undoStack[j])

(* A mark is undone, or done again, on a row that is not void then.        *)
Marker(c, i) == c.op = "mark" =>
    (Live(c.row) /\ rows[c.row].status = "void" =>
       \E j \in Above(i) : undoStack[j].op = "void" /\ c.row \in Restored(undoStack[j]))

MarksAgain == \A j \in DOMAIN redoStack : redoStack[j].op = "mark" =>
    (Live(redoStack[j].row) => rows[redoStack[j].row].status # "void")

(* What an edit and a void would write back is a transfer that counts.     *)
Sound(c) ==
    /\ c.op = "edit" => c.before.amount > 0 /\ c.before.status # "void"
    /\ c.op = "void" /\ Len(c.snapshots) = 2 =>
         /\ c.snapshots[1].row # c.snapshots[2].row
         /\ c.snapshots[1].status # "void" /\ c.snapshots[2].status # "void"
         /\ c.snapshots[2].amount > 0 /\ c.snapshots[1].amount = -c.snapshots[2].amount

Holds(c, i) ==
    /\ Owner(c, i) /\ Editor(c, i) /\ Closer(c, i) /\ Finisher(c, i) /\ Marker(c, i)
    /\ Sound(c)

Returns ==
    /\ Paired
    /\ \A i \in DOMAIN undoStack : Holds(undoStack[i], i)
    /\ MarksAgain

----------------------------------------------------------------------------
(* What a step does to the rows, seen by transfer, account and status.     *)

LEMMA LegIs ==
    ASSUME TypeOK, NEW t, NEW r \in Legs(t)
    PROVE  /\ r \in RowId /\ Live(r) /\ rows[r] \in Row /\ rows[r].tid = t
           /\ t \in TransferId /\ rows[r].acct \in Account
BY DEF Legs, Live, TypeOK, Row

LEMMA StaysLeg ==
    ASSUME TypeOK, NEW c, NEW r \in RowId, RowStep(c, r), Live(r), Live(r)'
    PROVE  rows'[r].tid = rows[r].tid /\ rows'[r].acct = rows[r].acct
BY RowAssumption DEF RowStep, Live

LEMMA RunVoids ==
    ASSUME TypeOK, NEW c \in Asked, Run(c), NEW r \in RowId, Live(r)', rows'[r].status = "void"
    PROVE  Live(r) /\ (rows[r].status = "void" \/ (c.op = "void" /\ r \in Legs(c.tid)))
<1> USE RowAssumption
<1>1. CASE RunCreate(c)
  <2>1. c.spec.status # "void"
    BY <1>1 DEF RunCreate, GuardSpec
  <2> DEFINE out == [tid |-> NewTransfer, acct |-> c.spec.from, amount |-> -c.spec.amount,
                     status |-> c.spec.status]
             in  == [tid |-> NewTransfer, acct |-> c.spec.to, amount |-> c.spec.amount,
                     status |-> c.spec.status]
  <2>2. rows' = [rows EXCEPT ![FreshFrom] = out, ![FreshTo] = in]
    BY <1>1 DEF RunCreate, WithPair
  <2>3. out.status # "void" /\ in.status # "void"
    BY <2>1
  <2> HIDE DEF out, in
  <2>4. rows'[r] = rows[r]
    BY <2>2, <2>3 DEF TypeOK
  <2> QED
    BY <2>4 DEF Live
<1>2. CASE RunEdit(c)
  <2>1. PICK f, o \in Legs(c.tid) : UpdateLegs(c.tid, f, o, c.values)
    BY <1>2 DEF RunEdit
  <2>2. c.values.status # "void"
    BY <2>1 DEF UpdateLegs, MayUpdate, GuardSpec
  <2>3. f \in RowId /\ o \in RowId /\ rows[f] \in Row /\ rows[o] \in Row
    BY <2>1, LegIs
  <2>4. /\ rows' = WithValues(f, o, c.values)
        /\ c.values.amount \in Signed /\ c.values.status \in Status /\ -c.values.amount \in Signed
    BY <1>2, <2>1, AskedKinds, Negated DEF UpdateLegs, RunEdit, Values, Kept
  <2>5. rows' = [rows EXCEPT ![f] = Rewrite(rows[f], -c.values.amount, c.values.status),
                             ![o] = Rewrite(rows[o], c.values.amount, c.values.status)]
    BY <2>3, <2>4 DEF WithValues, Rewrite, TypeOK
  <2>6. rows'[r] = rows[r]
    BY <2>2, <2>3, <2>4, <2>5, Rewritten DEF TypeOK
  <2> QED
    BY <2>6 DEF Live
<1>3. CASE RunDelete(c)
  <2>1. PICK f, o \in Legs(c.tid) : rows' = [rows EXCEPT ![f] = Deleted, ![o] = Deleted]
    BY <1>3 DEF RunDelete, DeleteLegs
  <2>2. rows'[r] = rows[r]
    BY <2>1 DEF Live, TypeOK
  <2> QED
    BY <2>2 DEF Live
<1>4. CASE RunVoid(c)
  <2>1. PICK f, o \in Legs(c.tid) :
          /\ IsTransfer(c.tid, f, o)
          /\ rows' = [rows EXCEPT ![f] = [@ EXCEPT !.amount = 0, !.status = "void"],
                                  ![o] = [@ EXCEPT !.amount = 0, !.status = "void"]]
    BY <1>4 DEF RunVoid
  <2>2. r \notin Legs(c.tid) => rows'[r] = rows[r]
    BY <2>1, VoidRows
  <2>3. c.op = "void"
    BY <1>4 DEF RunVoid
  <2> QED
    BY <2>2, <2>3, LegIs DEF Live
<1>5. CASE RunMark(c)
  <2>1. /\ c.row \in RowId /\ c.status # "void" /\ c.status \in Status /\ rows[c.row] \in Row
        /\ rows' = [rows EXCEPT ![c.row] = [rows[c.row] EXCEPT !.status = c.status]]
    BY <1>5, AskedKinds DEF RunMark, SetLegStatus, Live, Kept, TypeOK
  <2>2. rows'[r] = rows[r]
    BY <2>1, Marked DEF TypeOK
  <2> QED
    BY <2>2 DEF Live
<1>6. CASE RunFinish(c)
  <2>1. /\ \A x \in c.rows : Live(x)
        /\ rows' = [x \in RowId |-> IF x \in c.rows
                                    THEN [rows[x] EXCEPT !.status = "reconciled"] ELSE rows[x]]
    BY <1>6 DEF RunFinish
  <2>2. "reconciled" \in Status
    BY DEF Status
  <2>3. r \in c.rows => rows[r] \in Row
    BY <2>1 DEF TypeOK, Live
  <2>4. rows'[r] = rows[r]
    BY <2>1, <2>2, <2>3, Marked
  <2> QED
    BY <2>4 DEF Live
<1>7. CASE RunClose(c) \/ RunReopen(c)
  BY <1>7 DEF RunClose, RunReopen, Live
<1> QED
  BY <1>1, <1>2, <1>3, <1>4, <1>5, <1>6, <1>7 DEF Run

LEMMA RevertVoids ==
    ASSUME TypeOK, NEW c \in Held, Revert(c), c.op = "void" => Shows(c), Sound(c),
           c.op = "finish" => \A k \in c.before : k.status # "void",
           NEW r \in RowId, Live(r)', rows'[r].status = "void"
    PROVE  Live(r) /\ rows[r].status = "void" /\ ~ (c.op = "void" /\ r \in Legs(c.tid))
<1> USE RowAssumption
<1>1. CASE UndoCreate(c)
  <2>1. PICK f, o \in Legs(c.tid) : rows' = [rows EXCEPT ![f] = Deleted, ![o] = Deleted]
    BY <1>1 DEF UndoCreate, DeleteLegs
  <2>2. rows'[r] = rows[r] /\ c.op = "create"
    BY <1>1, <2>1 DEF Live, TypeOK, UndoCreate
  <2> QED
    BY <2>2 DEF Live
<1>2. CASE UndoEdit(c)
  <2>1. PICK f, o \in Legs(c.tid) : UpdateLegs(c.tid, f, o, c.before)
    BY <1>2 DEF UndoEdit
  <2>2. c.before.status # "void" /\ c.op = "edit"
    BY <1>2, <2>1 DEF UpdateLegs, MayUpdate, GuardSpec, UndoEdit
  <2>3. f \in RowId /\ o \in RowId /\ rows[f] \in Row /\ rows[o] \in Row
    BY <2>1, LegIs
  <2>4. /\ rows' = WithValues(f, o, c.before)
        /\ c.before.amount \in Signed /\ c.before.status \in Status /\ -c.before.amount \in Signed
    BY <2>1, <2>2, HeldKinds, Negated DEF UpdateLegs, Values, Kept
  <2>5. rows' = [rows EXCEPT ![f] = Rewrite(rows[f], -c.before.amount, c.before.status),
                             ![o] = Rewrite(rows[o], c.before.amount, c.before.status)]
    BY <2>3, <2>4 DEF WithValues, Rewrite, TypeOK
  <2>6. rows'[r] = rows[r]
    BY <2>2, <2>3, <2>4, <2>5, Rewritten DEF TypeOK
  <2> QED
    BY <2>2, <2>6 DEF Live
<1>3. CASE UndoDelete(c)
  <2>1. c.spec.status # "void" /\ c.op = "delete"
    BY <1>3 DEF UndoDelete, GuardSpec
  <2> DEFINE out == [tid |-> c.tid, acct |-> c.spec.from, amount |-> -c.spec.amount,
                     status |-> c.spec.status]
             in  == [tid |-> c.tid, acct |-> c.spec.to, amount |-> c.spec.amount,
                     status |-> c.spec.status]
  <2>2. rows' = [rows EXCEPT ![FreshFrom] = out, ![FreshTo] = in]
    BY <1>3 DEF UndoDelete, WithPair
  <2>3. out.status # "void" /\ in.status # "void"
    BY <2>1
  <2> HIDE DEF out, in
  <2>4. rows'[r] = rows[r]
    BY <2>2, <2>3 DEF TypeOK
  <2> QED
    BY <2>1, <2>4 DEF Live
<1>4. CASE UndoVoid(c)
  <2>1. /\ c.op = "void" /\ Len(c.snapshots) = 2 /\ c.snapshots \in Seq(Snapshot)
        /\ \A i \in 1..2 : c.snapshots[i].row \in Legs(c.tid)
    BY <1>4, HeldKinds DEF UndoVoid
  <2>2. DOMAIN c.snapshots = 1..2 /\ \A i \in 1..2 : c.snapshots[i] \in Snapshot
    BY <2>1
  <2>3. \A i \in 1..2 : c.snapshots[i].status \in Status /\ c.snapshots[i].status # "void"
                        /\ c.snapshots[i].amount \in Signed
    BY <2>1, <2>2 DEF Sound, Snapshot, Kept
  <2>4. r \in Legs(c.tid) => \E i \in 1..2 : c.snapshots[i].row = r
    BY <2>1, <2>2 DEF Shows, Restored
  <2>5. CASE \E i \in 1..2 : c.snapshots[i].row = r
    <3> DEFINE i == IF c.snapshots[2].row = r THEN 2 ELSE 1
    <3>1. i \in 1..2 /\ r \in Legs(c.tid)
      BY <2>1, <2>5
    <3>2. rows[r] \in Row
      BY <3>1, LegIs
    <3>3. rows'[r] = Rewrite(rows[r], c.snapshots[i].amount, c.snapshots[i].status)
      BY <1>4, <2>5 DEF UndoVoid, Rewrite
    <3> HIDE DEF i
    <3> QED
      BY <2>3, <3>1, <3>2, <3>3, Rewritten
  <2>6. CASE ~ \E i \in 1..2 : c.snapshots[i].row = r
    <3>1. rows'[r] = rows[r]
      BY <1>4, <2>6 DEF UndoVoid
    <3> QED
      BY <2>4, <2>6, <3>1 DEF Live
  <2> QED
    BY <2>5, <2>6
<1>5. CASE UndoMark(c)
  <2>1. /\ c.op = "mark" /\ c.row \in RowId /\ c.before # "void" /\ c.before \in Status
        /\ rows[c.row] \in Row
        /\ rows' = [rows EXCEPT ![c.row] = [rows[c.row] EXCEPT !.status = c.before]]
    BY <1>5, HeldKinds DEF UndoMark, SetLegStatus, Live, Kept, TypeOK
  <2>2. rows'[r] = rows[r]
    BY <2>1, Marked DEF TypeOK
  <2> QED
    BY <2>1, <2>2 DEF Live
<1>6. CASE UndoFinish(c)
  <2> DEFINE mine == {k \in c.before : k.row = r}
  <2>1. c.op = "finish" /\ c.before \subseteq Snapshot
    BY <1>6, HeldKinds DEF UndoFinish
  <2>2. CASE mine = {} \/ rows[r].status # "reconciled"
    <3>1. rows'[r] = rows[r]
      BY <1>6, <2>2 DEF UndoFinish
    <3> QED
      BY <2>1, <3>1 DEF Live
  <2>3. CASE mine # {} /\ rows[r].status = "reconciled"
    <3>1. rows'[r] = [rows[r] EXCEPT !.status = (CHOOSE k \in mine : TRUE).status]
      BY <1>6, <2>3 DEF UndoFinish
    <3>2. (CHOOSE k \in mine : TRUE) \in mine
      BY <2>3
    <3>3. /\ (CHOOSE k \in mine : TRUE).status \in Status
          /\ (CHOOSE k \in mine : TRUE).status # "void" /\ Live(r) /\ rows[r] \in Row
      BY <1>6, <2>1, <3>2 DEF Snapshot, Kept, TypeOK, Live, UndoFinish
    <3> HIDE DEF mine
    <3> QED
      BY <3>1, <3>3, Marked
  <2> QED
    BY <2>2, <2>3
<1>7. CASE UndoClose(c) \/ UndoReopen(c)
  BY <1>7 DEF UndoClose, UndoReopen, Live
<1> QED
  BY <1>1, <1>2, <1>3, <1>4, <1>5, <1>6, <1>7 DEF Revert

(* Undoing a finish takes the mark off everything it caught.               *)
LEMMA RevertFrees ==
    ASSUME TypeOK, NEW c \in Held, Revert(c), c.op = "finish", NEW r \in RowId
    PROVE  /\ Locked(r)' => ~ Caught(r, c)
           /\ Locked(r) /\ ~ Locked(r)' => Caught(r, c)
<1> USE RowAssumption
<1> DEFINE mine == {k \in c.before : k.row = r}
<1>1. c.before \subseteq Snapshot /\ UndoFinish(c)
  BY HeldKinds DEF Revert, UndoCreate, UndoEdit, UndoDelete, UndoVoid, UndoMark, UndoFinish,
                   UndoClose, UndoReopen
<1>2. Caught(r, c) <=> mine # {}
  BY DEF Caught
<1>3. CASE mine = {} \/ rows[r].status # "reconciled"
  <2>1. rows'[r] = rows[r]
    BY <1>1, <1>3 DEF UndoFinish
  <2> QED
    BY <1>2, <1>3, <2>1 DEF Locked, Live
<1>4. CASE mine # {} /\ rows[r].status = "reconciled"
  <2>1. rows'[r] = [rows[r] EXCEPT !.status = (CHOOSE k \in mine : TRUE).status]
    BY <1>1, <1>4 DEF UndoFinish
  <2>2. (CHOOSE k \in mine : TRUE) \in mine
    BY <1>4
  <2>3. /\ (CHOOSE k \in mine : TRUE).status \in Status
        /\ (CHOOSE k \in mine : TRUE).status # "reconciled" /\ rows[r] \in Row
    BY <1>1, <2>2 DEF Snapshot, Kept, TypeOK, Live, UndoFinish
  <2>4. rows'[r].status # "reconciled"
    <3> HIDE DEF mine
    <3> QED
      BY <2>1, <2>3, Marked
  <2> QED
    BY <1>2, <1>4, <2>4 DEF Locked
<1> QED
  BY <1>3, <1>4
----------------------------------------------------------------------------
(* Transfers stay pairs.                                                   *)

SameLook(r) ==
    /\ rows'[r].acct = rows[r].acct /\ rows'[r].amount = rows[r].amount
    /\ rows'[r].status = "void" <=> rows[r].status = "void"

LEMMA PairStays ==
    ASSUME NEW t, PairedAt(t),
           \A r \in RowId : r \in Legs(t)' <=> r \in Legs(t), \A r \in Legs(t) : SameLook(r)
    PROVE  PairedAt(t)'
<1>1. Legs(t)' = Legs(t)
  BY DEF Legs
<1>2. CASE Legs(t) = {}
  BY <1>1, <1>2 DEF PairedAt
<1>3. ASSUME NEW f \in RowId, NEW o \in RowId, PairOf(t, f, o)
      PROVE  PairedAt(t)'
  <2>1. f \in Legs(t) /\ o \in Legs(t)
    BY <1>3 DEF PairOf
  <2>2. SameLook(f) /\ SameLook(o)
    BY <2>1
  <2>3. PairOf(t, f, o)'
    BY <1>1, <1>3, <2>2 DEF PairOf, SameLook, Mirrored, Zeroed
  <2> QED
    BY <2>3 DEF PairedAt
<1> QED
  BY <1>2, <1>3 DEF PairedAt

LEMMA Oriented ==
    ASSUME TypeOK, NEW t, PairedAt(t), NEW f \in Legs(t), NEW o \in Legs(t), IsTransfer(t, f, o),
           "void" \notin Marks({f, o})
    PROVE  PairOf(t, f, o) /\ Mirrored(f, o)
<1>1. PICK x, y \in RowId : PairOf(t, x, y)
  BY DEF PairedAt
<1>2. {f, o} = {x, y} /\ f # o
  BY <1>1 DEF PairOf, IsTransfer
<1>3. rows[f].status # "void" /\ rows[o].status # "void"
  BY DEF Marks
<1>4. Mirrored(x, y)
  BY <1>1, <1>2, <1>3 DEF PairOf, Zeroed
<1>5. f = x /\ o = y
  <2>1. rows[x].amount \in Int /\ rows[y].amount \in Int
    BY <1>1, LegIs, Negated DEF PairOf, Row
  <2>2. rows[x].amount < 0 /\ ~ rows[y].amount < 0 /\ ~ rows[x].amount >= 0
    BY <1>4, <2>1 DEF Mirrored
  <2>3. rows[f].amount < 0 \/ rows[o].amount >= 0
    BY DEF IsTransfer
  <2> QED
    BY <1>2, <2>2, <2>3
<1> QED
  BY <1>1, <1>4, <1>5

LEMMA HasLegs ==
    ASSUME TypeOK, NEW t, PairedAt(t), Legs(t) # {}
    PROVE  \E f, o \in Legs(t) : IsTransfer(t, f, o) /\ rows[f].acct # rows[o].acct
<1>1. PICK x, y \in RowId : PairOf(t, x, y)
  BY DEF PairedAt
<1>2. x \in Legs(t) /\ y \in Legs(t) /\ Legs(t) = {x, y} /\ Legs(t) = {y, x} /\ x # y
  BY <1>1 DEF PairOf
<1>3. x \in Nat /\ y \in Nat
  BY HistoryAssumption
<1>4. rows[x].amount \in Int /\ rows[y].amount \in Int
  BY <1>2, LegIs, Negated DEF Row
<1>5. IsTransfer(t, x, y) \/ IsTransfer(t, y, x)
  BY <1>2, <1>3, <1>4 DEF IsTransfer
<1> QED
  BY <1>1, <1>2, <1>5 DEF PairOf

(* Two new rows.                                                           *)
LEMMA NewPair ==
    ASSUME TypeOK, Paired, Cardinality(FreshRows) >= 2, NEW t \in TransferId, Legs(t) = {},
           NEW s \in TransferSpec, GuardSpec(s), rows' = WithPair(t, s)
    PROVE  /\ Paired' /\ Legs(t)' # {}
           /\ \A r \in Legs(t)' : rows'[r].acct \in {s.from, s.to}
<1> DEFINE out == [tid |-> t, acct |-> s.from, amount |-> -s.amount, status |-> s.status]
           in  == [tid |-> t, acct |-> s.to, amount |-> s.amount, status |-> s.status]
<1>1. s.amount \in Int /\ s.amount > 0 /\ s.from # s.to /\ s.status # "void"
  BY Negated DEF TransferSpec, GuardSpec
<1>2. PICK f, o \in RowId : /\ f = FreshFrom /\ o = FreshTo /\ f # o
                           /\ rows[f] = Unused /\ rows[o] = Unused
  BY FreshTwo
<1>3. rows' = [rows EXCEPT ![f] = out, ![o] = in]
  BY <1>2 DEF WithPair
<1>4. s.amount \in Signed /\ -s.amount \in Signed /\ s.status \in Status
  BY Negated DEF TransferSpec, Kept
<1>5. out \in Row /\ in \in Row
  BY <1>4 DEF Row, TransferSpec
<1>6. rows'[f] = out /\ rows'[o] = in
  BY <1>2, <1>3 DEF TypeOK
<1>7. \A r \in RowId : r # f /\ r # o => rows'[r] = rows[r]
  BY <1>2, <1>3 DEF TypeOK
<1>8. out.tid = t /\ in.tid = t /\ Live(f)' /\ Live(o)'
  BY <1>5, <1>6, RowAssumption DEF Live
<1>9. \A r \in RowId : r \in Legs(t)' <=> r \in {f, o}
  BY <1>2, <1>6, <1>7, <1>8 DEF Legs, Live
<1>10. Legs(t)' = {f, o}
  BY <1>2, <1>9 DEF Legs
<1>11. Mirrored(f, o)'
  BY <1>1, <1>6 DEF Mirrored
<1>12. PairOf(t, f, o)'
  BY <1>1, <1>2, <1>6, <1>10, <1>11 DEF PairOf
<1>13. PairedAt(t)'
  BY <1>2, <1>12 DEF PairedAt
<1>14. ASSUME NEW u \in TransferId, u # t
       PROVE  PairedAt(u)'
  <2>1. \A r \in RowId : r \in Legs(u)' <=> r \in Legs(u)
    BY <1>2, <1>6, <1>7, <1>8, <1>14 DEF Legs, Live
  <2>2. \A r \in Legs(u) : SameLook(r)
    BY <1>2, <1>7 DEF Legs, Live, SameLook
  <2> QED
    BY <2>1, <2>2, PairStays DEF Paired
<1>15. \A r \in Legs(t)' : rows'[r].acct \in {s.from, s.to}
  BY <1>6, <1>10
<1> QED
  BY <1>10, <1>13, <1>14, <1>15 DEF Paired

LEMMA UpdatePairs ==
    ASSUME TypeOK, Paired, NEW t, NEW f \in Legs(t), NEW o \in Legs(t), NEW v \in Values,
           UpdateLegs(t, f, o, v)
    PROVE  Paired'
<1>1. /\ f \in RowId /\ o \in RowId /\ rows[f] \in Row /\ rows[o] \in Row /\ Live(f) /\ Live(o)
      /\ rows[f].tid = t /\ rows[o].tid = t /\ t \in TransferId
  BY LegIs
<1>2. /\ f # o /\ Legs(t) = {f, o} /\ rows[f].acct # rows[o].acct /\ v.amount > 0
      /\ v.status # "void"
  BY DEF UpdateLegs, MayUpdate, GuardSpec, IsTransfer
<1>3. v.amount \in Signed /\ -v.amount \in Signed /\ v.status \in Status
  BY Negated DEF Values, Kept
<1>4. rows' = [rows EXCEPT ![f] = Rewrite(rows[f], -v.amount, v.status),
                           ![o] = Rewrite(rows[o], v.amount, v.status)]
  BY <1>1, <1>2 DEF UpdateLegs, WithValues, Rewrite, TypeOK
<1>5. /\ rows'[f] = Rewrite(rows[f], -v.amount, v.status)
      /\ rows'[o] = Rewrite(rows[o], v.amount, v.status)
      /\ \A r \in RowId : r # f /\ r # o => rows'[r] = rows[r]
  BY <1>1, <1>2, <1>4 DEF TypeOK
<1>6. /\ rows'[f] \in Row /\ rows'[f].tid = t /\ rows'[f].acct = rows[f].acct
      /\ rows'[f].amount = -v.amount /\ rows'[f].status = v.status
      /\ rows'[o] \in Row /\ rows'[o].tid = t /\ rows'[o].acct = rows[o].acct
      /\ rows'[o].amount = v.amount /\ rows'[o].status = v.status
  BY <1>1, <1>3, <1>5, Rewritten
<1>7. \A u, r : r \in RowId => (r \in Legs(u)' <=> r \in Legs(u))
  BY <1>1, <1>5, <1>6, RowAssumption DEF Legs, Live
<1>8. Legs(t)' = {f, o}
  BY <1>1, <1>2, <1>7 DEF Legs
<1>9. Mirrored(f, o)'
  BY <1>2, <1>6 DEF Mirrored
<1>10. PairOf(t, f, o)'
  BY <1>2, <1>6, <1>8, <1>9 DEF PairOf
<1>11. PairedAt(t)'
  BY <1>1, <1>10 DEF PairedAt
<1>12. ASSUME NEW u \in TransferId, u # t
       PROVE  PairedAt(u)'
  <2>1. \A r \in Legs(u) : r # f /\ r # o /\ r \in RowId
    BY <1>1, <1>12 DEF Legs
  <2>2. \A r \in Legs(u) : SameLook(r)
    BY <1>5, <2>1 DEF SameLook
  <2> QED
    BY <1>7, <2>2, PairStays DEF Paired
<1> QED
  BY <1>11, <1>12 DEF Paired

LEMMA DeletePairs ==
    ASSUME TypeOK, Paired, NEW t, NEW f \in Legs(t), NEW o \in Legs(t), DeleteLegs(t, f, o)
    PROVE  Paired' /\ Legs(t)' = {}
<1>1. /\ Legs(t) = {f, o} /\ f \in RowId /\ o \in RowId
      /\ rows[f].tid = t /\ rows[o].tid = t
  BY LegIs DEF DeleteLegs, MayDelete, IsTransfer
<1>2. rows'[f] = Deleted /\ rows'[o] = Deleted
      /\ \A r \in RowId : r # f /\ r # o => rows'[r] = rows[r]
  BY <1>1 DEF DeleteLegs, TypeOK
<1>3. Legs(t)' = {}
  BY <1>1, <1>2 DEF Legs, Live
<1>4. ASSUME NEW u \in TransferId, u # t
      PROVE  PairedAt(u)'
  <2>1. \A r \in RowId : r \in Legs(u)' <=> r \in Legs(u)
    BY <1>1, <1>2, <1>4 DEF Legs, Live
  <2>2. \A r \in Legs(u) : SameLook(r)
    BY <1>1, <1>2, <1>4 DEF Legs, SameLook
  <2> QED
    BY <2>1, <2>2, PairStays DEF Paired
<1> QED
  BY <1>3, <1>4 DEF Paired, PairedAt

(* Only statuses change, and none to or from void.                         *)
LEMMA StatusPairs ==
    ASSUME TypeOK, Paired, NEW c, \A r \in RowId : RowStep(c, r),
           \A r \in RowId : Live(r)' <=> Live(r), \A r \in RowId : Live(r) => SameLook(r)
    PROVE  Paired'
<1>1. ASSUME NEW t \in TransferId
      PROVE  PairedAt(t)'
  <2>1. \A r \in RowId : r \in Legs(t)' <=> r \in Legs(t)
    BY StaysLeg DEF Legs
  <2>2. \A r \in Legs(t) : SameLook(r)
    BY DEF Legs
  <2> QED
    BY <2>1, <2>2, PairStays DEF Paired
<1> QED
  BY <1>1 DEF Paired

(* Both legs are rewritten, to values that mirror each other.              *)
LEMMA LegsPair ==
    ASSUME TypeOK, Paired, NEW t \in TransferId, NEW f \in RowId, NEW o \in RowId,
           Legs(t) = {f, o}, f # o, rows[f].acct # rows[o].acct,
           NEW a \in Signed, NEW b \in Signed, NEW m \in Status, NEW n \in Status,
           rows'[f] = Rewrite(rows[f], a, m), rows'[o] = Rewrite(rows[o], b, n),
           \A r \in RowId : r # f /\ r # o => rows'[r] = rows[r],
           \/ a = 0 /\ b = 0 /\ m = "void" /\ n = "void"
           \/ b > 0 /\ a = -b /\ m # "void" /\ n # "void"
    PROVE  Paired'
<1>1. /\ rows[f] \in Row /\ rows[o] \in Row /\ Live(f) /\ Live(o)
      /\ rows[f].tid = t /\ rows[o].tid = t
  BY LegIs
<1>2. /\ rows'[f] \in Row /\ rows'[f].tid = t /\ rows'[f].acct = rows[f].acct
      /\ rows'[f].amount = a /\ rows'[f].status = m
  <2>1. rows'[f] = Rewrite(rows[f], a, m)
    OBVIOUS
  <2> QED
    BY <1>1, <2>1, Rewritten
<1>3. /\ rows'[o] \in Row /\ rows'[o].tid = t /\ rows'[o].acct = rows[o].acct
      /\ rows'[o].amount = b /\ rows'[o].status = n
  <2>1. rows'[o] = Rewrite(rows[o], b, n)
    OBVIOUS
  <2> QED
    BY <1>1, <2>1, Rewritten
<1>4. /\ rows'[f] \in Row /\ rows'[f].tid = t /\ rows'[f].acct = rows[f].acct
      /\ rows'[f].amount = a /\ rows'[f].status = m
      /\ rows'[o] \in Row /\ rows'[o].tid = t /\ rows'[o].acct = rows[o].acct
      /\ rows'[o].amount = b /\ rows'[o].status = n
  BY <1>2, <1>3
<1>5. \A u, r : r \in RowId => (r \in Legs(u)' <=> r \in Legs(u))
  BY <1>1, <1>4, RowAssumption DEF Legs, Live
<1>6. Legs(t)' = {f, o}
  BY <1>5 DEF Legs
<1>7. Mirrored(f, o)' \/ Zeroed(f, o)'
  BY <1>4 DEF Mirrored, Zeroed
<1>8. PairOf(t, f, o)'
  BY <1>4, <1>6, <1>7 DEF PairOf
<1>9. PairedAt(t)'
  BY <1>8 DEF PairedAt
<1>10. ASSUME NEW u \in TransferId, u # t
       PROVE  PairedAt(u)'
  <2>1. \A r \in Legs(u) : r # f /\ r # o /\ r \in RowId
    BY <1>1, <1>10 DEF Legs
  <2>2. \A r \in Legs(u) : SameLook(r)
    BY <2>1 DEF SameLook
  <2> QED
    BY <1>5, <2>2, PairStays DEF Paired
<1> QED
  BY <1>9, <1>10 DEF Paired

LEMMA RunPairs ==
    ASSUME TypeOK, Paired, Drawn, NEW c \in Asked, Run(c),
           c.op = "mark" => rows[c.row].status # "void"
    PROVE  Paired'
<1> USE RowAssumption
<1>1. CASE RunCreate(c)
  <2>1. NewTransfer \in TransferId /\ NewTransfer \notin minted
    BY <1>1, FreshTransfer DEF RunCreate, TypeOK
  <2>2. PICK t \in TransferId : t = NewTransfer
    BY <2>1
  <2>3. Legs(t) = {}
    BY <2>1, <2>2 DEF Drawn, Legs
  <2>4. /\ c.spec \in TransferSpec /\ GuardSpec(c.spec) /\ Cardinality(FreshRows) >= 2
        /\ rows' = WithPair(t, c.spec)
    BY <1>1, <2>2, AskedKinds DEF RunCreate
  <2> QED
    BY <2>3, <2>4, NewPair
<1>2. CASE RunEdit(c)
  <2>1. PICK f, o \in Legs(c.tid) : UpdateLegs(c.tid, f, o, c.values)
    BY <1>2 DEF RunEdit
  <2>2. c.values \in Values
    BY <1>2, AskedKinds DEF RunEdit
  <2> QED
    BY <2>1, <2>2, UpdatePairs
<1>3. CASE RunDelete(c)
  <2>1. PICK f, o \in Legs(c.tid) : DeleteLegs(c.tid, f, o)
    BY <1>3 DEF RunDelete
  <2> QED
    BY <2>1, DeletePairs
<1>4. CASE RunVoid(c)
  <2>1. PICK f, o \in Legs(c.tid) :
          /\ IsTransfer(c.tid, f, o)
          /\ Marks({f, o}) \cap {"reconciled", "void"} = {}
          /\ rows' = [rows EXCEPT ![f] = [@ EXCEPT !.amount = 0, !.status = "void"],
                                  ![o] = [@ EXCEPT !.amount = 0, !.status = "void"]]
    BY <1>4 DEF RunVoid
  <2>2. f \in RowId /\ o \in RowId /\ c.tid \in TransferId
    BY <2>1, LegIs
  <2>3. Legs(c.tid) = {f, o} /\ f # o /\ rows[f].acct # rows[o].acct
    BY <2>1, <2>2, Oriented DEF Paired, PairOf
  <2>4. /\ rows'[f] = Rewrite(rows[f], 0, "void") /\ rows'[o] = Rewrite(rows[o], 0, "void")
        /\ \A r \in RowId : r # f /\ r # o => rows'[r] = rows[r]
    BY <2>1, <2>2, <2>3 DEF Rewrite, TypeOK
  <2>5. 0 \in Signed /\ "void" \in Status
    BY DEF Signed, Status
  <2> QED
    BY <2>2, <2>3, <2>4, <2>5, LegsPair
<1>5. CASE RunMark(c)
  <2>1. /\ c.op = "mark" /\ c.row \in RowId /\ c.status # "void" /\ c.status \in Status
        /\ rows[c.row] \in Row /\ Live(c.row)
        /\ rows' = [rows EXCEPT ![c.row] = [rows[c.row] EXCEPT !.status = c.status]]
    BY <1>5, AskedKinds DEF RunMark, SetLegStatus, Live, Kept, TypeOK
  <2>2. \A r \in RowId : SameLook(r) /\ (Live(r)' <=> Live(r))
    BY <2>1, Marked DEF SameLook, TypeOK, Live
  <2> QED
    BY <2>2, RunRows, StatusPairs
<1>6. CASE RunFinish(c)
  <2>1. /\ \A x \in c.rows : Live(x) /\ rows[x].status # "void"
        /\ rows' = [x \in RowId |-> IF x \in c.rows
                                    THEN [rows[x] EXCEPT !.status = "reconciled"] ELSE rows[x]]
    BY <1>6 DEF RunFinish
  <2>2. "reconciled" \in Status
    BY DEF Status
  <2>3. \A r \in RowId : r \in c.rows => rows[r] \in Row
    BY <2>1 DEF TypeOK, Live
  <2>4. \A r \in RowId : SameLook(r) /\ (Live(r)' <=> Live(r))
    BY <2>1, <2>2, <2>3, Marked DEF SameLook, Live
  <2> QED
    BY <2>4, RunRows, StatusPairs
<1>7. CASE RunClose(c) \/ RunReopen(c)
  <2>1. \A r \in RowId : SameLook(r) /\ (Live(r)' <=> Live(r))
    BY <1>7 DEF RunClose, RunReopen, SameLook, Live
  <2> QED
    BY <2>1, RunRows, StatusPairs
<1> QED
  BY <1>1, <1>2, <1>3, <1>4, <1>5, <1>6, <1>7 DEF Run

LEMMA RevertPairs ==
    ASSUME TypeOK, Paired, NEW c \in Held, Revert(c), Removes(c) => Shows(c), Sound(c),
           c.op = "finish" => \A k \in c.before : k.status # "void",
           c.op = "mark" => rows[c.row].status # "void"
    PROVE  /\ Paired'
           /\ c.op = "delete" => /\ Legs(c.tid)' # {}
                                 /\ \A r \in Legs(c.tid)' :
                                      rows'[r].acct \in {c.spec.from, c.spec.to}
<1> USE RowAssumption
<1>1. CASE UndoCreate(c)
  <2>1. PICK f, o \in Legs(c.tid) : DeleteLegs(c.tid, f, o)
    BY <1>1 DEF UndoCreate
  <2> QED
    BY <1>1, <2>1, DeletePairs DEF UndoCreate
<1>2. CASE UndoEdit(c)
  <2>1. PICK f, o \in Legs(c.tid) : UpdateLegs(c.tid, f, o, c.before)
    BY <1>2 DEF UndoEdit
  <2>2. c.before \in Values /\ c.op = "edit"
    BY <1>2, HeldKinds DEF UndoEdit
  <2> QED
    BY <2>1, <2>2, UpdatePairs
<1>3. CASE UndoDelete(c)
  <2>1. /\ c.op = "delete" /\ c.spec \in TransferSpec /\ GuardSpec(c.spec)
        /\ Cardinality(FreshRows) >= 2 /\ rows' = WithPair(c.tid, c.spec) /\ c.tid \in TransferId
    BY <1>3, HeldKinds DEF UndoDelete
  <2>2. Legs(c.tid) = {}
    BY <2>1 DEF Shows, Removes
  <2> QED
    BY <2>1, <2>2, NewPair
<1>4. CASE UndoVoid(c)
  <2>1. /\ c.op = "void" /\ Len(c.snapshots) = 2 /\ c.snapshots \in Seq(Snapshot)
        /\ \A i \in 1..2 : c.snapshots[i].row \in Legs(c.tid)
        /\ c.tid \in TransferId
    BY <1>4, HeldKinds DEF UndoVoid
  <2>2. DOMAIN c.snapshots = 1..2 /\ \A i \in 1..2 : c.snapshots[i] \in Snapshot
    BY <2>1
  <2>3. PICK x, y : x = c.snapshots[1] /\ y = c.snapshots[2]
    OBVIOUS
  <2>4. /\ x \in Snapshot /\ y \in Snapshot /\ x.row \in Legs(c.tid) /\ y.row \in Legs(c.tid)
        /\ Restored(c) = {x.row, y.row}
    BY <2>1, <2>2, <2>3 DEF Restored
  <2>5. Legs(c.tid) = {x.row, y.row}
    BY <2>1, <2>4 DEF Shows, Removes
  <2>6. /\ x.row # y.row /\ x.status # "void" /\ y.status # "void" /\ y.amount > 0
        /\ x.amount = -y.amount
    BY <2>1, <2>3 DEF Sound
  <2>7. \A r : (\E i \in 1..2 : c.snapshots[i].row = r) <=> r \in {x.row, y.row}
    BY <2>3
  <2>8. rows' = [r \in RowId |->
          IF \E i \in 1..2 : c.snapshots[i].row = r
          THEN LET k == c.snapshots[IF c.snapshots[2].row = r THEN 2 ELSE 1] IN
               [rows[r] EXCEPT !.amount = k.amount, !.status = k.status]
          ELSE rows[r]]
    BY <1>4 DEF UndoVoid
  <2>9. x.row \in RowId /\ y.row \in RowId
    BY <2>4 DEF Snapshot
  <2>10. rows'[y.row] = Rewrite(rows[y.row], y.amount, y.status)
    BY <2>3, <2>7, <2>8, <2>9 DEF Rewrite
  <2>11. rows'[x.row] = Rewrite(rows[x.row], x.amount, x.status)
    BY <2>3, <2>6, <2>7, <2>8, <2>9 DEF Rewrite
  <2>12. \A r \in RowId : r # x.row /\ r # y.row => rows'[r] = rows[r]
    BY <2>7, <2>8
  <2>13. rows[x.row].acct # rows[y.row].acct
    <3>1. PICK f, o \in RowId : PairOf(c.tid, f, o)
      BY <2>1, <2>5 DEF Paired, PairedAt
    <3> QED
      BY <2>5, <2>6, <3>1 DEF PairOf
  <2>14. x.amount \in Signed /\ y.amount \in Signed /\ x.status \in Status /\ y.status \in Status
    BY <2>4 DEF Snapshot, Kept
  <2>15. Paired'
    <3>1. PICK f \in RowId, o \in RowId, a \in Signed, b \in Signed, m \in Status, n \in Status :
            /\ f = x.row /\ o = y.row /\ a = x.amount /\ b = y.amount
            /\ m = x.status /\ n = y.status
      BY <2>9, <2>14
    <3>2. Legs(c.tid) = {f, o} /\ f # o /\ rows[f].acct # rows[o].acct /\ c.tid \in TransferId
      BY <2>1, <2>5, <2>6, <2>13, <3>1
    <3>3. rows'[f] = Rewrite(rows[f], a, m) /\ rows'[o] = Rewrite(rows[o], b, n)
      BY <2>10, <2>11, <3>1
    <3>4. \A r \in RowId : r # f /\ r # o => rows'[r] = rows[r]
      BY <2>12, <3>1
    <3>5. b > 0 /\ a = -b /\ m # "void" /\ n # "void"
      BY <2>6, <3>1
    <3> QED
      BY <3>2, <3>3, <3>4, <3>5, LegsPair
  <2> QED
    BY <2>1, <2>15
<1>5. CASE UndoMark(c)
  <2>1. /\ c.op = "mark" /\ c.row \in RowId /\ c.before # "void" /\ c.before \in Status
        /\ rows[c.row] \in Row /\ Live(c.row)
        /\ rows' = [rows EXCEPT ![c.row] = [rows[c.row] EXCEPT !.status = c.before]]
    BY <1>5, HeldKinds DEF UndoMark, SetLegStatus, Live, Kept, TypeOK
  <2>2. \A r \in RowId : SameLook(r) /\ (Live(r)' <=> Live(r))
    BY <2>1, Marked DEF SameLook, TypeOK, Live
  <2> QED
    BY <2>1, <2>2, RevertRows, StatusPairs
<1>6. CASE UndoFinish(c)
  <2>1. c.op = "finish" /\ c.before \subseteq Snapshot /\ \A k \in c.before : Live(k.row)
    BY <1>6, HeldKinds DEF UndoFinish
  <2>2. ASSUME NEW r \in RowId
        PROVE  SameLook(r) /\ (Live(r)' <=> Live(r))
    <3> DEFINE mine == {k \in c.before : k.row = r}
    <3>1. CASE mine = {} \/ rows[r].status # "reconciled"
      <4>1. rows'[r] = rows[r]
        BY <1>6, <3>1 DEF UndoFinish
      <4> QED
        BY <4>1 DEF SameLook, Live
    <3>2. CASE mine # {} /\ rows[r].status = "reconciled"
      <4>1. rows'[r] = [rows[r] EXCEPT !.status = (CHOOSE k \in mine : TRUE).status]
        BY <1>6, <3>2 DEF UndoFinish
      <4>2. (CHOOSE k \in mine : TRUE) \in mine
        BY <3>2
      <4>3. /\ (CHOOSE k \in mine : TRUE).status \in Status
            /\ (CHOOSE k \in mine : TRUE).status # "void" /\ Live(r) /\ rows[r] \in Row
        BY <2>1, <4>2 DEF Snapshot, Kept, TypeOK, Live
      <4> HIDE DEF mine
      <4> QED
        BY <3>2, <4>1, <4>3, Marked DEF SameLook, Live
    <3> QED
      BY <3>1, <3>2
  <2> QED
    BY <2>1, <2>2, RevertRows, StatusPairs
<1>7. CASE UndoClose(c) \/ UndoReopen(c)
  <2>1. \A r \in RowId : SameLook(r) /\ (Live(r)' <=> Live(r))
    BY <1>7 DEF UndoClose, UndoReopen, SameLook, Live
  <2>2. c.op # "void" /\ c.op # "delete"
    BY <1>7 DEF UndoClose, UndoReopen
  <2> QED
    BY <2>1, <2>2, RevertRows, StatusPairs
<1> QED
  BY <1>1, <1>2, <1>3, <1>4, <1>5, <1>6, <1>7 DEF Revert

----------------------------------------------------------------------------
(* What a command that ran holds, and what its run has done.               *)

Learns(c, d) ==
    /\ d.op = c.op
    /\ Owns(d) => /\ d.tid \in minted' /\ Legs(d.tid)' # {}
                  /\ \A r \in Legs(d.tid)' : rows'[r].status # "reconciled"
    /\ d.op = "edit" => \A r \in Legs(d.tid)' : /\ rows'[r].status # "void"
                                               /\ rows'[r].acct \in open'
    /\ d.op = "delete" => \A a \in {d.spec.from, d.spec.to} :
                             \E r \in Legs(d.tid) : rows[r].acct = a
    /\ d.op = "finish" =>
         /\ \A k \in d.before : Locked(k.row)' /\ ~ Locked(k.row) /\ k.status # "void"
         /\ \A r \in RowId : Locked(r)' /\ ~ Locked(r) => Caught(r, d)
    /\ d.op = "close" => d.acct \in open /\ open' = open \ {d.acct}
    /\ d.op = "reopen" => d.acct \notin open /\ open' = open \cup {d.acct}
    /\ d.op \notin {"close", "reopen"} => open' = open
    /\ Sound(d)

LEMMA RanIs ==
    ASSUME NEW S, undoStack \in Seq(S), NEW d, undoStack' = Append(undoStack, d), NEW e, Ran(e)
    PROVE  e = d
<1>1. PICK T : T = S \cup {d, e}
  OBVIOUS
<1>2. undoStack \in Seq(T) /\ d \in T /\ e \in T
  BY <1>1
<1>3. Last(Append(undoStack, d)) = d
  BY <1>2, Pushed
<1>4. Last(Append(undoStack, e)) = e
  BY <1>2, Pushed
<1>5. Append(undoStack, d) = Append(undoStack, e)
  BY DEF Ran
<1> QED
  BY <1>3, <1>4, <1>5

LEMMA TwoMore ==
    ASSUME NEW S, NEW q \in Seq(S), NEW a, NEW b, Len(q \o <<a, b>>) = 2
    PROVE  (q \o <<a, b>>)[1] = a /\ (q \o <<a, b>>)[2] = b
<1>1. PICK T : T = S \cup {a, b}
  OBVIOUS
<1>2. q \in Seq(T) /\ <<a, b>> \in Seq(T) /\ Len(<<a, b>>) = 2
  BY <1>1
<1>3. Len(q) = 0
  BY <1>2
<1> QED
  BY <1>2, <1>3

LEMMA UpdatedLegs ==
    ASSUME TypeOK, NEW t, NEW f \in Legs(t), NEW o \in Legs(t), NEW v \in Values,
           UpdateLegs(t, f, o, v)
    PROVE  /\ Legs(t)' = {f, o} /\ Legs(t) = {f, o}
           /\ \A r \in {f, o} : /\ rows'[r].status = v.status /\ v.status # "void"
                                /\ rows'[r].acct \in open /\ rows[r].status # "void"
           /\ open' = open /\ t \in TransferId
<1>1. /\ f \in RowId /\ o \in RowId /\ rows[f] \in Row /\ rows[o] \in Row /\ Live(f) /\ Live(o)
      /\ rows[f].tid = t /\ rows[o].tid = t /\ t \in TransferId
  BY LegIs
<1>2. /\ f # o /\ Legs(t) = {f, o} /\ rows[f].acct \in open /\ rows[o].acct \in open
      /\ v.status # "void" /\ open' = open /\ rows[f].status # "void" /\ rows[o].status # "void"
  BY DEF UpdateLegs, MayUpdate, GuardSpec, IsTransfer, Marks
<1>3. v.amount \in Signed /\ -v.amount \in Signed /\ v.status \in Status
  BY Negated DEF Values, Kept
<1>4. rows' = [rows EXCEPT ![f] = Rewrite(rows[f], -v.amount, v.status),
                           ![o] = Rewrite(rows[o], v.amount, v.status)]
  BY <1>1, <1>2 DEF UpdateLegs, WithValues, Rewrite, TypeOK
<1>5. /\ rows'[f] = Rewrite(rows[f], -v.amount, v.status)
      /\ rows'[o] = Rewrite(rows[o], v.amount, v.status)
      /\ \A r \in RowId : r # f /\ r # o => rows'[r] = rows[r]
  BY <1>1, <1>2, <1>4 DEF TypeOK
<1>6. /\ rows'[f] \in Row /\ rows'[f].tid = t /\ rows'[f].acct = rows[f].acct
      /\ rows'[f].status = v.status
      /\ rows'[o] \in Row /\ rows'[o].tid = t /\ rows'[o].acct = rows[o].acct
      /\ rows'[o].status = v.status
  BY <1>1, <1>3, <1>5, Rewritten
<1>7. \A r : r \in RowId => (r \in Legs(t)' <=> r \in Legs(t))
  BY <1>1, <1>5, <1>6, RowAssumption DEF Legs, Live
<1>8. Legs(t)' = {f, o}
  BY <1>1, <1>2, <1>7 DEF Legs
<1> QED
  BY <1>1, <1>2, <1>6, <1>8

LEMMA RunLearns ==
    ASSUME TypeOK, Paired, Drawn, NEW c \in Asked, Run(c),
           NEW d, undoStack' = Append(undoStack, d), Becomes(c, d)
    PROVE  Learns(c, d)
<1> USE RowAssumption DEF Becomes
<1>0. \A e : Ran(e) => e = d
  BY RanIs DEF TypeOK
<1>1. CASE RunCreate(c)
  <2>1. NewTransfer \in TransferId /\ NewTransfer \notin minted
    BY <1>1, FreshTransfer DEF RunCreate, TypeOK
  <2>2. PICK t \in TransferId : t = NewTransfer
    BY <2>1
  <2>3. Legs(t) = {}
    BY <2>1, <2>2 DEF Drawn, Legs
  <2>4. /\ c.op = "create" /\ c.spec \in TransferSpec /\ GuardSpec(c.spec)
        /\ Cardinality(FreshRows) >= 2 /\ rows' = WithPair(t, c.spec)
        /\ minted' = minted \cup {t} /\ open' = open /\ [c EXCEPT !.tid = t] = d
    BY <1>0, <1>1, <2>2, AskedKinds DEF RunCreate
  <2>5. d.op = "create" /\ d.tid = t
    BY <2>4, AskedKinds
  <2>6. Legs(t)' # {} /\ \A r \in Legs(t)' : rows'[r].acct \in {c.spec.from, c.spec.to}
    BY <2>3, <2>4, NewPair
  <2>7. \A r \in RowId : r \in Legs(t)' => rows'[r].status # "reconciled"
    <3>1. \A r \in RowId : \/ rows'[r] = rows[r]
                           \/ rows'[r] \in Row /\ rows'[r].status # "reconciled"
      BY <2>4, PairRows
    <3>2. \A r \in RowId : r \in Legs(t)' => rows'[r] # rows[r]
      BY <2>3 DEF Legs, Live
    <3> QED
      BY <3>1, <3>2
  <2>8. \A r \in Legs(t)' : r \in RowId
    BY DEF Legs
  <2> QED
    BY <2>4, <2>5, <2>6, <2>7, <2>8 DEF Learns, Owns, Sound
<1>2. CASE RunEdit(c)
  <2>1. PICK f, o \in Legs(c.tid) : /\ UpdateLegs(c.tid, f, o, c.values)
                                    /\ Ran([c EXCEPT !.before = ValuesOf(f, o)])
    BY <1>2 DEF RunEdit
  <2>2. c.op = "edit" /\ c \in [op : {"edit"}, tid : TransferId, values : Values,
                               before : Values \cup {<<>>}]
    BY <1>2, AskedKinds DEF RunEdit
  <2>3. d.op = "edit" /\ d.tid = c.tid /\ d.before = ValuesOf(f, o)
    BY <1>0, <2>1, <2>2
  <2>4. c.values \in Values /\ c.values.status # "reconciled"
    BY <2>2 DEF Values, Kept
  <2>5. /\ Legs(c.tid)' = {f, o} /\ Legs(c.tid) = {f, o} /\ open' = open /\ c.tid \in TransferId
        /\ \A r \in {f, o} : /\ rows'[r].status = c.values.status /\ c.values.status # "void"
                             /\ rows'[r].acct \in open /\ rows[r].status # "void"
    BY <2>1, <2>4, UpdatedLegs
  <2>6. c.tid \in minted'
    BY <2>1 DEF Drawn, Legs, UpdateLegs
  <2>7. Mirrored(f, o)
    <3>1. IsTransfer(c.tid, f, o) /\ "void" \notin Marks({f, o})
      BY <2>1 DEF UpdateLegs, MayUpdate
    <3> QED
      BY <2>1, <2>5, <3>1, Oriented DEF Paired
  <2>8. d.before.amount > 0 /\ d.before.status # "void"
    BY <2>3, <2>7 DEF ValuesOf, Mirrored
  <2>9. Legs(d.tid)' = {f, o}
    BY <2>3, <2>5
  <2> QED
    BY <2>2, <2>3, <2>4, <2>5, <2>6, <2>8, <2>9 DEF Learns, Owns, Sound
<1>3. CASE RunDelete(c)
  <2>1. PICK f, o \in Legs(c.tid) :
           /\ DeleteLegs(c.tid, f, o)
           /\ Ran([c EXCEPT !.spec = [from |-> rows[f].acct, to |-> rows[o].acct,
                                      amount |-> rows[o].amount, status |-> rows[f].status]])
    BY <1>3 DEF RunDelete
  <2>2. c.op = "delete" /\ c \in [op : {"delete"}, tid : TransferId,
                                 spec : TransferSpec \cup {<<>>}]
    BY <1>3, AskedKinds DEF RunDelete
  <2> DEFINE kept == [from |-> rows[f].acct, to |-> rows[o].acct,
                      amount |-> rows[o].amount, status |-> rows[f].status]
  <2>3. kept.from = rows[f].acct /\ kept.to = rows[o].acct /\ [c EXCEPT !.spec = kept] = d
    BY <1>0, <2>1
  <2> HIDE DEF kept
  <2>4. d.op = "delete" /\ d.tid = c.tid /\ d.spec = kept /\ open' = open
    BY <2>1, <2>2, <2>3 DEF DeleteLegs
  <2> QED
    BY <2>1, <2>2, <2>3, <2>4 DEF Learns, Owns, Sound
<1>4. CASE RunVoid(c)
  <2>1. PICK f, o \in Legs(c.tid) :
          /\ IsTransfer(c.tid, f, o)
          /\ Marks({f, o}) \cap {"reconciled", "void"} = {}
          /\ Ran([c EXCEPT !.snapshots = @ \o <<SnapshotOf(f), SnapshotOf(o)>>])
          /\ open' = open
    BY <1>4 DEF RunVoid
  <2>2. c.op = "void" /\ c \in [op : {"void"}, tid : TransferId, snapshots : Seq(Snapshot)]
    BY <1>4, AskedKinds DEF RunVoid
  <2>3. f # o /\ Mirrored(f, o)
    <3>1. "void" \notin Marks({f, o})
      BY <2>1
    <3> QED
      BY <2>1, <2>2, <3>1, Oriented DEF Paired, IsTransfer
  <2>4. PICK a, b : a = SnapshotOf(f) /\ b = SnapshotOf(o)
    OBVIOUS
  <2>5. d.op = "void" /\ d.snapshots = c.snapshots \o <<a, b>>
    BY <1>0, <2>1, <2>2, <2>4
  <2>6. /\ a.row # b.row /\ a.status # "void" /\ b.status # "void"
        /\ b.amount > 0 /\ a.amount = -b.amount
    BY <2>3, <2>4 DEF SnapshotOf, Mirrored
  <2>7. ASSUME Len(d.snapshots) = 2
        PROVE  d.snapshots[1] = a /\ d.snapshots[2] = b
    BY <2>2, <2>5, <2>7, TwoMore
  <2> QED
    BY <2>1, <2>2, <2>5, <2>6, <2>7 DEF Learns, Owns, Sound
<1>5. CASE RunMark(c)
  <2>1. c.op = "mark" /\ open' = open
    BY <1>5 DEF RunMark, SetLegStatus
  <2> QED
    BY <2>1 DEF Learns, Owns, Sound
<1>6. CASE RunFinish(c)
  <2> DEFINE kept == {SnapshotOf(r) : r \in {x \in c.rows : rows[x].status # "reconciled"}}
  <2>1. /\ c.op = "finish" /\ \A r \in c.rows : Live(r) /\ rows[r].status # "void"
        /\ rows' = [x \in RowId |-> IF x \in c.rows
                                    THEN [rows[x] EXCEPT !.status = "reconciled"] ELSE rows[x]]
        /\ Ran([c EXCEPT !.before = kept]) /\ open' = open
    BY <1>6 DEF RunFinish
  <2>2. c \in [op : {"finish"}, rows : SUBSET RowId, before : SUBSET Snapshot]
    BY <2>1, AskedKinds
  <2>3. \A k \in kept : \E r \in c.rows : k = SnapshotOf(r) /\ rows[r].status # "reconciled"
    OBVIOUS
  <2>4. \A r \in c.rows : rows[r].status # "reconciled" => SnapshotOf(r) \in kept
    OBVIOUS
  <2>5. [c EXCEPT !.before = kept] = d
    BY <1>0, <2>1
  <2> HIDE DEF kept
  <2>6. d.op = "finish" /\ d.before = kept
    BY <2>2, <2>5
  <2>7. \A r : SnapshotOf(r).row = r /\ SnapshotOf(r).status = rows[r].status
    BY DEF SnapshotOf
  <2>8. ASSUME NEW r \in RowId
        PROVE  /\ r \in c.rows => Locked(r)'
               /\ Locked(r)' /\ ~ Locked(r) => r \in c.rows /\ rows[r].status # "reconciled"
    <3>1. CASE r \in c.rows
      <4>1. rows[r] \in Row /\ "reconciled" \in Status /\ Live(r)
        BY <2>1, <3>1 DEF TypeOK, Live, Status
      <4>2. rows'[r] \in Row /\ rows'[r].status = "reconciled"
        BY <2>1, <3>1, <4>1, Marked
      <4> QED
        BY <3>1, <4>1, <4>2 DEF Locked, Live
    <3>2. CASE r \notin c.rows
      BY <2>1, <3>2 DEF Locked, Live
    <3> QED
      BY <3>1, <3>2
  <2>9. \A k \in d.before : Locked(k.row)' /\ ~ Locked(k.row) /\ k.status # "void"
    BY <2>1, <2>2, <2>3, <2>6, <2>7, <2>8 DEF Locked
  <2>10. \A r \in RowId : Locked(r)' /\ ~ Locked(r) => Caught(r, d)
    BY <2>4, <2>6, <2>7, <2>8 DEF Caught
  <2> QED
    BY <2>1, <2>6, <2>9, <2>10 DEF Learns, Owns, Sound
<1>7. CASE RunClose(c) \/ RunReopen(c)
  <2>1. c.op \in {"close", "reopen"} /\ c = d
    BY <1>0, <1>7 DEF RunClose, RunReopen
  <2>2. /\ c.op = "close" => c.acct \in open /\ open' = open \ {c.acct}
        /\ c.op = "reopen" => c.acct \notin open /\ open' = open \cup {c.acct}
    BY <1>7 DEF RunClose, RunReopen
  <2> QED
    BY <2>1, <2>2 DEF Learns, Owns, Sound
<1> QED
  BY <1>1, <1>2, <1>3, <1>4, <1>5, <1>6, <1>7 DEF Run

----------------------------------------------------------------------------
(* Every step keeps that.                                                  *)

LEMMA RunReturns ==
    ASSUME UInv, Returns, NEW c \in Asked, Run(c), MayRun(c),
           c.op = "mark" => rows[c.row].status # "void",
           redoStack' \in Seq(Held),
           \A j \in DOMAIN redoStack' : j \in DOMAIN redoStack /\ redoStack'[j] = redoStack[j]
    PROVE  Returns'
<1> USE RowAssumption
<1>0. TypeOK /\ Drawn /\ Paired
  BY DEF UInv, Returns
<1>1. PICK d : undoStack' = Append(undoStack, d) /\ Becomes(c, d)
  BY <1>0, RunResult
<1>2. Learns(c, d)
  BY <1>0, <1>1, RunLearns
<1>3. PICK n : n = Len(undoStack) + 1
  OBVIOUS
<1>4. /\ DOMAIN undoStack' = DOMAIN undoStack \cup {n}
      /\ \A i \in DOMAIN undoStack : undoStack'[i] = undoStack[i] /\ i < n /\ i \in Nat
      /\ undoStack'[n] = d /\ n \in Nat /\ ~(n < n)
  BY <1>0, <1>1, <1>3, Pushed DEF Becomes, TypeOK
<1>5. ASSUME NEW i \in DOMAIN undoStack
      PROVE  /\ Above(i)' = Above(i) \cup {n}
             /\ \A j \in Above(i) : undoStack'[j] = undoStack[j] /\ j < n /\ ~(n < j)
  BY <1>4 DEF Above
<1>6. Above(n)' = {}
  BY <1>4 DEF Above
<1>7. \A r \in RowId : RowStep(c, r)
  BY <1>0, RunRows
<1>8. \A r \in RowId : Live(r) /\ Live(r)' =>
         rows'[r].tid = rows[r].tid /\ rows'[r].acct = rows[r].acct
  BY <1>0, <1>7, StaysLeg
<1>9. \A r \in RowId : Live(r)' /\ rows'[r].status = "void" =>
         Live(r) /\ (rows[r].status = "void" \/ (c.op = "void" /\ r \in Legs(c.tid)))
  BY <1>0, RunVoids
<1>10. \A r \in RowId : Locked(r) => Locked(r)'
  BY RunLocks
<1>11. \A r \in RowId : Locked(r)' /\ ~ Locked(r) => c.op = "finish"
  BY RunLocks
<1>12. minted \subseteq minted'
  BY <1>0, RunsInTable
<1>13. Paired'
  BY <1>0, RunPairs
<1>14. \A t \in minted : (c.op = "delete" /\ c.tid = t) \/ Legs(t)' = Legs(t)
  BY <1>0, RunFrame
<1>15. /\ d.op = c.op /\ (Removes(c) => d.tid = c.tid)
       /\ c.op = "create" => d.tid \notin minted
  BY <1>1 DEF Becomes
<1>16. ASSUME NEW i \in DOMAIN undoStack, NEW e, e = undoStack[i], Holds(e, i)
       PROVE  Holds(e, i)'
  <2>1. \A op, t : Takes(op, t, i)' <=> Takes(op, t, i) \/ (d.op = op /\ d.tid = t)
    BY <1>4, <1>5 DEF Takes
  <2>2. \A op, a : Switched(op, a, i)' <=> Switched(op, a, i) \/ (d.op = op /\ d.acct = a)
    BY <1>4, <1>5 DEF Switched
  <2>3. \A op, a : \A j \in Above(i) : Between(op, a, i, j) => Between(op, a, i, j)'
    BY <1>4, <1>5 DEF Between
  <2>4. \A op, a : Switched(op, a, i) => Between(op, a, i, n)'
    BY <1>4, <1>5 DEF Between, Switched
  <2>5. Owner(e, i)'
    <3> SUFFICES ASSUME Owns(e)
                 PROVE  /\ e.tid \in minted' /\ ~ Takes("create", e.tid, i)'
                        /\ Legs(e.tid)' # {} \/ Takes("delete", e.tid, i)'
                        /\ \A r \in Legs(e.tid)' : Locked(r)' =>
                             \E j \in Above(i)' :
                               undoStack'[j].op = "finish" /\ Caught(r, undoStack'[j])
      BY DEF Owner, Owns, Caught
    <3>1. /\ e.tid \in minted /\ ~ Takes("create", e.tid, i)
          /\ Legs(e.tid) # {} \/ Takes("delete", e.tid, i)
      BY <1>16 DEF Holds, Owner
    <3>2. Legs(e.tid)' # {} \/ Takes("delete", e.tid, i)'
      BY <1>14, <1>15, <2>1, <3>1 DEF Removes
    <3>3. ASSUME NEW r \in Legs(e.tid)', Locked(r)'
          PROVE  \E j \in Above(i)' : undoStack'[j].op = "finish" /\ Caught(r, undoStack'[j])
      <4>1. r \in RowId /\ Live(r)' /\ rows'[r].tid = e.tid
        BY DEF Legs
      <4>2. CASE Locked(r)
        <5>1. r \in Legs(e.tid)
          BY <1>8, <4>1, <4>2 DEF Legs, Locked
        <5>2. PICK j \in Above(i) : undoStack[j].op = "finish" /\ Caught(r, undoStack[j])
          BY <1>16, <4>2, <5>1 DEF Holds, Owner
        <5> QED
          BY <1>5, <5>2
      <4>3. CASE ~ Locked(r)
        <5>1. d.op = "finish" /\ Caught(r, d)
          BY <1>2, <1>11, <3>3, <4>1, <4>3 DEF Learns
        <5> QED
          BY <1>4, <1>5, <5>1
      <4> QED
        BY <4>2, <4>3
    <3> QED
      BY <1>12, <1>15, <2>1, <3>1, <3>2, <3>3
  <2>6. \A a \in Account : e.tid \in minted /\ Home(a, e.tid, i)' => Home(a, e.tid, i)
    <3> SUFFICES ASSUME NEW a \in Account, e.tid \in minted, Home(a, e.tid, i)'
                 PROVE  Home(a, e.tid, i)
      OBVIOUS
    <3>1. CASE \E r \in Legs(e.tid)' : rows'[r].acct = a
      <4>1. PICK r \in Legs(e.tid)' : rows'[r].acct = a
        BY <3>1
      <4>2. Legs(e.tid)' = Legs(e.tid)
        BY <1>1, <1>14, <4>1 DEF Becomes
      <4>3. r \in RowId /\ Live(r)' /\ Live(r) /\ r \in Legs(e.tid)
        BY <4>2 DEF Legs
      <4> QED
        BY <1>8, <4>1, <4>3 DEF Home
    <3>2. ASSUME NEW j \in Above(i)', undoStack'[j].op = "delete", undoStack'[j].tid = e.tid,
                 a \in {undoStack'[j].spec.from, undoStack'[j].spec.to}
          PROVE  Home(a, e.tid, i)
      <4>1. CASE j \in Above(i)
        BY <1>5, <3>2, <4>1 DEF Home
      <4>2. CASE j = n
        BY <1>2, <1>4, <3>2, <4>2 DEF Learns, Home
      <4> QED
        BY <1>5, <4>1, <4>2
    <3> QED
      BY <3>1, <3>2 DEF Home
  <2>7. Editor(e, i)'
    <3> SUFFICES ASSUME e.op = "edit"
                 PROVE  /\ \A r \in Legs(e.tid)' :
                             rows'[r].status = "void" => Takes("void", e.tid, i)'
                        /\ \A a \in Account : Home(a, e.tid, i)' => OpenAt(a, i)'
      BY DEF Editor
    <3>1. ASSUME NEW r \in Legs(e.tid)', rows'[r].status = "void"
          PROVE  Takes("void", e.tid, i)'
      <4>1. r \in RowId /\ Live(r)' /\ rows'[r].tid = e.tid
        BY DEF Legs
      <4>2. Live(r) /\ (rows[r].status = "void" \/ (c.op = "void" /\ r \in Legs(c.tid)))
        BY <1>9, <3>1, <4>1
      <4>3. r \in Legs(e.tid)
        BY <1>8, <4>1, <4>2 DEF Legs
      <4>4. CASE rows[r].status = "void"
        BY <1>16, <2>1, <4>3, <4>4 DEF Holds, Editor
      <4>5. CASE c.op = "void" /\ r \in Legs(c.tid)
        <5>1. c.tid = e.tid
          BY <4>3, <4>5 DEF Legs
        <5> QED
          BY <1>15, <2>1, <4>5, <5>1 DEF Removes
      <4> QED
        BY <4>2, <4>4, <4>5
    <3>2. ASSUME NEW a \in Account, Home(a, e.tid, i)'
          PROVE  OpenAt(a, i)'
      <4>1. OpenAt(a, i)
        BY <1>16, <2>6, <3>2 DEF Holds, Editor, Owner, Owns
      <4>2. a \notin open' => Switched("close", a, i)'
        BY <1>2, <2>2, <4>1 DEF OpenAt, Learns
      <4>3. d.op = "reopen" /\ d.acct = a => Between("close", a, i, n)'
        BY <1>2, <2>4, <4>1 DEF OpenAt, Learns
      <4>4. ASSUME NEW j \in Above(i)', undoStack'[j].op = "reopen", undoStack'[j].acct = a
            PROVE  Between("close", a, i, j)'
        BY <1>4, <1>5, <2>3, <4>1, <4>3, <4>4 DEF OpenAt
      <4> QED
        BY <4>2, <4>4 DEF OpenAt
    <3> QED
      BY <3>1, <3>2
  <2>8. Closer(e, i)'
    <3> SUFFICES ASSUME e.op = "close" PROVE ClosedAt(e.acct, i)'
      BY DEF Closer
    <3>1. PICK a : a = e.acct
      OBVIOUS
    <3>2. ClosedAt(a, i)
      BY <1>16, <3>1 DEF Holds, Closer
    <3>3. a \in open' => Switched("reopen", a, i)'
      BY <1>2, <2>2, <3>2 DEF ClosedAt, Learns
    <3>4. d.op = "close" /\ d.acct = a => Between("reopen", a, i, n)'
      BY <1>2, <2>4, <3>2 DEF ClosedAt, Learns
    <3>5. ASSUME NEW j \in Above(i)', undoStack'[j].op = "close", undoStack'[j].acct = a
          PROVE  Between("reopen", a, i, j)'
      BY <1>4, <1>5, <2>3, <3>2, <3>4, <3>5 DEF ClosedAt
    <3> QED
      BY <3>1, <3>3, <3>5 DEF ClosedAt
  <2>9. Finisher(e, i)'
    <3> SUFFICES ASSUME e.op = "finish", NEW k \in e.before
                 PROVE  /\ Locked(k.row)' /\ k.status # "void"
                        /\ \A j \in Above(i)' : undoStack'[j].op = "finish"
                                                => ~ Caught(k.row, undoStack'[j])
      BY DEF Finisher, Caught
    <3>1. /\ Locked(k.row) /\ k.status # "void"
          /\ \A j \in Above(i) : undoStack[j].op = "finish" => ~ Caught(k.row, undoStack[j])
      BY <1>16 DEF Holds, Finisher
    <3>2. k.row \in RowId
      <4>1. e \in Held
        BY <1>0, <1>16 DEF TypeOK
      <4>2. k \in Snapshot
        BY <4>1, HeldKinds
      <4> QED
        BY <4>2 DEF Snapshot
    <3>3. d.op = "finish" => ~ Caught(k.row, d)
      BY <1>2, <3>1 DEF Learns, Caught
    <3> QED
      BY <1>4, <1>5, <1>10, <3>1, <3>2, <3>3
  <2>10. Marker(e, i)'
    <3> SUFFICES ASSUME e.op = "mark", Live(e.row)', rows'[e.row].status = "void"
                 PROVE  \E j \in Above(i)' : /\ undoStack'[j].op = "void"
                                             /\ e.row \in Restored(undoStack'[j])
      BY DEF Marker, Live, Restored
    <3>1. e.row \in RowId
      <4>1. e \in Held
        BY <1>0, <1>16 DEF TypeOK
      <4> QED
        BY <4>1, HeldKinds
    <3>2. Live(e.row) /\ (rows[e.row].status = "void" \/ (c.op = "void" /\ e.row \in Legs(c.tid)))
      BY <1>9, <3>1
    <3>3. CASE rows[e.row].status = "void"
      BY <1>5, <1>16, <3>2, <3>3 DEF Holds, Marker
    <3>4. CASE c.op = "void" /\ e.row \in Legs(c.tid)
      BY <1>1, <1>4, <1>5, <3>4 DEF Becomes
    <3> QED
      BY <3>2, <3>3, <3>4
  <2> QED
    BY <1>16, <2>5, <2>7, <2>8, <2>9, <2>10 DEF Holds, Sound
<1>17. Holds(d, n)'
  <2>1. \A op, t, a : ~ Takes(op, t, n)' /\ ~ Switched(op, a, n)'
    BY <1>6 DEF Takes, Switched
  <2>2. Owner(d, n)'
    BY <1>2, <1>6, <2>1 DEF Learns, Owner, Owns, Locked
  <2>3. Editor(d, n)'
    <3>1. \A a : Home(a, d.tid, n)' => \E r \in Legs(d.tid)' : rows'[r].acct = a
      BY <1>6 DEF Home
    <3>2. \A a : a \in open' => OpenAt(a, n)'
      BY <1>6 DEF OpenAt
    <3> QED
      BY <1>2, <3>1, <3>2 DEF Learns, Editor
  <2>4. Closer(d, n)'
    BY <1>2, <1>6 DEF Learns, Closer, ClosedAt
  <2>5. Finisher(d, n)'
    BY <1>2, <1>6 DEF Learns, Finisher
  <2>6. Marker(d, n)'
    <3> SUFFICES ASSUME d.op = "mark", Live(d.row)', rows'[d.row].status = "void" PROVE FALSE
      BY DEF Marker, Live
    <3>1. c.op = "mark" /\ d.row = c.row /\ d.row \in RowId
      BY <1>1, HeldKinds DEF Becomes
    <3> QED
      BY <1>9, <3>1
  <2> QED
    BY <1>2, <2>2, <2>3, <2>4, <2>5, <2>6 DEF Holds, Learns, Sound
<1>18. MarksAgain'
  <2> SUFFICES ASSUME NEW j \in DOMAIN redoStack', NEW e, e = redoStack'[j], e.op = "mark",
                      Live(e.row)', rows'[e.row].status = "void"
               PROVE  FALSE
    BY DEF MarksAgain, Live
  <2>1. e = redoStack[j] /\ j \in DOMAIN redoStack /\ e \in Held
    BY <1>0 DEF TypeOK
  <2>2. e.row \in RowId
    BY <2>1, HeldKinds
  <2>3. Live(e.row) => rows[e.row].status # "void"
    BY <2>1 DEF Returns, MarksAgain
  <2>4. c.op = "void" /\ e.row \in Legs(c.tid)
    BY <1>9, <2>2, <2>3
  <2>5. redoStack' # <<>>
    OBVIOUS
  <2>6. Restored(c) = Legs(c.tid) /\ Spares(c, e)
    BY <2>4, <2>5 DEF MayRun
  <2> QED
    BY <2>4, <2>6 DEF Spares
<1>19. ASSUME NEW i \in DOMAIN undoStack', NEW e, e = undoStack'[i]
       PROVE  Holds(e, i)'
  BY <1>4, <1>16, <1>17, <1>19 DEF Returns
<1>20. (\A i \in DOMAIN undoStack : Holds(undoStack[i], i))'
  BY <1>19
<1> QED
  BY <1>13, <1>18, <1>20 DEF Returns

(* Undoing a close or a reopen turns the account back.                     *)
LEMMA RevertOpens ==
    ASSUME NEW c, Revert(c)
    PROVE  /\ c.op = "close" => open' = open \cup {c.acct}
           /\ c.op = "reopen" => open' = open \ {c.acct}
           /\ c.op \notin {"close", "reopen"} => open' = open
<1>1. CASE UndoCreate(c) \/ UndoEdit(c)
  <2>1. c.op \in {"create", "edit"}
    BY <1>1 DEF UndoCreate, UndoEdit
  <2>2. \E f, o \in Legs(c.tid) : UpdateLegs(c.tid, f, o, c.before) \/ DeleteLegs(c.tid, f, o)
    BY <1>1 DEF UndoCreate, UndoEdit
  <2>3. open' = open
    BY <2>2 DEF UpdateLegs, DeleteLegs
  <2> QED
    BY <2>1, <2>3
<1>3. CASE UndoDelete(c) \/ UndoVoid(c)
  BY <1>3 DEF UndoDelete, UndoVoid
<1>2. CASE UndoMark(c) \/ UndoFinish(c) \/ UndoClose(c) \/ UndoReopen(c)
  BY <1>2 DEF UndoMark, UndoFinish, UndoClose, UndoReopen, SetLegStatus
<1> QED
  BY <1>1, <1>2, <1>3 DEF Revert

LEMMA UndoReturns ==
    ASSUME UInv, Returns, Undo, UNCHANGED menu
    PROVE  Returns'
<1> USE RowAssumption
<1>1. TypeOK /\ Drawn /\ Paired /\ undoStack # <<>> /\ undoStack \in Seq(Held)
  BY DEF UInv, Returns, Undo, TypeOK
<1>2. PICK n, m : n = Len(undoStack) /\ m = Len(redoStack) + 1
  OBVIOUS
<1>3. PICK c : c = Last(undoStack)
  OBVIOUS
<1>4. /\ DOMAIN undoStack' = DOMAIN undoStack \ {n}
      /\ \A i \in DOMAIN undoStack' : undoStack'[i] = undoStack[i] /\ i < n /\ ~(n < i)
      /\ undoStack[n] = c /\ n \in DOMAIN undoStack /\ c \in Held
      /\ DOMAIN undoStack \subseteq Nat /\ ~(n < n)
  <2>1. undoStack' = Front(undoStack)
    BY DEF Undo
  <2>2. DOMAIN undoStack' = DOMAIN undoStack \ {n} /\ DOMAIN undoStack \subseteq Nat
    BY <1>1, <1>2, <2>1, Popped
  <2>3. \A i \in DOMAIN undoStack' : undoStack'[i] = undoStack[i] /\ i < n
    BY <1>1, <1>2, <2>1, Popped
  <2>4. n \in DOMAIN undoStack /\ undoStack[n] = c
    BY <1>1, <1>2, <1>3, Popped
  <2>5. c \in Held
    BY <1>1, <2>4
  <2>6. \A i, j \in Nat : i < j => ~(j < i)
    OBVIOUS
  <2> QED
    BY <2>2, <2>3, <2>4, <2>5, <2>6
<1>5. /\ DOMAIN redoStack' = DOMAIN redoStack \cup {m} /\ redoStack'[m] = c
      /\ \A j \in DOMAIN redoStack : redoStack'[j] = redoStack[j] /\ redoStack[j] \in Held
  BY <1>1, <1>2, <1>3, <1>4, Pushed DEF Undo, TypeOK
<1>6. Revert(c) /\ Holds(c, n) /\ Shows(c) /\ (Removes(c) => c.tid \in minted)
  BY <1>3, <1>4 DEF Undo, Returns, UInv, DoneFits, Drawn
<1>7. Above(n) = {}
  BY <1>4 DEF Above
<1>8. ASSUME NEW i \in DOMAIN undoStack'
      PROVE  /\ i \in DOMAIN undoStack /\ Above(i)' = Above(i) \ {n} /\ n \in Above(i)
             /\ \A j \in Above(i)' : undoStack'[j] = undoStack[j] /\ j < n /\ ~(n < j)
  BY <1>4 DEF Above
<1>9. Sound(c) /\ (c.op = "finish" => \A k \in c.before : k.status # "void")
  BY <1>6 DEF Holds, Finisher
<1>10. c.op = "mark" => Live(c.row) /\ rows[c.row].status # "void" /\ c.row \in RowId
  <2> SUFFICES ASSUME c.op = "mark"
               PROVE  Live(c.row) /\ rows[c.row].status # "void" /\ c.row \in RowId
    OBVIOUS
  <2>1. Live(c.row)
    BY <1>6 DEF Revert, UndoCreate, UndoEdit, UndoDelete, UndoVoid, UndoMark, UndoFinish, UndoClose,
                UndoReopen, SetLegStatus
  <2>2. c.row \in RowId
    BY <1>4, HeldKinds
  <2> QED
    BY <1>6, <1>7, <2>1, <2>2 DEF Holds, Marker
<1>11. \A r \in RowId : RowStep(c, r)
  BY <1>1, <1>4, <1>6, RevertRows
<1>12. /\ minted' = minted /\ rows' \in [RowId -> Row \cup {Unused, Deleted}]
       /\ \A r \in RowId : Live(r) /\ Live(r)' =>
            rows'[r].tid = rows[r].tid /\ rows'[r].acct = rows[r].acct
  <2>1. minted' = minted
    BY <1>1, <1>4, <1>6, RevertsInTable
  <2>2. rows' \in [RowId -> Row \cup {Unused, Deleted}]
    BY <1>1, <1>4, <1>6, RevertRows
  <2> QED
    BY <1>1, <1>11, <2>1, <2>2, StaysLeg
<1>13. \A r \in RowId : Live(r)' /\ rows'[r].status = "void" =>
         Live(r) /\ rows[r].status = "void" /\ ~ (c.op = "void" /\ r \in Legs(c.tid))
  BY <1>1, <1>4, <1>6, <1>9, RevertVoids
<1>14. /\ Paired'
       /\ c.op = "delete" => /\ Legs(c.tid)' # {}
                             /\ \A r \in Legs(c.tid)' : rows'[r].acct \in {c.spec.from, c.spec.to}
  BY <1>1, <1>4, <1>6, <1>9, <1>10, RevertPairs
<1>15. \A t \in minted : (c.op \in {"create", "delete"} /\ c.tid = t) \/ Legs(t)' = Legs(t)
  BY <1>1, <1>11, <1>12, Frame
<1>16. \A r \in RowId : /\ Locked(r)' => Locked(r)
                        /\ Locked(r) /\ ~ Locked(r)' => c.op = "finish" /\ Caught(r, c)
                        /\ Locked(r)' /\ c.op = "finish" => ~ Caught(r, c)
  BY <1>1, <1>4, <1>6, RevertLocks, RevertFrees
<1>17. /\ c.op = "close" => open' = open \cup {c.acct}
       /\ c.op = "reopen" => open' = open \ {c.acct}
       /\ c.op \notin {"close", "reopen"} => open' = open
  BY <1>6, RevertOpens
<1>18. ASSUME NEW i \in DOMAIN undoStack', NEW e, e = undoStack[i]
       PROVE  Holds(e, i)'
  <2>0. Holds(e, i) /\ e \in Held /\ i \in DOMAIN undoStack
    BY <1>1, <1>8, <1>18 DEF Returns
  <2>1. \A op, t : /\ Takes(op, t, i)' => Takes(op, t, i)
                   /\ Takes(op, t, i) => Takes(op, t, i)' \/ (c.op = op /\ c.tid = t)
                   /\ c.op = op /\ c.tid = t => Takes(op, t, i)
    BY <1>4, <1>8 DEF Takes
  <2>2. \A op, a : Switched(op, a, i) => Switched(op, a, i)' \/ (c.op = op /\ c.acct = a)
    BY <1>4, <1>8 DEF Switched
  <2>3. \A op, a : /\ Between(op, a, i, n) => Switched(op, a, i)'
                   /\ \A j \in Above(i)' : Between(op, a, i, j) => Between(op, a, i, j)'
    BY <1>4, <1>8 DEF Between, Switched
  <2>4. Owner(e, i)'
    <3> SUFFICES ASSUME Owns(e)
                 PROVE  /\ e.tid \in minted' /\ ~ Takes("create", e.tid, i)'
                        /\ Legs(e.tid)' # {} \/ Takes("delete", e.tid, i)'
                        /\ \A r \in Legs(e.tid)' : Locked(r)' =>
                             \E j \in Above(i)' :
                               undoStack'[j].op = "finish" /\ Caught(r, undoStack'[j])
      BY DEF Owner, Owns, Caught
    <3>1. /\ e.tid \in minted /\ ~ Takes("create", e.tid, i)
          /\ Legs(e.tid) # {} \/ Takes("delete", e.tid, i)
      BY <2>0 DEF Holds, Owner
    <3>2. Legs(e.tid)' # {} \/ Takes("delete", e.tid, i)'
      BY <1>14, <1>15, <2>1, <3>1
    <3>3. ASSUME NEW r \in Legs(e.tid)', Locked(r)'
          PROVE  \E j \in Above(i)' : undoStack'[j].op = "finish" /\ Caught(r, undoStack'[j])
      <4>1. r \in RowId /\ Live(r)' /\ rows'[r].tid = e.tid
        BY DEF Legs
      <4>2. Locked(r) /\ Live(r)
        BY <1>16, <3>3, <4>1 DEF Locked
      <4>3. r \in Legs(e.tid)
        BY <1>12, <4>1, <4>2 DEF Legs
      <4>4. PICK j \in Above(i) : undoStack[j].op = "finish" /\ Caught(r, undoStack[j])
        BY <2>0, <4>2, <4>3 DEF Holds, Owner
      <4>5. j # n
        BY <1>4, <1>16, <3>3, <4>1, <4>4
      <4> QED
        BY <1>8, <4>4, <4>5
    <3> QED
      BY <1>12, <2>1, <3>1, <3>2, <3>3
  <2>5. \A a \in Account : Owns(e) /\ Home(a, e.tid, i)' => Home(a, e.tid, i)
    <3> SUFFICES ASSUME NEW a \in Account, Owns(e), Home(a, e.tid, i)'
                 PROVE  Home(a, e.tid, i)
      OBVIOUS
    <3>1. ASSUME NEW r \in Legs(e.tid)', rows'[r].acct = a
          PROVE  Home(a, e.tid, i)
      <4>1. r \in RowId /\ Live(r)' /\ rows'[r].tid = e.tid
        BY DEF Legs
      <4>2. CASE Live(r)
        <5>1. r \in Legs(e.tid) /\ rows[r].acct = a
          BY <1>12, <3>1, <4>1, <4>2 DEF Legs
        <5> QED
          BY <5>1 DEF Home
      <4>3. CASE ~ Live(r)
        <5>1. c.op = "delete" /\ c.tid = e.tid
          BY <1>11, <1>12, <4>1, <4>3 DEF RowStep, Live
        <5>2. a \in {c.spec.from, c.spec.to}
          BY <1>14, <3>1, <5>1
        <5> QED
          BY <1>4, <1>8, <5>1, <5>2 DEF Home
      <4> QED
        BY <4>2, <4>3
    <3>2. ASSUME NEW j \in Above(i)', undoStack'[j].op = "delete", undoStack'[j].tid = e.tid,
                 a \in {undoStack'[j].spec.from, undoStack'[j].spec.to}
          PROVE  Home(a, e.tid, i)
      BY <1>8, <3>2 DEF Home
    <3> QED
      BY <3>1, <3>2 DEF Home
  <2>6. Editor(e, i)'
    <3> SUFFICES ASSUME e.op = "edit"
                 PROVE  /\ \A r \in Legs(e.tid)' :
                             rows'[r].status = "void" => Takes("void", e.tid, i)'
                        /\ \A a \in Account : Home(a, e.tid, i)' => OpenAt(a, i)'
      BY DEF Editor
    <3>1. ASSUME NEW r \in Legs(e.tid)', rows'[r].status = "void"
          PROVE  Takes("void", e.tid, i)'
      <4>1. r \in RowId /\ Live(r)' /\ rows'[r].tid = e.tid
        BY DEF Legs
      <4>2. Live(r) /\ rows[r].status = "void" /\ ~ (c.op = "void" /\ r \in Legs(c.tid))
        BY <1>13, <3>1, <4>1
      <4>3. r \in Legs(e.tid)
        BY <1>12, <4>1, <4>2 DEF Legs
      <4>4. Takes("void", e.tid, i)
        BY <2>0, <4>2, <4>3 DEF Holds, Editor
      <4> QED
        BY <2>1, <4>2, <4>3, <4>4
    <3>2. ASSUME NEW a \in Account, Home(a, e.tid, i)'
          PROVE  OpenAt(a, i)'
      <4>1. OpenAt(a, i)
        BY <2>0, <2>5, <3>2 DEF Holds, Editor, Owns
      <4>2. a \notin open' => Switched("close", a, i)'
        <5>1. CASE a \notin open
          BY <1>17, <2>2, <4>1, <5>1 DEF OpenAt
        <5>2. ASSUME a \in open, a \notin open'
              PROVE  Switched("close", a, i)'
          <6>1. c.op = "reopen" /\ c.acct = a
            BY <1>17, <5>2
          <6> QED
            BY <1>4, <1>8, <2>3, <4>1, <6>1 DEF OpenAt
        <5> QED
          BY <5>1, <5>2
      <4>3. ASSUME NEW j \in Above(i)', undoStack'[j].op = "reopen", undoStack'[j].acct = a
            PROVE  Between("close", a, i, j)'
        BY <1>8, <2>3, <4>1, <4>3 DEF OpenAt
      <4> QED
        BY <4>2, <4>3 DEF OpenAt
    <3> QED
      BY <3>1, <3>2
  <2>7. Closer(e, i)'
    <3> SUFFICES ASSUME e.op = "close" PROVE ClosedAt(e.acct, i)'
      BY DEF Closer
    <3>1. PICK a : a = e.acct
      OBVIOUS
    <3>2. ClosedAt(a, i)
      BY <2>0, <3>1 DEF Holds, Closer
    <3>3. a \in open' => Switched("reopen", a, i)'
      <4>1. CASE a \in open
        BY <1>17, <2>2, <3>2, <4>1 DEF ClosedAt
      <4>2. ASSUME a \notin open, a \in open'
            PROVE  Switched("reopen", a, i)'
        <5>1. c.op = "close" /\ c.acct = a
          BY <1>17, <4>2
        <5> QED
          BY <1>4, <1>8, <2>3, <3>2, <5>1 DEF ClosedAt
      <4> QED
        BY <4>1, <4>2
    <3>4. ASSUME NEW j \in Above(i)', undoStack'[j].op = "close", undoStack'[j].acct = a
          PROVE  Between("reopen", a, i, j)'
      BY <1>8, <2>3, <3>2, <3>4 DEF ClosedAt
    <3> QED
      BY <3>1, <3>3, <3>4 DEF ClosedAt
  <2>8. Finisher(e, i)'
    <3> SUFFICES ASSUME e.op = "finish", NEW k \in e.before
                 PROVE  /\ Locked(k.row)' /\ k.status # "void"
                        /\ \A j \in Above(i)' : undoStack'[j].op = "finish"
                                                => ~ Caught(k.row, undoStack'[j])
      BY DEF Finisher, Caught
    <3>1. /\ Locked(k.row) /\ k.status # "void"
          /\ \A j \in Above(i) : undoStack[j].op = "finish" => ~ Caught(k.row, undoStack[j])
      BY <2>0 DEF Holds, Finisher
    <3>2. k.row \in RowId
      <4>1. k \in Snapshot
        BY <2>0, HeldKinds
      <4> QED
        BY <4>1 DEF Snapshot
    <3> QED
      BY <1>4, <1>8, <1>16, <3>1, <3>2
  <2>9. Marker(e, i)'
    <3> SUFFICES ASSUME e.op = "mark", Live(e.row)', rows'[e.row].status = "void"
                 PROVE  \E j \in Above(i)' : /\ undoStack'[j].op = "void"
                                             /\ e.row \in Restored(undoStack'[j])
      BY DEF Marker, Live, Restored
    <3>1. e.row \in RowId
      BY <2>0, HeldKinds
    <3>2. /\ Live(e.row) /\ rows[e.row].status = "void"
          /\ ~ (c.op = "void" /\ e.row \in Legs(c.tid))
      BY <1>13, <3>1
    <3>3. PICK j \in Above(i) : undoStack[j].op = "void" /\ e.row \in Restored(undoStack[j])
      BY <2>0, <3>2 DEF Holds, Marker
    <3>4. j # n
      BY <1>4, <1>6, <3>2, <3>3 DEF Shows
    <3> QED
      BY <1>8, <3>3, <3>4
  <2> QED
    BY <2>0, <2>4, <2>6, <2>7, <2>8, <2>9 DEF Holds, Sound
<1>19. MarksAgain'
  <2> SUFFICES ASSUME NEW j \in DOMAIN redoStack', NEW e, e = redoStack'[j], e.op = "mark",
                      Live(e.row)', rows'[e.row].status = "void"
               PROVE  FALSE
    BY DEF MarksAgain, Live
  <2>1. CASE j = m
    BY <1>5, <1>10, <1>13, <2>1
  <2>2. CASE j \in DOMAIN redoStack
    <3>1. e = redoStack[j] /\ e \in Held
      BY <1>5, <2>2
    <3>2. e.row \in RowId
      BY <3>1, HeldKinds
    <3> QED
      BY <1>13, <2>2, <3>1, <3>2 DEF Returns, MarksAgain
  <2> QED
    BY <1>5, <2>1, <2>2
<1>20. ASSUME NEW i \in DOMAIN undoStack', NEW e, e = undoStack'[i]
       PROVE  Holds(e, i)'
  BY <1>4, <1>18, <1>20
<1>21. (\A i \in DOMAIN undoStack : Holds(undoStack[i], i))'
  BY <1>20
<1> QED
  BY <1>14, <1>19, <1>21 DEF Returns

(* Nothing is written.                                                     *)
LEMMA PairsStand ==
    ASSUME Paired, UNCHANGED rows
    PROVE  Paired'
<1>1. ASSUME NEW t \in TransferId
      PROVE  PairedAt(t)'
  <2>1. \A r \in RowId : r \in Legs(t)' <=> r \in Legs(t)
    BY DEF Legs, Live
  <2>2. \A r \in Legs(t) : SameLook(r)
    BY DEF SameLook
  <2> QED
    BY <2>1, <2>2, PairStays DEF Paired
<1> QED
  BY <1>1 DEF Paired

LEMMA ClearReturns ==
    ASSUME Returns, Clear
    PROVE  Returns'
<1>1. Paired'
  BY PairsStand DEF Returns, Clear
<1>2. DOMAIN undoStack' = {} /\ DOMAIN redoStack' = {}
  BY DEF Clear
<1> QED
  BY <1>1, <1>2 DEF Returns, MarksAgain

LEMMA StutterReturns ==
    ASSUME Returns, UNCHANGED vars
    PROVE  Returns'
<1> USE DEF vars
<1>1. Paired'
  BY PairsStand DEF Returns
<1>2. MarksAgain'
  BY DEF Returns, MarksAgain, Live
<1>3. /\ \A t : Legs(t)' = Legs(t)
      /\ \A i : Above(i)' = Above(i)
  BY DEF Legs, Live, Above
<1>4. ASSUME NEW e, NEW i, Holds(e, i)
      PROVE  Holds(e, i)'
  <2>1. \A op, t : Takes(op, t, i)' <=> Takes(op, t, i)
    BY <1>3 DEF Takes
  <2>2. Owner(e, i)'
    BY <1>3, <1>4, <2>1 DEF Holds, Owner, Owns, Caught, Locked, Live
  <2>3. \A a, t : Home(a, t, i)' <=> Home(a, t, i)
    BY <1>3 DEF Home
  <2>4. \A op, a : Switched(op, a, i)' <=> Switched(op, a, i)
    BY <1>3 DEF Switched
  <2>5. \A op, a, j : Between(op, a, i, j)' <=> Between(op, a, i, j)
    BY <1>3 DEF Between
  <2>6. \A a : (OpenAt(a, i)' <=> OpenAt(a, i)) /\ (ClosedAt(a, i)' <=> ClosedAt(a, i))
    BY <1>3, <2>4, <2>5 DEF OpenAt, ClosedAt
  <2>7. Editor(e, i)'
    BY <1>3, <1>4, <2>1, <2>3, <2>6 DEF Holds, Editor
  <2>8. Closer(e, i)'
    BY <1>4, <2>6 DEF Holds, Closer
  <2>9. Finisher(e, i)'
    BY <1>3, <1>4 DEF Holds, Finisher, Caught, Locked, Live
  <2>10. Marker(e, i)'
    BY <1>3, <1>4 DEF Holds, Marker, Live, Restored
  <2> QED
    BY <1>4, <2>2, <2>7, <2>8, <2>9, <2>10 DEF Holds, Sound
<1>5. ASSUME NEW i \in DOMAIN undoStack', NEW e, e = undoStack'[i]
      PROVE  Holds(e, i)'
  BY <1>4, <1>5 DEF Returns
<1>6. (\A i \in DOMAIN undoStack : Holds(undoStack[i], i))'
  BY <1>5
<1> QED
  BY <1>1, <1>2, <1>6 DEF Returns

LEMMA NextReturns ==
    ASSUME UInv, Returns, [Next]_vars
    PROVE  Returns'
<1>1. ASSUME NEW c \in Offered, Execute(c), UNCHANGED menu
      PROVE  Returns'
  <2>1. redoStack' = <<>> /\ Run(c)
    BY <1>1 DEF Execute
  <2>2. c \in Asked /\ MayRun(c)
    BY <2>1, OfferedFits
  <2>3. c.op = "mark" => rows[c.row].status # "void"
    <3> SUFFICES ASSUME c.op = "mark" PROVE rows[c.row].status # "void"
      OBVIOUS
    <3>1. PICK r \in Mutable : c = [op |-> "mark", row |-> r, status |-> Toggled(rows[r].status),
                                    before |-> NoStatus]
      BY OfferedKinds
    <3>2. c.row \in Mutable
      BY <3>1
    <3> QED
      BY <3>2 DEF Mutable
  <2>4. redoStack' \in Seq(Held) /\ DOMAIN redoStack' = {}
    BY <2>1
  <2> QED
    BY <2>1, <2>2, <2>3, <2>4, RunReturns
<1>2. ASSUME Redo, UNCHANGED menu
      PROVE  Returns'
  <2>1. PICK c : c = Last(redoStack)
    OBVIOUS
  <2>2. /\ redoStack # <<>> /\ Run(c) /\ redoStack' = Front(redoStack) /\ c \in Asked
        /\ MayRun(c)
    BY <1>2, <2>1, RedoFits DEF Redo
  <2>3. redoStack \in Seq(Held)
    BY DEF UInv, TypeOK
  <2>4. /\ redoStack' \in Seq(Held)
        /\ \A j \in DOMAIN redoStack' : j \in DOMAIN redoStack /\ redoStack'[j] = redoStack[j]
    BY <2>2, <2>3, Popped
  <2>5. c = redoStack[Len(redoStack)] /\ Len(redoStack) \in DOMAIN redoStack
    BY <2>1, <2>2, <2>3, Popped
  <2>6. c.op = "mark" => Live(c.row)
    BY <2>2 DEF Run, RunCreate, RunEdit, RunDelete, RunVoid, RunMark, RunFinish, RunClose,
                RunReopen, SetLegStatus
  <2>7. c.op = "mark" => rows[c.row].status # "void"
    BY <2>5, <2>6 DEF Returns, MarksAgain
  <2> QED
    BY <2>2, <2>4, <2>7, RunReturns
<1>3. CASE Undo /\ UNCHANGED menu
  BY <1>3, UndoReturns
<1>4. CASE Clear
  BY <1>4, ClearReturns
<1>5. CASE UNCHANGED vars
  BY <1>5, StutterReturns
<1> QED
  BY <1>1, <1>2, <1>3, <1>4, <1>5 DEF Next

LEMMA InitReturns == Init => Returns
<1> SUFFICES ASSUME Init PROVE Returns
  OBVIOUS
<1>1. \A t : Legs(t) = {}
  BY DEF Init, Legs, Live
<1>2. DOMAIN undoStack = {} /\ DOMAIN redoStack = {}
  BY DEF Init
<1> QED
  BY <1>1, <1>2 DEF Returns, Paired, PairedAt, MarksAgain

(* On top of the stack no command is above, so that what is left asks      *)
(* nothing more of the books.                                              *)
LEMMA TopReturns ==
    ASSUME UInv, Returns
    PROVE  UndoReady
<1> SUFFICES ASSUME undoStack # <<>>,
                    Last(undoStack).op \in {"create", "edit", "finish", "close", "reopen"}
             PROVE  Revertible(Last(undoStack))
  BY DEF UndoReady
<1>1. TypeOK /\ Paired /\ undoStack \in Seq(Held)
  BY DEF UInv, Returns, TypeOK
<1>2. PICK n, c : n = Len(undoStack) /\ c = Last(undoStack)
  OBVIOUS
<1>3. n \in DOMAIN undoStack /\ c = undoStack[n] /\ c \in Held /\ DOMAIN undoStack = 1..n
  <2>1. n \in DOMAIN undoStack /\ c = undoStack[n]
    BY <1>1, <1>2, Popped
  <2> QED
    BY <1>1, <1>2, <2>1
<1>4. Above(n) = {} /\ Holds(c, n)
  BY <1>3 DEF Above, Returns
<1>5. CASE Owns(c)
  <2>1. c.tid \in TransferId
    BY <1>3, <1>5, HeldKinds DEF Owns
  <2>2. Legs(c.tid) # {} /\ \A r \in Legs(c.tid) : ~ Locked(r)
    BY <1>4, <1>5 DEF Holds, Owner, Takes
  <2>3. PICK f, o \in Legs(c.tid) : IsTransfer(c.tid, f, o) /\ rows[f].acct # rows[o].acct
    BY <1>1, <2>1, <2>2, HasLegs DEF Paired
  <2>4. "reconciled" \notin Marks({f, o})
    BY <2>2, <2>3 DEF Marks, Locked, Legs
  <2>5. CASE c.op = "create"
    BY <1>2, <2>3, <2>4, <2>5 DEF Revertible, MayDelete
  <2>6. CASE c.op = "edit"
    <3>1. \A r \in Legs(c.tid) : rows[r].status # "void"
      BY <1>4, <2>6 DEF Holds, Editor, Takes
    <3>2. \A r \in Legs(c.tid) : rows[r].acct \in open
      <4>1. ASSUME NEW r \in Legs(c.tid)
            PROVE  rows[r].acct \in open
        <5>1. PICK a \in Account : a = rows[r].acct
          BY <1>1, LegIs
        <5>2. Home(a, c.tid, n)
          BY <5>1 DEF Home
        <5>3. OpenAt(a, n)
          BY <1>4, <2>6, <5>2 DEF Holds, Editor
        <5> QED
          BY <1>4, <5>1, <5>3 DEF OpenAt, Switched
      <4> QED
        BY <4>1
    <3>3. c.before.amount > 0 /\ c.before.status # "void"
      BY <1>4, <2>6 DEF Holds, Sound
    <3>4. Marks({f, o}) \cap {"reconciled", "void"} = {}
      BY <2>3, <2>4, <3>1 DEF Marks
    <3>5. MayUpdate(c.tid, f, o, c.before)
      BY <2>3, <3>2, <3>3, <3>4 DEF MayUpdate, GuardSpec
    <3> QED
      BY <1>2, <2>3, <2>6, <3>5 DEF Revertible
  <2> QED
    BY <1>5, <2>5, <2>6 DEF Owns
<1>6. CASE c.op = "finish"
  BY <1>2, <1>4, <1>6 DEF Revertible, Holds, Finisher, Locked
<1>7. CASE c.op = "close"
  BY <1>2, <1>4, <1>7 DEF Revertible, Holds, Closer, ClosedAt, Switched
<1>8. CASE c.op = "reopen"
  BY <1>2, <1>8 DEF Revertible
<1> QED
  BY <1>2, <1>5, <1>6, <1>7, <1>8 DEF Owns

(* A create, an edit, a finished reconciliation and a closed or reopened   *)
(* account on top of the stack can be taken back, after any number of      *)
(* commands, undos and redos.                                              *)
THEOREM AlwaysUndoable == HSpec => []UndoReady
<1>1. Init => UInv /\ Returns
  BY InitHolds, InitReturns
<1>2. UInv /\ Returns /\ [Next]_vars => (UInv /\ Returns)'
  BY NextKeeps, NextReturns
<1>3. UInv /\ Returns => UndoReady
  BY TopReturns
<1> QED
  BY <1>1, <1>2, <1>3, TimelineIsHistory, PTL DEF Spec

=============================================================================
