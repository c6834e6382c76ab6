----------------------------- MODULE BooksProofs -----------------------------
(***************************************************************************)
(* Proofs about SplitBooks, for any accounts, forms, statements and        *)
(* bounds.                                                                 *)
(***************************************************************************)
EXTENDS SplitBooks, TLAPS, FiniteSetTheorems, WellFoundedInduction

(* What the variables hold.                                                *)
EnteredId == {0} \X (Nat \ {0})
Id        == Nat \X (Nat \ {0})
Lines     == Seq(Line)
Row       == [acct : Account, n : Int, status : Status, cat : 0..1, lines : Lines]
OwnRow    == {r \in Row : r.acct \in Bank}

RowsOK(f) ==
    /\ f = [id \in DOMAIN f |-> f[id]]
    /\ IsFiniteSet(DOMAIN f) /\ DOMAIN f \subseteq Id
    /\ \A id \in DOMAIN f : f[id] \in Row /\ (IsEntered(id) => f[id].acct \in Bank)

SessionsOK(f) ==
    /\ f = [s \in DOMAIN f |-> f[s]]
    /\ IsFiniteSet(DOMAIN f) /\ DOMAIN f \subseteq Nat
    /\ \A s \in DOMAIN f : f[s] \in [acct : Bank, balance : Int, at : Nat]

BooksOK(b) ==
    /\ b = [rows |-> b.rows, open |-> b.open, sessions |-> b.sessions]
    /\ RowsOK(b.rows) /\ b.open \subseteq Account /\ SessionsOK(b.sessions)

RowVerb  == {"create", "edit", "editSplits", "delete", "void"}
Verb     == RowVerb \cup {"close", "reopen", "finish"}
HasRow   == {"create", "edit", "editSplits"}
TakesRow == {"edit", "editSplits", "delete", "void"}

CmdOK(c) ==
    /\ c = [verb |-> c.verb, id |-> c.id, row |-> c.row, acct |-> c.acct, ids |-> c.ids]
    /\ c.verb \in Verb
    /\ c.verb \in RowVerb => c.id \in EnteredId
    /\ IF c.verb \in HasRow THEN c.row \in OwnRow /\ c.row.status # "reconciled" ELSE c.row = NoRow
    /\ c.verb \in {"close", "reopen"} => c.acct \in Account
    /\ IsFiniteSet(c.ids)
    /\ IF c.verb = "finish" THEN c.acct \in Bank /\ c.ids \subseteq Id ELSE c.ids = {}

BackOK(c, k) ==
    /\ k = [row |-> k.row, statuses |-> k.statuses, session |-> k.session]
    /\ k.row \in Row \cup {NoRow}
    /\ c.verb \in TakesRow => k.row \in OwnRow /\ k.row.status \in {"uncleared", "cleared"}
    /\ IF c.verb = "finish"
       THEN /\ k.session \in Nat
            /\ \A id \in DOMAIN k.statuses : k.statuses[id] \in {"uncleared", "cleared"}
       ELSE DOMAIN k.statuses = {}

EntryOK(e) ==
    /\ e = [cmd |-> e.cmd, back |-> e.back, was |-> e.was]
    /\ CmdOK(e.cmd) /\ BackOK(e.cmd, e.back)

IsSeq(s) == s \in Seq(Range(s))

StacksOK ==
    /\ IsSeq(undoStack) /\ \A i \in DOMAIN undoStack : EntryOK(undoStack[i])
    /\ IsSeq(redoStack) /\ \A i \in DOMAIN redoStack : CmdOK(redoStack[i])

CopyOK ==
    copy = None \/ (/\ copy = [id |-> copy.id, row |-> copy.row]
                    /\ copy.id \in EnteredId /\ copy.row \in OwnRow
                    /\ copy.row.status \in {"uncleared", "cleared"})

ScopeOK ==
    \A what \in {"creates", "looks", "removals", "closes", "starts", "restarts"} :
       what \in DOMAIN scope /\ scope[what] \in Nat

Types == BooksOK(books) /\ StacksOK /\ CopyOK /\ ScopeOK /\ torn \subseteq EnteredId

----------------------------------------------------------------------------
(* Sequences, finite sets and sums.                                        *)

LEMMA Pushed ==
    ASSUME NEW s, IsSeq(s), NEW e
    PROVE  /\ IsSeq(Append(s, e)) /\ Append(s, e) # <<>>
           /\ Range(Append(s, e)) = Range(s) \cup {e}
           /\ Len(Append(s, e)) = Len(s) + 1
           /\ DOMAIN Append(s, e) = DOMAIN s \cup {Len(s) + 1}
           /\ \A i \in DOMAIN s : Append(s, e)[i] = s[i] /\ i < Len(s) + 1
           /\ Append(s, e)[Len(s) + 1] = e /\ Last(Append(s, e)) = e
           /\ DOMAIN s = 1..Len(s) /\ Len(s) \in Nat /\ DOMAIN s \subseteq Nat
<1> DEFINE S == Range(s) \cup {e}
<1>1. Len(s) \in Nat /\ DOMAIN s = 1..Len(s) /\ s \in Seq(S)
  BY DEF IsSeq
<1>2. /\ Append(s, e) \in Seq(S) /\ Len(Append(s, e)) = Len(s) + 1
      /\ DOMAIN Append(s, e) = 1..(Len(s) + 1)
      /\ \A i \in 1..Len(s) : Append(s, e)[i] = s[i]
      /\ Append(s, e)[Len(s) + 1] = e
  BY <1>1
<1>3. Range(Append(s, e)) = S
  <2> HIDE DEF S
  <2>1. \A i \in DOMAIN Append(s, e) : i \in DOMAIN s \/ i = Len(s) + 1
    BY <1>1, <1>2
  <2> QED
    BY <2>1, <1>1, <1>2 DEF Range, S
<1> QED
  BY <1>1, <1>2, <1>3 DEF IsSeq, Last

LEMMA Popped ==
    ASSUME NEW s, IsSeq(s), s # <<>>
    PROVE  /\ IsSeq(Front(s))
           /\ Range(Front(s)) \subseteq Range(s) /\ Range(s) = Range(Front(s)) \cup {Last(s)}
           /\ Len(Front(s)) = Len(s) - 1
           /\ DOMAIN Front(s) = DOMAIN s \ {Len(s)}
           /\ \A i \in DOMAIN Front(s) : Front(s)[i] = s[i] /\ i < Len(s)
           /\ Last(s) = s[Len(s)] /\ Len(s) \in DOMAIN s /\ DOMAIN s \subseteq Nat
           /\ DOMAIN s = 1..Len(s) /\ Len(s) \in Nat \ {0}
<1>1. Len(s) \in Nat \ {0} /\ DOMAIN s = 1..Len(s)
  BY DEF IsSeq
<1>2. Front(s) = [i \in 1..(Len(s) - 1) |-> s[i]]
  BY <1>1 DEF Front
<1>3. DOMAIN Front(s) = 1..(Len(s) - 1) /\ DOMAIN Front(s) = DOMAIN s \ {Len(s)}
  BY <1>1, <1>2
<1>4. \A i \in 1..(Len(s) - 1) : Front(s)[i] = s[i] /\ i < Len(s)
  BY <1>1, <1>2
<1>5. Range(s) = Range(Front(s)) \cup {Last(s)} /\ Range(Front(s)) \subseteq Range(s)
  BY <1>1, <1>3, <1>4 DEF Range, Last
<1>6. IsSeq(Front(s)) /\ Len(Front(s)) = Len(s) - 1
  <2>1. \A i \in 1..(Len(s) - 1) : s[i] \in Range(Front(s))
    BY <1>3, <1>4 DEF Range
  <2>2. Len(s) - 1 \in Nat
    BY <1>1
  <2> QED
    BY <2>1, <2>2, <1>2 DEF IsSeq
<1> QED
  BY <1>1, <1>3, <1>4, <1>5, <1>6 DEF Last

LEMMA Emptied == IsSeq(<<>>) /\ DOMAIN <<>> = {} /\ Range(<<>>) = {}
BY DEF IsSeq, Range

(* A finite set of natural numbers has a least and a greatest element.     *)
LEMMA FiniteLeast ==
    ASSUME NEW T \in SUBSET Nat, IsFiniteSet(T), T # {}
    PROVE  \E e \in T : \A m \in T : ~(m < e)
<1> DEFINE Below(x) == {m \in T : m < x}
           D == {Below(x) : x \in T}
<1>1. D \subseteq FiniteSubsetsOf(T) /\ D # {}
  <2>1. \A U \in D : U \subseteq T
    OBVIOUS
  <2>2. D # {}
    OBVIOUS
  <2> HIDE DEF D
  <2> QED
    BY <2>1, <2>2, FS_Subset DEF FiniteSubsetsOf
<1>2. PICK x \in D : \A y \in D : <<y, x>> \notin StrictSubsetOrdering(T)
  <2> HIDE DEF D
  <2> QED
    BY <1>1, FS_StrictSubsetOrderingWellFounded, WFMin
<1>3. PICK e \in T : x = Below(e)
  OBVIOUS
<1>4. ASSUME NEW m \in T, m < e
      PROVE  FALSE
  <2>1. Below(m) \in D /\ m \in Below(e) /\ m \notin Below(m)
    BY <1>4
  <2>2. Below(m) \subseteq Below(e)
    <3> SUFFICES ASSUME NEW k \in T, k < m PROVE k < e
      OBVIOUS
    <3> k \in Nat /\ m \in Nat /\ e \in Nat
      OBVIOUS
    <3> QED
      BY <1>4
  <2> HIDE DEF D
  <2>3. <<Below(m), x>> \in StrictSubsetOrdering(T)
    BY <1>3, <2>1, <2>2 DEF StrictSubsetOrdering
  <2> QED
    BY <1>2, <2>1, <2>3
<1> QED
  BY <1>4

LEMMA MinIs ==
    ASSUME NEW T \in SUBSET Nat, IsFiniteSet(T), T # {}
    PROVE  Min(T) \in T
<1>1. PICK e \in T : \A m \in T : ~(m < e)
  BY FiniteLeast
<1>2. \A m \in T : e <= m
  BY <1>1
<1> QED
  BY <1>2 DEF Min

LEMMA FiniteGreatest ==
    ASSUME NEW T \in SUBSET Nat, IsFiniteSet(T), T # {}
    PROVE  \E e \in T : \A m \in T : m <= e
<1> DEFINE Above(x) == {m \in T : m > x}
           D == {Above(x) : x \in T}
<1>1. D \subseteq FiniteSubsetsOf(T) /\ D # {}
  <2>1. \A U \in D : U \subseteq T
    OBVIOUS
  <2>2. D # {}
    OBVIOUS
  <2> HIDE DEF D
  <2> QED
    BY <2>1, <2>2, FS_Subset DEF FiniteSubsetsOf
<1>2. PICK x \in D : \A y \in D : <<y, x>> \notin StrictSubsetOrdering(T)
  <2> HIDE DEF D
  <2> QED
    BY <1>1, FS_StrictSubsetOrderingWellFounded, WFMin
<1>3. PICK e \in T : x = Above(e)
  OBVIOUS
<1>4. ASSUME NEW m \in T, m > e
      PROVE  FALSE
  <2>1. Above(m) \in D /\ m \in Above(e) /\ m \notin Above(m)
    BY <1>4
  <2>2. Above(m) \subseteq Above(e)
    <3> SUFFICES ASSUME NEW k \in T, k > m PROVE k > e
      OBVIOUS
    <3> k \in Nat /\ m \in Nat /\ e \in Nat
      OBVIOUS
    <3> QED
      BY <1>4
  <2> HIDE DEF D
  <2>3. <<Above(m), x>> \in StrictSubsetOrdering(T)
    BY <1>3, <2>1, <2>2 DEF StrictSubsetOrdering
  <2> QED
    BY <1>2, <2>1, <2>3
<1>5. \A m \in T : m <= e
  <2> TAKE m \in T
  <2> QED
    BY <1>4
<1> QED
  BY <1>5

LEMMA MaxIs ==
    ASSUME NEW T \in SUBSET Nat, IsFiniteSet(T)
    PROVE  /\ Max({0} \cup T) \in Nat
           /\ \A m \in T : m <= Max({0} \cup T)
           /\ Max({0} \cup T) = 0 \/ Max({0} \cup T) \in T
<1> DEFINE U == {0} \cup T
<1>1. U \in SUBSET Nat /\ IsFiniteSet(U) /\ U # {}
  <2>1. IsFiniteSet(T \cup {0}) /\ U = T \cup {0}
    BY FS_AddElement
  <2> QED
    BY <2>1
<1> HIDE DEF U
<1>2. PICK e \in U : \A m \in U : m <= e
  BY <1>1, FiniteGreatest
<1>3. \A m \in U : e >= m
  BY <1>1, <1>2
<1>4. Max(U) \in U /\ \A m \in U : Max(U) >= m
  BY <1>3 DEF Max
<1>5. Max(U) \in Nat /\ \A m \in U : m <= Max(U)
  BY <1>1, <1>4
<1> QED
  BY <1>4, <1>5 DEF U

LEMMA EmptySum == SumFunction(<<>>) = 0
<1>1. DOMAIN <<>> = {}
  OBVIOUS
<1>2. SUBSET {} = {{}}
  OBVIOUS
<1> QED
  BY <1>1, <1>2 DEF SumFunction, SumFunctionOnSet, FoldFunctionOnSet, MapThenFoldSet

LEMMA SumOfNone == ASSUME NEW b PROVE SumOf(b, {}) = 0
<1>1. [id \in {} |-> b.rows[id].n] = <<>>
  OBVIOUS
<1> QED
  BY <1>1, EmptySum DEF SumOf

LEMMA SumOfSame ==
    ASSUME NEW b, NEW c, NEW S, \A id \in S : b.rows[id].n = c.rows[id].n
    PROVE  SumOf(b, S) = SumOf(c, S)
<1>1. [id \in S |-> b.rows[id].n] = [id \in S |-> c.rows[id].n]
  OBVIOUS
<1> QED
  BY <1>1 DEF SumOf

LEMMA RangeFinite ==
    ASSUME NEW f, f = [x \in DOMAIN f |-> f[x]], IsFiniteSet(DOMAIN f)
    PROVE  IsFiniteSet(Range(f))
<1>1. f \in Surjection(DOMAIN f, Range(f))
  BY DEF Surjection, Range
<1> QED
  BY <1>1, FS_Surjection

LEMMA SeqFinite ==
    ASSUME NEW s, IsSeq(s)
    PROVE  IsFiniteSet(DOMAIN s) /\ IsFiniteSet(Range(s))
<1>1. Len(s) \in Nat /\ DOMAIN s = 1..Len(s) /\ s = [x \in DOMAIN s |-> s[x]]
  BY DEF IsSeq
<1>2. IsFiniteSet(DOMAIN s)
  BY <1>1, FS_Interval
<1> QED
  BY <1>1, <1>2, RangeFinite

(* The amounts of lines, which decide their total.                         *)
Amounts(lines) == [i \in DOMAIN lines |-> lines[i].n]

LEMMA SameTotal ==
    ASSUME NEW l, NEW m, Amounts(l) = Amounts(m)
    PROVE  Total(l) = Total(m) /\ DOMAIN l = DOMAIN m
<1>1. DOMAIN Amounts(l) = DOMAIN l /\ DOMAIN Amounts(m) = DOMAIN m
  BY DEF Amounts
<1>2. Total(l) = SumFunction(Amounts(l)) /\ Total(m) = SumFunction(Amounts(m))
  BY DEF Total, Amounts
<1> QED
  BY <1>1, <1>2

LEMMA LinesAre ==
    ASSUME NEW lines \in Lines
    PROVE  /\ DOMAIN lines \subseteq Nat \ {0} /\ IsFiniteSet(DOMAIN lines)
           /\ \A i \in DOMAIN lines : lines[i] \in Line
           /\ IsFiniteSet(Tids(lines)) /\ Tids(lines) \subseteq Nat
           /\ Moves(lines) \subseteq DOMAIN lines
<1>1. Len(lines) \in Nat /\ DOMAIN lines = 1..Len(lines)
      /\ \A i \in DOMAIN lines : lines[i] \in Line
  BY DEF Lines
<1>2. IsFiniteSet(DOMAIN lines) /\ DOMAIN lines \subseteq Nat \ {0}
  <2>1. IsFiniteSet(1..Len(lines))
    BY <1>1, FS_Interval
  <2> QED
    BY <1>1, <2>1
<1>3. Moves(lines) \subseteq DOMAIN lines
  BY DEF Moves
<1> DEFINE f == [i \in Moves(lines) |-> lines[i].tid]
<1>4. IsFiniteSet(Moves(lines)) /\ DOMAIN f = Moves(lines) /\ Range(f) = Tids(lines)
  BY <1>2, <1>3, FS_Subset DEF Range, Tids
<1>5. IsFiniteSet(Tids(lines))
  BY <1>4, RangeFinite
<1>6. Tids(lines) \subseteq Nat
  BY <1>1, <1>3 DEF Tids, Line
<1> QED
  BY <1>1, <1>2, <1>3, <1>5, <1>6

LEMMA NoRowIs == NoRow.lines = <<>> /\ <<>> \in Lines /\ NoRow.status = "void" /\ NoRow.acct = None
BY DEF NoRow, Lines

(* What the stacks hold is finite.                                         *)
LEMMA StackedIs ==
    ASSUME StacksOK
    PROVE  /\ IsFiniteSet(Stacked) /\ IsFiniteSet(Captured)
           /\ \A c \in Stacked : CmdOK(c) /\ c.row.lines \in Lines
           /\ \A k \in Captured : k.row.lines \in Lines
<1>1. IsFiniteSet(Range(redoStack)) /\ IsFiniteSet(Range(undoStack))
  BY SeqFinite DEF StacksOK
<1>2. IsFiniteSet({e.cmd : e \in Range(undoStack)})
  <2> DEFINE f == [e \in Range(undoStack) |-> e.cmd]
  <2>1. DOMAIN f = Range(undoStack) /\ Range(f) = {e.cmd : e \in Range(undoStack)}
    BY DEF Range
  <2> QED
    BY <1>1, <2>1, RangeFinite
<1>3. IsFiniteSet(Captured)
  <2> DEFINE f == [e \in Range(undoStack) |-> e.back]
  <2>1. DOMAIN f = Range(undoStack) /\ Range(f) = Captured
    BY DEF Range, Captured
  <2> QED
    BY <1>1, <2>1, RangeFinite
<1>4. \A c \in Stacked : CmdOK(c)
  BY DEF Stacked, StacksOK, Range, EntryOK
<1>5. \A c \in Stacked : c.row.lines \in Lines
  <2> TAKE c \in Stacked
  <2>1. c.row \in OwnRow \/ c.row = NoRow
    BY <1>4 DEF CmdOK
  <2> QED
    BY <2>1, NoRowIs DEF OwnRow, Row
<1>6. \A k \in Captured : k.row.lines \in Lines
  <2> TAKE k \in Captured
  <2>1. PICK i \in DOMAIN undoStack : k = undoStack[i].back
    BY DEF Captured, Range
  <2>2. k.row \in Row \cup {NoRow}
    BY <2>1 DEF StacksOK, EntryOK, BackOK
  <2> QED
    BY <2>2, NoRowIs DEF Row
<1>7. IsFiniteSet(Stacked)
  BY <1>1, <1>2, FS_Union DEF Stacked
<1> QED
  BY <1>3, <1>4, <1>5, <1>6, <1>7

LEMMA UsedNat ==
    ASSUME StacksOK, NEW b, BooksOK(b)
    PROVE  UsedTids(b) \in SUBSET Nat /\ IsFiniteSet(UsedTids(b))
<1> DEFINE f == [id \in DOMAIN b.rows |-> Tids(b.rows[id].lines)]
           g == [c \in Stacked \cup Captured |-> Tids(c.row.lines)]
           A == UNION Range(f)
           B == UNION Range(g)
<1>1. UsedTids(b) = A \cup B
  <2>1. Range(f) = {Tids(b.rows[id].lines) : id \in DOMAIN b.rows}
    BY DEF Range
  <2>2. Range(g) = {Tids(c.row.lines) : c \in Stacked \cup Captured}
    BY DEF Range
  <2>3. A = UNION {Tids(b.rows[id].lines) : id \in DOMAIN b.rows}
    BY <2>1
  <2>4. B = UNION {Tids(c.row.lines) : c \in Stacked \cup Captured}
    BY <2>2
  <2> HIDE DEF A, B
  <2> QED
    BY <2>3, <2>4 DEF UsedTids
<1>2. \A id \in DOMAIN b.rows : b.rows[id].lines \in Lines
  BY DEF BooksOK, RowsOK, Row
<1>3. \A T \in Range(f) : IsFiniteSet(T) /\ T \subseteq Nat
  BY <1>2, LinesAre DEF Range
<1>4. \A T \in Range(g) : IsFiniteSet(T) /\ T \subseteq Nat
  BY StackedIs, LinesAre DEF Range
<1>5. IsFiniteSet(Range(f))
  BY RangeFinite DEF BooksOK, RowsOK
<1>6. IsFiniteSet(Range(g))
  <2>1. IsFiniteSet(Stacked \cup Captured)
    BY StackedIs, FS_Union
  <2> QED
    BY <2>1, RangeFinite
<1> HIDE DEF f, g
<1>7. IsFiniteSet(A) /\ IsFiniteSet(B)
  BY <1>3, <1>4, <1>5, <1>6, FS_UNION
<1>8. A \in SUBSET Nat /\ B \in SUBSET Nat
  BY <1>3, <1>4
<1> HIDE DEF A, B
<1>9. IsFiniteSet(A \cup B)
  BY <1>7, FS_Union
<1> QED
  BY <1>1, <1>8, <1>9

LEMMA MintIs ==
    ASSUME StacksOK, NEW b, BooksOK(b), NEW lines \in Lines
    PROVE  /\ Mint(b, lines) \in Lines
           /\ Amounts(Mint(b, lines)) = Amounts(lines)
           /\ Moves(Mint(b, lines)) = Moves(lines)
           /\ \A i \in Moves(lines) : Mint(b, lines)[i].tid \in Nat \ {0}
<1> DEFINE M == Max({0} \cup UsedTids(b))
           m == Mint(b, lines)
<1>1. M \in Nat
  BY UsedNat, MaxIs
<1>2. Len(lines) \in Nat /\ DOMAIN lines = 1..Len(lines)
      /\ \A i \in DOMAIN lines : lines[i] \in Line
  BY DEF Lines
<1>3. m = [i \in DOMAIN lines |->
             IF lines[i].to # None /\ lines[i].tid = 0
             THEN [lines[i] EXCEPT !.tid = M + i] ELSE lines[i]]
  BY DEF Mint
<1> HIDE DEF M, m
<1>4. \A i \in DOMAIN lines :
        /\ m[i] \in Line /\ m[i].n = lines[i].n /\ m[i].to = lines[i].to
        /\ lines[i].to # None => m[i].tid \in Nat \ {0}
  <2> TAKE i \in DOMAIN lines
  <2>1. i \in Nat \ {0} /\ M + i \in Nat \ {0} /\ lines[i] \in Line
    BY <1>1, <1>2
  <2> DEFINE t == M + i
  <2>2. m[i] = IF lines[i].to # None /\ lines[i].tid = 0
               THEN [lines[i] EXCEPT !.tid = t] ELSE lines[i]
    BY <1>3
  <2> HIDE DEF t
  <2>3. t \in Nat \ {0}
    BY <2>1 DEF t
  <2> QED
    BY <2>1, <2>2, <2>3 DEF Line
<1>5. DOMAIN m = 1..Len(lines) /\ m = [i \in 1..Len(lines) |-> m[i]]
  BY <1>2, <1>3
<1>6. m \in Lines
  BY <1>2, <1>4, <1>5 DEF Lines
<1>7. Amounts(m) = Amounts(lines) /\ Moves(m) = Moves(lines)
  BY <1>2, <1>4, <1>5 DEF Amounts, Moves
<1> QED
  BY <1>4, <1>6, <1>7 DEF m, Moves

LEMMA NamedFinite == ASSUME StacksOK PROVE IsFiniteSet(NamedRows) /\ NamedRows \subseteq Id
<1> DEFINE f == [c \in Stacked |-> c.ids]
<1>1. NamedRows = UNION Range(f)
  BY DEF NamedRows, Range
<1>2. \A T \in Range(f) : IsFiniteSet(T) /\ T \subseteq Id
  BY StackedIs DEF Range, CmdOK
<1>3. IsFiniteSet(Range(f))
  BY StackedIs, RangeFinite
<1> HIDE DEF f
<1> QED
  BY <1>1, <1>2, <1>3, FS_UNION

LEMMA PairIdIs ==
    ASSUME StacksOK, NEW t \in Nat \ {0}
    PROVE  /\ PairId(t) \in Id /\ PairId(t)[1] = t
           /\ ~IsEntered(PairId(t)) /\ PairId(t) \notin NamedRows
<1> DEFINE X == {x \in NamedRows : x[1] = t}
           f == [x \in X |-> x[2]]
           named == {id[2] : id \in X}
           n == Cardinality(named)
           free == (1..(n + 1)) \ named
<1>1. IsFiniteSet(X)
  BY NamedFinite, FS_Subset
<1>2. Range(f) = named /\ DOMAIN f = X
  BY DEF Range
<1>3. IsFiniteSet(named)
  BY <1>1, <1>2, RangeFinite
<1>4. PairId(t) = <<t, Min(free)>>
  BY DEF PairId
<1>5. \A id \in NamedRows : id[1] = t => id[2] \in named
  OBVIOUS
<1> HIDE DEF named
<1>6. n \in Nat
  BY <1>3, FS_CardinalityType
<1>7. free # {}
  <2> SUFFICES ASSUME free = {} PROVE FALSE
    OBVIOUS
  <2>1. 1..(n + 1) \in SUBSET named
    OBVIOUS
  <2>2. Cardinality(1..(n + 1)) <= n
    BY <2>1, <1>3, FS_Subset
  <2>3. Cardinality(1..(n + 1)) = n + 1
    <3> HIDE DEF n
    <3>1. 1 \in Int /\ n + 1 \in Int /\ ~(1 > n + 1) /\ (n + 1) - 1 + 1 = n + 1
      BY <1>6
    <3> QED
      BY <3>1, FS_Interval
  <2> HIDE DEF n
  <2> QED
    BY <1>6, <2>2, <2>3
<1> HIDE DEF n
<1>8. IsFiniteSet(1..(n + 1)) /\ 1..(n + 1) \in SUBSET (Nat \ {0})
  BY <1>6, FS_Interval
<1>9. free \in SUBSET Nat /\ IsFiniteSet(free)
  BY <1>8, FS_Subset
<1>10. Min(free) \in free
  <2> HIDE DEF free
  <2> QED
    BY <1>7, <1>9, MinIs
<1>11. Min(free) \in Nat \ {0} /\ Min(free) \notin named
  BY <1>8, <1>10
<1> HIDE DEF free
<1> QED
  BY <1>4, <1>5, <1>11 DEF Id, IsEntered

----------------------------------------------------------------------------
(* The row operators.  What they leave alone: reconciled rows, the rows    *)
(* entered under other identifiers, the accounts of rows.  A row that they *)
(* make as a counterpart has an identifier that no command names.          *)

PairsKept(b, c) ==
    /\ c.open = b.open /\ c.sessions = b.sessions
    /\ \A id \in DOMAIN b.rows :
          ~IsEntered(id) /\ b.rows[id].status = "reconciled"
            => id \in DOMAIN c.rows /\ c.rows[id] = b.rows[id]
    /\ \A id \in DOMAIN c.rows : ~IsEntered(id) =>
          \/ /\ id \in DOMAIN b.rows /\ c.rows[id].acct = b.rows[id].acct
             /\ c.rows[id].status = b.rows[id].status
          \/ id \notin NamedRows /\ c.rows[id].status = "uncleared"

OwnSame(b, c, S) ==
    \A id \in EnteredId \ S :
       /\ id \in DOMAIN b.rows <=> id \in DOMAIN c.rows
       /\ id \in DOMAIN b.rows => c.rows[id] = b.rows[id]

Quiet(b, c)      == BooksOK(c) /\ PairsKept(b, c) /\ OwnSame(b, c, {})
Writes(b, c, id) == BooksOK(c) /\ PairsKept(b, c) /\ OwnSame(b, c, {id})

LEMMA QuietAgain ==
    ASSUME NEW b, NEW c, NEW d, Quiet(b, c), Quiet(c, d)
    PROVE  Quiet(b, d)
<1>1. PairsKept(b, d)
  <2>1. \A id \in DOMAIN b.rows :
          ~IsEntered(id) /\ b.rows[id].status = "reconciled"
            => id \in DOMAIN d.rows /\ d.rows[id] = b.rows[id]
    BY DEF Quiet, PairsKept
  <2>2. \A id \in DOMAIN d.rows : ~IsEntered(id) =>
          \/ /\ id \in DOMAIN b.rows /\ d.rows[id].acct = b.rows[id].acct
             /\ d.rows[id].status = b.rows[id].status
          \/ id \notin NamedRows /\ d.rows[id].status = "uncleared"
    BY DEF Quiet, PairsKept
  <2>3. d.open = b.open /\ d.sessions = b.sessions
    BY DEF Quiet, PairsKept
  <2> QED
    BY <2>1, <2>2, <2>3 DEF PairsKept
<1>2. OwnSame(b, d, {})
  BY DEF Quiet, OwnSame
<1> QED
  BY <1>1, <1>2 DEF Quiet

LEMMA WithRows ==
    ASSUME NEW b, BooksOK(b), NEW f, RowsOK(f)
    PROVE  /\ BooksOK([b EXCEPT !.rows = f]) /\ [b EXCEPT !.rows = f].rows = f
           /\ [b EXCEPT !.rows = f].open = b.open
           /\ [b EXCEPT !.rows = f].sessions = b.sessions
<1> DEFINE c == [b EXCEPT !.rows = f]
           r == b.rows
           o == b.open
           s == b.sessions
<1>1. b = [rows |-> r, open |-> o, sessions |-> s]
  BY DEF BooksOK
<1> HIDE DEF r, o, s
<1>2. c = [rows |-> f, open |-> o, sessions |-> s]
  BY <1>1
<1> HIDE DEF c
<1>3. c.rows = f /\ c.open = o /\ c.sessions = s
  BY <1>2
<1> QED
  BY <1>2, <1>3 DEF BooksOK, c, o, s

LEMMA Dropped ==
    ASSUME NEW f, RowsOK(f), NEW S
    PROVE  /\ RowsOK(Drop(f, S)) /\ DOMAIN Drop(f, S) = DOMAIN f \ S
           /\ \A id \in DOMAIN f \ S : Drop(f, S)[id] = f[id]
<1>1. /\ DOMAIN Drop(f, S) = DOMAIN f \ S
      /\ \A id \in DOMAIN f \ S : Drop(f, S)[id] = f[id]
      /\ Drop(f, S) = [id \in DOMAIN f \ S |-> Drop(f, S)[id]]
  BY DEF Drop
<1>2. IsFiniteSet(DOMAIN f \ S)
  BY FS_Difference DEF RowsOK
<1> QED
  BY <1>1, <1>2 DEF RowsOK

LEMMA DeletePairsIs ==
    ASSUME NEW b, BooksOK(b), NEW T, NEW c \in DeletePairs(b, T)
    PROVE  Quiet(b, c)
<1> DEFINE P == PairsOf(b, T)
<1>1. c = [b EXCEPT !.rows = Drop(b.rows, P)] /\ \A id \in P : b.rows[id].status # "reconciled"
  BY DEF DeletePairs
<1>2. RowsOK(b.rows)
  BY DEF BooksOK
<1>3. /\ BooksOK(c) /\ c.rows = Drop(b.rows, P) /\ c.open = b.open /\ c.sessions = b.sessions
      /\ DOMAIN c.rows = DOMAIN b.rows \ P
      /\ \A id \in DOMAIN b.rows \ P : c.rows[id] = b.rows[id]
  <2> DEFINE r == Drop(b.rows, P)
  <2>1. /\ RowsOK(r) /\ DOMAIN r = DOMAIN b.rows \ P
        /\ \A id \in DOMAIN b.rows \ P : r[id] = b.rows[id]
    BY <1>2, Dropped
  <2>2. c = [b EXCEPT !.rows = r]
    BY <1>1
  <2> HIDE DEF r, P
  <2>3. BooksOK(c) /\ c.rows = r /\ c.open = b.open /\ c.sessions = b.sessions
    BY <2>1, <2>2, WithRows
  <2> QED
    BY <2>1, <2>3 DEF r
<1>4. \A id \in EnteredId : id \notin P
  BY DEF PairsOf, EnteredId
<1> HIDE DEF P
<1> QED
  BY <1>1, <1>3, <1>4 DEF Quiet, PairsKept, OwnSame

LEMMA MirroredIs ==
    ASSUME NEW l \in Line, l.to \in Account
    PROVE  Mirrored(l) \in Row /\ Mirrored(l).status = "uncleared" /\ Mirrored(l).acct = l.to
<1>1. -l.n \in Int /\ l.cat \in 0..1 /\ <<>> \in Lines
  BY DEF Line, Lines
<1>2. (IF l.to \in Bank THEN l.cat ELSE 0) \in 0..1
  BY <1>1
<1> QED
  BY <1>1, <1>2 DEF Mirrored, Row, Status

LEMMA Overlaid ==
    ASSUME NEW f, RowsOK(f), NEW g, RowsOK(g)
    PROVE  /\ RowsOK(Over(f, g)) /\ DOMAIN Over(f, g) = DOMAIN f \cup DOMAIN g
           /\ \A x \in DOMAIN f : Over(f, g)[x] = f[x]
           /\ \A x \in DOMAIN g \ DOMAIN f : Over(f, g)[x] = g[x]
<1> DEFINE h == Over(f, g)
<1>1. /\ DOMAIN h = DOMAIN f \cup DOMAIN g
      /\ \A x \in DOMAIN f : h[x] = f[x]
      /\ \A x \in DOMAIN g \ DOMAIN f : h[x] = g[x]
  BY DEF Over
<1>2. h = [x \in DOMAIN h |-> h[x]]
  BY DEF Over
<1>3. IsFiniteSet(DOMAIN f \cup DOMAIN g)
  BY FS_Union DEF RowsOK
<1> HIDE DEF h
<1>4. IsFiniteSet(DOMAIN h) /\ DOMAIN h \subseteq Id
  BY <1>1, <1>3 DEF RowsOK
<1>5. \A x \in DOMAIN h : h[x] \in Row /\ (IsEntered(x) => h[x].acct \in Bank)
  BY <1>1 DEF RowsOK
<1>6. RowsOK(h)
  BY <1>2, <1>4, <1>5 DEF RowsOK
<1> QED
  BY <1>1, <1>6 DEF h

LEMMA CreatePairsIs ==
    ASSUME StacksOK, NEW b, BooksOK(b), NEW L \in SUBSET Line, IsFiniteSet(L),
           \A l \in L : l.tid \in Nat \ {0},
           NEW c \in CreatePairs(b, L)
    PROVE  Quiet(b, c)
<1> DEFINE p == [l \in L |-> PairId(l.tid)]
           P == {PairId(l.tid) : l \in L}
           g == [id \in P |-> Mirrored(CHOOSE l \in L : PairId(l.tid) = id)]
           f == b.rows
<1>1. /\ c = [b EXCEPT !.rows = Over(f, g)]
      /\ \A l \in L : l.to \in Account
  BY DEF CreatePairs, BooksOK
<1>2. \A id \in P : id \in Id /\ ~IsEntered(id) /\ id \notin NamedRows
  BY PairIdIs
<1>3. IsFiniteSet(P)
  <2>1. Range(p) = P /\ DOMAIN p = L
    BY DEF Range
  <2> QED
    BY <2>1, RangeFinite
<1>4. \A id \in P : g[id] \in Row /\ g[id].status = "uncleared"
  <2> TAKE id \in P
  <2> DEFINE l == CHOOSE l \in L : PairId(l.tid) = id
  <2>1. \E k \in L : PairId(k.tid) = id
    OBVIOUS
  <2>2. l \in L
    BY <2>1
  <2>3. g[id] = Mirrored(l)
    OBVIOUS
  <2> HIDE DEF l, g, P
  <2>4. l \in Line /\ l.to \in Account
    BY <2>2, <1>1
  <2> QED
    BY <2>3, <2>4, MirroredIs
<1>5. DOMAIN g = P
  OBVIOUS
<1>6. RowsOK(f)
  BY DEF BooksOK
<1> HIDE DEF g, P, p, f
<1>7. RowsOK(g)
  <2>1. \A x \in DOMAIN g : g[x] \in Row /\ ~IsEntered(x)
    BY <1>2, <1>4, <1>5
  <2>2. g = [x \in DOMAIN g |-> g[x]]
    BY <1>5 DEF g
  <2> QED
    BY <2>1, <2>2, <1>2, <1>3, <1>5 DEF RowsOK
<1> DEFINE r == Over(f, g)
<1>8. /\ RowsOK(r) /\ DOMAIN r = DOMAIN f \cup P
      /\ \A x \in DOMAIN f : r[x] = f[x]
      /\ \A x \in P \ DOMAIN f : r[x] = g[x]
  <2> HIDE DEF r
  <2>1. /\ RowsOK(Over(f, g)) /\ DOMAIN Over(f, g) = DOMAIN f \cup DOMAIN g
        /\ \A x \in DOMAIN f : Over(f, g)[x] = f[x]
        /\ \A x \in DOMAIN g \ DOMAIN f : Over(f, g)[x] = g[x]
    BY <1>6, <1>7, Overlaid
  <2> QED
    BY <1>5, <2>1 DEF r
<1> HIDE DEF r
<1>10. BooksOK(c) /\ c.rows = r /\ c.open = b.open /\ c.sessions = b.sessions
  BY <1>1, <1>8, WithRows DEF r
<1>11. \A id \in EnteredId : id \notin P
  BY <1>2 DEF EnteredId, IsEntered
<1>12. /\ DOMAIN c.rows = DOMAIN b.rows \cup P
       /\ \A x \in DOMAIN b.rows : c.rows[x] = b.rows[x]
       /\ \A x \in P \ DOMAIN b.rows : c.rows[x].status = "uncleared" /\ x \notin NamedRows
  BY <1>2, <1>4, <1>8, <1>10 DEF f
<1> QED
  BY <1>10, <1>11, <1>12 DEF Quiet, PairsKept, OwnSame

LEMMA MirrorPairsIs ==
    ASSUME NEW b, BooksOK(b), NEW L \in SUBSET Line, NEW c \in MirrorPairs(b, L)
    PROVE  Quiet(b, c)
<1> DEFINE hit == PairsOf(b, {l.tid : l \in L})
           of(id) == CHOOSE l \in L : l.tid = id[1]
           f == b.rows
           r == [id \in DOMAIN f |-> IF id \in hit
                                     THEN [f[id] EXCEPT !.n = -of(id).n,
                                                        !.cat = Mirrored(of(id)).cat]
                                     ELSE f[id]]
<1>1. c = [b EXCEPT !.rows = r] /\ \A id \in hit : f[id].status # "reconciled"
  BY DEF MirrorPairs
<1>2. \A id \in hit : id \in DOMAIN f /\ ~IsEntered(id) /\ of(id) \in L
  BY DEF PairsOf, IsEntered
<1>3. RowsOK(f)
  BY DEF BooksOK
<1>4. \A id \in hit :
        r[id] \in Row /\ r[id].acct = f[id].acct /\ r[id].status = f[id].status
  <2> TAKE id \in hit
  <2> DEFINE n == -of(id).n
             k == Mirrored(of(id)).cat
  <2>1. n \in Int /\ k \in 0..1
    <3>1. of(id) \in Line
      BY <1>2
    <3> HIDE DEF of, hit
    <3>2. -of(id).n \in Int /\ of(id).cat \in 0..1
      BY <3>1 DEF Line
    <3> QED
      BY <3>2 DEF Mirrored
  <2>2. r[id] = [f[id] EXCEPT !.n = n, !.cat = k]
    BY <1>2
  <2>3. f[id] \in Row
    BY <1>2, <1>3 DEF RowsOK
  <2> HIDE DEF r, n, k, f
  <2> QED
    BY <2>1, <2>2, <2>3 DEF Row
<1>5. DOMAIN r = DOMAIN f /\ \A id \in DOMAIN f \ hit : r[id] = f[id]
  OBVIOUS
<1> HIDE DEF hit, of
<1>6. r = [id \in DOMAIN r |-> r[id]]
  OBVIOUS
<1> HIDE DEF r
<1>7. \A id \in DOMAIN f : r[id] \in Row /\ (IsEntered(id) => r[id].acct \in Bank)
  BY <1>2, <1>3, <1>4, <1>5 DEF RowsOK
<1>8. RowsOK(r)
  BY <1>3, <1>5, <1>6, <1>7 DEF RowsOK
<1>9. BooksOK(c) /\ c.rows = r /\ c.open = b.open /\ c.sessions = b.sessions
  BY <1>1, <1>8, WithRows
<1>10. \A id \in EnteredId : id \notin hit
  BY <1>2 DEF EnteredId, IsEntered
<1> QED
  BY <1>1, <1>4, <1>5, <1>9, <1>10 DEF Quiet, PairsKept, OwnSame

(* One entered row put in place of another, or changed.                    *)
LEMMA PutRow ==
    ASSUME NEW f, RowsOK(f), NEW id \in EnteredId, NEW row \in OwnRow, NEW r, r = Put(f, id, row)
    PROVE  /\ RowsOK(r) /\ DOMAIN r = DOMAIN f \cup {id} /\ r[id] = row
           /\ \A x \in DOMAIN f \ {id} : r[x] = f[x]
<1> DEFINE g == [x \in {id} |-> row]
<1>1. id \in Id /\ row \in Row /\ row.acct \in Bank /\ IsFiniteSet({id})
  <2>1. IsFiniteSet({id})
    BY FS_Singleton
  <2> QED
    BY <2>1 DEF EnteredId, Id, OwnRow
<1>2. DOMAIN g = {id} /\ g[id] = row
  OBVIOUS
<1>3. RowsOK(g)
  BY <1>1, <1>2 DEF RowsOK
<1>4. r = Over(g, f)
  BY DEF Put
<1> HIDE DEF g
<1>5. /\ RowsOK(Over(g, f)) /\ DOMAIN Over(g, f) = DOMAIN g \cup DOMAIN f
      /\ \A x \in DOMAIN g : Over(g, f)[x] = g[x]
      /\ \A x \in DOMAIN f \ DOMAIN g : Over(g, f)[x] = f[x]
  BY <1>2, <1>3, Overlaid
<1> QED
  BY <1>2, <1>4, <1>5

LEMMA SetRow ==
    ASSUME NEW b, BooksOK(b), NEW id \in EnteredId, id \in DOMAIN b.rows, NEW row \in OwnRow,
           NEW c, c = [b EXCEPT !.rows[id] = row]
    PROVE  /\ BooksOK(c) /\ c.open = b.open /\ c.sessions = b.sessions
           /\ DOMAIN c.rows = DOMAIN b.rows /\ c.rows[id] = row
           /\ \A x \in DOMAIN b.rows \ {id} : c.rows[x] = b.rows[x]
           /\ Writes(b, c, id)
<1> DEFINE r == [b.rows EXCEPT ![id] = row]
<1>1. id \in Id /\ row \in Row /\ row.acct \in Bank
  BY DEF EnteredId, Id, OwnRow
<1>2. RowsOK(b.rows)
  BY DEF BooksOK
<1>3. /\ DOMAIN r = DOMAIN b.rows /\ r[id] = row
      /\ \A x \in DOMAIN b.rows \ {id} : r[x] = b.rows[x]
      /\ r = [x \in DOMAIN r |-> r[x]]
  BY <1>2 DEF RowsOK
<1>4. c = [b EXCEPT !.rows = r]
  BY DEF BooksOK
<1> HIDE DEF r
<1>5. RowsOK(r)
  BY <1>1, <1>2, <1>3 DEF RowsOK
<1>6. BooksOK(c) /\ c.rows = r /\ c.open = b.open /\ c.sessions = b.sessions
  <2> DEFINE d == [b EXCEPT !.rows = r]
  <2>1. BooksOK(d) /\ d.rows = r /\ d.open = b.open /\ d.sessions = b.sessions
    BY <1>5, WithRows
  <2>2. c = d
    BY <1>4
  <2> HIDE DEF d
  <2> QED
    BY <2>1, <2>2
<1>7. ~(~IsEntered(id))
  BY DEF EnteredId, IsEntered
<1>8. PairsKept(b, c)
  BY <1>3, <1>6, <1>7 DEF PairsKept
<1>9. OwnSame(b, c, {id})
  BY <1>3, <1>6 DEF OwnSame
<1> QED
  BY <1>3, <1>6, <1>8, <1>9 DEF Writes

LEMMA WritesAgain ==
    ASSUME NEW b, NEW c, NEW d, NEW id, Writes(b, c, id), Quiet(c, d) \/ Writes(c, d, id)
    PROVE  Writes(b, d, id)
<1>1. PairsKept(b, c) /\ PairsKept(c, d) /\ BooksOK(d)
  BY DEF Quiet, Writes
<1>2. PairsKept(b, d)
  <2>1. \A x \in DOMAIN b.rows :
          ~IsEntered(x) /\ b.rows[x].status = "reconciled"
            => x \in DOMAIN d.rows /\ d.rows[x] = b.rows[x]
    BY <1>1 DEF PairsKept
  <2>2. \A x \in DOMAIN d.rows : ~IsEntered(x) =>
          \/ /\ x \in DOMAIN b.rows /\ d.rows[x].acct = b.rows[x].acct
             /\ d.rows[x].status = b.rows[x].status
          \/ x \notin NamedRows /\ d.rows[x].status = "uncleared"
    BY <1>1 DEF PairsKept
  <2>3. d.open = b.open /\ d.sessions = b.sessions
    BY <1>1 DEF PairsKept
  <2> QED
    BY <2>1, <2>2, <2>3 DEF PairsKept
<1>3. OwnSame(b, d, {id})
  BY DEF Quiet, Writes, OwnSame
<1> QED
  BY <1>1, <1>2, <1>3 DEF Writes

LEMMA QuietThenWrites ==
    ASSUME NEW b, NEW c, NEW d, NEW id, Quiet(b, c), Writes(c, d, id)
    PROVE  Writes(b, d, id)
<1>1. Writes(b, c, id)
  BY DEF Quiet, Writes, OwnSame
<1> QED
  BY <1>1, WritesAgain

LEMMA QuietRow ==
    ASSUME NEW b, NEW c, Quiet(b, c), NEW id \in EnteredId, id \in DOMAIN b.rows
    PROVE  id \in DOMAIN c.rows /\ c.rows[id] = b.rows[id]
BY DEF Quiet, OwnSame

(* A row with its lines, which may have got other transfers.               *)
Becomes(c, id, row) ==
    /\ id \in DOMAIN c.rows
    /\ c.rows[id] = [row EXCEPT !.lines = c.rows[id].lines]
    /\ Amounts(c.rows[id].lines) = Amounts(row.lines)

Fit(row) == row.lines # <<>> => Total(row.lines) = row.n

LEMMA OwnIs ==
    ASSUME NEW row \in OwnRow, NEW l \in Lines
    PROVE  /\ [row EXCEPT !.lines = l] \in OwnRow /\ [row EXCEPT !.lines = l].lines = l
           /\ [row EXCEPT !.lines = l].n = row.n /\ [row EXCEPT !.lines = l].acct = row.acct
           /\ [row EXCEPT !.lines = l].status = row.status
           /\ [[row EXCEPT !.lines = l] EXCEPT !.lines = row.lines] = row
           /\ row.lines \in Lines
BY DEF OwnRow, Row

LEMMA EnteredOwn ==
    ASSUME NEW b, BooksOK(b), NEW id \in DOMAIN b.rows, IsEntered(id)
    PROVE  id \in EnteredId /\ b.rows[id] \in OwnRow
<1>1. id \in Id /\ b.rows[id] \in Row /\ b.rows[id].acct \in Bank
  BY DEF BooksOK, RowsOK
<1> QED
  BY <1>1 DEF Id, EnteredId, IsEntered, OwnRow

LEMMA EnteredIs == \A id \in EnteredId : IsEntered(id)
BY DEF EnteredId, IsEntered

(* The lines that name an account, as a set.                               *)
LEMMA NewLines ==
    ASSUME NEW lines \in Lines, NEW I \in SUBSET DOMAIN lines,
           \A i \in I : lines[i].tid \in Nat \ {0}
    PROVE  /\ {lines[i] : i \in I} \in SUBSET Line /\ IsFiniteSet({lines[i] : i \in I})
           /\ \A l \in {lines[i] : i \in I} : l.tid \in Nat \ {0}
<1>1. \A i \in I : lines[i] \in Line
  BY LinesAre
<1>2. IsFiniteSet(I)
  BY LinesAre, FS_Subset
<1> DEFINE f == [i \in I |-> lines[i]]
<1>3. Range(f) = {lines[i] : i \in I} /\ DOMAIN f = I
  BY DEF Range
<1>4. IsFiniteSet({lines[i] : i \in I})
  BY <1>2, <1>3, RangeFinite
<1> QED
  BY <1>1, <1>4

LEMMA CreateRowIs ==
    ASSUME StacksOK, NEW b, BooksOK(b), NEW id \in EnteredId, NEW row \in OwnRow,
           NEW c \in CreateRow(b, id, row)
    PROVE  /\ Writes(b, c, id) /\ Becomes(c, id, row) /\ id \notin DOMAIN b.rows
           /\ row.lines # <<>> => Fit(row)
<1> DEFINE m == Mint(b, row.lines)
           new == [row EXCEPT !.lines = m]
           d == [b EXCEPT !.rows = Put(b.rows, id, new)]
           L == {m[i] : i \in Moves(m)}
<1>1. row.lines \in Lines
  BY DEF OwnRow, Row
<1>2. /\ m \in Lines /\ Amounts(m) = Amounts(row.lines)
      /\ \A i \in Moves(m) : m[i].tid \in Nat \ {0}
  BY <1>1, MintIs
<1>3. id \notin DOMAIN b.rows /\ LinesFit(row)
  BY DEF CreateRow
<1>4. new.lines = m /\ new \in OwnRow /\ [new EXCEPT !.lines = row.lines] = row
  BY <1>2, OwnIs
<1>5. c \in CreatePairs(d, L)
  <2>1. c \in CreatePairs(d, {new.lines[i] : i \in Moves(new.lines)})
    BY DEF CreateRow
  <2> QED
    BY <2>1, <1>4
<1>6. Moves(m) \in SUBSET DOMAIN m
  BY DEF Moves
<1>7. L \in SUBSET Line /\ IsFiniteSet(L) /\ \A l \in L : l.tid \in Nat \ {0}
  <2> HIDE DEF m
  <2> QED
    BY <1>2, <1>6, NewLines
<1> HIDE DEF m, L
<1>8. /\ BooksOK(d) /\ d.open = b.open /\ d.sessions = b.sessions
      /\ DOMAIN d.rows = DOMAIN b.rows \cup {id} /\ d.rows[id] = new
      /\ \A x \in DOMAIN b.rows \ {id} : d.rows[x] = b.rows[x]
  <2> DEFINE r == Put(b.rows, id, new)
  <2>1. new \in OwnRow /\ RowsOK(b.rows)
    BY <1>4 DEF BooksOK
  <2> HIDE DEF new
  <2>2. /\ RowsOK(r) /\ DOMAIN r = DOMAIN b.rows \cup {id} /\ r[id] = new
        /\ \A x \in DOMAIN b.rows \ {id} : r[x] = b.rows[x]
    <3> DEFINE f == b.rows
    <3> HIDE DEF f, r
    <3>1. RowsOK(f) /\ r = Put(f, id, new)
      BY <2>1 DEF f, r
    <3>2. RowsOK(r) /\ DOMAIN r = DOMAIN f \cup {id} /\ r[id] = new
          /\ \A x \in DOMAIN f \ {id} : r[x] = f[x]
      BY <2>1, <3>1, PutRow
    <3> QED
      BY <3>2 DEF f
  <2>3. d = [b EXCEPT !.rows = r]
    OBVIOUS
  <2> HIDE DEF r, d
  <2>4. BooksOK(d) /\ d.rows = r /\ d.open = b.open /\ d.sessions = b.sessions
    BY <2>2, <2>3, WithRows
  <2> QED
    BY <2>2, <2>4
<1> HIDE DEF d
<1>9. Quiet(d, c)
  BY <1>5, <1>7, <1>8, CreatePairsIs
<1>10. Writes(b, d, id)
  <2>1. PairsKept(b, d)
    BY <1>8, EnteredIs DEF PairsKept
  <2>2. OwnSame(b, d, {id})
    BY <1>8 DEF OwnSame
  <2> QED
    BY <1>8, <2>1, <2>2 DEF Writes
<1>11. Writes(b, c, id)
  BY <1>9, <1>10, WritesAgain
<1>12. id \in DOMAIN c.rows /\ c.rows[id] = new
  BY <1>8, <1>9, QuietRow
<1>13. Becomes(c, id, row)
  BY <1>2, <1>4, <1>12 DEF Becomes, m
<1> QED
  BY <1>3, <1>11, <1>13 DEF LinesFit, Fit

LEMMA UpdateRowIs ==
    ASSUME NEW b, BooksOK(b), NEW id \in EnteredId, NEW row \in OwnRow,
           NEW c \in UpdateRow(b, id, row)
    PROVE  /\ Writes(b, c, id) /\ ~Frozen(b, id) /\ id \in DOMAIN c.rows
           /\ c.rows[id] = [row EXCEPT !.lines = b.rows[id].lines]
<1>1. c = [b EXCEPT !.rows[id] = [row EXCEPT !.lines = b.rows[id].lines]] /\ ~Frozen(b, id)
  BY DEF UpdateRow
<1>2. id \in DOMAIN b.rows
  BY <1>1 DEF Frozen
<1> DEFINE new == [row EXCEPT !.lines = b.rows[id].lines]
<1>3. new \in OwnRow
  <2>1. b.rows[id] \in OwnRow
    BY <1>2, EnteredOwn, EnteredIs
  <2>2. b.rows[id].lines \in Lines
    BY <2>1 DEF OwnRow, Row
  <2> QED
    BY <2>2, OwnIs
<1> HIDE DEF new
<1>4. c = [b EXCEPT !.rows[id] = new]
  BY <1>1 DEF new
<1>5. Writes(b, c, id) /\ c.rows[id] = new /\ DOMAIN c.rows = DOMAIN b.rows
  BY <1>2, <1>3, <1>4, SetRow
<1> QED
  BY <1>1, <1>2, <1>5 DEF new

LEMMA DeleteRowIs ==
    ASSUME NEW b, BooksOK(b), NEW id \in EnteredId, NEW c \in DeleteRow(b, id)
    PROVE  Writes(b, c, id) /\ ~Frozen(b, id) /\ id \notin DOMAIN c.rows
<1>1. ~Frozen(b, id)
  BY DEF DeleteRow
<1>2. PICK d \in DeletePairs(b, Tids(b.rows[id].lines)) : c = [d EXCEPT !.rows = Drop(d.rows, {id})]
  BY <1>1 DEF DeleteRow
<1>3. Quiet(b, d) /\ BooksOK(d) /\ RowsOK(d.rows)
  BY <1>2, DeletePairsIs DEF Quiet, BooksOK
<1> DEFINE r == Drop(d.rows, {id})
<1>4. /\ RowsOK(r) /\ DOMAIN r = DOMAIN d.rows \ {id}
      /\ \A x \in DOMAIN d.rows \ {id} : r[x] = d.rows[x]
  BY <1>3, Dropped
<1> HIDE DEF r
<1>5. c = [d EXCEPT !.rows = r]
  BY <1>2 DEF r
<1>6. BooksOK(c) /\ c.rows = r /\ c.open = d.open /\ c.sessions = d.sessions
  BY <1>3, <1>4, <1>5, WithRows
<1>7. PairsKept(d, c)
  BY <1>4, <1>6, EnteredIs DEF PairsKept
<1>8. OwnSame(d, c, {id})
  BY <1>4, <1>6 DEF OwnSame
<1>9. Writes(d, c, id)
  BY <1>6, <1>7, <1>8 DEF Writes
<1> QED
  BY <1>1, <1>3, <1>4, <1>6, <1>9, QuietThenWrites

LEMMA VoidRowIs ==
    ASSUME NEW b, BooksOK(b), NEW id \in EnteredId, NEW c \in VoidRow(b, id)
    PROVE  /\ Writes(b, c, id) /\ ~Frozen(b, id) /\ id \in DOMAIN c.rows
           /\ c.rows[id].lines = <<>> /\ c.rows[id].status = "void"
           /\ c.rows[id].acct = b.rows[id].acct /\ c.rows[id].n = 0
<1>1. ~Frozen(b, id) /\ id \in DOMAIN b.rows
  BY DEF VoidRow, Frozen
<1>2. PICK d \in DeletePairs(b, Tids(b.rows[id].lines)) :
        c = [d EXCEPT !.rows[id] = [d.rows[id] EXCEPT !.n = 0, !.status = "void", !.lines = <<>>]]
  BY <1>1 DEF VoidRow
<1>3. Quiet(b, d) /\ BooksOK(d)
  BY <1>2, DeletePairsIs DEF Quiet
<1>4. id \in DOMAIN d.rows /\ d.rows[id] = b.rows[id]
  BY <1>1, <1>3, QuietRow
<1> DEFINE new == [d.rows[id] EXCEPT !.n = 0, !.status = "void", !.lines = <<>>]
<1>5. /\ new \in OwnRow /\ new.lines = <<>> /\ new.status = "void"
      /\ new.acct = b.rows[id].acct /\ new.n = 0
  <2>1. d.rows[id] \in OwnRow
    BY <1>3, <1>4, EnteredIs, EnteredOwn
  <2>2. <<>> \in Lines /\ 0 \in Int /\ "void" \in Status
    BY DEF Lines, Status
  <2> QED
    BY <2>1, <2>2, <1>4 DEF OwnRow, Row
<1> HIDE DEF new
<1>6. c = [d EXCEPT !.rows[id] = new]
  BY <1>2 DEF new
<1>7. Writes(d, c, id) /\ c.rows[id] = new /\ DOMAIN c.rows = DOMAIN d.rows
  BY <1>3, <1>4, <1>5, <1>6, SetRow
<1> QED
  BY <1>1, <1>3, <1>4, <1>5, <1>7, QuietThenWrites

(* The lines of a row replaced by others.  Which old line a new one takes  *)
(* over does not matter here.                                              *)
LEMMA ReplaceSplitsIs ==
    ASSUME StacksOK, NEW b, BooksOK(b), NEW id \in EnteredId, NEW lines \in Lines,
           NEW c \in ReplaceSplits(b, id, lines)
    PROVE  /\ Writes(b, c, id) /\ ~Frozen(b, id) /\ id \in DOMAIN c.rows
           /\ c.rows[id] = [b.rows[id] EXCEPT !.lines = c.rows[id].lines]
           /\ Amounts(c.rows[id].lines) = Amounts(lines)
           /\ lines # <<>> => Total(lines) = b.rows[id].n
<1> DEFINE old     == b.rows[id].lines
           m       == Matches(old, lines)
           kept    == {i \in DOMAIN lines : m[i] \in Moves(old)}
           over    == [i \in DOMAIN lines |->
                         IF i \in kept THEN [lines[i] EXCEPT !.tid = old[m[i]].tid] ELSE lines[i]]
           new     == Mint(b, over)
           gone    == {old[j].tid : j \in Moves(old) \ Range(m)}
           changed == {new[i] : i \in {k \in kept : new[k] # old[m[k]]}}
           added   == {new[i] : i \in Moves(new) \ kept}
<1>1. ~Frozen(b, id) /\ LinesFit([b.rows[id] EXCEPT !.lines = lines])
  BY DEF ReplaceSplits
<1>2. id \in DOMAIN b.rows
  BY <1>1 DEF Frozen
<1>3. c \in UNION {UNION {CreatePairs([e EXCEPT !.rows[id].lines = new], added) :
                            e \in MirrorPairs(d, changed)} : d \in DeletePairs(b, gone)}
  BY <1>1 DEF ReplaceSplits
<1>4. b.rows[id] \in OwnRow
  BY <1>2, EnteredIs, EnteredOwn
<1>5. old \in Lines /\ Len(lines) \in Nat /\ DOMAIN lines = 1..Len(lines)
      /\ \A i \in DOMAIN lines : lines[i] \in Line
  BY <1>4 DEF OwnRow, Row, Lines
<1>6. over \in Lines /\ Amounts(over) = Amounts(lines) /\ DOMAIN over = DOMAIN lines
  <2> HIDE DEF m, old
  <2>1. \A i \in DOMAIN lines : over[i] \in Line /\ over[i].n = lines[i].n
    <3> TAKE i \in DOMAIN lines
    <3>1. CASE i \in kept
      <4> DEFINE t == old[m[i]].tid
      <4>1. old[m[i]] \in Line /\ lines[i] \in Line
        BY <1>5, <3>1, LinesAre
      <4>2. t \in Nat
        BY <4>1 DEF Line
      <4>3. over[i] = [lines[i] EXCEPT !.tid = t]
        BY <3>1
      <4> HIDE DEF t, over
      <4> QED
        BY <4>1, <4>2, <4>3 DEF Line
    <3>2. CASE i \notin kept
      BY <1>5, <3>2
    <3> QED
      BY <3>1, <3>2
  <2>2. DOMAIN over = 1..Len(lines) /\ over = [i \in 1..Len(lines) |-> over[i]]
    <3>1. DOMAIN over = DOMAIN lines
      OBVIOUS
    <3>2. over = [i \in DOMAIN lines |-> over[i]]
      <4> HIDE DEF kept
      <4> QED
        OBVIOUS
    <3> HIDE DEF over
    <3> QED
      BY <3>1, <3>2, <1>5
  <2> HIDE DEF over
  <2> QED
    BY <2>1, <2>2, <1>5 DEF Lines, Amounts
<1> HIDE DEF m, kept, over, gone
<1>7. /\ new \in Lines /\ Amounts(new) = Amounts(lines)
      /\ \A i \in Moves(new) : new[i].tid \in Nat \ {0}
  BY <1>6, MintIs
<1>8. DOMAIN new = DOMAIN lines
  BY <1>7, SameTotal
<1> HIDE DEF new
<1>9. changed \in SUBSET Line
  <2>1. \A i \in kept : new[i] \in Line
    BY <1>7, <1>8, LinesAre DEF kept
  <2> HIDE DEF old
  <2> QED
    BY <2>1
<1>10. added \in SUBSET Line /\ IsFiniteSet(added) /\ \A l \in added : l.tid \in Nat \ {0}
  <2> DEFINE I == Moves(new) \ kept
  <2>1. I \in SUBSET DOMAIN new /\ \A i \in I : new[i].tid \in Nat \ {0}
    BY <1>7 DEF Moves
  <2> HIDE DEF I
  <2>2. added = {new[i] : i \in I}
    BY DEF I
  <2> HIDE DEF added
  <2> QED
    BY <1>7, <2>1, <2>2, NewLines
<1> HIDE DEF changed, added
<1>11. PICK d \in DeletePairs(b, gone) :
          c \in UNION {CreatePairs([e EXCEPT !.rows[id].lines = new], added) :
                         e \in MirrorPairs(d, changed)}
  BY <1>3
<1>12. Quiet(b, d) /\ BooksOK(d)
  BY <1>11, DeletePairsIs DEF Quiet
<1>13. PICK e \in MirrorPairs(d, changed) :
          c \in CreatePairs([e EXCEPT !.rows[id].lines = new], added)
  BY <1>11
<1>14. Quiet(d, e) /\ BooksOK(e)
  BY <1>9, <1>12, <1>13, MirrorPairsIs DEF Quiet
<1>15. Quiet(b, e)
  BY <1>12, <1>14, QuietAgain
<1>16. id \in DOMAIN e.rows /\ e.rows[id] = b.rows[id]
  BY <1>2, <1>15, QuietRow
<1> DEFINE row == [e.rows[id] EXCEPT !.lines = new]
           f   == [e EXCEPT !.rows[id].lines = new]
<1>17. row \in OwnRow /\ row.lines = new /\ row = [b.rows[id] EXCEPT !.lines = new]
  <2> DEFINE q == b.rows[id]
  <2> HIDE DEF q
  <2>1. q \in OwnRow /\ row = [q EXCEPT !.lines = new]
    BY <1>4, <1>16 DEF q, row
  <2> HIDE DEF row
  <2> QED
    BY <2>1, <1>7, OwnIs DEF q
<1>18. f = [e EXCEPT !.rows[id] = row]
  OBVIOUS
<1> HIDE DEF row, f
<1>19. BooksOK(f) /\ f.rows[id] = row /\ DOMAIN f.rows = DOMAIN e.rows /\ Writes(e, f, id)
  BY <1>14, <1>16, <1>17, <1>18, SetRow
<1>20. c \in CreatePairs(f, added)
  BY <1>13 DEF f
<1>21. Quiet(f, c)
  BY <1>10, <1>19, <1>20, CreatePairsIs
<1>22. Writes(b, c, id)
  BY <1>15, <1>19, <1>21, QuietThenWrites, WritesAgain
<1>23. id \in DOMAIN c.rows /\ c.rows[id] = row
  BY <1>16, <1>19, <1>21, QuietRow
<1>24. lines # <<>> => Total(lines) = b.rows[id].n
  BY <1>1, <1>4, OwnIs DEF LinesFit
<1> QED
  BY <1>1, <1>7, <1>17, <1>22, <1>23, <1>24

LEMMA UpdateWithSplitsIs ==
    ASSUME StacksOK, NEW b, BooksOK(b), NEW id \in EnteredId, NEW row \in OwnRow,
           NEW c \in UpdateWithSplits(b, id, row)
    PROVE  /\ Writes(b, c, id) /\ ~Frozen(b, id) /\ Becomes(c, id, row)
           /\ row.lines # <<>> => Fit(row)
<1>1. PICK d \in UpdateRow(b, id, row) : c \in ReplaceSplits(d, id, row.lines)
  BY DEF UpdateWithSplits
<1>2. /\ Writes(b, d, id) /\ BooksOK(d) /\ ~Frozen(b, id)
      /\ d.rows[id] = [row EXCEPT !.lines = b.rows[id].lines]
  BY <1>1, UpdateRowIs DEF Writes
<1>3. row.lines \in Lines /\ b.rows[id].lines \in Lines
  <2>1. id \in DOMAIN b.rows
    BY <1>2 DEF Frozen
  <2>2. b.rows[id] \in OwnRow
    BY <2>1, EnteredIs, EnteredOwn
  <2> QED
    BY <2>2 DEF OwnRow, Row
<1>4. /\ Writes(d, c, id) /\ id \in DOMAIN c.rows
      /\ c.rows[id] = [d.rows[id] EXCEPT !.lines = c.rows[id].lines]
      /\ Amounts(c.rows[id].lines) = Amounts(row.lines)
      /\ row.lines # <<>> => Total(row.lines) = d.rows[id].n
  <2> DEFINE l == row.lines
  <2> HIDE DEF l
  <2>1. c \in ReplaceSplits(d, id, l) /\ l \in Lines /\ BooksOK(d)
    BY <1>1, <1>2, <1>3 DEF l
  <2>2. /\ Writes(d, c, id) /\ id \in DOMAIN c.rows
        /\ c.rows[id] = [d.rows[id] EXCEPT !.lines = c.rows[id].lines]
        /\ Amounts(c.rows[id].lines) = Amounts(l)
        /\ l # <<>> => Total(l) = d.rows[id].n
    BY <2>1, ReplaceSplitsIs
  <2> QED
    BY <2>2 DEF l
<1>5. d.rows[id].n = row.n
  <2> DEFINE k == b.rows[id].lines
  <2> HIDE DEF k
  <2>1. k \in Lines /\ d.rows[id] = [row EXCEPT !.lines = k]
    BY <1>2, <1>3 DEF k
  <2>2. [row EXCEPT !.lines = k].n = row.n
    BY <2>1, OwnIs
  <2> QED
    BY <2>1, <2>2
<1>6. c.rows[id] = [row EXCEPT !.lines = c.rows[id].lines]
  <2> DEFINE l == c.rows[id].lines
             k == b.rows[id].lines
             q == c.rows[id]
  <2> HIDE DEF l, k, q
  <2>1. q = [[row EXCEPT !.lines = k] EXCEPT !.lines = l]
    BY <1>2, <1>4 DEF l, k, q
  <2>2. q = [row EXCEPT !.lines = l]
    BY <2>1 DEF OwnRow, Row
  <2> QED
    BY <2>2 DEF q, l
<1>7. Writes(b, c, id)
  BY <1>2, <1>4, WritesAgain
<1> QED
  BY <1>2, <1>4, <1>5, <1>6, <1>7 DEF Becomes, Fit

LEMMA RestoreVoidedIs ==
    ASSUME StacksOK, NEW b, BooksOK(b), NEW id \in EnteredId, NEW row \in OwnRow,
           NEW c \in RestoreVoided(b, id, row)
    PROVE  /\ Writes(b, c, id) /\ Becomes(c, id, row)
           /\ id \in DOMAIN b.rows /\ b.rows[id].status = "void"
           /\ row.lines # <<>> => Fit(row)
<1> DEFINE new == [row EXCEPT !.lines = <<>>]
           d   == [b EXCEPT !.rows[id] = new]
<1>1. id \in DOMAIN b.rows /\ b.rows[id].status = "void"
  BY DEF RestoreVoided
<1>2. new \in OwnRow /\ new.lines = <<>> /\ new.n = row.n /\ row.lines \in Lines
  <2>1. <<>> \in Lines
    BY DEF Lines
  <2> QED
    BY <2>1, OwnIs
<1>3. IF row.lines = <<>> THEN c = d ELSE c \in ReplaceSplits(d, id, row.lines)
  BY <1>1 DEF RestoreVoided
<1> HIDE DEF new
<1>4. d = [b EXCEPT !.rows[id] = new]
  OBVIOUS
<1> HIDE DEF d
<1>5. BooksOK(d) /\ Writes(b, d, id) /\ d.rows[id] = new /\ DOMAIN d.rows = DOMAIN b.rows
  BY <1>1, <1>2, <1>4, SetRow
<1>6. CASE row.lines = <<>>
  <2>1. c.rows[id] = [row EXCEPT !.lines = c.rows[id].lines]
    BY <1>2, <1>3, <1>5, <1>6, OwnIs DEF new
  <2>2. Becomes(c, id, row)
    BY <2>1, <1>1, <1>2, <1>3, <1>5, <1>6 DEF Becomes
  <2> QED
    BY <2>2, <1>1, <1>3, <1>5, <1>6
<1>7. CASE row.lines # <<>>
  <2>1. /\ Writes(d, c, id) /\ id \in DOMAIN c.rows
        /\ c.rows[id] = [d.rows[id] EXCEPT !.lines = c.rows[id].lines]
        /\ Amounts(c.rows[id].lines) = Amounts(row.lines)
        /\ Total(row.lines) = d.rows[id].n
    BY <1>2, <1>3, <1>5, <1>7, ReplaceSplitsIs
  <2>2. c.rows[id] = [row EXCEPT !.lines = c.rows[id].lines]
    <3> DEFINE l == c.rows[id].lines
               q == c.rows[id]
    <3> HIDE DEF l, q
    <3>1. q = [[row EXCEPT !.lines = <<>>] EXCEPT !.lines = l]
      BY <1>5, <2>1 DEF l, q, new
    <3>2. q = [row EXCEPT !.lines = l]
      BY <3>1 DEF OwnRow, Row
    <3> QED
      BY <3>2 DEF q, l
  <2>3. Writes(b, c, id)
    BY <1>5, <2>1, WritesAgain
  <2> QED
    BY <1>1, <1>2, <1>5, <2>1, <2>2, <2>3 DEF Becomes, Fit
<1> QED
  BY <1>6, <1>7

----------------------------------------------------------------------------
(* Commands.  What executing or undoing one that does not finish a         *)
(* reconciliation does to the row it is about, and to the others.          *)

LEMMA BecomesIs ==
    ASSUME NEW b, BooksOK(b), NEW id \in EnteredId, NEW row \in OwnRow, Becomes(b, id, row)
    PROVE  /\ b.rows[id].status = row.status /\ b.rows[id].acct = row.acct
           /\ b.rows[id].n = row.n /\ b.rows[id].lines \in Lines
           /\ Total(b.rows[id].lines) = Total(row.lines)
           /\ (b.rows[id].lines = <<>>) <=> (row.lines = <<>>)
<1> DEFINE q == b.rows[id]
           l == q.lines
<1>1. q \in OwnRow
  BY EnteredIs, EnteredOwn DEF Becomes
<1>2. l \in Lines /\ row.lines \in Lines
  BY <1>1 DEF OwnRow, Row
<1>3. q = [row EXCEPT !.lines = l] /\ Amounts(l) = Amounts(row.lines)
  BY DEF Becomes
<1> HIDE DEF q, l
<1>4. q.status = row.status /\ q.acct = row.acct /\ q.n = row.n
  BY <1>2, <1>3, OwnIs
<1>5. Total(l) = Total(row.lines) /\ DOMAIN l = DOMAIN row.lines
  <2> DEFINE k == row.lines
  <2> HIDE DEF k
  <2>1. Amounts(l) = Amounts(k)
    BY <1>3 DEF k
  <2>2. Total(l) = Total(k) /\ DOMAIN l = DOMAIN k
    BY <2>1, SameTotal
  <2> QED
    BY <2>2 DEF k
<1>6. (l = <<>>) <=> (row.lines = <<>>)
  BY <1>2, <1>5 DEF Lines
<1> QED
  BY <1>2, <1>4, <1>5, <1>6 DEF q, l

(* A row that may change, and the row it becomes: neither is reconciled.   *)
Changes(b, d, id) ==
    /\ Writes(b, d, id)
    /\ id \in DOMAIN b.rows => b.rows[id].status # "reconciled"
    /\ id \in DOMAIN d.rows => d.rows[id].status # "reconciled"

Created(b, d, id, row) ==
    /\ id \notin DOMAIN b.rows /\ Becomes(d, id, row) /\ (row.lines # <<>> => Fit(row))
Edited(b, d, id, row) ==
    /\ ~Frozen(b, id) /\ id \in DOMAIN d.rows
    /\ d.rows[id] = [row EXCEPT !.lines = b.rows[id].lines]
Replaced(b, d, id, row) ==
    /\ ~Frozen(b, id) /\ Becomes(d, id, row) /\ (row.lines # <<>> => Fit(row))
Removed(b, d, id) == ~Frozen(b, id) /\ id \notin DOMAIN d.rows
Voided(b, d, id) ==
    /\ ~Frozen(b, id) /\ id \in DOMAIN d.rows /\ d.rows[id].lines = <<>>
    /\ d.rows[id].status = "void" /\ d.rows[id].acct = b.rows[id].acct /\ d.rows[id].n = 0
Restored(b, d, id, row) ==
    /\ id \in DOMAIN b.rows /\ b.rows[id].status = "void"
    /\ Becomes(d, id, row) /\ (row.lines # <<>> => Fit(row))

Turned(b, d, open) == d = [b EXCEPT !.open = open] /\ open \subseteq Account

LEMMA CreatedIs ==
    ASSUME StacksOK, NEW b, BooksOK(b), NEW id \in EnteredId,
           NEW row \in OwnRow, row.status # "reconciled", NEW d \in CreateRow(b, id, row)
    PROVE  Changes(b, d, id) /\ Created(b, d, id, row)
<1>1. Writes(b, d, id) /\ Created(b, d, id, row)
  BY CreateRowIs DEF Created
<1>2. d.rows[id].status = row.status
  BY <1>1, BecomesIs DEF Created, Writes
<1> QED
  BY <1>1, <1>2 DEF Changes, Created

LEMMA EditedIs ==
    ASSUME NEW b, BooksOK(b), NEW id \in EnteredId,
           NEW row \in OwnRow, row.status # "reconciled", NEW d \in UpdateRow(b, id, row)
    PROVE  /\ Changes(b, d, id) /\ Edited(b, d, id, row)
           /\ d.rows[id].status = row.status /\ d.rows[id].acct = row.acct
           /\ d.rows[id].n = row.n /\ d.rows[id].lines = b.rows[id].lines
<1>1. Writes(b, d, id) /\ Edited(b, d, id, row)
  BY UpdateRowIs DEF Edited
<1>2. b.rows[id] \in OwnRow /\ b.rows[id].status # "reconciled"
  BY <1>1, EnteredIs, EnteredOwn DEF Edited, Frozen
<1> DEFINE l == b.rows[id].lines
<1>3. l \in Lines
  BY <1>2 DEF OwnRow, Row
<1>4. d.rows[id] = [row EXCEPT !.lines = l]
  BY <1>1 DEF Edited
<1> HIDE DEF l
<1>5. /\ [row EXCEPT !.lines = l].lines = l /\ [row EXCEPT !.lines = l].n = row.n
      /\ [row EXCEPT !.lines = l].acct = row.acct /\ [row EXCEPT !.lines = l].status = row.status
  BY <1>3, OwnIs
<1>6. /\ d.rows[id].status = row.status /\ d.rows[id].acct = row.acct
      /\ d.rows[id].n = row.n /\ d.rows[id].lines = l
  BY <1>4, <1>5
<1> QED
  BY <1>1, <1>2, <1>6 DEF Changes, l

LEMMA ReplacedIs ==
    ASSUME StacksOK, NEW b, BooksOK(b), NEW id \in EnteredId,
           NEW row \in OwnRow, row.status # "reconciled", NEW d \in UpdateWithSplits(b, id, row)
    PROVE  Changes(b, d, id) /\ Replaced(b, d, id, row)
<1>1. Writes(b, d, id) /\ Replaced(b, d, id, row)
  BY UpdateWithSplitsIs DEF Replaced
<1>2. d.rows[id].status = row.status
  BY <1>1, BecomesIs DEF Replaced, Writes
<1>3. b.rows[id].status # "reconciled"
  BY <1>1 DEF Replaced, Frozen
<1> QED
  BY <1>1, <1>2, <1>3 DEF Changes

LEMMA RemovedIs ==
    ASSUME NEW b, BooksOK(b), NEW id \in EnteredId, NEW d \in DeleteRow(b, id)
    PROVE  Changes(b, d, id) /\ Removed(b, d, id)
BY DeleteRowIs DEF Changes, Removed, Frozen

LEMMA VoidedIs ==
    ASSUME NEW b, BooksOK(b), NEW id \in EnteredId, NEW d \in VoidRow(b, id)
    PROVE  Changes(b, d, id) /\ Voided(b, d, id)
BY VoidRowIs DEF Changes, Voided, Frozen

LEMMA RestoredIs ==
    ASSUME StacksOK, NEW b, BooksOK(b), NEW id \in EnteredId,
           NEW row \in OwnRow, row.status # "reconciled", NEW d \in RestoreVoided(b, id, row)
    PROVE  Changes(b, d, id) /\ Restored(b, d, id, row)
<1>1. Writes(b, d, id) /\ Restored(b, d, id, row)
  BY RestoreVoidedIs DEF Restored
<1>2. d.rows[id].status = row.status
  BY <1>1, BecomesIs DEF Restored, Writes
<1> QED
  BY <1>1, <1>2 DEF Changes, Restored

(* What a command does when it is executed, and when it is undone.         *)
Does(b, d, c) ==
    /\ c.verb \in RowVerb => Changes(b, d, c.id)
    /\ c.verb = "create"     => Created(b, d, c.id, c.row)
    /\ c.verb = "edit"       => Edited(b, d, c.id, c.row)
    /\ c.verb = "editSplits" => Replaced(b, d, c.id, c.row)
    /\ c.verb = "delete"     => Removed(b, d, c.id)
    /\ c.verb = "void"       => Voided(b, d, c.id)
    /\ c.verb \in {"close", "reopen"} => \E open \in SUBSET Account : Turned(b, d, open)

Undoes(b, d, c, k) ==
    /\ c.verb \in RowVerb => Changes(b, d, c.id)
    /\ c.verb = "create"     => Removed(b, d, c.id)
    /\ c.verb = "edit"       => Edited(b, d, c.id, k.row)
    /\ c.verb = "editSplits" => Replaced(b, d, c.id, k.row)
    /\ c.verb = "delete"     => Created(b, d, c.id, k.row)
    /\ c.verb = "void"       => Restored(b, d, c.id, k.row)
    /\ c.verb \in {"close", "reopen"} => \E open \in SUBSET Account : Turned(b, d, open)

LEMMA EffectsAre ==
    ASSUME StacksOK, NEW b, BooksOK(b), NEW c, CmdOK(c), c.verb # "finish", NEW d \in Effects(b, c)
    PROVE  Does(b, d, c)
<1>1. c.verb \in HasRow => c.row \in OwnRow /\ c.row.status # "reconciled"
  BY DEF CmdOK
<1>2. c.verb \in RowVerb => c.id \in EnteredId
  BY DEF CmdOK
<1>3. c.verb \in {"create", "edit", "editSplits", "delete", "void", "close", "reopen"}
  BY DEF CmdOK, Verb, RowVerb
<1> DEFINE id == c.id
           row == c.row
<1>4. CASE c.verb = "create"
  <2>1. d \in CreateRow(b, id, row) /\ id \in EnteredId /\ row \in OwnRow
          /\ row.status # "reconciled"
    BY <1>1, <1>2, <1>4 DEF Effects, HasRow, RowVerb
  <2> HIDE DEF id, row
  <2>2. Changes(b, d, id) /\ Created(b, d, id, row)
    BY <2>1, CreatedIs
  <2> QED
    BY <1>4, <2>2 DEF Does, id, row
<1>5. CASE c.verb = "edit"
  <2>1. d \in UpdateRow(b, id, row) /\ id \in EnteredId /\ row \in OwnRow
          /\ row.status # "reconciled"
    BY <1>1, <1>2, <1>5 DEF Effects, HasRow, RowVerb
  <2> HIDE DEF id, row
  <2>2. Changes(b, d, id) /\ Edited(b, d, id, row)
    BY <2>1, EditedIs
  <2> QED
    BY <1>5, <2>2 DEF Does, id, row
<1>6. CASE c.verb = "editSplits"
  <2>1. /\ d \in UpdateWithSplits(b, id, row)
        /\ id \in EnteredId /\ row \in OwnRow /\ row.status # "reconciled"
    BY <1>1, <1>2, <1>6 DEF Effects, HasRow, RowVerb
  <2> HIDE DEF id, row
  <2>2. Changes(b, d, id) /\ Replaced(b, d, id, row)
    BY <2>1, ReplacedIs
  <2> QED
    BY <1>6, <2>2 DEF Does, id, row
<1>7. CASE c.verb = "delete"
  <2>1. d \in DeleteRow(b, id) /\ id \in EnteredId
    BY <1>2, <1>7 DEF Effects, RowVerb
  <2> HIDE DEF id, row
  <2>2. Changes(b, d, id) /\ Removed(b, d, id)
    BY <2>1, RemovedIs
  <2> QED
    BY <1>7, <2>2 DEF Does, id
<1>8. CASE c.verb = "void"
  <2>1. d \in VoidRow(b, id) /\ id \in EnteredId
    BY <1>2, <1>8 DEF Effects, RowVerb
  <2> HIDE DEF id, row
  <2>2. Changes(b, d, id) /\ Voided(b, d, id)
    BY <2>1, VoidedIs
  <2> QED
    BY <1>8, <2>2 DEF Does, id
<1>9. CASE c.verb \in {"close", "reopen"}
  <2>1. b.open \subseteq Account /\ c.acct \in Account
    BY <1>9 DEF BooksOK, CmdOK
  <2>2. \E open \in SUBSET Account : d = [b EXCEPT !.open = open]
    <3>1. CASE c.verb = "close"
      <4>1. d = [b EXCEPT !.open = b.open \ {c.acct}]
        BY <3>1 DEF Effects, CloseAccount
      <4> QED
        BY <2>1, <4>1
    <3>2. CASE c.verb = "reopen"
      <4>1. d = [b EXCEPT !.open = b.open \cup {c.acct}]
        BY <3>2 DEF Effects, ReopenAccount
      <4> QED
        BY <2>1, <4>1
    <3> QED
      BY <1>9, <3>1, <3>2
  <2> QED
    BY <1>9, <2>2 DEF Does, Turned, RowVerb
<1> QED
  BY <1>3, <1>4, <1>5, <1>6, <1>7, <1>8, <1>9

LEMMA UndoneAre ==
    ASSUME StacksOK, NEW b, BooksOK(b), NEW c, CmdOK(c), NEW k, BackOK(c, k),
           c.verb # "finish", NEW d \in Undone(b, c, k)
    PROVE  Undoes(b, d, c, k)
<1>1. c.verb \in TakesRow => k.row \in OwnRow /\ k.row.status # "reconciled"
  BY DEF BackOK
<1>2. c.verb \in RowVerb => c.id \in EnteredId
  BY DEF CmdOK
<1>3. c.verb \in {"create", "edit", "editSplits", "delete", "void", "close", "reopen"}
  BY DEF CmdOK, Verb, RowVerb
<1> DEFINE id == c.id
           row == k.row
<1>4. CASE c.verb = "create"
  <2>1. d \in DeleteRow(b, id) /\ id \in EnteredId
    BY <1>2, <1>4 DEF Undone, RowVerb
  <2> HIDE DEF id, row
  <2>2. Changes(b, d, id) /\ Removed(b, d, id)
    BY <2>1, RemovedIs
  <2> QED
    BY <1>4, <2>2 DEF Undoes, id
<1>5. CASE c.verb = "edit"
  <2>1. d \in UpdateRow(b, id, row) /\ id \in EnteredId /\ row \in OwnRow
          /\ row.status # "reconciled"
    BY <1>1, <1>2, <1>5 DEF Undone, TakesRow, RowVerb
  <2> HIDE DEF id, row
  <2>2. Changes(b, d, id) /\ Edited(b, d, id, row)
    BY <2>1, EditedIs
  <2> QED
    BY <1>5, <2>2 DEF Undoes, id, row
<1>6. CASE c.verb = "editSplits"
  <2>1. /\ d \in UpdateWithSplits(b, id, row)
        /\ id \in EnteredId /\ row \in OwnRow /\ row.status # "reconciled"
    BY <1>1, <1>2, <1>6 DEF Undone, TakesRow, RowVerb
  <2> HIDE DEF id, row
  <2>2. Changes(b, d, id) /\ Replaced(b, d, id, row)
    BY <2>1, ReplacedIs
  <2> QED
    BY <1>6, <2>2 DEF Undoes, id, row
<1>7. CASE c.verb = "delete"
  <2>1. d \in CreateRow(b, id, row) /\ id \in EnteredId /\ row \in OwnRow
          /\ row.status # "reconciled"
    BY <1>1, <1>2, <1>7 DEF Undone, TakesRow, RowVerb
  <2> HIDE DEF id, row
  <2>2. Changes(b, d, id) /\ Created(b, d, id, row)
    BY <2>1, CreatedIs
  <2> QED
    BY <1>7, <2>2 DEF Undoes, id, row
<1>8. CASE c.verb = "void"
  <2>1. /\ d \in RestoreVoided(b, id, row)
        /\ id \in EnteredId /\ row \in OwnRow /\ row.status # "reconciled"
    BY <1>1, <1>2, <1>8 DEF Undone, TakesRow, RowVerb
  <2> HIDE DEF id, row
  <2>2. Changes(b, d, id) /\ Restored(b, d, id, row)
    BY <2>1, RestoredIs
  <2> QED
    BY <1>8, <2>2 DEF Undoes, id, row
<1>9. CASE c.verb \in {"close", "reopen"}
  <2>1. b.open \subseteq Account /\ c.acct \in Account
    BY <1>9 DEF BooksOK, CmdOK
  <2>2. \E open \in SUBSET Account : d = [b EXCEPT !.open = open]
    <3>1. CASE c.verb = "close"
      <4>1. d = [b EXCEPT !.open = b.open \cup {c.acct}]
        BY <3>1 DEF Undone, ReopenAccount
      <4> QED
        BY <2>1, <4>1
    <3>2. CASE c.verb = "reopen"
      <4>1. d = [b EXCEPT !.open = b.open \ {c.acct}]
        BY <3>2 DEF Undone, RestoreClosed
      <4> QED
        BY <2>1, <4>1
    <3> QED
      BY <1>9, <3>1, <3>2
  <2> QED
    BY <1>9, <2>2 DEF Undoes, Turned, RowVerb
<1> QED
  BY <1>3, <1>4, <1>5, <1>6, <1>7, <1>8, <1>9

----------------------------------------------------------------------------
(* The inductive invariant.  An identifier belongs to one account, wherever*)
(* it is named; the sessions that the commands to undo finished are the    *)
(* last ones, in order; the rows that one of them reconciled are still     *)
(* reconciled, and without those of it and of the later ones the account   *)
(* agrees with the session before.                                         *)

Held(b) == {<<id, b.rows[id].acct>> : id \in DOMAIN b.rows}

CmdNotes(c) ==
    (IF c.verb \in HasRow THEN {<<c.id, c.row.acct>>} ELSE {})
      \cup {<<id, c.acct>> : id \in c.ids}
BackNotes(c, k) == IF c.verb \in TakesRow THEN {<<c.id, k.row.acct>>} ELSE {}
EntryNotes(e)   == CmdNotes(e.cmd) \cup BackNotes(e.cmd, e.back)
CopyNotes(q)    == IF q = None THEN {} ELSE {<<q.id, q.row.acct>>}

Noted(u, r, q) ==
    CopyNotes(q) \cup (UNION {CmdNotes(c) : c \in Range(r)})
      \cup (UNION {EntryNotes(e) : e \in Range(u)})

OneAccount(S)  == \A x, y \in S : x[1] = y[1] => x[2] = y[2]
Older(S, p)    == \A x \in S : IsEntered(x[1]) => x[1][2] > p

StackOK(u) == IsSeq(u) /\ \A i \in DOMAIN u : EntryOK(u[i])

Finishes(u, i)  == u[i].cmd.verb = "finish"
AcctOf(u, i)    == u[i].cmd.acct
SessionOf(u, i) == u[i].back.session
AtOf(b, u, i)   == b.sessions[SessionOf(u, i)].at
Caught(u, i)    == DOMAIN u[i].back.statuses
From(u, i)      == UNION {Caught(u, j) : j \in {k \in DOMAIN u : k >= i}}

Done(b)           == {s \in DOMAIN b.sessions : b.sessions[s].at > 0}
Before(b, a, cut) == {s \in Completed(b, a) : b.sessions[s].at < cut}

(* The amounts of rows add up to the balance of the last of the sessions.  *)
StandsAt(b, R, S) ==
    \/ S = {} /\ SumOf(b, R) = 0
    \/ \E s \in S :
          /\ \A t \in S : t # s => b.sessions[t].at < b.sessions[s].at
          /\ SumOf(b, R) = b.sessions[s].balance

Distinct(b) == \A s, t \in Done(b) : b.sessions[s].at = b.sessions[t].at => s = t

InOrder(b, u) ==
    \A i \in DOMAIN u : Finishes(u, i) =>
      /\ SessionOf(u, i) \in Done(b)
      /\ b.sessions[SessionOf(u, i)].acct = AcctOf(u, i)
      /\ \A j \in DOMAIN u : j > i /\ Finishes(u, j) => AtOf(b, u, i) < AtOf(b, u, j)
      /\ \A t \in Done(b) : b.sessions[t].at > AtOf(b, u, i) =>
            \E j \in DOMAIN u : j > i /\ Finishes(u, j) /\ SessionOf(u, j) = t

StillCaught(b, u) ==
    \A i \in DOMAIN u :
      /\ Finishes(u, i) => Caught(u, i) \subseteq Reconciled(b, AcctOf(u, i))
      /\ \A j \in DOMAIN u : i # j => Caught(u, i) \cap Caught(u, j) = {}

Agreed(b) == \A a \in Bank : StandsAt(b, Reconciled(b, a), Completed(b, a))

AgreedBefore(b, u) ==
    \A i \in DOMAIN u : Finishes(u, i) =>
       StandsAt(b, Reconciled(b, AcctOf(u, i)) \ From(u, i),
                Before(b, AcctOf(u, i), AtOf(b, u, i)))

History(b, u) ==
    /\ BooksOK(b) /\ StackOK(u)
    /\ Distinct(b) /\ InOrder(b, u) /\ StillCaught(b, u) /\ Agreed(b) /\ AgreedBefore(b, u)

Notes == Held(books) \cup Noted(undoStack, redoStack, copy)

Inv ==
    /\ Types /\ History(books, undoStack)
    /\ OneAccount(Notes) /\ Older(Notes, scope["creates"])

----------------------------------------------------------------------------
(* Executing a command, whole.                                             *)

LEMMA TurnedIs ==
    ASSUME NEW b, BooksOK(b), NEW d, NEW open, Turned(b, d, open)
    PROVE  BooksOK(d) /\ d.rows = b.rows /\ d.sessions = b.sessions
<1> DEFINE r == b.rows
           s == b.sessions
           o == b.open
<1>1. b = [rows |-> r, open |-> o, sessions |-> s]
  BY DEF BooksOK
<1> HIDE DEF r, s, o
<1>2. d = [rows |-> r, open |-> open, sessions |-> s]
  BY <1>1 DEF Turned
<1>3. d.rows = r /\ d.open = open /\ d.sessions = s
  BY <1>2
<1>4. RowsOK(r) /\ SessionsOK(s) /\ open \subseteq Account
  BY DEF BooksOK, Turned, r, s
<1> QED
  BY <1>2, <1>3, <1>4 DEF BooksOK, r, s

LEMMA DoesKeep ==
    ASSUME NEW b, BooksOK(b), NEW c, CmdOK(c), c.verb # "finish", NEW d,
           Does(b, d, c) \/ \E k : Undoes(b, d, c, k)
    PROVE  BooksOK(d) /\ d.sessions = b.sessions
<1>1. CASE c.verb \in RowVerb
  BY <1>1 DEF Does, Undoes, Changes, Writes, PairsKept
<1>2. CASE c.verb \in {"close", "reopen"}
  <2>1. \E open \in SUBSET Account : Turned(b, d, open)
    BY <1>2 DEF Does, Undoes
  <2> QED
    BY <2>1, TurnedIs
<1>3. c.verb \in RowVerb \/ c.verb \in {"close", "reopen"}
  BY DEF CmdOK, Verb
<1> QED
  BY <1>1, <1>2, <1>3

LEMMA RowNowIs ==
    ASSUME NEW b, BooksOK(b), NEW c
    PROVE  RowNow(b, c) \in Row \cup {NoRow}
BY DEF RowNow, BooksOK, RowsOK

LEMMA ThawedIs ==
    ASSUME NEW b, BooksOK(b), NEW id \in EnteredId, ~Frozen(b, id)
    PROVE  /\ id \in DOMAIN b.rows /\ b.rows[id] \in OwnRow
           /\ b.rows[id].status \in {"uncleared", "cleared"}
<1>1. id \in DOMAIN b.rows /\ b.rows[id].status \notin {"void", "reconciled"}
  BY DEF Frozen
<1>2. b.rows[id] \in OwnRow
  BY <1>1, EnteredIs, EnteredOwn
<1> QED
  BY <1>1, <1>2 DEF OwnRow, Row, Status

(* The command as it will be redone carries the lines as they were stored. *)
LEMMA WithTidsIs ==
    ASSUME NEW b, NEW d, BooksOK(d), NEW c, CmdOK(c), c.verb # "finish", Does(b, d, c)
    PROVE  LET o == WithTids(d, c)
           IN /\ CmdOK(o) /\ o.verb = c.verb /\ o.id = c.id /\ o.acct = c.acct /\ o.ids = c.ids
              /\ c.verb \in HasRow =>
                    /\ o.row.acct = c.row.acct /\ o.row.n = c.row.n
                    /\ Amounts(o.row.lines) = Amounts(c.row.lines)
              /\ c.verb \in {"create", "editSplits"} => o.row.lines = d.rows[c.id].lines
              /\ c.verb \notin {"create", "editSplits"} => o = c
<1>1. CASE c.verb \in {"create", "editSplits"}
  <2> DEFINE l == d.rows[c.id].lines
             row == c.row
             v == c.verb
             i == c.id
             a == c.acct
             s == c.ids
             new == [row EXCEPT !.lines = l]
  <2>1. c = [verb |-> v, id |-> i, row |-> row, acct |-> a, ids |-> s]
    BY DEF CmdOK
  <2>2. WithTids(d, c) = [c EXCEPT !.row.lines = l]
    BY <1>1 DEF WithTids
  <2>3. c.id \in EnteredId /\ row \in OwnRow /\ row.status # "reconciled"
    BY <1>1 DEF CmdOK, HasRow, RowVerb
  <2>4. Becomes(d, c.id, row)
    BY <1>1 DEF Does, Created, Replaced
  <2>5. l \in Lines /\ Amounts(l) = Amounts(row.lines)
    BY <2>3, <2>4, BecomesIs DEF Becomes
  <2> HIDE DEF l, row, v, i, a, s
  <2>6. /\ new \in OwnRow /\ new.lines = l /\ new.acct = row.acct /\ new.n = row.n
        /\ new.status = row.status
    BY <2>3, <2>5, OwnIs
  <2>7. WithTids(d, c) = [verb |-> v, id |-> i, row |-> new, acct |-> a, ids |-> s]
    BY <2>1, <2>2
  <2> HIDE DEF new
  <2> DEFINE o == WithTids(d, c)
  <2> HIDE DEF o
  <2>8. /\ o = [verb |-> v, id |-> i, row |-> new, acct |-> a, ids |-> s]
        /\ o.verb = v /\ o.id = i /\ o.row = new /\ o.acct = a /\ o.ids = s
    BY <2>7 DEF o
  <2>9. v \in Verb /\ i \in EnteredId /\ IsFiniteSet(s) /\ s = {} /\ v # "finish"
        /\ v \in HasRow /\ v \in {"create", "editSplits"}
    BY <1>1, <2>3 DEF CmdOK, v, i, s, HasRow
  <2>10. CmdOK(o)
    BY <2>3, <2>6, <2>8, <2>9 DEF CmdOK
  <2> QED
    BY <1>1, <2>5, <2>6, <2>8, <2>10 DEF o, l, row, v, i, a, s
<1>2. CASE c.verb \notin {"create", "editSplits"}
  BY <1>2 DEF WithTids
<1> QED
  BY <1>1, <1>2

LEMMA ExecutedIs ==
    ASSUME StacksOK, NEW b, BooksOK(b), NEW c, CmdOK(c), c.verb # "finish",
           NEW out \in Executed(b, c)
    PROVE  /\ BooksOK(out.books) /\ out.books.sessions = b.sessions /\ Does(b, out.books, c)
           /\ CmdOK(out.cmd) /\ BackOK(out.cmd, out.back)
           /\ out.cmd = WithTids(out.books, c)
           /\ out.back.row = RowNow(b, c) /\ out.back.statuses = <<>>
<1>1. PICK d \in Effects(b, c) :
         out = [books |-> d, cmd |-> WithTids(d, c), back |-> [Nothing EXCEPT !.row = RowNow(b, c)]]
  BY DEF Executed
<1> DEFINE k == [Nothing EXCEPT !.row = RowNow(b, c)]
           o == WithTids(d, c)
<1>2. Does(b, d, c)
  BY EffectsAre, <1>1
<1>3. BooksOK(d) /\ d.sessions = b.sessions
  BY <1>2, DoesKeep
<1>4. CmdOK(o) /\ o.verb = c.verb
  BY <1>2, <1>3, WithTidsIs
<1>5. /\ k = [row |-> k.row, statuses |-> k.statuses, session |-> k.session]
      /\ k.row = RowNow(b, c) /\ k.statuses = <<>>
  BY DEF Nothing
<1>6. out.books = d /\ out.cmd = o /\ out.back = k
  BY <1>1
<1> HIDE DEF k, o
<1>7. k.row \in Row \cup {NoRow}
  BY <1>5, RowNowIs
<1>8. c.verb \in TakesRow => k.row \in OwnRow /\ k.row.status \in {"uncleared", "cleared"}
  <2> SUFFICES ASSUME c.verb \in TakesRow
               PROVE  k.row \in OwnRow /\ k.row.status \in {"uncleared", "cleared"}
    OBVIOUS
  <2>1. ~Frozen(b, c.id) /\ c.id \in EnteredId
    BY <1>2 DEF TakesRow, Does, Edited, Replaced, Removed, Voided, CmdOK, RowVerb
  <2>2. k.row = b.rows[c.id]
    BY <1>5, <2>1, ThawedIs DEF RowNow
  <2> QED
    BY <2>1, <2>2, ThawedIs
<1>9. DOMAIN k.statuses = {}
  BY <1>5
<1>10. BackOK(o, k)
  BY <1>4, <1>5, <1>7, <1>8, <1>9 DEF BackOK
<1> QED
  BY <1>2, <1>3, <1>4, <1>5, <1>6, <1>10 DEF o

(* Finishing a session and taking that back.                               *)
LEMMA LatestIs ==
    ASSUME NEW b, BooksOK(b)
    PROVE  Latest(b) \in Nat /\ \A s \in DOMAIN b.sessions : b.sessions[s].at <= Latest(b)
<1> DEFINE f == [s \in DOMAIN b.sessions |-> b.sessions[s].at]
           T == {b.sessions[s].at : s \in DOMAIN b.sessions}
<1>1. Range(f) = T /\ IsFiniteSet(DOMAIN f)
  BY DEF Range, BooksOK, SessionsOK
<1>2. IsFiniteSet(T)
  BY <1>1, RangeFinite
<1>3. T \in SUBSET Nat /\ \A s \in DOMAIN b.sessions : b.sessions[s].at \in T
  BY DEF BooksOK, SessionsOK
<1> HIDE DEF T
<1>4. Max({0} \cup T) \in Nat /\ \A m \in T : m <= Max({0} \cup T)
  BY <1>2, <1>3, MaxIs
<1>5. Latest(b) = Max({0} \cup T)
  BY DEF Latest, T
<1> QED
  BY <1>3, <1>4, <1>5

LEMMA NextSessionIs ==
    ASSUME NEW b, BooksOK(b)
    PROVE  NextSession(b) \in Nat /\ NextSession(b) \notin DOMAIN b.sessions
<1> DEFINE T == DOMAIN b.sessions
           m == Max({0} \cup T)
<1>1. T \in SUBSET Nat /\ IsFiniteSet(T)
  BY DEF BooksOK, SessionsOK
<1> HIDE DEF T
<1>2. m \in Nat /\ \A t \in T : t <= m
  BY <1>1, MaxIs
<1> HIDE DEF m
<1>3. m + 1 \in Nat /\ m + 1 \notin T
  BY <1>1, <1>2
<1>4. NextSession(b) = 1 + m
  BY DEF NextSession, m, T
<1> QED
  BY <1>2, <1>3, <1>4 DEF T

(* The books with some statuses changed, and a session moved.              *)
Restate(b, F, st, s, at) ==
    [b EXCEPT !.rows = [id \in DOMAIN b.rows |->
                          IF id \in F THEN [b.rows[id] EXCEPT !.status = st[id]] ELSE b.rows[id]],
              !.sessions[s].at = at]

(* Only the statuses of the rows F and the place of session s differ.      *)
Restates(b, d, F, s, at) ==
    /\ BooksOK(d) /\ DOMAIN d.rows = DOMAIN b.rows
    /\ \A id \in DOMAIN b.rows :
         /\ d.rows[id].acct = b.rows[id].acct /\ d.rows[id].n = b.rows[id].n
         /\ d.rows[id].lines = b.rows[id].lines
         /\ id \notin F => d.rows[id] = b.rows[id]
    /\ DOMAIN d.sessions = DOMAIN b.sessions
    /\ d.sessions[s].acct = b.sessions[s].acct
    /\ d.sessions[s].balance = b.sessions[s].balance /\ d.sessions[s].at = at
    /\ \A t \in DOMAIN b.sessions \ {s} : d.sessions[t] = b.sessions[t]

LEMMA Restated ==
    ASSUME NEW b, BooksOK(b), NEW F, F \subseteq DOMAIN b.rows,
           NEW st, \A id \in F : st[id] \in Status,
           NEW s \in DOMAIN b.sessions, NEW at \in Nat,
           NEW d, d = Restate(b, F, st, s, at)
    PROVE  Restates(b, d, F, s, at) /\ \A id \in F : d.rows[id].status = st[id]
<1> DEFINE f == b.rows
           g == b.sessions
           o == b.open
           r == [id \in DOMAIN f |-> IF id \in F THEN [f[id] EXCEPT !.status = st[id]] ELSE f[id]]
           q == [g EXCEPT ![s].at = at]
<1>1. b = [rows |-> f, open |-> o, sessions |-> g] /\ RowsOK(f) /\ SessionsOK(g)
        /\ o \subseteq Account
  BY DEF BooksOK
<1>2. s \in DOMAIN g /\ F \subseteq DOMAIN f
  OBVIOUS
<1>3. d = [b EXCEPT !.rows = r, !.sessions[s].at = at]
  BY DEF Restate
<1>4. \A id \in DOMAIN f :
        /\ r[id] \in Row /\ r[id].acct = f[id].acct /\ r[id].n = f[id].n
        /\ r[id].lines = f[id].lines
        /\ id \in F => r[id].status = st[id]
        /\ id \notin F => r[id] = f[id]
  <2> TAKE id \in DOMAIN f
  <2> HIDE DEF f
  <2>1. f[id] \in Row
    BY <1>1 DEF RowsOK
  <2>2. CASE id \in F
    <3> DEFINE x == st[id]
    <3>1. r[id] = [f[id] EXCEPT !.status = x] /\ x \in Status
      BY <2>2
    <3> HIDE DEF x, r
    <3>2. /\ r[id] \in Row /\ r[id].acct = f[id].acct /\ r[id].n = f[id].n
          /\ r[id].lines = f[id].lines /\ r[id].status = x
      BY <2>1, <3>1 DEF Row
    <3> QED
      BY <2>2, <3>2 DEF x
  <2>3. CASE id \notin F
    BY <2>1, <2>3
  <2> QED
    BY <2>2, <2>3
<1>5. DOMAIN r = DOMAIN f
  OBVIOUS
<1> HIDE DEF f, g, o
<1>6. r = [id \in DOMAIN r |-> r[id]]
  OBVIOUS
<1> HIDE DEF r
<1>7. d = [rows |-> r, open |-> o, sessions |-> q]
  BY <1>1, <1>3
<1> HIDE DEF q
<1>8. d.rows = r /\ d.open = o /\ d.sessions = q
  <2> DEFINE e == [rows |-> r, open |-> o, sessions |-> q]
  <2>1. e.rows = r /\ e.open = o /\ e.sessions = q /\ d = e
    BY <1>7
  <2> HIDE DEF e
  <2> QED
    BY <2>1
<1>9. RowsOK(r)
  BY <1>1, <1>4, <1>5, <1>6 DEF RowsOK
<1>10. /\ DOMAIN q = DOMAIN g /\ q = [t \in DOMAIN q |-> q[t]]
       /\ q[s] \in [acct : Bank, balance : Int, at : Nat]
       /\ q[s].acct = g[s].acct /\ q[s].balance = g[s].balance /\ q[s].at = at
       /\ \A t \in DOMAIN g \ {s} : q[t] = g[t]
  <2>1. g[s] \in [acct : Bank, balance : Int, at : Nat] /\ g = [t \in DOMAIN g |-> g[t]]
    BY <1>1, <1>2 DEF SessionsOK
  <2> DEFINE x == g[s]
             y == [x EXCEPT !.at = at]
  <2>2. y \in [acct : Bank, balance : Int, at : Nat] /\ y.acct = x.acct /\ y.balance = x.balance
        /\ y.at = at
    <3> HIDE DEF x
    <3> QED
      BY <2>1 DEF x
  <2>3. q = [g EXCEPT ![s] = y]
    BY <2>1 DEF q
  <2> HIDE DEF y
  <2>4. /\ DOMAIN q = DOMAIN g /\ q = [t \in DOMAIN q |-> q[t]] /\ q[s] = y
        /\ \A t \in DOMAIN g \ {s} : q[t] = g[t]
    BY <1>2, <2>1, <2>3
  <2> QED
    BY <2>2, <2>4
<1>11. SessionsOK(q)
  BY <1>1, <1>10 DEF SessionsOK
<1>12. BooksOK(d)
  BY <1>1, <1>7, <1>8, <1>9, <1>11 DEF BooksOK
<1> QED
  BY <1>2, <1>4, <1>5, <1>8, <1>10, <1>12 DEF f, g, Restates

LEMMA BackIs ==
    ASSUME NEW f, NEW s

    PROVE  [Nothing EXCEPT !.session = s, !.statuses = f]
             = [row |-> NoRow, statuses |-> f, session |-> s]
<1>1. [Nothing EXCEPT !.session = s] = [row |-> NoRow, statuses |-> <<>>, session |-> s]
  BY DEF Nothing
<1>2. [[row |-> NoRow, statuses |-> <<>>, session |-> s] EXCEPT !.statuses = f]
        = [row |-> NoRow, statuses |-> f, session |-> s]
  OBVIOUS
<1>3. [Nothing EXCEPT !.session = s, !.statuses = f]
        = [[Nothing EXCEPT !.session = s] EXCEPT !.statuses = f]
  BY DEF Nothing
<1> QED
  BY <1>1, <1>2, <1>3

Finished(b, c, d, k, F) ==
    /\ F = {i \in c.ids : b.rows[i].status # "reconciled"}
    /\ c.ids \subseteq DOMAIN b.rows /\ k.session \in InProgress(b, c.acct)
    /\ k.row = NoRow /\ DOMAIN k.statuses = F
    /\ SumOf(b, Reconciled(b, c.acct) \cup F) = b.sessions[k.session].balance
    /\ Restates(b, d, F, k.session, 1 + Latest(b))
    /\ \A id \in F : d.rows[id].status = "reconciled"

LEMMA FinishedIs ==
    ASSUME NEW b, BooksOK(b), NEW c, CmdOK(c), c.verb = "finish", NEW out \in FinishExecuted(b, c)
    PROVE  /\ out.cmd = c /\ BackOK(c, out.back)
           /\ \E F : Finished(b, c, out.books, out.back, F)
<1> DEFINE F == {i \in c.ids : b.rows[i].status # "reconciled"}
           G == {i \in c.ids \cap DOMAIN b.rows : b.rows[i].status # "reconciled"}
           f == [id \in F |-> b.rows[id].status]
           r == [id \in DOMAIN b.rows |->
                   IF id \in F THEN [b.rows[id] EXCEPT !.status = "reconciled"] ELSE b.rows[id]]
           at == 1 + Latest(b)
<1>0. PICK s \in InProgress(b, c.acct) :
         out \in {[books |-> d, cmd |-> c,
                   back |-> [Nothing EXCEPT !.session = s, !.statuses = f]] :
                    d \in FinishSession(b, s, c.ids)}
  BY DEF FinishExecuted
<1>1. PICK d \in FinishSession(b, s, c.ids) :
         out = [books |-> d, cmd |-> c, back |-> [Nothing EXCEPT !.session = s, !.statuses = f]]
  BY <1>0
<1>2. s \in DOMAIN b.sessions /\ b.sessions[s].acct = c.acct /\ s \in Nat
  BY <1>0 DEF InProgress, BooksOK, SessionsOK
<1> DEFINE a == b.sessions[s].acct
<1>3. /\ c.ids \subseteq DOMAIN b.rows
      /\ \A id \in G : b.rows[id].status # "void"
      /\ SumOf(b, Reconciled(b, a) \cup G) = b.sessions[s].balance
      /\ d = [b EXCEPT !.rows = [id \in DOMAIN b.rows |->
                                   IF id \in G THEN [b.rows[id] EXCEPT !.status = "reconciled"]
                                   ELSE b.rows[id]],
                       !.sessions[s].at = 1 + Latest(b)]
  BY <1>1 DEF FinishSession
<1>4. F = G
  BY <1>3
<1>5. at \in Nat
  BY LatestIs
<1>6. d = [b EXCEPT !.rows = r, !.sessions[s].at = at]
  BY <1>3, <1>4
<1>7. F \subseteq DOMAIN b.rows /\ \A id \in F : b.rows[id].status \in {"uncleared", "cleared"}
  <2>1. \A id \in DOMAIN b.rows : b.rows[id].status \in Status
    BY DEF BooksOK, RowsOK, Row
  <2> QED
    BY <1>3, <1>4, <2>1 DEF Status
<1> DEFINE st == [id \in F |-> "reconciled"]
<1>8. \A id \in F : st[id] \in Status /\ st[id] = "reconciled"
  BY DEF Status
<1>9. r = [id \in DOMAIN b.rows |->
             IF id \in F THEN [b.rows[id] EXCEPT !.status = st[id]] ELSE b.rows[id]]
  BY <1>8
<1> HIDE DEF F, st, at
<1>10. d = Restate(b, F, st, s, at)
  BY <1>6, <1>9 DEF Restate
<1>11. Restates(b, d, F, s, at) /\ \A id \in F : d.rows[id].status = st[id]
  <2> F \subseteq DOMAIN b.rows /\ (\A id \in F : st[id] \in Status) /\ s \in DOMAIN b.sessions
    BY <1>2, <1>7, <1>8
  <2> QED
    BY <1>5, <1>10, Restated
<1>13. DOMAIN f = F /\ \A id \in F : f[id] \in {"uncleared", "cleared"}
  BY <1>7
<1> HIDE DEF f
<1> DEFINE k == [Nothing EXCEPT !.session = s, !.statuses = f]
<1>12. /\ k = [row |-> k.row, statuses |-> k.statuses, session |-> k.session]
       /\ k.row = NoRow /\ k.statuses = f /\ k.session = s
  <2> DEFINE e == [row |-> NoRow, statuses |-> f, session |-> s]
  <2>1. k = e
    BY BackIs
  <2>2. e = [row |-> e.row, statuses |-> e.statuses, session |-> e.session]
        /\ e.row = NoRow /\ e.statuses = f /\ e.session = s
    OBVIOUS
  <2> QED
    BY <2>1, <2>2
<1>14. out.books = d /\ out.cmd = c /\ out.back = k
  BY <1>1
<1> HIDE DEF k
<1>15. BackOK(c, k)
  BY <1>2, <1>12, <1>13 DEF BackOK, TakesRow
<1>16. SumOf(b, Reconciled(b, c.acct) \cup F) = b.sessions[s].balance
  BY <1>2, <1>3, <1>4
<1>17. Finished(b, c, d, k, F)
  BY <1>0, <1>3, <1>8, <1>11, <1>12, <1>13, <1>16 DEF Finished, F, at
<1> QED
  BY <1>14, <1>15, <1>17

Unfinished(b, d, s, f, F) ==
    /\ F = {id \in DOMAIN f : b.rows[id].status = "reconciled"}
    /\ DOMAIN f \subseteq DOMAIN b.rows /\ s \in DOMAIN b.sessions /\ b.sessions[s].at # 0
    /\ Restates(b, d, F, s, 0)
    /\ \A id \in F : d.rows[id].status \in {"uncleared", "cleared"}

LEMMA UnfinishedIs ==
    ASSUME NEW b, BooksOK(b), NEW s \in Nat, NEW f,
           \A id \in DOMAIN f : f[id] \in {"uncleared", "cleared"},
           NEW d \in UndoFinish(b, s, f)
    PROVE  \E F : Unfinished(b, d, s, f, F)
<1> DEFINE F == {id \in DOMAIN f : b.rows[id].status = "reconciled"}
           G == {id \in DOMAIN f \cap DOMAIN b.rows : b.rows[id].status = "reconciled"}
<1>1. /\ DOMAIN f \subseteq DOMAIN b.rows /\ s \in DOMAIN b.sessions /\ b.sessions[s].at # 0
      /\ d = [b EXCEPT !.rows = [id \in DOMAIN b.rows |->
                                   IF id \in G THEN [b.rows[id] EXCEPT !.status = f[id]]
                                   ELSE b.rows[id]],
                       !.sessions[s].at = 0]
  BY DEF UndoFinish
<1>2. F = G
  BY <1>1
<1>3. F \subseteq DOMAIN b.rows
  BY <1>1
<1>4. \A id \in F : f[id] \in {"uncleared", "cleared"} /\ f[id] \in Status
  BY DEF Status
<1> HIDE DEF F
<1>5. d = Restate(b, F, f, s, 0)
  BY <1>1, <1>2 DEF Restate
<1>6. Restates(b, d, F, s, 0) /\ \A id \in F : d.rows[id].status = f[id]
  <2> (\A id \in F : f[id] \in Status) /\ s \in DOMAIN b.sessions /\ 0 \in Nat
    BY <1>1, <1>4
  <2> QED
    BY <1>3, <1>5, Restated
<1>7. Unfinished(b, d, s, f, F)
  BY <1>1, <1>4, <1>6 DEF F, Unfinished
<1> QED
  BY <1>7
----------------------------------------------------------------------------
(* How History goes on.  First the changes that leave it alone: they spare *)
(* the reconciled rows and the sessions that are completed.                *)

Spares(b, d) ==
    /\ Done(d) = Done(b) /\ \A s \in Done(b) : d.sessions[s] = b.sessions[s]
    /\ \A a \in Bank : Reconciled(d, a) = Reconciled(b, a)
    /\ \A a \in Bank : \A id \in Reconciled(b, a) : d.rows[id].n = b.rows[id].n

LEMMA StandsSame ==
    ASSUME NEW b, NEW d, NEW R, NEW S, StandsAt(b, R, S),
           \A id \in R : d.rows[id].n = b.rows[id].n,
           \A s \in S : d.sessions[s].at = b.sessions[s].at
                          /\ d.sessions[s].balance = b.sessions[s].balance
    PROVE  StandsAt(d, R, S)
<1>1. SumOf(d, R) = SumOf(b, R)
  BY SumOfSame
<1> QED
  BY <1>1 DEF StandsAt

LEMMA CompletedIs ==
    ASSUME NEW b, NEW a
    PROVE  Completed(b, a) = {s \in Done(b) : b.sessions[s].acct = a}
BY DEF Completed, Done

LEMMA FinisherIs ==
    ASSUME NEW u, StackOK(u), NEW i \in DOMAIN u
    PROVE  /\ Finishes(u, i) => AcctOf(u, i) \in Bank
           /\ ~Finishes(u, i) => Caught(u, i) = {}
BY DEF StackOK, EntryOK, CmdOK, BackOK, Finishes, AcctOf, Caught

LEMMA HistorySpared ==
    ASSUME NEW b, NEW d, NEW u, History(b, u), BooksOK(d), Spares(b, d)
    PROVE  History(d, u)
<1>1. \A a \in Bank : Completed(d, a) = Completed(b, a)
  BY CompletedIs DEF Spares
<1>2. \A a \in Bank : \A cut : Before(d, a, cut) = Before(b, a, cut)
  BY <1>1, CompletedIs DEF Before, Spares
<1>3. Distinct(d)
  BY DEF History, Distinct, Spares
<1>4. \A i \in DOMAIN u : Finishes(u, i) => SessionOf(u, i) \in Done(b)
        /\ AtOf(d, u, i) = AtOf(b, u, i)
  BY DEF History, InOrder, AtOf, Spares
<1>5. InOrder(d, u)
  BY <1>4 DEF History, InOrder, Spares
<1>6. StillCaught(d, u)
  BY FinisherIs DEF History, StillCaught, Spares
<1>7. Agreed(d)
  <2> SUFFICES ASSUME NEW a \in Bank PROVE StandsAt(d, Reconciled(d, a), Completed(d, a))
    BY DEF Agreed
  <2> DEFINE R == Reconciled(b, a)
             S == Completed(b, a)
  <2>1. StandsAt(b, R, S)
    BY DEF History, Agreed
  <2>2. \A id \in R : d.rows[id].n = b.rows[id].n
    BY DEF Spares
  <2>3. \A s \in S : d.sessions[s] = b.sessions[s]
    BY CompletedIs DEF Spares
  <2>4. Reconciled(d, a) = R /\ Completed(d, a) = S
    BY <1>1 DEF Spares
  <2> HIDE DEF R, S
  <2> QED
    BY <2>1, <2>2, <2>3, <2>4, StandsSame
<1>8. AgreedBefore(d, u)
  <2> SUFFICES ASSUME NEW i \in DOMAIN u, Finishes(u, i)
               PROVE  StandsAt(d, Reconciled(d, AcctOf(u, i)) \ From(u, i),
                               Before(d, AcctOf(u, i), AtOf(d, u, i)))
    BY DEF AgreedBefore
  <2> DEFINE a == AcctOf(u, i)
             R == Reconciled(b, a) \ From(u, i)
             S == Before(b, a, AtOf(b, u, i))
  <2>0. a \in Bank
    BY FinisherIs DEF History
  <2>1. StandsAt(b, R, S)
    BY DEF History, AgreedBefore
  <2>2. \A id \in R : d.rows[id].n = b.rows[id].n
    BY <2>0 DEF Spares
  <2>3. \A s \in S : d.sessions[s] = b.sessions[s]
    BY CompletedIs DEF Spares, Before
  <2>4. Reconciled(d, a) \ From(u, i) = R /\ Before(d, a, AtOf(d, u, i)) = S
    BY <1>2, <1>4, <2>0 DEF Spares
  <2> HIDE DEF R, S
  <2> QED
    BY <2>1, <2>2, <2>3, <2>4, StandsSame
<1> QED
  BY <1>3, <1>5, <1>6, <1>7, <1>8 DEF History

LEMMA ChangesSpares ==
    ASSUME NEW b, BooksOK(b), NEW d, NEW id \in EnteredId, Changes(b, d, id)
    PROVE  Spares(b, d)
<1>1. d.sessions = b.sessions /\ BooksOK(d)
  BY DEF Changes, Writes, PairsKept
<1>2. \A x \in DOMAIN b.rows : b.rows[x].status = "reconciled" =>
         x \in DOMAIN d.rows /\ d.rows[x] = b.rows[x]
  <2> TAKE x \in DOMAIN b.rows
  <2>1. CASE IsEntered(x)
    BY <2>1, EnteredOwn DEF Changes, Writes, OwnSame
  <2>2. CASE ~IsEntered(x)
    BY <2>2 DEF Changes, Writes, PairsKept
  <2> QED
    BY <2>1, <2>2
<1>3. \A x \in DOMAIN d.rows : d.rows[x].status = "reconciled" =>
         x \in DOMAIN b.rows /\ b.rows[x].status = "reconciled" /\ b.rows[x].acct = d.rows[x].acct
  <2> TAKE x \in DOMAIN d.rows
  <2>1. CASE IsEntered(x)
    BY <1>1, <2>1, EnteredOwn DEF Changes, Writes, OwnSame
  <2>2. CASE ~IsEntered(x)
    BY <2>2 DEF Changes, Writes, PairsKept
  <2> QED
    BY <2>1, <2>2
<1>4. Done(d) = Done(b)
  BY <1>1 DEF Done
<1>5. \A a : Reconciled(d, a) = Reconciled(b, a)
  BY <1>2, <1>3 DEF Reconciled, RowsOf
<1>6. \A a : \A x \in Reconciled(b, a) : d.rows[x].n = b.rows[x].n
  BY <1>2 DEF Reconciled, RowsOf
<1> QED
  BY <1>1, <1>4, <1>5, <1>6 DEF Spares

LEMMA TurnedSpares ==
    ASSUME NEW b, BooksOK(b), NEW d, NEW open, Turned(b, d, open)
    PROVE  Spares(b, d)
BY TurnedIs DEF Spares, Done, Reconciled, RowsOf

LEMMA DoesSpare ==
    ASSUME NEW b, BooksOK(b), NEW d, NEW c, CmdOK(c), c.verb # "finish",
           Does(b, d, c) \/ \E k : Undoes(b, d, c, k)
    PROVE  Spares(b, d)
<1>1. CASE c.verb \in RowVerb
  BY <1>1, ChangesSpares DEF Does, Undoes, CmdOK
<1>2. CASE c.verb \in {"close", "reopen"}
  <2>1. \E open : Turned(b, d, open)
    BY <1>2 DEF Does, Undoes
  <2> QED
    BY <2>1, TurnedSpares
<1>3. c.verb \in RowVerb \/ c.verb \in {"close", "reopen"}
  BY DEF CmdOK, Verb
<1> QED
  BY <1>1, <1>2, <1>3

(* A command that finishes no session comes or goes.                       *)
LEMMA HistoryPushed ==
    ASSUME NEW b, NEW u, History(b, u), NEW e, EntryOK(e), e.cmd.verb # "finish"
    PROVE  History(b, Append(u, e))
<1> DEFINE v == Append(u, e)
           n == Len(u) + 1
<1>0. IsSeq(u) /\ StackOK(u)
  BY DEF History, StackOK
<1>1. /\ IsSeq(v) /\ DOMAIN v = DOMAIN u \cup {n} /\ v[n] = e /\ n \in Nat
      /\ \A i \in DOMAIN u : v[i] = u[i] /\ i < n /\ i \in Nat
  BY <1>0, Pushed
<1> HIDE DEF v, n
<1>2. StackOK(v)
  BY <1>0, <1>1 DEF StackOK
<1>3. \A i \in DOMAIN v : Finishes(v, i) => i \in DOMAIN u /\ Finishes(u, i)
  BY <1>1 DEF Finishes
<1>4. /\ Caught(v, n) = {}
      /\ \A i \in DOMAIN u : /\ Caught(v, i) = Caught(u, i) /\ Finishes(v, i) = Finishes(u, i)
                             /\ AcctOf(v, i) = AcctOf(u, i) /\ SessionOf(v, i) = SessionOf(u, i)
                             /\ AtOf(b, v, i) = AtOf(b, u, i)
  BY <1>1 DEF Caught, Finishes, AcctOf, SessionOf, AtOf, EntryOK, BackOK
<1>5. \A i \in DOMAIN u : From(v, i) = From(u, i)
  BY <1>1, <1>4 DEF From
<1>6. InOrder(b, v)
  BY <1>1, <1>3, <1>4 DEF History, InOrder
<1>7. StillCaught(b, v)
  BY <1>1, <1>3, <1>4 DEF History, StillCaught
<1>8. AgreedBefore(b, v)
  BY <1>3, <1>4, <1>5 DEF History, AgreedBefore
<1> QED
  BY <1>2, <1>6, <1>7, <1>8 DEF History, v

LEMMA HistoryPopped ==
    ASSUME NEW b, NEW u, History(b, u), u # <<>>, Last(u).cmd.verb # "finish"
    PROVE  History(b, Front(u))
<1> DEFINE v == Front(u)
           n == Len(u)
<1>0. IsSeq(u) /\ StackOK(u)
  BY DEF History, StackOK
<1>1. /\ IsSeq(v) /\ DOMAIN v = DOMAIN u \ {n} /\ n \in DOMAIN u /\ u[n] = Last(u)
      /\ \A i \in DOMAIN v : v[i] = u[i] /\ i < n
  BY <1>0, Popped
<1> HIDE DEF v, n
<1>2. StackOK(v)
  BY <1>0, <1>1 DEF StackOK
<1>3. Caught(u, n) = {} /\ ~Finishes(u, n)
  BY <1>0, <1>1, FinisherIs DEF Finishes
<1>4. \A i \in DOMAIN v : /\ Caught(v, i) = Caught(u, i) /\ Finishes(v, i) = Finishes(u, i)
                          /\ AcctOf(v, i) = AcctOf(u, i) /\ SessionOf(v, i) = SessionOf(u, i)
                          /\ AtOf(b, v, i) = AtOf(b, u, i) /\ i \in DOMAIN u
  BY <1>1 DEF Caught, Finishes, AcctOf, SessionOf, AtOf
<1>5. \A i \in DOMAIN v : From(v, i) = From(u, i)
  BY <1>1, <1>3, <1>4 DEF From
<1>6. InOrder(b, v)
  BY <1>1, <1>3, <1>4 DEF History, InOrder
<1>7. StillCaught(b, v)
  BY <1>1, <1>4 DEF History, StillCaught
<1>8. AgreedBefore(b, v)
  BY <1>4, <1>5 DEF History, AgreedBefore
<1> QED
  BY <1>2, <1>6, <1>7, <1>8 DEF History, v

LEMMA HistoryForgotten ==
    ASSUME NEW b, NEW u, History(b, u)
    PROVE  History(b, <<>>)
BY Emptied DEF History, StackOK, InOrder, StillCaught, AgreedBefore

----------------------------------------------------------------------------
(* A session finished, and taken back.                                     *)

LEMMA HistoryFinished ==
    ASSUME NEW b, NEW u, History(b, u), NEW c, CmdOK(c), c.verb = "finish",
           NEW d, NEW k, NEW F, Finished(b, c, d, k, F), BackOK(c, k),
           \A id \in c.ids : b.rows[id].acct = c.acct,
           NEW e, EntryOK(e), e.cmd = c, e.back = k
    PROVE  History(d, Append(u, e))
<1> DEFINE v == Append(u, e)
           n == Len(u) + 1
           s == k.session
           at == 1 + Latest(b)
           a0 == c.acct
<1>0. IsSeq(u) /\ StackOK(u) /\ BooksOK(b) /\ BooksOK(d)
  BY DEF History, StackOK, Finished, Restates
<1>1. /\ IsSeq(v) /\ DOMAIN v = DOMAIN u \cup {n} /\ v[n] = e /\ n \in Nat
      /\ \A i \in DOMAIN u : v[i] = u[i] /\ i < n /\ i \in Nat
  BY <1>0, Pushed
<1>2. /\ F = {i \in c.ids : b.rows[i].status # "reconciled"}
      /\ c.ids \subseteq DOMAIN b.rows /\ s \in DOMAIN b.sessions
      /\ b.sessions[s].acct = a0 /\ b.sessions[s].at = 0
      /\ DOMAIN k.statuses = F
      /\ SumOf(b, Reconciled(b, a0) \cup F) = b.sessions[s].balance
      /\ Restates(b, d, F, s, at)
      /\ \A id \in F : d.rows[id].status = "reconciled"
  BY DEF Finished, InProgress
<1>3. at \in Nat /\ at > 0 /\ \A t \in DOMAIN b.sessions : b.sessions[t].at < at
        /\ b.sessions[t].at \in Nat
  BY <1>0, LatestIs DEF BooksOK, SessionsOK
<1>4. a0 \in Bank
  BY DEF CmdOK
<1> HIDE DEF v, n, s, at, a0
<1>5. /\ DOMAIN d.sessions = DOMAIN b.sessions
      /\ d.sessions[s].acct = a0 /\ d.sessions[s].at = at
      /\ d.sessions[s].balance = b.sessions[s].balance
      /\ \A t \in DOMAIN b.sessions \ {s} : d.sessions[t] = b.sessions[t]
      /\ DOMAIN d.rows = DOMAIN b.rows
      /\ \A id \in DOMAIN b.rows : d.rows[id].acct = b.rows[id].acct /\ d.rows[id].n = b.rows[id].n
      /\ \A id \in DOMAIN b.rows \ F : d.rows[id] = b.rows[id]
  BY <1>2 DEF Restates
<1>6. StackOK(v)
  BY <1>0, <1>1 DEF StackOK
(* The sessions and the rows of d.                                         *)
<1>7. Done(d) = Done(b) \cup {s} /\ s \notin Done(b)
  BY <1>2, <1>3, <1>5 DEF Done
<1>8. \A t \in Done(b) : d.sessions[t] = b.sessions[t] /\ b.sessions[t].at < at
        /\ b.sessions[t].at \in Nat
  BY <1>2, <1>3, <1>5, <1>7 DEF Done
<1>9. Distinct(d)
  <2>1. Distinct(b)
    BY DEF History
  <2> QED
    BY <1>5, <1>7, <1>8, <1>3, <2>1 DEF Distinct
<1>10. Reconciled(d, a0) = Reconciled(b, a0) \cup F
  <2>1. \A id \in F : id \in DOMAIN b.rows /\ b.rows[id].acct = a0
    BY <1>2 DEF a0
  <2>2. \A id \in DOMAIN b.rows : d.rows[id].acct = b.rows[id].acct
          /\ (d.rows[id].status = "reconciled" <=> id \in F \/ b.rows[id].status = "reconciled")
    BY <1>2, <1>5
  <2> QED
    BY <1>5, <2>1, <2>2 DEF Reconciled, RowsOf
<1>11. \A a \in Bank : /\ a # a0 => Reconciled(d, a) = Reconciled(b, a)
                       /\ F \cap Reconciled(b, a) = {}
  <2>1. \A id \in F : id \in DOMAIN b.rows /\ b.rows[id].acct = a0
          /\ b.rows[id].status # "reconciled"
    BY <1>2 DEF a0
  <2>2. \A id \in DOMAIN b.rows : d.rows[id].acct = b.rows[id].acct
          /\ (d.rows[id].status = "reconciled" <=> id \in F \/ b.rows[id].status = "reconciled")
    BY <1>2, <1>5
  <2> QED
    BY <1>5, <2>1, <2>2 DEF Reconciled, RowsOf
<1>12. /\ Completed(d, a0) = Completed(b, a0) \cup {s}
       /\ \A a \in Bank : a # a0 => Completed(d, a) = Completed(b, a)
  <2>1. \A a : /\ Completed(d, a) = {t \in Done(d) : d.sessions[t].acct = a}
               /\ Completed(b, a) = {t \in Done(b) : b.sessions[t].acct = a}
    BY CompletedIs
  <2>2. Completed(d, a0) = Completed(b, a0) \cup {s}
    BY <1>5, <1>7, <1>8, <2>1
  <2>3. ASSUME NEW a \in Bank, a # a0
        PROVE  Completed(d, a) = Completed(b, a)
    <3>1. \A t \in Done(d) : d.sessions[t].acct = a => t \in Done(b) /\ b.sessions[t].acct = a
      BY <1>5, <1>7, <1>8, <2>3
    <3>2. \A t \in Done(b) : b.sessions[t].acct = a => t \in Done(d) /\ d.sessions[t].acct = a
      BY <1>7, <1>8
    <3> QED
      BY <2>1, <3>1, <3>2
  <2> QED
    BY <2>2, <2>3
<1>13. \A a \in Bank : s \notin Completed(b, a) /\ \A t \in Completed(b, a) :
          t \in Done(b) /\ d.sessions[t] = b.sessions[t] /\ b.sessions[t].at < at
  BY <1>7, <1>8, CompletedIs
<1>14. \A a : \A id \in Reconciled(b, a) \cup F : d.rows[id].n = b.rows[id].n
  BY <1>2, <1>5 DEF Reconciled, RowsOf
(* The stack.                                                              *)
<1>15. /\ Caught(v, n) = F /\ Finishes(v, n) /\ AcctOf(v, n) = a0 /\ SessionOf(v, n) = s
       /\ AtOf(d, v, n) = at
       /\ \A i \in DOMAIN u : /\ Caught(v, i) = Caught(u, i) /\ Finishes(v, i) = Finishes(u, i)
                              /\ AcctOf(v, i) = AcctOf(u, i) /\ SessionOf(v, i) = SessionOf(u, i)
  BY <1>1, <1>2, <1>5 DEF Caught, Finishes, AcctOf, SessionOf, AtOf, a0, s
<1>16. \A i \in DOMAIN u : Finishes(u, i) =>
          SessionOf(u, i) \in Done(b) /\ AtOf(d, v, i) = AtOf(b, u, i)
  BY <1>8, <1>15 DEF History, InOrder, AtOf
<1>17. InOrder(d, v)
  <2> SUFFICES ASSUME NEW i \in DOMAIN v, Finishes(v, i)
               PROVE  /\ SessionOf(v, i) \in Done(d)
                      /\ d.sessions[SessionOf(v, i)].acct = AcctOf(v, i)
                      /\ \A j \in DOMAIN v : j > i
                        /\ Finishes(v, j) => AtOf(d, v, i) < AtOf(d, v, j)
                      /\ \A t \in Done(d) : d.sessions[t].at > AtOf(d, v, i) =>
                            \E j \in DOMAIN v : j > i /\ Finishes(v, j) /\ SessionOf(v, j) = t
    BY DEF InOrder
  <2>1. CASE i = n
    <3>1. SessionOf(v, i) \in Done(d) /\ d.sessions[SessionOf(v, i)].acct = AcctOf(v, i)
      BY <1>5, <1>7, <1>15, <2>1
    <3>2. \A j \in DOMAIN v : ~(j > i)
      BY <1>1, <2>1
    <3>3. \A t \in Done(d) : ~(d.sessions[t].at > AtOf(d, v, i))
      BY <1>3, <1>5, <1>7, <1>8, <1>15, <2>1
    <3> QED
      BY <3>1, <3>2, <3>3
  <2>2. CASE i \in DOMAIN u
    <3>1. /\ Finishes(u, i) /\ SessionOf(u, i) \in Done(b)
          /\ b.sessions[SessionOf(u, i)].acct = AcctOf(u, i)
          /\ \A j \in DOMAIN u : j > i /\ Finishes(u, j) => AtOf(b, u, i) < AtOf(b, u, j)
          /\ \A t \in Done(b) : b.sessions[t].at > AtOf(b, u, i) =>
                \E j \in DOMAIN u : j > i /\ Finishes(u, j) /\ SessionOf(u, j) = t
      BY <1>15, <2>2 DEF History, InOrder
    <3>2. AtOf(d, v, i) = AtOf(b, u, i) /\ AtOf(b, u, i) < at
      BY <1>8, <1>16, <2>2, <3>1 DEF AtOf
    <3>3. SessionOf(v, i) \in Done(d) /\ d.sessions[SessionOf(v, i)].acct = AcctOf(v, i)
      BY <1>7, <1>8, <1>15, <2>2, <3>1
    <3>4. \A j \in DOMAIN v : j > i /\ Finishes(v, j) => AtOf(d, v, i) < AtOf(d, v, j)
      BY <1>1, <1>15, <1>16, <3>1, <3>2
    <3>5. \A t \in Done(d) : d.sessions[t].at > AtOf(d, v, i) =>
             \E j \in DOMAIN v : j > i /\ Finishes(v, j) /\ SessionOf(v, j) = t
      <4> SUFFICES ASSUME NEW t \in Done(d), d.sessions[t].at > AtOf(d, v, i)
                   PROVE  \E j \in DOMAIN v : j > i /\ Finishes(v, j) /\ SessionOf(v, j) = t
        OBVIOUS
      <4>1. CASE t = s
        <5>1. n \in DOMAIN v /\ n > i /\ Finishes(v, n) /\ SessionOf(v, n) = t
          BY <1>1, <1>15, <2>2, <4>1
        <5> QED
          BY <5>1
      <4>2. CASE t # s
        <5>1. t \in Done(b) /\ b.sessions[t].at > AtOf(b, u, i)
          BY <1>7, <1>8, <3>2, <4>2
        <5> QED
          BY <1>1, <1>15, <3>1, <5>1
      <4> QED
        BY <4>1, <4>2
    <3> QED
      BY <3>3, <3>4, <3>5
  <2> QED
    BY <1>1, <2>1, <2>2
<1>18. \A i \in DOMAIN u : F \cap Caught(u, i) = {}
  BY <1>0, <1>11, FinisherIs DEF History, StillCaught
<1>19. StillCaught(d, v)
  <2>1. \A i \in DOMAIN v : Finishes(v, i) => Caught(v, i) \subseteq Reconciled(d, AcctOf(v, i))
    <3> TAKE i \in DOMAIN v
    <3>1. CASE i = n
      BY <1>10, <1>15, <3>1
    <3>2. CASE i \in DOMAIN u
      <4> HAVE Finishes(v, i)
      <4>1. Finishes(u, i) /\ Caught(u, i) \subseteq Reconciled(b, AcctOf(u, i))
              /\ AcctOf(u, i) \in Bank
        BY <1>0, <1>15, <3>2, FinisherIs DEF History, StillCaught
      <4>2. Reconciled(b, AcctOf(u, i)) \subseteq Reconciled(d, AcctOf(u, i))
        BY <1>10, <1>11, <4>1
      <4> QED
        BY <1>15, <3>2, <4>1, <4>2
    <3> QED
      BY <1>1, <3>1, <3>2
  <2>2. \A i, j \in DOMAIN v : i # j => Caught(v, i) \cap Caught(v, j) = {}
    BY <1>1, <1>15, <1>18 DEF History, StillCaught
  <2> QED
    BY <2>1, <2>2 DEF StillCaught
(* What the rows add up to.                                                *)
<1>20. Agreed(d)
  <2> SUFFICES ASSUME NEW a \in Bank PROVE StandsAt(d, Reconciled(d, a), Completed(d, a))
    BY DEF Agreed
  <2>1. CASE a = a0
    <3> DEFINE R == Reconciled(b, a0) \cup F
               S == Completed(b, a0) \cup {s}
    <3>1. Reconciled(d, a) = R /\ Completed(d, a) = S
      BY <1>10, <1>12, <2>1
    <3>2. SumOf(b, R) = d.sessions[s].balance
      BY <1>2, <1>5
    <3>3. \A id \in R : d.rows[id].n = b.rows[id].n
      BY <1>14
    <3>4. s \in S /\ \A t \in S : t # s => d.sessions[t].at < d.sessions[s].at
      BY <1>4, <1>5, <1>13
    <3> HIDE DEF R, S
    <3>5. SumOf(d, R) = SumOf(b, R)
      BY <3>3, SumOfSame
    <3> QED
      BY <3>1, <3>2, <3>4, <3>5 DEF StandsAt
  <2>2. CASE a # a0
    <3> DEFINE R == Reconciled(b, a)
               S == Completed(b, a)
    <3>1. Reconciled(d, a) = R /\ Completed(d, a) = S
      BY <1>11, <1>12, <2>2
    <3>2. StandsAt(b, R, S)
      BY DEF History, Agreed
    <3>3. \A id \in R : d.rows[id].n = b.rows[id].n
      BY <1>14
    <3>4. \A t \in S : d.sessions[t] = b.sessions[t]
      BY <1>13
    <3> HIDE DEF R, S
    <3> QED
      BY <3>1, <3>2, <3>3, <3>4, StandsSame
  <2> QED
    BY <2>1, <2>2
<1>21. From(v, n) = F /\ \A i \in DOMAIN u : From(v, i) = From(u, i) \cup F
  <2>1. {j \in DOMAIN v : j >= n} = {n}
    BY <1>1
  <2>2. From(v, n) = F
    BY <1>15, <2>1 DEF From
  <2>3. ASSUME NEW i \in DOMAIN u
        PROVE  From(v, i) = From(u, i) \cup F
    <3>1. {j \in DOMAIN v : j >= i} = {j \in DOMAIN u : j >= i} \cup {n}
      BY <1>1
    <3> QED
      BY <1>15, <3>1 DEF From
  <2> QED
    BY <2>2, <2>3
<1>22. AgreedBefore(d, v)
  <2> SUFFICES ASSUME NEW i \in DOMAIN v, Finishes(v, i)
               PROVE  StandsAt(d, Reconciled(d, AcctOf(v, i)) \ From(v, i),
                               Before(d, AcctOf(v, i), AtOf(d, v, i)))
    BY DEF AgreedBefore
  <2>1. CASE i = n
    <3> DEFINE R == Reconciled(b, a0)
               S == Completed(b, a0)
    <3>1. Reconciled(d, a0) \ From(v, n) = R
      BY <1>4, <1>10, <1>11, <1>21
    <3>2. Before(d, a0, at) = S
      BY <1>3, <1>4, <1>5, <1>12, <1>13 DEF Before
    <3>3. StandsAt(b, R, S)
      BY <1>4 DEF History, Agreed
    <3>4. \A id \in R : d.rows[id].n = b.rows[id].n
      BY <1>14
    <3>5. \A t \in S : d.sessions[t] = b.sessions[t]
      BY <1>4, <1>13
    <3> HIDE DEF R, S
    <3> QED
      BY <1>15, <2>1, <3>1, <3>2, <3>3, <3>4, <3>5, StandsSame
  <2>2. CASE i \in DOMAIN u
    <3> DEFINE a == AcctOf(u, i)
               cut == AtOf(b, u, i)
               R == Reconciled(b, a) \ From(u, i)
               S == Before(b, a, cut)
    <3>1. Finishes(u, i) /\ a \in Bank /\ AcctOf(v, i) = a /\ AtOf(d, v, i) = cut
      BY <1>0, <1>15, <1>16, <2>2, FinisherIs
    <3>2. cut < at /\ cut \in Nat
      BY <1>8, <1>16, <2>2, <3>1 DEF AtOf
    <3> HIDE DEF a, cut
    <3>3. Reconciled(d, a) \ From(v, i) = R
      BY <1>10, <1>11, <1>21, <2>2, <3>1
    <3>4. Before(d, a, cut) = S
      BY <1>3, <1>5, <1>12, <1>13, <3>1, <3>2 DEF Before
    <3>5. StandsAt(b, R, S)
      BY <2>2, <3>1 DEF History, AgreedBefore, a, cut
    <3>6. \A id \in R : d.rows[id].n = b.rows[id].n
      BY <1>14
    <3>7. \A t \in S : d.sessions[t] = b.sessions[t]
      BY <1>13, <3>1 DEF Before
    <3> HIDE DEF R, S
    <3> QED
      BY <3>1, <3>3, <3>4, <3>5, <3>6, <3>7, StandsSame
  <2> QED
    BY <1>1, <2>1, <2>2
<1> QED
  BY <1>0, <1>6, <1>9, <1>17, <1>19, <1>20, <1>22 DEF History, v

LEMMA HistoryUnfinished ==
    ASSUME NEW b, NEW u, History(b, u), u # <<>>, Last(u).cmd.verb = "finish",
           NEW d, NEW F, NEW k, k = Last(u).back, Unfinished(b, d, k.session, k.statuses, F)
    PROVE  History(d, Front(u))
<1> DEFINE v == Front(u)
           n == Len(u)
           s == k.session
           a0 == AcctOf(u, n)
           at == AtOf(b, u, n)
<1>0. IsSeq(u) /\ StackOK(u) /\ BooksOK(b) /\ BooksOK(d)
  BY DEF History, StackOK, Unfinished, Restates
<1>1. /\ IsSeq(v) /\ DOMAIN v = DOMAIN u \ {n} /\ n \in DOMAIN u /\ u[n] = Last(u) /\ n \in Nat
      /\ \A i \in DOMAIN v : v[i] = u[i] /\ i < n /\ i \in Nat
      /\ DOMAIN u = 1..n
  BY <1>0, Popped
<1>2. Finishes(u, n) /\ SessionOf(u, n) = s /\ Caught(u, n) = DOMAIN k.statuses /\ a0 \in Bank
  BY <1>0, <1>1, FinisherIs DEF Finishes, SessionOf, Caught
<1>3. /\ s \in Done(b) /\ b.sessions[s].acct = a0 /\ b.sessions[s].at = at
      /\ \A t \in Done(b) : ~(b.sessions[t].at > at)
  <2>1. /\ SessionOf(u, n) \in Done(b) /\ b.sessions[SessionOf(u, n)].acct = AcctOf(u, n)
        /\ \A t \in Done(b) : b.sessions[t].at > AtOf(b, u, n) => \E j \in DOMAIN u : j > n
    BY <1>1, <1>2 DEF History, InOrder
  <2>2. \A j \in DOMAIN u : ~(j > n)
    BY <1>1
  <2> QED
    BY <1>2, <2>1, <2>2 DEF AtOf
<1> HIDE DEF v, n, s, at, a0
<1>4. /\ F \subseteq DOMAIN b.rows
      /\ DOMAIN d.sessions = DOMAIN b.sessions /\ d.sessions[s].at = 0
      /\ \A t \in DOMAIN b.sessions \ {s} : d.sessions[t] = b.sessions[t]
      /\ DOMAIN d.rows = DOMAIN b.rows
      /\ \A id \in DOMAIN b.rows : d.rows[id].acct = b.rows[id].acct /\ d.rows[id].n = b.rows[id].n
      /\ \A id \in DOMAIN b.rows \ F : d.rows[id] = b.rows[id]
      /\ \A id \in F : d.rows[id].status # "reconciled"
  BY DEF Unfinished, Restates, s
<1>5. F = Caught(u, n) /\ F \subseteq Reconciled(b, a0)
  <2>1. Caught(u, n) \subseteq Reconciled(b, a0)
    BY <1>1, <1>2 DEF History, StillCaught, a0
  <2>2. F = {id \in Caught(u, n) : b.rows[id].status = "reconciled"}
    BY <1>2 DEF Unfinished
  <2> QED
    BY <2>1, <2>2 DEF Reconciled
<1>6. \A t \in Done(b) : b.sessions[t].at \in Nat
  BY <1>0 DEF Done, BooksOK, SessionsOK
<1>7. at \in Nat
  BY <1>3, <1>6
<1>8. Done(d) = Done(b) \ {s} /\ \A t \in Done(d) : d.sessions[t] = b.sessions[t]
  BY <1>3, <1>4 DEF Done
<1>9. \A t \in Done(d) : b.sessions[t].at < at
  <2> TAKE t \in Done(d)
  <2>1. t \in Done(b) /\ t # s /\ b.sessions[t].at \in Nat
    BY <1>6, <1>8
  <2>2. b.sessions[t].at # at
    BY <1>3, <2>1 DEF History, Distinct
  <2> QED
    BY <1>3, <1>7, <2>1, <2>2
<1>10. Distinct(d)
  BY <1>8 DEF History, Distinct
<1>11. \A a \in Bank : Reconciled(d, a) = Reconciled(b, a) \ F
  BY <1>4 DEF Reconciled, RowsOf
<1>12. \A a \in Bank : a # a0 => F \cap Reconciled(b, a) = {}
  BY <1>5 DEF Reconciled, RowsOf
<1>13. \A a \in Bank : \A id \in Reconciled(b, a) : d.rows[id].n = b.rows[id].n
  BY <1>4 DEF Reconciled, RowsOf
<1>14. \A a \in Bank : \A t \in Completed(d, a) :
          t \in Done(d) /\ d.sessions[t] = b.sessions[t] /\ t \in Completed(b, a)
  BY <1>8, CompletedIs
<1>15. Completed(d, a0) = Before(b, a0, at)
  <2>1. \A t \in Completed(b, a0) : t \in Done(d) <=> b.sessions[t].at < at
    BY <1>3, <1>7, <1>8, <1>9, CompletedIs
  <2>2. \A t \in Completed(b, a0) : t \in Done(d) <=> t \in Completed(d, a0)
    BY <1>8, CompletedIs
  <2> QED
    BY <1>2, <1>14, <2>1, <2>2 DEF Before, a0
<1>16. \A a \in Bank : a # a0 => Completed(d, a) = Completed(b, a)
  BY <1>3, <1>8, CompletedIs
(* The stack.                                                              *)
<1>17. StackOK(v)
  BY <1>0, <1>1 DEF StackOK
<1>18. \A i \in DOMAIN v : /\ Caught(v, i) = Caught(u, i) /\ Finishes(v, i) = Finishes(u, i)
                           /\ AcctOf(v, i) = AcctOf(u, i) /\ SessionOf(v, i) = SessionOf(u, i)
                           /\ i \in DOMAIN u /\ i # n /\ i < n
  BY <1>1 DEF Caught, Finishes, AcctOf, SessionOf
<1>19. \A i \in DOMAIN v : Finishes(v, i) =>
          /\ SessionOf(u, i) \in Done(d) /\ AtOf(d, v, i) = AtOf(b, u, i)
          /\ AtOf(b, u, i) < at /\ AtOf(b, u, i) \in Nat
  <2> TAKE i \in DOMAIN v
  <2> HAVE Finishes(v, i)
  <2>1. SessionOf(u, i) \in Done(b) /\ AtOf(b, u, i) < AtOf(b, u, n)
    BY <1>1, <1>2, <1>18 DEF History, InOrder
  <2>2. SessionOf(u, i) # s
    BY <1>2, <1>3, <1>7, <2>1 DEF AtOf, at
  <2>3. SessionOf(u, i) \in Done(d)
    BY <1>8, <2>1, <2>2
  <2> QED
    BY <1>6, <1>8, <1>18, <2>1, <2>3 DEF AtOf, at
<1>20. InOrder(d, v)
  <2> SUFFICES ASSUME NEW i \in DOMAIN v, Finishes(v, i)
               PROVE  /\ SessionOf(v, i) \in Done(d)
                      /\ d.sessions[SessionOf(v, i)].acct = AcctOf(v, i)
                      /\ \A j \in DOMAIN v : j > i
                        /\ Finishes(v, j) => AtOf(d, v, i) < AtOf(d, v, j)
                      /\ \A t \in Done(d) : d.sessions[t].at > AtOf(d, v, i) =>
                            \E j \in DOMAIN v : j > i /\ Finishes(v, j) /\ SessionOf(v, j) = t
    BY DEF InOrder
  <2>1. /\ b.sessions[SessionOf(u, i)].acct = AcctOf(u, i)
        /\ \A j \in DOMAIN u : j > i /\ Finishes(u, j) => AtOf(b, u, i) < AtOf(b, u, j)
        /\ \A t \in Done(b) : b.sessions[t].at > AtOf(b, u, i) =>
              \E j \in DOMAIN u : j > i /\ Finishes(u, j) /\ SessionOf(u, j) = t
    BY <1>18 DEF History, InOrder
  <2>2. SessionOf(v, i) \in Done(d) /\ d.sessions[SessionOf(v, i)].acct = AcctOf(v, i)
    BY <1>8, <1>18, <1>19, <2>1
  <2>3. \A j \in DOMAIN v : j > i /\ Finishes(v, j) => AtOf(d, v, i) < AtOf(d, v, j)
    BY <1>18, <1>19, <2>1
  <2>4. ASSUME NEW t \in Done(d), d.sessions[t].at > AtOf(d, v, i)
        PROVE  \E j \in DOMAIN v : j > i /\ Finishes(v, j) /\ SessionOf(v, j) = t
    <3>1. t \in Done(b) /\ t # s /\ b.sessions[t].at > AtOf(b, u, i)
      BY <1>8, <1>19, <2>4
    <3>2. PICK j \in DOMAIN u : j > i /\ Finishes(u, j) /\ SessionOf(u, j) = t
      BY <2>1, <3>1
    <3>3. j \in DOMAIN v
      BY <1>1, <1>2, <3>1, <3>2
    <3> QED
      BY <1>18, <3>2, <3>3
  <2> QED
    BY <2>2, <2>3, <2>4
<1>21. \A i \in DOMAIN v : Caught(u, i) \cap F = {}
  BY <1>1, <1>5, <1>18 DEF History, StillCaught
<1>22. StillCaught(d, v)
  <2>1. \A i \in DOMAIN v : Finishes(v, i) => Caught(v, i) \subseteq Reconciled(d, AcctOf(v, i))
    <3> TAKE i \in DOMAIN v
    <3> HAVE Finishes(v, i)
    <3>1. Finishes(u, i) /\ Caught(u, i) \subseteq Reconciled(b, AcctOf(u, i))
            /\ AcctOf(u, i) \in Bank
      BY <1>0, <1>18, FinisherIs DEF History, StillCaught
    <3> QED
      BY <1>11, <1>18, <1>21, <3>1
  <2>2. \A i, j \in DOMAIN v : i # j => Caught(v, i) \cap Caught(v, j) = {}
    BY <1>18 DEF History, StillCaught
  <2> QED
    BY <2>1, <2>2 DEF StillCaught
<1>23. From(u, n) = F /\ \A i \in DOMAIN v : From(u, i) = From(v, i) \cup F
  <2>1. {j \in DOMAIN u : j >= n} = {n}
    BY <1>1
  <2>2. From(u, n) = F
    BY <1>5, <2>1 DEF From
  <2>3. ASSUME NEW i \in DOMAIN v
        PROVE  From(u, i) = From(v, i) \cup F
    <3>1. {j \in DOMAIN u : j >= i} = {j \in DOMAIN v : j >= i} \cup {n}
      BY <1>1, <2>3
    <3> QED
      BY <1>5, <1>18, <3>1 DEF From
  <2> QED
    BY <2>2, <2>3
<1>24. Agreed(d)
  <2> SUFFICES ASSUME NEW a \in Bank PROVE StandsAt(d, Reconciled(d, a), Completed(d, a))
    BY DEF Agreed
  <2>1. CASE a = a0
    <3> DEFINE R == Reconciled(b, a0) \ F
               S == Before(b, a0, at)
    <3>1. Reconciled(d, a) = R /\ Completed(d, a) = S
      BY <1>11, <1>15, <2>1
    <3>2. StandsAt(b, R, S)
      BY <1>1, <1>2, <1>23 DEF History, AgreedBefore, a0, at
    <3>3. \A id \in R : d.rows[id].n = b.rows[id].n
      BY <1>2, <1>13
    <3>4. \A t \in S : d.sessions[t] = b.sessions[t]
      BY <1>2, <1>14, <1>15
    <3> HIDE DEF R, S
    <3> QED
      BY <3>1, <3>2, <3>3, <3>4, StandsSame
  <2>2. CASE a # a0
    <3> DEFINE R == Reconciled(b, a)
               S == Completed(b, a)
    <3>1. Reconciled(d, a) = R /\ Completed(d, a) = S
      BY <1>11, <1>12, <1>16, <2>2
    <3>2. StandsAt(b, R, S)
      BY DEF History, Agreed
    <3>3. \A id \in R : d.rows[id].n = b.rows[id].n
      BY <1>13
    <3>4. \A t \in S : d.sessions[t] = b.sessions[t]
      BY <1>14, <1>16, <2>2
    <3> HIDE DEF R, S
    <3> QED
      BY <3>1, <3>2, <3>3, <3>4, StandsSame
  <2> QED
    BY <2>1, <2>2
<1>25. AgreedBefore(d, v)
  <2> SUFFICES ASSUME NEW i \in DOMAIN v, Finishes(v, i)
               PROVE  StandsAt(d, Reconciled(d, AcctOf(v, i)) \ From(v, i),
                               Before(d, AcctOf(v, i), AtOf(d, v, i)))
    BY DEF AgreedBefore
  <2> DEFINE a == AcctOf(u, i)
             cut == AtOf(b, u, i)
             R == Reconciled(b, a) \ From(u, i)
             S == Before(b, a, cut)
  <2>1. /\ i \in DOMAIN u /\ Finishes(u, i) /\ a \in Bank /\ AcctOf(v, i) = a
        /\ AtOf(d, v, i) = cut /\ cut < at
    BY <1>0, <1>18, <1>19, FinisherIs
  <2> HIDE DEF a, cut
  <2>2. Reconciled(d, a) \ From(v, i) = R
    BY <1>11, <1>23, <2>1
  <2>3. Before(d, a, cut) = S
    <3>1. \A t \in Completed(b, a) : b.sessions[t].at < cut => t # s /\ t \in Completed(d, a)
      BY <1>3, <1>6, <1>7, <1>8, <1>19, <2>1, CompletedIs DEF cut
    <3> QED
      BY <1>14, <2>1, <3>1 DEF Before
  <2>4. StandsAt(b, R, S)
    BY <2>1 DEF History, AgreedBefore, a, cut
  <2>5. \A id \in R : d.rows[id].n = b.rows[id].n
    BY <1>13, <2>1
  <2>6. \A t \in S : d.sessions[t] = b.sessions[t]
    <3>1. \A t \in Before(d, a, cut) : d.sessions[t] = b.sessions[t]
      BY <1>14, <2>1 DEF Before
    <3> QED
      BY <2>3, <3>1
  <2> HIDE DEF R, S
  <2> QED
    BY <2>1, <2>2, <2>3, <2>4, <2>5, <2>6, StandsSame
<1> QED
  BY <1>0, <1>10, <1>17, <1>20, <1>22, <1>24, <1>25 DEF History, v

----------------------------------------------------------------------------
(* Identifiers and their accounts.                                         *)

LEMMA NotesStep ==
    ASSUME NEW H, NEW N, NEW H2, NEW N2, NEW M, NEW p,
           OneAccount(H \cup N), Older(H \cup N, p),
           \A x \in N : IsEntered(x[1]) \/ x[1] \in M,
           \A x \in N2 : x \in N \/ (IsEntered(x[1]) /\ x \in H),
           \A x \in H2 : x \in H \cup N \/ (~IsEntered(x[1]) /\ x[1] \notin M),
           OneAccount(H2)
    PROVE  OneAccount(H2 \cup N2) /\ Older(H2 \cup N2, p)
<1>1. Older(H2 \cup N2, p)
  BY DEF Older
<1>2. ASSUME NEW x \in H2, NEW y \in N2, x[1] = y[1]
      PROVE  x[2] = y[2]
  <2>1. x \in H \cup N /\ y \in H \cup N
    BY <1>2
  <2> QED
    BY <1>2, <2>1 DEF OneAccount
<1>3. ASSUME NEW x \in N2, NEW y \in N2, x[1] = y[1]
      PROVE  x[2] = y[2]
  <2>1. x \in H \cup N /\ y \in H \cup N
    OBVIOUS
  <2> QED
    BY <1>3, <2>1 DEF OneAccount
<1>4. OneAccount(H2 \cup N2)
  <2> SUFFICES ASSUME NEW x \in H2 \cup N2, NEW y \in H2 \cup N2, x[1] = y[1]
               PROVE  x[2] = y[2]
    BY DEF OneAccount
  <2>1. CASE x \in H2 /\ y \in H2
    BY <2>1 DEF OneAccount
  <2>2. CASE x \in H2 /\ y \in N2
    BY <2>2, <1>2
  <2>3. CASE x \in N2 /\ y \in H2
    BY <2>3, <1>2
  <2>4. CASE x \in N2 /\ y \in N2
    BY <2>4, <1>3
  <2> QED
    BY <2>1, <2>2, <2>3, <2>4
<1> QED
  BY <1>1, <1>4

LEMMA HeldOne == ASSUME NEW b PROVE OneAccount(Held(b))
<1> SUFFICES ASSUME NEW x \in Held(b), NEW y \in Held(b), x[1] = y[1]
             PROVE  x[2] = y[2]
  BY DEF OneAccount
<1>1. PICK i \in DOMAIN b.rows : x = <<i, b.rows[i].acct>>
  BY DEF Held
<1>2. PICK j \in DOMAIN b.rows : y = <<j, b.rows[j].acct>>
  BY DEF Held
<1> QED
  BY <1>1, <1>2

LEMMA NotesEntered ==
    ASSUME NEW c, CmdOK(c)
    PROVE  /\ \A x \in CmdNotes(c) : IsEntered(x[1]) \/ x[1] \in c.ids
           /\ \A k : \A x \in BackNotes(c, k) : IsEntered(x[1])
<1>1. c.verb \in HasRow \cup TakesRow => c.id \in EnteredId
  BY DEF CmdOK, HasRow, TakesRow, RowVerb
<1>2. c.verb \in HasRow \cup TakesRow => IsEntered(c.id)
  BY <1>1, EnteredIs
<1>3. \A x \in CmdNotes(c) : IsEntered(x[1]) \/ x[1] \in c.ids
  <2> TAKE x \in CmdNotes(c)
  <2>1. CASE \E id \in c.ids : x = <<id, c.acct>>
    BY <2>1
  <2>2. CASE c.verb \in HasRow /\ x = <<c.id, c.row.acct>>
    BY <1>2, <2>2
  <2> QED
    BY <2>1, <2>2 DEF CmdNotes
<1>4. ASSUME NEW k, NEW x \in BackNotes(c, k)
      PROVE  IsEntered(x[1])
  <2>1. c.verb \in TakesRow /\ x = <<c.id, k.row.acct>>
    BY <1>4 DEF BackNotes
  <2> QED
    BY <1>2, <2>1
<1> QED
  BY <1>3, <1>4

LEMMA CopyEntered ==
    ASSUME NEW q, q = None \/ q.id \in EnteredId
    PROVE  \A x \in CopyNotes(q) : IsEntered(x[1])
BY EnteredIs DEF CopyNotes

LEMMA StackedHas ==
    /\ \A c \in Range(redoStack) : c \in Stacked
    /\ \A e \in Range(undoStack) : e.cmd \in Stacked
    /\ \A c \in Stacked : c.ids \subseteq NamedRows
BY DEF Stacked, NamedRows

LEMMA RangeIn == ASSUME NEW s, NEW i \in DOMAIN s PROVE s[i] \in Range(s)
BY DEF Range

LEMMA NotedNamed ==
    ASSUME StacksOK, CopyOK
    PROVE  \A x \in Noted(undoStack, redoStack, copy) : IsEntered(x[1]) \/ x[1] \in NamedRows
<1> SUFFICES ASSUME NEW x \in Noted(undoStack, redoStack, copy)
             PROVE  IsEntered(x[1]) \/ x[1] \in NamedRows
  OBVIOUS
<1>1. CASE x \in CopyNotes(copy)
  BY <1>1, CopyEntered DEF CopyOK
<1>2. CASE \E c \in Range(redoStack) : x \in CmdNotes(c)
  <2>1. PICK c \in Range(redoStack) : x \in CmdNotes(c)
    BY <1>2
  <2>2. CmdOK(c) /\ c.ids \subseteq NamedRows
    BY <2>1, StackedHas DEF StacksOK, Range
  <2> QED
    BY <2>1, <2>2, NotesEntered
<1>3. CASE \E e \in Range(undoStack) : x \in EntryNotes(e)
  <2>1. PICK e \in Range(undoStack) : x \in EntryNotes(e)
    BY <1>3
  <2> DEFINE c == e.cmd
  <2>2. CmdOK(c) /\ c.ids \subseteq NamedRows
    BY <2>1, StackedHas DEF StacksOK, Range, EntryOK
  <2>3. x \in CmdNotes(c) \/ x \in BackNotes(c, e.back)
    BY <2>1 DEF EntryNotes
  <2> HIDE DEF c
  <2> QED
    BY <2>2, <2>3, NotesEntered
<1> QED
  BY <1>1, <1>2, <1>3 DEF Noted

(* The accounts of the rows after a command, or after its undo.            *)
LEMMA HeldAfter ==
    ASSUME NEW b, BooksOK(b), NEW d, NEW id \in EnteredId, Changes(b, d, id), NEW N,
           id \in DOMAIN d.rows => <<id, d.rows[id].acct>> \in N
    PROVE  \A x \in Held(d) : x \in Held(b) \cup N \/ (~IsEntered(x[1]) /\ x[1] \notin NamedRows)
<1> SUFFICES ASSUME NEW x \in Held(d)
             PROVE  x \in Held(b) \cup N \/ (~IsEntered(x[1]) /\ x[1] \notin NamedRows)
  OBVIOUS
<1>1. PICK i \in DOMAIN d.rows : x = <<i, d.rows[i].acct>>
  BY DEF Held
<1>2. BooksOK(d)
  BY DEF Changes, Writes
<1>3. CASE i = id
  BY <1>1, <1>3
<1>4. CASE IsEntered(i) /\ i # id
  <2>1. i \in DOMAIN b.rows /\ d.rows[i] = b.rows[i]
    BY <1>2, <1>4, EnteredOwn DEF Changes, Writes, OwnSame
  <2> QED
    BY <1>1, <2>1 DEF Held
<1>5. CASE ~IsEntered(i)
  <2>1. \/ i \in DOMAIN b.rows /\ d.rows[i].acct = b.rows[i].acct
        \/ i \notin NamedRows
    BY <1>5 DEF Changes, Writes, PairsKept
  <2> QED
    BY <1>1, <1>5, <2>1 DEF Held
<1> QED
  BY <1>3, <1>4, <1>5

LEMMA EditedAcct ==
    ASSUME NEW b, BooksOK(b), NEW d, NEW id \in EnteredId, NEW row \in OwnRow, Edited(b, d, id, row)
    PROVE  d.rows[id].acct = row.acct
<1> DEFINE l == b.rows[id].lines
<1>1. l \in Lines /\ d.rows[id] = [row EXCEPT !.lines = l]
  BY ThawedIs DEF Edited, OwnRow, Row
<1> HIDE DEF l
<1>2. [row EXCEPT !.lines = l].acct = row.acct
  BY <1>1, OwnIs
<1> QED
  BY <1>1, <1>2

LEMMA TurnedHeld ==
    ASSUME NEW b, BooksOK(b), NEW d, NEW open, Turned(b, d, open)
    PROVE  Held(d) = Held(b)
BY TurnedIs DEF Held

LEMMA DoesHeld ==
    ASSUME NEW b, BooksOK(b), NEW d, NEW c, CmdOK(c), c.verb # "finish", Does(b, d, c)
    PROVE  \A x \in Held(d) :
              x \in Held(b) \cup CmdNotes(c) \/ (~IsEntered(x[1]) /\ x[1] \notin NamedRows)
<1> DEFINE id == c.id
           row == c.row
           N == Held(b) \cup CmdNotes(c)
<1>1. CASE c.verb \in RowVerb
  <2>1. id \in EnteredId /\ Changes(b, d, id) /\ BooksOK(d)
    BY <1>1 DEF Does, CmdOK, Changes, Writes
  <2>2. id \in DOMAIN d.rows => <<id, d.rows[id].acct>> \in N
    <3>1. CASE c.verb \in HasRow
      <4>1. row \in OwnRow /\ <<id, row.acct>> \in CmdNotes(c)
        BY <3>1 DEF CmdOK, CmdNotes
      <4>2. Edited(b, d, id, row) \/ Becomes(d, id, row)
        BY <3>1 DEF HasRow, Does, Created, Replaced
      <4> HIDE DEF id, row
      <4>3. d.rows[id].acct = row.acct
        BY <2>1, <4>1, <4>2, EditedAcct, BecomesIs
      <4> QED
        BY <4>1, <4>3
    <3>2. CASE c.verb = "delete"
      BY <3>2 DEF Does, Removed
    <3>3. CASE c.verb = "void"
      <4>1. id \in DOMAIN b.rows /\ d.rows[id].acct = b.rows[id].acct
        BY <3>3 DEF Does, Voided, Frozen
      <4> QED
        BY <4>1 DEF Held
    <3> QED
      BY <1>1, <3>1, <3>2, <3>3 DEF RowVerb, HasRow
  <2> HIDE DEF id, N
  <2>3. \A x \in Held(d) : x \in Held(b) \cup N \/ (~IsEntered(x[1]) /\ x[1] \notin NamedRows)
    BY <2>1, <2>2, HeldAfter
  <2> QED
    BY <2>3 DEF N
<1>2. CASE c.verb \in {"close", "reopen"}
  <2>1. \E open : Turned(b, d, open)
    BY <1>2 DEF Does
  <2> QED
    BY <2>1, TurnedHeld
<1> QED
  BY <1>1, <1>2 DEF CmdOK, Verb

LEMMA UndoesHeld ==
    ASSUME NEW b, BooksOK(b), NEW d, NEW c, CmdOK(c), c.verb # "finish", NEW k, BackOK(c, k),
           Undoes(b, d, c, k)
    PROVE  \A x \in Held(d) :
              x \in Held(b) \cup BackNotes(c, k) \/ (~IsEntered(x[1]) /\ x[1] \notin NamedRows)
<1> DEFINE id == c.id
           row == k.row
           N == BackNotes(c, k)
<1>1. CASE c.verb \in RowVerb
  <2>1. id \in EnteredId /\ Changes(b, d, id) /\ BooksOK(d)
    BY <1>1 DEF Undoes, CmdOK, Changes, Writes
  <2>2. id \in DOMAIN d.rows => <<id, d.rows[id].acct>> \in N
    <3>1. CASE c.verb \in TakesRow
      <4>1. row \in OwnRow /\ <<id, row.acct>> \in BackNotes(c, k)
        BY <3>1 DEF BackOK, BackNotes
      <4>2. Edited(b, d, id, row) \/ Becomes(d, id, row)
        BY <3>1 DEF TakesRow, Undoes, Created, Replaced, Restored
      <4> HIDE DEF id, row
      <4>3. d.rows[id].acct = row.acct
        BY <2>1, <4>1, <4>2, EditedAcct, BecomesIs
      <4> QED
        BY <4>1, <4>3
    <3>2. CASE c.verb = "create"
      BY <3>2 DEF Undoes, Removed
    <3> QED
      BY <1>1, <3>1, <3>2 DEF RowVerb, TakesRow
  <2> HIDE DEF id, N
  <2>3. \A x \in Held(d) : x \in Held(b) \cup N \/ (~IsEntered(x[1]) /\ x[1] \notin NamedRows)
    BY <2>1, <2>2, HeldAfter
  <2> QED
    BY <2>3 DEF N
<1>2. CASE c.verb \in {"close", "reopen"}
  <2>1. \E open : Turned(b, d, open)
    BY <1>2 DEF Undoes
  <2> QED
    BY <2>1, TurnedHeld
<1> QED
  BY <1>1, <1>2 DEF CmdOK, Verb

LEMMA RestatedHeld ==
    ASSUME NEW b, NEW d, NEW F, NEW s, NEW at, Restates(b, d, F, s, at)
    PROVE  Held(d) = Held(b)
BY DEF Restates, Held

----------------------------------------------------------------------------
(* Steps that execute or undo a command.                                   *)

LEMMA EntryIs ==
    ASSUME NEW cmd, NEW k, NEW w
    PROVE  LET e == [cmd |-> cmd, back |-> k, was |-> w]
           IN e.cmd = cmd /\ e.back = k /\ e = [cmd |-> e.cmd, back |-> e.back, was |-> e.was]
OBVIOUS

LEMMA WithTidsNotes ==
    ASSUME NEW b, NEW d, BooksOK(d), NEW c, CmdOK(c), c.verb # "finish", Does(b, d, c)
    PROVE  CmdNotes(WithTids(d, c)) = CmdNotes(c)
BY WithTidsIs DEF CmdNotes

(* A command that is new or redone.  r and q are the redo stack and the    *)
(* copy that it leaves, p the identifiers that were never used.            *)
LEMMA Executes ==
    ASSUME StacksOK, CopyOK, History(books, undoStack), NEW c, CmdOK(c),
           NEW r, NEW q, NEW p, NEW out \in Executed(books, c),
           Range(r) \subseteq Range(redoStack), q = None \/ q.id \in EnteredId,
           OneAccount(Notes \cup CmdNotes(c) \cup CopyNotes(q)),
           Older(Notes \cup CmdNotes(c) \cup CopyNotes(q), p),
           NEW v, v = Append(undoStack, Entry(out))
    PROVE  /\ History(out.books, v)
           /\ OneAccount(Held(out.books) \cup Noted(v, r, q))
           /\ Older(Held(out.books) \cup Noted(v, r, q), p)
<1> DEFINE d == out.books
           e == Entry(out)
           H == Held(books)
           N == Noted(undoStack, redoStack, copy) \cup CmdNotes(c) \cup CopyNotes(q)
           N2 == Noted(v, r, q)
<1>0. IsSeq(undoStack) /\ BooksOK(books) /\ StackOK(undoStack)
  BY DEF History, StackOK
<1>1. e.cmd = out.cmd /\ e.back = out.back /\ e = [cmd |-> e.cmd, back |-> e.back, was |-> e.was]
  BY EntryIs DEF Entry
<1>2. v = Append(undoStack, e) /\ Range(v) = Range(undoStack) \cup {e}
  BY <1>0, Pushed
<1>3. OneAccount(H \cup N) /\ Older(H \cup N, p)
  <2>1. H \cup N = Notes \cup CmdNotes(c) \cup CopyNotes(q)
    BY DEF Notes
  <2> QED
    BY <2>1
<1>4. \A x \in N2 : x \in N \/ x \in CmdNotes(out.cmd) \/ x \in BackNotes(out.cmd, out.back)
  BY <1>1, <1>2 DEF Noted, EntryNotes
<1> HIDE DEF e, H, N2
<1>5. CASE c.verb # "finish"
  <2>1. /\ BooksOK(d) /\ Does(books, d, c) /\ out.cmd = WithTids(d, c)
        /\ CmdOK(out.cmd) /\ BackOK(out.cmd, out.back) /\ out.back.row = RowNow(books, c)
    BY <1>0, <1>5, ExecutedIs
  <2>2. out.cmd.verb = c.verb /\ out.cmd.id = c.id
    BY <1>5, <2>1, WithTidsIs
  <2>3. EntryOK(e)
    BY <1>1, <2>1 DEF EntryOK
  <2>4. Spares(books, d)
    BY <1>0, <1>5, <2>1, DoesSpare
  <2>5. History(d, v)
    <3>1. History(d, undoStack)
      BY <2>1, <2>4, HistorySpared
    <3> QED
      BY <1>1, <1>2, <1>5, <2>2, <2>3, <3>1, HistoryPushed
  <2>6. CmdNotes(out.cmd) = CmdNotes(c) /\ \A x \in CmdNotes(c) : IsEntered(x[1])
    BY <1>5, <2>1, WithTidsNotes, NotesEntered DEF CmdOK
  <2>7. \A x \in BackNotes(out.cmd, out.back) : IsEntered(x[1]) /\ x \in H
    <3> SUFFICES ASSUME NEW x \in BackNotes(out.cmd, out.back) PROVE x \in H
      BY <2>1, NotesEntered
    <3>1. c.verb \in TakesRow /\ x = <<c.id, out.back.row.acct>>
      BY <2>2 DEF BackNotes
    <3>2. ~Frozen(books, c.id)
      BY <2>1, <3>1 DEF TakesRow, Does, Edited, Replaced, Removed, Voided
    <3>3. c.id \in DOMAIN books.rows /\ out.back.row = books.rows[c.id]
      BY <2>1, <3>2 DEF Frozen, RowNow
    <3> QED
      BY <3>1, <3>3 DEF H, Held
  <2>8. \A x \in N : IsEntered(x[1]) \/ x[1] \in NamedRows
    BY <2>6, NotedNamed, CopyEntered
  <2>9. \A x \in N2 : x \in N \/ (IsEntered(x[1]) /\ x \in H)
    BY <1>4, <2>6, <2>7
  <2>10. \A x \in Held(d) : x \in H \cup N \/ (~IsEntered(x[1]) /\ x[1] \notin NamedRows)
    BY <1>0, <1>5, <2>1, DoesHeld DEF H
  <2>11. OneAccount(Held(d))
    BY HeldOne
  <2> HIDE DEF N
  <2>12. OneAccount(Held(d) \cup N2) /\ Older(Held(d) \cup N2, p)
    <3> DEFINE H2 == Held(d)
    <3> HIDE DEF H2
    <3>1. /\ \A x \in H2 : x \in H \cup N \/ (~IsEntered(x[1]) /\ x[1] \notin NamedRows)
          /\ OneAccount(H2)
      BY <2>10, <2>11 DEF H2
    <3>2. OneAccount(H2 \cup N2) /\ Older(H2 \cup N2, p)
      BY <1>3, <2>8, <2>9, <3>1, NotesStep
    <3> QED
      BY <3>2 DEF H2
  <2> QED
    BY <2>5, <2>12 DEF N2
<1>6. CASE c.verb = "finish"
  <2>1. out \in FinishExecuted(books, c)
    BY <1>6 DEF Executed
  <2>2. out.cmd = c /\ BackOK(c, out.back)
    BY <1>0, <1>6, <2>1, FinishedIs
  <2>3. PICK F : Finished(books, c, d, out.back, F)
    BY <1>0, <1>6, <2>1, FinishedIs
  <2>4. EntryOK(e)
    BY <1>1, <2>2 DEF EntryOK
  <2>5. \A id \in c.ids : books.rows[id].acct = c.acct
    <3> TAKE id \in c.ids
    <3>1. <<id, c.acct>> \in H \cup N
      BY DEF CmdNotes
    <3>2. <<id, books.rows[id].acct>> \in H \cup N
      BY <2>3 DEF Finished, H, Held
    <3> HIDE DEF N
    <3> QED
      BY <1>3, <3>1, <3>2 DEF OneAccount
  <2>6. History(d, v)
    BY <1>1, <1>2, <1>6, <2>2, <2>3, <2>4, <2>5, HistoryFinished
  <2>7. Held(d) = H
    BY <2>3, RestatedHeld DEF Finished, H
  <2>8. BackNotes(c, out.back) = {}
    BY <1>6 DEF BackNotes, TakesRow
  <2>9. Held(d) \cup N2 \subseteq H \cup N
    BY <1>4, <2>2, <2>7, <2>8
  <2> HIDE DEF N
  <2>10. OneAccount(Held(d) \cup N2) /\ Older(Held(d) \cup N2, p)
    BY <1>3, <2>9 DEF OneAccount, Older
  <2> QED
    BY <2>6, <2>10 DEF N2
<1> QED
  BY <1>5, <1>6

LEMMA LastIn == ASSUME NEW s, IsSeq(s), s # <<>> PROVE Last(s) \in Range(s)
<1>1. Last(s) = s[Len(s)] /\ Len(s) \in DOMAIN s
  BY Popped
<1> QED
  BY <1>1 DEF Range

(* A command that is undone.                                               *)
LEMMA Undoing ==
    ASSUME StacksOK, CopyOK, History(books, undoStack), undoStack # <<>>, NEW p,
           OneAccount(Notes), Older(Notes, p),
           NEW e, e = Last(undoStack), NEW d \in Undone(books, e.cmd, e.back),
           NEW v, v = Front(undoStack), NEW r, r = Append(redoStack, e.cmd)
    PROVE  /\ History(d, v)
           /\ OneAccount(Held(d) \cup Noted(v, r, copy))
           /\ Older(Held(d) \cup Noted(v, r, copy), p)
<1> DEFINE c == e.cmd
           k == e.back
           H == Held(books)
           N == Noted(undoStack, redoStack, copy)
           N2 == Noted(v, r, copy)
<1>0. IsSeq(undoStack) /\ BooksOK(books) /\ StackOK(undoStack) /\ IsSeq(redoStack)
  BY DEF History, StackOK, StacksOK
<1>1. Range(v) \subseteq Range(undoStack) /\ e \in Range(undoStack) /\ CmdOK(c) /\ BackOK(c, k)
  <2>1. Range(v) \subseteq Range(undoStack) /\ e \in Range(undoStack)
    <3>1. Range(Front(undoStack)) \subseteq Range(undoStack)
      BY <1>0, Popped
    <3>2. Last(undoStack) \in Range(undoStack)
      BY <1>0, LastIn
    <3> QED
      BY <3>1, <3>2
  <2> QED
    BY <2>1 DEF StacksOK, Range, EntryOK
<1>2. Range(r) = Range(redoStack) \cup {c}
  BY <1>0, Pushed
<1>3. EntryNotes(e) \subseteq N
  BY <1>1 DEF Noted
<1>4. N2 \subseteq N
  <2>1. CmdNotes(c) \subseteq N
    BY <1>3 DEF EntryNotes
  <2> QED
    BY <1>1, <1>2, <2>1 DEF Noted
<1>5. OneAccount(H \cup N) /\ Older(H \cup N, p)
  BY DEF Notes
<1>6. CASE c.verb # "finish"
  <2>1. Undoes(books, d, c, k)
    BY <1>0, <1>1, <1>6, UndoneAre
  <2>2. BooksOK(d)
    BY <1>0, <1>1, <1>6, <2>1, DoesKeep
  <2>3. Spares(books, d)
    BY <1>0, <1>1, <1>6, <2>1, DoesSpare
  <2>4. History(d, v)
    <3>1. History(d, undoStack)
      BY <2>2, <2>3, HistorySpared
    <3> QED
      BY <1>6, <3>1, HistoryPopped
  <2>5. \A x \in Held(d) : x \in H \cup BackNotes(c, k) \/ (~IsEntered(x[1])
          /\ x[1] \notin NamedRows)
    BY <1>0, <1>1, <1>6, <2>1, UndoesHeld
  <2>6. BackNotes(c, k) \subseteq N
    BY <1>3 DEF EntryNotes
  <2>7. \A x \in N : IsEntered(x[1]) \/ x[1] \in NamedRows
    BY NotedNamed
  <2>8. OneAccount(Held(d))
    BY HeldOne
  <2> HIDE DEF H, N, N2
  <2>9. OneAccount(Held(d) \cup N2) /\ Older(Held(d) \cup N2, p)
    <3> DEFINE H2 == Held(d)
    <3> HIDE DEF H2
    <3>1. /\ \A x \in H2 : x \in H \cup N \/ (~IsEntered(x[1]) /\ x[1] \notin NamedRows)
          /\ OneAccount(H2)
      BY <2>5, <2>6, <2>8 DEF H2
    <3>2. \A x \in N2 : x \in N \/ (IsEntered(x[1]) /\ x \in H)
      BY <1>4
    <3>3. OneAccount(H2 \cup N2) /\ Older(H2 \cup N2, p)
      BY <1>5, <2>7, <3>1, <3>2, NotesStep
    <3> QED
      BY <3>3 DEF H2
  <2> QED
    BY <2>4, <2>9 DEF N2
<1>7. CASE c.verb = "finish"
  <2> DEFINE s == k.session
             f == k.statuses
  <2>1. d \in UndoFinish(books, s, f)
    BY <1>7 DEF Undone
  <2>2. s \in Nat /\ \A id \in DOMAIN f : f[id] \in {"uncleared", "cleared"}
    BY <1>1, <1>7 DEF BackOK
  <2> HIDE DEF s, f
  <2>3. PICK F : Unfinished(books, d, s, f, F)
    BY <1>0, <2>1, <2>2, UnfinishedIs
  <2>4. History(d, v)
    <3>1. Unfinished(books, d, k.session, k.statuses, F)
      BY <2>3 DEF s, f
    <3> QED
      BY <1>7, <3>1, HistoryUnfinished
  <2>5. Held(d) = H
    BY <2>3, RestatedHeld DEF Unfinished
  <2>6. Held(d) \cup N2 \subseteq H \cup N
    BY <1>4, <2>5
  <2> HIDE DEF H, N, N2
  <2>7. OneAccount(Held(d) \cup N2) /\ Older(Held(d) \cup N2, p)
    BY <1>5, <2>6 DEF OneAccount, Older
  <2> QED
    BY <2>4, <2>7 DEF N2
<1> QED
  BY <1>6, <1>7

----------------------------------------------------------------------------
(* Sessions started and cancelled.                                         *)

LEMMA WithSessions ==
    ASSUME NEW b, BooksOK(b), NEW f, SessionsOK(f), NEW d, d = [b EXCEPT !.sessions = f]
    PROVE  BooksOK(d) /\ d.sessions = f /\ d.rows = b.rows
<1> DEFINE r == b.rows
           o == b.open
           s == b.sessions
           e == [rows |-> r, open |-> o, sessions |-> f]
<1>1. b = [rows |-> r, open |-> o, sessions |-> s] /\ RowsOK(r) /\ o \subseteq Account
  BY DEF BooksOK
<1>2. d = [b EXCEPT !.sessions = f]
  OBVIOUS
<1> HIDE DEF r, o, s, e
<1>3. d = e
  BY <1>1, <1>2 DEF e
<1>4. e.rows = r /\ e.open = o /\ e.sessions = f
        /\ e = [rows |-> e.rows, open |-> e.open, sessions |-> e.sessions]
  BY DEF e
<1>5. BooksOK(e)
  BY <1>1, <1>4 DEF BooksOK
<1> QED
  BY <1>3, <1>4, <1>5 DEF r

LEMMA SessionsSpare ==
    ASSUME NEW b, NEW d, d.rows = b.rows,
           \A s \in DOMAIN b.sessions : b.sessions[s].at > 0 =>
              s \in DOMAIN d.sessions /\ d.sessions[s] = b.sessions[s],
           \A s \in DOMAIN d.sessions : d.sessions[s].at > 0 =>
              s \in DOMAIN b.sessions /\ d.sessions[s] = b.sessions[s]
    PROVE  Spares(b, d) /\ Held(d) = Held(b)
<1>1. Done(d) = Done(b) /\ \A s \in Done(b) : d.sessions[s] = b.sessions[s]
  BY DEF Done
<1>2. \A a : Reconciled(d, a) = Reconciled(b, a)
  BY DEF Reconciled, RowsOf
<1>3. Held(d) = Held(b)
  BY DEF Held
<1> QED
  BY <1>1, <1>2, <1>3 DEF Spares

LEMMA SessionDropped ==
    ASSUME NEW f, SessionsOK(f), NEW S
    PROVE  /\ SessionsOK(Drop(f, S)) /\ DOMAIN Drop(f, S) = DOMAIN f \ S
           /\ \A s \in DOMAIN f \ S : Drop(f, S)[s] = f[s]
<1> DEFINE g == Drop(f, S)
<1>1. DOMAIN g = DOMAIN f \ S /\ \A s \in DOMAIN f \ S : g[s] = f[s]
  BY DEF Drop
<1>2. g = [s \in DOMAIN g |-> g[s]]
  BY DEF Drop
<1>3. IsFiniteSet(DOMAIN g)
  BY <1>1, FS_Subset DEF SessionsOK
<1> HIDE DEF g
<1>4. SessionsOK(g)
  BY <1>1, <1>2, <1>3 DEF SessionsOK
<1> QED
  BY <1>1, <1>4 DEF g

Session == [acct : Bank, balance : Int, at : Nat]

LEMMA SessionPut ==
    ASSUME NEW f, SessionsOK(f), NEW s \in Nat, NEW x \in Session
    PROVE  /\ SessionsOK(Put(f, s, x)) /\ DOMAIN Put(f, s, x) = DOMAIN f \cup {s}
           /\ Put(f, s, x)[s] = x
           /\ \A t \in DOMAIN f \ {s} : Put(f, s, x)[t] = f[t]
<1> DEFINE g == Put(f, s, x)
<1>1. /\ DOMAIN g = DOMAIN f \cup {s} /\ g[s] = x
      /\ \A t \in DOMAIN f \ {s} : g[t] = f[t]
      /\ g = [t \in DOMAIN g |-> g[t]]
  BY DEF Put, Over
<1>2. IsFiniteSet(DOMAIN f \cup {s}) /\ DOMAIN f \subseteq Nat
  BY FS_AddElement DEF SessionsOK
<1> HIDE DEF g
<1>3. \A t \in DOMAIN g : g[t] \in [acct : Bank, balance : Int, at : Nat]
  BY <1>1 DEF SessionsOK, Session
<1>4. SessionsOK(g)
  BY <1>1, <1>2, <1>3 DEF SessionsOK
<1> QED
  BY <1>1, <1>4 DEF g

LEMMA StartedIs ==
    ASSUME NEW b, BooksOK(b), NEW a \in Bank, NEW n \in Int,
           NEW gone, gone \subseteq InProgress(b, a),
           NEW d, d = [b EXCEPT !.sessions = Put(Drop(b.sessions, gone), NextSession(b),
                                                 [acct |-> a, balance |-> n, at |-> 0])]
    PROVE  BooksOK(d) /\ Spares(b, d) /\ Held(d) = Held(b)
<1> DEFINE f == b.sessions
           s == NextSession(b)
           x == [acct |-> a, balance |-> n, at |-> 0]
           g == Drop(f, gone)
           h == Put(g, s, x)
<1>1. SessionsOK(f) /\ \A t \in gone : f[t].at = 0
  BY DEF BooksOK, InProgress
<1>2. s \in Nat /\ s \notin DOMAIN f
  BY NextSessionIs
<1>3. x \in Session /\ x.at = 0
  BY DEF Session
<1>4. d = [b EXCEPT !.sessions = h]
  OBVIOUS
<1> HIDE DEF f, s, x, h
<1>5. SessionsOK(g) /\ DOMAIN g = DOMAIN f \ gone /\ \A t \in DOMAIN g : g[t] = f[t]
  BY <1>1, SessionDropped
<1> HIDE DEF g
<1>6. /\ SessionsOK(Put(g, s, x)) /\ DOMAIN Put(g, s, x) = DOMAIN g \cup {s} /\ Put(g, s, x)[s] = x
      /\ \A t \in DOMAIN g \ {s} : Put(g, s, x)[t] = g[t]
  BY <1>2, <1>3, <1>5, SessionPut
<1>6a. SessionsOK(h) /\ DOMAIN h = DOMAIN g \cup {s} /\ h[s] = x
         /\ \A t \in DOMAIN g \ {s} : h[t] = g[t]
  BY <1>6 DEF h
<1>7. BooksOK([b EXCEPT !.sessions = h]) /\ [b EXCEPT !.sessions = h].sessions = h
      /\ [b EXCEPT !.sessions = h].rows = b.rows
  BY <1>6a, WithSessions
<1>8. \A t \in DOMAIN f : f[t].at > 0 => t \in DOMAIN h /\ h[t] = f[t]
  BY <1>1, <1>2, <1>5, <1>6a
<1>9. \A t \in DOMAIN h : h[t].at > 0 => t \in DOMAIN f /\ h[t] = f[t]
  BY <1>3, <1>5, <1>6a
<1>10. BooksOK(d) /\ d.sessions = h /\ d.rows = b.rows
  BY <1>4, <1>7
<1> QED
  BY <1>10, <1>8, <1>9, SessionsSpare DEF f

LEMMA CancelledIs ==
    ASSUME NEW b, BooksOK(b), NEW a, NEW s \in InProgress(b, a),
           NEW d, d = [b EXCEPT !.sessions = Drop(b.sessions, {s})]
    PROVE  BooksOK(d) /\ Spares(b, d) /\ Held(d) = Held(b)
<1> DEFINE f == b.sessions
           S == {s}
           g == Drop(f, S)
<1>1. SessionsOK(f) /\ f[s].at = 0
  BY DEF BooksOK, InProgress
<1>4. d = [b EXCEPT !.sessions = g]
  OBVIOUS
<1> HIDE DEF f, S
<1>5. SessionsOK(g) /\ DOMAIN g = DOMAIN f \ S /\ \A t \in DOMAIN g : g[t] = f[t]
  BY <1>1, SessionDropped
<1> HIDE DEF g
<1>7. BooksOK([b EXCEPT !.sessions = g]) /\ [b EXCEPT !.sessions = g].sessions = g
      /\ [b EXCEPT !.sessions = g].rows = b.rows
  BY <1>5, WithSessions
<1>8. \A t \in DOMAIN f : f[t].at > 0 => t \in DOMAIN g /\ g[t] = f[t]
  BY <1>1, <1>5 DEF S
<1>10. BooksOK(d) /\ d.sessions = g /\ d.rows = b.rows
  BY <1>4, <1>7
<1> QED
  BY <1>5, <1>8, <1>10, SessionsSpare DEF f

(* Where the accounts agree, they agree as StatementAgrees says.           *)
LEMMA StandsAgrees ==
    ASSUME NEW b, BooksOK(b), NEW R, NEW S, S \subseteq DOMAIN b.sessions, StandsAt(b, R, S)
    PROVE  SumOf(b, R) =
             IF S = {} THEN 0
             ELSE b.sessions[CHOOSE s \in S :
                    \A t \in S : b.sessions[t].at <= b.sessions[s].at].balance
<1>1. CASE S = {}
  BY <1>1 DEF StandsAt
<1>2. CASE S # {}
  <2>1. PICK s \in S : /\ \A t \in S : t # s => b.sessions[t].at < b.sessions[s].at
                       /\ SumOf(b, R) = b.sessions[s].balance
    BY <1>2 DEF StandsAt
  <2>2. \A t \in S : b.sessions[t].at \in Nat
    BY DEF BooksOK, SessionsOK
  <2> DEFINE Top(x) == \A t \in S : b.sessions[t].at <= b.sessions[x].at
             y == CHOOSE x \in S : Top(x)
  <2>3. Top(s)
    BY <2>1, <2>2
  <2>4. y \in S /\ Top(y)
    <3> HIDE DEF Top
    <3> QED
      BY <2>3
  <2>5. y = s
    <3> HIDE DEF y
    <3> QED
      BY <2>1, <2>2, <2>4
  <2> QED
    BY <1>2, <2>1, <2>5
<1> QED
  BY <1>1, <1>2

----------------------------------------------------------------------------
(* The actions keep the invariant.                                         *)

LEMMA Spends ==
    ASSUME ScopeOK, Types,
           NEW what \in {"creates", "looks", "removals", "closes", "starts", "restarts"},
           Spend(what)
    PROVE  /\ ScopeOK'
           /\ what # "creates" => scope'["creates"] = scope["creates"]
           /\ what = "creates" => /\ scope["creates"] > 0
                                  /\ scope'["creates"] = scope["creates"] - 1
<1>1. /\ scope[what] > 0 /\ scope[what] \in Nat /\ what \in DOMAIN scope
      /\ scope' = [scope EXCEPT ![what] = scope[what] - 1]
  BY DEF Spend, ScopeOK
<1>2. DOMAIN scope' = DOMAIN scope
  BY <1>1
<1>3. scope'[what] = scope[what] - 1 /\ scope'[what] \in Nat
  BY <1>1
<1>4. \A x \in DOMAIN scope : x # what => scope'[x] = scope[x]
  BY <1>1
<1>5. ScopeOK'
  BY <1>1, <1>2, <1>3, <1>4 DEF ScopeOK
<1> QED
  BY <1>1, <1>3, <1>4, <1>5 DEF ScopeOK

LEMMA InvFrom ==
    ASSUME BooksOK(books)', History(books, undoStack)', IsSeq(redoStack)',
           \A i \in DOMAIN redoStack' : CmdOK(redoStack'[i]), CopyOK', ScopeOK',
           torn' \subseteq EnteredId, OneAccount(Notes)', Older(Notes, scope["creates"])'
    PROVE  Inv'
<1>1. StacksOK'
  BY DEF StacksOK, History, StackOK
<1> QED
  BY <1>1 DEF Inv, Types

LEMMA Runs ==
    ASSUME Inv, NEW c, CmdOK(c), Run(c), CopyOK', ScopeOK', torn' \subseteq EnteredId,
           OneAccount(Notes \cup CmdNotes(c) \cup CopyNotes(copy')),
           Older(Notes \cup CmdNotes(c) \cup CopyNotes(copy'), scope'["creates"])
    PROVE  Inv'
<1>1. PICK out \in Executed(books, c) :
         books' = out.books /\ undoStack' = Append(undoStack, Entry(out))
  BY DEF Run
<1>2. redoStack' = <<>>
  BY DEF Run
<1> DEFINE q == copy'
           p == scope'["creates"]
           v == undoStack'
           r == redoStack'
<1>3. /\ StacksOK /\ CopyOK /\ History(books, undoStack)
      /\ Range(r) \subseteq Range(redoStack) /\ (q = None \/ q.id \in EnteredId)
      /\ OneAccount(Notes \cup CmdNotes(c) \cup CopyNotes(q))
      /\ Older(Notes \cup CmdNotes(c) \cup CopyNotes(q), p)
      /\ v = Append(undoStack, Entry(out))
  BY <1>1, <1>2, Emptied DEF Inv, Types, CopyOK
<1> HIDE DEF q, p, v, r
<1>4. /\ History(out.books, v)
      /\ OneAccount(Held(out.books) \cup Noted(v, r, q))
      /\ Older(Held(out.books) \cup Noted(v, r, q), p)
  BY <1>3, Executes
<1>5. History(books, undoStack)' /\ OneAccount(Notes)' /\ Older(Notes, scope["creates"])'
  BY <1>1, <1>4 DEF Notes, q, p, v, r
<1>6. BooksOK(books)'
  BY <1>5 DEF History
<1>7. IsSeq(redoStack)' /\ \A i \in DOMAIN redoStack' : CmdOK(redoStack'[i])
  BY <1>2, Emptied
<1> QED
  BY <1>5, <1>6, <1>7, InvFrom

(* What a user may enter.                                                  *)
LEMMA FormIs ==
    ASSUME NEW a \in Bank, NEW f \in Allowed(a)
    PROVE  f.n \in Int /\ f.lines \in Lines
<1> DEFINE L == [to : Account \cup {None}, n : Int, cat : 0..1, tid : {0}]
<1>1. f.n \in Int /\ f.lines \in Seq(L)
  BY BooksAssumption DEF Allowed
<1>2. L \subseteq Line
  BY DEF Line
<1> HIDE DEF L
<1>3. f.lines \in Seq(Line)
  BY <1>1, <1>2
<1> QED
  BY <1>1, <1>3 DEF Lines

LEMMA RowCommand ==
    ASSUME NEW verb \in RowVerb, NEW id \in EnteredId, NEW row,
           IF verb \in HasRow THEN row \in OwnRow /\ row.status # "reconciled" ELSE row = NoRow
    PROVE  /\ CmdOK(Command(verb, id, row))
           /\ verb \in HasRow => CmdNotes(Command(verb, id, row)) = {<<id, row.acct>>}
           /\ verb \notin HasRow => CmdNotes(Command(verb, id, row)) = {}
<1> DEFINE c == Command(verb, id, row)
<1>1. /\ c.verb = verb /\ c.id = id /\ c.row = row /\ c.acct = None /\ c.ids = {}
      /\ c = [verb |-> c.verb, id |-> c.id, row |-> c.row, acct |-> c.acct, ids |-> c.ids]
  BY DEF Command
<1> HIDE DEF c
<1>2. verb # "finish" /\ verb \notin {"close", "reopen"} /\ verb \in Verb /\ IsFiniteSet({})
  BY FS_EmptySet DEF RowVerb, Verb
<1>3. CmdOK(c)
  BY <1>1, <1>2 DEF CmdOK
<1>4. CmdNotes(c) = IF verb \in HasRow THEN {<<id, row.acct>>} ELSE {}
  BY <1>1 DEF CmdNotes
<1> QED
  BY <1>3, <1>4 DEF c

LEMMA AccountCommandIs ==
    ASSUME NEW verb \in {"close", "reopen"}, NEW a \in Account
    PROVE  CmdOK(AccountCommand(verb, a)) /\ CmdNotes(AccountCommand(verb, a)) = {}
<1> DEFINE c == AccountCommand(verb, a)
<1>1. /\ c.verb = verb /\ c.row = NoRow /\ c.acct = a /\ c.ids = {}
      /\ c = [verb |-> c.verb, id |-> c.id, row |-> c.row, acct |-> c.acct, ids |-> c.ids]
  BY DEF AccountCommand, Command
<1> HIDE DEF c
<1>2. verb # "finish" /\ verb \notin RowVerb /\ verb \in Verb /\ IsFiniteSet({})
        /\ verb \notin HasRow
  BY FS_EmptySet DEF RowVerb, Verb, HasRow
<1>3. CmdOK(c)
  BY <1>1, <1>2 DEF CmdOK
<1>4. CmdNotes(c) = {}
  BY <1>1, <1>2 DEF CmdNotes
<1> QED
  BY <1>3, <1>4 DEF c

LEMMA FinishCommandIs ==
    ASSUME NEW b, BooksOK(b), NEW a \in Bank, NEW ids \in SUBSET RowsOf(b, a)
    PROVE  CmdOK(FinishCommand(a, ids)) /\ CmdNotes(FinishCommand(a, ids)) \subseteq Held(b)
<1> DEFINE c == FinishCommand(a, ids)
<1>1. /\ c.verb = "finish" /\ c.row = NoRow /\ c.acct = a /\ c.ids = ids
      /\ c = [verb |-> c.verb, id |-> c.id, row |-> c.row, acct |-> c.acct, ids |-> c.ids]
  <2> DEFINE e == AccountCommand("finish", a)
  <2>1. e = [verb |-> "finish", id |-> None, row |-> NoRow, acct |-> a, ids |-> {}]
    BY DEF AccountCommand, Command
  <2>2. c = [e EXCEPT !.ids = ids]
    BY DEF FinishCommand
  <2> HIDE DEF e
  <2>3. c = [verb |-> "finish", id |-> None, row |-> NoRow, acct |-> a, ids |-> ids]
    BY <2>1, <2>2
  <2> HIDE DEF c
  <2> QED
    BY <2>3
<1> HIDE DEF c
<1>2. ids \subseteq DOMAIN b.rows /\ \A id \in ids : b.rows[id].acct = a
  BY DEF RowsOf
<1>3. IsFiniteSet(ids) /\ ids \subseteq Id
  <2> DEFINE D == DOMAIN b.rows
  <2>1. IsFiniteSet(D) /\ D \subseteq Id /\ ids \subseteq D
    BY <1>2 DEF BooksOK, RowsOK
  <2> HIDE DEF D
  <2> QED
    BY <2>1, FS_Subset
<1>4. CmdOK(c)
  BY <1>1, <1>3 DEF CmdOK, Verb, RowVerb, HasRow
<1>5. CmdNotes(c) \subseteq Held(b)
  BY <1>1, <1>2 DEF CmdNotes, Held, HasRow
<1> QED
  BY <1>4, <1>5 DEF c

LEMMA NotesNat ==
    ASSUME Types
    PROVE  \A x \in Notes : IsEntered(x[1]) => x[1][2] \in Nat
<1> SUFFICES ASSUME NEW x \in Notes, IsEntered(x[1]) PROVE x[1] \in Id
  BY DEF Id
<1>1. EnteredId \subseteq Id
  BY DEF EnteredId, Id
<1>2. ASSUME NEW c, CmdOK(c), NEW k, x \in CmdNotes(c) \/ x \in BackNotes(c, k)
      PROVE  x[1] \in Id
  <2>1. c.verb \in HasRow \cup TakesRow => c.id \in EnteredId
    BY <1>2 DEF CmdOK, HasRow, TakesRow, RowVerb
  <2>2. \A id \in c.ids : id \in Id
    BY <1>2 DEF CmdOK
  <2> QED
    BY <1>1, <1>2, <2>1, <2>2 DEF CmdNotes, BackNotes
<1>3. CASE x \in Held(books)
  BY <1>3 DEF Held, Types, BooksOK, RowsOK
<1>4. CASE x \in CopyNotes(copy)
  BY <1>1, <1>4 DEF CopyNotes, Types, CopyOK
<1>5. CASE \E c \in Range(redoStack) : x \in CmdNotes(c)
  BY <1>2, <1>5 DEF Types, StacksOK, Range
<1>6. CASE \E e \in Range(undoStack) : x \in EntryNotes(e)
  BY <1>2, <1>6 DEF Types, StacksOK, Range, EntryOK, EntryNotes
<1> QED
  BY <1>3, <1>4, <1>5, <1>6 DEF Notes, Noted

LEMMA CreateKeeps ==
    ASSUME Inv, NEW a \in Bank, NEW f \in Allowed(a), Create(a, f)
    PROVE  Inv'
<1> DEFINE p == scope["creates"]
           id == <<0, p>>
           l == f.lines
           n == f.n
           row == [acct |-> a, n |-> n, status |-> "uncleared", cat |-> 0, lines |-> l]
           c == Command("create", id, row)
<1>1. Spend("creates") /\ Run(c) /\ copy' = copy /\ torn' = torn
  BY DEF Create
<1>2. ScopeOK' /\ p > 0 /\ scope'["creates"] = p - 1 /\ p \in Nat
  BY <1>1, Spends DEF Inv, Types, ScopeOK
<1>3. n \in Int /\ l \in Lines
  BY FormIs
<1> HIDE DEF l, n
<1>4. row \in OwnRow /\ row.status # "reconciled" /\ row.acct = a
  BY <1>3 DEF OwnRow, Row, Account, Status
<1> HIDE DEF row
<1>5. id \in EnteredId
  BY <1>2 DEF EnteredId
<1>6. IsEntered(id) /\ id[2] = p
  BY DEF IsEntered
<1> HIDE DEF id
<1>7. CmdOK(c) /\ CmdNotes(c) = {<<id, a>>}
  BY <1>4, <1>5, RowCommand DEF RowVerb, HasRow
<1> HIDE DEF c
<1> DEFINE K == Notes \cup CmdNotes(c) \cup CopyNotes(copy')
<1>8. K = Notes \cup {<<id, a>>}
  BY <1>1, <1>7 DEF Notes, Noted
<1>9. \A x \in Notes : x[1] # id
  BY <1>2, <1>6 DEF Inv, Older
<1>10. OneAccount(K)
  BY <1>8, <1>9 DEF Inv, OneAccount
<1>11. Older(K, scope'["creates"])
  <2> SUFFICES ASSUME NEW x \in K, IsEntered(x[1]) PROVE x[1][2] > p - 1
    BY <1>2 DEF Older
  <2>1. CASE x = <<id, a>>
    BY <1>2, <1>6, <2>1
  <2>2. CASE x \in Notes
    <3>1. x[1][2] > p
      BY <2>2 DEF Inv, Older
    <3>2. x[1][2] \in Nat
      BY <2>2, NotesNat DEF Inv
    <3> QED
      BY <1>2, <3>1, <3>2
  <2> QED
    BY <1>8, <2>1, <2>2
<1>12. CopyOK' /\ torn' \subseteq EnteredId
  BY <1>1 DEF Inv, Types, CopyOK
<1> QED
  BY <1>1, <1>2, <1>7, <1>10, <1>11, <1>12, Runs

LEMMA WriteBackKeeps ==
    ASSUME Inv, copy # None, NEW verb \in {"edit", "editSplits"},
           NEW row \in OwnRow, row.acct = copy.row.acct, row.status \in {"uncleared", "cleared"},
           Run(Command(verb, copy.id, row)), copy' = None, scope' = scope,
           torn' \subseteq torn \cup {copy.id}
    PROVE  Inv'
<1> DEFINE id == copy.id
           c == Command(verb, id, row)
           K == Notes \cup CmdNotes(c) \cup CopyNotes(copy')
<1>1. id \in EnteredId
  BY DEF Inv, Types, CopyOK
<1>2. CmdOK(c) /\ CmdNotes(c) = {<<id, row.acct>>}
  <2> HIDE DEF id
  <2>1. row.status # "reconciled" /\ verb \in RowVerb /\ verb \in HasRow
    BY DEF RowVerb, HasRow
  <2> QED
    BY <1>1, <2>1, RowCommand
<1>3. CmdNotes(c) \subseteq Notes /\ CopyNotes(copy') = {}
  BY <1>2 DEF CopyNotes, Notes, Noted
<1> HIDE DEF c
<1>4. K = Notes
  BY <1>3
<1>5. OneAccount(K) /\ Older(K, scope'["creates"])
  BY <1>4 DEF Inv
<1>6. CopyOK' /\ ScopeOK' /\ torn' \subseteq EnteredId
  BY <1>1 DEF Inv, Types, CopyOK, ScopeOK
<1> QED
  BY <1>2, <1>5, <1>6, Runs DEF c

LEMMA CopyIs ==
    ASSUME Inv, copy # None
    PROVE  /\ copy.row \in OwnRow /\ copy.row.acct \in Bank
           /\ copy.row.status \in {"uncleared", "cleared"}
BY DEF Inv, Types, CopyOK, OwnRow

LEMMA ToggleKeeps ==
    ASSUME Inv, NEW status \in {"uncleared", "cleared"}, Toggle(status)
    PROVE  Inv'
<1> DEFINE old == copy.row
           row == [old EXCEPT !.status = status]
<1>1. copy # None /\ WriteBack(row)
  BY DEF Toggle
<1>2. old \in OwnRow
  BY <1>1, CopyIs
<1> HIDE DEF old
<1>3. row \in OwnRow /\ row.acct = old.acct /\ row.status \in {"uncleared", "cleared"}
  BY <1>2 DEF OwnRow, Row, Status
<1> HIDE DEF row
<1>4. /\ Run(Command("edit", copy.id, row)) /\ copy' = None /\ scope' = scope
      /\ torn' \subseteq torn \cup {copy.id}
  BY <1>1 DEF WriteBack
<1> QED
  BY <1>1, <1>3, <1>4, WriteBackKeeps DEF old

LEMMA EditPlainKeeps ==
    ASSUME Inv, copy # None, NEW f \in Allowed(copy.row.acct), EditPlain(f)
    PROVE  Inv'
<1> DEFINE old == copy.row
           n == f.n
           row == [old EXCEPT !.n = n]
<1>1. WriteBack(row)
  BY DEF EditPlain
<1>2. old \in OwnRow /\ old.status \in {"uncleared", "cleared"} /\ n \in Int
  BY CopyIs, FormIs
<1> HIDE DEF old, n
<1>3. row \in OwnRow /\ row.acct = old.acct /\ row.status \in {"uncleared", "cleared"}
  BY <1>2 DEF OwnRow, Row
<1> HIDE DEF row
<1>4. /\ Run(Command("edit", copy.id, row)) /\ copy' = None /\ scope' = scope
      /\ torn' \subseteq torn \cup {copy.id}
  BY <1>1 DEF WriteBack
<1> QED
  BY <1>3, <1>4, WriteBackKeeps DEF old

LEMMA EditSplitsKeeps ==
    ASSUME Inv, copy # None, NEW f \in Allowed(copy.row.acct), EditSplits(f)
    PROVE  Inv'
<1> DEFINE old == copy.row
           n == f.n
           l == f.lines
           row == [old EXCEPT !.n = n, !.lines = l]
<1>1. /\ Run(Command("editSplits", copy.id, row))
      /\ copy' = None /\ scope' = scope /\ torn' = torn
  BY DEF EditSplits
<1>2. old \in OwnRow /\ old.status \in {"uncleared", "cleared"} /\ n \in Int /\ l \in Lines
  BY CopyIs, FormIs
<1> HIDE DEF old, n, l
<1>3. row \in OwnRow /\ row.acct = old.acct /\ row.status \in {"uncleared", "cleared"}
  BY <1>2 DEF OwnRow, Row
<1> HIDE DEF row
<1> QED
  BY <1>1, <1>3, WriteBackKeeps DEF old

LEMMA PlainRun ==
    ASSUME Inv, NEW c, CmdOK(c), CmdNotes(c) \subseteq Notes, Run(c), copy' = copy, torn' = torn,
           ScopeOK', scope'["creates"] = scope["creates"]
    PROVE  Inv'
<1> DEFINE K == Notes \cup CmdNotes(c) \cup CopyNotes(copy')
<1>1. K = Notes
  BY DEF Notes, Noted
<1>2. OneAccount(K) /\ Older(K, scope'["creates"])
  BY <1>1 DEF Inv
<1>3. CopyOK' /\ torn' \subseteq EnteredId
  BY DEF Inv, Types, CopyOK
<1> QED
  BY <1>2, <1>3, Runs

LEMMA RemovalKeeps ==
    ASSUME Inv, NEW id \in Entered(books), Delete(id) \/ Void(id)
    PROVE  Inv'
<1>1. id \in EnteredId
  BY EnteredOwn DEF Entered, Inv, Types
<1>2. PICK verb \in {"delete", "void"} :
         Spend("removals") /\ Run(Command(verb, id, NoRow)) /\ copy' = copy /\ torn' = torn
  BY DEF Delete, Void
<1> DEFINE c == Command(verb, id, NoRow)
<1>3. CmdOK(c) /\ CmdNotes(c) = {}
  <2> verb \in RowVerb /\ verb \notin HasRow
    BY <1>2 DEF RowVerb, HasRow
  <2> QED
    BY <1>1, RowCommand
<1>4. ScopeOK' /\ scope'["creates"] = scope["creates"]
  BY <1>2, Spends DEF Inv, Types
<1> HIDE DEF c
<1> QED
  BY <1>2, <1>3, <1>4, PlainRun DEF c

LEMMA OpeningKeeps ==
    ASSUME Inv, NEW a \in Account, Close(a) \/ Reopen(a)
    PROVE  Inv'
<1>1. PICK verb \in {"close", "reopen"} :
         Spend("closes") /\ Run(AccountCommand(verb, a)) /\ copy' = copy /\ torn' = torn
  BY DEF Close, Reopen
<1> DEFINE c == AccountCommand(verb, a)
<1>2. CmdOK(c) /\ CmdNotes(c) = {}
  BY <1>1, AccountCommandIs
<1>3. ScopeOK' /\ scope'["creates"] = scope["creates"]
  BY <1>1, Spends DEF Inv, Types
<1> HIDE DEF c
<1> QED
  BY <1>1, <1>2, <1>3, PlainRun DEF c

LEMMA FinishKeeps ==
    ASSUME Inv, NEW a \in Bank, NEW ids \in SUBSET RowsOf(books, a), FinishReconciliation(a, ids)
    PROVE  Inv'
<1> DEFINE c == FinishCommand(a, ids)
<1>1. Run(c) /\ copy' = copy /\ torn' = torn /\ scope' = scope
  BY DEF FinishReconciliation
<1>2. BooksOK(books)
  BY DEF Inv, Types
<1>3. CmdOK(c) /\ CmdNotes(c) \subseteq Held(books)
  BY <1>2, FinishCommandIs
<1>4. CmdNotes(c) \subseteq Notes
  BY <1>3 DEF Notes
<1>5. ScopeOK' /\ scope'["creates"] = scope["creates"]
  BY <1>1 DEF Inv, Types, ScopeOK
<1> HIDE DEF c
<1> QED
  BY <1>1, <1>3, <1>4, <1>5, PlainRun

LEMMA LookKeeps ==
    ASSUME Inv, NEW id \in Entered(books), Look(id)
    PROVE  Inv'
<1> DEFINE row == books.rows[id]
<1>1. id \in EnteredId /\ row \in OwnRow /\ id \in DOMAIN books.rows
  BY EnteredOwn DEF Entered, Inv, Types
<1>2. /\ row.status \in {"uncleared", "cleared"} /\ Spend("looks")
      /\ copy' = [id |-> id, row |-> row]
      /\ books' = books /\ undoStack' = undoStack /\ redoStack' = redoStack /\ torn' = torn
  BY DEF Look
<1>3. ScopeOK' /\ scope'["creates"] = scope["creates"]
  BY <1>2, Spends DEF Inv, Types
<1>4. <<id, row.acct>> \in Held(books)
  BY <1>1 DEF Held
<1> HIDE DEF row
<1>5. CopyOK'
  BY <1>1, <1>2 DEF CopyOK
<1>6. CopyNotes(copy)' \subseteq Held(books)
  BY <1>2, <1>4 DEF CopyNotes
<1>7. Notes' \subseteq Notes
  BY <1>2, <1>6 DEF Notes, Noted
<1>8. OneAccount(Notes)' /\ Older(Notes, scope["creates"])'
  BY <1>3, <1>7 DEF Inv, OneAccount, Older
<1>9. History(books, undoStack)' /\ BooksOK(books)' /\ IsSeq(redoStack)'
        /\ torn' \subseteq EnteredId
      /\ \A i \in DOMAIN redoStack' : CmdOK(redoStack'[i])
  BY <1>2 DEF Inv, Types, StacksOK
<1> QED
  BY <1>3, <1>5, <1>8, <1>9, InvFrom

LEMMA SessionKeeps ==
    ASSUME Inv, BooksOK(books'), Spares(books, books'), Held(books') = Held(books),
           undoStack' = undoStack, redoStack' = redoStack, copy' = copy, torn' = torn,
           ScopeOK', scope'["creates"] = scope["creates"]
    PROVE  Inv'
<1> DEFINE d == books'
<1>1. History(books, undoStack) /\ BooksOK(d) /\ Spares(books, d)
  BY DEF Inv
<1> HIDE DEF d
<1>2. History(d, undoStack)
  BY <1>1, HistorySpared
<1>3. History(books, undoStack)'
  BY <1>2 DEF d
<1>4. Notes' = Notes
  BY DEF Notes
<1>5. OneAccount(Notes)' /\ Older(Notes, scope["creates"])'
  BY <1>4 DEF Inv
<1>6. BooksOK(books)' /\ IsSeq(redoStack)' /\ torn' \subseteq EnteredId /\ CopyOK'
      /\ \A i \in DOMAIN redoStack' : CmdOK(redoStack'[i])
  BY DEF Inv, Types, StacksOK, CopyOK
<1> QED
  BY <1>3, <1>5, <1>6, InvFrom

LEMMA StartKeeps ==
    ASSUME Inv, NEW a \in Bank, NEW balance \in Statement[a], StartReconciliation(a, balance)
    PROVE  Inv'
<1>1. /\ Spend("starts")
      /\ undoStack' = undoStack /\ redoStack' = redoStack /\ copy' = copy /\ torn' = torn
  BY DEF StartReconciliation
<1>2. PICK gone \in IF InProgress(books, a) = {} THEN {{}} ELSE {{s} : s \in InProgress(books, a)} :
         books' = [books EXCEPT !.sessions =
                     Put(Drop(books.sessions, gone), NextSession(books),
                         [acct |-> a, balance |-> balance, at |-> 0])]
  BY DEF StartReconciliation
<1>3. gone \subseteq InProgress(books, a) /\ balance \in Int /\ BooksOK(books)
  BY <1>2, BooksAssumption DEF Inv, Types
<1> DEFINE d == books'
<1>4. BooksOK(d) /\ Spares(books, d) /\ Held(d) = Held(books)
  <2>1. d = [books EXCEPT !.sessions =
                     Put(Drop(books.sessions, gone), NextSession(books),
                         [acct |-> a, balance |-> balance, at |-> 0])]
    BY <1>2
  <2> HIDE DEF d
  <2> QED
    BY <1>3, <2>1, StartedIs
<1>5. ScopeOK' /\ scope'["creates"] = scope["creates"]
  BY <1>1, Spends DEF Inv, Types
<1> QED
  BY <1>1, <1>4, <1>5, SessionKeeps

LEMMA CancelKeeps ==
    ASSUME Inv, NEW a \in Bank, CancelReconciliation(a)
    PROVE  Inv'
<1>1. /\ undoStack' = undoStack /\ redoStack' = redoStack /\ copy' = copy /\ torn' = torn
      /\ scope' = scope
  BY DEF CancelReconciliation
<1>2. PICK s \in InProgress(books, a) :
         books' = [books EXCEPT !.sessions = Drop(books.sessions, {s})]
  BY DEF CancelReconciliation
<1>3. BooksOK(books)
  BY DEF Inv, Types
<1> DEFINE d == books'
<1>4. BooksOK(d) /\ Spares(books, d) /\ Held(d) = Held(books)
  <2>1. d = [books EXCEPT !.sessions = Drop(books.sessions, {s})]
    BY <1>2
  <2> HIDE DEF d
  <2> QED
    BY <1>2, <1>3, <2>1, CancelledIs
<1>5. ScopeOK' /\ scope'["creates"] = scope["creates"]
  BY <1>1 DEF Inv, Types, ScopeOK
<1> QED
  BY <1>1, <1>4, <1>5, SessionKeeps

LEMMA UndoKeeps ==
    ASSUME Inv, Undo
    PROVE  Inv'
<1> DEFINE e == Last(undoStack)
           d == books'
           v == undoStack'
           r == redoStack'
           p == scope["creates"]
<1>1. /\ undoStack # <<>> /\ d \in Undone(books, e.cmd, e.back)
      /\ r = Append(redoStack, e.cmd) /\ v = Front(undoStack)
      /\ copy' = copy /\ torn' = torn /\ scope' = scope
  BY DEF Undo
<1>2. /\ StacksOK /\ CopyOK /\ History(books, undoStack)
      /\ OneAccount(Notes) /\ Older(Notes, p)
  BY DEF Inv, Types
<1>3. CmdOK(e.cmd)
  <2>1. e \in Range(undoStack)
    BY <1>1, <1>2, LastIn DEF StacksOK
  <2> QED
    BY <1>2, <2>1 DEF StacksOK, Range, EntryOK
<1> HIDE DEF e, d, v, r, p
<1>4. /\ History(d, v)
      /\ OneAccount(Held(d) \cup Noted(v, r, copy))
      /\ Older(Held(d) \cup Noted(v, r, copy), p)
  BY <1>1, <1>2, Undoing DEF e
<1>5. History(books, undoStack)' /\ OneAccount(Notes)' /\ Older(Notes, scope["creates"])'
  BY <1>1, <1>4 DEF Notes, d, v, r, p
<1>6. BooksOK(books)'
  BY <1>5 DEF History
<1>7. IsSeq(redoStack)' /\ \A i \in DOMAIN redoStack' : CmdOK(redoStack'[i])
  <2> DEFINE x == e.cmd
  <2>1. IsSeq(redoStack) /\ \A i \in DOMAIN redoStack : CmdOK(redoStack[i])
    BY <1>2 DEF StacksOK
  <2>2. r = Append(redoStack, x) /\ CmdOK(x)
    BY <1>1, <1>3
  <2> HIDE DEF x
  <2>3. IsSeq(r) /\ \A i \in DOMAIN r : CmdOK(r[i])
    BY <2>1, <2>2, Pushed
  <2> QED
    BY <2>3 DEF r
<1>8. CopyOK' /\ ScopeOK' /\ torn' \subseteq EnteredId
  BY <1>1 DEF Inv, Types, CopyOK, ScopeOK
<1> QED
  BY <1>5, <1>6, <1>7, <1>8, InvFrom

LEMMA RedoKeeps ==
    ASSUME Inv, Redo
    PROVE  Inv'
<1> DEFINE c == Last(redoStack)
           v == undoStack'
           r == redoStack'
           p == scope["creates"]
<1>1. /\ redoStack # <<>> /\ r = Front(redoStack)
      /\ copy' = copy /\ torn' = torn /\ scope' = scope
  BY DEF Redo
<1>2. PICK out \in Executed(books, c) : books' = out.books /\ v = Append(undoStack, Entry(out))
  BY DEF Redo
<1>3. /\ StacksOK /\ CopyOK /\ History(books, undoStack) /\ IsSeq(redoStack)
      /\ OneAccount(Notes) /\ Older(Notes, p)
  BY DEF Inv, Types, StacksOK
<1>4. c \in Range(redoStack) /\ CmdOK(c)
  <2>1. c \in Range(redoStack)
    BY <1>1, <1>3, LastIn
  <2> QED
    BY <1>3, <2>1 DEF StacksOK, Range
<1>5. Range(r) \subseteq Range(redoStack) /\ IsSeq(r)
  BY <1>1, <1>3, Popped
<1>6. Notes \cup CmdNotes(c) \cup CopyNotes(copy) = Notes
  BY <1>4 DEF Notes, Noted
<1>7. copy = None \/ copy.id \in EnteredId
  BY <1>3 DEF CopyOK
<1> HIDE DEF c, v, r, p
<1>8. /\ History(out.books, v)
      /\ OneAccount(Held(out.books) \cup Noted(v, r, copy))
      /\ Older(Held(out.books) \cup Noted(v, r, copy), p)
  BY <1>2, <1>3, <1>4, <1>5, <1>6, <1>7, Executes
<1>9. History(books, undoStack)' /\ OneAccount(Notes)' /\ Older(Notes, scope["creates"])'
  BY <1>1, <1>2, <1>8 DEF Notes, v, r, p
<1>10. BooksOK(books)'
  BY <1>9 DEF History
<1>11. IsSeq(redoStack)' /\ \A i \in DOMAIN redoStack' : CmdOK(redoStack'[i])
  <2>1. \A i \in DOMAIN r : r[i] \in Range(redoStack)
    BY <1>5 DEF Range
  <2>2. \A x \in Range(redoStack) : CmdOK(x)
    BY <1>3 DEF StacksOK, Range
  <2> QED
    BY <1>5, <2>1, <2>2 DEF r
<1>12. CopyOK' /\ ScopeOK' /\ torn' \subseteq EnteredId
  BY <1>1 DEF Inv, Types, CopyOK, ScopeOK
<1> QED
  BY <1>9, <1>10, <1>11, <1>12, InvFrom

LEMMA RestartKeeps ==
    ASSUME Inv, Restart
    PROVE  Inv'
<1>1. /\ Spend("restarts") /\ undoStack' = <<>> /\ redoStack' = <<>> /\ copy' = None
      /\ books' = books /\ torn' = torn
  BY DEF Restart
<1>2. ScopeOK' /\ scope'["creates"] = scope["creates"]
  BY <1>1, Spends DEF Inv, Types
<1>3. History(books, undoStack)'
  BY <1>1, HistoryForgotten DEF Inv
<1>4. Notes' \subseteq Notes
  BY <1>1, Emptied DEF Notes, Noted, CopyNotes
<1>5. OneAccount(Notes)' /\ Older(Notes, scope["creates"])'
  BY <1>2, <1>4 DEF Inv, OneAccount, Older
<1>6. BooksOK(books)' /\ torn' \subseteq EnteredId /\ CopyOK'
  BY <1>1 DEF Inv, Types, CopyOK
<1>7. IsSeq(redoStack)' /\ \A i \in DOMAIN redoStack' : CmdOK(redoStack'[i])
  BY <1>1, Emptied
<1> QED
  BY <1>2, <1>3, <1>5, <1>6, <1>7, InvFrom

LEMMA InvInit == Init => Inv
<1> SUFFICES ASSUME Init PROVE Inv
  OBVIOUS
<1> DEFINE b == books
<1>1. /\ b = [rows |-> <<>>, open |-> Account, sessions |-> <<>>]
      /\ b.rows = <<>> /\ b.open = Account /\ b.sessions = <<>>
  BY DEF Init
<1>2. undoStack = <<>> /\ redoStack = <<>> /\ copy = None /\ torn = {} /\ scope \in Scopes
  BY DEF Init
<1> HIDE DEF b
<1>3. DOMAIN <<>> = {} /\ IsFiniteSet({}) /\ <<>> = [x \in DOMAIN <<>> |-> <<>>[x]]
  BY FS_EmptySet
<1>4. RowsOK(b.rows) /\ SessionsOK(b.sessions)
  BY <1>1, <1>3 DEF RowsOK, SessionsOK
<1>5. BooksOK(b)
  BY <1>1, <1>4 DEF BooksOK
<1>6. Types
  BY <1>2, <1>5, Emptied, BooksAssumption DEF Types, StacksOK, CopyOK, ScopeOK, b
<1>7. \A a : Reconciled(b, a) = {} /\ Completed(b, a) = {}
  BY <1>1, <1>3 DEF Reconciled, RowsOf, Completed
<1>8. Agreed(b)
  BY <1>7, SumOfNone DEF Agreed, StandsAt
<1>9. History(b, <<>>)
  BY <1>1, <1>3, <1>5, <1>8, Emptied
     DEF History, StackOK, Distinct, Done, InOrder, StillCaught, AgreedBefore
<1>10. Notes = {}
  BY <1>1, <1>2, <1>3, Emptied DEF Notes, Held, Noted, CopyNotes, b
<1> QED
  BY <1>2, <1>6, <1>9, <1>10 DEF Inv, OneAccount, Older, b

LEMMA InvNext == Inv /\ [Next]_vars => Inv'
<1> SUFFICES ASSUME Inv, [Next]_vars PROVE Inv'
  OBVIOUS
<1>1. ASSUME NEW a \in Bank, NEW f \in Allowed(a), Create(a, f) PROVE Inv'
  BY <1>1, CreateKeeps
<1>2. ASSUME NEW id \in Entered(books), Look(id) PROVE Inv'
  BY <1>2, LookKeeps
<1>3. ASSUME NEW status \in {"uncleared", "cleared"}, Toggle(status) PROVE Inv'
  BY <1>3, ToggleKeeps
<1>4. ASSUME copy # None, NEW f \in Allowed(copy.row.acct), EditPlain(f) PROVE Inv'
  BY <1>4, EditPlainKeeps
<1>5. ASSUME copy # None, NEW f \in Allowed(copy.row.acct), EditSplits(f) PROVE Inv'
  BY <1>5, EditSplitsKeeps
<1>6. ASSUME NEW id \in Entered(books), Delete(id) \/ Void(id) PROVE Inv'
  BY <1>6, RemovalKeeps
<1>7. ASSUME NEW a \in Account, Close(a) \/ Reopen(a) PROVE Inv'
  BY <1>7, OpeningKeeps
<1>8. ASSUME NEW a \in Bank, NEW balance \in Statement[a], StartReconciliation(a, balance)
      PROVE  Inv'
  BY <1>8, StartKeeps
<1>9. ASSUME NEW a \in Bank, CancelReconciliation(a) PROVE Inv'
  BY <1>9, CancelKeeps
<1>10. ASSUME NEW a \in Bank, NEW ids \in SUBSET RowsOf(books, a), FinishReconciliation(a, ids)
       PROVE  Inv'
  BY <1>10, FinishKeeps
<1>11. CASE Undo
  BY <1>11, UndoKeeps
<1>12. CASE Redo
  BY <1>12, RedoKeeps
<1>13. CASE Restart
  BY <1>13, RestartKeeps
<1>14. CASE UNCHANGED vars
  <2>1. Types'
    BY <1>14 DEF Inv, vars, Types, StacksOK, CopyOK, ScopeOK
  <2>2. History(books, undoStack)' /\ OneAccount(Notes)' /\ Older(Notes, scope["creates"])'
    BY <1>14 DEF Inv, vars, Notes
  <2> QED
    BY <2>1, <2>2 DEF Inv
<1> QED
  BY <1>1, <1>2, <1>3, <1>4, <1>5, <1>6, <1>7, <1>8, <1>9, <1>10, <1>11, <1>12, <1>13, <1>14
     DEF Next

LEMMA Invariance == Spec => []Inv
BY InvInit, InvNext, PTL DEF Spec

LEMMA TypesFit == Types => TypeOK
<1> SUFFICES ASSUME Types PROVE TypeOK
  OBVIOUS
<1>1. ASSUME NEW id \in DOMAIN books.rows
      PROVE  LET row == books.rows[id] IN
             /\ id \in Nat \X (Nat \ {0})
             /\ row.acct \in Account /\ row.n \in Int
             /\ row.status \in Status /\ row.cat \in 0..1
             /\ \A i \in DOMAIN row.lines : row.lines[i] \in Line
  <2> DEFINE row == books.rows[id]
             lines == row.lines
  <2>1. row \in Row /\ id \in Id
    BY DEF Types, BooksOK, RowsOK
  <2>2. lines \in Lines
    BY <2>1 DEF Row
  <2> HIDE DEF lines
  <2>3. \A i \in DOMAIN lines : lines[i] \in Line
    BY <2>2, LinesAre
  <2> QED
    BY <2>1, <2>3 DEF Row, Id, lines
<1>2. copy = None \/ (copy.id[1] = 0 /\ copy.row.acct \in Bank)
  BY DEF Types, CopyOK, EnteredId, OwnRow
<1>3. torn \subseteq {0} \X Nat
  BY DEF Types, EnteredId
<1>4. /\ books.open \subseteq Account
      /\ \A s \in DOMAIN books.sessions :
            books.sessions[s] \in [acct : Bank, balance : Int, at : Nat]
  BY DEF Types, BooksOK, SessionsOK
<1> QED
  BY <1>1, <1>2, <1>3, <1>4 DEF TypeOK

(* Rows, lines, sessions, the copy and the torn rows always have the types *)
(* that the tables and structs give them, whatever is entered, undone or   *)
(* redone (TypeOK of SplitBooks).                                          *)
THEOREM TypeCorrect == Spec => []TypeOK
<1>1. Inv => TypeOK
  BY TypesFit DEF Inv
<1> QED
  BY <1>1, Invariance, PTL

(* The reconciled rows of every account add up to the statement of the     *)
(* last reconciliation that stands, whatever is edited, deleted, voided,   *)
(* undone or redone since, in any order (reconciliation_service.go:237):   *)
(* StatementAgrees of SplitBooks.                                          *)
THEOREM StatementsHold == Spec => []StatementAgrees
<1>1. Inv => StatementAgrees
  <2> SUFFICES ASSUME Inv, NEW a \in Bank
               PROVE  SumOf(books, Reconciled(books, a)) =
                        IF Completed(books, a) = {} THEN 0
                        ELSE books.sessions[CHOOSE s \in Completed(books, a) :
                               \A t \in Completed(books, a) :
                                 books.sessions[t].at <= books.sessions[s].at].balance
    BY DEF StatementAgrees
  <2> DEFINE R == Reconciled(books, a)
             S == Completed(books, a)
  <2>1. StandsAt(books, R, S) /\ BooksOK(books)
    BY DEF Inv, Types, History, Agreed
  <2>2. S \subseteq DOMAIN books.sessions
    BY DEF Completed
  <2> HIDE DEF R, S
  <2>3. SumOf(books, R) =
          IF S = {} THEN 0
          ELSE books.sessions[CHOOSE s \in S :
                 \A t \in S : books.sessions[t].at <= books.sessions[s].at].balance
    BY <2>1, <2>2, StandsAgrees
  <2> QED
    BY <2>3 DEF R, S
<1> QED
  BY <1>1, Invariance, PTL

----------------------------------------------------------------------------
(* Lines and their parents.  What the amounts of a row and of its lines    *)
(* were before each command to undo, and will be after each one to redo:   *)
(* all of these fit, unless a screen wrote the row back stale.             *)

At(V, id) == {<<x[2].n, Amounts(x[2].lines)>> : x \in {y \in V.rows : y[1] = id}}

(* A command turns the amounts x of row id to y.                           *)
Turns(c, id, x, y) ==
    IF c.verb \in RowVerb /\ c.id = id
    THEN /\ c.verb \in {"create", "editSplits"} => y = {<<c.row.n, Amounts(c.row.lines)>>}
         /\ c.verb = "edit" => y = {<<c.row.n, p[2]>> : p \in x}
         /\ c.verb = "delete" => y = {}
         /\ c.verb = "void" => y = {<<0, Amounts(<<>>)>>}
    ELSE y = x

(* What it captured says what they were.                                   *)
Recalls(c, k, x) ==
    /\ c.verb = "create" => x = {}
    /\ c.verb \in TakesRow => x = {<<k.row.n, Amounts(k.row.lines)>>}

FitAt(T, id, x) == id \in T \/ \A p \in x : p[2] = <<>> \/ SumFunction(p[2]) = p[1]

Fitting(T, V) == \A id \in EnteredId : FitAt(T, id, At(V, id))

Later(u, V, i) == IF i = Len(u) THEN V ELSE u[i + 1].was

Chain(u, V) ==
    \A i \in DOMAIN u :
       LET e == u[i] IN
       /\ e.cmd.verb \in RowVerb => Recalls(e.cmd, e.back, At(e.was, e.cmd.id))
       /\ \A id \in EnteredId : Turns(e.cmd, id, At(e.was, id), At(Later(u, V, i), id))

Future(r, V, T) ==
    \E w :
      /\ \A id \in EnteredId : w[Len(r)][id] = At(V, id)
      /\ \A i \in 0..Len(r) : \A id \in EnteredId : FitAt(T, id, w[i][id])
      /\ \A i \in DOMAIN r : \A id \in EnteredId : Turns(r[i], id, w[i][id], w[i - 1][id])

Fits ==
    /\ Fitting(torn, View(books))
    /\ \A i \in DOMAIN undoStack : Fitting(torn, undoStack[i].was)
    /\ Chain(undoStack, View(books)) /\ Future(redoStack, View(books), torn)

LEMMA AmountsNone ==
    ASSUME NEW l \in Lines
    PROVE  Amounts(l) = <<>> <=> l = <<>>
<1>1. DOMAIN Amounts(l) = DOMAIN l
  BY DEF Amounts
<1>2. l = <<>> => Amounts(l) = <<>>
  BY DEF Amounts
<1>3. DOMAIN l = {} => l = <<>>
  BY DEF Lines
<1>4. DOMAIN <<>> = {}
  OBVIOUS
<1> QED
  BY <1>1, <1>2, <1>3, <1>4

LEMMA AtIs ==
    ASSUME NEW b, BooksOK(b), NEW id \in EnteredId
    PROVE  /\ id \in DOMAIN b.rows =>
                At(View(b), id) = {<<b.rows[id].n, Amounts(b.rows[id].lines)>>}
           /\ id \notin DOMAIN b.rows => At(View(b), id) = {}
<1> DEFINE V == View(b).rows
           Y == {y \in V : y[1] = id}
<1>1. V = {<<IF IsEntered(i) THEN i ELSE <<i[1], 0>>, b.rows[i]>> : i \in DOMAIN b.rows}
  BY DEF View
<1>2. \A i \in DOMAIN b.rows : ~IsEntered(i) => <<i[1], 0>> # id
  BY DEF EnteredId, IsEntered
<1>3. \A y \in Y : id \in DOMAIN b.rows /\ y = <<id, b.rows[id]>>
  <2> TAKE y \in Y
  <2>1. PICK i \in DOMAIN b.rows : y = <<IF IsEntered(i) THEN i ELSE <<i[1], 0>>, b.rows[i]>>
    BY <1>1
  <2>2. y[1] = id
    OBVIOUS
  <2> QED
    BY <1>2, <2>1, <2>2
<1>4. id \in DOMAIN b.rows => <<id, b.rows[id]>> \in Y
  BY <1>1, EnteredIs
<1>5. At(View(b), id) = {<<x[2].n, Amounts(x[2].lines)>> : x \in Y}
  BY DEF At
<1> HIDE DEF Y
<1>6. CASE id \in DOMAIN b.rows
  <2>1. Y = {<<id, b.rows[id]>>}
    BY <1>3, <1>4, <1>6
  <2> QED
    BY <1>5, <1>6, <2>1
<1>7. CASE id \notin DOMAIN b.rows
  <2>1. Y = {}
    BY <1>3, <1>7
  <2> QED
    BY <1>5, <1>7, <2>1
<1> QED
  BY <1>6, <1>7

LEMMA AtSame ==
    ASSUME NEW b, BooksOK(b), NEW d, BooksOK(d), NEW id \in EnteredId,
           id \in DOMAIN b.rows <=> id \in DOMAIN d.rows,
           id \in DOMAIN b.rows => /\ d.rows[id].n = b.rows[id].n
                                  /\ d.rows[id].lines = b.rows[id].lines
    PROVE  At(View(d), id) = At(View(b), id)
BY AtIs

LEMMA BecomesAt ==
    ASSUME NEW b, BooksOK(b), NEW id \in EnteredId, NEW row \in OwnRow, Becomes(b, id, row)
    PROVE  At(View(b), id) = {<<row.n, Amounts(row.lines)>>}
<1>1. b.rows[id].n = row.n /\ Amounts(b.rows[id].lines) = Amounts(row.lines) /\ id \in DOMAIN b.rows
  BY BecomesIs DEF Becomes
<1> QED
  BY <1>1, AtIs

LEMMA EditedAt ==
    ASSUME NEW b, BooksOK(b), NEW d, BooksOK(d), NEW id \in EnteredId, NEW row \in OwnRow,
           Edited(b, d, id, row)
    PROVE  At(View(d), id) = {<<row.n, p[2]>> : p \in At(View(b), id)}
<1> DEFINE l == b.rows[id].lines
<1>1. id \in DOMAIN b.rows /\ id \in DOMAIN d.rows /\ d.rows[id] = [row EXCEPT !.lines = l]
        /\ l \in Lines
  BY ThawedIs DEF Edited, OwnRow, Row
<1>2. At(View(b), id) = {<<b.rows[id].n, Amounts(l)>>}
  BY <1>1, AtIs
<1> HIDE DEF l
<1>3. [row EXCEPT !.lines = l].n = row.n /\ [row EXCEPT !.lines = l].lines = l
  <2>1. l \in Lines
    BY <1>1
  <2> QED
    BY <2>1, OwnIs
<1>4. d.rows[id].n = row.n /\ d.rows[id].lines = l
  BY <1>1, <1>3
<1>5. At(View(d), id) = {<<row.n, Amounts(l)>>}
  <2>1. id \in DOMAIN d.rows
    BY <1>1
  <2>2. At(View(d), id) = {<<d.rows[id].n, Amounts(d.rows[id].lines)>>}
    BY <2>1, AtIs
  <2> QED
    BY <1>4, <2>2
<1> QED
  BY <1>2, <1>5

LEMMA ChangesAt ==
    ASSUME NEW b, BooksOK(b), NEW d, NEW i \in EnteredId, Changes(b, d, i),
           NEW id \in EnteredId \ {i}
    PROVE  At(View(d), id) = At(View(b), id)
<1>1. BooksOK(d) /\ (id \in DOMAIN b.rows <=> id \in DOMAIN d.rows)
        /\ (id \in DOMAIN b.rows => d.rows[id] = b.rows[id])
  BY DEF Changes, Writes, OwnSame
<1> QED
  BY <1>1, AtSame

LEMMA DoesTurn ==
    ASSUME NEW b, BooksOK(b), NEW d, NEW c, CmdOK(c), c.verb # "finish", Does(b, d, c),
           NEW id \in EnteredId
    PROVE  Turns(c, id, At(View(b), id), At(View(d), id))
<1> DEFINE row == c.row
           i == c.id
<1>0. BooksOK(d)
  BY DoesKeep
<1>1. CASE c.verb \in RowVerb /\ i = id
  <2>1. c.verb \in {"create", "editSplits"} => At(View(d), id) = {<<row.n, Amounts(row.lines)>>}
    <3> SUFFICES ASSUME c.verb \in {"create", "editSplits"}
                 PROVE  At(View(d), id) = {<<row.n, Amounts(row.lines)>>}
      OBVIOUS
    <3>1. row \in OwnRow /\ Becomes(d, id, row)
      BY <1>1 DEF CmdOK, HasRow, Does, Created, Replaced
    <3> HIDE DEF row, i
    <3> QED
      BY <1>0, <3>1, BecomesAt
  <2>2. c.verb = "edit" => At(View(d), id) = {<<row.n, p[2]>> : p \in At(View(b), id)}
    <3> SUFFICES ASSUME c.verb = "edit"
                 PROVE  At(View(d), id) = {<<row.n, p[2]>> : p \in At(View(b), id)}
      OBVIOUS
    <3>1. row \in OwnRow /\ Edited(b, d, id, row)
      BY <1>1 DEF CmdOK, HasRow, Does
    <3> HIDE DEF row, i
    <3> QED
      BY <1>0, <3>1, EditedAt
  <2>3. c.verb = "delete" => At(View(d), id) = {}
    <3> SUFFICES ASSUME c.verb = "delete" PROVE At(View(d), id) = {}
      OBVIOUS
    <3>1. id \notin DOMAIN d.rows
      BY <1>1 DEF Does, Removed
    <3> QED
      BY <1>0, <3>1, AtIs
  <2>4. c.verb = "void" => At(View(d), id) = {<<0, Amounts(<<>>)>>}
    <3> SUFFICES ASSUME c.verb = "void" PROVE At(View(d), id) = {<<0, Amounts(<<>>)>>}
      OBVIOUS
    <3>1. id \in DOMAIN d.rows /\ d.rows[id].lines = <<>> /\ d.rows[id].n = 0
      BY <1>1 DEF Does, Voided
    <3> QED
      BY <1>0, <3>1, AtIs
  <2> QED
    BY <1>1, <2>1, <2>2, <2>3, <2>4 DEF Turns
<1>2. CASE c.verb \in RowVerb /\ i # id
  <2>1. i \in EnteredId /\ Changes(b, d, i)
    BY <1>2 DEF CmdOK, Does
  <2> HIDE DEF i
  <2>2. At(View(d), id) = At(View(b), id)
    BY <1>2, <2>1, ChangesAt
  <2> QED
    BY <1>2, <2>2 DEF Turns, i
<1>3. CASE c.verb \in {"close", "reopen"}
  <2>1. d.rows = b.rows
    BY <1>3, TurnedIs DEF Does
  <2>2. At(View(d), id) = At(View(b), id)
    BY <1>0, <2>1, AtSame
  <2>3. c.verb \notin RowVerb
    BY <1>3 DEF RowVerb
  <2> QED
    BY <2>2, <2>3 DEF Turns
<1> QED
  BY <1>1, <1>2, <1>3 DEF CmdOK, Verb

LEMMA OneAmount ==
    ASSUME NEW n, NEW m, NEW q
    PROVE  {<<n, p[2]>> : p \in {<<m, q>>}} = {<<n, q>>}
<1>1. <<m, q>>[2] = q
  OBVIOUS
<1> QED
  BY <1>1

LEMMA UndoesTurn ==
    ASSUME NEW b, BooksOK(b), NEW d, NEW c, CmdOK(c), c.verb # "finish", NEW k, BackOK(c, k),
           Undoes(b, d, c, k), NEW id \in EnteredId, NEW x,
           c.verb \in RowVerb /\ c.id = id => Recalls(c, k, x),
           Turns(c, id, x, At(View(b), id))
    PROVE  At(View(d), id) = x
<1> DEFINE row == k.row
           i == c.id
<1>0. BooksOK(d)
  BY DoesKeep
<1>1. CASE c.verb \in RowVerb /\ i = id
  <2>1. CASE c.verb \in {"editSplits", "delete", "void"}
    <3>1. row \in OwnRow /\ Becomes(d, id, row) /\ x = {<<row.n, Amounts(row.lines)>>}
      BY <1>1, <2>1 DEF BackOK, TakesRow, Recalls, Undoes, Created, Replaced, Restored
    <3> HIDE DEF row, i
    <3> QED
      BY <1>0, <3>1, BecomesAt
  <2>2. CASE c.verb = "edit"
    <3>1. row \in OwnRow /\ Edited(b, d, id, row) /\ x = {<<row.n, Amounts(row.lines)>>}
      BY <1>1, <2>2 DEF BackOK, TakesRow, Recalls, Undoes
    <3>2. At(View(b), id) = {<<c.row.n, p[2]>> : p \in x}
      BY <1>1, <2>2 DEF Turns
    <3> HIDE DEF row, i
    <3>3. At(View(d), id) = {<<row.n, p[2]>> : p \in At(View(b), id)}
      BY <1>0, <3>1, EditedAt
    <3> DEFINE m == row.n
               q == Amounts(row.lines)
               n == c.row.n
               y == At(View(b), id)
               z == At(View(d), id)
    <3>4. x = {<<m, q>>} /\ y = {<<n, p[2]>> : p \in x} /\ z = {<<m, p[2]>> : p \in y}
      BY <3>1, <3>2, <3>3
    <3> HIDE DEF m, q, n, y, z
    <3>5. y = {<<n, q>>}
      BY <3>4, OneAmount
    <3>6. z = {<<m, p[2]>> : p \in {<<n, q>>}}
      <4>1. z = {<<m, p[2]>> : p \in y}
        BY <3>4
      <4> QED
        BY <3>5, <4>1
    <3>7. {<<m, p[2]>> : p \in {<<n, q>>}} = {<<m, q>>}
      BY OneAmount
    <3>8. z = {<<m, q>>} /\ x = {<<m, q>>}
      BY <3>4, <3>6, <3>7
    <3> QED
      BY <3>8 DEF z
  <2>3. CASE c.verb = "create"
    <3>1. id \notin DOMAIN d.rows /\ x = {}
      BY <1>1, <2>3 DEF Recalls, Undoes, Removed
    <3> QED
      BY <1>0, <3>1, AtIs
  <2> QED
    BY <1>1, <2>1, <2>2, <2>3 DEF RowVerb
<1>2. CASE c.verb \in RowVerb /\ i # id
  <2>1. i \in EnteredId /\ Changes(b, d, i)
    BY <1>2 DEF CmdOK, Undoes
  <2>2. At(View(b), id) = x
    BY <1>2 DEF Turns
  <2> HIDE DEF i
  <2>3. At(View(d), id) = At(View(b), id)
    BY <1>2, <2>1, ChangesAt
  <2> QED
    BY <2>2, <2>3
<1>3. CASE c.verb \in {"close", "reopen"}
  <2>1. d.rows = b.rows
    BY <1>3, TurnedIs DEF Undoes
  <2>2. At(View(d), id) = At(View(b), id)
    BY <1>0, <2>1, AtSame
  <2>3. c.verb \notin RowVerb
    BY <1>3 DEF RowVerb
  <2> QED
    BY <2>2, <2>3 DEF Turns
<1> QED
  BY <1>1, <1>2, <1>3 DEF CmdOK, Verb

LEMMA RestatedAt ==
    ASSUME NEW b, BooksOK(b), NEW d, NEW F, NEW s, NEW at, Restates(b, d, F, s, at),
           NEW id \in EnteredId
    PROVE  At(View(d), id) = At(View(b), id)
<1>1. BooksOK(d) /\ DOMAIN d.rows = DOMAIN b.rows
      /\ \A x \in DOMAIN b.rows : d.rows[x].n = b.rows[x].n /\ d.rows[x].lines = b.rows[x].lines
  BY DEF Restates
<1> QED
  BY <1>1, AtSame


(* One turn, and what fits after it.                                       *)
LEMMA TurnsOne ==
    ASSUME NEW c, NEW id, NEW x, NEW y, NEW z, Turns(c, id, x, y), Turns(c, id, x, z)
    PROVE  y = z
BY DEF Turns, RowVerb

LEMMA TidsTurn ==
    ASSUME NEW b, NEW d, BooksOK(d), NEW c, CmdOK(c), c.verb # "finish", Does(b, d, c),
           NEW id, NEW x, NEW y
    PROVE  Turns(WithTids(d, c), id, x, y) <=> Turns(c, id, x, y)
<1> DEFINE o == WithTids(d, c)
<1>1. /\ o.verb = c.verb /\ o.id = c.id
      /\ c.verb \in HasRow => o.row.n = c.row.n /\ Amounts(o.row.lines) = Amounts(c.row.lines)
  BY WithTidsIs
<1>2. c.verb \in {"create", "editSplits"} \/ c.verb = "edit" => c.verb \in HasRow
  BY DEF HasRow
<1> HIDE DEF o
<1>3. Turns(o, id, x, y) <=> Turns(c, id, x, y)
  BY <1>1, <1>2 DEF Turns
<1> QED
  BY <1>3 DEF o

LEMMA FitRow ==
    ASSUME NEW T, NEW id, NEW n, NEW l \in Lines, l # <<>> => Total(l) = n
    PROVE  FitAt(T, id, {<<n, Amounts(l)>>})
<1>1. Amounts(l) = <<>> <=> l = <<>>
  BY AmountsNone
<1>2. Total(l) = SumFunction(Amounts(l))
  BY DEF Total, Amounts
<1> DEFINE q == Amounts(l)
<1>3. q = <<>> \/ SumFunction(q) = n
  BY <1>1, <1>2
<1> HIDE DEF q
<1>4. \A p \in {<<n, q>>} : p[2] = <<>> \/ SumFunction(p[2]) = p[1]
  BY <1>3
<1>5. FitAt(T, id, {<<n, q>>})
  BY <1>4 DEF FitAt
<1> QED
  BY <1>5 DEF q

LEMMA FitMore ==
    ASSUME NEW T, NEW U, T \subseteq U, NEW id, NEW x, FitAt(T, id, x)
    PROVE  FitAt(U, id, x)
BY DEF FitAt

(* What was entered fits, and so does a new amount of a row that is not    *)
(* torn.                                                                   *)
LEMMA TurnFits ==
    ASSUME NEW c, CmdOK(c), NEW T, NEW id, NEW x, NEW y, Turns(c, id, x, y), FitAt(T, id, x),
           c.verb \in {"create", "editSplits"} => c.row.lines = <<>> \/ Fit(c.row),
           c.verb = "edit" /\ c.id = id => FitAt(T, id, {<<c.row.n, p[2]>> : p \in x})
    PROVE  FitAt(T, id, y)
<1>1. CASE ~(c.verb \in RowVerb /\ c.id = id)
  <2>1. y = x
    BY <1>1 DEF Turns
  <2> QED
    BY <2>1
<1>2. CASE c.verb \in RowVerb /\ c.id = id
  <2>1. CASE c.verb \in {"create", "editSplits"}
    <3> DEFINE n == c.row.n
               l == c.row.lines
    <3>1. y = {<<n, Amounts(l)>>}
      BY <1>2, <2>1 DEF Turns
    <3>2. l \in Lines
      BY <2>1 DEF CmdOK, HasRow, OwnRow, Row
    <3>3. l # <<>> => Total(l) = n
      BY <2>1 DEF Fit
    <3> HIDE DEF n, l
    <3>4. FitAt(T, id, {<<n, Amounts(l)>>})
      BY <3>2, <3>3, FitRow
    <3> QED
      BY <3>1, <3>4
  <2>2. CASE c.verb = "edit"
    <3>1. y = {<<c.row.n, p[2]>> : p \in x}
      BY <1>2, <2>2 DEF Turns
    <3> QED
      BY <1>2, <2>2, <3>1
  <2>3. CASE c.verb = "delete"
    BY <1>2, <2>3 DEF Turns, FitAt
  <2>4. CASE c.verb = "void"
    <3>1. y = {<<0, Amounts(<<>>)>>}
      BY <1>2, <2>4 DEF Turns
    <3>2. FitAt(T, id, {<<0, Amounts(<<>>)>>})
      BY NoRowIs, FitRow
    <3> QED
      BY <3>1, <3>2
  <2> QED
    BY <1>2, <2>1, <2>2, <2>3, <2>4 DEF RowVerb
<1> QED
  BY <1>1, <1>2

(* The amounts before a command, and what it captured of them.             *)
LEMMA ExecutedAt ==
    ASSUME StacksOK, NEW b, BooksOK(b), NEW c, CmdOK(c), NEW out \in Executed(b, c)
    PROVE  /\ BooksOK(out.books) /\ out.cmd.verb = c.verb /\ out.cmd.id = c.id
           /\ \A id \in EnteredId :
                 /\ Turns(c, id, At(View(b), id), At(View(out.books), id))
                 /\ Turns(out.cmd, id, At(View(b), id), At(View(out.books), id))
           /\ c.verb \in RowVerb => Recalls(out.cmd, out.back, At(View(b), c.id))
           /\ c.verb \in {"create", "editSplits"} => c.row.lines = <<>> \/ Fit(c.row)
           /\ c.verb \in TakesRow => c.id \in DOMAIN b.rows
<1> DEFINE d == out.books
<1>1. CASE c.verb # "finish"
  <2>1. /\ BooksOK(d) /\ Does(b, d, c) /\ out.cmd = WithTids(d, c)
        /\ out.back.row = RowNow(b, c)
    BY <1>1, ExecutedIs
  <2> HIDE DEF d
  <2>2. out.cmd.verb = c.verb /\ out.cmd.id = c.id
    BY <1>1, <2>1, WithTidsIs
  <2>3. \A id \in EnteredId :
           /\ Turns(c, id, At(View(b), id), At(View(d), id))
           /\ Turns(out.cmd, id, At(View(b), id), At(View(d), id))
    <3> TAKE id \in EnteredId
    <3> DEFINE x == At(View(b), id)
               y == At(View(d), id)
    <3>1. Turns(c, id, x, y)
      BY <1>1, <2>1, DoesTurn
    <3> HIDE DEF x, y
    <3>2. Turns(WithTids(d, c), id, x, y)
      BY <1>1, <2>1, <3>1, TidsTurn
    <3> QED
      BY <2>1, <3>1, <3>2 DEF x, y
  <2>4. c.verb \in RowVerb => c.id \in EnteredId
    BY DEF CmdOK
  <2>5. c.verb \in TakesRow => c.id \in EnteredId /\ c.id \in DOMAIN b.rows
    BY <2>1, <2>4 DEF TakesRow, RowVerb, Does, Edited, Replaced, Removed, Voided, Frozen
  <2>6. c.verb \in TakesRow => Recalls(out.cmd, out.back, At(View(b), c.id))
    <3> SUFFICES ASSUME c.verb \in TakesRow PROVE Recalls(out.cmd, out.back, At(View(b), c.id))
      OBVIOUS
    <3>1. out.back.row = b.rows[c.id]
      BY <2>1, <2>5 DEF RowNow
    <3>2. At(View(b), c.id) = {<<b.rows[c.id].n, Amounts(b.rows[c.id].lines)>>}
      <4> DEFINE i == c.id
      <4> HIDE DEF i
      <4>1. i \in EnteredId /\ i \in DOMAIN b.rows
        BY <2>5 DEF i
      <4>2. At(View(b), i) = {<<b.rows[i].n, Amounts(b.rows[i].lines)>>}
        BY <4>1, AtIs
      <4> QED
        BY <4>2 DEF i
    <3>3. out.cmd.verb # "create"
      BY <2>2 DEF TakesRow
    <3> QED
      BY <3>1, <3>2, <3>3 DEF Recalls
  <2>7. c.verb = "create" => Recalls(out.cmd, out.back, At(View(b), c.id))
    <3> SUFFICES ASSUME c.verb = "create" PROVE Recalls(out.cmd, out.back, At(View(b), c.id))
      OBVIOUS
    <3> DEFINE i == c.id
    <3>1. i \in EnteredId /\ i \notin DOMAIN b.rows
      BY <2>1, <2>4 DEF RowVerb, Does, Created
    <3> HIDE DEF i
    <3>2. At(View(b), i) = {}
      BY <3>1, AtIs
    <3>3. out.cmd.verb \notin TakesRow
      BY <2>2 DEF TakesRow
    <3> QED
      BY <3>2, <3>3 DEF Recalls, i
  <2>8. c.verb \in RowVerb => Recalls(out.cmd, out.back, At(View(b), c.id))
    BY <2>6, <2>7 DEF RowVerb, TakesRow
  <2>9. c.verb \in {"create", "editSplits"} => c.row.lines = <<>> \/ Fit(c.row)
    BY <2>1 DEF Does, Created, Replaced
  <2> QED
    BY <2>1, <2>2, <2>3, <2>5, <2>8, <2>9 DEF d
<1>2. CASE c.verb = "finish"
  <2>1. out \in FinishExecuted(b, c)
    BY <1>2 DEF Executed
  <2>2. out.cmd = c
    BY <1>2, <2>1, FinishedIs
  <2>3. PICK F : Finished(b, c, d, out.back, F)
    BY <1>2, <2>1, FinishedIs
  <2> DEFINE s == out.back.session
  <2> HIDE DEF d, s
  <2>4. PICK at : Restates(b, d, F, s, at)
    BY <2>3 DEF Finished, s
  <2>5. BooksOK(d) /\ \A id \in EnteredId : At(View(d), id) = At(View(b), id)
    <3>1. BooksOK(d)
      BY <2>4 DEF Restates
    <3> SUFFICES ASSUME NEW id \in EnteredId PROVE At(View(d), id) = At(View(b), id)
      BY <3>1
    <3> QED
      BY <2>4, RestatedAt
  <2>6. c.verb \notin RowVerb /\ c.verb \notin {"create", "editSplits"} /\ c.verb \notin TakesRow
    BY <1>2 DEF RowVerb, TakesRow
  <2> QED
    BY <2>2, <2>5, <2>6 DEF Turns, d
<1> QED
  BY <1>1, <1>2

LEMMA UndoneAt ==
    ASSUME StacksOK, NEW b, BooksOK(b), NEW c, CmdOK(c), NEW k, BackOK(c, k),
           NEW d \in Undone(b, c, k),
           NEW id \in EnteredId, NEW x,
           c.verb \in RowVerb /\ c.id = id => Recalls(c, k, x),
           Turns(c, id, x, At(View(b), id))
    PROVE  At(View(d), id) = x
<1>1. CASE c.verb # "finish"
  <2>1. Undoes(b, d, c, k)
    BY <1>1, UndoneAre
  <2> QED
    BY <1>1, <2>1, UndoesTurn
<1>2. CASE c.verb = "finish"
  <2>1. d \in UndoFinish(b, k.session, k.statuses) /\ c.verb \notin RowVerb
    BY <1>2 DEF Undone, RowVerb
  <2>2. k.session \in Nat /\ \A i \in DOMAIN k.statuses : k.statuses[i] \in {"uncleared", "cleared"}
    BY <1>2 DEF BackOK
  <2> DEFINE s == k.session
             f == k.statuses
  <2> HIDE DEF s, f
  <2>3. /\ d \in UndoFinish(b, s, f) /\ s \in Nat
        /\ \A i \in DOMAIN f : f[i] \in {"uncleared", "cleared"}
    BY <2>1, <2>2 DEF s, f
  <2>4. PICK F : Unfinished(b, d, s, f, F)
    BY <2>3, UnfinishedIs
  <2>5. Restates(b, d, F, s, 0)
    BY <2>4 DEF Unfinished
  <2>6. At(View(d), id) = At(View(b), id)
    BY <2>5, RestatedAt
  <2> QED
    BY <2>1, <2>6 DEF Turns
<1> QED
  BY <1>1, <1>2

(* The stacks that the amounts go along.                                   *)
SameAt(V, W) == \A id \in EnteredId : At(W, id) = At(V, id)

LEMMA FittingMore ==
    ASSUME NEW T, NEW U, T \subseteq U, NEW V, NEW W, Fitting(T, V), SameAt(V, W)
    PROVE  Fitting(U, W)
BY FitMore DEF Fitting, SameAt

LEMMA ChainSame ==
    ASSUME NEW u, NEW V, NEW W, Chain(u, V), SameAt(V, W)
    PROVE  Chain(u, W)
<1> SUFFICES ASSUME NEW i \in DOMAIN u
             PROVE  LET e == u[i] IN
                    /\ e.cmd.verb \in RowVerb => Recalls(e.cmd, e.back, At(e.was, e.cmd.id))
                    /\ \A id \in EnteredId :
                          Turns(e.cmd, id, At(e.was, id), At(Later(u, W, i), id))
  BY DEF Chain
<1>1. \A id \in EnteredId : At(Later(u, W, i), id) = At(Later(u, V, i), id)
  BY DEF Later, SameAt
<1> QED
  BY <1>1 DEF Chain

LEMMA ChainPushed ==
    ASSUME NEW u, IsSeq(u), NEW V, NEW W, NEW e, Chain(u, V), e.was = V,
           e.cmd.verb \in RowVerb => Recalls(e.cmd, e.back, At(V, e.cmd.id)),
           \A id \in EnteredId : Turns(e.cmd, id, At(V, id), At(W, id))
    PROVE  Chain(Append(u, e), W)
<1> DEFINE v == Append(u, e)
           n == Len(u)
<1>1. /\ n \in Nat /\ DOMAIN u = 1..n /\ Len(v) = n + 1
      /\ DOMAIN v = DOMAIN u \cup {n + 1} /\ v[n + 1] = e
      /\ \A i \in DOMAIN u : v[i] = u[i] /\ i < n + 1 /\ i \in Nat
  BY Pushed
<1> HIDE DEF v, n
<1>2. \A i \in DOMAIN u : Later(v, W, i) = Later(u, V, i)
  <2> TAKE i \in DOMAIN u
  <2>1. i # Len(v) /\ i \in 1..n
    BY <1>1
  <2>2. CASE i = n
    <3>1. Later(u, V, i) = V /\ Later(v, W, i) = v[n + 1].was
      BY <2>1, <2>2 DEF Later, n
    <3> QED
      BY <1>1, <3>1
  <2>3. CASE i # n
    <3>1. i + 1 \in DOMAIN u
      BY <1>1, <2>1, <2>3
    <3> QED
      BY <1>1, <2>1, <2>3, <3>1 DEF Later, n
  <2> QED
    BY <2>2, <2>3
<1>3. Later(v, W, n + 1) = W
  BY <1>1 DEF Later
<1>4. ASSUME NEW i \in DOMAIN v
      PROVE  LET x == v[i] IN
             /\ x.cmd.verb \in RowVerb => Recalls(x.cmd, x.back, At(x.was, x.cmd.id))
             /\ \A id \in EnteredId : Turns(x.cmd, id, At(x.was, id), At(Later(v, W, i), id))
  <2>1. CASE i \in DOMAIN u
    BY <1>1, <1>2, <2>1 DEF Chain
  <2>2. CASE i = n + 1
    BY <1>1, <1>3, <2>2
  <2> QED
    BY <1>1, <2>1, <2>2
<1>5. Chain(v, W)
  BY <1>4 DEF Chain
<1> QED
  BY <1>5 DEF v

LEMMA ChainPopped ==
    ASSUME NEW u, IsSeq(u), u # <<>>, NEW V, NEW W, Chain(u, V), SameAt(Last(u).was, W)
    PROVE  Chain(Front(u), W)
<1> DEFINE v == Front(u)
           n == Len(u)
<1>1. /\ n \in Nat \ {0} /\ DOMAIN u = 1..n /\ Len(v) = n - 1 /\ DOMAIN v = DOMAIN u \ {n}
      /\ \A i \in DOMAIN v : v[i] = u[i] /\ i < n
      /\ Last(u) = u[n]
  BY Popped
<1> HIDE DEF v, n
<1>2. ASSUME NEW i \in DOMAIN v, NEW id \in EnteredId
      PROVE  At(Later(v, W, i), id) = At(Later(u, V, i), id)
  <2>1. i \in 1..n /\ i # n /\ i + 1 \in 1..n
    BY <1>1
  <2>2. Later(u, V, i) = u[i + 1].was
    BY <2>1 DEF Later, n
  <2>3. CASE i = n - 1
    <3>1. Later(v, W, i) = W /\ i + 1 = n
      BY <1>1, <2>1, <2>3 DEF Later
    <3> QED
      BY <1>1, <2>2, <3>1 DEF SameAt
  <2>4. CASE i # n - 1
    <3>1. i + 1 \in DOMAIN v
      BY <1>1, <2>1, <2>4
    <3>2. Later(v, W, i) = v[i + 1].was
      BY <1>1, <2>4 DEF Later
    <3> QED
      BY <1>1, <2>2, <3>1, <3>2
  <2> QED
    BY <2>3, <2>4
<1>3. ASSUME NEW i \in DOMAIN v
      PROVE  LET x == v[i] IN
             /\ x.cmd.verb \in RowVerb => Recalls(x.cmd, x.back, At(x.was, x.cmd.id))
             /\ \A id \in EnteredId : Turns(x.cmd, id, At(x.was, id), At(Later(v, W, i), id))
  <2>1. i \in DOMAIN u /\ v[i] = u[i]
    BY <1>1
  <2> QED
    BY <1>2, <2>1 DEF Chain
<1>4. Chain(v, W)
  BY <1>3 DEF Chain
<1> QED
  BY <1>4 DEF v

LEMMA FutureSame ==
    ASSUME NEW r, NEW V, NEW W, NEW T, Future(r, V, T), SameAt(V, W)
    PROVE  Future(r, W, T)
BY DEF Future, SameAt

LEMMA FutureNone ==
    ASSUME NEW V, NEW T, Fitting(T, V)
    PROVE  Future(<<>>, V, T)
<1> DEFINE w == [i \in 0..0 |-> [id \in EnteredId |-> At(V, id)]]
<1>1. Len(<<>>) = 0 /\ DOMAIN <<>> = {}
  OBVIOUS
<1>2. \A i \in 0..0 : \A id \in EnteredId : w[i][id] = At(V, id)
  OBVIOUS
<1>3. 0 \in 0..0
  OBVIOUS
<1> HIDE DEF w
<1>4. /\ \A id \in EnteredId : w[Len(<<>>)][id] = At(V, id)
      /\ \A i \in 0..Len(<<>>) : \A id \in EnteredId : FitAt(T, id, w[i][id])
  BY <1>1, <1>2, <1>3 DEF Fitting
<1> QED
  BY <1>1, <1>4 DEF Future

LEMMA FuturePushed ==
    ASSUME NEW r, IsSeq(r), NEW V, NEW W, NEW T, Future(r, V, T), NEW c, Fitting(T, W),
           \A id \in EnteredId : Turns(c, id, At(W, id), At(V, id))
    PROVE  Future(Append(r, c), W, T)
<1> DEFINE q == Append(r, c)
           n == Len(r)
<1>1. PICK w : /\ \A id \in EnteredId : w[n][id] = At(V, id)
               /\ \A i \in 0..n : \A id \in EnteredId : FitAt(T, id, w[i][id])
               /\ \A i \in DOMAIN r : \A id \in EnteredId : Turns(r[i], id, w[i][id], w[i - 1][id])
  BY DEF Future
<1>2. /\ n \in Nat /\ DOMAIN r = 1..n /\ Len(q) = n + 1
      /\ DOMAIN q = DOMAIN r \cup {n + 1} /\ q[n + 1] = c
      /\ \A i \in DOMAIN r : q[i] = r[i]
  BY Pushed
<1> DEFINE z == [i \in 0..(n + 1) |-> IF i = n + 1 THEN [id \in EnteredId |-> At(W, id)] ELSE w[i]]
<1> HIDE DEF q, n
<1>3. /\ \A id \in EnteredId : z[n + 1][id] = At(W, id)
      /\ \A i \in 0..n : z[i] = w[i]
      /\ \A i \in 0..(n + 1) : i = n + 1 \/ i \in 0..n
  <2>1. n + 1 \in 0..(n + 1) /\ \A i \in 0..n : i \in 0..(n + 1) /\ i # n + 1
    BY <1>2
  <2>2. \A i \in 0..(n + 1) : i = n + 1 \/ i \in 0..n
    BY <1>2
  <2> QED
    BY <2>1, <2>2
<1> HIDE DEF z
<1>4. \A i \in 0..(n + 1) : \A id \in EnteredId : FitAt(T, id, z[i][id])
  BY <1>1, <1>3 DEF Fitting
<1>5. ASSUME NEW i \in DOMAIN q, NEW id \in EnteredId
      PROVE  Turns(q[i], id, z[i][id], z[i - 1][id])
  <2>1. CASE i \in DOMAIN r
    <3>1. i \in 0..n /\ i - 1 \in 0..n
      BY <1>2, <2>1
    <3> QED
      BY <1>1, <1>2, <1>3, <2>1, <3>1
  <2>2. CASE i = n + 1
    <3>1. i - 1 = n /\ n \in 0..n
      BY <1>2, <2>2
    <3>2. z[i][id] = At(W, id) /\ z[i - 1][id] = At(V, id) /\ q[i] = c
      BY <1>1, <1>2, <1>3, <2>2, <3>1
    <3> QED
      BY <3>2
  <2> QED
    BY <1>2, <2>1, <2>2
<1>6. Future(q, W, T)
  BY <1>2, <1>3, <1>4, <1>5 DEF Future
<1> QED
  BY <1>6 DEF q

LEMMA FuturePopped ==
    ASSUME NEW r, IsSeq(r), r # <<>>, NEW V, NEW W, NEW T, Future(r, V, T),
           \A id \in EnteredId : Turns(Last(r), id, At(V, id), At(W, id))
    PROVE  Future(Front(r), W, T) /\ Fitting(T, W)
<1> DEFINE q == Front(r)
           n == Len(r)
<1>1. PICK w : /\ \A id \in EnteredId : w[n][id] = At(V, id)
               /\ \A i \in 0..n : \A id \in EnteredId : FitAt(T, id, w[i][id])
               /\ \A i \in DOMAIN r : \A id \in EnteredId : Turns(r[i], id, w[i][id], w[i - 1][id])
  BY DEF Future
<1>2. /\ n \in Nat \ {0} /\ DOMAIN r = 1..n /\ n \in DOMAIN r /\ Last(r) = r[n]
      /\ Len(q) = n - 1 /\ DOMAIN q = DOMAIN r \ {n}
      /\ \A i \in DOMAIN q : q[i] = r[i]
  BY Popped
<1> HIDE DEF q, n
<1>3. \A id \in EnteredId : w[n - 1][id] = At(W, id)
  <2> TAKE id \in EnteredId
  <2>1. Turns(r[n], id, w[n][id], w[n - 1][id])
    BY <1>1, <1>2
  <2>2. Turns(r[n], id, w[n][id], At(W, id))
    BY <1>1, <1>2
  <2> QED
    BY <2>1, <2>2, TurnsOne
<1>4. n - 1 \in 0..n /\ \A i \in 0..(n - 1) : i \in 0..n
  BY <1>2
<1>5. Fitting(T, W)
  BY <1>1, <1>3, <1>4 DEF Fitting
<1>6. \A i \in DOMAIN q : \A id \in EnteredId : Turns(q[i], id, w[i][id], w[i - 1][id])
  BY <1>1, <1>2
<1>7. Future(q, W, T)
  BY <1>1, <1>2, <1>3, <1>4, <1>6 DEF Future
<1> QED
  BY <1>5, <1>7 DEF q

(* A command that is new or redone.                                        *)
LEMMA FitsExecuted ==
    ASSUME Inv, Inv', Fits, torn \subseteq torn', NEW c, CmdOK(c), NEW out \in Executed(books, c),
           books' = out.books, undoStack' = Append(undoStack, Entry(out)),
           Fitting(torn', View(books')), Future(redoStack', View(books'), torn')
    PROVE  Fits'
<1> DEFINE e == Entry(out)
           V == View(books)
           W == View(books')
           u == undoStack
           v == undoStack'
<1>1. StacksOK /\ BooksOK(books) /\ IsSeq(u)
  BY DEF Inv, Types, StacksOK
<1>2. e.cmd = out.cmd /\ e.back = out.back /\ e.was = V
  BY DEF Entry
<1>3. /\ out.cmd.verb = c.verb /\ out.cmd.id = c.id
      /\ \A id \in EnteredId : Turns(out.cmd, id, At(V, id), At(W, id))
      /\ c.verb \in RowVerb => Recalls(out.cmd, out.back, At(V, c.id))
  BY <1>1, ExecutedAt
<1>4. Chain(u, V) /\ Fitting(torn, V) /\ \A i \in DOMAIN u : Fitting(torn, u[i].was)
  BY DEF Fits
<1>5. v = Append(u, e)
  OBVIOUS
<1> HIDE DEF e, V, W, u, v
<1>6. /\ e.cmd.verb \in RowVerb => Recalls(e.cmd, e.back, At(V, e.cmd.id))
      /\ \A id \in EnteredId : Turns(e.cmd, id, At(V, id), At(W, id))
  BY <1>2, <1>3
<1>7. Chain(v, W)
  BY <1>1, <1>2, <1>4, <1>5, <1>6, ChainPushed
<1>8. \A i \in DOMAIN v : Fitting(torn', v[i].was)
  <2> TAKE i \in DOMAIN v
  <2>1. /\ DOMAIN v = DOMAIN u \cup {Len(u) + 1} /\ v[Len(u) + 1] = e
        /\ \A j \in DOMAIN u : v[j] = u[j]
    BY <1>1, <1>5, Pushed
  <2>2. Fitting(torn, v[i].was)
    BY <1>2, <1>4, <2>1
  <2> DEFINE X == v[i].was
             T == torn'
  <2> HIDE DEF X, T
  <2>3. torn \subseteq T /\ Fitting(torn, X) /\ SameAt(X, X)
    BY <2>2 DEF SameAt, X, T
  <2>4. Fitting(T, X)
    BY <2>3, FittingMore
  <2> QED
    BY <2>4 DEF X, T
<1> QED
  BY <1>7, <1>8 DEF Fits, W, v

LEMMA FitsRun ==
    ASSUME Inv, Inv', Fits, torn \subseteq torn', NEW c, CmdOK(c), Run(c),
           c.verb = "edit" /\ c.id \in DOMAIN books.rows /\ c.id \notin torn' =>
              FitAt(torn', c.id, {<<c.row.n, p[2]>> : p \in At(View(books), c.id)})
    PROVE  Fits'
<1>1. PICK out \in Executed(books, c) :
         books' = out.books /\ undoStack' = Append(undoStack, Entry(out))
  BY DEF Run
<1>2. redoStack' = <<>>
  BY DEF Run
<1>3. StacksOK /\ BooksOK(books)
  BY DEF Inv, Types
<1> DEFINE V == View(books)
           W == View(books')
           T == torn'
<1>4. /\ \A id \in EnteredId : Turns(c, id, At(V, id), At(W, id))
      /\ c.verb \in {"create", "editSplits"} => c.row.lines = <<>> \/ Fit(c.row)
      /\ c.verb \in TakesRow => c.id \in DOMAIN books.rows
  BY <1>1, <1>3, ExecutedAt
<1>5. Fitting(torn, V) /\ torn \subseteq T
  BY DEF Fits
<1>6. c.verb = "edit" /\ c.id \notin T =>
         FitAt(T, c.id, {<<c.row.n, p[2]>> : p \in At(V, c.id)})
  BY <1>4 DEF TakesRow
<1> HIDE DEF V, W, T
<1>7. Fitting(T, W)
  <2> SUFFICES ASSUME NEW id \in EnteredId PROVE FitAt(T, id, At(W, id))
    BY DEF Fitting
  <2>1. CASE id \in T
    BY <2>1 DEF FitAt
  <2>2. CASE id \notin T
    <3> DEFINE x == At(V, id)
               y == At(W, id)
    <3>1. Turns(c, id, x, y)
      BY <1>4
    <3>2. FitAt(T, id, x)
      BY <1>5, FitMore DEF Fitting
    <3>3. c.verb = "edit" /\ c.id = id => FitAt(T, id, {<<c.row.n, p[2]>> : p \in x})
      BY <1>6, <2>2
    <3> HIDE DEF x, y
    <3>4. FitAt(T, id, y)
      BY <1>4, <3>1, <3>2, <3>3, TurnFits
    <3> QED
      BY <3>4 DEF y
  <2> QED
    BY <2>1, <2>2
<1>8. Future(<<>>, W, T)
  BY <1>7, FutureNone
<1> QED
  BY <1>1, <1>2, <1>7, <1>8, FitsExecuted DEF W, T

LEMMA FitsRedo ==
    ASSUME Inv, Inv', Fits, Redo
    PROVE  Fits'
<1> DEFINE c == Last(redoStack)
           V == View(books)
           W == View(books')
           r == redoStack
<1>1. r # <<>> /\ redoStack' = Front(r) /\ torn' = torn
  BY DEF Redo
<1>2. PICK out \in Executed(books, c) :
         books' = out.books /\ undoStack' = Append(undoStack, Entry(out))
  BY DEF Redo
<1>3. StacksOK /\ BooksOK(books) /\ IsSeq(r) /\ \A i \in DOMAIN r : CmdOK(r[i])
  BY DEF Inv, Types, StacksOK
<1>4. CmdOK(c)
  <2>1. c \in Range(r)
    BY <1>1, <1>3, LastIn
  <2> QED
    BY <1>3, <2>1 DEF Range
<1> HIDE DEF c
<1>5. \A id \in EnteredId : Turns(c, id, At(V, id), At(W, id))
  BY <1>2, <1>3, <1>4, ExecutedAt
<1>6. Future(r, V, torn)
  BY DEF Fits
<1> HIDE DEF V, W, r
<1>7. \A id \in EnteredId : Turns(Last(r), id, At(V, id), At(W, id))
  BY <1>5 DEF c, r
<1>8. Future(Front(r), W, torn) /\ Fitting(torn, W)
  BY <1>1, <1>3, <1>6, <1>7, FuturePopped
<1>9. Fitting(torn', View(books')) /\ Future(redoStack', View(books'), torn')
        /\ torn \subseteq torn'
  BY <1>1, <1>8 DEF W
<1> QED
  BY <1>2, <1>4, <1>9, FitsExecuted

LEMMA FitsUndo ==
    ASSUME Inv, Inv', Fits, Undo
    PROVE  Fits'
<1> DEFINE e == Last(undoStack)
           c == e.cmd
           k == e.back
           V == View(books)
           W == View(books')
           X == e.was
           u == undoStack
           r == redoStack
           n == Len(u)
<1>1. /\ u # <<>> /\ books' \in Undone(books, c, k)
      /\ redoStack' = Append(r, c) /\ undoStack' = Front(u) /\ torn' = torn
  BY DEF Undo
<1>2. StacksOK /\ BooksOK(books) /\ IsSeq(u) /\ IsSeq(r) /\ \A i \in DOMAIN u : EntryOK(u[i])
  BY DEF Inv, Types, StacksOK
<1>3. /\ n \in DOMAIN u /\ e = u[n] /\ DOMAIN Front(u) = DOMAIN u \ {n}
      /\ \A i \in DOMAIN Front(u) : Front(u)[i] = u[i]
  BY <1>1, <1>2, Popped
<1>4. CmdOK(c) /\ BackOK(c, k)
  BY <1>2, <1>3 DEF EntryOK
<1>5. /\ Chain(u, V) /\ Future(r, V, torn) /\ \A i \in DOMAIN u : Fitting(torn, u[i].was)
  BY DEF Fits
<1>6. /\ c.verb \in RowVerb => Recalls(c, k, At(X, c.id))
      /\ \A id \in EnteredId : Turns(c, id, At(X, id), At(V, id))
  <2>1. Later(u, V, n) = V
    BY DEF Later
  <2> HIDE DEF n, e, u, V
  <2> QED
    BY <1>3, <1>5, <2>1 DEF Chain
<1>7. SameAt(X, W)
  <2> SUFFICES ASSUME NEW id \in EnteredId PROVE At(W, id) = At(X, id)
    BY DEF SameAt
  <2> DEFINE x == At(X, id)
             d == books'
  <2>1. /\ c.verb \in RowVerb /\ c.id = id => Recalls(c, k, x)
        /\ Turns(c, id, x, At(View(books), id)) /\ d \in Undone(books, c, k)
    BY <1>1, <1>6
  <2> HIDE DEF x, d, c, k, e
  <2>2. At(View(d), id) = x
    BY <1>2, <1>4, <2>1, UndoneAt
  <2> QED
    BY <2>2 DEF x, d
<1>8. Fitting(torn, X)
  BY <1>3, <1>5
<1>9. \A i \in DOMAIN Front(u) : Fitting(torn, Front(u)[i].was)
  BY <1>3, <1>5
<1> HIDE DEF e, c, k, V, W, u, r, n
<1>10. Chain(Front(u), W)
  BY <1>1, <1>2, <1>5, <1>7, ChainPopped DEF e, u
<1> HIDE DEF X
<1>11. Fitting(torn, W)
  BY <1>7, <1>8, FittingMore
<1>12. \A id \in EnteredId : Turns(c, id, At(W, id), At(V, id))
  BY <1>6, <1>7 DEF SameAt
<1>13. Future(Append(r, c), W, torn)
  BY <1>2, <1>5, <1>11, <1>12, FuturePushed
<1> QED
  BY <1>1, <1>9, <1>10, <1>11, <1>13 DEF Fits, W

(* The sessions, the copy and the end of the program leave the amounts.    *)
LEMMA FitsStill ==
    ASSUME Inv, Inv', Fits, books'.rows = books.rows,
           undoStack' = undoStack, redoStack' = redoStack, torn' = torn
    PROVE  Fits'
<1> DEFINE b == books
           d == books'
           u == undoStack
           r == redoStack
<1>1. BooksOK(b) /\ BooksOK(d) /\ IsSeq(u) /\ d.rows = b.rows
  BY DEF Inv, Types, StacksOK
<1>2. /\ Fitting(torn, View(b)) /\ Chain(u, View(b)) /\ Future(r, View(b), torn)
      /\ \A i \in DOMAIN u : Fitting(torn, u[i].was)
  BY DEF Fits
<1> HIDE DEF b, d, u, r
<1>3. SameAt(View(b), View(d))
  BY <1>1, AtSame DEF SameAt
<1> DEFINE V == View(b)
           W == View(d)
<1> HIDE DEF V, W
<1>4. Fitting(torn, W) /\ Chain(u, W) /\ Future(r, W, torn)
  <2>1. Fitting(torn, V) /\ Chain(u, V) /\ Future(r, V, torn) /\ SameAt(V, W)
    BY <1>2, <1>3 DEF V, W
  <2> QED
    BY <2>1, FittingMore, ChainSame, FutureSame
<1> QED
  BY <1>2, <1>4 DEF Fits, d, u, r, W

LEMMA FitsRestart ==
    ASSUME Inv, Inv', Fits, Restart
    PROVE  Fits'
<1>1. /\ undoStack' = <<>> /\ redoStack' = <<>> /\ books' = books /\ torn' = torn
  BY DEF Restart
<1> DEFINE V == View(books)
<1>2. Fitting(torn, V)
  BY DEF Fits
<1> HIDE DEF V
<1>3. Future(<<>>, V, torn)
  BY <1>2, FutureNone
<1>4. Chain(<<>>, V) /\ DOMAIN <<>> = {}
  BY Emptied DEF Chain
<1> QED
  BY <1>1, <1>2, <1>3, <1>4 DEF Fits, V

LEMMA FitsInit == Init => Fits
<1> SUFFICES ASSUME Init PROVE Fits
  OBVIOUS
<1> DEFINE V == View(books)
<1>1. undoStack = <<>> /\ redoStack = <<>> /\ books.rows = <<>>
  BY DEF Init
<1>2. DOMAIN <<>> = {}
  OBVIOUS
<1>3. BooksOK(books)
  BY InvInit DEF Inv, Types
<1>4. \A id \in EnteredId : At(V, id) = {}
  BY <1>1, <1>2, <1>3, AtIs
<1> HIDE DEF V
<1>5. Fitting(torn, V)
  BY <1>4 DEF Fitting, FitAt
<1>6. Future(<<>>, V, torn)
  BY <1>5, FutureNone
<1>7. Chain(<<>>, V)
  BY <1>2 DEF Chain
<1> QED
  BY <1>1, <1>2, <1>5, <1>6, <1>7 DEF Fits, V

(* What a screen writes back of a row that has not changed.                *)
LEMMA FitsToggle ==
    ASSUME Inv, Inv', Fits, NEW status \in {"uncleared", "cleared"}, Toggle(status)
    PROVE  Fits'
<1> DEFINE id == copy.id
           old == copy.row
           row == [old EXCEPT !.status = status]
           c == Command("edit", id, row)
<1>1. copy # None /\ WriteBack(row)
  BY DEF Toggle
<1>2. old \in OwnRow /\ id \in EnteredId
  BY <1>1, CopyIs DEF Inv, Types, CopyOK
<1>3. /\ Run(c) /\ torn \subseteq torn'
      /\ id \notin torn' => books.rows[id] = old /\ id \notin torn
  BY <1>1 DEF WriteBack
<1> HIDE DEF old, id
<1>4. row \in OwnRow /\ row.n = old.n /\ row.status # "reconciled"
  BY <1>2 DEF OwnRow, Row, Status
<1> HIDE DEF row
<1>5. CmdOK(c) /\ c.row = row /\ c.id = id
  <2>1. CmdOK(c)
    BY <1>2, <1>4, RowCommand DEF RowVerb, HasRow
  <2> QED
    BY <2>1 DEF Command
<1> HIDE DEF c
<1>6. ASSUME id \in DOMAIN books.rows, id \notin torn'
      PROVE  FitAt(torn', id, {<<row.n, p[2]>> : p \in At(View(books), id)})
  <2>1. At(View(books), id) = {<<row.n, Amounts(books.rows[id].lines)>>}
    BY <1>2, <1>3, <1>4, <1>6, AtIs DEF Inv, Types
  <2>2. FitAt(torn, id, At(View(books), id))
    BY <1>2 DEF Fits, Fitting
  <2> DEFINE x == At(View(books), id)
             m == row.n
             q == Amounts(books.rows[id].lines)
  <2>3. x = {<<m, q>>} /\ FitAt(torn', id, x)
    BY <1>3, <2>1, <2>2, FitMore
  <2> HIDE DEF x, m, q
  <2>4. {<<m, p[2]>> : p \in x} = x
    <3>1. {<<m, p[2]>> : p \in {<<m, q>>}} = {<<m, q>>}
      BY OneAmount
    <3> QED
      BY <2>3, <3>1
  <2> QED
    BY <2>3, <2>4 DEF x, m
<1> QED
  BY <1>3, <1>5, <1>6, FitsRun

LEMMA FitsEditPlain ==
    ASSUME Inv, Inv', Fits, copy # None, NEW f \in Allowed(copy.row.acct), EditPlain(f)
    PROVE  Fits'
<1> DEFINE id == copy.id
           old == copy.row
           n == f.n
           row == [old EXCEPT !.n = n]
           c == Command("edit", id, row)
<1>1. WriteBack(row) /\ old.lines = <<>>
  BY DEF EditPlain
<1>2. old \in OwnRow /\ old.status \in {"uncleared", "cleared"} /\ n \in Int /\ id \in EnteredId
  BY CopyIs, FormIs DEF Inv, Types, CopyOK
<1>3. /\ Run(c) /\ torn \subseteq torn'
      /\ id \notin torn' => books.rows[id] = old
  BY <1>1 DEF WriteBack
<1> HIDE DEF old, id, n
<1>4. row \in OwnRow /\ row.status # "reconciled"
  BY <1>2 DEF OwnRow, Row
<1> HIDE DEF row
<1>5. CmdOK(c) /\ c.row = row /\ c.id = id
  <2>1. CmdOK(c)
    BY <1>2, <1>4, RowCommand DEF RowVerb, HasRow
  <2> QED
    BY <2>1 DEF Command
<1> HIDE DEF c
<1>6. ASSUME id \in DOMAIN books.rows, id \notin torn'
      PROVE  FitAt(torn', id, {<<row.n, p[2]>> : p \in At(View(books), id)})
  <2> DEFINE x == At(View(books), id)
             m == row.n
  <2>1. \A p \in x : p[2] = <<>>
    <3>1. x = {<<old.n, Amounts(<<>>)>>}
      BY <1>1, <1>2, <1>3, <1>6, AtIs DEF Inv, Types
    <3>2. Amounts(<<>>) = <<>>
      BY NoRowIs, AmountsNone
    <3> QED
      BY <3>1, <3>2
  <2> HIDE DEF x, m
  <2>2. FitAt(torn', id, {<<m, p[2]>> : p \in x})
    BY <2>1 DEF FitAt
  <2> QED
    BY <2>2 DEF x, m
<1> QED
  BY <1>3, <1>5, <1>6, FitsRun

LEMMA FitsOther ==
    ASSUME Inv, Inv', Fits, torn' = torn, NEW c, CmdOK(c), c.verb # "edit", Run(c)
    PROVE  Fits'
<1>1. torn \subseteq torn'
  OBVIOUS
<1> QED
  BY <1>1, FitsRun

LEMMA FitsCreate ==
    ASSUME Inv, Inv', Fits, NEW a \in Bank, NEW f \in Allowed(a), Create(a, f)
    PROVE  Fits'
<1> DEFINE id == <<0, scope["creates"]>>
           l == f.lines
           n == f.n
           row == [acct |-> a, n |-> n, status |-> "uncleared", cat |-> 0, lines |-> l]
           c == Command("create", id, row)
<1>1. Spend("creates") /\ Run(c) /\ torn' = torn
  BY DEF Create
<1>2. id \in EnteredId
  BY <1>1, Spends DEF Inv, Types, ScopeOK, EnteredId
<1>3. n \in Int /\ l \in Lines
  BY FormIs
<1> HIDE DEF l, n
<1>4. row \in OwnRow /\ row.status # "reconciled"
  BY <1>3 DEF OwnRow, Row, Account, Status
<1> HIDE DEF row, id
<1>5. CmdOK(c) /\ c.verb # "edit"
  <2>1. CmdOK(c)
    BY <1>2, <1>4, RowCommand DEF RowVerb, HasRow
  <2> QED
    BY <2>1 DEF Command
<1> HIDE DEF c
<1> QED
  BY <1>1, <1>5, FitsOther

LEMMA FitsEditSplits ==
    ASSUME Inv, Inv', Fits, copy # None, NEW f \in Allowed(copy.row.acct), EditSplits(f)
    PROVE  Fits'
<1> DEFINE id == copy.id
           old == copy.row
           n == f.n
           l == f.lines
           row == [old EXCEPT !.n = n, !.lines = l]
           c == Command("editSplits", id, row)
<1>1. Run(c) /\ torn' = torn
  BY DEF EditSplits
<1>2. /\ old \in OwnRow /\ old.status \in {"uncleared", "cleared"} /\ n \in Int /\ l \in Lines
      /\ id \in EnteredId
  BY CopyIs, FormIs DEF Inv, Types, CopyOK
<1> HIDE DEF old, n, l, id
<1>3. row \in OwnRow /\ row.status # "reconciled"
  BY <1>2 DEF OwnRow, Row
<1> HIDE DEF row
<1>4. CmdOK(c) /\ c.verb # "edit"
  <2>1. CmdOK(c)
    BY <1>2, <1>3, RowCommand DEF RowVerb, HasRow
  <2> QED
    BY <2>1 DEF Command
<1> HIDE DEF c
<1> QED
  BY <1>1, <1>4, FitsOther

LEMMA FitsRemoval ==
    ASSUME Inv, Inv', Fits, NEW id \in Entered(books), Delete(id) \/ Void(id)
    PROVE  Fits'
<1>1. id \in EnteredId
  BY EnteredOwn DEF Entered, Inv, Types
<1>2. PICK verb \in {"delete", "void"} : Run(Command(verb, id, NoRow)) /\ torn' = torn
  BY DEF Delete, Void
<1> DEFINE c == Command(verb, id, NoRow)
<1>3. CmdOK(c)
  <2> verb \in RowVerb /\ verb \notin HasRow
    BY <1>2 DEF RowVerb, HasRow
  <2> QED
    BY <1>1, RowCommand
<1>4. c.verb # "edit"
  BY DEF Command
<1> HIDE DEF c
<1> QED
  BY <1>2, <1>3, <1>4, FitsOther DEF c

LEMMA FitsOpening ==
    ASSUME Inv, Inv', Fits, NEW a \in Account, Close(a) \/ Reopen(a)
    PROVE  Fits'
<1>1. PICK verb \in {"close", "reopen"} : Run(AccountCommand(verb, a)) /\ torn' = torn
  BY DEF Close, Reopen
<1> DEFINE c == AccountCommand(verb, a)
<1>2. CmdOK(c)
  BY <1>1, AccountCommandIs
<1>3. c.verb # "edit"
  BY DEF AccountCommand, Command
<1> HIDE DEF c
<1> QED
  BY <1>1, <1>2, <1>3, FitsOther DEF c

LEMMA FitsFinish ==
    ASSUME Inv, Inv', Fits, NEW a \in Bank, NEW ids \in SUBSET RowsOf(books, a),
           FinishReconciliation(a, ids)
    PROVE  Fits'
<1> DEFINE c == FinishCommand(a, ids)
<1>1. Run(c) /\ torn' = torn
  BY DEF FinishReconciliation
<1>2. CmdOK(c)
  BY FinishCommandIs DEF Inv, Types
<1>3. c.verb # "edit"
  BY DEF FinishCommand, AccountCommand, Command
<1> HIDE DEF c
<1> QED
  BY <1>1, <1>2, <1>3, FitsOther

LEMMA FitsSession ==
    ASSUME Inv, Inv', Fits,
           \/ \E a \in Bank : \E balance \in Statement[a] : StartReconciliation(a, balance)
           \/ \E a \in Bank : CancelReconciliation(a)
    PROVE  Fits'
<1> DEFINE b == books
<1>1. undoStack' = undoStack /\ redoStack' = redoStack /\ torn' = torn
  BY DEF StartReconciliation, CancelReconciliation
<1>2. \E f : books' = [b EXCEPT !.sessions = f]
  BY DEF StartReconciliation, CancelReconciliation
<1>3. b = [rows |-> b.rows, open |-> b.open, sessions |-> b.sessions]
  BY DEF Inv, Types, BooksOK
<1> HIDE DEF b
<1>4. books'.rows = b.rows
  BY <1>2, <1>3
<1> QED
  BY <1>1, <1>4, FitsStill DEF b

LEMMA FitsNext == Inv /\ Inv' /\ Fits /\ [Next]_vars => Fits'
<1> SUFFICES ASSUME Inv, Inv', Fits, [Next]_vars PROVE Fits'
  OBVIOUS
<1>1. ASSUME NEW a \in Bank, NEW f \in Allowed(a), Create(a, f) PROVE Fits'
  BY <1>1, FitsCreate
<1>2. ASSUME NEW id \in Entered(books), Look(id) PROVE Fits'
  BY <1>2, FitsStill DEF Look
<1>3. ASSUME NEW status \in {"uncleared", "cleared"}, Toggle(status) PROVE Fits'
  BY <1>3, FitsToggle
<1>4. ASSUME copy # None, NEW f \in Allowed(copy.row.acct), EditPlain(f) PROVE Fits'
  BY <1>4, FitsEditPlain
<1>5. ASSUME copy # None, NEW f \in Allowed(copy.row.acct), EditSplits(f) PROVE Fits'
  BY <1>5, FitsEditSplits
<1>6. ASSUME NEW id \in Entered(books), Delete(id) \/ Void(id) PROVE Fits'
  BY <1>6, FitsRemoval
<1>7. ASSUME NEW a \in Account, Close(a) \/ Reopen(a) PROVE Fits'
  BY <1>7, FitsOpening
<1>8. ASSUME NEW a \in Bank, NEW balance \in Statement[a], StartReconciliation(a, balance)
      PROVE  Fits'
  BY <1>8, FitsSession
<1>9. ASSUME NEW a \in Bank, CancelReconciliation(a) PROVE Fits'
  BY <1>9, FitsSession
<1>10. ASSUME NEW a \in Bank, NEW ids \in SUBSET RowsOf(books, a), FinishReconciliation(a, ids)
       PROVE  Fits'
  BY <1>10, FitsFinish
<1>11. CASE Undo
  BY <1>11, FitsUndo
<1>12. CASE Redo
  BY <1>12, FitsRedo
<1>13. CASE Restart
  BY <1>13, FitsRestart
<1>14. CASE UNCHANGED vars
  BY <1>14, FitsStill DEF vars
<1> QED
  BY <1>1, <1>2, <1>3, <1>4, <1>5, <1>6, <1>7, <1>8, <1>9, <1>10, <1>11, <1>12, <1>13, <1>14
     DEF Next

(* The lines of every row that no screen wrote back stale add up to its    *)
(* amount, whatever is edited, undone or redone, in any order              *)
(* (service_splits.go:12): LinesSumToParent of SplitBooks.                 *)
THEOREM LinesAddUp == Spec => []LinesSumToParent
<1>1. Spec => []Fits
  BY FitsInit, FitsNext, Invariance, PTL DEF Spec
<1>2. Inv /\ Fits => LinesSumToParent
  <2> SUFFICES ASSUME Inv, Fits, NEW id \in Entered(books) \ torn, books.rows[id].lines # <<>>
               PROVE  Total(books.rows[id].lines) = books.rows[id].n
    BY DEF LinesSumToParent
  <2> DEFINE n == books.rows[id].n
             l == books.rows[id].lines
  <2>1. BooksOK(books) /\ id \in DOMAIN books.rows /\ IsEntered(id)
    BY DEF Inv, Types, Entered
  <2>2. id \in EnteredId /\ l \in Lines
    BY <2>1, EnteredOwn DEF OwnRow, Row
  <2>3. At(View(books), id) = {<<n, Amounts(l)>>}
    BY <2>1, <2>2, AtIs
  <2>4. FitAt(torn, id, At(View(books), id))
    BY <2>2 DEF Fits, Fitting
  <2> HIDE DEF n, l
  <2>5. Amounts(l) = <<>> \/ SumFunction(Amounts(l)) = n
    BY <2>3, <2>4 DEF FitAt
  <2>6. SumFunction(Amounts(l)) = n
    BY <2>2, <2>5, AmountsNone DEF l
  <2>7. Total(l) = SumFunction(Amounts(l))
    BY DEF Total, Amounts
  <2> QED
    BY <2>6, <2>7 DEF n, l
<1> QED
  BY <1>1, <1>2, Invariance, PTL
====
