---------------------------- MODULE PostingProofs ----------------------------
(***************************************************************************)
(* Proofs about ScheduledPosting, for any schedules, templates, lead times,*)
(* row identifiers and bounds.                                             *)
(*                                                                         *)
(* The argument that no occurrence is posted twice: a schedule is always   *)
(* ahead of its rows, so that what is posted next is new.  An undo puts an *)
(* earlier date back, but only after it dropped the rows from that date    *)
(* on: those are rows of the command it undoes, because what came later is *)
(* undone already.  A command done again, and one the view offers, posts   *)
(* the occurrence the schedule is at, as long as the user waits for the    *)
(* batch and for the view.                                                 *)
(*                                                                         *)
(* The argument that no occurrence is missed: the rows of a command that is*)
(* done are all there, but for a batch done again, whose rows are gone, no *)
(* two commands share a row, and only the undo of a command drops its rows.*)
(* An undo that has begun ends, and puts a schedule back no later than the *)
(* first occurrence whose row it dropped.                                  *)
(***************************************************************************)
EXTENDS ScheduledPosting, TLAPS, FiniteSetTheorems, WellFoundedInduction

(* What the variables hold.                                                *)
Post  == [sched : Schedule, occ : Nat]
Entry == [sched : Schedule, rows : Seq(RowId), before : Kept]

Cmd ==
         [op : {"post"}, sched : Schedule, occ : Nat, row : RowId, before : Kept]
    \cup [op : {"skip", "delete"}, sched : Schedule, before : Kept]
    \cup [op : {"edit"}, sched : Schedule, before : Kept, after : Kept]
    \cup [op : {"auto"}, entries : Seq(Entry) \ {<<>>}]

Task ==
         [do : {"drop"}, rows : Seq(RowId)]
    \cup [do : {"put", "again"}, sched : Schedule, st : Kept]

Listed == [sched : AutoPosting, st : Kept]

BatchTypes ==
    batch \in {Due, Done} \cup [day : 0..MaxDay, entries : Seq(Entry), todo : SUBSET Listed]

LaneTypes == lane = Idle \/
    /\ lane \in [how : {"do", "redo", "undo"}, cmd : Cmd, st : Kept \cup {NotRead},
                 todo : Seq(Task)]
    /\ lane.how = "undo" => lane.todo # <<>>
    /\ lane.how # "undo" => /\ lane.cmd.op # "auto"
                            /\ lane.st # NotRead => ~ Completed(lane.st)

Types ==
    /\ sched \in [Schedule -> Kept \cup {Gone}]
    /\ view \in [Schedule -> Kept \cup {Gone}]
    /\ rows \in [RowId -> Post \cup {NoRow}]
    /\ today \in 0..MaxDay
    /\ undoStack \in Seq(Cmd) /\ redoStack \in Seq(Cmd)
    /\ BatchTypes /\ LaneTypes

----------------------------------------------------------------------------
(* Schedules.                                                              *)

LEMMA AdvancedIs ==
    ASSUME NEW st \in Kept, NEW k \in Nat, st.left = NoLimit \/ k <= st.left
    PROVE  /\ Advanced(st, k) \in Kept
           /\ Advanced(st, k).next = st.next + k /\ Advanced(st, k).end = st.end
           /\ Advanced(st, k).left = IF st.left = NoLimit THEN NoLimit ELSE st.left - k
<1>1. st.next \in Nat /\ (st.left \in Nat \/ st.left = NoLimit)
  BY DEF Kept
<1> DEFINE l == IF st.left = NoLimit THEN st.left ELSE st.left - k
<1>2. l \in Nat \cup {NoLimit} /\ st.next + k \in Nat
  BY <1>1
<1>3. Advanced(st, k) = [st EXCEPT !.next = st.next + k, !.left = l]
  BY DEF Advanced, Kept
<1> HIDE DEF l
<1>4. /\ Advanced(st, k) \in Kept
      /\ Advanced(st, k).next = st.next + k /\ Advanced(st, k).end = st.end
      /\ Advanced(st, k).left = l
  BY <1>2, <1>3 DEF Kept
<1> QED
  BY <1>4 DEF l

(* A schedule that is not complete has an occurrence left.                 *)
LEMMA NextIs ==
    ASSUME NEW st \in Kept, ~ Completed(st)
    PROVE  Advanced(st, 1) \in Kept /\ Advanced(st, 1).next = st.next + 1
<1>1. st.left = NoLimit \/ 1 <= st.left
  BY DEF Completed, Kept
<1> QED
  BY <1>1, AdvancedIs

LEMMA FiniteLeast ==
    ASSUME NEW T \in SUBSET Nat, IsFiniteSet(T), T # {}
    PROVE  \E e \in T : \A m \in T : ~(m < e)
<1> DEFINE Below(x) == {m \in T : m < x}
           D == {Below(x) : x \in T}
<1>1. D \subseteq FiniteSubsetsOf(T) /\ D # {}
  <2>1. \A U \in D : U \subseteq T
    OBVIOUS
  <2>2. D # {}
    OBVIOUS
  <2> HIDE DEF D
  <2> QED
    BY <2>1, <2>2, FS_Subset DEF FiniteSubsetsOf
<1>2. PICK x \in D : \A y \in D : <<y, x>> \notin StrictSubsetOrdering(T)
  <2> HIDE DEF D
  <2> QED
    BY <1>1, FS_StrictSubsetOrderingWellFounded, WFMin
<1>3. PICK e \in T : x = Below(e)
  OBVIOUS
<1>4. ASSUME NEW m \in T, m < e
      PROVE  FALSE
  <2>1. Below(m) \in D /\ m \in Below(e) /\ m \notin Below(m)
    BY <1>4
  <2>2. Below(m) \subseteq Below(e)
    <3> SUFFICES ASSUME NEW k \in T, k < m PROVE k < e
      OBVIOUS
    <3> k \in Nat /\ m \in Nat /\ e \in Nat
      OBVIOUS
    <3> QED
      BY <1>4
  <2> HIDE DEF D
  <2>3. <<Below(m), x>> \in StrictSubsetOrdering(T)
    BY <1>3, <2>1, <2>2 DEF StrictSubsetOrdering
  <2> QED
    BY <1>2, <2>1, <2>3
<1> QED
  BY <1>4

(* A catch-up posts up to the first occurrence that is not due, and never  *)
(* more than are left.                                                     *)
LEMMA OverdueIs ==
    ASSUME NEW s \in Schedule, NEW st \in Kept, NEW day \in 0..MaxDay
    PROVE  /\ Overdue(s, st, day) \in Nat
           /\ st.left = NoLimit \/ Overdue(s, st, day) <= st.left
           /\ AutoPostDue(s, st, day) => Overdue(s, st, day) # 0
<1> DEFINE top == MaxDay + Lead[s] + 1
           Over(k) == ~ AutoPostDue(s, Advanced(st, k), day)
           Ends(k) == Over(k) /\ \A j \in 0..k - 1 : ~ Over(j)
           T == {k \in 0..top : Over(k)}
<1>1. /\ MaxDay \in Nat /\ Lead[s] \in Nat /\ top \in Nat /\ st.next \in Nat /\ day \in Int
      /\ day <= MaxDay /\ (st.left \in Nat \/ st.left = NoLimit)
  BY PostingAssumption DEF Kept
<1>2. \E b \in T : st.left = NoLimit \/ b <= st.left
  <2>1. CASE st.left # NoLimit /\ st.left <= top
    <3>1. st.left \in 0..top /\ Advanced(st, st.left).left = 0
      BY <1>1, <2>1, AdvancedIs
    <3> QED
      BY <2>1, <3>1, <1>1 DEF AutoPostDue, Completed
  <2>2. CASE st.left = NoLimit \/ top <= st.left
    <3>1. Advanced(st, top).next = st.next + top
      BY <1>1, <2>2, AdvancedIs
    <3>2. ~(st.next + top - Lead[s] <= day)
      BY <1>1
    <3> QED
      BY <1>1, <2>2, <3>1, <3>2 DEF AutoPostDue
  <2> HIDE DEF T
  <2> QED
    BY <1>1, <2>1, <2>2
<1>3. PICK b \in T : st.left = NoLimit \/ b <= st.left
  BY <1>2
<1>4. PICK e \in T : \A m \in T : ~(m < e)
  <2>1. T \subseteq 0..top /\ 0..top \subseteq Nat
    BY <1>1
  <2>0. IsFiniteSet(0..top)
    <3> HIDE DEF top
    <3> QED
      BY <1>1, FS_Interval
  <2>2. T \in SUBSET Nat /\ IsFiniteSet(T) /\ T # {}
    BY <2>0, <2>1, <1>3, FS_Subset
  <2> HIDE DEF T
  <2> QED
    BY <2>1, <2>2, FiniteLeast
<1> HIDE DEF Over
<1>5. e \in 0..top /\ Ends(e)
  BY <1>1, <1>4
<1>6. Overdue(s, st, day) = CHOOSE k \in 0..top : Ends(k)
  BY DEF Overdue, Over
<1>7. Overdue(s, st, day) \in 0..top /\ Ends(Overdue(s, st, day))
  BY <1>5, <1>6
<1>8. Overdue(s, st, day) <= b
  BY <1>1, <1>3, <1>7
<1>9. Advanced(st, 0) = st
  <2>1. /\ Advanced(st, 0) \in Kept /\ Advanced(st, 0).next = st.next + 0
        /\ Advanced(st, 0).end = st.end
        /\ Advanced(st, 0).left = IF st.left = NoLimit THEN NoLimit ELSE st.left - 0
    BY <1>1, AdvancedIs
  <2>2. Advanced(st, 0).next = st.next /\ Advanced(st, 0).left = st.left
    BY <1>1, <2>1
  <2> QED
    BY <2>1, <2>2 DEF Kept
<1>10. AutoPostDue(s, st, day) => Overdue(s, st, day) # 0
  BY <1>7, <1>9 DEF Over
<1> QED
  BY <1>1, <1>3, <1>7, <1>8, <1>10

----------------------------------------------------------------------------
(* Rows.                                                                   *)

(* The elements of a finite set of numbers are numbered by their rank.     *)
LEMMA Ranked ==
    ASSUME NEW F \in SUBSET Nat, IsFiniteSet(F), NEW i \in 1..Cardinality(F)
    PROVE  \E r \in F : Cardinality({x \in F : x <= r}) = i
<1> DEFINE Upto(r) == {x \in F : x <= r}
           rank == [r \in F |-> Cardinality(Upto(r))]
<1>1. Cardinality(F) \in Nat
  BY FS_CardinalityType
<1>2. ASSUME NEW r \in F
      PROVE  IsFiniteSet(Upto(r)) /\ Cardinality(Upto(r)) \in 1..Cardinality(F)
  <2>1. Upto(r) \subseteq F /\ r \in Upto(r)
    OBVIOUS
  <2> HIDE DEF Upto
  <2>2. /\ IsFiniteSet(Upto(r)) /\ Cardinality(Upto(r)) <= Cardinality(F)
        /\ Cardinality(Upto(r)) \in Nat
    BY <2>1, FS_Subset, FS_CardinalityType
  <2>3. Cardinality(Upto(r)) # 0
    BY <2>1, <2>2, FS_EmptySet
  <2> QED
    BY <1>1, <2>2, <2>3
<1>3. ASSUME NEW p \in F, NEW q \in F, p < q
      PROVE  Cardinality(Upto(p)) < Cardinality(Upto(q))
  <2>1. Upto(p) \subseteq Upto(q) /\ q \in Upto(q) /\ q \notin Upto(p)
    <3>1. \A x \in F : x \in Nat
      OBVIOUS
    <3>2. p \in Nat /\ q \in Nat
      BY <3>1
    <3>3. \A x \in F : x <= p => x <= q
      BY <1>3, <3>1, <3>2
    <3>4. q <= q /\ ~(q <= p)
      BY <1>3, <3>2
    <3>5. Upto(p) \subseteq Upto(q)
      BY <3>3
    <3> QED
      BY <3>4, <3>5
  <2>2. IsFiniteSet(Upto(q)) /\ Upto(p) # Upto(q)
    BY <1>2, <2>1
  <2> HIDE DEF Upto
  <2>3. /\ Cardinality(Upto(p)) <= Cardinality(Upto(q))
        /\ Cardinality(Upto(p)) # Cardinality(Upto(q))
    BY <2>1, <2>2, FS_Subset
  <2> QED
    BY <1>2, <2>3
<1>4. rank \in Injection(F, 1..Cardinality(F))
  <2>1. rank \in [F -> 1..Cardinality(F)]
    BY <1>2
  <2>2. ASSUME NEW p \in F, NEW q \in F, rank[p] = rank[q]
        PROVE  p = q
    <3>1. Cardinality(Upto(p)) = Cardinality(Upto(q)) /\ Cardinality(Upto(p)) \in Nat
      BY <2>2, <1>2
    <3>2. ASSUME p < q PROVE FALSE
      BY <3>1, <3>2, <1>3
    <3>3. ASSUME q < p PROVE FALSE
      BY <3>1, <3>3, <1>3
    <3>4. p \in Nat /\ q \in Nat
      OBVIOUS
    <3>5. ~(p < q) /\ ~(q < p)
      BY <3>2, <3>3
    <3>6. \A a, b \in Nat : ~(a < b) /\ ~(b < a) => a = b
      OBVIOUS
    <3> QED
      BY <3>4, <3>5, <3>6
  <2> HIDE DEF rank
  <2> QED
    BY <2>1, <2>2 DEF Injection, IsInjective
<1>5. rank \in Surjection(F, 1..Cardinality(F))
  <2> HIDE DEF rank
  <2>1. IsFiniteSet(1..Cardinality(F)) /\ Cardinality(1..Cardinality(F)) = Cardinality(F)
    BY <1>1, FS_Interval
  <2> QED
    BY <1>4, <2>1, FS_Injection
<1>6. PICK r \in F : rank[r] = i
  <2> HIDE DEF rank
  <2> QED
    BY <1>5 DEF Surjection
<1> QED
  BY <1>6

LEMMA FreshIs ==
    ASSUME NEW i \in 1..Cardinality(Fresh)
    PROVE  /\ FreshRow(i) \in RowId /\ FreshRow(i) \in Fresh
           /\ Cardinality({x \in Fresh : x <= FreshRow(i)}) = i
<1>1. Fresh \subseteq RowId /\ Fresh \in SUBSET Nat
  BY PostingAssumption DEF Fresh
<1>2. IsFiniteSet(Fresh)
  BY <1>1, PostingAssumption, FS_Subset
<1>3. \E r \in Fresh : Cardinality({x \in Fresh : x <= r}) = i
  <2> HIDE DEF Fresh
  <2> QED
    BY <1>1, <1>2, Ranked
<1>4. FreshRow(i) \in Fresh /\ Cardinality({x \in Fresh : x <= FreshRow(i)}) = i
  <2> HIDE DEF Fresh
  <2> QED
    BY <1>3 DEF FreshRow
<1> QED
  BY <1>1, <1>4

LEMMA FirstFresh == Fresh # {} => 1 \in 1..Cardinality(Fresh)
<1>1. IsFiniteSet(Fresh)
  BY PostingAssumption, FS_Subset DEF Fresh
<1>2. Fresh # {} => Cardinality(Fresh) \in Nat /\ Cardinality(Fresh) # 0
  BY <1>1, FS_CardinalityType, FS_EmptySet
<1> QED
  BY <1>2

----------------------------------------------------------------------------
(* The stacks as sequences.                                                *)

LEMMA Pushed ==
    ASSUME NEW S, NEW s \in Seq(S), NEW e \in S
    PROVE  /\ Append(s, e) \in Seq(S) /\ Append(s, e) # <<>>
           /\ Len(Append(s, e)) = Len(s) + 1
           /\ DOMAIN Append(s, e) = DOMAIN s \cup {Len(s) + 1}
           /\ \A i \in DOMAIN s : Append(s, e)[i] = s[i] /\ i < Len(s) + 1
           /\ Append(s, e)[Len(s) + 1] = e /\ Last(Append(s, e)) = e
           /\ DOMAIN s \subseteq Nat /\ Len(s) \in Nat
<1>1. Len(s) \in Nat /\ DOMAIN s = 1..Len(s) /\ Len(Append(s, e)) = Len(s) + 1
  OBVIOUS
<1>2. DOMAIN Append(s, e) = 1..(Len(s) + 1)
  BY <1>1
<1> QED
  BY <1>1, <1>2 DEF Last

LEMMA Popped ==
    ASSUME NEW S, NEW s \in Seq(S), s # <<>>
    PROVE  /\ Front(s) \in Seq(S) /\ Last(s) \in S
           /\ Len(Front(s)) = Len(s) - 1
           /\ DOMAIN Front(s) = DOMAIN s \ {Len(s)}
           /\ \A i \in DOMAIN Front(s) : Front(s)[i] = s[i] /\ i < Len(s)
           /\ Last(s) = s[Len(s)] /\ Len(s) \in DOMAIN s /\ DOMAIN s \subseteq Nat
           /\ DOMAIN s = 1..Len(s) /\ Len(s) \in Nat \ {0}
<1>1. Len(s) \in Nat \ {0} /\ DOMAIN s = 1..Len(s)
  OBVIOUS
<1>2. Front(s) = [i \in 1..(Len(s) - 1) |-> s[i]] /\ Front(s) \in Seq(S)
  BY <1>1 DEF Front
<1>3. DOMAIN Front(s) = 1..(Len(s) - 1)
  BY <1>2
<1> QED
  BY <1>1, <1>2, <1>3 DEF Last

LEMMA FrontIn == ASSUME NEW S, NEW s \in Seq(S) PROVE Front(s) \in Seq(S)
<1>1. CASE s # <<>>
  BY <1>1, Popped
<1>2. CASE s = <<>>
  BY <1>2 DEF Front
<1> QED
  BY <1>1, <1>2

(* Taking the first off, with or without a replacement.                    *)
LEMMA Shifted ==
    ASSUME NEW S, NEW s \in Seq(S), s # <<>>
    PROVE  /\ Tail(s) \in Seq(S) /\ Head(s) \in S /\ Head(s) = s[1]
           /\ Len(s) \in Nat \ {0} /\ DOMAIN s = 1..Len(s)
           /\ Len(Tail(s)) = Len(s) - 1 /\ DOMAIN Tail(s) = 1..(Len(s) - 1)
           /\ \A i \in DOMAIN Tail(s) : Tail(s)[i] = s[i + 1]
           /\ Tail(s) = <<>> <=> Len(s) = 1
<1>1. Len(s) \in Nat \ {0} /\ DOMAIN s = 1..Len(s)
  OBVIOUS
<1>2. Tail(s) \in Seq(S) /\ Head(s) \in S /\ Head(s) = s[1] /\ Len(Tail(s)) = Len(s) - 1
  BY <1>1
<1>3. DOMAIN Tail(s) = 1..(Len(s) - 1) /\ \A i \in DOMAIN Tail(s) : Tail(s)[i] = s[i + 1]
  BY <1>1
<1>4. Tail(s) = <<>> <=> Len(s) = 1
  BY <1>1, <1>2
<1> QED
  BY <1>1, <1>2, <1>3, <1>4

LEMMA Replaced ==
    ASSUME NEW S, NEW s \in Seq(S), s # <<>>, NEW e \in S
    PROVE  /\ <<e>> \o Tail(s) \in Seq(S) /\ <<e>> \o Tail(s) # <<>>
           /\ Len(<<e>> \o Tail(s)) = Len(s) /\ DOMAIN (<<e>> \o Tail(s)) = DOMAIN s
           /\ \A i \in DOMAIN s : (<<e>> \o Tail(s))[i] = IF i = 1 THEN e ELSE s[i]
<1> DEFINE q == <<e>> \o Tail(s)
<1>1. /\ Tail(s) \in Seq(S) /\ Len(s) \in Nat \ {0} /\ DOMAIN s = 1..Len(s)
      /\ Len(Tail(s)) = Len(s) - 1 /\ DOMAIN Tail(s) = 1..(Len(s) - 1)
      /\ \A i \in DOMAIN Tail(s) : Tail(s)[i] = s[i + 1]
  BY Shifted
<1>2. <<e>> \in Seq(S) /\ Len(<<e>>) = 1 /\ <<e>>[1] = e
  OBVIOUS
<1>3. q \in Seq(S) /\ Len(q) = Len(s)
  BY <1>1, <1>2
<1>4. DOMAIN q = 1..Len(s) /\ q # <<>>
  <2> HIDE DEF q
  <2> QED
    BY <1>1, <1>3
<1>5. ASSUME NEW i \in 1..Len(s)
      PROVE  q[i] = IF i = 1 THEN e ELSE s[i]
  <2>1. q[i] = IF i <= 1 THEN <<e>>[i] ELSE Tail(s)[i - 1]
    BY <1>1, <1>2
  <2>2. i # 1 => i - 1 \in DOMAIN Tail(s) /\ i - 1 + 1 = i
    BY <1>1
  <2> QED
    BY <1>1, <1>2, <2>1, <2>2
<1> QED
  BY <1>1, <1>3, <1>4, <1>5

----------------------------------------------------------------------------
(* Commands and the writes that take them back.                            *)

LEMMA CmdKinds ==
    ASSUME NEW c \in Cmd
    PROVE  /\ c.op \in {"post", "skip", "delete", "edit", "auto"}
           /\ c.op = "post" => c \in [op : {"post"}, sched : Schedule, occ : Nat,
                                     row : RowId, before : Kept]
           /\ c.op \in {"skip", "delete"} =>
                c \in [op : {"skip", "delete"}, sched : Schedule, before : Kept]
           /\ c.op = "edit" => c \in [op : {"edit"}, sched : Schedule,
                                     before : Kept, after : Kept]
           /\ c.op = "auto" => c \in [op : {"auto"}, entries : Seq(Entry) \ {<<>>}]
           /\ c.op # "auto" => c.sched \in Schedule /\ c.before \in Kept
BY DEF Cmd

LEMMA RowsAre == ASSUME NEW c \in Cmd PROVE \A r \in RowsOf(c) : r \in RowId
<1>1. CASE c.op = "post"
  BY <1>1, CmdKinds DEF RowsOf
<1>2. CASE c.op = "auto"
  <2>1. c.entries \in Seq(Entry)
    BY <1>2, CmdKinds
  <2>2. \A e \in Range(c.entries) : e.rows \in Seq(RowId)
    <3>1. \A e \in Range(c.entries) : e \in Entry
      BY <2>1 DEF Range
    <3>2. \A e \in Entry : e.rows \in Seq(RowId)
      BY DEF Entry
    <3> QED
      BY <3>1, <3>2
  <2>3. \A e \in Range(c.entries) : \A r \in Range(e.rows) : r \in RowId
    BY <2>2 DEF Range
  <2> QED
    BY <1>2, <2>3 DEF RowsOf
<1>3. CASE c.op \notin {"post", "auto"}
  BY <1>3 DEF RowsOf
<1> QED
  BY <1>1, <1>2, <1>3

LEMMA TaskKinds ==
    ASSUME NEW w \in Task
    PROVE  /\ w.do \in {"drop", "put", "again"}
           /\ w.do = "drop" => w.rows \in Seq(RowId)
           /\ w.do # "drop" => w.sched \in Schedule /\ w.st \in Kept
BY DEF Task

(* What the view offers, with the state it reads when it runs.             *)
LEMMA OfferedIs ==
    ASSUME Types, NEW c \in Offered, NEW b \in Kept
    PROVE  /\ [c EXCEPT !.before = b] \in Cmd
           /\ [c EXCEPT !.before = b].before = b
           /\ [c EXCEPT !.before = b].op = c.op /\ [c EXCEPT !.before = b].sched = c.sched
           /\ c.op # "auto" /\ c.sched \in Schedule /\ view[c.sched] # Gone
           /\ c.op = "post" => [c EXCEPT !.before = b].occ = view[c.sched].next
           /\ c.op = "edit" => [c EXCEPT !.before = b].after.next = view[c.sched].next
<1>1. \A s \in Shown : s \in Schedule /\ view[s] \in Kept /\ view[s].next \in Nat
                        /\ view[s] # Gone
  BY PostingAssumption DEF Types, Kept, Shown
<1>2. CASE \E s \in Shown, r \in IF Fresh = {} THEN {} ELSE {FreshRow(1)} :
             c = [op |-> "post", sched |-> s, occ |-> view[s].next, row |-> r,
                  before |-> NotRead]
  <2>1. FreshRow(1) \in RowId \/ Fresh = {}
    BY FirstFresh, FreshIs
  <2> QED
    BY <1>1, <1>2, <2>1 DEF Cmd
<1>3. CASE c \in [op : {"skip", "delete"}, sched : Shown, before : {NotRead}]
  BY <1>1, <1>3 DEF Cmd
<1>4. CASE \E s \in Shown, n \in Rearm :
             c = [op |-> "edit", sched |-> s, before |-> NotRead, after |-> Edited(view[s], n)]
  <2>1. PICK s \in Shown, n \in Rearm :
          c = [op |-> "edit", sched |-> s, before |-> NotRead, after |-> Edited(view[s], n)]
    BY <1>4
  <2>2. Edited(view[s], n) \in Kept /\ Edited(view[s], n).next = view[s].next
    BY <1>1, PostingAssumption DEF Kept, Edited
  <2> QED
    BY <1>1, <2>1, <2>2 DEF Cmd
<1> QED
  BY <1>2, <1>3, <1>4 DEF Offered

(* A command run again, with the state it reads now.                       *)
LEMMA ReadAgain ==
    ASSUME NEW c \in Cmd, c.op # "auto", NEW b \in Kept
    PROVE  /\ [c EXCEPT !.before = b] \in Cmd
           /\ [c EXCEPT !.before = b].before = b
           /\ [c EXCEPT !.before = b].op = c.op /\ [c EXCEPT !.before = b].sched = c.sched
           /\ c.op = "post" => [c EXCEPT !.before = b].occ = c.occ
           /\ c.op = "edit" => [c EXCEPT !.before = b].after = c.after
BY CmdKinds DEF Cmd

LEMMA Reversed ==
    ASSUME NEW S, NEW s \in Seq(S)
    PROVE  /\ Reverse(s) \in Seq(S) /\ Len(Reverse(s)) = Len(s)
           /\ \A i \in 1..Len(s) : Reverse(s)[i] = s[Len(s) - i + 1]
<1>1. Len(s) \in Nat /\ \A i \in 1..Len(s) : Len(s) - i + 1 \in 1..Len(s)
  OBVIOUS
<1>2. Reverse(s) = [i \in 1..Len(s) |-> s[Len(s) - i + 1]]
  BY DEF Reverse
<1>3. Reverse(s) \in Seq(S) /\ Len(Reverse(s)) = Len(s)
  BY <1>1, <1>2
<1> QED
  BY <1>1, <1>2, <1>3

LEMMA Joined ==
    ASSUME NEW S, NEW s \in Seq(S), NEW q \in Seq(S)
    PROVE  /\ s \o q \in Seq(S) /\ Len(s \o q) = Len(s) + Len(q)
           /\ Len(s) \in Nat /\ Len(q) \in Nat
           /\ DOMAIN (s \o q) = 1..(Len(s) + Len(q))
           /\ \A i \in 1..Len(s) : (s \o q)[i] = s[i]
           /\ \A i \in 1..Len(q) : (s \o q)[Len(s) + i] = q[i]
<1>1. Len(s) \in Nat /\ Len(q) \in Nat /\ s \o q \in Seq(S) /\ Len(s \o q) = Len(s) + Len(q)
  OBVIOUS
<1>2. DOMAIN (s \o q) = 1..(Len(s) + Len(q))
  BY <1>1
<1>3. \A i \in 1..Len(s) : (s \o q)[i] = s[i]
  BY <1>1
<1>4. \A i \in 1..Len(q) : (s \o q)[Len(s) + i] = q[i]
  BY <1>1
<1> QED
  BY <1>1, <1>2, <1>3, <1>4

(* First every drop, then every schedule is put back.                      *)
LEMMA AutoReversalIs ==
    ASSUME NEW es \in Seq(Entry), es # <<>>
    PROVE  /\ Len(es) \in Nat \ {0} /\ DOMAIN es = 1..Len(es)
           /\ AutoReversal(es) \in Seq(Task) /\ Len(AutoReversal(es)) = 2 * Len(es)
           /\ DOMAIN AutoReversal(es) = 1..(2 * Len(es))
           /\ \A i \in 1..Len(es) :
                AutoReversal(es)[i] = Drop(es[Len(es) - i + 1].rows)
           /\ \A i \in (Len(es) + 1)..(2 * Len(es)) :
                AutoReversal(es)[i] = Put(es[i - Len(es)].sched, es[i - Len(es)].before)
<1> DEFINE n == Len(es)
           f == [i \in 1..n |-> Drop(es[i].rows)]
           g == [i \in 1..n |-> Put(es[i].sched, es[i].before)]
<1>1. n \in Nat \ {0} /\ DOMAIN es = 1..n
  OBVIOUS
<1>2. AutoReversal(es) = Reverse(f) \o g
  BY <1>1 DEF AutoReversal
<1> HIDE DEF n
<1>3. \A i \in 1..n : es[i] \in Entry
  BY <1>1 DEF n
<1>4. \A e \in Entry : Drop(e.rows) \in Task /\ Put(e.sched, e.before) \in Task
  BY DEF Drop, Put, Task, Entry
<1>5. f \in Seq(Task) /\ Len(f) = n /\ g \in Seq(Task) /\ Len(g) = n
  BY <1>1, <1>3, <1>4
<1>6. /\ Reverse(f) \in Seq(Task) /\ Len(Reverse(f)) = n
      /\ \A i \in 1..n : Reverse(f)[i] = f[n - i + 1]
      /\ g \in Seq(Task) /\ Len(g) = n
  <2> HIDE DEF f, g
  <2>1. /\ Reverse(f) \in Seq(Task) /\ Len(Reverse(f)) = Len(f)
        /\ \A i \in 1..Len(f) : Reverse(f)[i] = f[Len(f) - i + 1]
    BY <1>5, Reversed
  <2> QED
    BY <1>5, <2>1
<1>7. \A i \in 1..n : n - i + 1 \in 1..n
  BY <1>1
<1>8. \A i \in 1..n : Reverse(f)[i] = Drop(es[n - i + 1].rows)
  BY <1>6, <1>7
<1>9. \A i \in 1..n : g[i] = Put(es[i].sched, es[i].before)
  OBVIOUS
<1> HIDE DEF f, g
<1> DEFINE a == Reverse(f)
<1> HIDE DEF a
<1>10. /\ a \in Seq(Task) /\ Len(a) = n /\ g \in Seq(Task) /\ Len(g) = n
       /\ AutoReversal(es) = a \o g /\ \A i \in 1..n : a[i] = Drop(es[n - i + 1].rows)
  BY <1>2, <1>6, <1>8 DEF a
<1>11. /\ a \o g \in Seq(Task) /\ Len(a \o g) = n + n /\ DOMAIN (a \o g) = 1..(n + n)
       /\ \A i \in 1..n : (a \o g)[i] = a[i]
       /\ \A i \in 1..n : (a \o g)[n + i] = g[i]
  <2>1. /\ a \o g \in Seq(Task) /\ Len(a \o g) = Len(a) + Len(g)
        /\ DOMAIN (a \o g) = 1..(Len(a) + Len(g))
        /\ \A i \in 1..Len(a) : (a \o g)[i] = a[i]
        /\ \A i \in 1..Len(g) : (a \o g)[Len(a) + i] = g[i]
    <3>1. a \in Seq(Task) /\ g \in Seq(Task)
      BY <1>10
    <3> QED
      BY <3>1, Joined
  <2>2. Len(a) = n /\ Len(g) = n
    BY <1>10
  <2> QED
    BY <2>1, <2>2
<1>12. ASSUME NEW i \in (n + 1)..(2 * n)
       PROVE  (a \o g)[i] = Put(es[i - n].sched, es[i - n].before)
  <2>1. i - n \in 1..n /\ n + (i - n) = i
    BY <1>1
  <2>2. (a \o g)[n + (i - n)] = g[i - n]
    BY <1>11, <2>1
  <2> QED
    BY <1>9, <2>1, <2>2
<1>13. n + n = 2 * n
  BY <1>1
<1>14. \A i \in 1..n : (a \o g)[i] = Drop(es[n - i + 1].rows)
  BY <1>10, <1>11
<1>15. /\ AutoReversal(es) \in Seq(Task) /\ Len(AutoReversal(es)) = 2 * n
       /\ DOMAIN AutoReversal(es) = 1..(2 * n)
       /\ \A i \in 1..n : AutoReversal(es)[i] = Drop(es[n - i + 1].rows)
       /\ \A i \in (n + 1)..(2 * n) :
            AutoReversal(es)[i] = Put(es[i - n].sched, es[i - n].before)
  BY <1>10, <1>11, <1>12, <1>13, <1>14
<1> QED
  BY <1>1, <1>15 DEF n

LEMMA ReversalOf ==
    ASSUME NEW c \in Cmd
    PROVE  Reversal(c) \in Seq(Task) /\ Reversal(c) # <<>>
<1>1. CASE c.op = "post"
  <2>1. Drop(<<c.row>>) \in Task /\ Put(c.sched, c.before) \in Task
    BY <1>1, CmdKinds DEF Drop, Put, Task
  <2> QED
    BY <1>1, <2>1 DEF Reversal
<1>2. CASE c.op \in {"skip", "edit"}
  <2>1. Put(c.sched, c.before) \in Task
    BY <1>2, CmdKinds DEF Put, Task
  <2> QED
    BY <1>2, <2>1 DEF Reversal
<1>3. CASE c.op = "delete"
  <2>1. Again(c.sched, c.before) \in Task
    BY <1>3, CmdKinds DEF Again, Task
  <2> QED
    BY <1>3, <2>1 DEF Reversal
<1>4. CASE c.op = "auto"
  <2> DEFINE es == c.entries
  <2>1. es \in Seq(Entry) /\ es # <<>> /\ Reversal(c) = AutoReversal(es)
    BY <1>4, CmdKinds DEF Reversal
  <2> HIDE DEF es
  <2>2. AutoReversal(es) \in Seq(Task) /\ Len(AutoReversal(es)) # 0
    BY <2>1, AutoReversalIs
  <2> QED
    BY <2>1, <2>2
<1> QED
  BY <1>1, <1>2, <1>3, <1>4, CmdKinds

----------------------------------------------------------------------------
(* What the variables hold, whatever the user does early.                  *)

Batch == [day : 0..MaxDay, entries : Seq(Entry), todo : SUBSET Listed]

LEMMA RunningIs ==
    ASSUME Types, Running
    PROVE  /\ batch \in Batch /\ batch.entries \in Seq(Entry) /\ batch.todo \subseteq Listed
           /\ batch.day \in 0..MaxDay
           /\ \A c \in batch.todo : c.sched \in AutoPosting /\ c.sched \in Schedule /\ c.st \in Kept
BY PostingAssumption DEF Types, BatchTypes, Running, Batch, Listed

LEMMA ListTypes == ASSUME Types, AutoList PROVE Types'
<1> DEFINE todo == {[sched |-> s, st |-> sched[s]] : s \in
                     {x \in AutoPosting : sched[x] # Gone /\ AutoPostDue(x, sched[x], today)}}
<1>1. todo \subseteq Listed
  BY PostingAssumption DEF Types, Listed
<1>2. batch' = [day |-> today, entries |-> <<>>, todo |-> todo]
  BY DEF AutoList
<1> HIDE DEF todo
<1>3. BatchTypes'
  BY <1>1, <1>2 DEF Types, BatchTypes
<1> QED
  BY <1>3 DEF Types, AutoList, LaneTypes

(* The rows of a catch-up and the schedule after it.                       *)
Caught(c, new) ==
    /\ new \in Seq(RowId)
    /\ Advanced(c.st, Len(new)) \in Kept
    /\ Advanced(c.st, Len(new)).next = c.st.next + Len(new)
    /\ sched' = [sched EXCEPT ![c.sched] = Advanced(c.st, Len(new))]
    /\ rows' \in [RowId -> Post \cup {NoRow}]
    /\ \A r \in RowId :
         IF r \in Range(new)
         THEN \E i \in DOMAIN new : /\ new[i] = r
                                    /\ rows'[r] = Posting(c.sched, c.st.next - 1 + i)
                                    /\ \A q \in RowId : rows'[q] = rows'[r] /\ q \in Range(new)
                                         => q = r
         ELSE rows'[r] = rows[r]
    /\ batch' \in Batch /\ batch'.todo = batch.todo \ {c}
    /\ batch'.entries = Append(batch.entries, [sched |-> c.sched, rows |-> new,
                                               before |-> c.st])
    /\ [sched |-> c.sched, rows |-> new, before |-> c.st] \in Entry

NewRows(c) == [i \in 1..Overdue(c.sched, c.st, batch.day) |-> FreshRow(i)]

LEMMA CaughtIs ==
    ASSUME Types, Running, NEW c \in batch.todo, AutoPost(c)
    PROVE  Caught(c, NewRows(c))
<1> DEFINE n == Overdue(c.sched, c.st, batch.day)
           new == [i \in 1..n |-> FreshRow(i)]
           at(r) == CHOOSE i \in 1..n : new[i] = r
           e == [sched |-> c.sched, rows |-> new, before |-> c.st]
<1>1. /\ c.sched \in Schedule /\ c.st \in Kept /\ c.st.next \in Nat
      /\ batch \in Batch /\ batch.day \in 0..MaxDay
  BY RunningIs DEF Kept
<1>2. n \in Nat /\ (c.st.left = NoLimit \/ n <= c.st.left)
  BY <1>1, OverdueIs
<1>3. n <= Cardinality(Fresh) /\ CatchUp(c, n)
      /\ sched' = [sched EXCEPT ![c.sched] = Advanced(c.st, n)]
  BY DEF AutoPost
<1> HIDE DEF n
<1>4. \A i \in 1..n : FreshRow(i) \in RowId
  <2>1. Cardinality(Fresh) \in Nat
    BY PostingAssumption, FS_Subset, FS_CardinalityType DEF Fresh
  <2>2. \A i \in 1..n : i \in 1..Cardinality(Fresh)
    BY <1>2, <1>3, <2>1
  <2> QED
    BY <2>2, FreshIs
<1>5. new \in Seq(RowId) /\ Len(new) = n /\ DOMAIN new = 1..n
  BY <1>2, <1>4
<1>6. rows' = [r \in RowId |-> IF r \in Range(new)
                THEN Posting(c.sched, c.st.next - 1 + at(r)) ELSE rows[r]]
      /\ batch' = [batch EXCEPT !.todo = @ \ {c}, !.entries = Append(@, e)]
  BY <1>3 DEF CatchUp
<1> HIDE DEF new
<1>7. \A r \in Range(new) : at(r) \in 1..n /\ new[at(r)] = r
  BY <1>5 DEF Range
<1> HIDE DEF at
<1>8. e \in Entry
  BY <1>1, <1>5 DEF Entry
<1>9. /\ batch' \in Batch /\ batch'.todo = batch.todo \ {c}
      /\ batch'.entries = Append(batch.entries, e)
  <2> HIDE DEF e
  <2>1. Append(batch.entries, e) \in Seq(Entry)
    BY <1>1, <1>8 DEF Batch
  <2> QED
    BY <1>1, <1>6, <2>1 DEF Batch
<1>10. ASSUME NEW r \in RowId
       PROVE  IF r \in Range(new)
              THEN /\ at(r) \in DOMAIN new /\ new[at(r)] = r
                   /\ rows'[r] = Posting(c.sched, c.st.next - 1 + at(r))
                   /\ rows'[r] \in Post
              ELSE rows'[r] = rows[r]
  <2>1. CASE r \in Range(new)
    <3>1. c.st.next - 1 + at(r) \in Nat
      BY <1>1, <1>2, <1>7, <2>1
    <3> QED
      BY <1>1, <1>5, <1>6, <1>7, <2>1, <3>1 DEF Posting, Post
  <2>2. CASE r \notin Range(new)
    BY <1>6, <2>2
  <2> QED
    BY <2>1, <2>2
<1>11. rows' \in [RowId -> Post \cup {NoRow}]
  <2>1. DOMAIN rows' = RowId /\ rows' = [r \in RowId |-> rows'[r]]
    BY <1>6
  <2>2. \A r \in RowId : rows'[r] \in Post \cup {NoRow}
    BY <1>10 DEF Types
  <2> QED
    BY <2>1, <2>2
<1>12. ASSUME NEW r \in RowId, NEW q \in RowId, r \in Range(new), q \in Range(new),
              rows'[q] = rows'[r]
       PROVE  q = r
  <2>1. at(q) = at(r)
    <3>1. /\ rows'[q] = Posting(c.sched, c.st.next - 1 + at(q))
          /\ rows'[r] = Posting(c.sched, c.st.next - 1 + at(r))
          /\ at(q) \in 1..n /\ at(r) \in 1..n
      BY <1>7, <1>10, <1>12
    <3>2. c.st.next - 1 + at(q) = c.st.next - 1 + at(r)
      <4>1. \A k, m : Posting(c.sched, k) = Posting(c.sched, m) => k = m
        BY DEF Posting
      <4>2. Posting(c.sched, c.st.next - 1 + at(q)) = Posting(c.sched, c.st.next - 1 + at(r))
        BY <1>12, <3>1
      <4> QED
        BY <4>1, <4>2
    <3> QED
      BY <1>1, <1>2, <3>1, <3>2
  <2> QED
    BY <1>7, <1>12, <2>1
<1>13. ASSUME NEW r \in RowId
       PROVE  IF r \in Range(new)
         THEN \E i \in DOMAIN new : /\ new[i] = r
                                    /\ rows'[r] = Posting(c.sched, c.st.next - 1 + i)
                                    /\ \A q \in RowId : rows'[q] = rows'[r] /\ q \in Range(new)
                                         => q = r
         ELSE rows'[r] = rows[r]
  BY <1>10, <1>12
<1>14. Advanced(c.st, n) \in Kept /\ Advanced(c.st, n).next = c.st.next + n
  BY <1>1, <1>2, AdvancedIs
<1> QED
  <2>1. Caught(c, new)
    BY <1>3, <1>5, <1>8, <1>9, <1>11, <1>13, <1>14 DEF Caught
  <2> QED
    BY <2>1 DEF new, n, NewRows

LEMMA CandidateTypes == ASSUME Types, AutoCandidate PROVE Types'
<1>1. PICK c \in Candidates : AutoSkip(c) \/ AutoAbort(c) \/ AutoPost(c)
  BY DEF AutoCandidate
<1>2. c \in batch.todo /\ Running
  BY <1>1 DEF Candidates, AutoCandidate
<1>3. /\ UNCHANGED <<today, view, undoStack, redoStack>> /\ LaneTypes'
  BY DEF AutoCandidate, Types, LaneTypes
<1>4. CASE AutoSkip(c)
  <2>1. BatchTypes'
    BY <1>2, <1>4, RunningIs DEF AutoSkip, BatchTypes, Batch
  <2> QED
    BY <1>3, <1>4, <2>1 DEF AutoSkip, store, Types
<1>5. CASE AutoAbort(c)
  <2>1. BatchTypes'
    BY <1>5 DEF AutoAbort, BatchTypes
  <2> QED
    BY <1>3, <1>5, <2>1 DEF AutoAbort, store, Types
<1>6. CASE AutoPost(c)
  <2>1. PICK new : Caught(c, new)
    BY <1>2, <1>6, CaughtIs
  <2>2. BatchTypes' /\ c.sched \in Schedule
    BY <1>2, <2>1, RunningIs DEF Caught, BatchTypes, Batch
  <2>3. sched' \in [Schedule -> Kept \cup {Gone}]
    BY <2>1, <2>2 DEF Caught, Types
  <2>4. rows' \in [RowId -> Post \cup {NoRow}]
    BY <2>1 DEF Caught
  <2> QED
    BY <1>3, <2>2, <2>3, <2>4 DEF Types
<1> QED
  BY <1>1, <1>4, <1>5, <1>6

LEMMA FinishTypes == ASSUME Types, AutoFinish PROVE Types'
<1>1. Running /\ batch.entries \in Seq(Entry)
  BY RunningIs DEF AutoFinish
<1>2. BatchTypes'
  BY DEF AutoFinish, BatchTypes
<1>3. undoStack' \in Seq(Cmd) /\ redoStack' \in Seq(Cmd)
  <2>1. CASE batch.entries = <<>>
    BY <2>1 DEF AutoFinish, Types
  <2>2. CASE batch.entries # <<>>
    <3>1. [op |-> "auto", entries |-> batch.entries] \in Cmd
      BY <1>1, <2>2 DEF Cmd
    <3>2. /\ undoStack' = Append(undoStack, [op |-> "auto", entries |-> batch.entries])
          /\ redoStack' = <<>> /\ undoStack \in Seq(Cmd)
      BY <2>2 DEF AutoFinish, Types
    <3>3. undoStack' \in Seq(Cmd)
      BY <3>1, <3>2, Pushed
    <3> QED
      BY <3>2, <3>3
  <2> QED
    BY <2>1, <2>2
<1> QED
  BY <1>2, <1>3 DEF AutoFinish, Types, LaneTypes

(* A command the lane takes up, with the state it reads.                   *)
LEMMA StartIs ==
    ASSUME Types, NEW how \in {"do", "redo"}, NEW c, Start(how, c),
           c \in Offered \/ (c \in Cmd /\ c.op # "auto")
    PROVE  /\ lane' \in [how : {"do", "redo", "undo"}, cmd : Cmd, st : Kept \cup {NotRead},
                         todo : Seq(Task)]
           /\ lane'.how = how /\ lane'.cmd = [c EXCEPT !.before = sched[c.sched]]
           /\ lane'.cmd.op = c.op /\ lane'.cmd.op # "auto"
           /\ lane'.cmd.sched = c.sched /\ c.sched \in Schedule
           /\ lane'.cmd.before = sched[c.sched] /\ sched[c.sched] \in Kept
           /\ lane'.st = NotRead
<1>1. c.sched \in Schedule /\ c.op # "auto"
  <2>1. CASE c \in Cmd /\ c.op # "auto"
    BY <2>1, CmdKinds
  <2>2. CASE c \in Offered
    <3>1. PICK b \in Kept : b = [next |-> 0, left |-> 0, end |-> 0]
      BY DEF Kept
    <3> QED
      BY <2>2, <3>1, OfferedIs
  <2> QED
    BY <2>1, <2>2
<1>2. sched[c.sched] \in Kept
  BY <1>1 DEF Start, Types
<1> DEFINE d == [c EXCEPT !.before = sched[c.sched]]
<1>3. d \in Cmd /\ d.before = sched[c.sched] /\ d.op = c.op /\ d.sched = c.sched
  BY <1>1, <1>2, OfferedIs, ReadAgain
<1>4. lane' = [how |-> how, cmd |-> d, st |-> NotRead, todo |-> <<>>]
  BY DEF Start
<1> HIDE DEF d
<1>5. lane' \in [how : {"do", "redo", "undo"}, cmd : Cmd, st : Kept \cup {NotRead},
                 todo : Seq(Task)]
  BY <1>3, <1>4
<1>6. lane'.how = how /\ lane'.cmd = d /\ lane'.st = NotRead
  BY <1>4
<1>7. /\ lane'.cmd.op = c.op /\ lane'.cmd.op # "auto" /\ lane'.cmd.sched = c.sched
      /\ lane'.cmd.before = sched[c.sched]
  BY <1>1, <1>3, <1>6
<1>8. lane'.cmd = [c EXCEPT !.before = sched[c.sched]]
  BY <1>6 DEF d
<1> QED
  BY <1>1, <1>2, <1>5, <1>6, <1>7, <1>8

LEMMA StartTypes ==
    ASSUME Types, NEW how \in {"do", "redo"}, NEW c, Start(how, c),
           c \in Offered \/ (c \in Cmd /\ c.op # "auto")
    PROVE  Types'
<1>1. LaneTypes'
  BY StartIs DEF LaneTypes
<1> QED
  BY <1>1 DEF Start, Types, BatchTypes

LEMMA RunTypes == ASSUME Types, Execute \/ Redo \/ RedoAuto PROVE Types'
<1>1. CASE Execute
  <2>1. PICK c \in Offered : Start("do", c)
    BY <1>1 DEF Execute
  <2> QED
    BY <2>1, StartTypes
<1>2. CASE Redo
  <2>1. PICK c : c = Last(redoStack)
    OBVIOUS
  <2>2. c \in Cmd /\ c.op # "auto" /\ Start("redo", c)
    BY <1>2, <2>1, Popped DEF Redo, Types
  <2> QED
    BY <2>2, StartTypes
<1>3. CASE RedoAuto
  <2>1. Last(redoStack) \in Cmd /\ Front(redoStack) \in Seq(Cmd)
    BY <1>3, Popped DEF RedoAuto, Types
  <2>2. undoStack' \in Seq(Cmd) /\ redoStack' \in Seq(Cmd)
    BY <1>3, <2>1, Pushed DEF RedoAuto, Types
  <2> QED
    BY <1>3, <2>2 DEF RedoAuto, Types, BatchTypes, LaneTypes
<1> QED
  BY <1>1, <1>2, <1>3

LaneRecord ==
    [how : {"do", "redo", "undo"}, cmd : Cmd, st : Kept \cup {NotRead}, todo : Seq(Task)]

LEMMA LaneIs ==
    ASSUME Types, lane # Idle
    PROVE  /\ lane \in LaneRecord /\ lane.cmd \in Cmd /\ lane.todo \in Seq(Task)
           /\ lane.how \in {"do", "redo", "undo"} /\ lane.st \in Kept \cup {NotRead}
           /\ lane.how = "undo" => lane.todo # <<>>
           /\ lane.how # "undo" =>
                /\ lane.cmd.op # "auto"
                /\ lane.cmd.sched \in Schedule /\ lane.cmd.before \in Kept
                /\ lane.st # NotRead => lane.st \in Kept /\ ~ Completed(lane.st)
BY CmdKinds DEF Types, LaneTypes, LaneRecord

LEMMA CheckTypes == ASSUME Types, Check PROVE Types'
<1> DEFINE s == lane.cmd.sched
<1>1. /\ lane # Idle /\ lane \in LaneRecord /\ lane.how # "undo" /\ s \in Schedule
      /\ lane.cmd.op # "auto"
  BY LaneIs DEF Check
<1>2. lane' = Idle \/ (/\ lane' = [lane EXCEPT !.st = sched[s]]
                       /\ sched[s] \in Kept /\ ~ Completed(sched[s]))
  BY <1>1 DEF Check, Types
<1> HIDE DEF s
<1>3. LaneTypes'
  BY <1>1, <1>2 DEF LaneTypes, LaneRecord
<1> QED
  BY <1>3 DEF Check, Types, BatchTypes

(* What a command writes: its own schedule, and for a post its row.        *)
LEMMA WriteIs ==
    ASSUME Types, Ready, Write(lane.cmd, lane.st)
    PROVE  /\ lane.cmd \in Cmd /\ lane.cmd.sched \in Schedule /\ lane.cmd.op # "auto"
           /\ sched[lane.cmd.sched] # Gone
           /\ sched' \in [Schedule -> Kept \cup {Gone}]
           /\ rows' \in [RowId -> Post \cup {NoRow}]
           /\ \A s \in Schedule : s # lane.cmd.sched => sched'[s] = sched[s]
           /\ lane.cmd.op \in {"post", "skip"} =>
                /\ lane.st \in Kept /\ sched'[lane.cmd.sched] \in Kept
                /\ sched'[lane.cmd.sched].next = lane.st.next + 1
           /\ lane.cmd.op = "edit" => /\ sched'[lane.cmd.sched] = lane.cmd.after
                                      /\ lane.cmd.after \in Kept
           /\ lane.cmd.op = "delete" => sched'[lane.cmd.sched] = Gone
           /\ \A r \in RowId : IF lane.cmd.op = "post" /\ r = lane.cmd.row
                THEN rows'[r] = Posting(lane.cmd.sched, lane.cmd.occ)
                ELSE rows'[r] = rows[r]
<1> DEFINE c == lane.cmd
<1>1. /\ c \in Cmd /\ c.sched \in Schedule /\ c.op # "auto"
      /\ lane.st # NotRead => lane.st \in Kept /\ ~ Completed(lane.st)
      /\ c.op \in {"post", "skip"} => lane.st # NotRead
  BY LaneIs DEF Ready
<1>2. lane.st # NotRead => /\ Advanced(lane.st, 1) \in Kept
                           /\ Advanced(lane.st, 1).next = lane.st.next + 1
  BY <1>1, NextIs
<1>3. /\ c.op = "post" => c.occ \in Nat /\ c.row \in RowId
      /\ c.op = "edit" => c.after \in Kept
  BY <1>1, CmdKinds
<1> HIDE DEF c
<1>4. WritePost(c, lane.st) \/ WriteSkip(c, lane.st) \/ WriteEdit(c) \/ WriteDelete(c)
  BY DEF Write, c
<1>5. Posting(c.sched, c.occ) \in Post \/ c.op # "post"
  BY <1>1, <1>3 DEF Posting, Post
<1>6. /\ sched[c.sched] # Gone
      /\ sched' \in [Schedule -> Kept \cup {Gone}]
      /\ rows' \in [RowId -> Post \cup {NoRow}]
      /\ \A s \in Schedule : s # c.sched => sched'[s] = sched[s]
      /\ c.op \in {"post", "skip"} =>
           /\ lane.st \in Kept /\ sched'[c.sched] \in Kept
           /\ sched'[c.sched].next = lane.st.next + 1
      /\ c.op = "edit" => sched'[c.sched] = c.after /\ c.after \in Kept
      /\ c.op = "delete" => sched'[c.sched] = Gone
      /\ \A r \in RowId : IF c.op = "post" /\ r = c.row
           THEN rows'[r] = Posting(c.sched, c.occ) ELSE rows'[r] = rows[r]
  <2>1. CASE WritePost(c, lane.st)
    BY <1>1, <1>2, <1>3, <1>5, <2>1 DEF WritePost, Types
  <2>2. CASE WriteSkip(c, lane.st)
    BY <1>1, <1>2, <1>3, <2>2 DEF WriteSkip, Types
  <2>3. CASE WriteEdit(c)
    BY <1>1, <1>3, <2>3 DEF WriteEdit, Types
  <2>4. CASE WriteDelete(c)
    BY <1>1, <2>4 DEF WriteDelete, Types
  <2> QED
    BY <1>4, <2>1, <2>2, <2>3, <2>4
<1> QED
  BY <1>1, <1>6 DEF c

LEMMA CommitTypes == ASSUME Types, Commit PROVE Types'
<1>1. /\ sched' \in [Schedule -> Kept \cup {Gone}] /\ rows' \in [RowId -> Post \cup {NoRow}]
      /\ lane.cmd \in Cmd
  BY WriteIs DEF Commit
<1>2. undoStack' \in Seq(Cmd)
  BY <1>1, Pushed DEF Commit, Types
<1>3. CASE lane.how = "do"
  <2>1. redoStack' \in Seq(Cmd)
    BY <1>3 DEF Commit
  <2> QED
    BY <1>1, <1>2, <2>1 DEF Commit, Types, BatchTypes, LaneTypes
<1>4. CASE lane.how # "do"
  <2>1. redoStack' = Front(redoStack)
    BY <1>4 DEF Commit
  <2>2. Front(redoStack) \in Seq(Cmd)
    BY FrontIn DEF Types
  <2> QED
    BY <1>1, <1>2, <2>1, <2>2 DEF Commit, Types, BatchTypes, LaneTypes
<1> QED
  BY <1>3, <1>4

LEMMA RestIs ==
    ASSUME NEW todo \in Seq(Task), todo # <<>>
    PROVE  /\ Rest(todo) \in Seq(Task) /\ Head(todo) \in Task /\ Head(todo) = todo[1]
           /\ Len(todo) \in Nat \ {0} /\ DOMAIN todo = 1..Len(todo)
           /\ IF Head(todo).do = "drop" /\ Len(Head(todo).rows) > 1
              THEN /\ Rest(todo) # <<>> /\ DOMAIN Rest(todo) = DOMAIN todo
                   /\ Len(Rest(todo)) = Len(todo)
                   /\ \A i \in DOMAIN todo : Rest(todo)[i] =
                        IF i = 1 THEN Drop(Front(Head(todo).rows)) ELSE todo[i]
              ELSE /\ DOMAIN Rest(todo) = 1..(Len(todo) - 1)
                   /\ Len(Rest(todo)) = Len(todo) - 1
                   /\ \A i \in DOMAIN Rest(todo) : Rest(todo)[i] = todo[i + 1]
                   /\ Rest(todo) = <<>> <=> Len(todo) = 1
<1>1. /\ Tail(todo) \in Seq(Task) /\ Head(todo) \in Task /\ Head(todo) = todo[1]
      /\ Len(todo) \in Nat \ {0} /\ DOMAIN todo = 1..Len(todo)
      /\ Len(Tail(todo)) = Len(todo) - 1 /\ DOMAIN Tail(todo) = 1..(Len(todo) - 1)
      /\ \A i \in DOMAIN Tail(todo) : Tail(todo)[i] = todo[i + 1]
      /\ Tail(todo) = <<>> <=> Len(todo) = 1
  BY Shifted
<1>2. CASE Head(todo).do = "drop" /\ Len(Head(todo).rows) > 1
  <2> DEFINE e == Drop(Front(Head(todo).rows))
  <2>1. Head(todo).rows \in Seq(RowId) /\ Head(todo).rows # <<>>
    BY <1>1, <1>2, TaskKinds
  <2>2. Front(Head(todo).rows) \in Seq(RowId)
    BY <2>1, Popped
  <2>3. e \in Task
    BY <2>2 DEF Drop, Task
  <2>4. Rest(todo) = <<e>> \o Tail(todo)
    BY <1>2 DEF Rest
  <2> HIDE DEF e
  <2>5. /\ <<e>> \o Tail(todo) \in Seq(Task) /\ <<e>> \o Tail(todo) # <<>>
        /\ Len(<<e>> \o Tail(todo)) = Len(todo) /\ DOMAIN (<<e>> \o Tail(todo)) = DOMAIN todo
        /\ \A i \in DOMAIN todo : (<<e>> \o Tail(todo))[i] = IF i = 1 THEN e ELSE todo[i]
    BY <2>3, Replaced
  <2> QED
    BY <1>1, <1>2, <2>4, <2>5 DEF e
<1>3. CASE ~(Head(todo).do = "drop" /\ Len(Head(todo).rows) > 1)
  <2>1. Rest(todo) = Tail(todo)
    BY <1>3 DEF Rest
  <2> QED
    BY <1>1, <1>3, <2>1
<1> QED
  BY <1>2, <1>3

(* One write of an undo.                                                   *)
LEMMA UndoneIs ==
    ASSUME Types, UndoWrite
    PROVE  /\ lane \in LaneRecord /\ lane.cmd \in Cmd /\ lane.todo \in Seq(Task)
           /\ lane.todo # <<>> /\ Head(lane.todo) \in Task
           /\ sched' \in [Schedule -> Kept \cup {Gone}]
           /\ rows' \in [RowId -> Post \cup {NoRow}]
           /\ IF Head(lane.todo).do = "drop"
              THEN /\ sched' = sched
                   /\ rows' = [rows EXCEPT ![Last(Head(lane.todo).rows)] = NoRow]
              ELSE /\ rows' = rows
                   /\ Head(lane.todo).sched \in Schedule /\ Head(lane.todo).st \in Kept
                   /\ sched' = [sched EXCEPT ![Head(lane.todo).sched] = Head(lane.todo).st]
           /\ IF Rest(lane.todo) = <<>>
              THEN /\ lane' = Idle /\ reload' = TRUE
                   /\ undoStack' = Front(undoStack)
                   /\ redoStack' = Append(redoStack, lane.cmd)
              ELSE /\ lane' \in LaneRecord /\ lane'.how = "undo" /\ lane'.cmd = lane.cmd
                   /\ lane'.todo = Rest(lane.todo) /\ lane'.st = lane.st
                   /\ UNCHANGED <<undoStack, redoStack, reload>>
           /\ UNCHANGED <<ail, today, session, batch, view, skipped, cut>>
<1>1. /\ lane # Idle /\ lane \in LaneRecord /\ lane.cmd \in Cmd /\ lane.todo \in Seq(Task)
      /\ lane.todo # <<>> /\ lane.how = "undo"
  BY LaneIs DEF UndoWrite, Undoing
<1>2. Head(lane.todo) \in Task /\ Rest(lane.todo) \in Seq(Task)
  BY <1>1, RestIs
<1> DEFINE w == Head(lane.todo)
<1>3. w.do # "drop" => w.sched \in Schedule /\ w.st \in Kept
  BY <1>2, TaskKinds
<1>4. /\ rows' = IF w.do = "drop" THEN [rows EXCEPT ![Last(w.rows)] = NoRow] ELSE rows
      /\ sched' = IF w.do = "drop" THEN sched ELSE [sched EXCEPT ![w.sched] = w.st]
  BY DEF UndoWrite
<1> HIDE DEF w
<1>5. sched' \in [Schedule -> Kept \cup {Gone}] /\ rows' \in [RowId -> Post \cup {NoRow}]
  BY <1>3, <1>4 DEF Types
<1>6. IF Rest(lane.todo) = <<>>
      THEN /\ lane' = Idle /\ reload' = TRUE
           /\ undoStack' = Front(undoStack)
           /\ redoStack' = Append(redoStack, lane.cmd)
      ELSE /\ lane' = [lane EXCEPT !.todo = Rest(lane.todo)]
           /\ UNCHANGED <<undoStack, redoStack, reload>>
  BY DEF UndoWrite
<1>7. CASE Rest(lane.todo) = <<>>
  BY <1>1, <1>2, <1>3, <1>4, <1>5, <1>6, <1>7 DEF UndoWrite, w
<1>8. CASE Rest(lane.todo) # <<>>
  <2>1. /\ lane' \in LaneRecord /\ lane'.how = "undo" /\ lane'.cmd = lane.cmd
        /\ lane'.todo = Rest(lane.todo) /\ lane'.st = lane.st
    BY <1>1, <1>2, <1>6, <1>8 DEF LaneRecord
  <2> QED
    BY <1>1, <1>2, <1>3, <1>4, <1>5, <1>6, <1>8, <2>1 DEF UndoWrite, w
<1> QED
  BY <1>7, <1>8

LEMMA UndoTypes == ASSUME Types, StartUndo \/ UndoWrite PROVE Types'
<1>1. CASE StartUndo
  <2>1. PICK c : c = Last(undoStack)
    OBVIOUS
  <2>2. c \in Cmd /\ Reversal(c) \in Seq(Task) /\ Reversal(c) # <<>>
    BY <1>1, <2>1, Popped, ReversalOf DEF StartUndo, Types
  <2>3. lane' = [how |-> "undo", cmd |-> c, st |-> NotRead, todo |-> Reversal(c)]
    BY <1>1, <2>1 DEF StartUndo
  <2>4. LaneTypes'
    BY <2>2, <2>3 DEF LaneTypes
  <2> QED
    BY <1>1, <2>4 DEF StartUndo, Types, BatchTypes
<1>2. CASE UndoWrite
  <2>1. CASE Rest(lane.todo) = <<>>
    <3>0. /\ lane' = Idle /\ lane.cmd \in Cmd /\ undoStack' = Front(undoStack)
          /\ redoStack' = Append(redoStack, lane.cmd)
      BY <1>2, <2>1, UndoneIs
    <3>1. redoStack' \in Seq(Cmd) /\ lane' = Idle
      BY <3>0, Pushed DEF Types
    <3>2. undoStack' \in Seq(Cmd)
      BY <3>0, FrontIn DEF Types
    <3> QED
      BY <1>2, <3>1, <3>2, UndoneIs DEF Types, BatchTypes, LaneTypes
  <2>2. CASE Rest(lane.todo) # <<>>
    <3>1. LaneTypes'
      BY <1>2, <2>2, UndoneIs DEF LaneTypes, LaneRecord
    <3> QED
      BY <1>2, <2>2, <3>1, UndoneIs DEF Types, BatchTypes
  <2> QED
    BY <2>1, <2>2
<1> QED
  BY <1>1, <1>2

LEMMA OtherTypes ==
    ASSUME Types, LoadView \/ Refuse \/ UndoFail \/ Tick \/ Restart \/ UNCHANGED vars
    PROVE  Types'
<1>1. CASE LoadView
  BY <1>1 DEF LoadView, Types, BatchTypes, LaneTypes
<1>2. CASE Refuse \/ UndoFail
  BY <1>2 DEF Refuse, UndoFail, Types, BatchTypes, LaneTypes
<1>3. CASE Tick
  <2>1. today' \in 0..MaxDay
    BY <1>3, PostingAssumption DEF Tick, Types
  <2> QED
    BY <1>3, <2>1 DEF Tick, Types, BatchTypes, LaneTypes
<1>4. CASE Restart
  BY <1>4 DEF Restart, Types, BatchTypes, LaneTypes
<1>5. CASE UNCHANGED vars
  BY <1>5 DEF vars, Types, BatchTypes, LaneTypes
<1> QED
  BY <1>1, <1>2, <1>3, <1>4, <1>5

LEMMA InitTypes == Init => Types
<1>1. \A s \in Schedule : Template[s] \in Kept
  BY PostingAssumption
<1>2. 0 \in 0..MaxDay
  BY PostingAssumption
<1> QED
  BY <1>1, <1>2, PostingAssumption DEF Init, Types, BatchTypes, LaneTypes

LEMMA NextTypes == Types /\ [Next]_vars => Types'
BY ListTypes, CandidateTypes, FinishTypes, RunTypes, CheckTypes, CommitTypes, UndoTypes,
   OtherTypes DEF Next, AutoStep, Work

LEMMA TypesHold == Spec => []Types
<1>1. Init => Types
  BY InitTypes
<1>2. Types /\ [Next]_vars => Types'
  BY NextTypes
<1> QED
  BY <1>1, <1>2, PTL DEF Spec

LEMMA TypesAreOK == Types => TypeOK
<1> SUFFICES ASSUME Types PROVE TypeOK
  OBVIOUS
<1>1. \A s \in Schedule : {sched[s], view[s]} \subseteq Kept \cup {Gone}
  BY DEF Types
<1>2. \A r \in RowId : Live(r) => rows[r].sched \in Schedule /\ rows[r].occ \in Nat
  BY DEF Types, Live, Post
<1>3. batch \in {Due, Done} \/ \A c \in batch.todo : c.sched \in AutoPosting /\ c.st \in Kept
  BY DEF Types, BatchTypes, Listed
<1>4. lane = Idle \/ lane.how \in {"do", "redo", "undo"}
  BY DEF Types, LaneTypes
<1>5. ASSUME NEW c \in Range(undoStack) \cup Range(redoStack)
      PROVE  c.op = "auto" \/ c.before \in Kept
  <2>1. c \in Cmd
    BY DEF Types, Range
  <2> QED
    BY <2>1, CmdKinds
<1> QED
  BY <1>1, <1>2, <1>3, <1>4, <1>5 DEF TypeOK

(* No schedule runs below zero occurrences, and what runs and waits is     *)
(* made of stored schedules, whatever the user does early.                 *)
THEOREM TypeCorrect == Spec => []TypeOK
BY TypesHold, TypesAreOK, PTL

----------------------------------------------------------------------------
(* The invariant for a user who waits.                                     *)

(* A schedule is past every row it posted.                                 *)
Behind ==
    \A r \in RowId : Live(r) /\ sched[rows[r].sched] # Gone
        => rows[r].occ < sched[rows[r].sched].next

(* The rows from a date on; and the dates that undoing c puts back.        *)
Ahead(s, st) == {r \in RowId : Live(r) /\ rows[r].sched = s /\ rows[r].occ >= st.next}

Single(c) == c.op # "auto"

Puts(c) ==
    IF Single(c) THEN {<<c.sched, c.before>>}
    ELSE {<<e.sched, e.before>> : e \in Range(c.entries)}

(* Rows from the date a command would put back on are its own, or of a     *)
(* command above it, which is undone first.                                *)
Covered ==
    \A i \in DOMAIN undoStack : \A p \in Puts(undoStack[i]) : \A r \in Ahead(p[1], p[2]) :
        \E k \in DOMAIN undoStack : k >= i /\ r \in RowsOf(undoStack[k])

(* A command posts the occurrence its schedule was at, and an edit leaves  *)
(* it there.                                                               *)
Exact(c) ==
    /\ c.op = "post" => c.occ = c.before.next
    /\ c.op = "edit" => c.after.next = c.before.next

AllExact ==
    /\ \A i \in DOMAIN undoStack : Exact(undoStack[i])
    /\ \A i \in DOMAIN redoStack : Exact(redoStack[i])

(* The batch is the first command of a session.                            *)
AutoFirst ==
    /\ \A i \in DOMAIN undoStack : ~ Single(undoStack[i]) => i = 1
    /\ \A i \in DOMAIN redoStack :
         ~ Single(redoStack[i]) => i = Len(redoStack) /\ undoStack = <<>>

(* What c leaves its schedule as.                                          *)
Left(c, x) ==
    IF c.op = "delete" THEN x = Gone
    ELSE x # Gone /\ x.next = c.before.next + (IF c.op \in {"post", "skip"} THEN 1 ELSE 0)

(* Each command ran on what the one before it on its schedule had left,    *)
(* and what the latest left is there.                                      *)
UndoChain ==
    \A i, j \in DOMAIN undoStack :
        /\ i < j /\ Single(undoStack[i]) /\ Single(undoStack[j])
        /\ undoStack[i].sched = undoStack[j].sched
        /\ \A k \in DOMAIN undoStack : i < k /\ k < j => undoStack[k].sched # undoStack[i].sched
        => Left(undoStack[i], undoStack[j].before)

UndoTop ==
    \A i \in DOMAIN undoStack :
        /\ Single(undoStack[i])
        /\ \A k \in DOMAIN undoStack : i < k => undoStack[k].sched # undoStack[i].sched
        => Left(undoStack[i], sched[undoStack[i].sched])

AutoAlive ==
    \A i \in DOMAIN undoStack : ~ Single(undoStack[i]) =>
        \A e \in Range(undoStack[i].entries) :
            (\A k \in DOMAIN undoStack : i < k => undoStack[k].sched # e.sched)
              => sched[e.sched] # Gone

(* The same of what is undone, while the batch is not; and of the batch.   *)
AllSingle == \A j \in DOMAIN redoStack : Single(redoStack[j])

RedoChain ==
    AllSingle => \A i, j \in DOMAIN redoStack :
        /\ i < j /\ redoStack[i].sched = redoStack[j].sched
        /\ \A k \in DOMAIN redoStack : i < k /\ k < j => redoStack[k].sched # redoStack[i].sched
        => Left(redoStack[j], redoStack[i].before)

AutoRedo ==
    \A j \in DOMAIN redoStack : ~ Single(redoStack[j]) =>
        \A e \in Range(redoStack[j].entries) :
            sched[e.sched] # Gone /\ Ahead(e.sched, e.before) = {}

Putting == Undoing /\ lane.cmd.op = "auto" /\ Head(lane.todo).do # "drop"

RedoTop ==
    AllSingle /\ ~ Putting => \A j \in DOMAIN redoStack :
        (\A k \in DOMAIN redoStack : k > j => redoStack[k].sched # redoStack[j].sched)
          => /\ sched[redoStack[j].sched] # Gone
             /\ sched[redoStack[j].sched].next = redoStack[j].before.next

(* What is in store, done and undone.                                      *)
Core ==
    /\ PostedOnce /\ Behind /\ Covered /\ AllExact /\ AutoFirst
    /\ UndoChain /\ UndoTop /\ AutoAlive /\ RedoChain /\ AutoRedo

(* The batch works on what is stored, and for itself.                      *)
BatchFits == Running =>
    /\ \A c \in batch.todo : sched[c.sched] # Gone => sched[c.sched] = c.st
    /\ \A c, d \in batch.todo : c.sched = d.sched => c = d
    /\ \A e \in Range(batch.entries) :
         /\ sched[e.sched] # Gone
         /\ \A r \in Ahead(e.sched, e.before) : \E f \in Range(batch.entries) : r \in Range(f.rows)
    /\ \A c \in batch.todo : \A e \in Range(batch.entries) : c.sched # e.sched

Quiet == batch # Done =>
    /\ lane = Idle /\ undoStack = <<>> /\ redoStack = <<>>
    /\ \A s \in Schedule : view[s] = Gone

(* What the view shows, when it is not waiting for a load.                 *)
ViewFits ==
    batch = Done /\ ~ reload /\ ~ Putting =>
        \A s \in Schedule : view[s] # Gone => view[s] = sched[s]

(* The command in the lane: being undone, or run on the state it read.     *)
UndoFits ==
    /\ undoStack # <<>> /\ lane.cmd = Last(undoStack)
    /\ \A i \in DOMAIN lane.todo : lane.todo[i].do # "drop"
         => <<lane.todo[i].sched, lane.todo[i].st>> \in Puts(lane.cmd)
    /\ \A r \in RowsOf(lane.cmd) : Live(r) =>
         \E i \in DOMAIN lane.todo : lane.todo[i].do = "drop" /\ r \in Range(lane.todo[i].rows)
    /\ \A i, j \in DOMAIN lane.todo :
         i < j /\ lane.todo[j].do = "drop" => lane.todo[i].do = "drop"
    /\ lane.todo[Len(lane.todo)].do # "drop"
    /\ Single(lane.cmd) => \A i \in DOMAIN lane.todo :
         lane.todo[i].do # "drop" => i = Len(lane.todo)
    /\ ~ Single(lane.cmd) => \A i \in DOMAIN lane.todo : lane.todo[i].do # "again"

RunFits ==
    /\ sched[lane.cmd.sched] = lane.cmd.before /\ lane.st \in {NotRead, lane.cmd.before}
    /\ lane.how = "redo" =>
         /\ redoStack # <<>> /\ AllSingle
         /\ lane.cmd.op = Last(redoStack).op /\ lane.cmd.sched = Last(redoStack).sched
         /\ lane.cmd.before.next = Last(redoStack).before.next

LaneFits == lane # Idle =>
    /\ batch = Done /\ Exact(lane.cmd)
    /\ lane.how = "undo" => UndoFits
    /\ lane.how # "undo" => RunFits

Inv == Types /\ Core /\ RedoTop /\ BatchFits /\ Quiet /\ ViewFits /\ LaneFits

(* A user who waits for the batch and for the view, and does not redo the  *)
(* batch while later commands are undone.                                  *)
Patient == Early = {}

----------------------------------------------------------------------------
(* What depends on the store and the stacks only.                          *)

LEMMA CoreStays ==
    ASSUME Core, UNCHANGED <<sched, rows, undoStack, redoStack>>
    PROVE  Core'
<1> USE DEF Live
<1>1. PostedOnce' /\ Behind' /\ AllExact' /\ AutoFirst' /\ UndoChain' /\ UndoTop' /\ AutoAlive'
  BY DEF Core, PostedOnce, Behind, AllExact, AutoFirst, UndoChain, UndoTop, AutoAlive
<1>2. Covered' /\ RedoChain' /\ AutoRedo'
  BY DEF Core, Covered, Ahead, RedoChain, AllSingle, AutoRedo
<1> QED
  BY <1>1, <1>2 DEF Core

LEMMA CoreEmpty ==
    ASSUME PostedOnce', Behind', undoStack' = <<>>, redoStack' = <<>>
    PROVE  Core' /\ RedoTop'
<1>1. DOMAIN undoStack' = {} /\ DOMAIN redoStack' = {}
  OBVIOUS
<1>2. Covered' /\ AllExact' /\ AutoFirst' /\ UndoChain' /\ UndoTop' /\ AutoAlive' /\ RedoChain'
      /\ AutoRedo' /\ RedoTop'
  BY <1>1 DEF Covered, AllExact, AutoFirst, UndoChain, UndoTop, AutoAlive, RedoChain, AutoRedo,
              RedoTop
<1> QED
  BY <1>2 DEF Core

LEMMA RestartKeeps == ASSUME Inv, Restart PROVE Inv'
<1>1. Types'
  BY OtherTypes DEF Inv
<1>2. PostedOnce' /\ Behind'
  BY DEF Inv, Core, PostedOnce, Behind, Live, Restart
<1>3. Core' /\ RedoTop'
  BY <1>2, CoreEmpty DEF Restart
<1>4. BatchFits' /\ Quiet' /\ ViewFits' /\ LaneFits'
  BY AbsentAssumption DEF Restart, BatchFits, Running, Quiet, ViewFits, LaneFits
<1> QED
  BY <1>1, <1>3, <1>4 DEF Inv

LEMMA InitFits == Init => Inv
<1> SUFFICES ASSUME Init PROVE Inv
  OBVIOUS
<1>1. Types /\ batch = Due /\ lane = Idle /\ undoStack = <<>> /\ redoStack = <<>>
      /\ rows = [r \in RowId |-> NoRow] /\ \A s \in Schedule : view[s] = Gone
  BY InitTypes DEF Init
<1>2. PostedOnce /\ Behind
  BY <1>1 DEF PostedOnce, Behind, Live
<1>3. DOMAIN undoStack = {} /\ DOMAIN redoStack = {}
  BY <1>1
<1>4. Covered /\ AllExact /\ AutoFirst /\ UndoChain /\ UndoTop /\ AutoAlive /\ RedoChain
      /\ AutoRedo /\ RedoTop
  BY <1>3 DEF Covered, AllExact, AutoFirst, UndoChain, UndoTop, AutoAlive, RedoChain, AutoRedo,
              RedoTop
<1>5. BatchFits /\ Quiet /\ ViewFits /\ LaneFits
  BY <1>1, AbsentAssumption DEF BatchFits, Running, Quiet, ViewFits, LaneFits
<1> QED
  BY <1>1, <1>2, <1>4, <1>5 DEF Inv, Core

LEMMA StutterKeeps == ASSUME Inv, Tick \/ UNCHANGED vars PROVE Inv'
<1>1. UNCHANGED <<sched, rows, undoStack, redoStack, batch, lane, view, reload>>
  BY DEF Tick, vars
<1>2. Types'
  BY OtherTypes DEF Inv
<1>3. Core'
  BY <1>1, CoreStays DEF Inv
<1>4. RedoTop' /\ Quiet' /\ ViewFits'
  BY <1>1 DEF Inv, RedoTop, AllSingle, Putting, Undoing, Quiet, ViewFits
<1>5. BatchFits'
  BY <1>1 DEF Inv, BatchFits, Running, Ahead, Live
<1>6. LaneFits'
  BY <1>1 DEF Inv, LaneFits, UndoFits, RunFits, AllSingle, Live
<1> QED
  BY <1>2, <1>3, <1>4, <1>5, <1>6 DEF Inv

----------------------------------------------------------------------------
(* The batch.                                                              *)

LEMMA ListKeeps == ASSUME Inv, AutoList PROVE Inv'
<1>1. /\ batch = Due /\ lane = Idle /\ undoStack = <<>> /\ redoStack = <<>>
      /\ \A s \in Schedule : view[s] = Gone
      /\ UNCHANGED <<sched, rows, lane, undoStack, redoStack, view, reload>>
  BY AbsentAssumption DEF AutoList, Inv, Quiet
<1>2. Types'
  BY ListTypes DEF Inv
<1>3. Core' /\ RedoTop'
  BY <1>1, CoreEmpty DEF Inv, Core, PostedOnce, Behind, Live
<1> DEFINE S == {x \in AutoPosting : sched[x] # Gone /\ AutoPostDue(x, sched[x], today)}
           todo == {[sched |-> s, st |-> sched[s]] : s \in S}
<1>4. /\ batch'.todo = todo /\ batch'.entries = <<>>
      /\ batch' = [day |-> today, entries |-> <<>>, todo |-> todo]
  BY DEF AutoList
<1>5. BatchFits'
  <2> HIDE DEF S
  <2>1. \A c \in todo : c.st = sched[c.sched]
    OBVIOUS
  <2>2. \A c, d \in todo : c.sched = d.sched => c = d
    OBVIOUS
  <2>3. Range(batch'.entries) = {}
    BY <1>4 DEF Range
  <2> HIDE DEF todo
  <2> QED
    BY <1>1, <1>4, <2>1, <2>2, <2>3 DEF BatchFits
<1>6. Quiet' /\ LaneFits'
  BY <1>1 DEF Quiet, LaneFits
<1>7. ViewFits'
  BY <1>1 DEF ViewFits
<1> QED
  BY <1>2, <1>3, <1>5, <1>6, <1>7 DEF Inv

LEMMA PassKeeps ==
    ASSUME Inv, Running, NEW c \in batch.todo, AutoSkip(c) \/ AutoAbort(c),
           UNCHANGED <<ail, today, session, lane, undoStack, redoStack, view, reload, cut>>,
           Types'
    PROVE  Inv'
<1>1. /\ lane = Idle /\ undoStack = <<>> /\ redoStack = <<>> /\ UNCHANGED <<sched, rows>>
      /\ \A s \in Schedule : view[s] = Gone
  BY DEF Inv, Quiet, Running, AutoSkip, AutoAbort, store
<1>2. Core' /\ RedoTop'
  BY <1>1, CoreEmpty DEF Inv, Core, PostedOnce, Behind, Live
<1>3. Quiet' /\ LaneFits' /\ ViewFits'
  BY <1>1 DEF Quiet, LaneFits, ViewFits
<1>4. BatchFits'
  <2>1. CASE AutoAbort(c)
    BY <2>1 DEF AutoAbort, BatchFits, Running
  <2>2. CASE AutoSkip(c)
    <3>1. batch' = [batch EXCEPT !.todo = @ \ {c}] /\ batch \in Batch
      BY <2>2, RunningIs DEF AutoSkip, Inv
    <3>2. batch'.todo \subseteq batch.todo /\ batch'.entries = batch.entries
      BY <3>1 DEF Batch
    <3> QED
      BY <1>1, <3>2 DEF Inv, BatchFits, Ahead, Live
  <2> QED
    BY <2>1, <2>2
<1> QED
  BY <1>2, <1>3, <1>4 DEF Inv

LEMMA PostKeeps ==
    ASSUME Inv, Running, NEW c \in batch.todo, AutoPost(c),
           UNCHANGED <<ail, today, session, lane, undoStack, redoStack, view, reload, cut>>,
           Types'
    PROVE  Inv'
<1>1. /\ lane = Idle /\ undoStack = <<>> /\ redoStack = <<>>
      /\ \A s \in Schedule : view[s] = Gone
  BY DEF Inv, Quiet, Running
<1>2. PICK new : Caught(c, new)
  BY CaughtIs DEF Inv
<1> DEFINE a == c.sched
           st == c.st
           n == Len(new)
           e == [sched |-> c.sched, rows |-> new, before |-> c.st]
<1>3. /\ a \in Schedule /\ st \in Kept /\ st.next \in Nat /\ n \in Nat /\ DOMAIN new = 1..n
      /\ sched[a] = st /\ sched[a] # Gone
  BY <1>2, RunningIs DEF Caught, Inv, BatchFits, AutoPost, Kept
<1>4. /\ sched' = [sched EXCEPT ![a] = Advanced(st, n)]
      /\ Advanced(st, n) \in Kept /\ Advanced(st, n).next = st.next + n
      /\ e \in Entry /\ batch'.entries = Append(batch.entries, e)
      /\ batch' \in Batch /\ batch'.todo = batch.todo \ {c}
      /\ new \in Seq(RowId)
  BY <1>2 DEF Caught
<1>5. \A r \in RowId : r \in Range(new) =>
         /\ rows'[r].sched = a /\ rows'[r].occ \in Nat /\ rows'[r].occ >= st.next
         /\ rows'[r].occ < st.next + n
         /\ \A q \in RowId : q \in Range(new) /\ rows'[q] = rows'[r] => q = r
  <2> SUFFICES ASSUME NEW r \in RowId, r \in Range(new)
               PROVE  /\ rows'[r].sched = a /\ rows'[r].occ \in Nat /\ rows'[r].occ >= st.next
                      /\ rows'[r].occ < st.next + n
                      /\ \A q \in RowId : q \in Range(new) /\ rows'[q] = rows'[r] => q = r
    OBVIOUS
  <2>1. PICK i \in DOMAIN new : /\ rows'[r] = Posting(a, st.next - 1 + i)
                                /\ \A q \in RowId : rows'[q] = rows'[r] /\ q \in Range(new)
                                     => q = r
    BY <1>2 DEF Caught
  <2>2. rows'[r].sched = a /\ rows'[r].occ = st.next - 1 + i
    BY <2>1 DEF Posting
  <2> QED
    BY <1>3, <2>1, <2>2
<1>6. \A r \in RowId : r \notin Range(new) => rows'[r] = rows[r]
  BY <1>2 DEF Caught
<1>7. \A r \in RowId : Live(r) => rows[r] \in Post
  BY DEF Inv, Types, Live
<1>8. \A r \in RowId : Live(r) /\ rows[r].sched = a => rows[r].occ < st.next
  BY <1>3 DEF Inv, Core, Behind
<1> HIDE DEF a, st, n, e
<1>9. PostedOnce'
  <2> SUFFICES ASSUME NEW p \in RowId, NEW q \in RowId, Live(p)', Live(q)', rows'[p] = rows'[q]
               PROVE  p = q
    BY DEF PostedOnce
  <2>1. CASE p \notin Range(new) /\ q \notin Range(new)
    BY <2>1, <1>6 DEF Inv, Core, PostedOnce, Live
  <2>2. CASE p \in Range(new) /\ q \in Range(new)
    BY <2>2, <1>5
  <2>3. ASSUME NEW x \in RowId, NEW y \in RowId, x \in Range(new), y \notin Range(new), Live(y)',
               rows'[x] = rows'[y]
        PROVE  FALSE
    <3>1. Live(y) /\ rows'[y] = rows[y]
      BY <1>6, <2>3 DEF Live
    <3>2. rows[y].sched = a /\ rows[y].occ >= st.next /\ rows[y].occ \in Nat
      BY <1>5, <2>3, <3>1
    <3> QED
      BY <1>3, <1>8, <3>1, <3>2
  <2> QED
    BY <2>1, <2>2, <2>3
<1>10. Behind'
  <2> SUFFICES ASSUME NEW r \in RowId, Live(r)', sched'[rows'[r].sched] # Gone
               PROVE  rows'[r].occ < sched'[rows'[r].sched].next
    BY DEF Behind
  <2>1. CASE r \in Range(new)
    <3>1. rows'[r].sched = a /\ sched'[a] = Advanced(st, n)
      BY <2>1, <1>3, <1>4, <1>5 DEF Inv, Types
    <3> QED
      BY <1>4, <1>5, <2>1, <3>1
  <2>2. CASE r \notin Range(new)
    <3>1. rows'[r] = rows[r] /\ Live(r) /\ rows[r] \in Post
      BY <2>2, <1>6, <1>7 DEF Live
    <3>2. CASE rows[r].sched = a
      <4>1. rows[r].occ < st.next /\ rows[r].occ \in Nat
        BY <1>8, <3>1, <3>2 DEF Post
      <4>2. sched'[rows'[r].sched].next = st.next + n
        BY <1>3, <1>4, <3>1, <3>2 DEF Inv, Types
      <4> QED
        BY <1>3, <3>1, <4>1, <4>2
    <3>3. CASE rows[r].sched # a
      BY <1>4, <3>1, <3>3 DEF Inv, Core, Behind, Types
    <3> QED
      BY <3>2, <3>3
  <2> QED
    BY <2>1, <2>2
<1>11. Core' /\ RedoTop'
  BY <1>1, <1>9, <1>10, CoreEmpty
<1>12. Quiet' /\ LaneFits' /\ ViewFits'
  BY <1>1 DEF Quiet, LaneFits, ViewFits
<1>13. Range(batch'.entries) = Range(batch.entries) \cup {e}
  <2>1. batch.entries \in Seq(Entry)
    BY RunningIs DEF Inv
  <2>2. PICK s \in Seq(Entry), x \in Entry : s = batch.entries /\ x = e
    BY <1>4, <2>1
  <2>3. Range(Append(s, x)) = Range(s) \cup {x}
    BY <2>2, Pushed DEF Range
  <2> QED
    BY <1>4, <2>2, <2>3
<1>14. e.sched = a /\ e.before = st /\ e.rows = new
  BY DEF a, st, e
<1>15. BatchFits'
  <2>1. \A d \in batch'.todo : d \in batch.todo /\ d.sched # a
    BY <1>4 DEF Inv, BatchFits, a
  <2>2. \A d \in batch'.todo : sched'[d.sched] # Gone => sched'[d.sched] = d.st
    <3>1. \A d \in batch'.todo : d.sched \in Schedule
      BY <2>1, RunningIs DEF Inv
    <3>2. \A d \in batch'.todo : sched'[d.sched] = sched[d.sched]
      BY <1>4, <2>1, <3>1 DEF Inv, Types
    <3> QED
      BY <2>1, <3>2 DEF Inv, BatchFits
  <2>3. \A d, f \in batch'.todo : d.sched = f.sched => d = f
    BY <2>1 DEF Inv, BatchFits
  <2>4. \A f \in Range(batch.entries) : f.sched \in Schedule /\ f.sched # a /\ sched[f.sched] # Gone
    <3>1. \A f \in Range(batch.entries) : f \in Entry
      BY RunningIs DEF Inv, Range
    <3> QED
      BY <3>1 DEF Inv, BatchFits, a, Entry
  <2>5. \A f \in Range(batch'.entries) : sched'[f.sched] # Gone
    BY <1>3, <1>4, <1>13, <1>14, <2>4, AbsentAssumption DEF Inv, Types
  <2>6. ASSUME NEW f \in Range(batch'.entries), NEW r \in Ahead(f.sched, f.before)'
        PROVE  \E g \in Range(batch'.entries) : r \in Range(g.rows)
    <3>1. CASE r \in Range(new)
      BY <3>1, <1>13, <1>14
    <3>2. CASE r \notin Range(new)
      <4>1. r \in Ahead(f.sched, f.before)
        BY <3>2, <1>6, <2>6 DEF Ahead, Live
      <4>2. CASE f = e
        <5>1. Live(r) /\ rows[r].sched = a /\ rows[r].occ >= st.next /\ rows[r].occ \in Nat
          BY <4>1, <4>2, <1>7, <1>14 DEF Ahead, Post
        <5> QED
          BY <5>1, <1>3, <1>8 DEF Ahead
      <4>3. CASE f \in Range(batch.entries)
        BY <4>1, <4>3, <1>13 DEF Inv, BatchFits
      <4> QED
        BY <4>2, <4>3, <1>13
    <3> QED
      BY <3>1, <3>2
  <2>7. \A d \in batch'.todo : \A f \in Range(batch'.entries) : d.sched # f.sched
    BY <2>1, <1>13, <1>14 DEF Inv, BatchFits
  <2> QED
    BY <2>2, <2>3, <2>5, <2>6, <2>7 DEF BatchFits
<1> QED
  BY <1>11, <1>12, <1>15 DEF Inv

LEMMA CandidateKeeps == ASSUME Inv, AutoCandidate PROVE Inv'
<1>1. PICK c \in Candidates : AutoSkip(c) \/ AutoAbort(c) \/ AutoPost(c)
  BY DEF AutoCandidate
<1>2. /\ c \in batch.todo /\ Running /\ Types'
      /\ UNCHANGED <<ail, today, session, lane, undoStack, redoStack, view, reload, cut>>
  BY <1>1, CandidateTypes DEF Candidates, AutoCandidate, Inv
<1> QED
  BY <1>1, <1>2, PassKeeps, PostKeeps

(* A stack that holds the batch alone, and nothing to redo.                *)
LEMMA CoreAlone ==
    ASSUME Types', PostedOnce', Behind', redoStack' = <<>>,
           NEW c \in Cmd, c.op = "auto", undoStack' = <<c>>,
           \A e \in Range(c.entries) : /\ sched'[e.sched] # Gone
                                       /\ \A r \in Ahead(e.sched, e.before)' : r \in RowsOf(c)
    PROVE  Core' /\ RedoTop'
<1>1. /\ DOMAIN undoStack' = {1} /\ undoStack'[1] = c /\ DOMAIN redoStack' = {}
  OBVIOUS
<1>2. ~ Single(c) /\ Puts(c) = {<<e.sched, e.before>> : e \in Range(c.entries)}
  BY DEF Single, Puts
<1>3. Covered'
  <2> SUFFICES ASSUME NEW p \in Puts(c), NEW r \in Ahead(p[1], p[2])'
               PROVE  r \in RowsOf(c)
    BY <1>1 DEF Covered
  <2>1. PICK e \in Range(c.entries) : p = <<e.sched, e.before>>
    BY <1>2
  <2> QED
    BY <2>1
<1>4. AllExact' /\ AutoFirst' /\ UndoChain' /\ UndoTop' /\ AutoAlive'
  BY <1>1, <1>2 DEF AllExact, Exact, AutoFirst, UndoChain, UndoTop, AutoAlive
<1>5. RedoChain' /\ AutoRedo' /\ RedoTop'
  BY <1>1 DEF RedoChain, AutoRedo, RedoTop
<1> QED
  BY <1>3, <1>4, <1>5 DEF Core

LEMMA FinishKeeps == ASSUME Inv, AutoFinish PROVE Inv'
<1>1. /\ Running /\ batch' = Done /\ lane' = Idle /\ undoStack = <<>> /\ redoStack = <<>>
      /\ \A s \in Schedule : view'[s] = Gone
      /\ UNCHANGED <<sched, rows>>
  BY DEF AutoFinish, Running, Inv, Quiet
<1>2. Types'
  BY FinishTypes DEF Inv
<1>3. BatchFits' /\ Quiet' /\ ViewFits' /\ LaneFits'
  BY <1>1 DEF BatchFits, Running, Quiet, ViewFits, LaneFits
<1>4. PostedOnce' /\ Behind'
  BY <1>1 DEF Inv, Core, PostedOnce, Behind, Live
<1>5. CASE batch.entries = <<>>
  BY <1>1, <1>4, <1>5, CoreEmpty, <1>2, <1>3 DEF AutoFinish, Inv
<1>6. CASE batch.entries # <<>>
  <2>1. PICK c : c = [op |-> "auto", entries |-> batch.entries]
    OBVIOUS
  <2>2. batch.entries \in Seq(Entry)
    BY <1>1, RunningIs DEF Inv
  <2>3. /\ c \in Cmd /\ c.op = "auto" /\ c.entries = batch.entries
        /\ RowsOf(c) = UNION {Range(e.rows) : e \in Range(batch.entries)}
    BY <1>6, <2>1, <2>2 DEF Cmd, RowsOf
  <2>4. undoStack' = <<c>> /\ redoStack' = <<>>
    BY <1>1, <1>6, <2>1 DEF AutoFinish
  <2>5. ASSUME NEW e \in Range(c.entries)
        PROVE  /\ sched'[e.sched] # Gone
               /\ \A r \in Ahead(e.sched, e.before)' : r \in RowsOf(c)
    <3>1. sched'[e.sched] # Gone
      BY <1>1, <2>3 DEF Inv, BatchFits
    <3>2. Ahead(e.sched, e.before)' = Ahead(e.sched, e.before)
      BY <1>1 DEF Ahead, Live
    <3>3. \A r \in Ahead(e.sched, e.before) : r \in RowsOf(c)
      BY <1>1, <2>3 DEF Inv, BatchFits
    <3> QED
      BY <3>1, <3>2, <3>3
  <2>6. Core' /\ RedoTop'
    BY <1>2, <1>4, <2>3, <2>4, <2>5, CoreAlone
  <2> QED
    BY <1>2, <1>3, <2>6 DEF Inv
<1> QED
  BY <1>5, <1>6

----------------------------------------------------------------------------
(* The view and the lane.                                                  *)

LEMMA LoadKeeps == ASSUME Inv, Patient, LoadView PROVE Inv'
<1>1. batch = Done /\ UNCHANGED <<sched, rows, batch, lane, undoStack, redoStack>>
      /\ view' = [s \in Schedule |->
          IF sched[s] # Gone /\ Completed(sched[s]) THEN Gone ELSE sched[s]]
  BY DEF LoadView, Patient
<1>2. Types' /\ Core'
  BY <1>1, OtherTypes, CoreStays DEF Inv
<1>3. RedoTop' /\ Quiet' /\ ViewFits' /\ BatchFits'
  BY <1>1 DEF Inv, RedoTop, AllSingle, Putting, Undoing, Quiet, ViewFits, BatchFits, Running
<1>4. LaneFits'
  BY <1>1 DEF Inv, LaneFits, UndoFits, RunFits, AllSingle, Live
<1> QED
  BY <1>2, <1>3, <1>4 DEF Inv

(* Whatever happens in the lane while it puts nothing back.                *)
LEMMA LaneKeeps ==
    ASSUME Inv, Types', LaneFits', batch = Done, ~ Putting,
           UNCHANGED <<sched, rows, batch, undoStack, redoStack, view, reload>>
    PROVE  Inv'
<1>1. Core'
  BY CoreStays DEF Inv
<1>2. RedoTop' /\ ViewFits'
  BY DEF Inv, RedoTop, AllSingle, ViewFits
<1>3. BatchFits' /\ Quiet'
  BY DEF BatchFits, Running, Quiet
<1> QED
  BY <1>1, <1>2, <1>3 DEF Inv

LEMMA ActsLate ==
    ASSUME Patient, MayAct
    PROVE  lane = Idle /\ batch = Done /\ ~ reload /\ ~ Putting
BY DEF Patient, MayAct, Putting, Undoing

LEMMA ExecuteKeeps == ASSUME Inv, Patient, Execute PROVE Inv'
<1>1. PICK c \in Offered : Start("do", c)
  BY DEF Execute
<1>2. lane = Idle /\ batch = Done /\ ~ reload /\ ~ Putting
  BY ActsLate DEF Execute
<1>3. /\ lane'.how = "do" /\ lane'.cmd = [c EXCEPT !.before = sched[c.sched]]
      /\ lane'.cmd.sched = c.sched /\ c.sched \in Schedule /\ lane'.cmd.op = c.op
      /\ lane'.cmd.before = sched[c.sched] /\ sched[c.sched] \in Kept /\ lane'.st = NotRead
  BY <1>1, StartIs DEF Inv
<1>4. PICK b \in Kept : b = sched[c.sched]
  BY <1>3
<1>5. /\ view[c.sched] # Gone
      /\ c.op = "post" => lane'.cmd.occ = view[c.sched].next
      /\ c.op = "edit" => lane'.cmd.after.next = view[c.sched].next
  BY <1>3, <1>4, OfferedIs DEF Inv
<1>6. view[c.sched] = sched[c.sched]
  BY <1>2, <1>3, <1>5 DEF Inv, ViewFits
<1>7. UNCHANGED <<sched, rows, batch, undoStack, redoStack, view, reload>>
  BY <1>1 DEF Start
<1>8. LaneFits'
  BY <1>2, <1>3, <1>5, <1>6, <1>7 DEF LaneFits, Exact, RunFits
<1>9. Types'
  BY RunTypes DEF Inv
<1> QED
  BY <1>2, <1>7, <1>8, <1>9, LaneKeeps

LEMMA RedoKeeps == ASSUME Inv, Patient, Redo PROVE Inv'
<1>1. PICK c : c = Last(redoStack)
  OBVIOUS
<1>2. lane = Idle /\ batch = Done /\ ~ reload /\ ~ Putting
  BY ActsLate DEF Redo
<1>3. /\ redoStack # <<>> /\ redoStack \in Seq(Cmd) /\ c \in Cmd /\ c.op # "auto"
      /\ c = redoStack[Len(redoStack)] /\ Len(redoStack) \in DOMAIN redoStack
      /\ DOMAIN redoStack \subseteq Nat /\ DOMAIN redoStack = 1..Len(redoStack)
      /\ Start("redo", c)
  BY <1>1, Popped DEF Redo, Inv, Types
<1>4. AllSingle
  BY <1>3 DEF Inv, Core, AutoFirst, AllSingle, Single
<1>5. \A k \in DOMAIN redoStack : ~(k > Len(redoStack))
  BY <1>3
<1>6. sched[c.sched] # Gone /\ sched[c.sched].next = c.before.next
  BY <1>2, <1>3, <1>4, <1>5 DEF Inv, RedoTop
<1>7. /\ lane'.how = "redo" /\ lane'.cmd = [c EXCEPT !.before = sched[c.sched]]
      /\ lane'.cmd.sched = c.sched /\ c.sched \in Schedule /\ lane'.cmd.op = c.op
      /\ lane'.cmd.before = sched[c.sched] /\ sched[c.sched] \in Kept /\ lane'.st = NotRead
  BY <1>3, StartIs DEF Inv
<1>8. PICK b \in Kept : b = sched[c.sched]
  BY <1>7
<1>9. /\ c.op = "post" => lane'.cmd.occ = c.occ
      /\ c.op = "edit" => lane'.cmd.after = c.after
  BY <1>3, <1>7, <1>8, ReadAgain
<1>10. Exact(c)
  BY <1>3 DEF Inv, Core, AllExact
<1>11. UNCHANGED <<sched, rows, batch, undoStack, redoStack, view, reload>>
  BY <1>3 DEF Start
<1>12. Exact(lane'.cmd)
  BY <1>6, <1>7, <1>9, <1>10 DEF Exact
<1>13. LaneFits'
  BY <1>1, <1>2, <1>3, <1>4, <1>6, <1>7, <1>11, <1>12 DEF LaneFits, RunFits, AllSingle
<1>14. Types'
  BY RunTypes DEF Inv
<1> QED
  BY <1>2, <1>11, <1>13, <1>14, LaneKeeps

LEMMA CheckKeeps == ASSUME Inv, Check PROVE Inv'
<1>1. /\ lane # Idle /\ lane.how # "undo" /\ lane \in LaneRecord
      /\ UNCHANGED <<sched, rows, batch, undoStack, redoStack, view, reload>>
      /\ lane' = Idle \/ lane' = [lane EXCEPT !.st = sched[lane.cmd.sched]]
  BY LaneIs DEF Check, Inv
<1>2. batch = Done /\ Exact(lane.cmd) /\ RunFits /\ ~ Putting
  BY <1>1 DEF Inv, LaneFits, Putting, Undoing
<1>3. Types'
  BY CheckTypes DEF Inv
<1>4. CASE lane' = Idle
  BY <1>1, <1>2, <1>3, <1>4, LaneKeeps DEF LaneFits
<1>5. CASE lane' = [lane EXCEPT !.st = sched[lane.cmd.sched]]
  <2>1. lane'.how = lane.how /\ lane'.cmd = lane.cmd /\ lane'.st = sched[lane.cmd.sched]
    BY <1>1, <1>5 DEF LaneRecord
  <2>2. LaneFits'
    BY <1>1, <1>2, <2>1 DEF LaneFits, RunFits, AllSingle
  <2> QED
    BY <1>1, <1>2, <1>3, <2>2, LaneKeeps
<1> QED
  BY <1>1, <1>4, <1>5

LEMMA RefuseKeeps == ASSUME Inv, Refuse PROVE Inv'
<1>1. /\ lane # Idle /\ lane.how # "undo" /\ lane' = Idle
      /\ UNCHANGED <<sched, rows, batch, undoStack, redoStack, view, reload>>
  BY DEF Refuse, Ready
<1>2. batch = Done /\ ~ Putting /\ LaneFits'
  BY <1>1 DEF Inv, LaneFits, Putting, Undoing
<1>3. Types'
  BY OtherTypes DEF Inv
<1> QED
  BY <1>1, <1>2, <1>3, LaneKeeps

(* Once the schedules are being put back, they are there.                  *)
LEMMA UndoFailKeeps == ASSUME Inv, UndoFail PROVE Inv'
<1>1. /\ lane # Idle /\ lane.how = "undo" /\ lane' = Idle /\ ~ Possible(Head(lane.todo))
      /\ UNCHANGED <<sched, rows, batch, undoStack, redoStack, view, reload>>
  BY DEF UndoFail, Undoing
<1>2. batch = Done /\ UndoFits /\ LaneFits'
  BY <1>1 DEF Inv, LaneFits
<1>3. ~ Putting
  <2> SUFFICES ASSUME Putting PROVE FALSE
    OBVIOUS
  <2>1. /\ lane.todo \in Seq(Task) /\ lane.todo # <<>> /\ lane.cmd \in Cmd
        /\ ~ Single(lane.cmd) /\ Head(lane.todo).do # "drop"
    BY <1>1, LaneIs DEF Inv, Putting, Single
  <2>2. Head(lane.todo) \in Task /\ Head(lane.todo) = lane.todo[1] /\ 1 \in DOMAIN lane.todo
    BY <2>1, RestIs
  <2> DEFINE w == Head(lane.todo)
  <2>3. w.do = "put" /\ <<w.sched, w.st>> \in Puts(lane.cmd)
    BY <1>2, <2>1, <2>2, TaskKinds DEF UndoFits
  <2>4. PICK e \in Range(lane.cmd.entries) : <<w.sched, w.st>> = <<e.sched, e.before>>
    BY <2>1, <2>3 DEF Puts
  <2>5. /\ lane.cmd = undoStack[Len(undoStack)] /\ Len(undoStack) \in DOMAIN undoStack
        /\ Len(undoStack) = 1 /\ DOMAIN undoStack = 1..Len(undoStack)
    <3>1. undoStack \in Seq(Cmd) /\ undoStack # <<>> /\ lane.cmd = Last(undoStack)
      BY <1>2 DEF UndoFits, Inv, Types
    <3>2. lane.cmd = undoStack[Len(undoStack)] /\ Len(undoStack) \in DOMAIN undoStack
          /\ DOMAIN undoStack = 1..Len(undoStack)
      BY <3>1, Popped
    <3> QED
      BY <2>1, <3>2 DEF Inv, Core, AutoFirst
  <2>6. sched[e.sched] # Gone
    <3>1. \A k \in DOMAIN undoStack : ~(1 < k)
      BY <2>5
    <3> QED
      BY <2>1, <2>4, <2>5, <3>1 DEF Inv, Core, AutoAlive
  <2>7. sched[w.sched] # Gone
    BY <2>4, <2>6
  <2> QED
    BY <1>1, <2>3, <2>7 DEF Possible
<1>4. Types'
  BY OtherTypes DEF Inv
<1> QED
  BY <1>1, <1>2, <1>3, <1>4, LaneKeeps

LEMMA RedoAutoKeeps == ASSUME Inv, Patient, RedoAuto PROVE Inv'
<1>1. PICK c : c = Last(redoStack)
  OBVIOUS
<1>2. /\ Len(redoStack) = 1 /\ redoStack # <<>> /\ c.op = "auto"
      /\ undoStack' = Append(undoStack, c) /\ redoStack' = Front(redoStack)
      /\ reload' = TRUE /\ UNCHANGED <<sched, rows, batch, lane, view>>
  BY <1>1 DEF RedoAuto, Patient
<1>3. lane = Idle /\ batch = Done
  BY ActsLate DEF RedoAuto
<1>4. c \in Cmd /\ c = redoStack[1] /\ 1 \in DOMAIN redoStack /\ redoStack' = <<>>
  <2>1. /\ c \in Cmd /\ c = redoStack[Len(redoStack)] /\ Len(redoStack) \in DOMAIN redoStack
        /\ Front(redoStack) \in Seq(Cmd) /\ Len(Front(redoStack)) = Len(redoStack) - 1
    BY <1>1, <1>2, Popped DEF Inv, Types
  <2> QED
    BY <1>2, <2>1
<1>5. undoStack = <<>> /\ undoStack' = <<c>>
  <2>1. undoStack = <<>>
    BY <1>2, <1>4 DEF Inv, Core, AutoFirst, Single
  <2> QED
    BY <1>2, <2>1
<1>6. \A e \in Range(c.entries) : /\ sched'[e.sched] # Gone
                                  /\ \A r \in Ahead(e.sched, e.before)' : r \in RowsOf(c)
  BY <1>2, <1>4 DEF Inv, Core, AutoRedo, Single, Ahead, Live
<1>7. PostedOnce' /\ Behind'
  BY <1>2 DEF Inv, Core, PostedOnce, Behind, Live
<1>8. Types'
  BY RunTypes DEF Inv
<1>9. Core' /\ RedoTop'
  BY <1>2, <1>4, <1>5, <1>6, <1>7, <1>8, CoreAlone
<1>10. BatchFits' /\ Quiet' /\ ViewFits' /\ LaneFits'
  BY <1>2, <1>3 DEF BatchFits, Running, Quiet, ViewFits, LaneFits
<1> QED
  BY <1>8, <1>9, <1>10 DEF Inv

----------------------------------------------------------------------------
(* Commands run.                                                           *)

LEMMA CommitKeeps == ASSUME Inv, Commit PROVE Inv'
<1>1. PICK c : c = lane.cmd
  OBVIOUS
<1>2. /\ lane # Idle /\ lane.how # "undo" /\ Ready /\ Write(lane.cmd, lane.st)
      /\ undoStack' = Append(undoStack, c)
      /\ redoStack' = IF lane.how = "do" THEN <<>> ELSE Front(redoStack)
      /\ lane' = Idle /\ reload' = TRUE /\ UNCHANGED <<batch, view>>
  BY <1>1 DEF Commit, Ready
<1>3. Types' /\ batch = Done /\ Exact(c) /\ RunFits /\ ~ Putting
  BY <1>1, <1>2, CommitTypes DEF Inv, LaneFits, Putting, Undoing
<1>4. PICK s \in Schedule : s = c.sched
  BY <1>1, <1>2, WriteIs DEF Inv
<1>5. /\ c \in Cmd /\ Single(c) /\ sched[s] # Gone /\ sched[s] = c.before /\ c.before \in Kept
      /\ c.before.next \in Nat
      /\ \A x \in Schedule : x # s => sched'[x] = sched[x]
      /\ \A r \in RowId : IF c.op = "post" /\ r = c.row
           THEN rows'[r] = Posting(s, c.occ) ELSE rows'[r] = rows[r]
  BY <1>1, <1>2, <1>3, <1>4, WriteIs DEF Inv, Single, RunFits, Types, Kept
<1>6. Left(c, sched'[s])
  <2>1. c.op \in {"post", "skip", "delete", "edit"}
    BY <1>5, CmdKinds DEF Single
  <2>2. CASE c.op \in {"post", "skip"}
    <3>1. lane.st = c.before
      BY <1>1, <1>2, <1>3, <2>2 DEF RunFits, Ready
    <3> QED
      BY <1>1, <1>2, <1>4, <2>2, <3>1, WriteIs, AbsentAssumption DEF Left, Inv
  <2>3. CASE c.op = "edit"
    <3>1. c.after.next = c.before.next
      BY <1>3, <2>3 DEF Exact
    <3>2. sched'[s] = c.after /\ c.after \in Kept
      BY <1>1, <1>2, <1>4, <2>3, WriteIs DEF Inv
    <3> QED
      BY <1>5, <2>3, <3>1, <3>2, AbsentAssumption DEF Left
  <2>4. CASE c.op = "delete"
    BY <1>1, <1>2, <1>4, <2>4, WriteIs DEF Left, Inv
  <2> QED
    BY <2>1, <2>2, <2>3, <2>4
<1>7. sched'[s] = Gone \/ (sched'[s].next \in Nat /\ sched'[s].next >= c.before.next)
  BY <1>3, <1>4, <1>5, <1>6 DEF Left, Types, Kept
<1>8. c.op = "post" =>
        /\ c.occ = c.before.next
        /\ sched'[s] # Gone /\ sched'[s].next = c.before.next + 1
  BY <1>3, <1>6 DEF Exact, Left
<1>9. \A r \in RowId : Live(r) /\ rows[r].sched = s => rows[r].occ \in Nat
                                                     /\ rows[r].occ < c.before.next
  BY <1>5 DEF Inv, Core, Behind, Types, Live, Post
<1>10. PostedOnce'
  <2> SUFFICES ASSUME NEW p \in RowId, NEW q \in RowId, Live(p)', Live(q)', rows'[p] = rows'[q]
               PROVE  p = q
    BY DEF PostedOnce
  <2>1. CASE ~(c.op = "post" /\ p = c.row) /\ ~(c.op = "post" /\ q = c.row)
    BY <1>5, <2>1 DEF Inv, Core, PostedOnce, Live
  <2>2. ASSUME NEW x \in RowId, NEW y \in RowId, c.op = "post", x = c.row, y # c.row, Live(y)',
               rows'[x] = rows'[y]
        PROVE  FALSE
    <3>1. Live(y) /\ rows[y] = Posting(s, c.occ)
      BY <1>5, <2>2 DEF Live
    <3>2. rows[y].sched = s /\ rows[y].occ = c.before.next
      BY <1>8, <2>2, <3>1 DEF Posting
    <3> QED
      BY <1>5, <1>9, <3>1, <3>2
  <2> QED
    BY <2>1, <2>2
<1>11. Behind'
  <2> SUFFICES ASSUME NEW r \in RowId, Live(r)', sched'[rows'[r].sched] # Gone
               PROVE  rows'[r].occ < sched'[rows'[r].sched].next
    BY DEF Behind
  <2>1. CASE c.op = "post" /\ r = c.row
    <3>1. rows'[r].sched = s /\ rows'[r].occ = c.before.next
      BY <1>5, <1>8, <2>1 DEF Posting
    <3> QED
      BY <1>5, <1>8, <2>1, <3>1
  <2>2. CASE ~(c.op = "post" /\ r = c.row)
    <3>1. rows'[r] = rows[r] /\ Live(r) /\ rows[r].sched \in Schedule
      BY <1>5, <2>2 DEF Live, Inv, Types, Post
    <3>2. CASE rows[r].sched = s
      BY <1>5, <1>7, <1>9, <3>1, <3>2
    <3>3. CASE rows[r].sched # s
      BY <1>5, <3>1, <3>3 DEF Inv, Core, Behind
    <3> QED
      BY <3>2, <3>3
  <2> QED
    BY <2>1, <2>2
<1> DEFINE m == Len(undoStack)
<1>12. /\ undoStack \in Seq(Cmd) /\ m \in Nat
       /\ DOMAIN undoStack' = DOMAIN undoStack \cup {m + 1} /\ DOMAIN undoStack \subseteq Nat
       /\ \A i \in DOMAIN undoStack : undoStack'[i] = undoStack[i] /\ i < m + 1
       /\ undoStack'[m + 1] = c
  BY <1>2, <1>5, Pushed DEF Inv, Types
<1>13. DOMAIN redoStack' \subseteq DOMAIN redoStack
       /\ \A i \in DOMAIN redoStack' : redoStack'[i] = redoStack[i]
       /\ (lane.how = "redo" => DOMAIN redoStack = DOMAIN redoStack' \cup {Len(redoStack)}
             /\ DOMAIN redoStack \subseteq Nat
             /\ (\A j \in DOMAIN redoStack' : j < Len(redoStack))
             /\ AllSingle /\ redoStack[Len(redoStack)].op = c.op
             /\ redoStack[Len(redoStack)].sched = s
             /\ redoStack[Len(redoStack)].before.next = c.before.next)
       /\ (lane.how # "redo" => DOMAIN redoStack' = {})
  <2>1. CASE lane.how = "redo"
    <3>1. /\ redoStack # <<>> /\ AllSingle /\ redoStack \in Seq(Cmd)
          /\ c.op = Last(redoStack).op /\ s = Last(redoStack).sched
          /\ c.before.next = Last(redoStack).before.next /\ redoStack' = Front(redoStack)
      BY <1>1, <1>2, <1>3, <1>4, <2>1 DEF RunFits, Inv, Types
    <3>2. /\ DOMAIN Front(redoStack) = DOMAIN redoStack \ {Len(redoStack)}
          /\ \A i \in DOMAIN Front(redoStack) : Front(redoStack)[i] = redoStack[i]
                                                /\ i < Len(redoStack)
          /\ Last(redoStack) = redoStack[Len(redoStack)] /\ Len(redoStack) \in DOMAIN redoStack
          /\ DOMAIN redoStack \subseteq Nat
      BY <3>1, Popped
    <3>3. /\ DOMAIN redoStack' \subseteq DOMAIN redoStack
          /\ DOMAIN redoStack = DOMAIN redoStack' \cup {Len(redoStack)}
          /\ \A j \in DOMAIN redoStack' : redoStack'[j] = redoStack[j] /\ j < Len(redoStack)
      BY <3>1, <3>2
    <3> QED
      BY <2>1, <3>1, <3>2, <3>3
  <2>2. CASE lane.how # "redo"
    <3>1. lane.how = "do"
      BY <1>2, <2>2, LaneIs DEF Inv
    <3> QED
      BY <1>2, <2>2, <3>1
  <2> QED
    BY <2>1, <2>2
<1> HIDE DEF m
<1>14. Covered'
  <2> SUFFICES ASSUME NEW i \in DOMAIN undoStack', NEW p \in Puts(undoStack'[i]),
                      NEW r \in Ahead(p[1], p[2])'
               PROVE  \E k \in DOMAIN undoStack' : k >= i /\ r \in RowsOf(undoStack'[k])
    BY DEF Covered
  <2>1. CASE c.op = "post" /\ r = c.row
    <3>1. r \in RowsOf(undoStack'[m + 1]) /\ m + 1 \in DOMAIN undoStack' /\ m + 1 >= i
      BY <1>12, <2>1 DEF RowsOf
    <3> QED
      BY <3>1
  <2>2. CASE ~(c.op = "post" /\ r = c.row)
    <3>1. r \in Ahead(p[1], p[2])
      BY <1>5, <2>2 DEF Ahead, Live
    <3>2. CASE i = m + 1
      <4>1. p = <<s, c.before>>
        BY <1>4, <1>5, <1>12, <3>2 DEF Puts
      <4>2. Live(r) /\ rows[r].sched = s /\ rows[r].occ >= c.before.next /\ r \in RowId
        BY <3>1, <4>1 DEF Ahead
      <4> QED
        BY <1>5, <1>9, <4>2
    <3>3. CASE i # m + 1
      <4>1. i \in DOMAIN undoStack /\ p \in Puts(undoStack[i])
        BY <1>12, <3>3
      <4>2. PICK k \in DOMAIN undoStack : k >= i /\ r \in RowsOf(undoStack[k])
        BY <3>1, <4>1 DEF Inv, Core, Covered
      <4> QED
        BY <1>12, <4>2
    <3> QED
      BY <3>2, <3>3
  <2> QED
    BY <2>1, <2>2
<1>15. AllExact'
  BY <1>3, <1>12, <1>13 DEF Inv, Core, AllExact
<1>16. AutoFirst'
  <2>1. \A i \in DOMAIN undoStack' : ~ Single(undoStack'[i]) => i = 1
    BY <1>5, <1>12 DEF Inv, Core, AutoFirst
  <2>2. \A j \in DOMAIN redoStack' : Single(redoStack'[j])
    BY <1>13 DEF AllSingle
  <2> QED
    BY <2>1, <2>2 DEF AutoFirst
<1>17. UndoChain'
  <2> SUFFICES ASSUME NEW i \in DOMAIN undoStack', NEW j \in DOMAIN undoStack', i < j,
                      Single(undoStack'[i]), Single(undoStack'[j]),
                      undoStack'[i].sched = undoStack'[j].sched,
                      \A k \in DOMAIN undoStack' : i < k /\ k < j
                        => undoStack'[k].sched # undoStack'[i].sched
               PROVE  Left(undoStack'[i], undoStack'[j].before)
    BY DEF UndoChain
  <2>1. i \in DOMAIN undoStack /\ i \in Nat
    BY <1>12
  <2>2. CASE j = m + 1
    <3>1. \A k \in DOMAIN undoStack : i < k => undoStack[k].sched # undoStack[i].sched
      BY <1>12, <2>1, <2>2
    <3>2. undoStack[i].sched = s /\ Single(undoStack[i]) /\ undoStack'[j] = c
      BY <1>4, <1>12, <2>1, <2>2
    <3>3. Left(undoStack[i], sched[s])
      BY <2>1, <3>1, <3>2 DEF Inv, Core, UndoTop
    <3> QED
      BY <1>5, <1>12, <2>1, <3>2, <3>3
  <2>3. CASE j # m + 1
    <3>1. j \in DOMAIN undoStack
      BY <1>12, <2>3
    <3> QED
      BY <1>12, <2>1, <3>1 DEF Inv, Core, UndoChain
  <2> QED
    BY <2>2, <2>3
<1>18. UndoTop'
  <2> SUFFICES ASSUME NEW i \in DOMAIN undoStack', Single(undoStack'[i]),
                      \A k \in DOMAIN undoStack' : i < k
                        => undoStack'[k].sched # undoStack'[i].sched
               PROVE  Left(undoStack'[i], sched'[undoStack'[i].sched])
    BY DEF UndoTop
  <2>1. CASE i = m + 1
    BY <1>4, <1>6, <1>12, <2>1
  <2>2. CASE i # m + 1
    <3>1. i \in DOMAIN undoStack /\ undoStack'[i] = undoStack[i] /\ undoStack[i] \in Cmd
      BY <1>12, <2>2
    <3>2. undoStack[i].sched # s /\ undoStack[i].sched \in Schedule
      BY <1>4, <1>12, <3>1, CmdKinds DEF Single
    <3>3. \A k \in DOMAIN undoStack : i < k => undoStack[k].sched # undoStack[i].sched
      BY <1>12, <3>1
    <3> QED
      BY <1>5, <3>1, <3>2, <3>3 DEF Inv, Core, UndoTop
  <2> QED
    BY <2>1, <2>2
<1>19. AutoAlive'
  <2> SUFFICES ASSUME NEW i \in DOMAIN undoStack', ~ Single(undoStack'[i]),
                      NEW e \in Range(undoStack'[i].entries),
                      \A k \in DOMAIN undoStack' : i < k => undoStack'[k].sched # e.sched
               PROVE  sched'[e.sched] # Gone
    BY DEF AutoAlive
  <2>1. i \in DOMAIN undoStack /\ undoStack'[i] = undoStack[i] /\ undoStack[i] \in Cmd
    BY <1>5, <1>12
  <2>2. e \in Entry
    BY <2>1, CmdKinds DEF Single, Range
  <2>3. e.sched # s /\ e.sched \in Schedule
    BY <1>4, <1>12, <2>1, <2>2 DEF Entry
  <2>4. \A k \in DOMAIN undoStack : i < k => undoStack[k].sched # e.sched
    BY <1>12, <2>1
  <2> QED
    BY <1>5, <2>1, <2>3, <2>4 DEF Inv, Core, AutoAlive
<1>20. RedoChain'
  BY <1>13 DEF Inv, Core, RedoChain, AllSingle
<1>21. AutoRedo'
  BY <1>13 DEF AutoRedo, AllSingle
<1>22. RedoTop'
  <2> SUFFICES ASSUME NEW j \in DOMAIN redoStack',
                      \A k \in DOMAIN redoStack' : k > j
                        => redoStack'[k].sched # redoStack'[j].sched
               PROVE  /\ sched'[redoStack'[j].sched] # Gone
                      /\ sched'[redoStack'[j].sched].next = redoStack'[j].before.next
    BY DEF RedoTop
  <2> DEFINE l == Len(redoStack)
  <2>1. /\ j \in DOMAIN redoStack /\ redoStack'[j] = redoStack[j] /\ redoStack[j] \in Cmd
        /\ DOMAIN redoStack = DOMAIN redoStack' \cup {l} /\ DOMAIN redoStack \subseteq Nat
        /\ AllSingle /\ redoStack[l].op = c.op /\ j < l /\ j \in Nat /\ l \in Nat
        /\ redoStack[l].sched = s /\ redoStack[l].before.next = c.before.next
    <3>1. lane.how = "redo" /\ j \in DOMAIN redoStack
      BY <1>13
    <3>2. redoStack \in Seq(Cmd) /\ redoStack[j] \in Cmd /\ l \in Nat
      BY <3>1 DEF Inv, Types
    <3> QED
      BY <1>13, <3>1, <3>2
  <2>2. redoStack[j].sched \in Schedule /\ redoStack[j].before \in Kept
    BY <2>1, CmdKinds DEF AllSingle, Single
  <2> HIDE DEF l
  <2>3. CASE redoStack[j].sched = s
    <3>1. \A k \in DOMAIN redoStack : j < k /\ k < l => redoStack[k].sched # redoStack[j].sched
      BY <1>13, <2>1
    <3>2. Left(redoStack[l], redoStack[j].before)
      BY <2>1, <2>3, <3>1 DEF Inv, Core, RedoChain
    <3>3. redoStack[j].before # Gone /\ c.op # "delete"
      BY <2>1, <2>2, <3>2, AbsentAssumption DEF Left
    <3>4. redoStack[j].before.next = c.before.next + (IF c.op \in {"post", "skip"} THEN 1 ELSE 0)
      BY <2>1, <3>2, <3>3 DEF Left
    <3> QED
      BY <1>6, <2>1, <2>3, <3>3, <3>4 DEF Left
  <2>4. CASE redoStack[j].sched # s
    <3>1. \A k \in DOMAIN redoStack : k > j => redoStack[k].sched # redoStack[j].sched
      BY <1>13, <2>1, <2>4
    <3> QED
      BY <1>3, <1>5, <2>1, <2>2, <2>4, <3>1 DEF Inv, RedoTop
  <2> QED
    BY <2>3, <2>4
<1>23. BatchFits' /\ Quiet' /\ ViewFits' /\ LaneFits'
  BY <1>2, <1>3 DEF BatchFits, Running, Quiet, ViewFits, LaneFits
<1> QED
  BY <1>3, <1>10, <1>11, <1>14, <1>15, <1>16, <1>17, <1>18, <1>19, <1>20, <1>21, <1>22, <1>23
     DEF Inv, Core

----------------------------------------------------------------------------
(* Commands undone.                                                        *)

(* The drops come first, each row of the command in one of them.           *)
LEMMA ReversalFits ==
    ASSUME NEW c \in Cmd, NEW todo, todo = Reversal(c)
    PROVE  /\ \A i \in DOMAIN todo : todo[i].do # "drop"
                => <<todo[i].sched, todo[i].st>> \in Puts(c)
           /\ \A r \in RowsOf(c) : \E i \in DOMAIN todo :
                todo[i].do = "drop" /\ r \in Range(todo[i].rows)
           /\ \A i, j \in DOMAIN todo : i < j /\ todo[j].do = "drop" => todo[i].do = "drop"
           /\ todo[Len(todo)].do # "drop"
           /\ Single(c) => \A i \in DOMAIN todo : todo[i].do # "drop" => i = Len(todo)
           /\ ~ Single(c) => /\ \A i \in DOMAIN todo : todo[i].do # "again"
                             /\ Head(todo).do = "drop"
<1>1. CASE c.op = "post"
  <2>1. /\ todo = <<Drop(<<c.row>>), Put(c.sched, c.before)>> /\ Single(c)
        /\ Puts(c) = {<<c.sched, c.before>>} /\ RowsOf(c) = {c.row}
    BY <1>1 DEF Reversal, Single, Puts, RowsOf
  <2>2. /\ DOMAIN todo = {1, 2} /\ Len(todo) = 2 /\ todo[1] = Drop(<<c.row>>)
        /\ todo[2] = Put(c.sched, c.before)
    BY <2>1
  <2>3. Drop(<<c.row>>).do = "drop" /\ Drop(<<c.row>>).rows = <<c.row>>
        /\ Put(c.sched, c.before).do = "put" /\ Put(c.sched, c.before).sched = c.sched
        /\ Put(c.sched, c.before).st = c.before
    BY DEF Drop, Put
  <2>4. c.row \in Range(<<c.row>>)
    <3>1. 1 \in DOMAIN <<c.row>> /\ <<c.row>>[1] = c.row
      OBVIOUS
    <3> QED
      BY <3>1 DEF Range
  <2> QED
    BY <2>1, <2>2, <2>3, <2>4
<1>2. CASE c.op \in {"skip", "edit", "delete"}
  <2>1. PICK w : /\ todo = <<w>> /\ w.do # "drop" /\ w.sched = c.sched /\ w.st = c.before
    BY <1>2 DEF Reversal, Put, Again
  <2>2. DOMAIN todo = {1} /\ Len(todo) = 1 /\ todo[1] = w
    BY <2>1
  <2>3. Single(c) /\ Puts(c) = {<<c.sched, c.before>>} /\ RowsOf(c) = {}
    BY <1>2 DEF Single, Puts, RowsOf
  <2> QED
    BY <2>1, <2>2, <2>3
<1>3. CASE c.op = "auto"
  <2>1. PICK es : es = c.entries
    OBVIOUS
  <2>2. /\ es \in Seq(Entry) /\ es # <<>> /\ todo = AutoReversal(es) /\ ~ Single(c)
        /\ Puts(c) = {<<e.sched, e.before>> : e \in Range(es)}
        /\ RowsOf(c) = UNION {Range(e.rows) : e \in Range(es)}
    BY <1>3, <2>1, CmdKinds DEF Reversal, Single, Puts, RowsOf
  <2> DEFINE n == Len(es)
  <2>3. /\ n \in Nat \ {0} /\ DOMAIN es = 1..n /\ Len(todo) = 2 * n
        /\ DOMAIN todo = 1..(2 * n) /\ todo \in Seq(Task)
        /\ \A i \in 1..n : todo[i] = Drop(es[n - i + 1].rows)
        /\ \A i \in (n + 1)..(2 * n) : todo[i] = Put(es[i - n].sched, es[i - n].before)
    BY <2>2, AutoReversalIs
  <2> HIDE DEF n
  <2>4. \A i \in 1..n : todo[i].do = "drop" /\ todo[i].rows = es[n - i + 1].rows
    <3>1. \A x : Drop(x).do = "drop" /\ Drop(x).rows = x
      BY DEF Drop
    <3> QED
      BY <2>3, <3>1
  <2>5. \A i \in (n + 1)..(2 * n) : /\ todo[i].do = "put" /\ todo[i].sched = es[i - n].sched
                                    /\ todo[i].st = es[i - n].before
    <3>1. \A x, y : Put(x, y).do = "put" /\ Put(x, y).sched = x /\ Put(x, y).st = y
      BY DEF Put
    <3> QED
      BY <2>3, <3>1
  <2>6. \A i \in DOMAIN todo : i \in 1..n \/ i \in (n + 1)..(2 * n)
    BY <2>3
  <2>7. \A i \in (n + 1)..(2 * n) : i - n \in 1..n
    BY <2>3
  <2>8. \A i \in DOMAIN todo : todo[i].do # "drop" => <<todo[i].sched, todo[i].st>> \in Puts(c)
    <3>1. \A i \in 1..n : es[i] \in Range(es)
      BY <2>3 DEF Range
    <3>2. ASSUME NEW i \in DOMAIN todo, todo[i].do # "drop"
          PROVE  <<todo[i].sched, todo[i].st>> \in Puts(c)
      <4>1. i \in (n + 1)..(2 * n)
        BY <2>4, <2>6, <3>2
      <4>2. es[i - n] \in Range(es)
        BY <2>7, <3>1, <4>1
      <4> QED
        BY <2>2, <2>5, <4>1, <4>2
    <3> QED
      BY <3>2
  <2>9. ASSUME NEW r \in RowsOf(c)
        PROVE  \E i \in DOMAIN todo : todo[i].do = "drop" /\ r \in Range(todo[i].rows)
    <3>1. PICK e \in Range(es) : r \in Range(e.rows)
      BY <2>2
    <3>2. PICK k \in 1..n : e = es[k]
      BY <2>3 DEF Range
    <3>3. n - k + 1 \in 1..n /\ n - (n - k + 1) + 1 = k /\ n - k + 1 \in DOMAIN todo
      BY <2>3
    <3>4. todo[n - k + 1].do = "drop" /\ todo[n - k + 1].rows = es[k].rows
      BY <2>4, <3>3
    <3> QED
      BY <3>1, <3>2, <3>3, <3>4
  <2>10. \A i, j \in DOMAIN todo : i < j /\ todo[j].do = "drop" => todo[i].do = "drop"
    <3>1. \A j \in DOMAIN todo : todo[j].do = "drop" => j \in 1..n
      BY <2>5, <2>6
    <3>2. \A i, j \in DOMAIN todo : i < j /\ j \in 1..n => i \in 1..n
      BY <2>3
    <3> QED
      BY <2>4, <3>1, <3>2
  <2>11. todo[Len(todo)].do # "drop"
    <3>1. 2 * n \in (n + 1)..(2 * n)
      BY <2>3
    <3> QED
      BY <2>3, <2>5, <3>1
  <2>12. \A i \in DOMAIN todo : todo[i].do # "again"
    BY <2>4, <2>5, <2>6
  <2>13. Head(todo).do = "drop"
    <3>1. 1 \in 1..n /\ todo # <<>>
      BY <2>3
    <3>2. Head(todo) = todo[1]
      BY <2>3, <3>1, RestIs
    <3> QED
      BY <2>4, <3>1, <3>2
  <2> QED
    BY <2>2, <2>8, <2>9, <2>10, <2>11, <2>12, <2>13
<1> QED
  BY <1>1, <1>2, <1>3, CmdKinds

LEMMA StartUndoKeeps == ASSUME Inv, Patient, StartUndo PROVE Inv'
<1>1. PICK c, todo : c = Last(undoStack) /\ todo = Reversal(c)
  OBVIOUS
<1>2. lane = Idle /\ batch = Done /\ ~ reload /\ ~ Putting
  BY ActsLate DEF StartUndo
<1>3. /\ lane' = [how |-> "undo", cmd |-> c, st |-> NotRead, todo |-> todo]
      /\ undoStack # <<>>
      /\ UNCHANGED <<sched, rows, batch, undoStack, redoStack, view, reload>>
  BY <1>1 DEF StartUndo
<1>4. /\ lane'.how = "undo" /\ lane'.cmd = c /\ lane'.todo = todo
  BY <1>3
<1>5. c \in Cmd /\ Exact(c)
  <2>1. undoStack \in Seq(Cmd)
    BY DEF Inv, Types
  <2>2. c \in Cmd /\ c = undoStack[Len(undoStack)] /\ Len(undoStack) \in DOMAIN undoStack
    BY <1>1, <1>3, <2>1, Popped
  <2> QED
    BY <2>2 DEF Inv, Core, AllExact
<1>6. /\ \A i \in DOMAIN todo : todo[i].do # "drop"
           => <<todo[i].sched, todo[i].st>> \in Puts(c)
      /\ \A r \in RowsOf(c) : \E i \in DOMAIN todo :
           todo[i].do = "drop" /\ r \in Range(todo[i].rows)
      /\ \A i, j \in DOMAIN todo : i < j /\ todo[j].do = "drop" => todo[i].do = "drop"
      /\ todo[Len(todo)].do # "drop"
      /\ Single(c) => \A i \in DOMAIN todo : todo[i].do # "drop" => i = Len(todo)
      /\ ~ Single(c) => /\ \A i \in DOMAIN todo : todo[i].do # "again"
                        /\ Head(todo).do = "drop"
  BY <1>1, <1>5, ReversalFits
<1>7. UndoFits'
  BY <1>1, <1>3, <1>4, <1>6 DEF UndoFits
<1>8. LaneFits'
  BY <1>2, <1>3, <1>4, <1>5, <1>7 DEF LaneFits
<1>9. Types'
  BY UndoTypes DEF Inv
<1> QED
  BY <1>2, <1>3, <1>8, <1>9, LaneKeeps

(* A row dropped.                                                          *)
LEMMA DropKeeps ==
    ASSUME Inv, UndoWrite, Head(lane.todo).do = "drop", Types'
    PROVE  Inv'
<1>1. PICK todo, w, c : todo = lane.todo /\ w = Head(todo) /\ c = lane.cmd
  OBVIOUS
<1>2. /\ todo \in Seq(Task) /\ todo # <<>> /\ w \in Task /\ c \in Cmd /\ w.do = "drop"
      /\ sched' = sched /\ rows' = [rows EXCEPT ![Last(w.rows)] = NoRow]
      /\ lane # Idle /\ lane.how = "undo"
      /\ UNCHANGED <<batch, view>>
  BY <1>1, UndoneIs DEF Inv, UndoWrite, Undoing
<1>3. w.rows \in Seq(RowId) /\ w = todo[1] /\ Rest(todo) \in Seq(Task)
      /\ Len(todo) \in Nat \ {0} /\ DOMAIN todo = 1..Len(todo)
  BY <1>1, <1>2, TaskKinds, RestIs
<1>4. batch = Done /\ Exact(c) /\ UndoFits /\ ~ Putting
  BY <1>1, <1>2 DEF Inv, LaneFits, Putting
<1>5. Len(todo) > 1
  BY <1>1, <1>2, <1>3, <1>4 DEF UndoFits
<1> DEFINE q == Rest(todo)
<1>6. /\ q # <<>> /\ q \in Seq(Task)
      /\ \/ /\ Len(w.rows) > 1 /\ DOMAIN q = DOMAIN todo /\ Len(q) = Len(todo)
            /\ \A i \in DOMAIN todo : q[i] = IF i = 1 THEN Drop(Front(w.rows)) ELSE todo[i]
         \/ /\ ~(Len(w.rows) > 1) /\ DOMAIN q = 1..(Len(todo) - 1) /\ Len(q) = Len(todo) - 1
            /\ \A i \in DOMAIN q : q[i] = todo[i + 1]
  BY <1>1, <1>2, <1>3, <1>5, RestIs
<1>7. /\ lane' \in LaneRecord /\ lane'.how = "undo" /\ lane'.cmd = c /\ lane'.todo = q
      /\ UNCHANGED <<undoStack, redoStack, reload>>
  BY <1>1, <1>6, UndoneIs DEF Inv
<1> HIDE DEF q
<1>8. \A r \in RowId : rows'[r] = rows[r] \/ (rows'[r] = NoRow /\ r = Last(w.rows))
  BY <1>2 DEF Inv, Types
<1>9. \A r \in RowId : Live(r)' => Live(r) /\ rows'[r] = rows[r] /\ r # Last(w.rows)
  BY <1>2, <1>8 DEF Live, Inv, Types
<1>10. \A s, st : Ahead(s, st)' \subseteq Ahead(s, st)
  BY <1>9 DEF Ahead
<1>11. PostedOnce' /\ Behind'
  BY <1>2, <1>9 DEF Inv, Core, PostedOnce, Behind
<1>12. Covered' /\ AutoRedo'
  BY <1>2, <1>7, <1>10 DEF Inv, Core, Covered, AutoRedo
<1>13. AllExact' /\ AutoFirst' /\ UndoChain' /\ UndoTop' /\ AutoAlive' /\ RedoChain'
  BY <1>2, <1>7 DEF Inv, Core, AllExact, AutoFirst, UndoChain, UndoTop, AutoAlive, RedoChain,
                    AllSingle
<1>14. RedoTop' /\ ViewFits'
  BY <1>2, <1>4, <1>7 DEF Inv, RedoTop, AllSingle, ViewFits
<1>15. BatchFits' /\ Quiet'
  BY <1>2, <1>4 DEF BatchFits, Running, Quiet
<1>16. UndoFits'
  <2>1. undoStack' # <<>> /\ c = Last(undoStack')
    BY <1>1, <1>4, <1>7 DEF UndoFits
  <2>2. CASE Len(w.rows) > 1
    <3>1. /\ DOMAIN q = DOMAIN todo /\ Len(q) = Len(todo)
          /\ \A i \in DOMAIN todo : q[i] = IF i = 1 THEN Drop(Front(w.rows)) ELSE todo[i]
      BY <1>6, <2>2
    <3>2. \A i \in DOMAIN todo : q[i].do = todo[i].do /\ (i # 1 => q[i] = todo[i])
      BY <1>2, <1>3, <3>1 DEF Drop
    <3>3. ASSUME NEW r \in RowsOf(c), Live(r)', r \in RowId
          PROVE  \E i \in DOMAIN q : q[i].do = "drop" /\ r \in Range(q[i].rows)
      <4>1. Live(r) /\ r # Last(w.rows)
        BY <1>9, <3>3
      <4>2. PICK i \in DOMAIN todo : todo[i].do = "drop" /\ r \in Range(todo[i].rows)
        BY <1>1, <1>4, <4>1 DEF UndoFits
      <4>3. CASE i # 1
        BY <3>1, <3>2, <4>2, <4>3
      <4>4. CASE i = 1
        <5>1. /\ w.rows # <<>> /\ r \in Range(w.rows) /\ q[1].rows = Front(w.rows)
              /\ q[1].do = "drop" /\ 1 \in DOMAIN q
          BY <1>3, <2>2, <3>1, <3>2, <4>2, <4>4 DEF Drop
        <5>2. /\ DOMAIN Front(w.rows) = DOMAIN w.rows \ {Len(w.rows)}
              /\ \A k \in DOMAIN Front(w.rows) : Front(w.rows)[k] = w.rows[k]
              /\ Last(w.rows) = w.rows[Len(w.rows)]
          <6>1. PICK s \in Seq(RowId) : s = w.rows
            BY <1>3
          <6>2. s # <<>>
            BY <5>1, <6>1
          <6>3. /\ DOMAIN Front(s) = DOMAIN s \ {Len(s)}
                /\ \A k \in DOMAIN Front(s) : Front(s)[k] = s[k]
                /\ Last(s) = s[Len(s)]
            BY <6>2, Popped
          <6> QED
            BY <6>1, <6>3
        <5>3. r \in Range(Front(w.rows))
          BY <4>1, <5>1, <5>2 DEF Range
        <5> QED
          BY <5>1, <5>3
      <4> QED
        BY <4>3, <4>4
    <3>4. \A r \in RowsOf(c) : r \in RowId
      BY <1>2, RowsAre
    <3>5. \A i \in DOMAIN q : q[i].do # "drop" => <<q[i].sched, q[i].st>> \in Puts(c)
      <4>1. \A i \in DOMAIN todo : q[i].do # "drop" => q[i] = todo[i]
        BY <1>2, <1>3, <3>2
      <4> QED
        BY <1>1, <1>4, <3>1, <4>1 DEF UndoFits
    <3>6. \A i, j \in DOMAIN q : i < j /\ q[j].do = "drop" => q[i].do = "drop"
      BY <1>1, <1>4, <3>1, <3>2 DEF UndoFits
    <3>7. q[Len(q)].do # "drop"
      <4>1. Len(q) = Len(todo) /\ Len(todo) \in DOMAIN todo
        BY <1>3, <3>1
      <4> QED
        BY <1>1, <1>4, <3>2, <4>1 DEF UndoFits
    <3>8. /\ Single(c) => \A i \in DOMAIN q : q[i].do # "drop" => i = Len(q)
          /\ ~ Single(c) => \A i \in DOMAIN q : q[i].do # "again"
      BY <1>1, <1>4, <3>1, <3>2 DEF UndoFits
    <3> QED
      BY <1>7, <2>1, <3>3, <3>4, <3>5, <3>6, <3>7, <3>8 DEF UndoFits
  <2>3. CASE ~(Len(w.rows) > 1)
    <3>1. /\ DOMAIN q = 1..(Len(todo) - 1) /\ Len(q) = Len(todo) - 1
          /\ \A i \in DOMAIN q : q[i] = todo[i + 1]
      BY <1>6, <2>3
    <3>2. \A i \in DOMAIN q : i \in Nat /\ i + 1 \in DOMAIN todo
      BY <1>3, <3>1
    <3>3. ASSUME NEW r \in RowsOf(c), Live(r)', r \in RowId
          PROVE  \E i \in DOMAIN q : q[i].do = "drop" /\ r \in Range(q[i].rows)
      <4>1. Live(r) /\ r # Last(w.rows)
        BY <1>9, <3>3
      <4>2. PICK i \in DOMAIN todo : todo[i].do = "drop" /\ r \in Range(todo[i].rows)
        BY <1>1, <1>4, <4>1 DEF UndoFits
      <4>3. i # 1
        <5>1. SUFFICES ASSUME i = 1 PROVE FALSE
          OBVIOUS
        <5>2. PICK k \in DOMAIN w.rows : w.rows[k] = r
          BY <1>3, <4>2, <5>1 DEF Range
        <5>3. k = Len(w.rows)
          BY <1>3, <2>3, <5>2
        <5> QED
          BY <4>1, <5>2, <5>3 DEF Last
      <4>4. i - 1 \in DOMAIN q /\ i - 1 + 1 = i
        BY <1>3, <3>1, <4>3
      <4>5. q[i - 1] = todo[i]
        BY <3>1, <4>4
      <4> QED
        BY <4>2, <4>4, <4>5
    <3>4. \A r \in RowsOf(c) : r \in RowId
      BY <1>2, RowsAre
    <3>5. /\ \A i \in DOMAIN q : q[i].do # "drop" => <<q[i].sched, q[i].st>> \in Puts(c)
          /\ ~ Single(c) => \A i \in DOMAIN q : q[i].do # "again"
      <4>1. /\ \A i \in DOMAIN todo : todo[i].do # "drop"
                 => <<todo[i].sched, todo[i].st>> \in Puts(c)
            /\ ~ Single(c) => \A i \in DOMAIN todo : todo[i].do # "again"
        BY <1>1, <1>4 DEF UndoFits
      <4> QED
        BY <3>1, <3>2, <4>1
    <3>6. \A i, j \in DOMAIN q : i < j /\ q[j].do = "drop" => q[i].do = "drop"
      <4>1. \A i, j \in DOMAIN q : i < j => i + 1 < j + 1
        BY <3>2
      <4> QED
        BY <1>1, <1>4, <3>1, <3>2, <4>1 DEF UndoFits
    <3>7. q[Len(q)].do # "drop"
      <4>1. Len(q) \in DOMAIN q /\ Len(q) + 1 = Len(todo)
        BY <1>3, <1>5, <3>1
      <4> QED
        BY <1>1, <1>4, <3>1, <4>1 DEF UndoFits
    <3>8. Single(c) => \A i \in DOMAIN q : q[i].do # "drop" => i = Len(q)
      <4>1. Single(c) => \A i \in DOMAIN q : q[i].do # "drop" => i + 1 = Len(todo)
        BY <1>1, <1>4, <3>1, <3>2 DEF UndoFits
      <4> QED
        BY <1>3, <3>1, <3>2, <4>1
    <3> QED
      BY <1>7, <2>1, <3>3, <3>4, <3>5, <3>6, <3>7, <3>8 DEF UndoFits
  <2> QED
    BY <2>2, <2>3
<1>17. LaneFits'
  BY <1>2, <1>4, <1>7, <1>16 DEF LaneFits
<1> QED
  BY <1>11, <1>12, <1>13, <1>14, <1>15, <1>17 DEF Inv, Core

(* A schedule put back: no row of the command is left, and what came after *)
(* it is undone, so that nothing from the date on is left either.          *)
Returns(c, s, st) ==
    /\ lane # Idle /\ lane.how = "undo" /\ lane.cmd = c /\ c \in Cmd /\ batch = Done
    /\ s \in Schedule /\ st \in Kept /\ <<s, st>> \in Puts(c) /\ st # Gone
    /\ rows' = rows /\ sched' = [sched EXCEPT ![s] = st]
    /\ undoStack \in Seq(Cmd) /\ undoStack # <<>> /\ Len(undoStack) \in Nat \ {0}
    /\ DOMAIN undoStack = 1..Len(undoStack) /\ undoStack[Len(undoStack)] = c
    /\ \A r \in RowsOf(c) : ~ Live(r)
    /\ \A p \in Puts(c) : Ahead(p[1], p[2]) = {}
    /\ \A j \in DOMAIN redoStack : Single(redoStack[j])
    /\ UNCHANGED <<batch, view>>

LEMMA ReturnsIs ==
    ASSUME Inv, UndoWrite, Head(lane.todo).do # "drop"
    PROVE  Returns(lane.cmd, Head(lane.todo).sched, Head(lane.todo).st)
<1>1. PICK todo, w, c : todo = lane.todo /\ w = Head(todo) /\ c = lane.cmd
  OBVIOUS
<1>2. /\ todo \in Seq(Task) /\ todo # <<>> /\ w \in Task /\ c \in Cmd /\ w.do # "drop"
      /\ w.sched \in Schedule /\ w.st \in Kept
      /\ rows' = rows /\ sched' = [sched EXCEPT ![w.sched] = w.st]
      /\ lane # Idle /\ lane.how = "undo" /\ UNCHANGED <<batch, view>>
  BY <1>1, UndoneIs DEF Inv, UndoWrite, Undoing
<1>3. w = todo[1] /\ Len(todo) \in Nat \ {0} /\ DOMAIN todo = 1..Len(todo) /\ 1 \in DOMAIN todo
  BY <1>1, <1>2, RestIs
<1>4. batch = Done /\ UndoFits
  BY <1>1, <1>2 DEF Inv, LaneFits
<1>5. <<w.sched, w.st>> \in Puts(c)
  BY <1>1, <1>2, <1>3, <1>4 DEF UndoFits
<1>6. ASSUME NEW r \in RowsOf(c), Live(r)
      PROVE  FALSE
  <2>1. PICK i \in DOMAIN todo : todo[i].do = "drop"
    BY <1>1, <1>4, <1>6 DEF UndoFits
  <2>2. 1 < i
    BY <1>2, <1>3, <2>1
  <2> QED
    BY <1>1, <1>2, <1>3, <1>4, <2>1, <2>2 DEF UndoFits
<1>7. undoStack \in Seq(Cmd) /\ undoStack # <<>> /\ c = Last(undoStack)
  BY <1>1, <1>4 DEF UndoFits, Inv, Types
<1>8. /\ Len(undoStack) \in Nat \ {0} /\ DOMAIN undoStack = 1..Len(undoStack)
      /\ undoStack[Len(undoStack)] = c
  BY <1>7, Popped
<1>9. ASSUME NEW p \in Puts(c), NEW r \in Ahead(p[1], p[2])
      PROVE  FALSE
  <2>1. PICK k \in DOMAIN undoStack : k >= Len(undoStack) /\ r \in RowsOf(undoStack[k])
    <3>1. Len(undoStack) \in DOMAIN undoStack /\ p \in Puts(undoStack[Len(undoStack)])
      BY <1>8
    <3> QED
      BY <3>1 DEF Inv, Core, Covered
  <2>2. k = Len(undoStack)
    BY <1>8, <2>1
  <2> QED
    BY <1>6, <1>8, <2>1, <2>2 DEF Ahead
<1>10. \A j \in DOMAIN redoStack : Single(redoStack[j])
  BY <1>7 DEF Inv, Core, AutoFirst
<1>11. w.st # Gone
  BY <1>2, AbsentAssumption
<1>12. \A p \in Puts(c) : Ahead(p[1], p[2]) = {}
  BY <1>9
<1> QED
  BY <1>1, <1>2, <1>4, <1>5, <1>6, <1>7, <1>8, <1>10, <1>11, <1>12 DEF Returns

LEMMA ReturnedBehind ==
    ASSUME Inv, NEW c, NEW s, NEW st, Returns(c, s, st)
    PROVE  /\ PostedOnce' /\ Behind' /\ sched'[s] = st
           /\ \A x \in Schedule : x # s => sched'[x] = sched[x]
<1>1. /\ rows' = rows /\ s \in Schedule /\ st \in Kept
      /\ sched' = [sched EXCEPT ![s] = st] /\ Ahead(s, st) = {}
  <2>1. <<s, st>> \in Puts(c) /\ \A p \in Puts(c) : Ahead(p[1], p[2]) = {}
    BY DEF Returns
  <2>2. Ahead(s, st) = {}
    BY <2>1
  <2> QED
    BY <2>2 DEF Returns
<1>2. sched'[s] = st /\ \A x \in Schedule : x # s => sched'[x] = sched[x]
  BY <1>1 DEF Inv, Types
<1>3. PostedOnce'
  BY <1>1 DEF Inv, Core, PostedOnce, Live
<1>4. Behind'
  <2> SUFFICES ASSUME NEW r \in RowId, Live(r), sched'[rows[r].sched] # Gone
               PROVE  rows[r].occ < sched'[rows[r].sched].next
    BY <1>1 DEF Behind, Live
  <2>1. rows[r] \in Post
    BY DEF Inv, Types, Live
  <2>2. CASE rows[r].sched = s
    <3>1. r \notin Ahead(s, st)
      BY <1>1
    <3>2. ~(rows[r].occ >= st.next)
      BY <2>2, <3>1 DEF Ahead
    <3>3. rows[r].occ \in Nat /\ st.next \in Nat
      BY <1>1, <2>1 DEF Post, Kept
    <3> QED
      BY <1>2, <2>2, <3>2, <3>3
  <2>3. CASE rows[r].sched # s
    BY <1>2, <2>1, <2>3 DEF Inv, Core, Behind, Post
  <2> QED
    BY <2>2, <2>3
<1> QED
  BY <1>2, <1>3, <1>4

(* The batch's schedules, but not yet the last of them.                    *)
LEMMA PutGoesOn ==
    ASSUME Inv, UndoWrite, Head(lane.todo).do # "drop", Rest(lane.todo) # <<>>, Types'
    PROVE  Inv'
<1>1. PICK todo, c, s, st : /\ todo = lane.todo /\ c = lane.cmd
                            /\ s = Head(todo).sched /\ st = Head(todo).st
  OBVIOUS
<1>2. Returns(c, s, st)
  BY <1>1, ReturnsIs
<1>3. /\ todo \in Seq(Task) /\ todo # <<>> /\ lane' \in LaneRecord /\ lane'.how = "undo"
      /\ lane'.cmd = c /\ lane'.todo = Rest(todo) /\ Rest(todo) # <<>>
      /\ UNCHANGED <<undoStack, redoStack, reload, batch, view>>
  BY <1>1, UndoneIs DEF Inv
<1> DEFINE q == Rest(todo)
<1>4. /\ Len(todo) \in Nat \ {0} /\ DOMAIN todo = 1..Len(todo)
      /\ Head(todo) = todo[1]
      /\ q \in Seq(Task) /\ DOMAIN q = 1..(Len(todo) - 1) /\ Len(q) = Len(todo) - 1
      /\ \A i \in DOMAIN q : q[i] = todo[i + 1]
      /\ Len(todo) # 1
  BY <1>1, <1>3, RestIs
<1>5. UndoFits /\ batch = Done /\ Exact(c)
  BY <1>1, <1>2 DEF Inv, LaneFits, Returns
<1>6. ~ Single(c) /\ c.op = "auto"
  <2>1. 1 \in DOMAIN todo /\ todo[1].do # "drop" /\ 1 # Len(todo)
    BY <1>1, <1>4
  <2> QED
    BY <1>1, <1>5, <2>1 DEF UndoFits, Single
<1>7. DOMAIN undoStack = {1} /\ undoStack[1] = c /\ undoStack # <<>>
  <2>1. /\ Len(undoStack) \in Nat \ {0} /\ DOMAIN undoStack = 1..Len(undoStack)
        /\ undoStack[Len(undoStack)] = c /\ undoStack # <<>>
    BY <1>2 DEF Returns
  <2>2. Len(undoStack) = 1
    BY <1>6, <2>1 DEF Inv, Core, AutoFirst
  <2> QED
    BY <2>1, <2>2
<1> HIDE DEF q
<1>8. \A i \in DOMAIN q : i \in Nat /\ i + 1 \in DOMAIN todo
  BY <1>4
<1>9. \A i \in DOMAIN todo : todo[i].do # "drop"
  <2> SUFFICES ASSUME NEW i \in DOMAIN todo, todo[i].do = "drop" PROVE FALSE
    OBVIOUS
  <2>1. 1 < i /\ 1 \in DOMAIN todo /\ todo[1].do # "drop"
    BY <1>1, <1>4
  <2> QED
    BY <1>1, <1>5, <2>1 DEF UndoFits
<1>10. q # <<>> /\ Head(q).do # "drop"
  <2>1. q # <<>> /\ Head(q) = q[1] /\ 1 \in DOMAIN q
    BY <1>3, <1>4, RestIs DEF q
  <2> QED
    BY <1>4, <1>8, <1>9, <2>1
<1>11. /\ PostedOnce' /\ Behind' /\ sched'[s] = st
       /\ \A x \in Schedule : x # s => sched'[x] = sched[x]
  BY <1>2, ReturnedBehind
<1>12. rows' = rows /\ st # Gone
  BY <1>2 DEF Returns
<1>13. Covered' /\ AllExact' /\ AutoFirst' /\ RedoChain'
  BY <1>3, <1>12 DEF Inv, Core, Covered, AllExact, AutoFirst, RedoChain, AllSingle, Ahead, Live
<1>14. UndoChain' /\ UndoTop'
  BY <1>3, <1>6, <1>7 DEF UndoChain, UndoTop
<1>15. AutoAlive'
  <2> SUFFICES ASSUME NEW e \in Range(c.entries)
               PROVE  sched'[e.sched] # Gone
    BY <1>3, <1>7 DEF AutoAlive
  <2>1. e \in Entry
    <3>1. c \in Cmd
      BY <1>2 DEF Returns
    <3> QED
      BY <1>6, <3>1, CmdKinds DEF Range
  <2>2. sched[e.sched] # Gone
    <3>1. \A k \in DOMAIN undoStack : ~(1 < k)
      BY <1>7
    <3> QED
      BY <1>6, <1>7, <3>1 DEF Inv, Core, AutoAlive
  <2> QED
    BY <1>11, <1>12, <2>1, <2>2 DEF Entry
<1>16. AutoRedo'
  BY <1>2, <1>3 DEF AutoRedo, Returns
<1>17. Putting'
  <2>1. Undoing'
    <3>1. lane' # Idle
      BY <1>3 DEF Idle
    <3> QED
      BY <1>3, <3>1 DEF Undoing
  <2> QED
    BY <1>3, <1>6, <1>10, <2>1 DEF Putting, q
<1>18. RedoTop' /\ ViewFits'
  BY <1>17 DEF RedoTop, ViewFits
<1>19. BatchFits' /\ Quiet'
  BY <1>3, <1>5 DEF BatchFits, Running, Quiet
<1>20. LaneFits'
  <2>1. undoStack' # <<>> /\ c = Last(undoStack')
    BY <1>1, <1>3, <1>5 DEF UndoFits
  <2>2. /\ \A i \in DOMAIN q : <<q[i].sched, q[i].st>> \in Puts(c)
        /\ \A i \in DOMAIN q : q[i].do # "again" /\ q[i].do # "drop"
    <3>1. \A i \in DOMAIN todo : /\ <<todo[i].sched, todo[i].st>> \in Puts(c)
                                 /\ todo[i].do # "again"
      BY <1>1, <1>5, <1>6, <1>9 DEF UndoFits
    <3> QED
      BY <1>4, <1>8, <1>9, <3>1
  <2>3. \A r \in RowsOf(c) : ~ Live(r)'
    BY <1>2, <1>12 DEF Returns, Live
  <2>4. Len(q) \in DOMAIN q
    BY <1>4
  <2>5. UndoFits'
    BY <1>3, <1>6, <2>1, <2>2, <2>3, <2>4 DEF UndoFits, q
  <2> QED
    BY <1>3, <1>5, <2>5 DEF LaneFits
<1> QED
  BY <1>11, <1>13, <1>14, <1>15, <1>16, <1>18, <1>19, <1>20 DEF Inv, Core

(* The last write: the command goes over to the redo stack.                *)
LEMMA PutEnds ==
    ASSUME Inv, UndoWrite, Head(lane.todo).do # "drop", Rest(lane.todo) = <<>>, Types'
    PROVE  Inv'
<1>1. PICK c, s, st : c = lane.cmd /\ s = Head(lane.todo).sched /\ st = Head(lane.todo).st
  OBVIOUS
<1>2. Returns(c, s, st)
  BY <1>1, ReturnsIs
<1>3. /\ lane' = Idle /\ reload' = TRUE /\ UNCHANGED <<batch, view>>
      /\ undoStack' = Front(undoStack) /\ redoStack' = Append(redoStack, c)
  BY <1>1, UndoneIs DEF Inv
<1>4. /\ rows' = rows /\ st \in Kept /\ st # Gone /\ s \in Schedule /\ c \in Cmd
      /\ <<s, st>> \in Puts(c) /\ undoStack \in Seq(Cmd) /\ undoStack # <<>>
      /\ lane # Idle /\ lane.how = "undo" /\ batch = Done
      /\ \A r \in RowsOf(c) : ~ Live(r)
      /\ \A p \in Puts(c) : Ahead(p[1], p[2]) = {}
      /\ \A j \in DOMAIN redoStack : Single(redoStack[j])
  BY <1>2 DEF Returns
<1>5. PICK n \in Nat \ {0} : n = Len(undoStack)
  BY <1>4
<1>6. /\ n \in DOMAIN undoStack /\ DOMAIN undoStack = 1..n /\ undoStack[n] = c
      /\ DOMAIN undoStack' = 1..(n - 1) /\ DOMAIN undoStack' \subseteq DOMAIN undoStack
      /\ \A i \in DOMAIN undoStack' : undoStack'[i] = undoStack[i] /\ i < n /\ i \in Nat
  <2>1. /\ DOMAIN Front(undoStack) = DOMAIN undoStack \ {Len(undoStack)}
        /\ \A i \in DOMAIN Front(undoStack) : Front(undoStack)[i] = undoStack[i]
        /\ DOMAIN undoStack = 1..Len(undoStack)
    <3>1. PICK stack \in Seq(Cmd) : stack = undoStack
      BY <1>4
    <3>2. stack # <<>>
      BY <1>4, <3>1
    <3>3. /\ DOMAIN Front(stack) = DOMAIN stack \ {Len(stack)}
          /\ \A i \in DOMAIN Front(stack) : Front(stack)[i] = stack[i]
          /\ DOMAIN stack = 1..Len(stack)
      BY <3>2, Popped
    <3> QED
      BY <3>1, <3>3
  <2>2. undoStack[n] = c
    BY <1>2, <1>5 DEF Returns
  <2>3. DOMAIN undoStack' = 1..n \ {n}
    BY <1>3, <1>5, <2>1
  <2> QED
    BY <1>3, <1>5, <2>1, <2>2, <2>3
<1>7. PICK m \in Nat : m = Len(redoStack)
  BY DEF Inv, Types
<1>8. /\ DOMAIN redoStack = 1..m /\ DOMAIN redoStack' = 1..(m + 1) /\ redoStack'[m + 1] = c
      /\ \A i \in DOMAIN redoStack : redoStack'[i] = redoStack[i] /\ i < m + 1
  <2>1. redoStack \in Seq(Cmd)
    BY DEF Inv, Types
  <2> QED
    BY <1>3, <1>4, <1>7, <2>1, Pushed
<1>9. /\ PostedOnce' /\ Behind' /\ sched'[s] = st
      /\ \A x \in Schedule : x # s => sched'[x] = sched[x]
  BY <1>2, ReturnedBehind
<1>10. Exact(c) /\ UndoFits
  BY <1>1, <1>4 DEF Inv, LaneFits
<1>11. Single(c) => s = c.sched /\ st = c.before
  BY <1>4 DEF Puts
<1>12. ~ Single(c) => n = 1 /\ DOMAIN undoStack' = {} /\ undoStack' = <<>>
  <2> SUFFICES ASSUME ~ Single(c) PROVE n = 1 /\ DOMAIN undoStack' = {} /\ undoStack' = <<>>
    OBVIOUS
  <2>1. n = 1
    BY <1>6 DEF Inv, Core, AutoFirst
  <2>2. DOMAIN undoStack' = {}
    BY <1>6, <2>1
  <2>3. undoStack' \in Seq(Cmd)
    BY DEF Types
  <2> QED
    BY <2>1, <2>2, <2>3
<1>13. \A i \in DOMAIN undoStack' :
         /\ undoStack[i] \in Cmd
         /\ Single(undoStack[i]) => undoStack[i].sched \in Schedule
  BY <1>4, <1>6, CmdKinds DEF Single
<1>14. \A i \in DOMAIN redoStack :
         redoStack[i] \in Cmd /\ redoStack[i].sched \in Schedule /\ redoStack[i].before \in Kept
  BY <1>4, CmdKinds DEF Single, Inv, Types
<1>15. Covered'
  <2> SUFFICES ASSUME NEW i \in DOMAIN undoStack', NEW p \in Puts(undoStack[i]),
                      NEW r \in Ahead(p[1], p[2])
               PROVE  \E k \in DOMAIN undoStack' : k >= i /\ r \in RowsOf(undoStack[k])
    BY <1>4, <1>6 DEF Covered, Ahead, Live
  <2>1. PICK k \in DOMAIN undoStack : k >= i /\ r \in RowsOf(undoStack[k])
    BY <1>6 DEF Inv, Core, Covered
  <2>2. k # n
    BY <1>4, <1>6, <2>1 DEF Ahead
  <2> QED
    BY <1>6, <2>1, <2>2
<1>16. AllExact'
  <2>1. \A i \in DOMAIN redoStack' : i \in DOMAIN redoStack \/ i = m + 1
    BY <1>8
  <2> QED
    BY <1>6, <1>8, <1>10, <2>1 DEF Inv, Core, AllExact
<1>17. AutoFirst'
  <2>1. \A i \in DOMAIN undoStack' : ~ Single(undoStack'[i]) => i = 1
    BY <1>6 DEF Inv, Core, AutoFirst
  <2>2. Len(redoStack') = m + 1
    BY <1>3, <1>4, <1>7 DEF Inv, Types
  <2>3. \A i \in DOMAIN redoStack' :
          ~ Single(redoStack'[i]) => i = m + 1 /\ undoStack' = <<>>
    BY <1>4, <1>8, <1>12
  <2> QED
    BY <2>1, <2>2, <2>3 DEF AutoFirst
<1>18. UndoChain'
  <2> SUFFICES ASSUME NEW i \in DOMAIN undoStack', NEW j \in DOMAIN undoStack', i < j,
                      Single(undoStack[i]), Single(undoStack[j]),
                      undoStack[i].sched = undoStack[j].sched,
                      \A k \in DOMAIN undoStack' :
                         i < k /\ k < j => undoStack[k].sched # undoStack[i].sched
               PROVE  Left(undoStack[i], undoStack[j].before)
    BY <1>6 DEF UndoChain
  <2>1. \A k \in DOMAIN undoStack : i < k /\ k < j => k \in DOMAIN undoStack'
    BY <1>6
  <2> QED
    BY <1>6, <2>1 DEF Inv, Core, UndoChain
<1>19. UndoTop'
  <2> SUFFICES ASSUME NEW i \in DOMAIN undoStack', Single(undoStack[i]),
                      \A k \in DOMAIN undoStack' :
                         i < k => undoStack[k].sched # undoStack[i].sched
               PROVE  Left(undoStack[i], sched'[undoStack[i].sched])
    BY <1>6 DEF UndoTop
  <2>1. \A k \in DOMAIN undoStack : k # n => k \in DOMAIN undoStack'
    BY <1>6
  <2>2. Single(c)
    BY <1>12
  <2>3. CASE undoStack[i].sched = s
    <3>1. \A k \in DOMAIN undoStack : i < k /\ k < n => undoStack[k].sched # undoStack[i].sched
      BY <1>6, <2>1
    <3>2. undoStack[i].sched = undoStack[n].sched
      BY <1>6, <1>11, <2>2, <2>3
    <3>3. Left(undoStack[i], undoStack[n].before)
      BY <1>6, <2>2, <3>1, <3>2 DEF Inv, Core, UndoChain
    <3> QED
      BY <1>6, <1>9, <1>11, <2>2, <2>3, <3>3
  <2>4. CASE undoStack[i].sched # s
    <3>1. \A k \in DOMAIN undoStack : i < k => undoStack[k].sched # undoStack[i].sched
      BY <1>6, <1>11, <2>1, <2>2, <2>4
    <3>2. Left(undoStack[i], sched[undoStack[i].sched])
      BY <1>6, <3>1 DEF Inv, Core, UndoTop
    <3> QED
      BY <1>9, <1>13, <2>4, <3>2
  <2> QED
    BY <2>3, <2>4
<1>20. AutoAlive'
  <2> SUFFICES ASSUME NEW i \in DOMAIN undoStack', ~ Single(undoStack[i]),
                      NEW e \in Range(undoStack[i].entries),
                      \A k \in DOMAIN undoStack' : i < k => undoStack[k].sched # e.sched
               PROVE  sched'[e.sched] # Gone
    BY <1>6 DEF AutoAlive
  <2>1. e.sched \in Schedule
    <3>1. undoStack[i].entries \in Seq(Entry)
      BY <1>13, CmdKinds DEF Single
    <3>2. e \in Entry
      BY <3>1 DEF Range
    <3> QED
      BY <3>2 DEF Entry
  <2>2. CASE e.sched = s
    BY <1>4, <1>9, <2>2
  <2>3. CASE e.sched # s
    <3>1. \A k \in DOMAIN undoStack : i < k => undoStack[k].sched # e.sched
      <4>1. \A k \in DOMAIN undoStack : k # n => k \in DOMAIN undoStack'
        BY <1>6
      <4> QED
        BY <1>6, <1>11, <1>12, <2>3, <4>1
    <3>2. sched[e.sched] # Gone
      BY <1>6, <3>1 DEF Inv, Core, AutoAlive
    <3> QED
      BY <1>9, <2>1, <2>3, <3>2
  <2> QED
    BY <2>2, <2>3
<1>21. AllSingle' => Single(c) /\ c.sched = s /\ c.before = st
  BY <1>8, <1>11 DEF AllSingle
<1>22. AllSingle
  BY <1>4 DEF AllSingle
<1>23. ~ Putting \/ ~ Single(c)
  BY <1>1 DEF Putting, Single
<1>24. RedoTop'
  <2> SUFFICES ASSUME Single(c), c.sched = s, c.before = st, NEW j \in DOMAIN redoStack',
                      \A k \in DOMAIN redoStack' :
                         k > j => redoStack'[k].sched # redoStack'[j].sched
               PROVE  /\ sched'[redoStack'[j].sched] # Gone
                      /\ sched'[redoStack'[j].sched].next = redoStack'[j].before.next
    BY <1>21 DEF RedoTop
  <2>1. CASE j = m + 1
    BY <1>4, <1>8, <1>9, <2>1
  <2>2. CASE j \in DOMAIN redoStack
    <3>1. m + 1 \in DOMAIN redoStack' /\ m + 1 > j /\ redoStack'[j] = redoStack[j]
      BY <1>8, <2>2
    <3>2. redoStack[j].sched # s /\ redoStack[j].sched \in Schedule
      BY <1>8, <1>14, <2>2, <3>1
    <3>3. \A k \in DOMAIN redoStack : k > j => redoStack[k].sched # redoStack[j].sched
      BY <1>8, <2>2, <3>1
    <3>4. /\ sched[redoStack[j].sched] # Gone
          /\ sched[redoStack[j].sched].next = redoStack[j].before.next
      BY <1>22, <1>23, <2>2, <3>3 DEF Inv, RedoTop
    <3> QED
      BY <1>9, <3>1, <3>2, <3>4
  <2> QED
    BY <1>8, <2>1, <2>2
<1>25. RedoChain'
  <2> SUFFICES ASSUME Single(c), c.sched = s, c.before = st,
                      NEW i \in DOMAIN redoStack', NEW j \in DOMAIN redoStack', i < j,
                      redoStack'[i].sched = redoStack'[j].sched,
                      \A k \in DOMAIN redoStack' :
                         i < k /\ k < j => redoStack'[k].sched # redoStack'[i].sched
               PROVE  Left(redoStack'[j], redoStack'[i].before)
    BY <1>21 DEF RedoChain
  <2>1. i \in DOMAIN redoStack /\ redoStack'[i] = redoStack[i]
    BY <1>8
  <2>2. CASE j = m + 1
    <3>1. redoStack'[j] = c /\ redoStack[i].sched = s
      BY <1>8, <2>1, <2>2
    <3>2. \A k \in DOMAIN redoStack : k > i => redoStack[k].sched # redoStack[i].sched
      BY <1>8, <2>1, <2>2
    <3>3. sched[s] # Gone /\ sched[s].next = redoStack[i].before.next
      BY <1>22, <1>23, <2>1, <3>1, <3>2 DEF Inv, RedoTop
    <3>4. Left(c, sched[s])
      <4>1. \A k \in DOMAIN undoStack : n < k => undoStack[k].sched # undoStack[n].sched
        BY <1>6
      <4> QED
        BY <1>6, <4>1 DEF Inv, Core, UndoTop
    <3>5. redoStack[i].before # Gone
      BY <1>14, <2>1, AbsentAssumption
    <3> QED
      BY <2>1, <3>1, <3>3, <3>4, <3>5 DEF Left
  <2>3. CASE j \in DOMAIN redoStack
    <3>1. redoStack'[j] = redoStack[j]
      BY <1>8, <2>3
    <3>2. \A k \in DOMAIN redoStack :
             i < k /\ k < j => redoStack[k].sched # redoStack[i].sched
      BY <1>8, <2>1
    <3> QED
      BY <1>22, <2>1, <2>3, <3>1, <3>2 DEF Inv, Core, RedoChain
  <2> QED
    BY <1>8, <2>2, <2>3
<1>26. AutoRedo'
  <2> SUFFICES ASSUME ~ Single(c), NEW e \in Range(c.entries)
               PROVE  sched'[e.sched] # Gone /\ Ahead(e.sched, e.before)' = {}
    <3>1. \A j \in DOMAIN redoStack' : ~ Single(redoStack'[j]) => redoStack'[j] = c
      BY <1>4, <1>8
    <3>2. ASSUME NEW j \in DOMAIN redoStack', ~ Single(redoStack'[j]),
                 NEW e \in Range(redoStack'[j].entries)
          PROVE  sched'[e.sched] # Gone /\ Ahead(e.sched, e.before)' = {}
      BY <3>1, <3>2
    <3> QED
      BY <3>2 DEF AutoRedo
  <2>1. e \in Entry
    <3>1. c.entries \in Seq(Entry)
      BY <1>4, CmdKinds DEF Single
    <3> QED
      BY <3>1 DEF Range
  <2>2. <<e.sched, e.before>> \in Puts(c)
    BY DEF Puts
  <2>3. Ahead(e.sched, e.before) = {}
    BY <1>4, <2>2
  <2>4. sched[e.sched] # Gone
    <3>1. \A k \in DOMAIN undoStack : ~(n < k)
      BY <1>6
    <3> QED
      BY <1>6, <3>1 DEF Inv, Core, AutoAlive
  <2>5. sched'[e.sched] # Gone
    BY <1>4, <1>9, <2>1, <2>4 DEF Entry
  <2> QED
    BY <1>4, <2>3, <2>5 DEF Ahead, Live
<1>27. BatchFits' /\ Quiet' /\ ViewFits' /\ LaneFits'
  BY <1>3, <1>4 DEF BatchFits, Running, Quiet, ViewFits, LaneFits
<1> QED
  BY <1>9, <1>15, <1>16, <1>17, <1>18, <1>19, <1>20, <1>24, <1>25, <1>26, <1>27 DEF Inv, Core

LEMMA UndoWriteKeeps == ASSUME Inv, UndoWrite PROVE Inv'
<1>1. Types'
  BY UndoTypes DEF Inv
<1> QED
  BY <1>1, DropKeeps, PutGoesOn, PutEnds

LEMMA NextKeeps == ASSUME Inv, Patient, [Next]_vars PROVE Inv'
<1>1. CASE AutoStep
  BY <1>1, ListKeeps, CandidateKeeps, FinishKeeps DEF AutoStep
<1>2. CASE Work
  BY <1>2, CheckKeeps, CommitKeeps, RefuseKeeps, UndoWriteKeeps, UndoFailKeeps DEF Work
<1>3. CASE LoadView \/ Execute \/ Redo \/ RedoAuto \/ StartUndo
  BY <1>3, LoadKeeps, ExecuteKeeps, RedoKeeps, RedoAutoKeeps, StartUndoKeeps
<1>4. CASE Tick \/ Restart \/ UNCHANGED vars
  BY <1>4, StutterKeeps, RestartKeeps
<1> QED
  BY <1>1, <1>2, <1>3, <1>4 DEF Next

(* No occurrence is posted twice, by the batch and by commands done, undone*)
(* and redone in any session, through crashes at any step, if the user acts*)
(* on the view only when the batch is over and the view is loaded again,   *)
(* and redoes the batch only when nothing that followed it is undone       *)
(* (postManually and CatchUpAutoPost, the undo commands of scheduled       *)
(* transactions).                                                          *)
THEOREM NeverTwice == ASSUME Patient PROVE Spec => []PostedOnce
<1>1. Inv => PostedOnce
  BY DEF Inv, Core
<1>2. Inv /\ [Next]_vars => Inv'
  BY NextKeeps
<1> QED
  BY <1>1, <1>2, InitFits, PTL DEF Spec

----------------------------------------------------------------------------
(* Every row in its place.                                                 *)

(* The rows of an entry, and of a command, with what they posted.          *)
Made(e) == {<<e.rows[i], Posting(e.sched, e.before.next - 1 + i)>> : i \in DOMAIN e.rows}

Makes(c) ==
    CASE c.op = "post" -> {<<c.row, Posting(c.sched, c.occ)>>}
      [] c.op = "auto" -> UNION {Made(e) : e \in Range(c.entries)}
      [] OTHER -> {}

Intact(c) == \A p \in Makes(c) : rows[p[1]] = p[2]
Spent(c)  == \A p \in Makes(c) : ~ Live(p[1])

(* A batch posted something for each of its schedules, which are different,*)
(* and a row of its own for each occurrence.                               *)
Proper(es) ==
    /\ \A i \in DOMAIN es : es[i].rows # <<>>
    /\ \A i, j \in DOMAIN es : es[i].sched = es[j].sched => i = j
    /\ \A i, j \in DOMAIN es : \A k \in DOMAIN es[i].rows, l \in DOMAIN es[j].rows :
         es[i].rows[k] = es[j].rows[l] => i = j /\ k = l

AllProper ==
    /\ \A i \in DOMAIN undoStack : ~ Single(undoStack[i]) => Proper(undoStack[i].entries)
    /\ \A i \in DOMAIN redoStack : ~ Single(redoStack[i]) => Proper(redoStack[i].entries)

(* No two commands hold the same row.                                      *)
Apart ==
    /\ \A i, j \in DOMAIN undoStack : i # j => RowsOf(undoStack[i]) \cap RowsOf(undoStack[j]) = {}
    /\ \A i, j \in DOMAIN redoStack : i # j => RowsOf(redoStack[i]) \cap RowsOf(redoStack[j]) = {}
    /\ \A i \in DOMAIN undoStack, j \in DOMAIN redoStack :
         RowsOf(undoStack[i]) \cap RowsOf(redoStack[j]) = {}

(* The rows of what is done are there, of what is undone are gone; those of*)
(* a batch done again, which posts nothing, are gone too.                  *)
Stored ==
    /\ \A i \in DOMAIN undoStack : ~ Undoing \/ i < Len(undoStack) =>
         Intact(undoStack[i]) \/ (~ Single(undoStack[i]) /\ Spent(undoStack[i]))
    /\ \A j \in DOMAIN redoStack : Spent(redoStack[j])

(* Undoing the batch takes no schedule forward.                            *)
Low(e) == sched[e.sched] # Gone => e.before.next <= sched[e.sched].next

AutoLow ==
    /\ \A i \in DOMAIN undoStack : ~ Single(undoStack[i]) =>
         \A e \in Range(undoStack[i].entries) :
            /\ Low(e)
            /\ \A k \in DOMAIN undoStack : i < k /\ undoStack[k].sched = e.sched
                 => e.before.next <= undoStack[k].before.next
    /\ \A i \in DOMAIN redoStack : ~ Single(redoStack[i]) =>
         \A e \in Range(redoStack[i].entries) : Low(e)

(* What NothingMissed says, of a schedule up to an occurrence and with no  *)
(* undo under way.                                                         *)
Accounted(s, o) ==
    \/ \E r \in RowId : Live(r) /\ rows[r] = Posting(s, o)
    \/ Posting(s, o) \in skipped \cup cut

Through(s, n) == \A o \in Template[s].next .. n - 1 : Accounted(s, o)

Settled == \A s \in Schedule : sched[s] # Gone => Through(s, sched[s].next)

(* A schedule that undo can bring back has missed nothing either.          *)
DeletedKept ==
    \A i \in DOMAIN undoStack :
        /\ undoStack[i].op = "delete"
        /\ \A k \in DOMAIN undoStack : i < k => undoStack[k].sched # undoStack[i].sched
        => Through(undoStack[i].sched, undoStack[i].before.next)

(* The batch, a command being run, a command being undone.                 *)
BatchHolds == Running =>
    /\ Proper(batch.entries)
    /\ \A e \in Range(batch.entries) : Low(e) /\ \A p \in Made(e) : rows[p[1]] = p[2]
    /\ \A c \in batch.todo : AutoPostDue(c.sched, c.st, batch.day)

RunHolds == lane # Idle /\ lane.how # "undo" /\ lane.cmd.op = "post" =>
    /\ ~ Live(lane.cmd.row)
    /\ \A i \in DOMAIN undoStack : lane.cmd.row \notin RowsOf(undoStack[i])
    /\ lane.how = "redo" => lane.cmd.row = Last(redoStack).row

Untouched ==
    /\ lane.todo = Reversal(lane.cmd) /\ Settled
    /\ Intact(lane.cmd) \/ (~ Single(lane.cmd) /\ Spent(lane.cmd))

(* What is still to drop is there.                                         *)
Begun ==
    /\ lane.cmd.op \in {"post", "auto"}
    /\ \A i \in DOMAIN lane.todo : lane.todo[i].do = "drop" =>
         \A k \in DOMAIN lane.todo[i].rows : Live(lane.todo[i].rows[k])

(* Each drop is of rows of the command, and each row is in one drop.       *)
DropsFit(c, todo) ==
    /\ \A i \in DOMAIN todo : todo[i].do = "drop" =>
         todo[i].rows # <<>> /\ \A k \in DOMAIN todo[i].rows : todo[i].rows[k] \in RowsOf(c)
    /\ \A i, j \in DOMAIN todo : todo[i].do = "drop" /\ todo[j].do = "drop" =>
         \A k \in DOMAIN todo[i].rows, l \in DOMAIN todo[j].rows :
            todo[i].rows[k] = todo[j].rows[l] => i = j /\ k = l
    /\ c.op # "delete" => \A i \in DOMAIN todo : todo[i].do # "again"

Waiting(e, todo) ==
    \E i \in DOMAIN todo : todo[i].do # "drop" /\ todo[i].sched = e.sched /\ todo[i].st = e.before

UndoHolds == Undoing =>
    /\ Untouched \/ Begun
    /\ \A p \in Makes(lane.cmd) : rows[p[1]] = p[2] \/ ~ Live(p[1])
    /\ DropsFit(lane.cmd, lane.todo)
    /\ ~ Single(lane.cmd) => \A e \in Range(lane.cmd.entries) :
         Waiting(e, lane.todo) \/ (sched[e.sched] # Gone /\ sched[e.sched].next = e.before.next)

Firm ==
    /\ Apart /\ AllProper /\ Stored /\ AutoLow /\ DeletedKept /\ NothingMissed
    /\ BatchHolds /\ RunHolds /\ UndoHolds

----------------------------------------------------------------------------
(* What the new parts say about a command.                                 *)

LEMMA PostingIs ==
    /\ \A s \in Schedule, o \in Nat : Posting(s, o) \in Post /\ Posting(s, o) # NoRow
    /\ \A s, o : Posting(s, o).sched = s /\ Posting(s, o).occ = o
    /\ \A s, t, o, p : Posting(s, o) = Posting(t, p) => s = t /\ o = p
<1>1. \A s \in Schedule, o \in Nat : Posting(s, o) \in Post
  BY DEF Posting, Post
<1>2. NoRow \notin Post
  BY AbsentAssumption DEF Post
<1>3. \A s, o : Posting(s, o).sched = s /\ Posting(s, o).occ = o
  BY DEF Posting
<1>4. ASSUME NEW s, NEW t, NEW o, NEW p, Posting(s, o) = Posting(t, p)
      PROVE  s = t /\ o = p
  <2>1. Posting(s, o).sched = Posting(t, p).sched /\ Posting(s, o).occ = Posting(t, p).occ
    BY <1>4
  <2> QED
    BY <1>3, <2>1
<1> QED
  BY <1>1, <1>2, <1>3, <1>4

(* An entry's rows.                                                        *)
LEMMA MadeIs ==
    ASSUME NEW e \in Entry
    PROVE  /\ e.sched \in Schedule /\ e.before \in Kept /\ e.before.next \in Nat
           /\ e.rows \in Seq(RowId) /\ DOMAIN e.rows = 1..Len(e.rows) /\ Len(e.rows) \in Nat
           /\ \A i \in DOMAIN e.rows : e.rows[i] \in RowId /\ e.before.next - 1 + i \in Nat
           /\ \A p \in Made(e) : \E i \in DOMAIN e.rows :
                /\ p[1] = e.rows[i] /\ p[2] = Posting(e.sched, e.before.next - 1 + i)
                /\ p[1] \in RowId /\ p[1] \in Range(e.rows) /\ p[2] \in Post /\ p[2] # NoRow
           /\ \A r \in Range(e.rows) : \E p \in Made(e) : p[1] = r
           /\ \A i \in DOMAIN e.rows :
                <<e.rows[i], Posting(e.sched, e.before.next - 1 + i)>> \in Made(e)
<1>1. e.sched \in Schedule /\ e.before \in Kept /\ e.before.next \in Nat /\ e.rows \in Seq(RowId)
  BY DEF Entry, Kept
<1>2. PICK s \in Seq(RowId) : s = e.rows
  BY <1>1
<1>3. /\ DOMAIN s = 1..Len(s) /\ Len(s) \in Nat
      /\ \A i \in DOMAIN s : s[i] \in RowId /\ i \in Nat \ {0}
  BY <1>2
<1>4. \A i \in DOMAIN s : e.before.next - 1 + i \in Nat
  BY <1>1, <1>3
<1>5. ASSUME NEW p \in Made(e)
      PROVE  \E i \in DOMAIN e.rows :
                /\ p[1] = e.rows[i] /\ p[2] = Posting(e.sched, e.before.next - 1 + i)
                /\ p[1] \in RowId /\ p[1] \in Range(e.rows) /\ p[2] \in Post /\ p[2] # NoRow
  <2>1. PICK i \in DOMAIN s : p = <<s[i], Posting(e.sched, e.before.next - 1 + i)>>
    BY <1>2 DEF Made
  <2>2. p[1] = s[i] /\ p[2] = Posting(e.sched, e.before.next - 1 + i)
    BY <2>1
  <2>3. p[1] \in RowId /\ p[1] \in Range(s)
    BY <1>3, <2>2 DEF Range
  <2>4. p[2] \in Post /\ p[2] # NoRow
    BY <1>1, <1>4, <2>2, PostingIs
  <2> QED
    BY <1>2, <2>2, <2>3, <2>4
<1>6. ASSUME NEW r \in Range(e.rows)
      PROVE  \E p \in Made(e) : p[1] = r
  <2>1. PICK i \in DOMAIN e.rows : e.rows[i] = r
    BY <1>6 DEF Range
  <2>2. <<r, Posting(e.sched, e.before.next - 1 + i)>> \in Made(e)
    BY <2>1 DEF Made
  <2> QED
    BY <2>2
<1>7. \A i \in DOMAIN e.rows :
        <<e.rows[i], Posting(e.sched, e.before.next - 1 + i)>> \in Made(e)
  BY DEF Made
<1> QED
  BY <1>1, <1>2, <1>3, <1>4, <1>5, <1>6, <1>7

LEMMA EntriesAre ==
    ASSUME NEW c \in Cmd, ~ Single(c)
    PROVE  /\ c.op = "auto" /\ c.entries \in Seq(Entry) /\ c.entries # <<>>
           /\ \A e \in Range(c.entries) : e \in Entry
           /\ Makes(c) = UNION {Made(e) : e \in Range(c.entries)}
<1>1. c.op = "auto" /\ c.entries \in Seq(Entry) /\ c.entries # <<>>
  BY CmdKinds DEF Single
<1>2. \A e \in Range(c.entries) : e \in Entry
  BY <1>1 DEF Range
<1> QED
  BY <1>1, <1>2 DEF Makes

LEMMA MakesAre ==
    ASSUME NEW c \in Cmd
    PROVE  /\ \A p \in Makes(c) : /\ p[1] \in RowsOf(c) /\ p[1] \in RowId /\ p[2] \in PostedBy(c)
                                  /\ p[2] \in Post /\ p[2] # NoRow
           /\ \A r \in RowsOf(c) : \E p \in Makes(c) : p[1] = r
           /\ \A x \in PostedBy(c) : \E p \in Makes(c) : p[2] = x
           /\ \A r \in RowsOf(c) : r \in RowId
<1>1. CASE c.op = "post"
  <2>1. /\ Makes(c) = {<<c.row, Posting(c.sched, c.occ)>>} /\ RowsOf(c) = {c.row}
        /\ PostedBy(c) = {Posting(c.sched, c.occ)}
    BY <1>1 DEF Makes, RowsOf, PostedBy
  <2>2. c.sched \in Schedule /\ c.occ \in Nat /\ c.row \in RowId
    BY <1>1, CmdKinds
  <2>3. Posting(c.sched, c.occ) \in Post /\ Posting(c.sched, c.occ) # NoRow
    BY <2>2, PostingIs
  <2> QED
    BY <2>1, <2>2, <2>3
<1>2. CASE c.op = "auto"
  <2>0. PICK es : es = c.entries
    OBVIOUS
  <2>1. /\ Makes(c) = UNION {Made(e) : e \in Range(es)}
        /\ RowsOf(c) = UNION {Range(e.rows) : e \in Range(es)}
        /\ \A e \in Range(es) : e \in Entry
    BY <1>2, <2>0, EntriesAre DEF RowsOf, Single
  <2>2. PostedBy(c) = UNION {{Posting(e.sched, e.before.next - 1 + i) : i \in DOMAIN e.rows} :
                             e \in Range(es)}
    BY <1>2, <2>0 DEF PostedBy
  <2>3. ASSUME NEW p \in Makes(c)
        PROVE  /\ p[1] \in RowsOf(c) /\ p[1] \in RowId /\ p[2] \in PostedBy(c)
               /\ p[2] \in Post /\ p[2] # NoRow
    <3>1. PICK e \in Range(es) : p \in Made(e)
      BY <2>1
    <3>2. e \in Entry
      BY <2>1
    <3>3. PICK i \in DOMAIN e.rows :
                /\ p[1] = e.rows[i] /\ p[2] = Posting(e.sched, e.before.next - 1 + i)
                /\ p[1] \in RowId /\ p[1] \in Range(e.rows) /\ p[2] \in Post /\ p[2] # NoRow
      BY <3>1, <3>2, MadeIs
    <3>4. p[2] \in PostedBy(c)
      BY <2>2, <3>3
    <3> QED
      BY <2>1, <3>3, <3>4
  <2>4. ASSUME NEW r \in RowsOf(c)
        PROVE  \E p \in Makes(c) : p[1] = r
    <3>1. PICK e \in Range(es) : r \in Range(e.rows)
      BY <2>1
    <3>2. \E p \in Made(e) : p[1] = r
      BY <2>1, <3>1, MadeIs
    <3> QED
      BY <2>1, <3>2
  <2>5. ASSUME NEW x \in PostedBy(c)
        PROVE  \E p \in Makes(c) : p[2] = x
    <3>1. PICK e \in Range(es) :
            x \in {Posting(e.sched, e.before.next - 1 + i) : i \in DOMAIN e.rows}
      BY <2>2
    <3>2. PICK i \in DOMAIN e.rows : x = Posting(e.sched, e.before.next - 1 + i)
      BY <3>1
    <3>3. <<e.rows[i], x>> \in Made(e)
      BY <3>2 DEF Made
    <3>4. <<e.rows[i], x>> \in Makes(c) /\ <<e.rows[i], x>>[2] = x
      BY <2>1, <3>3
    <3> QED
      BY <3>4
  <2> QED
    BY <2>3, <2>4, <2>5, RowsAre
<1>3. CASE c.op \notin {"post", "auto"}
  BY <1>3 DEF Makes, RowsOf, PostedBy
<1> QED
  BY <1>1, <1>2, <1>3

(* What holds of the rows of a command, in terms of them.                  *)
LEMMA SpentIs ==
    ASSUME NEW c \in Cmd
    PROVE  /\ Spent(c) <=> \A r \in RowsOf(c) : ~ Live(r)
           /\ Intact(c) => \A r \in RowsOf(c) : Live(r)
<1>1. /\ \A p \in Makes(c) : p[1] \in RowsOf(c) /\ p[2] # NoRow
      /\ \A r \in RowsOf(c) : \E p \in Makes(c) : p[1] = r
  BY MakesAre
<1> QED
  BY <1>1 DEF Spent, Intact, Live

(* Rows that are not a command's own do not matter to it.                  *)
LEMMA CmdStays ==
    ASSUME NEW c \in Cmd, \A r \in RowsOf(c) : rows'[r] = rows[r]
    PROVE  (Intact(c) => Intact(c)') /\ (Spent(c) => Spent(c)')
<1>1. \A p \in Makes(c) : p[1] \in RowsOf(c)
  BY MakesAre
<1> QED
  BY <1>1 DEF Intact, Spent, Live

----------------------------------------------------------------------------
(* Steps that leave the store as it is.                                    *)

LEMMA NoneHalf == ~ Undoing => HalfUndone = {} /\ (NothingMissed <=> Settled)
<1> SUFFICES ASSUME ~ Undoing PROVE HalfUndone = {} /\ (NothingMissed <=> Settled)
  OBVIOUS
<1>1. HalfUndone = {}
  BY DEF HalfUndone
<1> QED
  BY <1>1 DEF NothingMissed, Settled, Through, Accounted

LEMMA SettledIs == Settled => NothingMissed
BY DEF NothingMissed, Settled, Through, Accounted

LEMMA SettledStays ==
    ASSUME UNCHANGED <<sched, rows, skipped, cut>>
    PROVE  /\ Settled' <=> Settled
           /\ \A s, o : Accounted(s, o)' <=> Accounted(s, o)
           /\ \A s, n : Through(s, n)' <=> Through(s, n)
<1>1. \A s, o : Accounted(s, o)' <=> Accounted(s, o)
  BY DEF Accounted, Live
<1>2. \A s, n : Through(s, n)' <=> Through(s, n)
  BY <1>1 DEF Through
<1> QED
  BY <1>1, <1>2 DEF Settled

LEMMA StoreStays ==
    ASSUME Firm, UNCHANGED <<sched, rows, undoStack, redoStack, skipped, cut>>
    PROVE  Apart' /\ AllProper' /\ AutoLow' /\ DeletedKept'
<1>1. Apart' /\ AllProper' /\ AutoLow'
  BY DEF Firm, Apart, AllProper, AutoLow, Low
<1>2. DeletedKept'
  BY SettledStays DEF Firm, DeletedKept
<1> QED
  BY <1>1, <1>2

(* Nothing is being undone, before the step or after it.                   *)
LEMMA QuietStays ==
    ASSUME Firm, UNCHANGED <<sched, rows, undoStack, redoStack, skipped, cut>>,
           ~ Undoing, ~ Undoing', BatchHolds', RunHolds'
    PROVE  Firm'
<1>1. Apart' /\ AllProper' /\ AutoLow' /\ DeletedKept'
  BY StoreStays
<1>2. Stored'
  BY DEF Firm, Stored, Intact, Spent, Live
<1>3. NothingMissed'
  <2>1. Settled'
    BY NoneHalf, SettledStays DEF Firm
  <2>2. Settled' => NothingMissed'
    BY SettledIs, PTL
  <2> QED
    BY <2>1, <2>2
<1>4. UndoHolds'
  BY DEF UndoHolds
<1> QED
  BY <1>1, <1>2, <1>3, <1>4 DEF Firm

LEMMA FirmStays ==
    ASSUME Firm, UNCHANGED <<sched, rows, undoStack, redoStack, skipped, cut, lane, batch>>
    PROVE  Firm'
<1>1. Apart' /\ AllProper' /\ AutoLow' /\ DeletedKept'
  BY StoreStays
<1>2. Undoing' <=> Undoing
  BY DEF Undoing
<1>3. Stored' /\ NothingMissed'
  BY <1>2 DEF Firm, Stored, Intact, Spent, Live, NothingMissed, HalfUndone
<1>4. BatchHolds' /\ RunHolds'
  BY DEF Firm, BatchHolds, RunHolds, Running, Low, Live
<1>5. UndoHolds'
  <2>1. Untouched' <=> Untouched
    BY SettledStays DEF Untouched, Intact, Spent, Live
  <2>2. Begun' <=> Begun
    BY DEF Begun, Live
  <2> QED
    BY <1>2, <2>1, <2>2 DEF Firm, UndoHolds, Live
<1> QED
  BY <1>1, <1>3, <1>4, <1>5 DEF Firm

(* With nothing on the stacks there is little to say.                      *)
NoCommands == undoStack = <<>> /\ redoStack = <<>>

LEMMA EmptyHolds ==
    NoCommands => Apart /\ AllProper /\ AutoLow /\ DeletedKept /\ Stored
<1> SUFFICES ASSUME NoCommands
             PROVE  Apart /\ AllProper /\ AutoLow /\ DeletedKept /\ Stored
  OBVIOUS
<1>1. DOMAIN undoStack = {} /\ DOMAIN redoStack = {}
  BY DEF NoCommands
<1> QED
  BY <1>1 DEF Apart, AllProper, AutoLow, DeletedKept, Stored

LEMMA FirmInit == Init => Firm
<1> SUFFICES ASSUME Init PROVE Firm
  OBVIOUS
<1>1. /\ sched = Template /\ batch = Due /\ lane = Idle
      /\ undoStack = <<>> /\ redoStack = <<>>
  BY DEF Init
<1>2. ~ Undoing /\ ~ Running
  BY <1>1 DEF Undoing, Running
<1>3. Settled
  <2>1. \A s \in Schedule : Template[s] # Gone => Template[s].next \in Nat
    BY PostingAssumption DEF Kept
  <2>2. \A n \in Nat : n .. n - 1 = {}
    OBVIOUS
  <2> QED
    BY <1>1, <2>1, <2>2 DEF Settled, Through
<1>4. NothingMissed
  BY <1>3, SettledIs
<1>5. BatchHolds /\ RunHolds /\ UndoHolds
  BY <1>1, <1>2 DEF BatchHolds, RunHolds, UndoHolds
<1> QED
  BY <1>1, <1>4, <1>5, EmptyHolds DEF Firm, NoCommands

LEMMA FirmRestart == ASSUME Firm, Restart PROVE Firm'
<1>1. /\ UNCHANGED <<sched, rows, skipped>> /\ batch' = Due /\ lane' = Idle
      /\ undoStack' = <<>> /\ redoStack' = <<>> /\ cut' = cut \cup HalfUndone
  BY DEF Restart
<1>2. ~ Undoing' /\ ~ Running'
  BY <1>1 DEF Undoing, Running
<1>3. Settled'
  BY <1>1 DEF Firm, NothingMissed, Settled, Through, Accounted, Live
<1>4. NothingMissed'
  <2>1. Settled' => NothingMissed'
    BY SettledIs, PTL
  <2> QED
    BY <1>3, <2>1
<1>5. BatchHolds' /\ RunHolds' /\ UndoHolds'
  BY <1>1, <1>2 DEF BatchHolds, RunHolds, UndoHolds
<1>6. NoCommands'
  BY <1>1 DEF NoCommands
<1>7. NoCommands' => Apart' /\ AllProper' /\ AutoLow' /\ DeletedKept' /\ Stored'
  BY EmptyHolds, PTL
<1> QED
  BY <1>4, <1>5, <1>6, <1>7 DEF Firm

----------------------------------------------------------------------------
(* The batch.                                                              *)

LEMMA BatchQuiet ==
    ASSUME Inv, batch # Done
    PROVE  /\ lane = Idle /\ undoStack = <<>> /\ redoStack = <<>>
           /\ ~ Undoing
BY DEF Inv, Quiet, Undoing

LEMMA FirmList == ASSUME Inv, Firm, AutoList PROVE Firm'
<1>1. /\ lane = Idle /\ ~ Undoing
      /\ UNCHANGED <<sched, rows, undoStack, redoStack, skipped, cut, lane>>
  BY BatchQuiet, AbsentAssumption DEF AutoList
<1> DEFINE S == {x \in AutoPosting : sched[x] # Gone /\ AutoPostDue(x, sched[x], today)}
           todo == {[sched |-> s, st |-> sched[s]] : s \in S}
<1>2. batch'.todo = todo /\ batch'.entries = <<>> /\ batch'.day = today
  BY DEF AutoList
<1>3. \A c \in todo : AutoPostDue(c.sched, c.st, today)
  OBVIOUS
<1> HIDE DEF S, todo
<1>4. BatchHolds'
  <2>1. Range(batch'.entries) = {} /\ DOMAIN batch'.entries = {}
    BY <1>2 DEF Range
  <2>2. \A c \in batch'.todo : AutoPostDue(c.sched, c.st, batch'.day)
    BY <1>2, <1>3
  <2> QED
    BY <2>1, <2>2 DEF BatchHolds, Proper
<1>5. RunHolds' /\ ~ Undoing'
  BY <1>1 DEF RunHolds, Undoing
<1> QED
  BY <1>1, <1>4, <1>5, QuietStays

LEMMA FirmPass ==
    ASSUME Inv, Firm, Running, NEW c \in batch.todo, AutoSkip(c) \/ AutoAbort(c),
           UNCHANGED <<lane, undoStack, redoStack, cut>>
    PROVE  Firm'
<1>1. /\ lane = Idle /\ ~ Undoing /\ UNCHANGED <<sched, rows, skipped>>
  BY BatchQuiet DEF Running, AutoSkip, AutoAbort, store
<1>2. RunHolds' /\ ~ Undoing'
  BY <1>1 DEF RunHolds, Undoing
<1>3. BatchHolds'
  <2>1. CASE AutoAbort(c)
    BY <2>1 DEF AutoAbort, BatchHolds, Running
  <2>2. CASE AutoSkip(c)
    <3>1. batch' = [batch EXCEPT !.todo = @ \ {c}] /\ batch \in Batch
      BY <2>2, RunningIs DEF AutoSkip, Inv
    <3>2. /\ batch'.todo \subseteq batch.todo /\ batch'.entries = batch.entries
          /\ batch'.day = batch.day
      BY <3>1 DEF Batch
    <3> QED
      BY <1>1, <3>2 DEF Firm, BatchHolds, Low
  <2> QED
    BY <2>1, <2>2
<1> QED
  BY <1>1, <1>2, <1>3, QuietStays

(* The rows of a catch-up were free, and there are as many as occurrences. *)
LEMMA NewRowsAre ==
    ASSUME Inv, Firm, Running, NEW c \in batch.todo, AutoPost(c), NEW new, new = NewRows(c)
    PROVE  /\ Caught(c, new) /\ new # <<>>
           /\ new \in Seq(RowId) /\ Len(new) \in Nat \ {0} /\ DOMAIN new = 1..Len(new)
           /\ \A i \in DOMAIN new :
                /\ ~ Live(new[i]) /\ new[i] \in RowId
                /\ \A e \in Range(batch.entries) : new[i] \notin Range(e.rows)
                /\ rows'[new[i]] = Posting(c.sched, c.st.next - 1 + i)
           /\ \A i, j \in DOMAIN new : new[i] = new[j] => i = j
           /\ skipped' = skipped \
                {Posting(c.sched, o) : o \in c.st.next .. c.st.next + Len(new) - 1}
<1>1. Types /\ Caught(c, new)
  BY CaughtIs DEF Inv
<1> DEFINE n == Overdue(c.sched, c.st, batch.day)
<1>2. /\ c.sched \in Schedule /\ c.st \in Kept /\ batch.day \in 0..MaxDay
      /\ AutoPostDue(c.sched, c.st, batch.day)
  BY <1>1, RunningIs DEF Firm, BatchHolds
<1>3. n \in Nat /\ n # 0
  BY <1>2, OverdueIs
<1>4. n <= Cardinality(Fresh) /\ CatchUp(c, n)
  BY DEF AutoPost
<1>5. new = [i \in 1..n |-> FreshRow(i)]
  BY DEF NewRows
<1> HIDE DEF n
<1>6. DOMAIN new = 1..n /\ Len(new) = n /\ new \in Seq(RowId)
  BY <1>1, <1>3, <1>5 DEF Caught
<1>7. skipped' = skipped \ {Posting(c.sched, o) : o \in c.st.next .. c.st.next + Len(new) - 1}
  BY <1>4, <1>6 DEF CatchUp
<1>8. Cardinality(Fresh) \in Nat
  BY PostingAssumption, FS_Subset, FS_CardinalityType DEF Fresh
<1>9. \A i \in 1..n : i \in 1..Cardinality(Fresh)
  BY <1>3, <1>4, <1>8
<1>10. ASSUME NEW i \in DOMAIN new
       PROVE  new[i] \in Fresh /\ Cardinality({x \in Fresh : x <= new[i]}) = i
  <2>1. new[i] = FreshRow(i) /\ i \in 1..Cardinality(Fresh)
    BY <1>5, <1>6, <1>9
  <2>2. FreshRow(i) \in Fresh /\ Cardinality({x \in Fresh : x <= FreshRow(i)}) = i
    BY <2>1, FreshIs
  <2> QED
    BY <2>1, <2>2
<1>11. \A i, j \in DOMAIN new : new[i] = new[j] => i = j
  <2> SUFFICES ASSUME NEW i \in DOMAIN new, NEW j \in DOMAIN new, new[i] = new[j]
               PROVE  i = j
    OBVIOUS
  <2>1. Cardinality({x \in Fresh : x <= new[i]}) = i
    BY <1>10
  <2>2. Cardinality({x \in Fresh : x <= new[j]}) = j
    BY <1>10
  <2> QED
    BY <2>1, <2>2
<1>12. batch # Due /\ batch # Done
  BY DEF Running
<1>13. ASSUME NEW i \in DOMAIN new
       PROVE  /\ ~ Live(new[i]) /\ new[i] \in RowId
              /\ \A e \in Range(batch.entries) : new[i] \notin Range(e.rows)
              /\ rows'[new[i]] = Posting(c.sched, c.st.next - 1 + i)
  <2>1. new[i] \in Fresh
    BY <1>10
  <2>2. ~ Live(new[i]) /\ new[i] \in RowId /\ new[i] \notin Referenced
    BY <2>1 DEF Fresh
  <2>3. \A e \in Range(batch.entries) : new[i] \notin Range(e.rows)
    <3> DEFINE theirs == UNION {Range(e.rows) : e \in Range(batch.entries)}
               others == UNION {RowsOf(x) : x \in Range(undoStack) \cup Range(redoStack)}
               running == IF lane = Idle THEN {} ELSE RowsOf(lane.cmd)
               posting == IF batch \in {Due, Done} THEN {} ELSE theirs
    <3>1. theirs \subseteq Referenced
      <4>1. Referenced = others \cup running \cup posting
        BY DEF Referenced
      <4>2. posting = theirs
        <5> HIDE DEF theirs
        <5> QED
          BY <1>12
      <4> HIDE DEF theirs, others, running, posting
      <4> QED
        BY <4>1, <4>2
    <3>2. new[i] \notin theirs
      <4> HIDE DEF theirs
      <4> QED
        BY <2>2, <3>1
    <3> QED
      BY <3>2
  <2>4. new[i] \in Range(new)
    BY DEF Range
  <2>5. PICK j \in DOMAIN new : /\ new[j] = new[i]
                                /\ rows'[new[i]] = Posting(c.sched, c.st.next - 1 + j)
    BY <1>1, <2>2, <2>4 DEF Caught
  <2>6. i = j
    BY <1>11, <2>5
  <2> QED
    BY <2>2, <2>3, <2>5, <2>6
<1>14. Len(new) \in Nat \ {0} /\ DOMAIN new = 1..Len(new) /\ new # <<>>
  BY <1>3, <1>6
<1> QED
  BY <1>1, <1>6, <1>7, <1>11, <1>13, <1>14

LEMMA FirmPost ==
    ASSUME Inv, Firm, Running, NEW c \in batch.todo, AutoPost(c),
           UNCHANGED <<lane, undoStack, redoStack, cut>>
    PROVE  Firm'
<1>1. lane = Idle /\ undoStack = <<>> /\ redoStack = <<>> /\ ~ Undoing
  BY BatchQuiet DEF Running
<1>2. PICK new : new = NewRows(c)
  OBVIOUS
<1>3. PICK a, st, n, e : /\ a = c.sched /\ st = c.st /\ n = Len(new)
                         /\ e = [sched |-> c.sched, rows |-> new, before |-> c.st]
  OBVIOUS
<1>4. /\ Caught(c, new) /\ new # <<>> /\ new \in Seq(RowId) /\ n \in Nat \ {0}
      /\ DOMAIN new = 1..n
      /\ \A i \in DOMAIN new :
           /\ ~ Live(new[i]) /\ new[i] \in RowId
           /\ \A f \in Range(batch.entries) : new[i] \notin Range(f.rows)
           /\ rows'[new[i]] = Posting(a, st.next - 1 + i)
      /\ \A i, j \in DOMAIN new : new[i] = new[j] => i = j
      /\ skipped' = skipped \ {Posting(a, o) : o \in st.next .. st.next + n - 1}
  BY <1>2, <1>3, NewRowsAre
<1>5. /\ sched' = [sched EXCEPT ![a] = Advanced(st, n)]
      /\ Advanced(st, n) \in Kept /\ Advanced(st, n).next = st.next + n
      /\ e \in Entry /\ batch'.entries = Append(batch.entries, e)
      /\ batch'.todo = batch.todo \ {c} /\ batch' \in Batch
      /\ \A r \in RowId : r \notin Range(new) => rows'[r] = rows[r]
  BY <1>3, <1>4 DEF Caught
<1>6. /\ a \in Schedule /\ st \in Kept /\ st.next \in Nat /\ sched[a] = st /\ sched[a] # Gone
      /\ batch.entries \in Seq(Entry) /\ batch \in Batch
  BY <1>3, RunningIs DEF Inv, BatchFits, AutoPost, Kept
<1>7. e.sched = a /\ e.rows = new /\ e.before = st
  BY <1>3
<1>8. /\ sched'[a] = Advanced(st, n) /\ sched'[a] # Gone /\ sched'[a].next = st.next + n
      /\ \A s \in Schedule : s # a => sched'[s] = sched[s]
  BY <1>5, <1>6, AbsentAssumption DEF Inv, Types
<1>9. \A r \in RowId : Live(r) => rows'[r] = rows[r]
  <2>1. \A r \in Range(new) : ~ Live(r)
    BY <1>4 DEF Range
  <2> QED
    BY <1>5, <2>1
<1>10. \A o \in st.next .. st.next + n - 1 : Accounted(a, o)'
  <2> SUFFICES ASSUME NEW o \in st.next .. st.next + n - 1
               PROVE  Accounted(a, o)'
    OBVIOUS
  <2> DEFINE i == o - st.next + 1
  <2>1. i \in 1..n /\ st.next - 1 + i = o /\ o \in Nat
    BY <1>4, <1>6
  <2>2. rows'[new[i]] = Posting(a, o) /\ new[i] \in RowId
    BY <1>4, <2>1
  <2>3. Posting(a, o) # NoRow
    BY <1>6, <2>1, PostingIs
  <2> QED
    BY <2>2, <2>3 DEF Accounted, Live
<1>11. ASSUME NEW s \in Schedule, NEW o \in Nat, Accounted(s, o)
       PROVE  Accounted(s, o)'
  <2>1. CASE \E r \in RowId : Live(r) /\ rows[r] = Posting(s, o)
    <3>1. PICK r \in RowId : Live(r) /\ rows[r] = Posting(s, o)
      BY <2>1
    <3>2. rows'[r] = Posting(s, o) /\ Live(r)'
      BY <1>9, <3>1 DEF Live
    <3> QED
      BY <3>2 DEF Accounted
  <2>2. CASE Posting(s, o) \in skipped \cup cut
    <3>1. CASE Posting(s, o) \in {Posting(a, x) : x \in st.next .. st.next + n - 1}
      <4>1. PICK x \in st.next .. st.next + n - 1 : Posting(s, o) = Posting(a, x)
        BY <3>1
      <4>2. s = a /\ o = x
        BY <4>1, PostingIs
      <4> QED
        BY <1>10, <4>2
    <3>2. CASE Posting(s, o) \notin {Posting(a, x) : x \in st.next .. st.next + n - 1}
      BY <1>4, <2>2, <3>2 DEF Accounted
    <3> QED
      BY <3>1, <3>2
  <2> QED
    BY <1>11, <2>1, <2>2 DEF Accounted
<1>12. Settled
  BY <1>1, NoneHalf DEF Firm
<1>13. Settled'
  <2> SUFFICES ASSUME NEW s \in Schedule, sched'[s] # Gone,
                      NEW o \in Template[s].next .. sched'[s].next - 1
               PROVE  Accounted(s, o)'
    BY DEF Settled, Through
  <2>0. Template[s].next \in Nat
    BY PostingAssumption DEF Kept
  <2>1. CASE s # a
    <3>1. sched'[s] = sched[s] /\ sched[s].next \in Nat
      BY <1>8, <2>1 DEF Inv, Types, Kept
    <3>2. o \in Nat /\ Accounted(s, o)
      BY <1>12, <2>0, <3>1 DEF Settled, Through
    <3> QED
      BY <1>11, <3>2
  <2>2. CASE s = a
    <3>1. o \in Nat /\ o < st.next + n
      BY <1>4, <1>6, <1>8, <2>0, <2>2
    <3>2. CASE o < st.next
      <4>1. o \in Template[s].next .. st.next - 1
        BY <1>6, <2>0, <3>1, <3>2
      <4>2. Accounted(s, o)
        BY <1>6, <1>12, <2>2, <4>1 DEF Settled, Through
      <4> QED
        BY <1>11, <3>1, <4>2
    <3>3. CASE ~(o < st.next)
      <4>1. o \in st.next .. st.next + n - 1
        BY <1>4, <1>6, <3>1, <3>3
      <4> QED
        BY <1>10, <2>2, <4>1
    <3> QED
      BY <3>2, <3>3
  <2> QED
    BY <2>1, <2>2
<1>14. NothingMissed'
  <2>1. Settled' => NothingMissed'
    BY SettledIs, PTL
  <2> QED
    BY <1>13, <2>1
<1>15. NoCommands' /\ ~ Undoing'
  BY <1>1 DEF NoCommands, Undoing
<1>16. NoCommands' => Apart' /\ AllProper' /\ AutoLow' /\ DeletedKept' /\ Stored'
  BY EmptyHolds, PTL
<1>17. RunHolds' /\ UndoHolds'
  BY <1>1, <1>15 DEF RunHolds, UndoHolds
<1>18. PICK es \in Seq(Entry) : es = batch.entries
  BY <1>6
<1>19. /\ Append(es, e) \in Seq(Entry) /\ DOMAIN Append(es, e) = DOMAIN es \cup {Len(es) + 1}
       /\ \A i \in DOMAIN es : Append(es, e)[i] = es[i] /\ i # Len(es) + 1
       /\ Append(es, e)[Len(es) + 1] = e
  <2>1. /\ Append(es, e) \in Seq(Entry) /\ DOMAIN Append(es, e) = DOMAIN es \cup {Len(es) + 1}
        /\ \A i \in DOMAIN es : Append(es, e)[i] = es[i] /\ i < Len(es) + 1
        /\ Append(es, e)[Len(es) + 1] = e /\ DOMAIN es \subseteq Nat /\ Len(es) \in Nat
    BY <1>5, Pushed
  <2> QED
    BY <2>1
<1>20. \A i \in DOMAIN es : es[i] \in Range(es) /\ es[i] \in Entry
  BY <1>18 DEF Range
<1>21. ASSUME NEW f \in Range(es)
       PROVE  /\ f \in Entry /\ f.sched # a /\ f.sched \in Schedule
              /\ \A k \in DOMAIN f.rows : f.rows[k] \notin Range(new)
              /\ \A p \in Made(f) : p[1] \notin Range(new) /\ p[1] \in RowId
  <2>1. f \in Entry /\ f.sched \in Schedule
    <3>1. f \in Entry
      BY <1>21 DEF Range
    <3> QED
      BY <3>1 DEF Entry
  <2>2. f.sched # a
    BY <1>3, <1>18 DEF Inv, BatchFits
  <2>3. \A r \in Range(f.rows) : r \notin Range(new)
    BY <1>4, <1>18 DEF Range
  <2>4. \A k \in DOMAIN f.rows : f.rows[k] \in Range(f.rows)
    BY DEF Range
  <2>5. \A p \in Made(f) : p[1] \in Range(f.rows) /\ p[1] \in RowId
    BY <2>1, MadeIs
  <2> QED
    BY <2>1, <2>2, <2>3, <2>4, <2>5
<1>22. \A k \in DOMAIN new : new[k] \in Range(new)
  BY DEF Range
<1>23. Proper(es)
  BY <1>18 DEF Firm, BatchHolds
<1>24. Proper(Append(es, e))
  <2> DEFINE q == Append(es, e)
             m == Len(es) + 1
  <2>1. DOMAIN q = DOMAIN es \cup {m} /\ q[m] = e /\ \A i \in DOMAIN es : q[i] = es[i] /\ i # m
    BY <1>19
  <2> HIDE DEF q, m
  <2>2. \A i \in DOMAIN q : q[i].rows # <<>>
    BY <1>4, <1>7, <1>23, <2>1 DEF Proper
  <2>3. ASSUME NEW i \in DOMAIN q, NEW j \in DOMAIN q, q[i].sched = q[j].sched
        PROVE  i = j
    <3>1. CASE i \in DOMAIN es /\ j \in DOMAIN es
      BY <1>23, <2>1, <2>3, <3>1 DEF Proper
    <3>2. CASE i = m /\ j = m
      BY <3>2
    <3>3. CASE i = m /\ j \in DOMAIN es
      BY <1>7, <1>20, <1>21, <2>1, <2>3, <3>3
    <3>4. CASE i \in DOMAIN es /\ j = m
      BY <1>7, <1>20, <1>21, <2>1, <2>3, <3>4
    <3> QED
      BY <2>1, <3>1, <3>2, <3>3, <3>4
  <2>4. ASSUME NEW i \in DOMAIN q, NEW j \in DOMAIN q,
               NEW k \in DOMAIN q[i].rows, NEW l \in DOMAIN q[j].rows,
               q[i].rows[k] = q[j].rows[l]
        PROVE  i = j /\ k = l
    <3>1. CASE i \in DOMAIN es /\ j \in DOMAIN es
      BY <1>23, <2>1, <2>4, <3>1 DEF Proper
    <3>2. CASE i = m /\ j = m
      BY <1>4, <1>7, <2>1, <2>4, <3>2
    <3>3. CASE i = m /\ j \in DOMAIN es
      <4>1. q[i].rows = new /\ q[j] = es[j] /\ es[j] \in Range(es)
        BY <1>7, <1>20, <2>1, <3>3
      <4> QED
        BY <1>21, <1>22, <2>4, <4>1
    <3>4. CASE i \in DOMAIN es /\ j = m
      <4>1. q[j].rows = new /\ q[i] = es[i] /\ es[i] \in Range(es)
        BY <1>7, <1>20, <2>1, <3>4
      <4> QED
        BY <1>21, <1>22, <2>4, <4>1
    <3> QED
      BY <2>1, <3>1, <3>2, <3>3, <3>4
  <2>5. Proper(q)
    BY <2>2, <2>3, <2>4 DEF Proper
  <2> QED
    BY <2>5 DEF q
<1>25. Range(Append(es, e)) = Range(es) \cup {e}
  BY <1>19 DEF Range
<1>26. ASSUME NEW f \in Range(es)
       PROVE  Low(f)' /\ \A p \in Made(f) : rows'[p[1]] = p[2]
  <2>1. Low(f) /\ \A p \in Made(f) : rows[p[1]] = p[2]
    BY <1>18 DEF Firm, BatchHolds
  <2>2. sched'[f.sched] = sched[f.sched]
    BY <1>8, <1>21
  <2>3. \A p \in Made(f) : rows'[p[1]] = rows[p[1]]
    BY <1>5, <1>21
  <2> QED
    BY <2>1, <2>2, <2>3 DEF Low
<1>27. Low(e)' /\ \A p \in Made(e) : rows'[p[1]] = p[2]
  <2>1. Low(e)'
    BY <1>4, <1>6, <1>7, <1>8 DEF Low
  <2>2. ASSUME NEW p \in Made(e)
        PROVE  rows'[p[1]] = p[2]
    <3>1. PICK i \in DOMAIN e.rows : p = <<e.rows[i], Posting(e.sched, e.before.next - 1 + i)>>
      BY DEF Made
    <3>2. p[1] = new[i] /\ p[2] = Posting(a, st.next - 1 + i) /\ i \in DOMAIN new
      BY <1>7, <3>1
    <3> QED
      BY <1>4, <3>2
  <2> QED
    BY <2>1, <2>2
<1>28. BatchHolds'
  <2>1. batch'.entries = Append(es, e)
    BY <1>5, <1>18
  <2>2. batch'.day = batch.day
    <3>1. \E x, y : batch' = [batch EXCEPT !.todo = x, !.entries = y]
      BY DEF AutoPost, CatchUp
    <3> QED
      BY <1>6, <3>1 DEF Batch
  <2>3. \A d \in batch'.todo : AutoPostDue(d.sched, d.st, batch'.day)
    BY <1>5, <2>2 DEF Firm, BatchHolds
  <2>4. \A f \in Range(batch'.entries) : Low(f)' /\ \A p \in Made(f) : rows'[p[1]] = p[2]
    BY <1>25, <1>26, <1>27, <2>1
  <2>5. Proper(batch'.entries)
    BY <1>24, <2>1
  <2> QED
    BY <2>3, <2>4, <2>5 DEF BatchHolds, Low
<1> QED
  BY <1>14, <1>15, <1>16, <1>17, <1>28 DEF Firm

LEMMA FirmCandidate == ASSUME Inv, Firm, AutoCandidate PROVE Firm'
<1>1. PICK c \in Candidates : AutoSkip(c) \/ AutoAbort(c) \/ AutoPost(c)
  BY DEF AutoCandidate
<1>2. c \in batch.todo /\ Running /\ UNCHANGED <<lane, undoStack, redoStack, cut>>
  BY <1>1 DEF Candidates, AutoCandidate
<1> QED
  BY <1>1, <1>2, FirmPass, FirmPost

(* A stack that holds the batch alone.                                     *)
AutoAlone(c) ==
    /\ c \in Cmd /\ c.op = "auto" /\ undoStack = <<c>> /\ redoStack = <<>>
    /\ Proper(c.entries) /\ (Intact(c) \/ Spent(c))
    /\ \A e \in Range(c.entries) : Low(e)

Alone == \E c \in Cmd : AutoAlone(c)

LEMMA AloneHolds ==
    Alone => Apart /\ AllProper /\ AutoLow /\ DeletedKept /\ Stored
<1> SUFFICES ASSUME NEW c, AutoAlone(c)
             PROVE  Apart /\ AllProper /\ AutoLow /\ DeletedKept /\ Stored
  BY DEF Alone
<1>1. /\ DOMAIN undoStack = {1} /\ undoStack[1] = c /\ DOMAIN redoStack = {}
      /\ c.op = "auto" /\ ~ Single(c) /\ Proper(c.entries) /\ (Intact(c) \/ Spent(c))
      /\ \A e \in Range(c.entries) : Low(e)
  BY DEF AutoAlone, Single
<1> QED
  BY <1>1 DEF Apart, AllProper, AutoLow, DeletedKept, Stored

LEMMA FirmFinish == ASSUME Inv, Firm, AutoFinish PROVE Firm'
<1>1. /\ Running /\ batch' = Done /\ lane' = Idle /\ lane = Idle
      /\ undoStack = <<>> /\ redoStack = <<>>
      /\ ~ Undoing /\ ~ Undoing' /\ ~ Running'
      /\ UNCHANGED <<sched, rows, skipped, cut>>
  BY BatchQuiet DEF AutoFinish, Running, Undoing
<1>2. BatchHolds' /\ RunHolds' /\ UndoHolds'
  BY <1>1 DEF BatchHolds, RunHolds, UndoHolds
<1>3. CASE batch.entries = <<>>
  <2>1. UNCHANGED <<undoStack, redoStack>>
    BY <1>3 DEF AutoFinish
  <2> QED
    BY <1>1, <1>2, <2>1, QuietStays
<1>4. CASE batch.entries # <<>>
  <2>1. PICK c : c = [op |-> "auto", entries |-> batch.entries]
    OBVIOUS
  <2>2. batch.entries \in Seq(Entry)
    BY <1>1, RunningIs DEF Inv
  <2>3. c \in Cmd /\ c.op = "auto" /\ c.entries = batch.entries /\ ~ Single(c)
    BY <1>4, <2>1, <2>2 DEF Cmd, Single
  <2>4. undoStack' = <<c>> /\ redoStack' = <<>>
    BY <1>1, <1>4, <2>1 DEF AutoFinish
  <2>5. /\ Proper(c.entries)
        /\ \A e \in Range(c.entries) : Low(e) /\ \A p \in Made(e) : rows[p[1]] = p[2]
    BY <1>1, <2>3 DEF Firm, BatchHolds
  <2>6. Intact(c)'
    <3>1. Makes(c) = UNION {Made(e) : e \in Range(c.entries)}
      BY <2>3 DEF Makes
    <3>2. \A p \in Makes(c) : rows[p[1]] = p[2]
      BY <2>5, <3>1
    <3> QED
      BY <1>1, <3>2 DEF Intact
  <2>7. \A e \in Range(c.entries) : Low(e)'
    BY <1>1, <2>5 DEF Low
  <2>8. AutoAlone(c)'
    BY <2>3, <2>4, <2>5, <2>6, <2>7 DEF AutoAlone
  <2>9. Alone' => Apart' /\ AllProper' /\ AutoLow' /\ DeletedKept' /\ Stored'
    BY AloneHolds, PTL
  <2>10. Settled' => NothingMissed'
    BY SettledIs, PTL
  <2>11. Settled'
    BY <1>1, NoneHalf, SettledStays DEF Firm
  <2> QED
    BY <1>2, <2>3, <2>8, <2>9, <2>10, <2>11 DEF Firm, Alone
<1> QED
  BY <1>3, <1>4

----------------------------------------------------------------------------
(* The lane.                                                               *)

LEMMA FirmRedoAuto == ASSUME Inv, Firm, Patient, RedoAuto PROVE Firm'
<1>1. PICK c : c = Last(redoStack)
  OBVIOUS
<1>2. /\ Len(redoStack) = 1 /\ redoStack # <<>> /\ c.op = "auto"
      /\ undoStack' = Append(undoStack, c) /\ redoStack' = Front(redoStack)
      /\ UNCHANGED <<sched, rows, batch, lane, skipped, cut>>
  BY <1>1 DEF RedoAuto, Patient
<1>3. lane = Idle /\ batch = Done /\ ~ Undoing
  BY ActsLate DEF RedoAuto, Undoing
<1>4. c \in Cmd /\ c = redoStack[1] /\ 1 \in DOMAIN redoStack /\ redoStack' = <<>>
  <2>1. /\ c \in Cmd /\ c = redoStack[Len(redoStack)] /\ Len(redoStack) \in DOMAIN redoStack
        /\ Front(redoStack) \in Seq(Cmd) /\ Len(Front(redoStack)) = Len(redoStack) - 1
    BY <1>1, <1>2, Popped DEF Inv, Types
  <2> QED
    BY <1>2, <2>1
<1>5. ~ Single(c) /\ undoStack = <<>> /\ undoStack' = <<c>>
  <2>1. ~ Single(c)
    BY <1>2 DEF Single
  <2>2. undoStack = <<>>
    BY <1>4, <2>1 DEF Inv, Core, AutoFirst
  <2> QED
    BY <1>2, <2>1, <2>2
<1>6. /\ Proper(c.entries) /\ Spent(c) /\ \A e \in Range(c.entries) : Low(e)
  BY <1>4, <1>5 DEF Firm, AllProper, Stored, AutoLow
<1>7. Spent(c)' /\ \A e \in Range(c.entries) : Low(e)'
  BY <1>2, <1>6 DEF Spent, Live, Low
<1>8. AutoAlone(c)'
  BY <1>2, <1>4, <1>5, <1>6, <1>7 DEF AutoAlone
<1>9. Alone' => Apart' /\ AllProper' /\ AutoLow' /\ DeletedKept' /\ Stored'
  BY AloneHolds, PTL
<1>10. Settled' => NothingMissed'
  BY SettledIs, PTL
<1>11. Settled'
  BY <1>2, <1>3, NoneHalf, SettledStays DEF Firm
<1>12. BatchHolds' /\ RunHolds' /\ UndoHolds'
  BY <1>2, <1>3 DEF BatchHolds, Running, RunHolds, UndoHolds, Undoing
<1> QED
  BY <1>4, <1>8, <1>9, <1>10, <1>11, <1>12 DEF Firm, Alone

(* A command that comes to the lane, or a step of it that writes nothing.  *)
LEMMA LaneStays ==
    ASSUME Inv, Firm, ~ Undoing, ~ Undoing', batch = Done, RunHolds',
           UNCHANGED <<sched, rows, undoStack, redoStack, skipped, cut, batch>>
    PROVE  Firm'
<1>1. BatchHolds'
  BY DEF BatchHolds, Running
<1> QED
  BY <1>1, QuietStays

(* The row a post is offered with is free.                                 *)
LEMMA OfferedRow ==
    ASSUME Inv, lane = Idle, batch = Done, NEW c \in Offered, c.op = "post", NEW b
    PROVE  /\ ~ Live(c.row) /\ [c EXCEPT !.before = b].row = c.row
           /\ \A i \in DOMAIN undoStack : c.row \notin RowsOf(undoStack[i])
<1>1. PICK s \in Shown, r \in IF Fresh = {} THEN {} ELSE {FreshRow(1)} :
        c = [op |-> "post", sched |-> s, occ |-> view[s].next, row |-> r, before |-> NotRead]
  <2>1. ~(c \in [op : {"skip", "delete"}, sched : Shown, before : {NotRead}])
    OBVIOUS
  <2>2. ~(\E s \in Shown, n \in Rearm :
            c = [op |-> "edit", sched |-> s, before |-> NotRead, after |-> Edited(view[s], n)])
    OBVIOUS
  <2> QED
    BY <2>1, <2>2 DEF Offered
<1>2. Fresh # {} /\ c.row = FreshRow(1)
  BY <1>1
<1>3. c.row \in Fresh
  <2>1. 1 \in 1..Cardinality(Fresh)
    BY <1>2, FirstFresh
  <2> QED
    BY <1>2, <2>1, FreshIs
<1>4. ~ Live(c.row) /\ c.row \notin Referenced
  BY <1>3 DEF Fresh
<1>5. \A i \in DOMAIN undoStack : c.row \notin RowsOf(undoStack[i])
  <2> DEFINE others == UNION {RowsOf(x) : x \in Range(undoStack) \cup Range(redoStack)}
             running == IF lane = Idle THEN {} ELSE RowsOf(lane.cmd)
             posting == IF batch \in {Due, Done} THEN {}
                        ELSE UNION {Range(e.rows) : e \in Range(batch.entries)}
  <2>1. Referenced = others \cup running \cup posting
    BY DEF Referenced
  <2>2. c.row \notin others
    <3> HIDE DEF others, running, posting
    <3> QED
      BY <1>4, <2>1
  <2>3. \A i \in DOMAIN undoStack : undoStack[i] \in Range(undoStack)
    BY DEF Range
  <2> QED
    BY <2>2, <2>3
<1>6. [c EXCEPT !.before = b].row = c.row
  BY <1>1
<1> QED
  BY <1>4, <1>5, <1>6

LEMMA FirmExecute == ASSUME Inv, Firm, Patient, Execute PROVE Firm'
<1>1. PICK c \in Offered : Start("do", c)
  BY DEF Execute
<1>2. lane = Idle /\ batch = Done
  BY ActsLate DEF Execute
<1>3. /\ lane'.how = "do" /\ lane'.cmd = [c EXCEPT !.before = sched[c.sched]] /\ lane'.cmd.op = c.op
  BY <1>1, StartIs DEF Inv
<1>4. UNCHANGED <<sched, rows, batch, undoStack, redoStack, skipped, cut>>
  BY <1>1 DEF Start
<1>5. RunHolds'
  <2> SUFFICES ASSUME c.op = "post"
               PROVE  /\ rows[lane'.cmd.row] = NoRow
                      /\ \A i \in DOMAIN undoStack : lane'.cmd.row \notin RowsOf(undoStack[i])
    BY <1>3, <1>4 DEF RunHolds, Live
  <2>1. PICK b : b = sched[c.sched]
    OBVIOUS
  <2>2. /\ ~ Live(c.row) /\ [c EXCEPT !.before = b].row = c.row
        /\ \A i \in DOMAIN undoStack : c.row \notin RowsOf(undoStack[i])
    BY <1>2, OfferedRow
  <2> QED
    BY <1>3, <1>4, <2>1, <2>2 DEF Live
<1>6. ~ Undoing /\ ~ Undoing'
  BY <1>2, <1>3 DEF Undoing
<1> QED
  BY <1>2, <1>4, <1>5, <1>6, LaneStays

LEMMA FirmRedo == ASSUME Inv, Firm, Patient, Redo PROVE Firm'
<1>1. PICK c : c = Last(redoStack)
  OBVIOUS
<1>2. lane = Idle /\ batch = Done
  BY ActsLate DEF Redo
<1>3. /\ redoStack # <<>> /\ redoStack \in Seq(Cmd) /\ c \in Cmd /\ c.op # "auto"
      /\ c = redoStack[Len(redoStack)] /\ Len(redoStack) \in DOMAIN redoStack
      /\ Start("redo", c)
  BY <1>1, Popped DEF Redo, Inv, Types
<1>4. /\ lane'.how = "redo" /\ lane'.cmd = [c EXCEPT !.before = sched[c.sched]]
      /\ lane'.cmd.op = c.op
  BY <1>3, StartIs DEF Inv
<1>5. UNCHANGED <<sched, rows, batch, undoStack, redoStack, skipped, cut>>
  BY <1>3 DEF Start
<1>6. RunHolds'
  <2> SUFFICES ASSUME c.op = "post"
               PROVE  /\ rows[lane'.cmd.row] = NoRow
                      /\ \A i \in DOMAIN undoStack : lane'.cmd.row \notin RowsOf(undoStack[i])
                      /\ lane'.cmd.row = c.row
    BY <1>1, <1>4, <1>5 DEF RunHolds, Live
  <2>1. c \in [op : {"post"}, sched : Schedule, occ : Nat, row : RowId, before : Kept]
    BY <1>3, CmdKinds
  <2>2. lane'.cmd.row = c.row
    BY <1>4, <2>1
  <2>3. RowsOf(c) = {c.row}
    BY DEF RowsOf
  <2>4. ~ Live(c.row)
    BY <1>3, <2>3, SpentIs DEF Firm, Stored
  <2>5. \A i \in DOMAIN undoStack : c.row \notin RowsOf(undoStack[i])
    BY <1>3, <2>3 DEF Firm, Apart
  <2> QED
    BY <1>5, <2>2, <2>4, <2>5 DEF Live
<1>7. ~ Undoing /\ ~ Undoing'
  BY <1>2, <1>4 DEF Undoing
<1> QED
  BY <1>2, <1>5, <1>6, <1>7, LaneStays

LEMMA FirmCheck == ASSUME Inv, Firm, Check PROVE Firm'
<1>1. /\ lane # Idle /\ lane.how # "undo" /\ lane \in LaneRecord
      /\ UNCHANGED <<sched, rows, batch, undoStack, redoStack, skipped, cut>>
      /\ lane' = Idle \/ lane' = [lane EXCEPT !.st = sched[lane.cmd.sched]]
  BY LaneIs DEF Check, Inv
<1>2. batch = Done
  BY <1>1 DEF Inv, LaneFits
<1>3. CASE lane' = Idle
  BY <1>1, <1>2, <1>3, LaneStays DEF RunHolds, Undoing
<1>4. CASE lane' = [lane EXCEPT !.st = sched[lane.cmd.sched]]
  <2>1. lane'.how = lane.how /\ lane'.cmd = lane.cmd
    BY <1>1, <1>4 DEF LaneRecord
  <2>2. RunHolds'
    BY <1>1, <2>1 DEF Firm, RunHolds, Live
  <2> QED
    BY <1>1, <1>2, <2>1, <2>2, LaneStays DEF Undoing
<1> QED
  BY <1>1, <1>3, <1>4

LEMMA FirmRefuse == ASSUME Inv, Firm, Refuse PROVE Firm'
<1>1. /\ lane # Idle /\ lane.how # "undo" /\ lane' = Idle
      /\ UNCHANGED <<sched, rows, batch, undoStack, redoStack, skipped, cut>>
  BY DEF Refuse, Ready
<1>2. batch = Done
  BY <1>1 DEF Inv, LaneFits
<1> QED
  BY <1>1, <1>2, LaneStays DEF RunHolds, Undoing

LEMMA FirmOther == ASSUME Firm, LoadView \/ Tick \/ UNCHANGED vars PROVE Firm'
<1>1. UNCHANGED <<sched, rows, undoStack, redoStack, skipped, cut, lane, batch>>
  BY DEF LoadView, Tick, vars
<1> QED
  BY <1>1, FirmStays

----------------------------------------------------------------------------
(* A command that is written.                                              *)

Written(c, s) ==
    /\ c \in Cmd /\ Single(c) /\ c.op \in {"post", "skip", "delete", "edit"}
    /\ s = c.sched /\ s \in Schedule
    /\ c.before \in Kept /\ c.before.next \in Nat /\ sched[s] = c.before /\ sched[s] # Gone
    /\ \A x \in Schedule : x # s => sched'[x] = sched[x]
    /\ c.op = "delete" => sched'[s] = Gone
    /\ c.op # "delete" =>
         /\ sched'[s] # Gone
         /\ sched'[s].next = c.before.next + (IF c.op \in {"post", "skip"} THEN 1 ELSE 0)
    /\ c.op = "post" => /\ c.row \in RowId /\ ~ Live(c.row) /\ c.occ = c.before.next
                        /\ rows'[c.row] = Posting(s, c.before.next)
                        /\ \A i \in DOMAIN undoStack : c.row \notin RowsOf(undoStack[i])
    /\ \A r \in RowId : (c.op = "post" /\ r = c.row) \/ rows'[r] = rows[r]
    /\ skipped' = IF c.op = "post" THEN skipped \ {Posting(s, c.before.next)}
                  ELSE IF c.op = "skip" THEN skipped \cup {Posting(s, c.before.next)}
                  ELSE skipped
    /\ cut' = cut /\ lane' = Idle /\ batch' = Done
    /\ undoStack' = Append(undoStack, c)
    /\ lane.how \in {"do", "redo"}
    /\ redoStack' = IF lane.how = "do" THEN <<>> ELSE Front(redoStack)
    /\ lane.how = "redo" => /\ redoStack # <<>> /\ AllSingle
                            /\ c.op = Last(redoStack).op
                            /\ c.op = "post" => c.row = Last(redoStack).row

LEMMA WrittenIs ==
    ASSUME Inv, Firm, Commit, NEW c, c = lane.cmd, NEW s, s = c.sched
    PROVE  Written(c, s)
<1>1. /\ Ready /\ Write(c, lane.st) /\ lane # Idle /\ lane.how # "undo" /\ lane' = Idle
      /\ undoStack' = Append(undoStack, c)
      /\ redoStack' = IF lane.how = "do" THEN <<>> ELSE Front(redoStack)
      /\ UNCHANGED <<batch, cut>>
  BY DEF Commit, Ready
<1>2. batch = Done /\ Exact(c) /\ RunFits /\ lane.how \in {"do", "redo"}
  BY <1>1, LaneIs DEF Inv, LaneFits
<1>3. /\ c \in Cmd /\ s \in Schedule /\ c.op # "auto" /\ sched[s] # Gone
      /\ \A x \in Schedule : x # s => sched'[x] = sched[x]
      /\ c.op \in {"post", "skip"} =>
           /\ lane.st \in Kept /\ sched'[s] \in Kept /\ sched'[s].next = lane.st.next + 1
      /\ c.op = "edit" => sched'[s] = c.after /\ c.after \in Kept
      /\ c.op = "delete" => sched'[s] = Gone
      /\ \A r \in RowId : IF c.op = "post" /\ r = c.row
           THEN rows'[r] = Posting(s, c.occ) ELSE rows'[r] = rows[r]
  BY <1>1, WriteIs DEF Inv
<1>4. /\ c.op \in {"post", "skip", "delete", "edit"} /\ c.before \in Kept
      /\ c.op = "post" => c.row \in RowId
  BY <1>3, CmdKinds
<1>5. sched[s] = c.before /\ c.before.next \in Nat
      /\ (c.op \in {"post", "skip"} => lane.st = c.before)
  BY <1>1, <1>2, <1>4 DEF RunFits, Ready, Kept
<1>6. /\ c.op = "post" => c.occ = c.before.next
      /\ c.op = "edit" => c.after.next = c.before.next
  BY <1>2 DEF Exact
<1>7. c.op # "delete" =>
         /\ sched'[s] # Gone
         /\ sched'[s].next = c.before.next + (IF c.op \in {"post", "skip"} THEN 1 ELSE 0)
  BY <1>3, <1>4, <1>5, <1>6, AbsentAssumption
<1>8. c.op = "post" =>
         /\ ~ Live(c.row) /\ \A i \in DOMAIN undoStack : c.row \notin RowsOf(undoStack[i])
         /\ lane.how = "redo" => c.row = Last(redoStack).row
  BY <1>1 DEF Firm, RunHolds
<1>9. skipped' = IF c.op = "post" THEN skipped \ {Posting(s, c.before.next)}
                 ELSE IF c.op = "skip" THEN skipped \cup {Posting(s, c.before.next)}
                 ELSE skipped
  <2>1. WritePost(c, lane.st) \/ WriteSkip(c, lane.st) \/ WriteEdit(c) \/ WriteDelete(c)
    BY <1>1 DEF Write
  <2>2. CASE WritePost(c, lane.st)
    BY <1>6, <2>2 DEF WritePost
  <2>3. CASE WriteSkip(c, lane.st)
    BY <1>5, <2>3 DEF WriteSkip
  <2>4. CASE WriteEdit(c) \/ WriteDelete(c)
    BY <2>4 DEF WriteEdit, WriteDelete
  <2> QED
    BY <2>1, <2>2, <2>3, <2>4
<1>10. lane.how = "redo" => redoStack # <<>> /\ AllSingle /\ c.op = Last(redoStack).op
  BY <1>2 DEF RunFits
<1>11. c.op = "post" => rows'[c.row] = Posting(s, c.before.next)
  BY <1>3, <1>4, <1>6
<1>12. \A r \in RowId : (c.op = "post" /\ r = c.row) \/ rows'[r] = rows[r]
  BY <1>3
<1>13. Single(c)
  BY <1>3 DEF Single
<1> QED
  BY <1>1, <1>2, <1>3, <1>4, <1>5, <1>6, <1>7, <1>8, <1>9, <1>10, <1>11, <1>12, <1>13 DEF Written

(* What was accounted for still is.                                        *)
LEMMA WrittenAccounted ==
    ASSUME NEW c, NEW a, Written(c, a)
    PROVE  /\ \A s, o : Accounted(s, o) => Accounted(s, o)'
           /\ c.op \in {"post", "skip"} => Accounted(a, c.before.next)'
<1>1. c.op = "post" => Accounted(a, c.before.next)'
  <2> SUFFICES ASSUME c.op = "post" PROVE Accounted(a, c.before.next)'
    OBVIOUS
  <2>1. c.row \in RowId /\ rows'[c.row] = Posting(a, c.before.next)
    BY DEF Written
  <2>2. Posting(a, c.before.next) # NoRow
    BY PostingIs DEF Written
  <2> QED
    BY <2>1, <2>2 DEF Accounted, Live
<1>2. c.op = "skip" => Accounted(a, c.before.next)'
  BY DEF Written, Accounted
<1>3. ASSUME NEW s, NEW o, Accounted(s, o)
      PROVE  Accounted(s, o)'
  <2>1. CASE \E r \in RowId : Live(r) /\ rows[r] = Posting(s, o)
    <3>1. PICK r \in RowId : Live(r) /\ rows[r] = Posting(s, o)
      BY <2>1
    <3>2. rows'[r] = rows[r]
      BY <3>1 DEF Written
    <3> QED
      BY <3>1, <3>2 DEF Accounted, Live
  <2>2. CASE Posting(s, o) \in skipped \cup cut
    <3>1. CASE c.op = "post" /\ Posting(s, o) = Posting(a, c.before.next)
      <4>1. s = a /\ o = c.before.next
        BY <3>1, PostingIs
      <4> QED
        BY <1>1, <3>1, <4>1
    <3>2. CASE ~(c.op = "post" /\ Posting(s, o) = Posting(a, c.before.next))
      <4>1. Posting(s, o) \in skipped' \cup cut'
        BY <2>2, <3>2 DEF Written
      <4> QED
        BY <4>1 DEF Accounted
    <3> QED
      BY <3>1, <3>2
  <2> QED
    BY <1>3, <2>1, <2>2 DEF Accounted
<1> QED
  BY <1>1, <1>2, <1>3

LEMMA FirmCommit == ASSUME Inv, Firm, Commit PROVE Firm'
<1>1. PICK c, s : c = lane.cmd /\ s = c.sched
  OBVIOUS
<1>2. Written(c, s)
  BY <1>1, WrittenIs
<1>3. /\ c \in Cmd /\ Single(c) /\ c.op \in {"post", "skip", "delete", "edit"}
      /\ s = c.sched /\ s \in Schedule
      /\ c.before \in Kept /\ c.before.next \in Nat /\ sched[s] = c.before /\ sched[s] # Gone
      /\ \A x \in Schedule : x # s => sched'[x] = sched[x]
      /\ c.op = "delete" => sched'[s] = Gone
      /\ c.op # "delete" =>
           /\ sched'[s] # Gone
           /\ sched'[s].next = c.before.next + (IF c.op \in {"post", "skip"} THEN 1 ELSE 0)
      /\ lane' = Idle /\ batch' = Done
  BY <1>2 DEF Written
<1>4. ~ Undoing /\ ~ Undoing'
  BY <1>2 DEF Written, Undoing
<1>5. /\ \A x, o : Accounted(x, o) => Accounted(x, o)'
      /\ c.op \in {"post", "skip"} => Accounted(s, c.before.next)'
  BY <1>2, WrittenAccounted
<1>6. \A x, n : Through(x, n) => Through(x, n)'
  BY <1>5 DEF Through
<1>7. Settled
  BY <1>4, NoneHalf DEF Firm
<1>8. Settled'
  <2> SUFFICES ASSUME NEW x \in Schedule, sched'[x] # Gone,
                      NEW o \in Template[x].next .. sched'[x].next - 1
               PROVE  Accounted(x, o)'
    BY DEF Settled, Through
  <2>1. CASE x # s
    <3>1. sched'[x] = sched[x] /\ Through(x, sched[x].next)
      BY <1>3, <1>7, <2>1 DEF Settled
    <3>2. Accounted(x, o)
      BY <3>1 DEF Through
    <3> QED
      BY <1>5, <3>2
  <2>2. CASE x = s
    <3>1. Through(s, c.before.next)
      BY <1>3, <1>7 DEF Settled
    <3>2. Template[s].next \in Nat
      BY <1>3, PostingAssumption DEF Kept
    <3>3. c.op # "delete" /\ sched'[s].next \in Nat
      BY <1>3, <2>2
    <3>4. CASE o < c.before.next
      <4>1. o \in Template[s].next .. c.before.next - 1
        BY <1>3, <2>2, <3>2, <3>3, <3>4
      <4>2. Accounted(s, o)
        BY <3>1, <4>1 DEF Through
      <4> QED
        BY <1>5, <2>2, <4>2
    <3>5. CASE ~(o < c.before.next)
      <4>1. c.op \in {"post", "skip"} /\ o = c.before.next
        BY <1>3, <2>2, <3>2, <3>3, <3>5
      <4> QED
        BY <1>5, <2>2, <4>1
    <3> QED
      BY <3>4, <3>5
  <2> QED
    BY <2>1, <2>2
<1>9. NothingMissed'
  <2>1. Settled' => NothingMissed'
    BY SettledIs, PTL
  <2> QED
    BY <1>8, <2>1
<1> DEFINE m == Len(undoStack)
<1>10. /\ undoStack \in Seq(Cmd) /\ m \in Nat
       /\ DOMAIN undoStack' = DOMAIN undoStack \cup {m + 1}
       /\ \A i \in DOMAIN undoStack : /\ undoStack'[i] = undoStack[i] /\ i < m + 1 /\ i \in Nat
                                      /\ undoStack[i] \in Cmd /\ i # m + 1
       /\ undoStack'[m + 1] = c
  <2>1. undoStack \in Seq(Cmd) /\ undoStack' = Append(undoStack, c)
    BY <1>2 DEF Written, Inv, Types
  <2>2. /\ DOMAIN undoStack' = DOMAIN undoStack \cup {m + 1} /\ DOMAIN undoStack \subseteq Nat
        /\ \A i \in DOMAIN undoStack : undoStack'[i] = undoStack[i] /\ i < m + 1
        /\ undoStack'[m + 1] = c /\ m \in Nat
    BY <1>3, <2>1, Pushed
  <2> QED
    BY <2>1, <2>2
<1> HIDE DEF m
<1>11. /\ DOMAIN redoStack' \subseteq DOMAIN redoStack
       /\ \A j \in DOMAIN redoStack' : /\ redoStack'[j] = redoStack[j] /\ Single(redoStack[j])
                                       /\ redoStack[j] \in Cmd
                                       /\ \A r \in RowsOf(c) : r \notin RowsOf(redoStack[j])
  <2>1. CASE lane.how = "do"
    <3>1. DOMAIN redoStack' = {}
      BY <1>2, <2>1 DEF Written
    <3> QED
      BY <3>1
  <2>2. CASE lane.how = "redo"
    <3>1. /\ redoStack # <<>> /\ AllSingle /\ redoStack \in Seq(Cmd) /\ c.op = Last(redoStack).op
          /\ c.op = "post" => c.row = Last(redoStack).row
          /\ redoStack' = Front(redoStack)
      BY <1>2, <2>2 DEF Written, Inv, Types
    <3>2. /\ DOMAIN Front(redoStack) = DOMAIN redoStack \ {Len(redoStack)}
          /\ \A i \in DOMAIN Front(redoStack) : Front(redoStack)[i] = redoStack[i]
          /\ Last(redoStack) = redoStack[Len(redoStack)] /\ Len(redoStack) \in DOMAIN redoStack
      BY <3>1, Popped
    <3>3. RowsOf(c) = RowsOf(Last(redoStack))
      BY <1>3, <3>1 DEF RowsOf
    <3> SUFFICES ASSUME NEW j \in DOMAIN redoStack'
                 PROVE  /\ redoStack'[j] = redoStack[j] /\ Single(redoStack[j])
                        /\ redoStack[j] \in Cmd /\ j \in DOMAIN redoStack
                        /\ \A r \in RowsOf(c) : r \notin RowsOf(redoStack[j])
      BY <3>1, <3>2
    <3>4. j \in DOMAIN redoStack /\ j # Len(redoStack) /\ redoStack'[j] = redoStack[j]
      BY <3>1, <3>2
    <3>5. RowsOf(redoStack[Len(redoStack)]) \cap RowsOf(redoStack[j]) = {}
      BY <3>2, <3>4 DEF Firm, Apart
    <3> QED
      BY <3>1, <3>2, <3>3, <3>4, <3>5 DEF AllSingle
  <2> QED
    BY <1>2, <2>1, <2>2 DEF Written
<1>12. \A i \in DOMAIN undoStack : \A r \in RowsOf(c) : r \notin RowsOf(undoStack[i])
  <2>1. CASE c.op = "post"
    <3>1. RowsOf(c) = {c.row}
      BY <2>1 DEF RowsOf
    <3> QED
      BY <1>2, <2>1, <3>1 DEF Written
  <2>2. CASE c.op # "post"
    <3>1. RowsOf(c) = {}
      BY <1>3, <2>2 DEF RowsOf
    <3> QED
      BY <3>1
  <2> QED
    BY <2>1, <2>2
<1>13. Apart'
  <2>1. \A i, j \in DOMAIN undoStack' : i # j =>
          RowsOf(undoStack'[i]) \cap RowsOf(undoStack'[j]) = {}
    <3> SUFFICES ASSUME NEW i \in DOMAIN undoStack', NEW j \in DOMAIN undoStack', i # j
                 PROVE  RowsOf(undoStack'[i]) \cap RowsOf(undoStack'[j]) = {}
      OBVIOUS
    <3>1. CASE i \in DOMAIN undoStack /\ j \in DOMAIN undoStack
      BY <1>10, <3>1 DEF Firm, Apart
    <3>2. CASE i = m + 1 /\ j \in DOMAIN undoStack
      BY <1>10, <1>12, <3>2
    <3>3. CASE i \in DOMAIN undoStack /\ j = m + 1
      BY <1>10, <1>12, <3>3
    <3> QED
      BY <1>10, <3>1, <3>2, <3>3
  <2>2. \A i, j \in DOMAIN redoStack' : i # j =>
          RowsOf(redoStack'[i]) \cap RowsOf(redoStack'[j]) = {}
    BY <1>11 DEF Firm, Apart
  <2>3. \A i \in DOMAIN undoStack', j \in DOMAIN redoStack' :
          RowsOf(undoStack'[i]) \cap RowsOf(redoStack'[j]) = {}
    <3> SUFFICES ASSUME NEW i \in DOMAIN undoStack', NEW j \in DOMAIN redoStack'
                 PROVE  RowsOf(undoStack'[i]) \cap RowsOf(redoStack'[j]) = {}
      OBVIOUS
    <3>1. CASE i \in DOMAIN undoStack
      BY <1>10, <1>11, <3>1 DEF Firm, Apart
    <3>2. CASE i = m + 1
      BY <1>10, <1>11, <3>2
    <3> QED
      BY <1>10, <3>1, <3>2
  <2> QED
    BY <2>1, <2>2, <2>3 DEF Apart
<1>14. AllProper'
  <2>1. \A i \in DOMAIN undoStack' : ~ Single(undoStack'[i]) => Proper(undoStack'[i].entries)
    BY <1>3, <1>10 DEF Firm, AllProper
  <2> QED
    BY <1>11, <2>1 DEF AllProper
<1>15. ASSUME NEW d \in Cmd, \A r \in RowsOf(c) : r \notin RowsOf(d)
       PROVE  (Intact(d) => Intact(d)') /\ (Spent(d) => Spent(d)')
  <2>1. \A r \in RowsOf(d) : rows'[r] = rows[r]
    <3> SUFFICES ASSUME NEW r \in RowsOf(d) PROVE rows'[r] = rows[r]
      OBVIOUS
    <3>1. r \in RowId
      BY RowsAre
    <3>2. c.op = "post" => RowsOf(c) = {c.row}
      BY DEF RowsOf
    <3>3. ~(c.op = "post" /\ r = c.row)
      BY <1>15, <3>2
    <3> QED
      BY <1>2, <3>1, <3>3 DEF Written
  <2> QED
    BY <2>1, CmdStays
<1>16. Intact(c)'
  <2>1. CASE c.op = "post"
    <3>1. Makes(c) = {<<c.row, Posting(c.sched, c.occ)>>}
      BY <2>1 DEF Makes
    <3>2. rows'[c.row] = Posting(c.sched, c.occ)
      BY <1>2, <2>1 DEF Written
    <3> QED
      BY <3>1, <3>2 DEF Intact
  <2>2. CASE c.op # "post"
    <3>1. Makes(c) = {}
      BY <1>3, <2>2 DEF Makes
    <3> QED
      BY <3>1 DEF Intact
  <2> QED
    BY <2>1, <2>2
<1>17. Stored'
  <2>1. ASSUME NEW i \in DOMAIN undoStack'
        PROVE  \/ \A p \in Makes(undoStack'[i]) : rows'[p[1]] = p[2]
               \/ /\ ~ Single(undoStack'[i])
                  /\ \A p \in Makes(undoStack'[i]) : rows'[p[1]] = NoRow
    <3>1. CASE i = m + 1
      <4>1. \A p \in Makes(c) : rows'[p[1]] = p[2]
        BY <1>16 DEF Intact
      <4> QED
        BY <1>10, <3>1, <4>1
    <3>2. CASE i \in DOMAIN undoStack
      <4>1. PICK d \in Cmd : d = undoStack[i] /\ d = undoStack'[i]
        BY <1>10, <3>2
      <4>2. Intact(d) \/ (~ Single(d) /\ Spent(d))
        BY <1>4, <3>2, <4>1 DEF Firm, Stored
      <4>3. \A r \in RowsOf(c) : r \notin RowsOf(d)
        BY <1>12, <3>2, <4>1
      <4>4. (Intact(d) => Intact(d)') /\ (Spent(d) => Spent(d)')
        BY <1>15, <4>3
      <4>5. \/ \A p \in Makes(d) : rows'[p[1]] = p[2]
            \/ ~ Single(d) /\ \A p \in Makes(d) : rows'[p[1]] = NoRow
        BY <4>2, <4>4 DEF Intact, Spent, Live
      <4> QED
        BY <4>1, <4>5
    <3> QED
      BY <1>10, <3>1, <3>2
  <2>2. ASSUME NEW j \in DOMAIN redoStack'
        PROVE  \A p \in Makes(redoStack'[j]) : rows'[p[1]] = NoRow
    <3>1. PICK d \in Cmd : d = redoStack[j] /\ d = redoStack'[j]
      BY <1>11
    <3>2. Spent(d)
      BY <1>11, <3>1 DEF Firm, Stored
    <3>3. \A r \in RowsOf(c) : r \notin RowsOf(d)
      BY <1>11, <3>1
    <3>4. Spent(d)'
      BY <1>15, <3>2, <3>3
    <3>5. \A p \in Makes(d) : rows'[p[1]] = NoRow
      BY <3>4 DEF Spent, Live
    <3> QED
      BY <3>1, <3>5
  <2> QED
    BY <2>1, <2>2 DEF Stored, Intact, Spent, Live
<1>18. AutoLow'
  <2>1. ASSUME NEW i \in DOMAIN undoStack', ~ Single(undoStack'[i]),
               NEW e \in Range(undoStack'[i].entries)
        PROVE  /\ Low(e)'
               /\ \A k \in DOMAIN undoStack' : i < k /\ undoStack'[k].sched = e.sched
                    => e.before.next <= undoStack'[k].before.next
    <3>1. i \in DOMAIN undoStack /\ undoStack'[i] = undoStack[i] /\ undoStack[i] \in Cmd
      BY <1>3, <1>10, <2>1
    <3>2. /\ Low(e) /\ \A k \in DOMAIN undoStack : i < k /\ undoStack[k].sched = e.sched
                         => e.before.next <= undoStack[k].before.next
      BY <2>1, <3>1 DEF Firm, AutoLow
    <3>3. e \in Entry /\ e.sched \in Schedule /\ e.before.next \in Nat
      <4>1. e \in Entry
        BY <2>1, <3>1, EntriesAre
      <4> QED
        BY <4>1, MadeIs
    <3>4. e.sched = s => e.before.next <= c.before.next
      BY <1>3, <3>2 DEF Low
    <3>5. Low(e)'
      <4>1. CASE e.sched = s
        BY <1>3, <3>3, <3>4, <4>1 DEF Low
      <4>2. CASE e.sched # s
        BY <1>3, <3>2, <3>3, <4>2 DEF Low
      <4> QED
        BY <4>1, <4>2
    <3>6. \A k \in DOMAIN undoStack' : i < k /\ undoStack'[k].sched = e.sched
            => e.before.next <= undoStack'[k].before.next
      BY <1>3, <1>10, <3>2, <3>4
    <3> QED
      BY <3>5, <3>6
  <2>2. \A j \in DOMAIN redoStack' : Single(redoStack'[j])
    BY <1>11
  <2> QED
    BY <2>1, <2>2 DEF AutoLow, Low
<1>19. DeletedKept'
  <2> SUFFICES ASSUME NEW i \in DOMAIN undoStack', undoStack'[i].op = "delete",
                      \A k \in DOMAIN undoStack' : i < k
                        => undoStack'[k].sched # undoStack'[i].sched,
                      NEW x, x = undoStack'[i].sched,
                      NEW o \in Template[x].next .. undoStack'[i].before.next - 1
               PROVE  Accounted(x, o)'
    BY DEF DeletedKept, Through, Accounted, Live
  <2>1. PICK d, n : d = undoStack'[i] /\ n = d.before.next /\ x = d.sched
    OBVIOUS
  <2>2. Through(x, n)
    <3>1. CASE i = m + 1
      <4>1. d = c
        BY <1>10, <2>1, <3>1
      <4> QED
        BY <1>3, <1>7, <2>1, <4>1 DEF Settled
    <3>2. CASE i \in DOMAIN undoStack
      <4>1. d = undoStack[i]
        BY <1>10, <2>1, <3>2
      <4>2. \A k \in DOMAIN undoStack : i < k => undoStack[k].sched # undoStack[i].sched
        BY <1>10, <3>2
      <4> QED
        BY <2>1, <3>2, <4>1, <4>2 DEF Firm, DeletedKept
    <3> QED
      BY <1>10, <3>1, <3>2
  <2>3. Accounted(x, o)
    BY <2>1, <2>2 DEF Through
  <2> QED
    BY <1>5, <2>3
<1>20. BatchHolds' /\ RunHolds' /\ UndoHolds'
  BY <1>3, <1>4 DEF BatchHolds, Running, RunHolds, UndoHolds
<1> QED
  BY <1>9, <1>13, <1>14, <1>17, <1>18, <1>19, <1>20 DEF Firm

----------------------------------------------------------------------------
(* An undo begins.                                                         *)

LEMMA ReversalHolds ==
    ASSUME NEW c \in Cmd, ~ Single(c) => Proper(c.entries), NEW todo, todo = Reversal(c)
    PROVE  /\ DropsFit(c, todo)
           /\ ~ Single(c) => \A e \in Range(c.entries) : Waiting(e, todo)
<1>1. CASE c.op = "post"
  <2>1. /\ todo = <<Drop(<<c.row>>), Put(c.sched, c.before)>> /\ Single(c)
        /\ RowsOf(c) = {c.row}
    BY <1>1 DEF Reversal, Single, RowsOf
  <2>2. /\ DOMAIN todo = {1, 2} /\ todo[1] = Drop(<<c.row>>)
        /\ todo[2] = Put(c.sched, c.before)
    BY <2>1
  <2>3. Drop(<<c.row>>).do = "drop" /\ Drop(<<c.row>>).rows = <<c.row>>
        /\ Put(c.sched, c.before).do = "put"
    BY DEF Drop, Put
  <2>4. <<c.row>> # <<>> /\ DOMAIN <<c.row>> = {1} /\ <<c.row>>[1] = c.row
    OBVIOUS
  <2>5. \A i \in DOMAIN todo : todo[i].do = "drop" => i = 1 /\ todo[i].rows = <<c.row>>
    BY <2>2, <2>3
  <2>6. \A i \in DOMAIN todo : todo[i].do # "again"
    BY <2>2, <2>3
  <2> QED
    BY <2>1, <2>4, <2>5, <2>6 DEF DropsFit
<1>2. CASE c.op \in {"skip", "edit", "delete"}
  <2>1. PICK w : todo = <<w>> /\ w.do # "drop" /\ (c.op # "delete" => w.do # "again")
    BY <1>2 DEF Reversal, Put, Again
  <2>2. DOMAIN todo = {1} /\ todo[1] = w /\ Single(c)
    BY <1>2, <2>1 DEF Single
  <2> QED
    BY <2>1, <2>2 DEF DropsFit
<1>3. CASE c.op = "auto"
  <2>1. PICK es : es = c.entries
    OBVIOUS
  <2>2. /\ es \in Seq(Entry) /\ es # <<>> /\ todo = AutoReversal(es) /\ Proper(es)
        /\ RowsOf(c) = UNION {Range(e.rows) : e \in Range(es)} /\ c.op # "delete"
    BY <1>3, <2>1, CmdKinds DEF Reversal, Single, RowsOf
  <2> DEFINE n == Len(es)
  <2>3. /\ n \in Nat \ {0} /\ DOMAIN es = 1..n
        /\ DOMAIN todo = 1..(2 * n)
        /\ \A i \in 1..n : todo[i] = Drop(es[n - i + 1].rows)
        /\ \A i \in (n + 1)..(2 * n) : todo[i] = Put(es[i - n].sched, es[i - n].before)
    BY <2>2, AutoReversalIs
  <2> HIDE DEF n
  <2>4. \A i \in 1..n : /\ todo[i].do = "drop" /\ todo[i].rows = es[n - i + 1].rows
                        /\ n - i + 1 \in 1..n
    <3>1. \A x : Drop(x).do = "drop" /\ Drop(x).rows = x
      BY DEF Drop
    <3>2. \A i \in 1..n : n - i + 1 \in 1..n
      BY <2>3
    <3> QED
      BY <2>3, <3>1, <3>2
  <2>5. \A i \in (n + 1)..(2 * n) : /\ todo[i].do = "put" /\ todo[i].sched = es[i - n].sched
                                    /\ todo[i].st = es[i - n].before
    <3>1. \A x, y : Put(x, y).do = "put" /\ Put(x, y).sched = x /\ Put(x, y).st = y
      BY DEF Put
    <3> QED
      BY <2>3, <3>1
  <2>6. \A i \in DOMAIN todo : i \in 1..n \/ i \in (n + 1)..(2 * n)
    BY <2>3
  <2>7. \A i \in DOMAIN todo : todo[i].do = "drop" => i \in 1..n
    BY <2>5, <2>6
  <2>8. \A i \in DOMAIN todo : todo[i].do = "drop" =>
          todo[i].rows # <<>> /\ \A k \in DOMAIN todo[i].rows : todo[i].rows[k] \in RowsOf(c)
    <3> SUFFICES ASSUME NEW i \in 1..n
                 PROVE  /\ todo[i].rows # <<>>
                        /\ \A k \in DOMAIN todo[i].rows : todo[i].rows[k] \in RowsOf(c)
      BY <2>7
    <3>1. PICK j \in DOMAIN es : todo[i].rows = es[j].rows
      BY <2>3, <2>4
    <3>2. es[j].rows # <<>>
      BY <2>2 DEF Proper
    <3>3. \A k \in DOMAIN es[j].rows : es[j].rows[k] \in Range(es[j].rows)
      BY DEF Range
    <3>4. es[j] \in Range(es)
      BY DEF Range
    <3>5. Range(es[j].rows) \subseteq RowsOf(c)
      BY <2>2, <3>4
    <3> QED
      BY <3>1, <3>2, <3>3, <3>5
  <2>9. ASSUME NEW i \in DOMAIN todo, NEW j \in DOMAIN todo,
               todo[i].do = "drop", todo[j].do = "drop",
               NEW k \in DOMAIN todo[i].rows, NEW l \in DOMAIN todo[j].rows,
               todo[i].rows[k] = todo[j].rows[l]
        PROVE  i = j /\ k = l
    <3>1. i \in 1..n /\ j \in 1..n
      BY <2>7, <2>9
    <3>2. PICK a \in DOMAIN es : a = n - i + 1 /\ todo[i].rows = es[a].rows
      BY <2>3, <2>4, <3>1
    <3>3. PICK b \in DOMAIN es : b = n - j + 1 /\ todo[j].rows = es[b].rows
      BY <2>3, <2>4, <3>1
    <3>4. a = b /\ k = l
      BY <2>2, <2>9, <3>2, <3>3 DEF Proper
    <3> QED
      BY <2>3, <3>1, <3>2, <3>3, <3>4
  <2>10. \A i \in DOMAIN todo : todo[i].do # "again"
    BY <2>4, <2>5, <2>6
  <2>11. DropsFit(c, todo)
    BY <2>8, <2>9, <2>10 DEF DropsFit
  <2>12. ASSUME NEW e \in Range(es)
         PROVE  Waiting(e, todo)
    <3>1. PICK k \in 1..n : e = es[k]
      BY <2>3 DEF Range
    <3>2. PICK j \in DOMAIN todo : j \in (n + 1)..(2 * n) /\ j - n = k
      <4>1. PICK j : j = k + n
        OBVIOUS
      <4>2. j \in (n + 1)..(2 * n) /\ j - n = k /\ j \in 1..(2 * n)
        BY <2>3, <4>1
      <4>3. j \in DOMAIN todo
        BY <2>3, <4>2
      <4> QED
        BY <4>2, <4>3
    <3>3. todo[j].do = "put" /\ todo[j].sched = e.sched /\ todo[j].st = e.before
      BY <2>5, <3>1, <3>2
    <3> QED
      BY <3>2, <3>3 DEF Waiting
  <2> QED
    BY <2>1, <2>11, <2>12
<1> QED
  BY <1>1, <1>2, <1>3, CmdKinds

LEMMA FirmStartUndo == ASSUME Inv, Firm, Patient, StartUndo PROVE Firm'
<1>1. PICK c, todo : c = Last(undoStack) /\ todo = Reversal(c)
  OBVIOUS
<1>2. lane = Idle /\ batch = Done /\ ~ Undoing
  BY ActsLate DEF StartUndo, Undoing
<1>3. /\ lane' = [how |-> "undo", cmd |-> c, st |-> NotRead, todo |-> todo]
      /\ undoStack # <<>>
      /\ UNCHANGED <<sched, rows, batch, undoStack, redoStack, skipped, cut>>
  BY <1>1 DEF StartUndo
<1>4. lane'.how = "undo" /\ lane'.cmd = c /\ lane'.todo = todo
  BY <1>3
<1>5. /\ c \in Cmd /\ c = undoStack[Len(undoStack)] /\ Len(undoStack) \in DOMAIN undoStack
  <2>1. undoStack \in Seq(Cmd)
    BY DEF Inv, Types
  <2> QED
    BY <1>1, <1>3, <2>1, Popped
<1>6. /\ ~ Single(c) => Proper(c.entries)
      /\ Intact(c) \/ (~ Single(c) /\ Spent(c))
  BY <1>2, <1>5 DEF Firm, AllProper, Stored
<1>7. /\ DropsFit(c, todo)
      /\ ~ Single(c) => \A e \in Range(c.entries) : Waiting(e, todo)
  BY <1>1, <1>5, <1>6, ReversalHolds
<1>8. Apart' /\ AllProper' /\ AutoLow' /\ DeletedKept'
  BY <1>3, StoreStays
<1>9. Stored'
  BY <1>2, <1>3 DEF Firm, Stored, Intact, Spent, Live
<1>10. Settled'
  BY <1>2, <1>3, NoneHalf, SettledStays DEF Firm
<1>11. NothingMissed'
  <2>1. Settled' => NothingMissed'
    BY SettledIs, PTL
  <2> QED
    BY <1>10, <2>1
<1>12. BatchHolds' /\ RunHolds'
  BY <1>2, <1>3, <1>4 DEF BatchHolds, Running, RunHolds
<1>13. UndoHolds'
  <2>1. \/ \A p \in Makes(c) : rows'[p[1]] = p[2]
        \/ ~ Single(c) /\ \A p \in Makes(c) : rows'[p[1]] = NoRow
    BY <1>3, <1>6 DEF Intact, Spent, Live
  <2>2. Untouched'
    BY <1>1, <1>4, <1>10, <2>1 DEF Untouched, Intact, Spent, Live
  <2>3. \A p \in Makes(c) : rows'[p[1]] = p[2] \/ rows'[p[1]] = NoRow
    BY <2>1
  <2> QED
    BY <1>4, <1>7, <2>2, <2>3 DEF UndoHolds, Live
<1> QED
  BY <1>8, <1>9, <1>11, <1>12, <1>13 DEF Firm

----------------------------------------------------------------------------
(* A row dropped.                                                          *)

(* What is left to do: one row less.                                       *)
LEMMA RestFits ==
    ASSUME NEW todo \in Seq(Task), todo # <<>>, NEW w, w = Head(todo), w.do = "drop",
           NEW c, DropsFit(c, todo), NEW q, q = Rest(todo)
    PROVE  /\ w.rows \in Seq(RowId) /\ w.rows # <<>> /\ Last(w.rows) \in RowsOf(c)
           /\ DropsFit(c, q)
           /\ \A e : Waiting(e, todo) => Waiting(e, q)
           /\ \A i \in DOMAIN q : q[i].do = "drop" => \A k \in DOMAIN q[i].rows :
                /\ q[i].rows[k] # Last(w.rows)
                /\ \E j \in DOMAIN todo : /\ todo[j].do = "drop" /\ k \in DOMAIN todo[j].rows
                                          /\ todo[j].rows[k] = q[i].rows[k]
<1>1. /\ w = todo[1] /\ Len(todo) \in Nat \ {0} /\ DOMAIN todo = 1..Len(todo) /\ w \in Task
  BY RestIs
<1>2. 1 \in DOMAIN todo
  BY <1>1
<1>3. /\ w.rows \in Seq(RowId) /\ w.rows # <<>>
      /\ \A k \in DOMAIN w.rows : w.rows[k] \in RowsOf(c)
  BY <1>1, <1>2, TaskKinds DEF DropsFit
<1>4. PICK rs \in Seq(RowId) : rs = w.rows /\ rs # <<>>
  BY <1>3
<1>5. /\ DOMAIN Front(rs) = DOMAIN rs \ {Len(rs)} /\ Len(Front(rs)) = Len(rs) - 1
      /\ \A k \in DOMAIN Front(rs) : Front(rs)[k] = rs[k]
      /\ Last(rs) = rs[Len(rs)] /\ Len(rs) \in DOMAIN rs /\ Len(rs) \in Nat \ {0}
      /\ DOMAIN rs = 1..Len(rs) /\ Front(rs) \in Seq(RowId)
  <2>1. rs # <<>>
    BY <1>4
  <2> QED
    BY <2>1, Popped
<1> DEFINE Shift(d) ==
      /\ \A i \in DOMAIN q : /\ i + d \in DOMAIN todo /\ q[i].do = todo[i + d].do
                             /\ q[i].do # "drop" => q[i] = todo[i + d]
      /\ \A i \in DOMAIN q : q[i].do = "drop" =>
           /\ q[i].rows # <<>>
           /\ \A k \in DOMAIN q[i].rows :
                /\ k \in DOMAIN todo[i + d].rows /\ q[i].rows[k] = todo[i + d].rows[k]
                /\ ~(i + d = 1 /\ k = Len(rs))
      /\ \A j \in DOMAIN todo : todo[j].do # "drop" => j - d \in DOMAIN q /\ q[j - d] = todo[j]
      /\ \A i, j \in DOMAIN q : i + d = j + d => i = j
<1>6. \E d \in {0, 1} : Shift(d)
  <2>1. CASE Len(rs) > 1
    <3>1. /\ DOMAIN q = DOMAIN todo
          /\ \A i \in DOMAIN todo : q[i] = IF i = 1 THEN Drop(Front(rs)) ELSE todo[i]
      BY <1>1, <1>4, <2>1, RestIs
    <3>2. /\ Drop(Front(rs)).do = "drop" /\ Drop(Front(rs)).rows = Front(rs)
          /\ Front(rs) # <<>>
      <4>1. Len(Front(rs)) # 0
        BY <1>5, <2>1
      <4>2. Front(rs) # <<>>
        BY <4>1
      <4> QED
        BY <4>2 DEF Drop
    <3>3. \A i \in DOMAIN todo : i \in Nat /\ i + 0 = i /\ i - 0 = i
      BY <1>1
    <3>4. \A i \in DOMAIN q : /\ i + 0 \in DOMAIN todo /\ q[i].do = todo[i + 0].do
                              /\ q[i].do # "drop" => q[i] = todo[i + 0]
      BY <1>1, <3>1, <3>2, <3>3
    <3>5. ASSUME NEW i \in DOMAIN q, q[i].do = "drop"
          PROVE  /\ q[i].rows # <<>>
                 /\ \A k \in DOMAIN q[i].rows :
                      /\ k \in DOMAIN todo[i + 0].rows /\ q[i].rows[k] = todo[i + 0].rows[k]
                      /\ ~(i + 0 = 1 /\ k = Len(rs))
      <4>1. CASE i = 1
        <5>1. q[i].rows = Front(rs) /\ todo[i + 0].rows = rs
          BY <1>1, <1>4, <3>1, <3>2, <3>3, <4>1
        <5> QED
          BY <1>5, <3>2, <5>1
      <4>2. CASE i # 1
        <5>1. q[i] = todo[i] /\ i + 0 = i /\ todo[i].rows # <<>>
          BY <3>1, <3>3, <3>5, <4>2 DEF DropsFit
        <5> QED
          BY <4>2, <5>1
      <4> QED
        BY <4>1, <4>2
    <3>6. \A j \in DOMAIN todo : todo[j].do # "drop" => j - 0 \in DOMAIN q /\ q[j - 0] = todo[j]
      BY <1>1, <3>1, <3>3
    <3>7. \A i, j \in DOMAIN q : i + 0 = j + 0 => i = j
      BY <3>1, <3>3
    <3>8. Shift(0)
      BY <3>4, <3>5, <3>6, <3>7
    <3> HIDE DEF Shift
    <3> QED
      BY <3>8
  <2>2. CASE ~(Len(rs) > 1)
    <3>1. /\ DOMAIN q = 1..(Len(todo) - 1) /\ \A i \in DOMAIN q : q[i] = todo[i + 1]
      BY <1>1, <1>4, <2>2, RestIs
    <3>2. \A i \in DOMAIN q : i + 1 \in DOMAIN todo /\ i + 1 # 1
      BY <1>1, <3>1
    <3>3. \A j \in DOMAIN todo : j # 1 => j - 1 \in DOMAIN q /\ j - 1 + 1 = j
      BY <1>1, <3>1
    <3>4. \A i \in DOMAIN q : /\ i + 1 \in DOMAIN todo /\ q[i].do = todo[i + 1].do
                              /\ q[i].do # "drop" => q[i] = todo[i + 1]
      BY <3>1, <3>2
    <3>5. ASSUME NEW i \in DOMAIN q, q[i].do = "drop"
          PROVE  /\ q[i].rows # <<>>
                 /\ \A k \in DOMAIN q[i].rows :
                      /\ k \in DOMAIN todo[i + 1].rows /\ q[i].rows[k] = todo[i + 1].rows[k]
                      /\ ~(i + 1 = 1 /\ k = Len(rs))
      <4>1. q[i] = todo[i + 1] /\ i + 1 \in DOMAIN todo /\ i + 1 # 1
        BY <3>1, <3>2
      <4>2. q[i].rows # <<>>
        BY <3>5, <4>1 DEF DropsFit
      <4> QED
        BY <4>1, <4>2
    <3>6. \A j \in DOMAIN todo : todo[j].do # "drop" => j - 1 \in DOMAIN q /\ q[j - 1] = todo[j]
      <4>1. \A j \in DOMAIN todo : todo[j].do # "drop" => j # 1
        BY <1>1
      <4> QED
        BY <3>1, <3>3, <4>1
    <3>7. \A i, j \in DOMAIN q : i + 1 = j + 1 => i = j
      BY <3>1
    <3>8. Shift(1)
      BY <3>4, <3>5, <3>6, <3>7
    <3> HIDE DEF Shift
    <3> QED
      BY <3>8
  <2> QED
    BY <2>1, <2>2
<1>7. PICK d : Shift(d)
  BY <1>6
<1>8. DropsFit(c, q)
  <2>1. ASSUME NEW i \in DOMAIN q, q[i].do = "drop"
        PROVE  q[i].rows # <<>> /\ \A k \in DOMAIN q[i].rows : q[i].rows[k] \in RowsOf(c)
    <3>1. i + d \in DOMAIN todo /\ todo[i + d].do = "drop"
      BY <1>7, <2>1
    <3>2. \A k \in DOMAIN todo[i + d].rows : todo[i + d].rows[k] \in RowsOf(c)
      BY <3>1 DEF DropsFit
    <3> QED
      BY <1>7, <2>1, <3>2
  <2>2. ASSUME NEW i \in DOMAIN q, NEW j \in DOMAIN q, q[i].do = "drop", q[j].do = "drop",
               NEW k \in DOMAIN q[i].rows, NEW l \in DOMAIN q[j].rows,
               q[i].rows[k] = q[j].rows[l]
        PROVE  i = j /\ k = l
    <3>1. PICK a \in DOMAIN todo : a = i + d /\ todo[a].do = "drop"
      BY <1>7, <2>2
    <3>2. PICK b \in DOMAIN todo : b = j + d /\ todo[b].do = "drop"
      BY <1>7, <2>2
    <3>3. /\ k \in DOMAIN todo[a].rows /\ l \in DOMAIN todo[b].rows
          /\ todo[a].rows[k] = todo[b].rows[l]
      BY <1>7, <2>2, <3>1, <3>2
    <3>4. a = b /\ k = l
      BY <3>1, <3>2, <3>3 DEF DropsFit
    <3> QED
      BY <1>7, <3>1, <3>2, <3>4
  <2>3. c.op # "delete" => \A i \in DOMAIN q : q[i].do # "again"
    BY <1>7 DEF DropsFit
  <2> QED
    BY <2>1, <2>2, <2>3 DEF DropsFit
<1>9. ASSUME NEW e, Waiting(e, todo)
      PROVE  Waiting(e, q)
  <2>1. PICK j \in DOMAIN todo :
          todo[j].do # "drop" /\ todo[j].sched = e.sched /\ todo[j].st = e.before
    BY <1>9 DEF Waiting
  <2>2. PICK i \in DOMAIN q : q[i] = todo[j]
    BY <1>7, <2>1
  <2> QED
    BY <2>1, <2>2 DEF Waiting
<1>10. ASSUME NEW i \in DOMAIN q, q[i].do = "drop", NEW k \in DOMAIN q[i].rows
       PROVE  /\ q[i].rows[k] # Last(w.rows)
              /\ \E j \in DOMAIN todo : /\ todo[j].do = "drop" /\ k \in DOMAIN todo[j].rows
                                        /\ todo[j].rows[k] = q[i].rows[k]
  <2>1. PICK j \in DOMAIN todo :
          /\ todo[j].do = "drop" /\ k \in DOMAIN todo[j].rows
          /\ todo[j].rows[k] = q[i].rows[k] /\ ~(j = 1 /\ k = Len(rs))
    <3>1. i + d \in DOMAIN todo /\ todo[i + d].do = "drop"
      BY <1>7, <1>10
    <3>2. /\ k \in DOMAIN todo[i + d].rows /\ q[i].rows[k] = todo[i + d].rows[k]
          /\ ~(i + d = 1 /\ k = Len(rs))
      BY <1>7, <1>10
    <3> QED
      BY <3>1, <3>2
  <2>2. q[i].rows[k] # Last(w.rows)
    <3> SUFFICES ASSUME q[i].rows[k] = Last(w.rows) PROVE FALSE
      OBVIOUS
    <3>1. PICK l : l = Len(rs) /\ l \in DOMAIN todo[1].rows /\ todo[1].rows[l] = todo[j].rows[k]
      BY <1>1, <1>4, <1>5, <2>1
    <3>2. todo[1].do = "drop"
      BY <1>1
    <3>3. 1 = j /\ l = k
      BY <1>2, <2>1, <3>1, <3>2 DEF DropsFit
    <3> QED
      BY <2>1, <3>1, <3>3
  <2> QED
    BY <2>1, <2>2
<1>11. Last(w.rows) \in RowsOf(c)
  BY <1>3, <1>4, <1>5
<1> QED
  BY <1>3, <1>8, <1>9, <1>10, <1>11

LEMMA FirmDrop ==
    ASSUME Inv, Firm, UndoWrite, Head(lane.todo).do = "drop"
    PROVE  Firm'
<1>1. PICK todo, w, c, q : todo = lane.todo /\ w = Head(todo) /\ c = lane.cmd /\ q = Rest(todo)
  OBVIOUS
<1>2. /\ todo \in Seq(Task) /\ todo # <<>> /\ w \in Task /\ c \in Cmd /\ w.do = "drop"
      /\ sched' = sched /\ rows' = [rows EXCEPT ![Last(w.rows)] = NoRow]
      /\ lane # Idle /\ lane.how = "undo" /\ Undoing
      /\ UNCHANGED <<batch, skipped, cut>>
  BY <1>1, UndoneIs DEF Inv, UndoWrite, Undoing
<1>3. batch = Done /\ UndoFits
  BY <1>2 DEF Inv, LaneFits
<1>4. /\ \A p \in Makes(c) : rows[p[1]] = p[2] \/ ~ Live(p[1])
      /\ DropsFit(c, todo)
      /\ ~ Single(c) => \A e \in Range(c.entries) :
           Waiting(e, todo) \/ (sched[e.sched] # Gone /\ sched[e.sched].next = e.before.next)
      /\ Untouched \/ Begun
  BY <1>1, <1>2 DEF Firm, UndoHolds
<1>5. PICK r0 : r0 = Last(w.rows)
  OBVIOUS
<1>6. /\ r0 \in RowsOf(c) /\ DropsFit(c, q)
      /\ \A e : Waiting(e, todo) => Waiting(e, q)
      /\ \A i \in DOMAIN q : q[i].do = "drop" => \A k \in DOMAIN q[i].rows :
           /\ q[i].rows[k] # r0
           /\ \E j \in DOMAIN todo : /\ todo[j].do = "drop" /\ k \in DOMAIN todo[j].rows
                                     /\ todo[j].rows[k] = q[i].rows[k]
  BY <1>1, <1>2, <1>4, <1>5, RestFits
<1>7. r0 \in RowId /\ Live(r0) /\ \A r \in RowsOf(c) : r \in RowId
  <2>1. Live(Last(w.rows))
    BY <1>1, <1>2 DEF UndoWrite, Possible
  <2> QED
    BY <1>2, <1>5, <1>6, <2>1, RowsAre
<1>8. /\ rows'[r0] = NoRow /\ \A r \in RowId : r # r0 => rows'[r] = rows[r]
  BY <1>2, <1>5, <1>7 DEF Inv, Types
<1>9. c.op \in {"post", "auto"}
  BY <1>2, <1>6, CmdKinds DEF RowsOf
<1>10. /\ lane' \in LaneRecord /\ lane'.how = "undo" /\ lane'.cmd = c /\ lane'.todo = q
       /\ UNCHANGED <<undoStack, redoStack>>
  <2>1. Len(todo) > 1
    <3>1. w = todo[1] /\ Len(todo) \in Nat \ {0}
      BY <1>1, <1>2, RestIs
    <3>2. todo[Len(todo)].do # "drop"
      BY <1>1, <1>3 DEF UndoFits
    <3> QED
      BY <1>2, <3>1, <3>2
  <2>2. q # <<>>
    BY <1>1, <1>2, <2>1, RestIs
  <2> QED
    BY <1>1, <2>2, UndoneIs DEF Inv
<1>11. /\ undoStack[Len(undoStack)] = c /\ Len(undoStack) \in DOMAIN undoStack
       /\ DOMAIN undoStack = 1..Len(undoStack) /\ Len(undoStack) \in Nat \ {0}
       /\ undoStack \in Seq(Cmd)
  <2>1. undoStack \in Seq(Cmd) /\ undoStack # <<>> /\ c = Last(undoStack)
    BY <1>1, <1>3 DEF Inv, Types, UndoFits
  <2> QED
    BY <2>1, Popped
<1>12. PICK n \in Nat \ {0} : n = Len(undoStack)
  BY <1>11
<1>13. undoStack[n] = c /\ DOMAIN undoStack = 1..n /\ n \in DOMAIN undoStack
  BY <1>11, <1>12
<1>14. PICK x0, o0 : rows[r0] = Posting(x0, o0) /\ Posting(x0, o0) \in PostedBy(c)
                     /\ (c.op = "post" => x0 = c.sched)
  <2>1. PICK p \in Makes(c) : p[1] = r0 /\ rows[r0] = p[2] /\ p[2] \in PostedBy(c) /\ p[2] \in Post
    <3>1. PICK p \in Makes(c) : p[1] = r0
      BY <1>2, <1>6, MakesAre
    <3>2. rows[r0] = p[2]
      BY <1>4, <1>7, <3>1
    <3> QED
      BY <1>2, <3>1, <3>2, MakesAre
  <2>2. PICK x, o : p[2] = Posting(x, o)
    BY <2>1 DEF Post, Posting
  <2>3. c.op = "post" => x = c.sched
    <3> SUFFICES ASSUME c.op = "post" PROVE x = c.sched
      OBVIOUS
    <3>1. p[2] = Posting(c.sched, c.occ)
      BY <2>1 DEF PostedBy
    <3>2. Posting(c.sched, c.occ).sched = c.sched /\ Posting(x, o).sched = x
      BY DEF Posting
    <3> QED
      BY <2>2, <3>1, <3>2
  <2> QED
    BY <2>1, <2>2, <2>3
<1>15. \A x, o : Accounted(x, o) => Accounted(x, o)' \/ Posting(x, o) = Posting(x0, o0)
  <2> SUFFICES ASSUME NEW x, NEW o, Accounted(x, o), Posting(x, o) # Posting(x0, o0)
               PROVE  Accounted(x, o)'
    OBVIOUS
  <2>1. CASE Posting(x, o) \in skipped \cup cut
    BY <1>2, <2>1 DEF Accounted
  <2>2. CASE \E r \in RowId : Live(r) /\ rows[r] = Posting(x, o)
    <3>1. PICK r \in RowId : Live(r) /\ rows[r] = Posting(x, o)
      BY <2>2
    <3>2. r # r0
      BY <1>14, <3>1
    <3> QED
      BY <1>8, <3>1, <3>2 DEF Accounted, Live
  <2> QED
    BY <2>1, <2>2 DEF Accounted
<1>16. Apart' /\ AllProper' /\ AutoLow'
  BY <1>2, <1>10 DEF Firm, Apart, AllProper, AutoLow, Low
<1>17. ASSUME NEW d \in Cmd, r0 \notin RowsOf(d)
       PROVE  (Intact(d) => Intact(d)') /\ (Spent(d) => Spent(d)')
  <2>1. \A r \in RowsOf(d) : rows'[r] = rows[r]
    BY <1>8, <1>17, RowsAre
  <2> QED
    BY <2>1, CmdStays
<1>18. Stored'
  <2>1. ASSUME NEW i \in DOMAIN undoStack, i < n
        PROVE  \/ \A p \in Makes(undoStack[i]) : rows'[p[1]] = p[2]
               \/ /\ ~ Single(undoStack[i])
                  /\ \A p \in Makes(undoStack[i]) : rows'[p[1]] = NoRow
    <3>1. PICK d \in Cmd : d = undoStack[i]
      BY <1>11
    <3>2. Intact(d) \/ (~ Single(d) /\ Spent(d))
      BY <1>12, <2>1, <3>1 DEF Firm, Stored
    <3>3. i # n
      BY <1>13, <2>1
    <3>4. RowsOf(undoStack[i]) \cap RowsOf(undoStack[n]) = {}
      BY <1>13, <3>3 DEF Firm, Apart
    <3>5. r0 \notin RowsOf(d)
      BY <1>6, <1>13, <3>1, <3>4
    <3>6. (Intact(d) => Intact(d)') /\ (Spent(d) => Spent(d)')
      BY <1>17, <3>5
    <3>7. \/ \A p \in Makes(d) : rows'[p[1]] = p[2]
          \/ ~ Single(d) /\ \A p \in Makes(d) : rows'[p[1]] = NoRow
      BY <3>2, <3>6 DEF Intact, Spent, Live
    <3> QED
      BY <3>1, <3>7
  <2>2. ASSUME NEW j \in DOMAIN redoStack
        PROVE  \A p \in Makes(redoStack[j]) : rows'[p[1]] = NoRow
    <3>1. PICK d \in Cmd : d = redoStack[j]
      BY DEF Inv, Types
    <3>2. Spent(d)
      BY <3>1 DEF Firm, Stored
    <3>3. RowsOf(undoStack[n]) \cap RowsOf(redoStack[j]) = {}
      BY <1>13 DEF Firm, Apart
    <3>4. r0 \notin RowsOf(d)
      BY <1>6, <1>13, <3>1, <3>3
    <3>5. Spent(d)'
      BY <1>17, <3>2, <3>4
    <3>6. \A p \in Makes(d) : rows'[p[1]] = NoRow
      BY <3>5 DEF Spent, Live
    <3> QED
      BY <3>1, <3>6
  <2>3. Undoing'
    <3>1. lane' # Idle
      BY <1>10 DEF Idle
    <3> QED
      BY <1>10, <3>1 DEF Undoing
  <2> QED
    BY <1>10, <1>12, <2>1, <2>2, <2>3 DEF Stored, Intact, Spent, Live
<1>19. DeletedKept'
  <2> SUFFICES ASSUME NEW i \in DOMAIN undoStack, undoStack[i].op = "delete",
                      \A k \in DOMAIN undoStack : i < k
                        => undoStack[k].sched # undoStack[i].sched,
                      NEW x, x = undoStack[i].sched,
                      NEW o \in Template[x].next .. undoStack[i].before.next - 1
               PROVE  Accounted(x, o)'
    BY <1>10 DEF DeletedKept, Through, Accounted, Live
  <2>1. Accounted(x, o)
    BY DEF Firm, DeletedKept, Through
  <2>2. i \in Nat /\ i <= n /\ i # n
    BY <1>9, <1>13
  <2>3. c.op # "auto"
    <3> SUFFICES ASSUME c.op = "auto" PROVE FALSE
      OBVIOUS
    <3>1. n = 1
      BY <1>13 DEF Inv, Core, AutoFirst, Single
    <3> QED
      BY <1>13, <2>2, <3>1
  <2>4. i < n /\ c.sched # x /\ c.op = "post"
    <3>1. i < n
      BY <2>2
    <3> QED
      BY <1>9, <1>13, <2>3, <3>1
  <2>5. Posting(x, o) # Posting(x0, o0)
    <3>1. x0 # x
      BY <1>14, <2>4
    <3> QED
      BY <3>1, PostingIs
  <2> QED
    BY <1>15, <2>1, <2>5
<1>20. Undoing' /\ HalfUndone' = PostedBy(c) /\ HalfUndone = PostedBy(c)
  <2>1. lane' # Idle
    BY <1>10 DEF Idle
  <2>2. Undoing'
    BY <1>10, <2>1 DEF Undoing
  <2> QED
    BY <1>1, <1>2, <1>10, <2>2 DEF HalfUndone
<1>21. NothingMissed'
  <2> SUFFICES ASSUME NEW s \in Schedule, sched[s] # Gone,
                      NEW o \in Template[s].next .. sched[s].next - 1
               PROVE  Accounted(s, o)' \/ Posting(s, o) \in PostedBy(c)
    BY <1>2, <1>20 DEF NothingMissed, Accounted
  <2>1. Accounted(s, o) \/ Posting(s, o) \in PostedBy(c)
    BY <1>20 DEF Firm, NothingMissed, Accounted
  <2> QED
    BY <1>14, <1>15, <2>1
<1>22. BatchHolds' /\ RunHolds'
  BY <1>2, <1>3, <1>10 DEF BatchHolds, Running, RunHolds
<1>23. Begun'
  <2> SUFFICES ASSUME NEW i \in DOMAIN q, q[i].do = "drop", NEW k \in DOMAIN q[i].rows
               PROVE  rows'[q[i].rows[k]] # NoRow
    BY <1>9, <1>10 DEF Begun, Live
  <2>1. PICK j \in DOMAIN todo : /\ todo[j].do = "drop" /\ k \in DOMAIN todo[j].rows
                                 /\ todo[j].rows[k] = q[i].rows[k]
    BY <1>6
  <2>2. PICK r : r = q[i].rows[k]
    OBVIOUS
  <2>3. r \in RowsOf(c) /\ r # r0 /\ r \in RowId
    <3>1. r \in RowsOf(c)
      BY <1>4, <2>1, <2>2 DEF DropsFit
    <3> QED
      BY <1>6, <1>7, <2>2, <3>1
  <2>4. Live(r)
    <3>1. CASE Begun
      BY <1>1, <2>1, <2>2, <3>1 DEF Begun
    <3>2. CASE Untouched
      <4>1. ~ Spent(c)
        BY <1>2, <1>6, <1>7, SpentIs
      <4>2. Intact(c)
        BY <1>1, <3>2, <4>1 DEF Untouched
      <4> QED
        BY <1>2, <2>3, <4>2, SpentIs
    <3> QED
      BY <1>4, <3>1, <3>2
  <2> QED
    BY <1>8, <2>2, <2>3, <2>4 DEF Live
<1>24. UndoHolds'
  <2>1. \A p \in Makes(c) : rows'[p[1]] = p[2] \/ rows'[p[1]] = NoRow
    <3> SUFFICES ASSUME NEW p \in Makes(c)
                 PROVE  rows'[p[1]] = p[2] \/ rows'[p[1]] = NoRow
      OBVIOUS
    <3>1. p[1] \in RowId
      BY <1>2, MakesAre
    <3>2. CASE p[1] = r0
      BY <1>8, <3>2
    <3>3. CASE p[1] # r0
      BY <1>4, <1>8, <3>1, <3>3 DEF Live
    <3> QED
      BY <3>2, <3>3
  <2>2. ~ Single(c) => \A e \in Range(c.entries) :
           Waiting(e, q) \/ (sched'[e.sched] # Gone /\ sched'[e.sched].next = e.before.next)
    BY <1>2, <1>4, <1>6
  <2> QED
    BY <1>6, <1>10, <1>20, <1>23, <2>1, <2>2 DEF UndoHolds, Live
<1> QED
  BY <1>16, <1>18, <1>19, <1>21, <1>22, <1>24 DEF Firm

----------------------------------------------------------------------------
(* A schedule put back.                                                    *)

(* What was accounted for still is.                                        *)
LEMMA PutStays ==
    ASSUME UNCHANGED <<rows, skipped, cut>>
    PROVE  \A x, o : Accounted(x, o) => Accounted(x, o)'
BY DEF Accounted, Live

(* The batch put its schedules where they were.                            *)
LEMMA PutOfEntry ==
    ASSUME NEW c \in Cmd, ~ Single(c), Proper(c.entries), NEW s, NEW st, <<s, st>> \in Puts(c)
    PROVE  /\ \E e \in Range(c.entries) : e.sched = s /\ e.before = st
           /\ \A e \in Range(c.entries) : e.sched = s => e.before = st
<1>1. PICK es \in Seq(Entry) : es = c.entries
  BY EntriesAre
<1>2. PICK e \in Range(es) : <<s, st>> = <<e.sched, e.before>>
  BY <1>1 DEF Puts
<1>3. e.sched = s /\ e.before = st
  BY <1>2
<1>4. PICK i \in DOMAIN es : es[i] = e
  BY <1>2 DEF Range
<1>5. ASSUME NEW f \in Range(es), f.sched = s
      PROVE  f.before = st
  <2>1. PICK j \in DOMAIN es : es[j] = f
    BY <1>5 DEF Range
  <2>2. i = j
    BY <1>1, <1>3, <1>4, <1>5, <2>1 DEF Proper
  <2> QED
    BY <1>3, <1>4, <2>1, <2>2
<1> QED
  BY <1>1, <1>2, <1>3, <1>5

(* What the batch posted was not there before it.                          *)
LEMMA PostedByEntry ==
    ASSUME NEW c \in Cmd, ~ Single(c), NEW x, NEW o, Posting(x, o) \in PostedBy(c)
    PROVE  \E e \in Range(c.entries) : e.sched = x /\ o >= e.before.next
<1>1. c.op = "auto" /\ \A e \in Range(c.entries) : e \in Entry
  BY EntriesAre
<1>2. PICK e \in Range(c.entries) :
        Posting(x, o) \in {Posting(e.sched, e.before.next - 1 + i) : i \in DOMAIN e.rows}
  BY <1>1 DEF PostedBy
<1>3. PICK i \in DOMAIN e.rows : Posting(x, o) = Posting(e.sched, e.before.next - 1 + i)
  BY <1>2
<1>4. x = e.sched /\ o = e.before.next - 1 + i
  BY <1>3, PostingIs
<1>5. e.before.next \in Nat /\ DOMAIN e.rows = 1..Len(e.rows)
  BY <1>1, MadeIs
<1>6. i \in Nat /\ i >= 1
  BY <1>5
<1> QED
  BY <1>4, <1>5, <1>6

LEMMA FirmPutGoesOn ==
    ASSUME Inv, Firm, UndoWrite, Head(lane.todo).do # "drop", Rest(lane.todo) # <<>>
    PROVE  Firm'
<1>1. PICK todo, c, s, st : /\ todo = lane.todo /\ c = lane.cmd
                            /\ s = Head(todo).sched /\ st = Head(todo).st
  OBVIOUS
<1>2. Returns(c, s, st)
  BY <1>1, ReturnsIs
<1>3. PICK q : q = Rest(todo)
  OBVIOUS
<1>4. /\ todo \in Seq(Task) /\ todo # <<>> /\ lane' \in LaneRecord /\ lane'.how = "undo"
      /\ lane'.cmd = c /\ lane'.todo = q /\ q # <<>>
      /\ UNCHANGED <<undoStack, redoStack, batch, skipped, cut>>
  BY <1>1, <1>3, UndoneIs DEF Inv
<1>5. /\ Len(todo) \in Nat \ {0} /\ DOMAIN todo = 1..Len(todo) /\ Head(todo) = todo[1]
      /\ DOMAIN q = 1..(Len(todo) - 1) /\ \A i \in DOMAIN q : q[i] = todo[i + 1]
      /\ Len(todo) # 1
  BY <1>1, <1>3, <1>4, RestIs
<1>6. /\ c \in Cmd /\ batch = Done /\ lane # Idle /\ lane.how = "undo" /\ Undoing
      /\ rows' = rows /\ st \in Kept /\ s \in Schedule /\ <<s, st>> \in Puts(c)
      /\ \A j \in DOMAIN redoStack : Single(redoStack[j])
  BY <1>2 DEF Returns, Undoing
<1>7. UndoFits
  BY <1>6 DEF Inv, LaneFits
<1>8. ~ Single(c) /\ c.op = "auto"
  <2>1. 1 \in DOMAIN todo /\ todo[1].do # "drop" /\ 1 # Len(todo)
    BY <1>1, <1>5
  <2> QED
    BY <1>1, <1>7, <2>1 DEF UndoFits, Single
<1>9. DOMAIN undoStack = {1} /\ undoStack[1] = c /\ Len(undoStack) = 1
  <2>1. /\ Len(undoStack) \in Nat \ {0} /\ DOMAIN undoStack = 1..Len(undoStack)
        /\ undoStack[Len(undoStack)] = c
    BY <1>2 DEF Returns
  <2>2. Len(undoStack) = 1
    BY <1>8, <2>1 DEF Inv, Core, AutoFirst
  <2> QED
    BY <2>1, <2>2
<1>10. /\ \A p \in Makes(c) : rows[p[1]] = p[2] \/ ~ Live(p[1])
       /\ DropsFit(c, todo)
       /\ \A e \in Range(c.entries) :
            Waiting(e, todo) \/ (sched[e.sched] # Gone /\ sched[e.sched].next = e.before.next)
  BY <1>1, <1>6, <1>8 DEF Firm, UndoHolds
<1>11. \A i \in DOMAIN todo : todo[i].do # "drop" /\ todo[i].do # "again"
  <2> SUFFICES ASSUME NEW i \in DOMAIN todo, todo[i].do = "drop" PROVE FALSE
    BY <1>8, <1>10 DEF DropsFit
  <2>1. 1 < i /\ 1 \in DOMAIN todo /\ todo[1].do # "drop"
    BY <1>1, <1>5
  <2> QED
    BY <1>1, <1>7, <2>1 DEF UndoFits
<1>12. \A i \in DOMAIN q : i \in Nat /\ i + 1 \in DOMAIN todo
  BY <1>5
<1>13. /\ Proper(c.entries) /\ \A e \in Range(c.entries) : e \in Entry /\ Low(e)
  BY <1>6, <1>8, <1>9, EntriesAre DEF Firm, AllProper, AutoLow
<1>14. /\ \E e \in Range(c.entries) : e.sched = s /\ e.before = st
       /\ \A e \in Range(c.entries) : e.sched = s => e.before = st
  BY <1>6, <1>8, <1>13, PutOfEntry
<1>15. /\ sched'[s] = st /\ st # Gone /\ st.next \in Nat
       /\ \A x \in Schedule : x # s => sched'[x] = sched[x]
  BY <1>2, <1>6, ReturnedBehind, AbsentAssumption DEF Kept
<1>16. sched[s] # Gone /\ sched[s].next \in Nat /\ st.next <= sched[s].next
  <2>1. Head(todo).do = "put"
    <3>1. Head(todo) \in Task /\ Head(todo).do \notin {"drop", "again"}
      BY <1>4, <1>5, <1>11, RestIs
    <3> QED
      BY <3>1 DEF Task
  <2>2. sched[s] # Gone
    BY <1>1, <2>1 DEF UndoWrite, Possible
  <2>3. sched[s] \in Kept
    BY <1>6, <2>2 DEF Inv, Types
  <2> QED
    BY <1>13, <1>14, <2>2, <2>3 DEF Low, Kept
<1>17. Undoing' /\ HalfUndone' = PostedBy(c) /\ HalfUndone = PostedBy(c)
  <2>1. lane' # Idle
    BY <1>4 DEF Idle
  <2>2. Undoing'
    BY <1>4, <2>1 DEF Undoing
  <2> QED
    BY <1>1, <1>4, <1>6, <2>2 DEF HalfUndone
<1>18. Apart' /\ AllProper'
  BY <1>4 DEF Firm, Apart, AllProper
<1>19. Stored'
  BY <1>4, <1>6, <1>9, <1>17 DEF Firm, Stored, Intact, Spent, Live
<1>20. AutoLow'
  <2>1. ASSUME NEW e \in Range(c.entries)
        PROVE  sched'[e.sched] # Gone => e.before.next <= sched'[e.sched].next
    <3>1. e.sched \in Schedule /\ e.before.next \in Nat
      BY <1>13, MadeIs
    <3>2. CASE e.sched = s
      BY <1>14, <1>15, <3>1, <3>2
    <3>3. CASE e.sched # s
      BY <1>13, <1>15, <3>1, <3>3 DEF Low
    <3> QED
      BY <3>2, <3>3
  <2> QED
    BY <1>4, <1>6, <1>9, <2>1 DEF AutoLow, Low
<1>21. DeletedKept'
  BY <1>4, <1>8, <1>9 DEF DeletedKept
<1>22. NothingMissed'
  <2> SUFFICES ASSUME NEW x \in Schedule, sched'[x] # Gone,
                      NEW o \in Template[x].next .. sched'[x].next - 1
               PROVE  Accounted(x, o)' \/ Posting(x, o) \in PostedBy(c)
    BY <1>17 DEF NothingMissed, Accounted
  <2>1. Template[x].next \in Nat
    BY PostingAssumption DEF Kept
  <2>2. sched[x] # Gone /\ o \in Template[x].next .. sched[x].next - 1
    <3>1. CASE x = s
      BY <1>15, <1>16, <2>1, <3>1
    <3>2. CASE x # s
      BY <1>15, <3>2
    <3> QED
      BY <3>1, <3>2
  <2>3. Accounted(x, o) \/ Posting(x, o) \in PostedBy(c)
    BY <1>17, <2>2 DEF Firm, NothingMissed, Accounted
  <2>4. Accounted(x, o) => Accounted(x, o)'
    BY <1>4, <1>6, PutStays
  <2> QED
    BY <2>3, <2>4
<1>23. BatchHolds' /\ RunHolds'
  BY <1>4, <1>6 DEF BatchHolds, Running, RunHolds
<1>24. \A i \in DOMAIN q : q[i].do # "drop" /\ q[i].do # "again"
  BY <1>5, <1>11, <1>12
<1>25. ASSUME NEW e \in Range(c.entries)
       PROVE  Waiting(e, q) \/ (sched'[e.sched] # Gone /\ sched'[e.sched].next = e.before.next)
  <2>1. CASE e.sched = s
    BY <1>14, <1>15, <2>1
  <2>2. CASE e.sched # s
    <3>1. e.sched \in Schedule
      BY <1>13, MadeIs
    <3>2. CASE Waiting(e, todo)
      <4>1. PICK i \in DOMAIN todo :
              todo[i].do # "drop" /\ todo[i].sched = e.sched /\ todo[i].st = e.before
        BY <3>2 DEF Waiting
      <4>2. i # 1
        BY <1>1, <1>5, <2>2, <4>1
      <4>3. PICK k : k = i - 1 /\ k \in DOMAIN q /\ k + 1 = i
        BY <1>5, <4>2
      <4>4. q[k] = todo[i]
        BY <1>5, <4>3
      <4> QED
        BY <4>1, <4>3, <4>4 DEF Waiting
    <3> QED
      BY <1>10, <1>15, <2>2, <3>1, <3>2
  <2> QED
    BY <2>1, <2>2
<1>26. UndoHolds'
  <2>1. Begun'
    BY <1>4, <1>8, <1>24 DEF Begun
  <2>2. DropsFit(c, q)
    BY <1>24 DEF DropsFit
  <2>3. \A p \in Makes(c) : rows'[p[1]] = p[2] \/ rows'[p[1]] = NoRow
    BY <1>6, <1>10 DEF Live
  <2> QED
    BY <1>4, <1>17, <1>25, <2>1, <2>2, <2>3 DEF UndoHolds, Live
<1> QED
  BY <1>18, <1>19, <1>20, <1>21, <1>22, <1>23, <1>26 DEF Firm

(* The last write of an undo leaves each schedule where the command found  *)
(* it: what it posted lies ahead.                                          *)
LEMMA EndSettles ==
    ASSUME Inv, Firm, UndoWrite, Head(lane.todo).do # "drop", Rest(lane.todo) = <<>>
    PROVE  Settled'
<1>1. PICK todo, c, s, st : /\ todo = lane.todo /\ c = lane.cmd
                            /\ s = Head(todo).sched /\ st = Head(todo).st
  OBVIOUS
<1>2. Returns(c, s, st)
  BY <1>1, ReturnsIs
<1>3. /\ todo \in Seq(Task) /\ todo # <<>>
      /\ UNCHANGED <<skipped, cut>>
  BY <1>1, UndoneIs DEF Inv
<1>4. Len(todo) = 1 /\ DOMAIN todo = {1} /\ Head(todo) = todo[1]
  <2>1. /\ Len(todo) \in Nat \ {0} /\ DOMAIN todo = 1..Len(todo) /\ Head(todo) = todo[1]
        /\ Len(todo) = 1
    BY <1>1, <1>3, RestIs
  <2> QED
    BY <2>1
<1>5. /\ c \in Cmd /\ Undoing /\ rows' = rows /\ st \in Kept /\ s \in Schedule
      /\ <<s, st>> \in Puts(c) /\ batch = Done /\ lane # Idle
  BY <1>2 DEF Returns, Undoing
<1>6. PICK n \in Nat \ {0} : /\ n = Len(undoStack) /\ n \in DOMAIN undoStack
                             /\ DOMAIN undoStack = 1..n /\ undoStack[n] = c
  <2>1. /\ Len(undoStack) \in Nat \ {0} /\ DOMAIN undoStack = 1..Len(undoStack)
        /\ undoStack[Len(undoStack)] = c
    BY <1>2 DEF Returns
  <2>2. PICK n \in Nat \ {0} : n = Len(undoStack)
    BY <2>1
  <2>3. n \in 1..n
    OBVIOUS
  <2> QED
    BY <2>1, <2>2, <2>3
<1>7. /\ sched'[s] = st /\ st # Gone /\ st.next \in Nat
      /\ \A x \in Schedule : x # s => sched'[x] = sched[x]
  BY <1>2, <1>5, ReturnedBehind, AbsentAssumption DEF Kept
<1>8. Exact(c) /\ HalfUndone = PostedBy(c)
  BY <1>1, <1>5 DEF Inv, LaneFits, HalfUndone
<1>9. /\ Single(c) => s = c.sched /\ st = c.before
      /\ ~ Single(c) => Proper(c.entries) /\ \A e \in Range(c.entries) : e \in Entry /\ Low(e)
  BY <1>5, <1>6, EntriesAre DEF Puts, Firm, AllProper, AutoLow
<1>10. \A k \in DOMAIN undoStack : ~(n < k)
  BY <1>6
<1>11. ASSUME NEW x \in Schedule, sched[x] # Gone,
              NEW o \in Template[x].next .. sched[x].next - 1
       PROVE  Accounted(x, o) \/ Posting(x, o) \in PostedBy(c)
  BY <1>8, <1>11 DEF Firm, NothingMissed, Accounted
<1> SUFFICES ASSUME NEW x \in Schedule, sched'[x] # Gone,
                    NEW o \in Template[x].next .. sched'[x].next - 1
             PROVE  Accounted(x, o)
  <2>1. \A x, o : Accounted(x, o) => Accounted(x, o)'
    BY <1>3, <1>5, PutStays
  <2> QED
    BY <2>1 DEF Settled, Through
<1>12. Template[x].next \in Nat
  BY PostingAssumption DEF Kept
<1>13. CASE x # s
  <2>1. sched[x] # Gone /\ sched[x].next \in Nat /\ o \in Template[x].next .. sched[x].next - 1
    BY <1>7, <1>13 DEF Inv, Types, Kept
  <2>2. o < sched[x].next
    BY <1>12, <2>1
  <2>3. Posting(x, o) \notin PostedBy(c)
    <3> SUFFICES ASSUME Posting(x, o) \in PostedBy(c) PROVE FALSE
      OBVIOUS
    <3>1. CASE Single(c)
      <4>1. Posting(x, o) = Posting(c.sched, c.occ)
        BY <1>5, <3>1, CmdKinds DEF PostedBy, Single
      <4>2. x = c.sched
        BY <4>1, PostingIs
      <4> QED
        BY <1>9, <1>13, <3>1, <4>2
    <3>2. CASE ~ Single(c)
      <4>1. PICK e \in Range(c.entries) : e.sched = x /\ o >= e.before.next
        BY <1>5, <3>2, PostedByEntry
      <4>2. ~ Waiting(e, todo)
        BY <1>1, <1>4, <1>13, <4>1 DEF Waiting
      <4>3. sched[x].next = e.before.next
        BY <1>1, <1>5, <3>2, <4>1, <4>2 DEF Firm, UndoHolds
      <4> QED
        BY <1>12, <2>1, <2>2, <4>1, <4>3
    <3> QED
      BY <3>1, <3>2
  <2> QED
    BY <1>11, <2>1, <2>3
<1>14. CASE x = s /\ Single(c) /\ c.op = "delete"
  <2>1. Through(s, st.next)
    BY <1>6, <1>9, <1>10, <1>14 DEF Firm, DeletedKept
  <2> QED
    BY <1>7, <1>14, <2>1 DEF Through
<1>15. CASE x = s /\ Single(c) /\ c.op # "delete"
  <2>1. Left(c, sched[s])
    BY <1>6, <1>9, <1>10, <1>15 DEF Inv, Core, UndoTop
  <2>2. sched[s] # Gone /\ st.next <= sched[s].next /\ sched[s].next \in Nat
    <3>1. sched[s] # Gone
      BY <1>15, <2>1 DEF Left
    <3>2. sched[s].next = st.next + (IF c.op \in {"post", "skip"} THEN 1 ELSE 0)
      BY <1>9, <1>15, <2>1 DEF Left
    <3> QED
      BY <1>7, <3>1, <3>2
  <2>3. o \in Template[x].next .. sched[x].next - 1 /\ o < st.next
    BY <1>7, <1>12, <1>15, <2>2
  <2>4. Posting(x, o) \notin PostedBy(c)
    <3> SUFFICES ASSUME Posting(x, o) \in PostedBy(c) PROVE FALSE
      OBVIOUS
    <3>1. c.op = "post" /\ Posting(x, o) = Posting(c.sched, c.occ)
      BY <1>5, <1>15, CmdKinds DEF PostedBy, Single
    <3>2. o = c.occ
      BY <3>1, PostingIs
    <3>3. o = st.next
      BY <1>8, <1>9, <1>15, <3>1, <3>2 DEF Exact
    <3> QED
      BY <1>7, <2>3, <3>3
  <2> QED
    BY <1>11, <1>15, <2>2, <2>3, <2>4
<1>16. CASE x = s /\ ~ Single(c)
  <2>1. /\ \E e \in Range(c.entries) : e.sched = s /\ e.before = st
        /\ \A e \in Range(c.entries) : e.sched = s => e.before = st
    BY <1>5, <1>9, <1>16, PutOfEntry
  <2>2. sched[s] # Gone
    BY <1>6, <1>10, <1>16, <2>1 DEF Inv, Core, AutoAlive
  <2>3. st.next <= sched[s].next /\ sched[s].next \in Nat
    <3>1. st.next <= sched[s].next
      BY <1>9, <1>16, <2>1, <2>2 DEF Low
    <3> QED
      BY <1>5, <2>2, <3>1 DEF Inv, Types, Kept
  <2>4. o \in Template[x].next .. sched[x].next - 1 /\ o < st.next
    BY <1>7, <1>12, <1>16, <2>3
  <2>5. Posting(x, o) \notin PostedBy(c)
    <3> SUFFICES ASSUME Posting(x, o) \in PostedBy(c) PROVE FALSE
      OBVIOUS
    <3>1. PICK e \in Range(c.entries) : e.sched = x /\ o >= e.before.next
      BY <1>5, <1>16, PostedByEntry
    <3>2. e.before = st
      BY <1>16, <2>1, <3>1
    <3> QED
      BY <1>7, <1>12, <2>4, <3>1, <3>2
  <2> QED
    BY <1>11, <1>16, <2>2, <2>4, <2>5
<1> QED
  BY <1>13, <1>14, <1>15, <1>16

(* The command goes over to the redo stack.                                *)
LEMMA FirmPutEnds ==
    ASSUME Inv, Firm, UndoWrite, Head(lane.todo).do # "drop", Rest(lane.todo) = <<>>
    PROVE  Firm'
<1>1. PICK c, s, st : c = lane.cmd /\ s = Head(lane.todo).sched /\ st = Head(lane.todo).st
  OBVIOUS
<1>2. Returns(c, s, st)
  BY <1>1, ReturnsIs
<1>3. /\ lane' = Idle /\ UNCHANGED <<batch, skipped, cut>>
      /\ undoStack' = Front(undoStack) /\ redoStack' = Append(redoStack, c)
  BY <1>1, UndoneIs DEF Inv
<1>4. /\ rows' = rows /\ st \in Kept /\ s \in Schedule /\ c \in Cmd
      /\ <<s, st>> \in Puts(c) /\ undoStack \in Seq(Cmd) /\ undoStack # <<>>
      /\ batch = Done /\ \A r \in RowsOf(c) : ~ Live(r)
      /\ \A j \in DOMAIN redoStack : Single(redoStack[j])
  BY <1>2 DEF Returns
<1>5. PICK n \in Nat \ {0} : n = Len(undoStack)
  BY <1>4, Popped
<1>6. /\ n \in DOMAIN undoStack /\ DOMAIN undoStack = 1..n /\ undoStack[n] = c
      /\ DOMAIN undoStack' = 1..(n - 1)
      /\ \A i \in DOMAIN undoStack' : /\ undoStack'[i] = undoStack[i] /\ i < n /\ i \in Nat
                                      /\ i \in DOMAIN undoStack /\ undoStack[i] \in Cmd
  <2>1. PICK stack \in Seq(Cmd) : stack = undoStack
    BY <1>4
  <2>2. stack # <<>>
    BY <1>4, <2>1
  <2>3. /\ DOMAIN Front(stack) = DOMAIN stack \ {Len(stack)}
        /\ \A i \in DOMAIN Front(stack) : Front(stack)[i] = stack[i]
        /\ DOMAIN stack = 1..Len(stack)
    BY <2>2, Popped
  <2>4. undoStack[n] = c
    BY <1>2, <1>5 DEF Returns
  <2>5. DOMAIN undoStack = 1..n /\ DOMAIN undoStack' = 1..n \ {n}
    BY <1>3, <1>5, <2>1, <2>3
  <2>6. \A i \in 1..n : undoStack[i] \in Cmd
    BY <1>4, <2>5
  <2>7. 1..n \ {n} = 1..(n - 1) /\ n \in 1..n
    OBVIOUS
  <2>8. \A i \in 1..(n - 1) : i < n /\ i \in Nat /\ i \in 1..n
    OBVIOUS
  <2>9. \A i \in DOMAIN undoStack' : undoStack'[i] = undoStack[i]
    BY <1>3, <2>1, <2>3
  <2> QED
    BY <2>4, <2>5, <2>6, <2>7, <2>8, <2>9
<1>7. PICK m \in Nat : m = Len(redoStack)
  BY DEF Inv, Types
<1>8. /\ DOMAIN redoStack = 1..m /\ DOMAIN redoStack' = 1..(m + 1) /\ redoStack'[m + 1] = c
      /\ \A j \in DOMAIN redoStack : /\ redoStack'[j] = redoStack[j] /\ j # m + 1
                                     /\ redoStack[j] \in Cmd
      /\ DOMAIN redoStack' = DOMAIN redoStack \cup {m + 1}
  <2>1. redoStack \in Seq(Cmd)
    BY DEF Inv, Types
  <2> QED
    BY <1>3, <1>4, <1>7, <2>1, Pushed
<1>9. /\ sched'[s] = st /\ st # Gone /\ st.next \in Nat
      /\ \A x \in Schedule : x # s => sched'[x] = sched[x]
  BY <1>2, <1>4, ReturnedBehind, AbsentAssumption DEF Kept
<1>10. Single(c) => s = c.sched /\ st = c.before
  BY <1>4 DEF Puts
<1>11. DOMAIN undoStack' # {} => Single(c)
  <2>1. ~ Single(c) => n = 1
    BY <1>6 DEF Inv, Core, AutoFirst
  <2> QED
    BY <1>6, <2>1
<1>12. NothingMissed'
  <2>1. Settled' => NothingMissed'
    BY SettledIs, PTL
  <2> QED
    BY <2>1, EndSettles
<1>13. Apart'
  <2>1. \A i, j \in DOMAIN undoStack' : i # j =>
          RowsOf(undoStack'[i]) \cap RowsOf(undoStack'[j]) = {}
    BY <1>6 DEF Firm, Apart
  <2>2. \A i, j \in DOMAIN redoStack' : i # j =>
          RowsOf(redoStack'[i]) \cap RowsOf(redoStack'[j]) = {}
    <3> SUFFICES ASSUME NEW i \in DOMAIN redoStack', NEW j \in DOMAIN redoStack', i # j
                 PROVE  RowsOf(redoStack'[i]) \cap RowsOf(redoStack'[j]) = {}
      OBVIOUS
    <3>1. CASE i \in DOMAIN redoStack /\ j \in DOMAIN redoStack
      BY <1>8, <3>1 DEF Firm, Apart
    <3>2. CASE i = m + 1 /\ j \in DOMAIN redoStack
      <4>1. RowsOf(undoStack[n]) \cap RowsOf(redoStack[j]) = {}
        BY <1>6, <3>2 DEF Firm, Apart
      <4> QED
        BY <1>6, <1>8, <3>2, <4>1
    <3>3. CASE i \in DOMAIN redoStack /\ j = m + 1
      <4>1. RowsOf(undoStack[n]) \cap RowsOf(redoStack[i]) = {}
        BY <1>6, <3>3 DEF Firm, Apart
      <4> QED
        BY <1>6, <1>8, <3>3, <4>1
    <3> QED
      BY <1>8, <3>1, <3>2, <3>3
  <2>3. \A i \in DOMAIN undoStack', j \in DOMAIN redoStack' :
          RowsOf(undoStack'[i]) \cap RowsOf(redoStack'[j]) = {}
    <3> SUFFICES ASSUME NEW i \in DOMAIN undoStack', NEW j \in DOMAIN redoStack'
                 PROVE  RowsOf(undoStack'[i]) \cap RowsOf(redoStack'[j]) = {}
      OBVIOUS
    <3>1. CASE j \in DOMAIN redoStack
      BY <1>6, <1>8, <3>1 DEF Firm, Apart
    <3>2. CASE j = m + 1
      <4>1. RowsOf(undoStack[i]) \cap RowsOf(undoStack[n]) = {}
        BY <1>6 DEF Firm, Apart
      <4> QED
        BY <1>6, <1>8, <3>2, <4>1
    <3> QED
      BY <1>8, <3>1, <3>2
  <2> QED
    BY <2>1, <2>2, <2>3 DEF Apart
<1>14. AllProper'
  <2>1. \A i \in DOMAIN undoStack' : ~ Single(undoStack'[i]) => Proper(undoStack'[i].entries)
    BY <1>6 DEF Firm, AllProper
  <2>2. ~ Single(c) => Proper(c.entries)
    BY <1>6 DEF Firm, AllProper
  <2>3. \A j \in DOMAIN redoStack' : ~ Single(redoStack'[j]) => Proper(redoStack'[j].entries)
    BY <1>4, <1>8, <2>2
  <2> QED
    BY <2>1, <2>3 DEF AllProper
<1>15. Stored'
  <2>1. ASSUME NEW i \in DOMAIN undoStack'
        PROVE  \/ \A p \in Makes(undoStack'[i]) : rows'[p[1]] = p[2]
               \/ /\ ~ Single(undoStack'[i])
                  /\ \A p \in Makes(undoStack'[i]) : rows'[p[1]] = NoRow
    BY <1>4, <1>5, <1>6 DEF Firm, Stored, Intact, Spent, Live
  <2>2. ASSUME NEW j \in DOMAIN redoStack'
        PROVE  \A p \in Makes(redoStack'[j]) : rows'[p[1]] = NoRow
    <3>1. CASE j \in DOMAIN redoStack
      BY <1>4, <1>8, <3>1 DEF Firm, Stored, Spent, Live
    <3>2. CASE j = m + 1
      <4>1. Spent(c)
        BY <1>4, SpentIs
      <4> QED
        BY <1>4, <1>8, <3>2, <4>1 DEF Spent, Live
    <3> QED
      BY <1>8, <3>1, <3>2
  <2> QED
    BY <2>1, <2>2 DEF Stored, Intact, Spent, Live
<1>16. ASSUME NEW d \in Cmd, ~ Single(d), NEW e \in Range(d.entries), Low(e),
              e.sched = s => e.before.next <= st.next
       PROVE  sched'[e.sched] # Gone => e.before.next <= sched'[e.sched].next
  <2>1. e.sched \in Schedule
    BY <1>16, EntriesAre, MadeIs
  <2> QED
    BY <1>9, <1>16, <2>1 DEF Low
<1>17. AutoLow'
  <2>1. ASSUME NEW i \in DOMAIN undoStack', ~ Single(undoStack'[i]),
               NEW e \in Range(undoStack'[i].entries)
        PROVE  /\ sched'[e.sched] # Gone => e.before.next <= sched'[e.sched].next
               /\ \A k \in DOMAIN undoStack' : i < k /\ undoStack'[k].sched = e.sched
                    => e.before.next <= undoStack'[k].before.next
    <3>1. PICK d \in Cmd : /\ d = undoStack'[i] /\ d = undoStack[i] /\ i \in DOMAIN undoStack
                           /\ i < n
      BY <1>6
    <3>2. /\ Low(e) /\ \A k \in DOMAIN undoStack : i < k /\ undoStack[k].sched = e.sched
                         => e.before.next <= undoStack[k].before.next
      BY <2>1, <3>1 DEF Firm, AutoLow
    <3>3. Single(c)
      BY <1>11
    <3>4. e.sched = s => e.before.next <= st.next
      BY <1>6, <1>10, <3>1, <3>2, <3>3
    <3>5. sched'[e.sched] # Gone => e.before.next <= sched'[e.sched].next
      BY <1>16, <2>1, <3>1, <3>2, <3>4
    <3>6. \A k \in DOMAIN undoStack' : i < k /\ undoStack'[k].sched = e.sched
            => e.before.next <= undoStack'[k].before.next
      BY <1>6, <3>2
    <3> QED
      BY <3>5, <3>6
  <2>2. ASSUME ~ Single(c), NEW e \in Range(c.entries)
        PROVE  sched'[e.sched] # Gone => e.before.next <= sched'[e.sched].next
    <3>1. Proper(c.entries) /\ Low(e)
      BY <1>6, <2>2 DEF Firm, AllProper, AutoLow
    <3>2. e.sched = s => e.before = st
      BY <1>4, <2>2, <3>1, PutOfEntry
    <3>3. e.sched = s => e.before.next <= st.next
      BY <1>9, <3>2
    <3> QED
      BY <1>4, <1>16, <2>2, <3>1, <3>3
  <2>3. \A j \in DOMAIN redoStack' : ~ Single(redoStack'[j]) => redoStack'[j] = c
    BY <1>4, <1>8
  <2>4. ASSUME NEW j \in DOMAIN redoStack', ~ Single(redoStack'[j]),
               NEW e \in Range(redoStack'[j].entries)
        PROVE  sched'[e.sched] # Gone => e.before.next <= sched'[e.sched].next
    BY <2>2, <2>3, <2>4
  <2> QED
    BY <2>1, <2>4 DEF AutoLow, Low
<1>18. DeletedKept'
  <2> SUFFICES ASSUME NEW i \in DOMAIN undoStack', undoStack'[i].op = "delete",
                      \A k \in DOMAIN undoStack' : i < k
                        => undoStack'[k].sched # undoStack'[i].sched,
                      NEW x, x = undoStack'[i].sched,
                      NEW o \in Template[x].next .. undoStack'[i].before.next - 1
               PROVE  Accounted(x, o)'
    BY DEF DeletedKept, Through, Accounted, Live
  <2>1. PICK d \in Cmd : /\ d = undoStack'[i] /\ d = undoStack[i] /\ i \in DOMAIN undoStack
                         /\ i < n /\ Single(d)
    BY <1>6 DEF Single
  <2>2. \A k \in DOMAIN undoStack : i < k /\ k < n => undoStack[k].sched # x
    <3>1. \A k \in DOMAIN undoStack : k < n => k \in DOMAIN undoStack'
      BY <1>6
    <3> QED
      BY <1>6, <3>1
  <2>3. Single(c)
    BY <1>11
  <2>4. c.sched # x
    <3> SUFFICES ASSUME c.sched = x PROVE FALSE
      OBVIOUS
    <3>1. Left(undoStack[i], undoStack[n].before)
      BY <1>6, <2>1, <2>2, <2>3 DEF Inv, Core, UndoChain
    <3>2. c.before = Gone
      BY <1>6, <2>1, <3>1 DEF Left
    <3> QED
      BY <1>9, <1>10, <2>3, <3>2
  <2>5. \A k \in DOMAIN undoStack : i < k => undoStack[k].sched # x
    <3>1. \A k \in DOMAIN undoStack : k < n \/ k = n
      BY <1>6
    <3> QED
      BY <1>6, <2>2, <2>4, <3>1
  <2>6. Through(x, undoStack[i].before.next)
    BY <2>1, <2>5 DEF Firm, DeletedKept
  <2>7. Accounted(x, o)
    BY <2>1, <2>6 DEF Through
  <2> QED
    BY <1>3, <1>4, <2>7, PutStays
<1>19. BatchHolds' /\ RunHolds' /\ UndoHolds'
  BY <1>3, <1>4 DEF BatchHolds, Running, RunHolds, UndoHolds, Undoing
<1> QED
  BY <1>12, <1>13, <1>14, <1>15, <1>17, <1>18, <1>19 DEF Firm

(* An undo fails before its first write or not at all.                     *)
LEMMA FirmUndoFail == ASSUME Inv, Firm, UndoFail PROVE Firm'
<1>1. PICK todo, w, c : todo = lane.todo /\ w = Head(todo) /\ c = lane.cmd
  OBVIOUS
<1>2. /\ Undoing /\ lane # Idle /\ lane.how = "undo" /\ ~ Possible(w) /\ lane' = Idle
      /\ UNCHANGED <<sched, rows, undoStack, redoStack, batch, skipped, cut>>
  BY <1>1 DEF UndoFail, Undoing
<1>3. /\ todo \in Seq(Task) /\ todo # <<>> /\ c \in Cmd
  BY <1>1, <1>2, LaneIs DEF Inv
<1>4. /\ w = todo[1] /\ w \in Task /\ 1 \in DOMAIN todo
  <2>1. w = todo[1] /\ w \in Task /\ Len(todo) \in Nat \ {0} /\ DOMAIN todo = 1..Len(todo)
    BY <1>1, <1>3, RestIs
  <2> QED
    BY <2>1
<1>5. batch = Done /\ UndoFits
  BY <1>2 DEF Inv, LaneFits
<1>6. /\ DropsFit(c, todo) /\ (Untouched \/ Begun)
  BY <1>1, <1>2 DEF Firm, UndoHolds
<1>7. PICK n \in Nat \ {0} : /\ n = Len(undoStack) /\ n \in DOMAIN undoStack
                             /\ DOMAIN undoStack = 1..n /\ undoStack[n] = c
  <2>1. undoStack \in Seq(Cmd) /\ undoStack # <<>> /\ c = Last(undoStack)
    BY <1>1, <1>5 DEF Inv, Types, UndoFits
  <2> QED
    BY <2>1, Popped
<1>8. Untouched
  <2> SUFFICES ASSUME Begun PROVE FALSE
    BY <1>6
  <2>1. c.op \in {"post", "auto"}
    BY <1>1 DEF Begun
  <2>2. CASE w.do = "drop"
    <3>1. PICK rs \in Seq(RowId) : rs = w.rows
      BY <1>4, <2>2, TaskKinds
    <3>2. rs # <<>>
      BY <1>4, <1>6, <2>2, <3>1 DEF DropsFit
    <3>3. Len(rs) \in DOMAIN rs /\ Last(rs) = rs[Len(rs)]
      BY <3>2, Popped
    <3>4. Live(Last(w.rows))
      BY <1>1, <1>4, <2>2, <3>1, <3>3 DEF Begun
    <3> QED
      BY <1>2, <2>2, <3>4 DEF Possible
  <2>3. CASE w.do # "drop"
    <3>1. w.do = "put" /\ <<w.sched, w.st>> \in Puts(c)
      <4>1. w.do # "again"
        BY <1>4, <1>6, <2>1 DEF DropsFit
      <4>2. <<w.sched, w.st>> \in Puts(c)
        BY <1>1, <1>4, <1>5, <2>3 DEF UndoFits
      <4> QED
        BY <1>4, <2>3, <4>1, <4>2 DEF Task
    <3>2. \A k \in DOMAIN undoStack : ~(n < k)
      BY <1>7
    <3>3. CASE Single(c)
      <4>1. w.sched = c.sched
        BY <3>1, <3>3 DEF Puts
      <4>2. Left(c, sched[c.sched])
        BY <1>7, <3>2, <3>3 DEF Inv, Core, UndoTop
      <4>3. sched[c.sched] # Gone
        BY <2>1, <4>2 DEF Left
      <4> QED
        BY <1>2, <3>1, <4>1, <4>3 DEF Possible
    <3>4. CASE ~ Single(c)
      <4>1. PICK e \in Range(c.entries) : w.sched = e.sched
        BY <3>1, <3>4 DEF Puts
      <4>2. sched[e.sched] # Gone
        BY <1>7, <3>2, <3>4 DEF Inv, Core, AutoAlive
      <4> QED
        BY <1>2, <3>1, <4>1, <4>2 DEF Possible
    <3> QED
      BY <3>3, <3>4
  <2> QED
    BY <2>2, <2>3
<1>9. /\ Settled /\ (Intact(c) \/ (~ Single(c) /\ Spent(c)))
  BY <1>1, <1>8 DEF Untouched
<1>10. Apart' /\ AllProper' /\ AutoLow' /\ DeletedKept'
  BY <1>2, StoreStays
<1>11. Stored'
  <2>1. \A i \in DOMAIN undoStack :
          Intact(undoStack[i]) \/ (~ Single(undoStack[i]) /\ Spent(undoStack[i]))
    <3> SUFFICES ASSUME NEW i \in DOMAIN undoStack
                 PROVE  Intact(undoStack[i]) \/ (~ Single(undoStack[i]) /\ Spent(undoStack[i]))
      OBVIOUS
    <3>1. CASE i = n
      BY <1>7, <1>9, <3>1
    <3>2. CASE i # n
      <4>1. i < Len(undoStack)
        BY <1>7, <3>2
      <4> QED
        BY <4>1 DEF Firm, Stored
    <3> QED
      BY <3>1, <3>2
  <2>2. \A j \in DOMAIN redoStack : Spent(redoStack[j])
    BY DEF Firm, Stored
  <2> QED
    BY <1>2, <2>1, <2>2 DEF Stored, Intact, Spent, Live
<1>12. NothingMissed'
  <2>1. Settled' => NothingMissed'
    BY SettledIs, PTL
  <2> QED
    BY <1>2, <1>9, <2>1, SettledStays
<1>13. BatchHolds' /\ RunHolds' /\ UndoHolds'
  BY <1>2, <1>5 DEF BatchHolds, Running, RunHolds, UndoHolds, Undoing
<1> QED
  BY <1>10, <1>11, <1>12, <1>13 DEF Firm

LEMMA FirmUndoWrite == ASSUME Inv, Firm, UndoWrite PROVE Firm'
BY FirmDrop, FirmPutGoesOn, FirmPutEnds

LEMMA NextStaysFirm == ASSUME Inv, Firm, Patient, [Next]_vars PROVE Firm'
<1>1. CASE AutoStep
  BY <1>1, FirmList, FirmCandidate, FirmFinish DEF AutoStep
<1>2. CASE Work
  BY <1>2, FirmCheck, FirmCommit, FirmRefuse, FirmUndoWrite, FirmUndoFail DEF Work
<1>3. CASE Execute \/ Redo \/ RedoAuto \/ StartUndo
  BY <1>3, FirmExecute, FirmRedo, FirmRedoAuto, FirmStartUndo
<1>4. CASE LoadView \/ Tick \/ Restart \/ UNCHANGED vars
  BY <1>4, FirmOther, FirmRestart
<1> QED
  BY <1>1, <1>2, <1>3, <1>4 DEF Next

(* What a schedule has passed is accounted for: posted, by the batch or by *)
(* the user, passed over on purpose, or undone by the undo that is under   *)
(* way or that a crash cut short; through any order of posting, skipping,  *)
(* editing, deleting, undoing and redoing and through crashes at any step, *)
(* for the user of NeverTwice (CatchUpAutoPost, postManually, SkipNext and *)
(* the undo commands of scheduled transactions).                           *)
THEOREM NeverMissed == ASSUME Patient PROVE Spec => []NothingMissed
<1>1. Init => Inv /\ Firm
  BY InitFits, FirmInit
<1>2. Inv /\ Firm /\ [Next]_vars => (Inv /\ Firm)'
  BY NextKeeps, NextStaysFirm
<1>3. Inv /\ Firm => NothingMissed
  BY DEF Firm
<1> QED
  BY <1>1, <1>2, <1>3, PTL DEF Spec
----------------------------------------------------------------------------
(* What is in store is enough to take the top of the undo stack back.      *)
LEMMA ReadyToUndo == ASSUME Inv, Firm PROVE UndoReady
<1> SUFFICES ASSUME lane = Idle, undoStack # <<>>
             PROVE  LET c == Last(undoStack) IN
                    \/ c.op = "auto" \/ (c.op = "delete" /\ ail[c.sched] = "closed")
                    \/ \A w \in Range(Reversal(c)) : Possible(w)
  BY DEF UndoReady
<1> DEFINE n == Len(undoStack)
           c == Last(undoStack)
<1>1. c \in Cmd /\ c = undoStack[n] /\ n \in DOMAIN undoStack /\ \A k \in DOMAIN undoStack : ~ n < k
  <2>1. undoStack \in Seq(Cmd)
    BY DEF Inv, Types
  <2>2. /\ c \in Cmd /\ c = undoStack[n] /\ n \in DOMAIN undoStack
        /\ DOMAIN undoStack = 1..n /\ n \in Nat
    BY <2>1, Popped
  <2> QED
    BY <2>2
<1> HIDE DEF c, n
<1>2. Single(c) => Left(c, sched[c.sched])
  BY <1>1 DEF Inv, Core, UndoTop
<1>3. ASSUME c.op = "post"
      PROVE  \A w \in Range(Reversal(c)) : Possible(w)
  <2>1. c.sched \in Schedule /\ c.occ \in Nat
    BY <1>1, <1>3, CmdKinds
  <2>2. Intact(c)
    BY <1>1, <1>3 DEF Firm, Stored, Undoing, Single
  <2>3. <<c.row, Posting(c.sched, c.occ)>> \in Makes(c)
    BY <1>3 DEF Makes
  <2>4. rows[c.row] = Posting(c.sched, c.occ)
    BY <2>2, <2>3 DEF Intact
  <2>5. Live(c.row)
    BY <2>1, <2>4, PostingIs DEF Live
  <2>6. sched[c.sched] # Gone
    BY <1>2, <1>3 DEF Single, Left
  <2>7. Possible(Drop(<<c.row>>))
    BY <2>5 DEF Possible, Drop, Last
  <2>8. Possible(Put(c.sched, c.before))
    BY <2>6 DEF Possible, Put
  <2>9. Range(Reversal(c)) = {Drop(<<c.row>>), Put(c.sched, c.before)}
    BY <1>3 DEF Reversal, Range
  <2> QED
    BY <2>7, <2>8, <2>9
<1>4. ASSUME c.op \in {"skip", "edit"}
      PROVE  \A w \in Range(Reversal(c)) : Possible(w)
  <2>1. sched[c.sched] # Gone
    BY <1>2, <1>4 DEF Single, Left
  <2>2. Possible(Put(c.sched, c.before))
    BY <2>1 DEF Possible, Put
  <2>3. Range(Reversal(c)) = {Put(c.sched, c.before)}
    BY <1>4 DEF Reversal, Range
  <2> QED
    BY <2>2, <2>3
<1>5. ASSUME c.op = "delete", ail[c.sched] # "closed"
      PROVE  \A w \in Range(Reversal(c)) : Possible(w)
  <2>1. Possible(Again(c.sched, c.before))
    BY <1>5 DEF Possible, Again
  <2>2. Range(Reversal(c)) = {Again(c.sched, c.before)}
    BY <1>5 DEF Reversal, Range
  <2> QED
    BY <2>1, <2>2
<1>6. \/ c.op = "auto" \/ (c.op = "delete" /\ ail[c.sched] = "closed")
      \/ \A w \in Range(Reversal(c)) : Possible(w)
  BY <1>1, <1>3, <1>4, <1>5, CmdKinds
<1> QED
  BY <1>6 DEF c

(* What the user can undo next can be taken back whole: the row to delete  *)
(* is there, the schedule to put back is stored.  Left out are the batch,  *)
(* whose rows are gone once it was redone, and a deleted schedule whose    *)
(* account is closed (the Undo methods of the post, skip, edit and delete  *)
(* commands), for the user of NeverTwice.                                  *)
THEOREM NeverStuck == ASSUME Patient PROVE Spec => []UndoReady
<1>1. Init => Inv /\ Firm
  BY InitFits, FirmInit
<1>2. Inv /\ Firm /\ [Next]_vars => (Inv /\ Firm)'
  BY NextKeeps, NextStaysFirm
<1>3. Inv /\ Firm => UndoReady
  BY ReadyToUndo
<1> QED
  BY <1>1, <1>2, <1>3, PTL DEF Spec
=============================================================================
