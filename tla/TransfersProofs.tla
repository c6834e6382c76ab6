-------------------------- MODULE TransfersProofs --------------------------
(***************************************************************************)
(* Proofs about Transfers, for any accounts, rows, transfers, amounts and  *)
(* dates.                                                                  *)
(***************************************************************************)
EXTENDS TransfersRefinement, TLAPS

(* What the checks made before a transaction still guarantee inside it.    *)
SpecChecked(s) == s.from # s.to /\ s.status # "void"

JobChecked(lane, j) ==
    /\ j.op \in {"create", "recreate", "replace"} => SpecChecked(j.spec)
    /\ j.op = "plain" => j.new.tid = NoTransfer
    /\ j.op = "replace" =>
          /\ rows[j.row] # Unused
          /\ Live(j.row) => rows[j.row].tid = NoTransfer /\ rows[j.row].kind # "regular"
    /\ j.op = "recreate" => lane = "managed" /\ j.tid \in minted /\ Legs(j.tid) = {}

JobsChecked == \A lane \in Lane : job[lane] # Idle => JobChecked(lane, job[lane])

(* A transfer id not drawn yet names nothing.                              *)
UnmintedUnused ==
    \A t \in TransferId \ minted : Legs(t) = {} /\ token[t] = NoToken

(* What undo keeps still fits the rows.                                    *)
TokensFit ==
    \A t \in TransferId : LET k == token[t] IN k # NoToken =>
        /\ k.op = "delete" => Legs(t) = {}
        /\ k.op = "void" =>
              /\ Legs(t) = {k.from.row, k.to.row}
              /\ k.from.row # k.to.row
              /\ k.from.amount = -k.to.amount

IInv == TypeOK /\ PairMirror /\ UnmintedUnused /\ TokensFit /\ JobsChecked

----------------------------------------------------------------------------
(* Types of the rows the operations write.                                 *)

LEMMA SignedInt ==
    ASSUME NEW n \in Signed
    PROVE  n \in Int /\ -n \in Signed /\ Abs(n) \in Amount \cup {0}
<1>1. CASE n = 0
  <2>1. \A k \in Int : k >= 0 /\ k <= 0 => -k = k
    OBVIOUS
  <2>2. n \in Int /\ n >= 0 /\ n <= 0
    BY <1>1
  <2>3. n \in Int /\ -n = n /\ Abs(n) = 0
    BY <1>1, <2>1, <2>2 DEF Abs
  <2> QED
    BY <1>1, <2>3 DEF Signed
<1>2. CASE n \in Amount
  BY <1>2, ValueAssumption DEF Signed, Abs
<1>3. CASE n \in {-m : m \in Amount}
  <2>1. PICK m \in Amount : n = -m
    BY <1>3
  <2>2. m \in Nat \ {0} /\ n \in Int /\ n < 0 /\ -n = m
    BY <2>1, ValueAssumption
  <2> QED
    BY <2>2 DEF Signed, Abs
<1> QED
  BY <1>1, <1>2, <1>3 DEF Signed

LEMMA RowFields ==
    ASSUME NEW x \in Row
    PROVE  /\ x.acct \in Account /\ x.other \in Account \cup {NoAccount}
           /\ x.tid \in TransferId \cup {NoTransfer}
           /\ x.amount \in Signed /\ x.date \in Date
           /\ x.cat \in Category \cup {NoCategory}
           /\ x.kind = "regular" => x.status \in Status
           /\ x.kind # "regular" => x.status \in InvStatus /\ x.cat = NoCategory
           /\ x.kind = "regular" <=> x \in RegularRow
           /\ x.kind # "regular" <=> x \in InvestmentRow
BY DEF Row, RegularRow, InvestmentRow

LEMMA RegularMark ==
    ASSUME NEW x \in RegularRow, NEW n \in Signed, NEW st \in Status
    PROVE  /\ [x EXCEPT !.status = st] \in RegularRow
           /\ [x EXCEPT !.amount = n, !.status = st] \in RegularRow
BY DEF RegularRow

LEMMA InvestmentMark ==
    ASSUME NEW x \in InvestmentRow, NEW st \in InvStatus
    PROVE  [x EXCEPT !.status = st] \in InvestmentRow
BY DEF InvestmentRow

LEMMA StoredStatusType ==
    ASSUME NEW s \in Status \ {"void"}
    PROVE  StatusFromRegular(s) \in InvStatus
BY DEF Status, InvStatus, StatusFromRegular

LEMMA NewLegType ==
    ASSUME NEW s \in TransferSpec, s.status # "void", NEW t \in TransferId,
           NEW a \in Account, NEW b \in Account, NEW n \in Signed
    PROVE  /\ NewLeg(t, a, b, n, s) \in Row
           /\ NewLeg(t, a, b, n, s).tid = t
           /\ NewLeg(t, a, b, n, s).acct = a
           /\ NewLeg(t, a, b, n, s).other = b
           /\ NewLeg(t, a, b, n, s).amount = n
           /\ NewLeg(t, a, b, n, s).kind = IF a \in InvAccount THEN "transfer_cash" ELSE "regular"
           /\ a \notin InvAccount => NewLeg(t, a, b, n, s).cat = s.cat
<1>1. /\ s.date \in Date /\ s.cat \in Category \cup {NoCategory}
      /\ s.status \in Status \ {"void"}
  BY DEF TransferSpec
<1>2. StatusFromRegular(s.status) \in InvStatus
  BY <1>1, StoredStatusType
<1>3. CASE a \in InvAccount
  <2>1. NewLeg(t, a, b, n, s) \in InvestmentRow
    BY <1>1, <1>2, <1>3 DEF NewLeg, InvestmentRow
  <2> QED
    BY <1>3, <2>1 DEF NewLeg, Row
<1>4. CASE a \notin InvAccount
  <2>1. NewLeg(t, a, b, n, s) \in RegularRow
    BY <1>1, <1>4 DEF NewLeg, RegularRow
  <2> QED
    BY <1>4, <2>1 DEF NewLeg, Row
<1> QED
  BY <1>3, <1>4

LEMMA RewrittenType ==
    ASSUME NEW r \in RowId, rows[r] \in Row, NEW n \in Signed, NEW e,
           e.date \in Date, e.cat \in Category \cup {NoCategory},
           e.status \in Status \ {"void"}
    PROVE  /\ Rewritten(r, n, e) \in Row
           /\ Rewritten(r, n, e).amount = n
           /\ Rewritten(r, n, e).acct = rows[r].acct
           /\ Rewritten(r, n, e).other = rows[r].other
           /\ Rewritten(r, n, e).tid = rows[r].tid
           /\ Rewritten(r, n, e).kind = rows[r].kind
           /\ rows[r].kind = "regular" => Rewritten(r, n, e).cat = e.cat
<1>1. CASE rows[r].kind = "regular"
  <2>1. Rewritten(r, n, e) =
           [rows[r] EXCEPT !.amount = n, !.date = e.date, !.cat = e.cat, !.status = e.status]
    BY <1>1 DEF Rewritten, StoredStatus
  <2>2. rows[r] \in RegularRow
    BY <1>1, RowFields
  <2>3. [rows[r] EXCEPT !.amount = n, !.date = e.date, !.cat = e.cat, !.status = e.status]
           \in RegularRow
    BY <2>2 DEF RegularRow
  <2>4. Rewritten(r, n, e) \in Row
    BY <2>1, <2>3 DEF Row
  <2> QED
    BY <2>1, <2>2, <2>4 DEF RegularRow
<1>2. CASE rows[r].kind # "regular"
  <2>1. Rewritten(r, n, e) =
           [rows[r] EXCEPT !.amount = n, !.date = e.date, !.cat = @,
                           !.status = StatusFromRegular(e.status)]
    BY <1>2 DEF Rewritten, StoredStatus
  <2>2. rows[r] \in InvestmentRow
    BY <1>2, RowFields
  <2>3. StatusFromRegular(e.status) \in InvStatus
    BY StoredStatusType
  <2>4. [rows[r] EXCEPT !.amount = n, !.date = e.date, !.cat = @,
                        !.status = StatusFromRegular(e.status)] \in InvestmentRow
    BY <2>2, <2>3 DEF InvestmentRow
  <2>5. Rewritten(r, n, e) \in Row
    BY <2>1, <2>4 DEF Row
  <2> QED
    BY <1>2, <2>1, <2>2, <2>5 DEF InvestmentRow
<1> QED
  BY <1>1, <1>2

LEMMA JobFields ==
    ASSUME NEW j \in Job
    PROVE  /\ j.op \in {"create", "recreate", "replace", "plain", "close"}
           /\ j.op \in {"create", "recreate", "replace"} => j.spec \in TransferSpec
           /\ j.op = "recreate" => j.tid \in TransferId
           /\ j.op = "replace" => j.row \in RowId
           /\ j.op = "plain" => j.new \in Row
           /\ j.op = "close" => j.acct \in Account
BY DEF Job

LEMMA TokenFields ==
    ASSUME NEW k \in Token
    PROVE  /\ k.op \in {"void", "delete"}
           /\ k.op = "delete" => k.spec \in TransferSpec
           /\ k.op = "void" =>
                 /\ k.from.row \in RowId /\ k.to.row \in RowId
                 /\ k.from.amount \in Signed /\ k.to.amount \in Signed
                 /\ k.from.status \in Status /\ k.to.status \in Status
BY DEF Token, RestoreLeg

----------------------------------------------------------------------------
(* Steps that leave every row where it is.                                 *)

(* The row keeps its table, account, counterpart and transfer.             *)
Fixed(r) ==
    IF Live(r)
    THEN /\ Live(r)'
         /\ rows'[r].acct = rows[r].acct /\ rows'[r].other = rows[r].other
         /\ rows'[r].tid = rows[r].tid /\ rows'[r].kind = rows[r].kind
    ELSE rows'[r] = rows[r]

(* Two legs of one transfer cancelled and agree on the category; they      *)
(* still do.                                                               *)
StillCancels(f, o) ==
    /\ rows'[f].amount = -rows'[o].amount
    /\ rows[f].kind = "regular" /\ rows[o].kind = "regular" => rows'[f].cat = rows'[o].cat

LEMMA LegsKept ==
    ASSUME \A r \in RowId : Fixed(r), NEW t
    PROVE  Legs(t)' = Legs(t)
BY DEF Legs, Fixed, Live

LEMMA LegFacts ==
    ASSUME TypeOK, NEW t \in TransferId, NEW r \in Legs(t)
    PROVE  r \in RowId /\ Live(r) /\ rows[r] \in Row /\ rows[r].tid = t
BY DEF Legs, Live, TypeOK

LEMMA JobsKept ==
    ASSUME TypeOK, JobsChecked, \A r \in RowId : Fixed(r), UNCHANGED <<minted, job>>
    PROVE  JobsChecked'
<1> SUFFICES ASSUME NEW lane \in Lane, job[lane] # Idle
             PROVE  JobChecked(lane, job[lane])'
  BY DEF JobsChecked
<1> DEFINE j == job[lane]
<1>1. j \in Job /\ JobChecked(lane, j)
  BY DEF TypeOK, JobsChecked
<1>2. Legs(j.tid)' = Legs(j.tid)
  BY LegsKept
<1>3. j.op = "replace" => j.row \in RowId /\ Fixed(j.row)
  BY <1>1, JobFields
<1>4. j.op = "replace" =>
         /\ rows'[j.row] # Unused
         /\ Live(j.row)' => rows'[j.row].tid = NoTransfer /\ rows'[j.row].kind # "regular"
  BY <1>1, <1>3 DEF JobChecked, Fixed, Live
<1> QED
  BY <1>1, <1>2, <1>4 DEF JobChecked

(* A step in place keeps the invariant when the amounts of every pair      *)
(* still cancel and the tokens it writes fit.                              *)
LEMMA InPlaceKeeps ==
    ASSUME IInv, TypeOK',
           \A r \in RowId : Fixed(r),
           UNCHANGED <<minted, job>>,
           \A t \in TransferId : \A f, o \in RowId :
              Legs(t) = {f, o} /\ Mirror(f, o) => StillCancels(f, o),
           \A t \in TransferId :
              \/ token'[t] = token[t]
              \/ token'[t] = NoToken
              \/ /\ t \in minted
                 /\ LET k == token'[t] IN
                       /\ k.op = "void"
                       /\ Legs(t) = {k.from.row, k.to.row}
                       /\ k.from.row # k.to.row
                       /\ k.from.amount = -k.to.amount
    PROVE  IInv'
<1>1. \A t : Legs(t)' = Legs(t)
  BY LegsKept
<1>2. PairMirror'
  <2> SUFFICES ASSUME NEW t \in TransferId, Legs(t) # {}
               PROVE  \E f, o \in RowId : Legs(t) = {f, o} /\ Mirror(f, o)'
    BY <1>1 DEF PairMirror
  <2>1. PICK f \in RowId, o \in RowId : Legs(t) = {f, o} /\ Mirror(f, o)
    BY DEF IInv, PairMirror
  <2>2. StillCancels(f, o)
    BY <2>1
  <2>3. Live(f) /\ Live(o) /\ Fixed(f) /\ Fixed(o)
    BY <2>1 DEF Legs
  <2>4. Mirror(f, o)'
    BY <2>1, <2>2, <2>3 DEF Mirror, StillCancels, Fixed, HasInvestmentLeg
  <2> QED
    BY <2>1, <2>4
<1>3. UnmintedUnused'
  BY <1>1 DEF IInv, UnmintedUnused
<1>4. TokensFit'
  BY <1>1 DEF IInv, TokensFit
<1>5. JobsChecked'
  BY JobsKept DEF IInv
<1> QED
  BY <1>2, <1>3, <1>4, <1>5 DEF IInv

----------------------------------------------------------------------------
(* Steps that add or remove rows.                                          *)

(* A row that changes is a leg of t or of no transfer, and it is new or    *)
(* deleted.                                                                *)
Touched(t, r) ==
    \/ rows'[r] = rows[r]
    \/ Live(r) /\ rows[r].tid \in {t, NoTransfer} /\ rows'[r] = Deleted
    \/ rows[r] = Unused /\ Live(r)' /\ rows'[r].tid \in {t, NoTransfer}

LEMMA ElsewhereKept ==
    ASSUME NEW t, \A r \in RowId : Touched(t, r),
           NEW u \in TransferId, u # t
    PROVE  Legs(u)' = Legs(u) /\ \A r \in Legs(u) : rows'[r] = rows[r]
BY IdAssumption DEF Touched, Legs, Live

LEMMA TableJobsKept ==
    ASSUME TypeOK, JobsChecked, NEW t, minted \subseteq minted',
           \A r \in RowId : Touched(t, r),
           \A lane \in Lane :
              \/ job'[lane] = Idle
              \/ /\ job'[lane] = job[lane]
                 /\ job[lane] # Idle /\ job[lane].op = "recreate" => job[lane].tid # t
    PROVE  JobsChecked'
<1> SUFFICES ASSUME NEW lane \in Lane, job'[lane] # Idle
             PROVE  JobChecked(lane, job[lane])'
  BY DEF JobsChecked
<1> DEFINE j == job[lane]
<1>1. j \in Job /\ JobChecked(lane, j) /\ job'[lane] = j
  BY DEF TypeOK, JobsChecked
<1>2. j.op = "recreate" => Legs(j.tid)' = Legs(j.tid)
  BY <1>1, JobFields, ElsewhereKept
<1>3. j.op = "replace" => j.row \in RowId /\ Touched(t, j.row)
  BY <1>1, JobFields
<1>4. j.op = "replace" =>
         /\ rows'[j.row] # Unused
         /\ Live(j.row)' => rows'[j.row].tid = NoTransfer /\ rows'[j.row].kind # "regular"
  BY <1>1, <1>3, NullAssumption DEF JobChecked, Touched, Live
<1> QED
  BY <1>1, <1>2, <1>4 DEF JobChecked

(* A step on one transfer, or on none (t = NoTransfer), that adds or       *)
(* removes rows keeps the invariant when it leaves that transfer whole.    *)
LEMMA TableKeeps ==
    ASSUME IInv, TypeOK', NEW t \in TransferId \cup {NoTransfer},
           \A r \in RowId : Touched(t, r),
           minted' = minted \/ minted' = minted \cup {t},
           \A u \in TransferId \ {t} : token'[u] = token[u],
           t \in TransferId =>
              /\ t \in minted'
              /\ \/ Legs(t)' = {}
                 \/ \E f, o \in RowId : Legs(t)' = {f, o} /\ Mirror(f, o)'
              /\ \/ token'[t] = NoToken
                 \/ token'[t].op = "delete" /\ Legs(t)' = {},
           \A lane \in Lane :
              \/ job'[lane] = Idle
              \/ /\ job'[lane] = job[lane]
                 /\ job[lane] # Idle /\ job[lane].op = "recreate" => job[lane].tid # t
    PROVE  IInv'
<1>1. \A u \in TransferId \ {t} :
         Legs(u)' = Legs(u) /\ \A r \in Legs(u) : rows'[r] = rows[r]
  BY ElsewhereKept
<1>2. PairMirror'
  <2> SUFFICES ASSUME NEW u \in TransferId \ {t}, Legs(u) # {}
               PROVE  \E f, o \in RowId : Legs(u)' = {f, o} /\ Mirror(f, o)'
    BY <1>1 DEF PairMirror
  <2>1. PICK f \in RowId, o \in RowId : Legs(u) = {f, o} /\ Mirror(f, o)
    BY DEF IInv, PairMirror
  <2>2. rows'[f] = rows[f] /\ rows'[o] = rows[o]
    BY <1>1, <2>1
  <2>3. Mirror(f, o)'
    BY <2>1, <2>2 DEF Mirror, HasInvestmentLeg
  <2> QED
    BY <1>1, <2>1, <2>3
<1>3. UnmintedUnused'
  BY <1>1 DEF IInv, UnmintedUnused
<1>4. TokensFit'
  BY <1>1 DEF IInv, TokensFit
<1>5. JobsChecked'
  BY TableJobsKept DEF IInv
<1> QED
  BY <1>2, <1>3, <1>4, <1>5 DEF IInv

(* A fresh pair written under t is a transfer.                             *)
LEMMA FreshPairMirrors ==
    ASSUME TypeOK, NEW t \in TransferId, NEW f \in RowId, NEW o \in RowId, f # o,
           Legs(t) = {},
           NEW s \in TransferSpec, SpecChecked(s),
           rows'[f] = NewLeg(t, s.from, s.to, -s.amount, s),
           rows'[o] = NewLeg(t, s.to, s.from, s.amount, s),
           \A r \in RowId \ {f, o} : rows'[r] = rows[r] \/ rows'[r] = Deleted
    PROVE  /\ rows'[f] \in Row /\ rows'[f].tid = t
           /\ rows'[o] \in Row /\ rows'[o].tid = t
           /\ Legs(t)' = {f, o} /\ Mirror(f, o)'
<1>1. s.from \in Account /\ s.to \in Account /\ s.from # s.to /\ s.status # "void"
  BY DEF TransferSpec, SpecChecked
<1>2. s.amount \in Signed /\ -s.amount \in Signed /\ s.amount \in Int
  <2>1. s.amount \in Signed
    BY DEF TransferSpec, Signed
  <2> QED
    BY <2>1, SignedInt
<1>3. /\ rows'[f] \in Row /\ rows'[f].tid = t /\ rows'[f].acct = s.from
      /\ rows'[f].other = s.to /\ rows'[f].amount = -s.amount
      /\ rows'[f].kind = IF s.from \in InvAccount THEN "transfer_cash" ELSE "regular"
      /\ s.from \notin InvAccount => rows'[f].cat = s.cat
  BY <1>1, <1>2, NewLegType
<1>4. /\ rows'[o] \in Row /\ rows'[o].tid = t /\ rows'[o].acct = s.to
      /\ rows'[o].other = s.from /\ rows'[o].amount = s.amount
      /\ rows'[o].kind = IF s.to \in InvAccount THEN "transfer_cash" ELSE "regular"
      /\ s.to \notin InvAccount => rows'[o].cat = s.cat
  BY <1>1, <1>2, NewLegType
<1>5. Mirror(f, o)'
  BY <1>1, <1>2, <1>3, <1>4 DEF Mirror, HasInvestmentLeg
<1>6. Legs(t)' = {f, o}
  BY <1>3, <1>4, NullAssumption DEF Legs, Live
<1> QED
  BY <1>3, <1>4, <1>5, <1>6

----------------------------------------------------------------------------
(* One lemma per action.  First those that only check.                     *)

LEMMA QuietKeeps ==
    ASSUME IInv, TypeOK', UNCHANGED <<rows, minted>>,
           \A t \in TransferId : token'[t] \in {token[t], NoToken},
           \A lane \in Lane :
              \/ job'[lane] \in {Idle, job[lane]}
              \/ JobChecked(lane, job'[lane])
    PROVE  IInv'
<1>1. \A t : Legs(t)' = Legs(t)
  BY DEF Legs, Live
<1>2. PairMirror'
  BY <1>1 DEF IInv, PairMirror, Mirror, HasInvestmentLeg
<1>3. UnmintedUnused'
  BY <1>1 DEF IInv, UnmintedUnused
<1>4. TokensFit'
  BY <1>1 DEF IInv, TokensFit
<1>5. JobsChecked'
  BY <1>1 DEF IInv, JobsChecked, JobChecked, Live
<1> QED
  BY <1>2, <1>3, <1>4, <1>5 DEF IInv

LEMMA BeginKeeps ==
    ASSUME IInv, NEW lane \in Lane, NEW j \in Job, Begin(lane, j), JobChecked(lane, j)
    PROVE  IInv'
<1>1. TypeOK'
  BY DEF IInv, TypeOK, Begin
<1>2. \A k \in Lane : job'[k] = job[k] \/ (k = lane /\ job'[k] = j)
  BY DEF IInv, TypeOK, Begin
<1>3. \A k \in Lane : job'[k] \in {Idle, job[k]} \/ JobChecked(k, job'[k])
  BY <1>2
<1> QED
  BY <1>1, <1>3, QuietKeeps DEF Begin

LEMMA GuardedSpec ==
    ASSUME NEW s, GuardSpec(s)
    PROVE  SpecChecked(s)
BY DEF GuardSpec, SpecChecked

LEMMA BeginCreateKeeps ==
    ASSUME IInv, NEW s \in NewTransfer, BeginCreate(s)
    PROVE  IInv'
<1> DEFINE j == [op |-> "create", spec |-> s]
<1>1. j \in Job
  BY DEF Job, NewTransfer
<1>2. JobChecked("managed", j)
  BY GuardedSpec DEF BeginCreate, JobChecked
<1> QED
  BY <1>1, <1>2, BeginKeeps DEF BeginCreate, Lane

LEMMA BeginRecreateKeeps ==
    ASSUME IInv, NEW t \in TransferId, BeginRecreate(t)
    PROVE  IInv'
<1> DEFINE j == [op |-> "recreate", tid |-> t, spec |-> token[t].spec]
<1>1. token[t] \in Token
  BY DEF IInv, TypeOK, BeginRecreate
<1>2. j \in Job
  BY <1>1, TokenFields DEF Job, BeginRecreate
<1>3. t \in minted /\ Legs(t) = {}
  BY DEF BeginRecreate, IInv, UnmintedUnused, TokensFit
<1>4. JobChecked("managed", j)
  BY <1>3, GuardedSpec DEF BeginRecreate, JobChecked
<1> QED
  BY <1>2, <1>4, BeginKeeps DEF BeginRecreate, Lane

LEMMA BeginReplaceKeeps ==
    ASSUME IInv, NEW r \in RowId, NEW s \in NewTransfer, BeginReplace(r, s)
    PROVE  IInv'
<1> DEFINE j == [op |-> "replace", row |-> r, spec |-> s]
<1>1. j \in Job
  BY DEF Job, NewTransfer
<1>2. JobChecked("direct", j)
  BY GuardedSpec DEF BeginReplace, JobChecked, Plain, Live
<1> QED
  BY <1>1, <1>2, BeginKeeps DEF BeginReplace, Lane

LEMMA BeginPlainKeeps ==
    ASSUME IInv, NEW new \in PlainRow, BeginPlain(new)
    PROVE  IInv'
<1> DEFINE j == [op |-> "plain", new |-> new]
<1>1. new \in Row /\ new.tid = NoTransfer
  BY PlainAssumption
<1>2. j \in Job
  BY <1>1 DEF Job
<1>3. JobChecked("direct", j)
  BY <1>1 DEF JobChecked
<1> QED
  BY <1>2, <1>3, BeginKeeps DEF BeginPlain, Lane

LEMMA BeginCloseKeeps ==
    ASSUME IInv, NEW a \in Account, BeginClose(a)
    PROVE  IInv'
<1> DEFINE j == [op |-> "close", acct |-> a]
<1>1. j \in Job
  BY DEF Job
<1>2. JobChecked("managed", j)
  BY DEF JobChecked
<1> QED
  BY <1>1, <1>2, BeginKeeps DEF BeginClose, Lane

LEMMA FinishCloseKeeps ==
    ASSUME IInv, FinishClose
    PROVE  IInv'
<1>1. TypeOK'
  BY DEF IInv, TypeOK, FinishClose, Lane
<1>2. \A lane \in Lane : job'[lane] \in {Idle, job[lane]}
  BY DEF IInv, TypeOK, FinishClose, Lane
<1> QED
  BY <1>1, <1>2, QuietKeeps DEF FinishClose

LEMMA AbortKeeps ==
    ASSUME IInv, NEW lane \in Lane, Abort(lane)
    PROVE  IInv'
<1>1. TypeOK'
  BY DEF IInv, TypeOK, Abort
<1>2. \A k \in Lane : job'[k] \in {Idle, job[k]}
  BY DEF IInv, TypeOK, Abort
<1> QED
  BY <1>1, <1>2, QuietKeeps DEF Abort

LEMMA ReopenKeeps ==
    ASSUME IInv, NEW a \in Account, Reopen(a)
    PROVE  IInv'
<1>1. TypeOK'
  BY DEF IInv, TypeOK, Reopen
<1> QED
  BY <1>1, QuietKeeps DEF Reopen

LEMMA RestartKeeps ==
    ASSUME IInv, Restart
    PROVE  IInv'
<1>1. TypeOK'
  BY DEF IInv, TypeOK, Restart
<1> QED
  BY <1>1, QuietKeeps DEF Restart

----------------------------------------------------------------------------
(* The actions that add or remove rows.                                    *)

LEMMA FinishCreateKeeps ==
    ASSUME IInv, NEW t \in TransferId, NEW f \in RowId, NEW o \in RowId,
           FinishCreate(t, f, o)
    PROVE  IInv' /\ \A x \in RowId : Touched(t, x)
<1> DEFINE s == job["managed"].spec
<1>1. s \in TransferSpec /\ SpecChecked(s)
  BY JobFields DEF IInv, TypeOK, JobsChecked, JobChecked, FinishCreate, Lane
<1>2. Legs(t) = {} /\ token[t] = NoToken
  BY DEF IInv, UnmintedUnused, FinishCreate
<1>3. /\ f # o /\ rows[f] = Unused /\ rows[o] = Unused
      /\ rows'[f] = NewLeg(t, s.from, s.to, -s.amount, s)
      /\ rows'[o] = NewLeg(t, s.to, s.from, s.amount, s)
      /\ \A r \in RowId \ {f, o} : rows'[r] = rows[r]
  BY DEF IInv, TypeOK, FinishCreate, WithPair, FreshPair
<1>4. /\ rows'[f] \in Row /\ rows'[f].tid = t
      /\ rows'[o] \in Row /\ rows'[o].tid = t
      /\ Legs(t)' = {f, o} /\ Mirror(f, o)'
  BY <1>1, <1>2, <1>3, FreshPairMirrors DEF IInv
<1>5. TypeOK'
  BY <1>3, <1>4 DEF IInv, TypeOK, FinishCreate, Lane, WithPair
<1>6. \A r \in RowId : Touched(t, r)
  BY <1>3, <1>4, NullAssumption DEF Touched, Live
<1>7. \A lane \in Lane :
        \/ job'[lane] = Idle
        \/ /\ job'[lane] = job[lane]
           /\ job[lane] # Idle /\ job[lane].op = "recreate" => job[lane].tid # t
  BY DEF IInv, TypeOK, JobsChecked, JobChecked, FinishCreate, Lane
<1> QED
  BY <1>2, <1>4, <1>5, <1>6, <1>7, TableKeeps DEF FinishCreate

LEMMA FinishRecreateKeeps ==
    ASSUME IInv, NEW f \in RowId, NEW o \in RowId, FinishRecreate(f, o)
    PROVE  IInv' /\ \A x \in RowId : Touched(job["managed"].tid, x)
<1> DEFINE s == job["managed"].spec
<1>0. job["managed"] \in Job /\ job["managed"].op = "recreate"
  BY DEF IInv, TypeOK, FinishRecreate, Lane
<1> PICK t \in TransferId : t = job["managed"].tid
  BY <1>0, JobFields
<1>1. /\ s \in TransferSpec /\ SpecChecked(s)
      /\ t \in minted /\ Legs(t) = {}
  BY <1>0, JobFields DEF IInv, JobsChecked, JobChecked, FinishRecreate, Lane
<1>2. /\ f # o /\ rows[f] = Unused /\ rows[o] = Unused
      /\ rows'[f] = NewLeg(t, s.from, s.to, -s.amount, s)
      /\ rows'[o] = NewLeg(t, s.to, s.from, s.amount, s)
      /\ \A r \in RowId \ {f, o} : rows'[r] = rows[r]
  BY DEF IInv, TypeOK, FinishRecreate, WithPair, FreshPair
<1>3. /\ rows'[f] \in Row /\ rows'[f].tid = t
      /\ rows'[o] \in Row /\ rows'[o].tid = t
      /\ Legs(t)' = {f, o} /\ Mirror(f, o)'
  BY <1>1, <1>2, FreshPairMirrors DEF IInv
<1>4. TypeOK'
  BY <1>1, <1>2, <1>3 DEF IInv, TypeOK, FinishRecreate, Lane, WithPair
<1>5. \A r \in RowId : Touched(t, r)
  BY <1>2, <1>3, NullAssumption DEF Touched, Live
<1>6. \A lane \in Lane :
        \/ job'[lane] = Idle
        \/ /\ job'[lane] = job[lane]
           /\ job[lane] # Idle /\ job[lane].op = "recreate" => job[lane].tid # t
  BY DEF IInv, TypeOK, JobsChecked, JobChecked, FinishRecreate, Lane
<1>7. token'[t] = NoToken /\ \A u \in TransferId \ {t} : token'[u] = token[u]
  BY <1>1 DEF IInv, TypeOK, FinishRecreate
<1> QED
  BY <1>1, <1>3, <1>4, <1>5, <1>6, <1>7, TableKeeps DEF FinishRecreate

LEMMA FinishReplaceKeeps ==
    ASSUME IInv, NEW t \in TransferId, NEW f \in RowId, NEW o \in RowId,
           FinishReplace(t, f, o)
    PROVE  IInv' /\ \A x \in RowId : Touched(t, x)
<1> DEFINE s == job["direct"].spec
           x == job["direct"].row
<1>1. /\ s \in TransferSpec /\ SpecChecked(s)
      /\ x \in RowId /\ Live(x) /\ rows[x].tid = NoTransfer
  BY JobFields DEF IInv, TypeOK, JobsChecked, JobChecked, FinishReplace, Lane
<1>2. Legs(t) = {} /\ token[t] = NoToken
  BY DEF IInv, UnmintedUnused, FinishReplace
<1>3. /\ f # o /\ rows[f] = Unused /\ rows[o] = Unused
      /\ rows'[f] = NewLeg(t, s.from, s.to, -s.amount, s)
      /\ rows'[o] = NewLeg(t, s.to, s.from, s.amount, s)
      /\ rows'[x] = Deleted
      /\ \A r \in RowId \ {f, o, x} : rows'[r] = rows[r]
  BY <1>1 DEF IInv, TypeOK, FinishReplace, WithPair, FreshPair, Live
<1>4. /\ rows'[f] \in Row /\ rows'[f].tid = t
      /\ rows'[o] \in Row /\ rows'[o].tid = t
      /\ Legs(t)' = {f, o} /\ Mirror(f, o)'
  BY <1>1, <1>2, <1>3, FreshPairMirrors DEF IInv
<1>5. TypeOK'
  BY <1>1, <1>3, <1>4 DEF IInv, TypeOK, FinishReplace, Lane, WithPair
<1>6. \A r \in RowId : Touched(t, r)
  BY <1>1, <1>3, <1>4, NullAssumption DEF Touched, Live
<1>7. \A lane \in Lane :
        \/ job'[lane] = Idle
        \/ /\ job'[lane] = job[lane]
           /\ job[lane] # Idle /\ job[lane].op = "recreate" => job[lane].tid # t
  BY DEF IInv, TypeOK, JobsChecked, JobChecked, FinishReplace, Lane
<1> QED
  BY <1>2, <1>4, <1>5, <1>6, <1>7, TableKeeps DEF FinishReplace

LEMMA FinishPlainKeeps ==
    ASSUME IInv, NEW r \in RowId, FinishPlain(r)
    PROVE  IInv' /\ \A x \in RowId : Touched(NoTransfer, x)
<1>1. job["direct"].new \in Row /\ job["direct"].new.tid = NoTransfer
  BY JobFields DEF IInv, TypeOK, JobsChecked, JobChecked, FinishPlain, Lane
<1>2. /\ rows'[r] = job["direct"].new /\ rows[r] = Unused
      /\ \A x \in RowId \ {r} : rows'[x] = rows[x]
  BY DEF IInv, TypeOK, FinishPlain
<1>3. TypeOK'
  BY <1>1 DEF IInv, TypeOK, FinishPlain, Lane
<1>4. \A x \in RowId : Touched(NoTransfer, x)
  BY <1>1, <1>2, NullAssumption DEF Touched, Live
<1>5. \A lane \in Lane :
        \/ job'[lane] = Idle
        \/ /\ job'[lane] = job[lane]
           /\ job[lane] # Idle /\ job[lane].op = "recreate" => job[lane].tid # NoTransfer
  BY JobFields, IdAssumption DEF IInv, TypeOK, FinishPlain, Lane
<1> QED
  BY <1>3, <1>4, <1>5, IdAssumption, TableKeeps DEF FinishPlain

LEMMA DeletePlainKeeps ==
    ASSUME IInv, NEW r \in RowId, DeletePlain(r)
    PROVE  IInv' /\ \A x \in RowId : Touched(NoTransfer, x)
<1>1. /\ rows'[r] = Deleted /\ Live(r) /\ rows[r].tid = NoTransfer
      /\ \A x \in RowId \ {r} : rows'[x] = rows[x]
  BY DEF IInv, TypeOK, DeletePlain, PlainMutable, Plain
<1>2. TypeOK'
  BY DEF IInv, TypeOK, DeletePlain
<1>3. \A x \in RowId : Touched(NoTransfer, x)
  BY <1>1 DEF Touched
<1>4. \A lane \in Lane :
         job[lane] # Idle /\ job[lane].op = "recreate" => job[lane].tid # NoTransfer
  BY JobFields, IdAssumption DEF IInv, TypeOK
<1> QED
  BY <1>2, <1>3, <1>4, IdAssumption, TableKeeps DEF DeletePlain

----------------------------------------------------------------------------
(* The actions on a whole transfer.                                        *)

LEMMA PairFacts ==
    ASSUME IInv, NEW t \in minted, NEW f \in Legs(t), NEW o \in Legs(t),
           IsTransfer(t, f, o)
    PROVE  /\ t \in TransferId /\ f \in RowId /\ o \in RowId /\ f # o
           /\ Live(f) /\ Live(o) /\ rows[f] \in Row /\ rows[o] \in Row
           /\ rows[f].tid = t /\ rows[o].tid = t
           /\ Legs(t) = {f, o} /\ Mirror(f, o)
           /\ rows[f].amount \in Signed /\ rows[o].amount \in Signed
           /\ rows[f].amount \in Int /\ rows[o].amount \in Int
<1>1. t \in TransferId
  BY DEF IInv, TypeOK
<1>2. /\ f \in RowId /\ Live(f) /\ rows[f] \in Row /\ rows[f].tid = t
      /\ o \in RowId /\ Live(o) /\ rows[o] \in Row /\ rows[o].tid = t
  BY <1>1, LegFacts DEF IInv
<1>3. /\ rows[f].amount \in Signed /\ rows[o].amount \in Signed
      /\ rows[f].amount \in Int /\ rows[o].amount \in Int
  BY <1>2, RowFields, SignedInt
<1>4. PICK g \in RowId, h \in RowId : Legs(t) = {g, h} /\ Mirror(g, h)
  BY <1>1 DEF IInv, PairMirror
<1>5. Legs(t) = {f, o} /\ f # o
  BY DEF IsTransfer
<1>6. (g = f /\ h = o) \/ (g = o /\ h = f)
  BY <1>4, <1>5
<1>7. Mirror(f, o)
  BY <1>3, <1>4, <1>6 DEF Mirror, HasInvestmentLeg
<1> QED
  BY <1>1, <1>2, <1>3, <1>5, <1>7

(* Rewriting the two legs of t, and nothing else, in place.                *)
LEMMA PairRewriteKeeps ==
    ASSUME IInv, NEW t \in TransferId, NEW f \in RowId, NEW o \in RowId, f # o,
           Legs(t) = {f, o}, Mirror(f, o),
           NEW x \in Row, NEW y \in Row,
           rows' = [rows EXCEPT ![f] = x, ![o] = y],
           /\ x.acct = rows[f].acct /\ x.other = rows[f].other
           /\ x.tid = rows[f].tid /\ x.kind = rows[f].kind,
           /\ y.acct = rows[o].acct /\ y.other = rows[o].other
           /\ y.tid = rows[o].tid /\ y.kind = rows[o].kind,
           x.amount = -y.amount,
           x.kind = "regular" /\ y.kind = "regular" => x.cat = y.cat,
           token' \in [TransferId -> Token \cup {NoToken}],
           UNCHANGED <<open, minted, job>>,
           \A u \in TransferId :
              \/ token'[u] \in {token[u], NoToken}
              \/ /\ u \in minted
                 /\ LET k == token'[u] IN
                       /\ k.op = "void"
                       /\ Legs(u) = {k.from.row, k.to.row}
                       /\ k.from.row # k.to.row
                       /\ k.from.amount = -k.to.amount
    PROVE  IInv' /\ \A r \in RowId : Fixed(r)
<1>1. /\ rows'[f] = x /\ rows'[o] = y
      /\ \A r \in RowId \ {f, o} : rows'[r] = rows[r]
  BY DEF IInv, TypeOK
<1>2. TypeOK'
  BY DEF IInv, TypeOK
<1>3. Live(f) /\ Live(o) /\ rows[f].tid = t /\ rows[o].tid = t
  BY DEF Legs
<1>4. \A r \in RowId : Fixed(r)
  <2>1. x \notin {Unused, Deleted} /\ y \notin {Unused, Deleted}
    BY NullAssumption
  <2>2. Fixed(f) /\ Fixed(o)
    BY <1>1, <1>3, <2>1 DEF Fixed, Live
  <2>3. \A r \in RowId \ {f, o} : Fixed(r)
    BY <1>1 DEF Fixed, Live
  <2> QED
    BY <2>2, <2>3
<1>5. ASSUME NEW u \in TransferId, NEW g \in RowId, NEW h \in RowId,
             Legs(u) = {g, h}, Mirror(g, h)
      PROVE  StillCancels(g, h)
  <2>1. rows[g].tid = u /\ rows[h].tid = u
    BY <1>5 DEF Legs
  <2>2. CASE u = t
    <3>1. (g = f /\ h = o) \/ (g = o /\ h = f)
      BY <1>5, <2>2 DEF Mirror
    <3>2. x.amount \in Int /\ y.amount \in Int
      BY RowFields, SignedInt
    <3> QED
      BY <1>1, <3>1, <3>2 DEF StillCancels
  <2>3. CASE u # t
    <3>1. rows'[g] = rows[g] /\ rows'[h] = rows[h]
      BY <1>1, <1>3, <2>1, <2>3
    <3> QED
      BY <1>5, <3>1 DEF StillCancels, Mirror, HasInvestmentLeg
  <2> QED
    BY <2>2, <2>3
<1> QED
  BY <1>2, <1>4, <1>5, InPlaceKeeps

LEMMA SpecOfType ==
    ASSUME NEW f, NEW o, NEW head \in {f, o}, rows[f] \in Row, rows[o] \in Row
    PROVE  SpecOf(f, o, head) \in TransferSpec
<1>1. Abs(rows[o].amount) \in Amount \cup {0}
  BY RowFields, SignedInt
<1>2. LegStatus(head) \in Status
  BY RowFields DEF LegStatus, StatusToRegular, Status, InvStatus
<1>3. CategoryOf(f, o) \in Category \cup {NoCategory} /\ rows[head].date \in Date
  BY RowFields DEF CategoryOf
<1> QED
  BY <1>1, <1>2, <1>3, RowFields DEF SpecOf, TransferSpec

LEMMA UpdateKeeps ==
    ASSUME IInv, NEW t \in minted, NEW f \in Legs(t), NEW o \in Legs(t),
           NEW e \in Edit, Update(t, f, o, e)
    PROVE  IInv' /\ \A r \in RowId : Fixed(r)
<1> DEFINE x == Rewritten(f, -e.amount, e)
           y == Rewritten(o, e.amount, e)
<1>1. IsTransfer(t, f, o)
  BY DEF Update
<1>2. /\ e.date \in Date /\ e.cat \in Category \cup {NoCategory}
      /\ e.status \in Status \ {"void"} /\ e.amount \in Amount
  BY DEF Edit, Update, GuardSpec
<1>3. e.amount \in Signed /\ -e.amount \in Signed /\ e.amount \in Int
  BY <1>2, SignedInt DEF Signed
<1>4. /\ x \in Row /\ x.amount = -e.amount
      /\ x.acct = rows[f].acct /\ x.other = rows[f].other
      /\ x.tid = rows[f].tid /\ x.kind = rows[f].kind
      /\ rows[f].kind = "regular" => x.cat = e.cat
  BY <1>1, <1>2, <1>3, PairFacts, RewrittenType
<1>5. /\ y \in Row /\ y.amount = e.amount
      /\ y.acct = rows[o].acct /\ y.other = rows[o].other
      /\ y.tid = rows[o].tid /\ y.kind = rows[o].kind
      /\ rows[o].kind = "regular" => y.cat = e.cat
  BY <1>1, <1>2, <1>3, PairFacts, RewrittenType
<1>6. /\ rows' = [rows EXCEPT ![f] = x, ![o] = y]
      /\ UNCHANGED <<open, minted, job, token>>
  BY DEF Update, Write
<1>7. token' \in [TransferId -> Token \cup {NoToken}]
  BY <1>6 DEF IInv, TypeOK
<1>8. \A u \in TransferId : token'[u] \in {token[u], NoToken}
  BY <1>6
<1>9. /\ t \in TransferId /\ f \in RowId /\ o \in RowId /\ f # o
      /\ Legs(t) = {f, o} /\ Mirror(f, o)
  BY <1>1, PairFacts
<1> HIDE DEF x, y
<1>10. /\ x.amount = -y.amount
       /\ x.kind = "regular" /\ y.kind = "regular" => x.cat = y.cat
  BY <1>4, <1>5
<1> QED
  BY <1>4, <1>5, <1>6, <1>7, <1>8, <1>9, <1>10, PairRewriteKeeps

LEMMA ReverseKeeps ==
    ASSUME IInv, NEW t \in minted, NEW f \in Legs(t), NEW o \in Legs(t),
           Reverse(t, f, o)
    PROVE  IInv' /\ \A r \in RowId : Fixed(r)
<1> DEFINE s == [SpecOf(f, o, f) EXCEPT !.from = rows[o].acct, !.to = rows[f].acct]
           x == Rewritten(f, s.amount, s)
           y == Rewritten(o, -s.amount, s)
<1>1. IsTransfer(t, f, o)
  BY DEF Reverse
<1>2. SpecOf(f, o, f) \in TransferSpec /\ s.status # "void"
  BY <1>1, PairFacts, SpecOfType DEF Reverse, GuardSpec
<1>3. /\ s.date \in Date /\ s.cat \in Category \cup {NoCategory}
      /\ s.status \in Status \ {"void"} /\ s.amount \in Amount \cup {0}
  BY <1>2 DEF TransferSpec
<1>4. s.amount \in Signed /\ -s.amount \in Signed /\ s.amount \in Int
  BY <1>3, SignedInt DEF Signed
<1> HIDE DEF s
<1>5. /\ x \in Row /\ x.amount = s.amount
      /\ x.acct = rows[f].acct /\ x.other = rows[f].other
      /\ x.tid = rows[f].tid /\ x.kind = rows[f].kind
      /\ rows[f].kind = "regular" => x.cat = s.cat
  BY <1>1, <1>3, <1>4, PairFacts, RewrittenType
<1>6. /\ y \in Row /\ y.amount = -s.amount
      /\ y.acct = rows[o].acct /\ y.other = rows[o].other
      /\ y.tid = rows[o].tid /\ y.kind = rows[o].kind
      /\ rows[o].kind = "regular" => y.cat = s.cat
  BY <1>1, <1>3, <1>4, PairFacts, RewrittenType
<1>7. /\ rows' = [rows EXCEPT ![f] = x, ![o] = y]
      /\ UNCHANGED <<open, minted, job, token>>
  BY DEF Reverse, Write, s
<1>8. token' \in [TransferId -> Token \cup {NoToken}]
  BY <1>7 DEF IInv, TypeOK
<1>9. \A u \in TransferId : token'[u] \in {token[u], NoToken}
  BY <1>7
<1>10. /\ t \in TransferId /\ f \in RowId /\ o \in RowId /\ f # o
       /\ Legs(t) = {f, o} /\ Mirror(f, o)
  BY <1>1, PairFacts
<1> HIDE DEF x, y
<1>11. /\ x.amount = -y.amount
       /\ x.kind = "regular" /\ y.kind = "regular" => x.cat = y.cat
  BY <1>4, <1>5, <1>6
<1> QED
  BY <1>5, <1>6, <1>7, <1>8, <1>9, <1>10, <1>11, PairRewriteKeeps

LEMMA VoidKeeps ==
    ASSUME IInv, NEW t \in minted, NEW f \in Legs(t), NEW o \in Legs(t),
           Void(t, f, o)
    PROVE  IInv' /\ \A r \in RowId : Fixed(r)
<1> DEFINE x == VoidedRow(f)
           y == VoidedRow(o)
           k == [op   |-> "void",
                 from |-> [row |-> f, amount |-> rows[f].amount, status |-> rows[f].status],
                 to   |-> [row |-> o, amount |-> rows[o].amount, status |-> rows[o].status]]
<1>1. IsTransfer(t, f, o) /\ rows[f].kind = "regular" /\ rows[o].kind = "regular"
  BY DEF Void, HasInvestmentLeg
<1>2. rows[f] \in RegularRow /\ rows[o] \in RegularRow
  BY <1>1, PairFacts, RowFields
<1>3. x \in RegularRow /\ y \in RegularRow
  BY <1>2, RegularMark DEF VoidedRow, Signed, Status
<1>4. /\ x.amount = 0 /\ x.acct = rows[f].acct /\ x.other = rows[f].other
      /\ x.tid = rows[f].tid /\ x.kind = rows[f].kind /\ x.cat = rows[f].cat
      /\ y.amount = 0 /\ y.acct = rows[o].acct /\ y.other = rows[o].other
      /\ y.tid = rows[o].tid /\ y.kind = rows[o].kind /\ y.cat = rows[o].cat
  BY <1>2 DEF VoidedRow, RegularRow
<1>5. x.amount = -y.amount
  <2>1. \A n \in Int : n >= 0 /\ n <= 0 => n = -n
    OBVIOUS
  <2>2. x.amount \in Int /\ x.amount >= 0 /\ x.amount <= 0 /\ y.amount = x.amount
    BY <1>4
  <2> HIDE DEF x, y
  <2> QED
    BY <2>1, <2>2
<1>6. rows[f].cat = rows[o].cat /\ rows[f].amount = -rows[o].amount
  BY <1>1, PairFacts DEF Mirror, HasInvestmentLeg
<1>7. k \in Token
  <2>1. rows[f].status \in Status /\ rows[o].status \in Status
    BY <1>1, PairFacts, RowFields
  <2> QED
    BY <1>1, <2>1, PairFacts DEF Token, RestoreLeg
<1>8. /\ rows' = [rows EXCEPT ![f] = x, ![o] = y]
      /\ token' = [token EXCEPT ![t] = k]
      /\ UNCHANGED <<open, minted, job>>
  BY DEF Void, Write
<1>9. token' \in [TransferId -> Token \cup {NoToken}]
  BY <1>7, <1>8 DEF IInv, TypeOK
<1>10. \A u \in TransferId :
          \/ token'[u] \in {token[u], NoToken}
          \/ /\ u \in minted
             /\ token'[u].op = "void"
             /\ Legs(u) = {token'[u].from.row, token'[u].to.row}
             /\ token'[u].from.row # token'[u].to.row
             /\ token'[u].from.amount = -token'[u].to.amount
  BY <1>1, <1>6, <1>8, PairFacts DEF IInv, TypeOK
<1>11. x \in Row /\ y \in Row
  BY <1>3 DEF Row
<1>12. /\ t \in TransferId /\ f \in RowId /\ o \in RowId /\ f # o
       /\ Legs(t) = {f, o} /\ Mirror(f, o)
  BY <1>1, PairFacts
<1>13. x.cat = y.cat
  BY <1>4, <1>6
<1> HIDE DEF x, y, k
<1> QED
  BY <1>4, <1>5, <1>8, <1>9, <1>10, <1>11, <1>12, <1>13, PairRewriteKeeps

LEMMA RestoreKeeps ==
    ASSUME IInv, NEW t \in minted, NEW f \in Legs(t), NEW o \in Legs(t),
           Restore(t, f, o)
    PROVE  IInv' /\ \A r \in RowId : Fixed(r)
<1> DEFINE k == token[t]
           g == k.from.row
           h == k.to.row
           x == RestoredRow(k.from)
           y == RestoredRow(k.to)
<1>1. IsTransfer(t, f, o) /\ rows[f].kind = "regular" /\ rows[o].kind = "regular"
  BY DEF Restore, HasInvestmentLeg
<1>2. t \in TransferId /\ k \in Token /\ k # NoToken /\ k.op = "void"
  BY <1>1, PairFacts DEF Restore, IInv, TypeOK
<1>3. /\ g \in RowId /\ h \in RowId /\ g # h /\ Legs(t) = {g, h}
      /\ k.from.amount = -k.to.amount
      /\ k.from.amount \in Signed /\ k.to.amount \in Signed
      /\ k.from.status \in Status /\ k.to.status \in Status
  BY <1>2, TokenFields DEF IInv, TokensFit
<1>4. (g = f /\ h = o) \/ (g = o /\ h = f)
  BY <1>1, <1>3, PairFacts
<1>5. Mirror(g, h) /\ rows[g].kind = "regular" /\ rows[h].kind = "regular"
  BY <1>1, <1>4, PairFacts DEF Mirror, HasInvestmentLeg
<1>6. rows[g] \in RegularRow /\ rows[h] \in RegularRow
  BY <1>1, <1>4, PairFacts, RowFields
<1>7. x \in RegularRow /\ y \in RegularRow
  BY <1>3, <1>6, RegularMark DEF RestoredRow
<1>8. /\ x.amount = k.from.amount /\ x.acct = rows[g].acct /\ x.other = rows[g].other
      /\ x.tid = rows[g].tid /\ x.kind = rows[g].kind /\ x.cat = rows[g].cat
      /\ y.amount = k.to.amount /\ y.acct = rows[h].acct /\ y.other = rows[h].other
      /\ y.tid = rows[h].tid /\ y.kind = rows[h].kind /\ y.cat = rows[h].cat
  BY <1>6 DEF RestoredRow, RegularRow
<1>9. rows[g].cat = rows[h].cat
  BY <1>5 DEF Mirror, HasInvestmentLeg
<1>10. x \in Row /\ y \in Row
  BY <1>7 DEF Row
<1>11. /\ rows' = [rows EXCEPT ![g] = x, ![h] = y]
       /\ token' = [token EXCEPT ![t] = NoToken]
       /\ UNCHANGED <<open, minted, job>>
  BY DEF Restore, Write
<1>12. token' \in [TransferId -> Token \cup {NoToken}]
  BY <1>11 DEF IInv, TypeOK
<1>13. \A u \in TransferId : token'[u] \in {token[u], NoToken}
  BY <1>11 DEF IInv, TypeOK
<1> HIDE DEF x, y, g, h, k
<1> QED
  BY <1>2, <1>3, <1>5, <1>8, <1>9, <1>10, <1>11, <1>12, <1>13, PairRewriteKeeps

LEMMA DeleteKeeps ==
    ASSUME IInv, NEW t \in minted, NEW f \in Legs(t), NEW o \in Legs(t),
           Delete(t, f, o)
    PROVE  IInv' /\ \A x \in RowId : Touched(t, x)
<1> DEFINE k == [op |-> "delete", spec |-> SpecOf(f, o, f)]
<1>1. IsTransfer(t, f, o)
  BY DEF Delete
<1>2. k \in Token
  BY <1>1, PairFacts, SpecOfType DEF Token
<1>3. /\ rows' = [rows EXCEPT ![f] = Deleted, ![o] = Deleted]
      /\ token' = [token EXCEPT ![t] = k]
      /\ UNCHANGED <<open, minted, job>>
      /\ job["managed"] = Idle
  BY DEF Delete, Write, ManagerFree
<1>4. TypeOK'
  BY <1>1, <1>2, <1>3, PairFacts DEF IInv, TypeOK
<1>5. /\ rows'[f] = Deleted /\ rows'[o] = Deleted
      /\ \A r \in RowId \ {f, o} : rows'[r] = rows[r]
  BY <1>1, <1>3, PairFacts DEF IInv, TypeOK
<1>6. \A r \in RowId : Touched(t, r)
  BY <1>1, <1>5, PairFacts DEF Touched
<1>7. Legs(t)' = {}
  BY <1>1, <1>5, PairFacts DEF Legs, Live
<1>8. token'[t] = k /\ \A u \in TransferId \ {t} : token'[u] = token[u]
  BY <1>1, <1>3, PairFacts DEF IInv, TypeOK
<1>9. token'[t].op = "delete"
  BY <1>8
<1>10. \A lane \in Lane :
        \/ job'[lane] = Idle
        \/ /\ job'[lane] = job[lane]
           /\ job[lane] # Idle /\ job[lane].op = "recreate" => job[lane].tid # t
  BY <1>3 DEF IInv, JobsChecked, JobChecked
<1> QED
  BY <1>1, <1>3, <1>4, <1>6, <1>7, <1>8, <1>9, <1>10, PairFacts, TableKeeps

----------------------------------------------------------------------------
(* The actions that only write status marks.                               *)

OnlyMarked(r) ==
    \/ rows'[r] = rows[r]
    \/ /\ Live(r)
       /\ rows'[r] \in Row
       /\ rows'[r].acct = rows[r].acct /\ rows'[r].other = rows[r].other
       /\ rows'[r].tid = rows[r].tid /\ rows'[r].kind = rows[r].kind
       /\ rows'[r].amount = rows[r].amount /\ rows'[r].cat = rows[r].cat
       /\ rows'[r].date = rows[r].date

OnlyMarks ==
    /\ rows' \in [RowId -> Row \cup {Unused, Deleted}]
    /\ \A r \in RowId : OnlyMarked(r)
    /\ UNCHANGED <<open, minted, token, job>>

LEMMA MarksKeep ==
    ASSUME IInv, OnlyMarks
    PROVE  IInv'
<1>1. TypeOK'
  BY DEF IInv, TypeOK, OnlyMarks
<1>2. \A r \in RowId : Fixed(r)
  BY NullAssumption DEF Fixed, OnlyMarked, OnlyMarks, Live
<1>3. ASSUME NEW t \in TransferId, NEW f \in RowId, NEW o \in RowId,
             Legs(t) = {f, o}, Mirror(f, o)
      PROVE  StillCancels(f, o)
  BY <1>3 DEF StillCancels, Mirror, HasInvestmentLeg, OnlyMarked, OnlyMarks
<1> QED
  BY <1>1, <1>2, <1>3, InPlaceKeeps DEF OnlyMarks

LEMMA MarkedRow ==
    ASSUME NEW r \in RowId, rows[r] \in Row, NEW s \in InputStatus
    PROVE  LET x == WithStatus(r, s) IN
           /\ x \in Row
           /\ x.acct = rows[r].acct /\ x.other = rows[r].other
           /\ x.tid = rows[r].tid /\ x.kind = rows[r].kind
           /\ x.amount = rows[r].amount /\ x.cat = rows[r].cat /\ x.date = rows[r].date
<1>1. CASE rows[r].kind = "regular"
  <2>1. rows[r] \in RegularRow /\ WithStatus(r, s) = [rows[r] EXCEPT !.status = s]
    BY <1>1, RowFields DEF WithStatus, StoredStatus
  <2>2. WithStatus(r, s) \in RegularRow
    BY <2>1 DEF RegularRow, InputStatus, Status
  <2> QED
    BY <2>1, <2>2 DEF Row, RegularRow
<1>2. CASE rows[r].kind # "regular"
  <2>1. /\ rows[r] \in InvestmentRow
        /\ WithStatus(r, s) = [rows[r] EXCEPT !.status = StatusFromRegular(s)]
    BY <1>2, RowFields DEF WithStatus, StoredStatus
  <2>2. StatusFromRegular(s) \in InvStatus
    BY DEF InputStatus, StatusFromRegular, InvStatus
  <2>3. WithStatus(r, s) \in InvestmentRow
    BY <2>1, <2>2, InvestmentMark
  <2> QED
    BY <2>1, <2>3 DEF Row, InvestmentRow
<1> QED
  BY <1>1, <1>2

LEMMA SetStatusMarks ==
    ASSUME IInv, NEW t \in minted, NEW f \in Legs(t), NEW o \in Legs(t),
           NEW s \in InputStatus, SetStatus(t, f, o, s)
    PROVE  OnlyMarks
<1> DEFINE x == WithStatus(f, s)
           y == WithStatus(o, s)
<1>1. IsTransfer(t, f, o) /\ rows' = [rows EXCEPT ![f] = x, ![o] = y]
  BY DEF SetStatus, Write
<1>2. f \in RowId /\ o \in RowId /\ f # o /\ Live(f) /\ Live(o)
      /\ rows[f] \in Row /\ rows[o] \in Row
  BY <1>1, PairFacts
<1>3. /\ rows'[f] = x /\ rows'[o] = y
      /\ \A r \in RowId \ {f, o} : rows'[r] = rows[r]
  BY <1>1, <1>2 DEF IInv, TypeOK
<1>4. OnlyMarked(f) /\ OnlyMarked(o) /\ x \in Row /\ y \in Row
  BY <1>2, <1>3, MarkedRow DEF OnlyMarked
<1>5. \A r \in RowId : OnlyMarked(r)
  BY <1>3, <1>4 DEF OnlyMarked
<1>6. rows' \in [RowId -> Row \cup {Unused, Deleted}]
  BY <1>1, <1>4 DEF IInv, TypeOK
<1> QED
  BY <1>5, <1>6 DEF OnlyMarks, SetStatus, Write

LEMMA SetLegStatusMarks ==
    ASSUME IInv, NEW t \in minted, NEW f \in Legs(t), NEW o \in Legs(t),
           NEW r \in {f, o}, NEW s \in InputStatus, SetLegStatus(t, f, o, r, s)
    PROVE  OnlyMarks
<1> DEFINE x == WithStatus(r, s)
<1>1. IsTransfer(t, f, o) /\ rows' = [rows EXCEPT ![r] = x]
  BY DEF SetLegStatus, Write
<1>2. r \in RowId /\ Live(r) /\ rows[r] \in Row
  BY <1>1, PairFacts
<1>3. rows'[r] = x /\ \A q \in RowId \ {r} : rows'[q] = rows[q]
  BY <1>1, <1>2 DEF IInv, TypeOK
<1>4. OnlyMarked(r) /\ x \in Row
  BY <1>2, <1>3, MarkedRow DEF OnlyMarked
<1>5. \A q \in RowId : OnlyMarked(q)
  BY <1>3, <1>4 DEF OnlyMarked
<1>6. rows' \in [RowId -> Row \cup {Unused, Deleted}]
  BY <1>1, <1>4 DEF IInv, TypeOK
<1> QED
  BY <1>5, <1>6 DEF OnlyMarks, SetLegStatus, Write

LEMMA MarkRowMarks ==
    ASSUME IInv, NEW r \in RowId, NEW s \in InputStatus, MarkRow(r, s)
    PROVE  OnlyMarks
<1> DEFINE x == [rows[r] EXCEPT !.status = s]
<1>1. Live(r) /\ rows[r] \in RegularRow
  BY RowFields DEF MarkRow, Live, IInv, TypeOK
<1>2. x \in RegularRow /\ x \in Row
  BY <1>1 DEF RegularRow, Row, InputStatus, Status
<1>3. rows' = [rows EXCEPT ![r] = x]
  BY DEF MarkRow, Write
<1>4. rows'[r] = x /\ \A q \in RowId \ {r} : rows'[q] = rows[q]
  BY <1>3 DEF IInv, TypeOK
<1>5. OnlyMarked(r)
  BY <1>1, <1>2, <1>4 DEF OnlyMarked, RegularRow
<1>6. \A q \in RowId : OnlyMarked(q)
  BY <1>4, <1>5 DEF OnlyMarked
<1>7. rows' \in [RowId -> Row \cup {Unused, Deleted}]
  BY <1>2, <1>3 DEF IInv, TypeOK
<1> QED
  BY <1>6, <1>7 DEF OnlyMarks, MarkRow, Write

LEMMA ManyMarksOnly ==
    ASSUME IInv, NEW a \in Account, NEW S \in SUBSET RegisterRows(a),
           NEW st \in [S -> Status], Write(WithStatuses(S, st)), UNCHANGED token
    PROVE  OnlyMarks
<1>1. ASSUME NEW r \in S
      PROVE  /\ r \in RowId /\ Live(r) /\ rows[r] \in RegularRow
             /\ [rows[r] EXCEPT !.status = st[r]] \in RegularRow
  <2>1. r \in RowId /\ Live(r) /\ rows[r] \in RegularRow
    BY RowFields DEF RegisterRows, Live, IInv, TypeOK
  <2> QED
    BY <2>1 DEF RegularRow
<1>2. \A r \in RowId : rows'[r] = IF r \in S THEN [rows[r] EXCEPT !.status = st[r]] ELSE rows[r]
  BY DEF Write, WithStatuses
<1>3. ASSUME NEW r \in RowId PROVE OnlyMarked(r)
  <2>1. CASE r \notin S
    BY <1>2, <2>1 DEF OnlyMarked
  <2>2. CASE r \in S
    <3>1. rows'[r] = [rows[r] EXCEPT !.status = st[r]]
      BY <1>2, <2>2
    <3> QED
      BY <1>1, <2>2, <3>1 DEF OnlyMarked, RegularRow, Row
  <2> QED
    BY <2>1, <2>2
<1>4. rows' \in [RowId -> Row \cup {Unused, Deleted}]
  BY <1>1 DEF Write, WithStatuses, IInv, TypeOK, Row
<1> QED
  BY <1>3, <1>4 DEF OnlyMarks, Write

LEMMA ReconcileMarks ==
    ASSUME IInv, NEW a \in Account, NEW S \in SUBSET RegisterRows(a), Reconcile(a, S)
    PROVE  OnlyMarks
<1>1. [r \in S |-> "reconciled"] \in [S -> Status]
  BY DEF Status
<1> QED
  BY <1>1, ManyMarksOnly DEF Reconcile

LEMMA UndoFinishMarks ==
    ASSUME IInv, NEW a \in Account, NEW S \in SUBSET RegisterRows(a),
           NEW before \in [S -> InputStatus], UndoFinish(a, S, before)
    PROVE  OnlyMarks
<1>1. before \in [S -> Status]
  BY DEF InputStatus, Status
<1> QED
  BY <1>1, ManyMarksOnly DEF UndoFinish

----------------------------------------------------------------------------
(* The theorems.                                                           *)

LEMMA InitIInv == Init => IInv
<1> SUFFICES ASSUME Init PROVE IInv
  OBVIOUS
<1>1. TypeOK
  BY DEF Init, TypeOK
<1>2. \A t : Legs(t) = {}
  BY DEF Init, Legs, Live
<1> QED
  BY <1>1, <1>2 DEF IInv, Init, PairMirror, UnmintedUnused, TokensFit, JobsChecked

LEMMA NextIInv == IInv /\ [Next]_vars => IInv'
<1> SUFFICES ASSUME IInv, [Next]_vars PROVE IInv'
  OBVIOUS
<1>1. CASE UNCHANGED vars
  <2>1. TypeOK'
    BY <1>1 DEF IInv, TypeOK, vars
  <2> QED
    BY <1>1, <2>1, QuietKeeps DEF vars
<1>2. CASE JobNext
  BY <1>2, BeginCreateKeeps, BeginRecreateKeeps, BeginReplaceKeeps, BeginPlainKeeps,
     BeginCloseKeeps, FinishCreateKeeps, FinishRecreateKeeps, FinishReplaceKeeps,
     FinishPlainKeeps, FinishCloseKeeps, AbortKeeps DEF JobNext
<1>3. CASE TransferNext
  BY <1>3, DeleteKeeps, VoidKeeps, RestoreKeeps, SetLegStatusMarks, SetStatusMarks,
     MarksKeep, UpdateKeeps, ReverseKeeps DEF TransferNext
<1>4. CASE OtherNext
  BY <1>4, DeletePlainKeeps, MarkRowMarks, ReconcileMarks, UndoFinishMarks,
     MarksKeep, ReopenKeeps, RestartKeeps DEF OtherNext
<1> QED
  BY <1>1, <1>2, <1>3, <1>4 DEF Next

(* Every reachable state is well typed: a row read back from               *)
(* investment_transactions never has a category or the void status.        *)
THEOREM TypeCorrect == Spec => []TypeOK
<1>1. IInv => TypeOK
  BY DEF IInv
<1> QED
  BY <1>1, InitIInv, NextIInv, PTL DEF Spec

(* Every transfer id names no rows or two that mirror each other, after    *)
(* any sequence and interleaving of the operations.                        *)
THEOREM AlwaysPairs == Spec => []PairMirror
<1>1. IInv => PairMirror
  BY DEF IInv
<1> QED
  BY <1>1, InitIInv, NextIInv, PTL DEF Spec

----------------------------------------------------------------------------
(* The lock of reconciled rows, what a void mark means, and the checks made*)
(* before a transaction.                                                   *)

Locked(r) ==
    /\ Live(r) /\ LegStatus(r) = "reconciled"
    /\ rows[r].kind = "regular" \/ rows[r].tid # NoTransfer

(* What any step may do to one row.                                        *)
Written(r) == rows[r] = Unused /\ rows'[r].status # "void"
Removed(r) == Live(r) /\ ~ Locked(r) /\ rows'[r] = Deleted
Changed(r) ==
    /\ Live(r) /\ ~ Locked(r) /\ Live(r)'
    /\ rows'[r].status = "void" => rows'[r].amount = 0
Remarked(r) == Live(r) /\ Live(r)' /\ OnlyMarked(r) /\ rows'[r].status # "void"

Lawful(r) == rows'[r] = rows[r] \/ Written(r) \/ Removed(r) \/ Changed(r) \/ Remarked(r)

(* A void row has no money, wherever the other leg is.                     *)
VoidRowsEmpty ==
    \A r \in RowId : Live(r) /\ rows[r].status = "void" => rows[r].amount = 0

(* A void command's snapshots are of legs that were not void.              *)
TokensLive ==
    \A t \in TransferId : LET k == token[t] IN
        k # NoToken /\ k.op = "void" => "void" \notin {k.from.status, k.to.status}

PlainLive ==
    LET j == job["direct"] IN j # Idle /\ j.op = "plain" => j.new.status # "void"

(* Accounts found open by a managed command are still open.                *)
OpenChecked ==
    LET j == job["managed"] IN
    j # Idle /\ j.op \in {"create", "recreate"} => {j.spec.from, j.spec.to} \subseteq open

SInv == IInv /\ VoidRowsEmpty /\ TokensLive /\ PlainLive /\ OpenChecked

----------------------------------------------------------------------------
(* The operations that check first.                                        *)

LEMMA LiveRow ==
    ASSUME TypeOK, NEW r \in RowId
    PROVE  Live(r) <=> rows[r] \in Row
BY NullAssumption DEF TypeOK, Live

LEMMA NewLegLive ==
    ASSUME NEW t, NEW a, NEW b, NEW n, NEW s, s.status # "void"
    PROVE  NewLeg(t, a, b, n, s).status # "void"
BY DEF NewLeg, StatusFromRegular

LEMMA PairLawful ==
    ASSUME IInv, NEW f \in RowId, NEW o \in RowId, FreshPair(f, o),
           NEW t, NEW s, s.status # "void",
           NEW table \in [RowId -> Row \cup {Unused, Deleted}],
           rows' = WithPair(table, t, f, o, s)
    PROVE  /\ Written(f) /\ Written(o)
           /\ \A r \in RowId \ {f, o} : rows'[r] = table[r]
<1>1. /\ rows'[f] = NewLeg(t, s.from, s.to, -s.amount, s)
      /\ rows'[o] = NewLeg(t, s.to, s.from, s.amount, s)
      /\ \A r \in RowId \ {f, o} : rows'[r] = table[r]
  BY DEF WithPair, FreshPair
<1> QED
  BY <1>1, NewLegLive DEF Written, FreshPair

LEMMA FinishLawful ==
    ASSUME IInv, PlainLive,
           \/ \E t \in TransferId, f, o \in RowId : FinishCreate(t, f, o)
           \/ \E f, o \in RowId : FinishRecreate(f, o)
           \/ \E t \in TransferId, f, o \in RowId : FinishReplace(t, f, o)
           \/ \E r \in RowId : FinishPlain(r)
    PROVE  \A r \in RowId : Lawful(r)
<1>1. ASSUME NEW t \in TransferId, NEW f \in RowId, NEW o \in RowId, FinishCreate(t, f, o)
      PROVE  \A r \in RowId : Lawful(r)
  <2>1. job["managed"].spec.status # "void"
    BY <1>1 DEF IInv, JobsChecked, JobChecked, SpecChecked, FinishCreate, Lane
  <2>2. /\ Written(f) /\ Written(o)
        /\ \A r \in RowId \ {f, o} : rows'[r] = rows[r]
    BY <1>1, <2>1, PairLawful DEF FinishCreate, IInv, TypeOK
  <2> QED
    BY <2>2 DEF Lawful
<1>2. ASSUME NEW f \in RowId, NEW o \in RowId, FinishRecreate(f, o)
      PROVE  \A r \in RowId : Lawful(r)
  <2>1. job["managed"].spec.status # "void"
    BY <1>2 DEF IInv, JobsChecked, JobChecked, SpecChecked, FinishRecreate, Lane
  <2>2. /\ Written(f) /\ Written(o)
        /\ \A r \in RowId \ {f, o} : rows'[r] = rows[r]
    BY <1>2, <2>1, PairLawful DEF FinishRecreate, IInv, TypeOK
  <2> QED
    BY <2>2 DEF Lawful
<1>3. ASSUME NEW t \in TransferId, NEW f \in RowId, NEW o \in RowId, FinishReplace(t, f, o)
      PROVE  \A r \in RowId : Lawful(r)
  <2> DEFINE j == job["direct"]
             table == [rows EXCEPT ![j.row] = Deleted]
  <2>1. /\ j.spec.status # "void" /\ j.row \in RowId /\ Live(j.row)
        /\ rows[j.row].tid = NoTransfer /\ rows[j.row].kind # "regular"
    BY <1>3, JobFields DEF IInv, TypeOK, JobsChecked, JobChecked, SpecChecked, FinishReplace, Lane
  <2>2. /\ table[j.row] = Deleted /\ \A r \in RowId \ {j.row} : table[r] = rows[r]
        /\ table \in [RowId -> Row \cup {Unused, Deleted}]
    BY <2>1 DEF IInv, TypeOK
  <2>3. j.row \notin {f, o}
    BY <1>3, <2>1 DEF FinishReplace, FreshPair, Live
  <2>4. rows' = WithPair(table, t, f, o, j.spec) /\ FreshPair(f, o)
    BY <1>3 DEF FinishReplace
  <2> HIDE DEF table
  <2>5. /\ Written(f) /\ Written(o)
        /\ \A r \in RowId \ {f, o} : rows'[r] = table[r]
    BY <2>1, <2>2, <2>3, <2>4, PairLawful
  <2>6. Removed(j.row)
    BY <2>1, <2>2, <2>3, <2>5 DEF Removed, Locked
  <2> QED
    BY <2>2, <2>5, <2>6 DEF Lawful
<1>4. ASSUME NEW r \in RowId, FinishPlain(r)
      PROVE  \A x \in RowId : Lawful(x)
  <2>1. /\ rows'[r] = job["direct"].new /\ rows[r] = Unused
        /\ \A x \in RowId \ {r} : rows'[x] = rows[x]
    BY <1>4 DEF FinishPlain, IInv, TypeOK
  <2>2. Written(r)
    BY <1>4, <2>1 DEF FinishPlain, PlainLive, Written
  <2> QED
    BY <2>1, <2>2 DEF Lawful
<1> QED
  BY <1>1, <1>2, <1>3, <1>4

----------------------------------------------------------------------------
(* The operations on a transfer.                                           *)

(* A pair that is changed in place: what has to be known of both rows.     *)
LEMMA BothLawful ==
    ASSUME IInv, NEW f \in RowId, NEW o \in RowId, NEW x, NEW y, f # o,
           rows' = [rows EXCEPT ![f] = x, ![o] = y],
           rows'[f] = x => Lawful(f), rows'[o] = y => Lawful(o)
    PROVE  \A r \in RowId : Lawful(r)
<1>1. /\ rows'[f] = x /\ rows'[o] = y
      /\ \A r \in RowId \ {f, o} : rows'[r] = rows[r]
  BY DEF IInv, TypeOK
<1> QED
  BY <1>1 DEF Lawful

LEMMA UnlockedLegs ==
    ASSUME NEW f, NEW o, CheckMutable(f, o)
    PROVE  ~ Locked(f) /\ ~ Locked(o)
BY DEF CheckMutable, Locked

LEMMA StoredLive ==
    ASSUME NEW r, NEW s, s # "void"
    PROVE  StoredStatus(r, s) # "void"
BY DEF StoredStatus, StatusFromRegular

LEMMA RewrittenLive ==
    ASSUME IInv, NEW r \in RowId, Live(r), ~ Locked(r), NEW n \in Signed, NEW e,
           e.date \in Date, e.cat \in Category \cup {NoCategory},
           e.status \in Status \ {"void"}, rows'[r] = Rewritten(r, n, e)
    PROVE  Changed(r)
<1>1. rows[r] \in Row
  BY LiveRow DEF IInv
<1>2. Rewritten(r, n, e) \in Row
  BY <1>1, RewrittenType
<1>3. Rewritten(r, n, e).status = StoredStatus(r, e.status)
  BY <1>1 DEF Rewritten, Row, RegularRow, InvestmentRow
<1> QED
  BY <1>2, <1>3, StoredLive, NullAssumption DEF Changed, Live

LEMMA UpdateLawful ==
    ASSUME IInv, NEW t \in minted, NEW f \in Legs(t), NEW o \in Legs(t),
           NEW e \in Edit, Update(t, f, o, e)
    PROVE  \A r \in RowId : Lawful(r)
<1>1. /\ IsTransfer(t, f, o) /\ CheckMutable(f, o)
      /\ rows' = [rows EXCEPT ![f] = Rewritten(f, -e.amount, e), ![o] = Rewritten(o, e.amount, e)]
  BY DEF Update, Write, CheckLive
<1>2. /\ e.date \in Date /\ e.cat \in Category \cup {NoCategory}
      /\ e.status \in Status \ {"void"} /\ e.amount \in Signed /\ -e.amount \in Signed
  BY DEF Edit, Update, GuardSpec, Signed
<1>3. /\ f \in RowId /\ o \in RowId /\ f # o /\ Live(f) /\ Live(o)
      /\ ~ Locked(f) /\ ~ Locked(o)
  BY <1>1, PairFacts, UnlockedLegs
<1>4. rows'[f] = Rewritten(f, -e.amount, e) => Lawful(f)
  BY <1>2, <1>3, RewrittenLive DEF Lawful
<1>5. rows'[o] = Rewritten(o, e.amount, e) => Lawful(o)
  BY <1>2, <1>3, RewrittenLive DEF Lawful
<1> QED
  BY <1>1, <1>3, <1>4, <1>5, BothLawful

LEMMA ReverseLawful ==
    ASSUME IInv, NEW t \in minted, NEW f \in Legs(t), NEW o \in Legs(t), Reverse(t, f, o)
    PROVE  \A r \in RowId : Lawful(r)
<1> DEFINE s == [SpecOf(f, o, f) EXCEPT !.from = rows[o].acct, !.to = rows[f].acct]
<1>1. /\ IsTransfer(t, f, o) /\ CheckMutable(f, o) /\ s.status # "void"
      /\ rows' = [rows EXCEPT ![f] = Rewritten(f, s.amount, s), ![o] = Rewritten(o, -s.amount, s)]
  BY DEF Reverse, Write, CheckLive, GuardSpec
<1>2. /\ f \in RowId /\ o \in RowId /\ f # o /\ Live(f) /\ Live(o)
      /\ rows[f] \in Row /\ rows[o] \in Row
      /\ ~ Locked(f) /\ ~ Locked(o)
  BY <1>1, PairFacts, UnlockedLegs
<1>3. SpecOf(f, o, f) \in TransferSpec
  BY <1>2, SpecOfType
<1>4. /\ s.date \in Date /\ s.cat \in Category \cup {NoCategory}
      /\ s.status \in Status \ {"void"} /\ s.amount \in Amount \cup {0}
  BY <1>1, <1>3 DEF TransferSpec
<1> HIDE DEF s
<1>5. s.amount \in Signed /\ -s.amount \in Signed
  BY <1>4, SignedInt DEF Signed
<1>6. rows'[f] = Rewritten(f, s.amount, s) => Lawful(f)
  BY <1>2, <1>4, <1>5, RewrittenLive DEF Lawful
<1>7. rows'[o] = Rewritten(o, -s.amount, s) => Lawful(o)
  BY <1>2, <1>4, <1>5, RewrittenLive DEF Lawful
<1> QED
  BY <1>1, <1>2, <1>6, <1>7, BothLawful

LEMMA VoidLawful ==
    ASSUME IInv, NEW t \in minted, NEW f \in Legs(t), NEW o \in Legs(t), Void(t, f, o)
    PROVE  \A r \in RowId : Lawful(r)
<1>1. /\ IsTransfer(t, f, o) /\ CheckMutable(f, o)
      /\ rows[f].kind = "regular" /\ rows[o].kind = "regular"
      /\ rows' = [rows EXCEPT ![f] = VoidedRow(f), ![o] = VoidedRow(o)]
  BY DEF Void, Write, CheckLive, HasInvestmentLeg
<1>2. /\ f \in RowId /\ o \in RowId /\ f # o /\ Live(f) /\ Live(o)
      /\ ~ Locked(f) /\ ~ Locked(o)
      /\ rows[f] \in RegularRow /\ rows[o] \in RegularRow
  BY <1>1, PairFacts, UnlockedLegs, RowFields
<1>3. ASSUME NEW r \in {f, o}
      PROVE  VoidedRow(r) \in Row /\ VoidedRow(r).amount = 0
  <2>1. rows[r] \in RegularRow
    BY <1>2
  <2>2. VoidedRow(r) \in RegularRow
    BY <2>1, RegularMark DEF VoidedRow, Signed, Status
  <2> QED
    BY <2>1, <2>2 DEF VoidedRow, Row, RegularRow
<1>4. ASSUME NEW r \in {f, o}, rows'[r] = VoidedRow(r)
      PROVE  Lawful(r)
  BY <1>2, <1>3, <1>4, NullAssumption DEF Lawful, Changed, Live
<1> QED
  BY <1>1, <1>2, <1>4, BothLawful

LEMMA RestoreLawful ==
    ASSUME IInv, TokensLive, NEW t \in minted, NEW f \in Legs(t), NEW o \in Legs(t),
           Restore(t, f, o)
    PROVE  \A r \in RowId : Lawful(r)
<1> DEFINE k == token[t]
           g == k.from.row
           h == k.to.row
           x == RestoredRow(k.from)
           y == RestoredRow(k.to)
<1>1. /\ IsTransfer(t, f, o) /\ rows[f].kind = "regular" /\ rows[o].kind = "regular"
      /\ rows[f].status = "void" /\ rows[o].status = "void"
      /\ k # NoToken /\ k.op = "void" /\ {g, h} = {f, o}
      /\ rows' = [rows EXCEPT ![g] = x, ![h] = y]
  BY DEF Restore, Write, HasInvestmentLeg
<1>2. /\ t \in TransferId /\ f \in RowId /\ o \in RowId /\ f # o
      /\ Live(f) /\ Live(o)
      /\ rows[f] \in RegularRow /\ rows[o] \in RegularRow
  BY <1>1, PairFacts, RowFields
<1>3. g \in {f, o} /\ h \in {f, o} /\ g # h
  BY <1>1, <1>2
<1>4. /\ k.from.amount \in Signed /\ k.to.amount \in Signed
      /\ k.from.status \in Status \ {"void"} /\ k.to.status \in Status \ {"void"}
  BY <1>1, <1>2, TokenFields DEF IInv, TypeOK, TokensLive
<1>5. ASSUME NEW leg, leg.row \in {f, o}, leg.amount \in Signed,
             leg.status \in Status \ {"void"}
      PROVE  RestoredRow(leg) \in Row /\ RestoredRow(leg).status # "void"
  BY <1>2, <1>5, RegularMark DEF RestoredRow, Row, RegularRow
<1>6. ASSUME NEW r \in {f, o}, rows'[r] \in Row, rows'[r].status # "void"
      PROVE  Lawful(r)
  <2>1. ~ Locked(r)
    BY <1>1 DEF Locked, LegStatus, StatusToRegular
  <2> QED
    BY <1>2, <1>6, <2>1, NullAssumption DEF Lawful, Changed, Live
<1>7. rows'[g] = x => Lawful(g)
  BY <1>3, <1>4, <1>5, <1>6
<1>8. rows'[h] = y => Lawful(h)
  BY <1>3, <1>4, <1>5, <1>6
<1>9. rows' = [rows EXCEPT ![g] = x, ![h] = y] /\ g \in RowId /\ h \in RowId
  BY <1>1, <1>2, <1>3
<1> HIDE DEF x, y, g, h, k
<1> QED
  BY <1>3, <1>7, <1>8, <1>9, BothLawful

LEMMA DeleteLawful ==
    ASSUME IInv, NEW t \in minted, NEW f \in Legs(t), NEW o \in Legs(t), Delete(t, f, o)
    PROVE  \A r \in RowId : Lawful(r)
<1>1. /\ IsTransfer(t, f, o) /\ CheckMutable(f, o)
      /\ rows' = [rows EXCEPT ![f] = Deleted, ![o] = Deleted]
  BY DEF Delete, Write
<1>2. /\ f \in RowId /\ o \in RowId /\ f # o /\ Live(f) /\ Live(o)
      /\ ~ Locked(f) /\ ~ Locked(o)
  BY <1>1, PairFacts, UnlockedLegs
<1>3. ASSUME NEW r \in {f, o}, rows'[r] = Deleted
      PROVE  Lawful(r)
  BY <1>2, <1>3 DEF Lawful, Removed
<1> QED
  BY <1>1, <1>2, <1>3, BothLawful

LEMMA MarkedLawful ==
    ASSUME NEW r \in RowId, Live(r), rows[r] \in Row, NEW s \in InputStatus,
           rows'[r] = WithStatus(r, s)
    PROVE  Lawful(r)
<1>1. WithStatus(r, s).status = StoredStatus(r, s)
  BY DEF WithStatus, Row, RegularRow, InvestmentRow
<1>2. StoredStatus(r, s) # "void"
  BY StoredLive DEF InputStatus
<1>3. OnlyMarked(r) /\ Live(r)'
  BY MarkedRow, NullAssumption DEF OnlyMarked, Live
<1> QED
  BY <1>1, <1>2, <1>3 DEF Lawful, Remarked

LEMMA SetStatusLawful ==
    ASSUME IInv, NEW t \in minted, NEW f \in Legs(t), NEW o \in Legs(t),
           NEW s \in InputStatus, SetStatus(t, f, o, s)
    PROVE  \A r \in RowId : Lawful(r)
<1>1. /\ IsTransfer(t, f, o) /\ s # "void"
      /\ rows' = [rows EXCEPT ![f] = WithStatus(f, s), ![o] = WithStatus(o, s)]
  BY DEF SetStatus, Write
<1>2. f \in RowId /\ o \in RowId /\ f # o
  BY <1>1, PairFacts
<1>3. ASSUME NEW r \in {f, o}, rows'[r] = WithStatus(r, s)
      PROVE  Lawful(r)
  <2>1. r \in RowId /\ Live(r) /\ rows[r] \in Row
    BY <1>1, PairFacts
  <2> QED
    BY <1>3, <2>1, MarkedLawful
<1> QED
  BY <1>1, <1>2, <1>3, BothLawful

LEMMA SetLegStatusLawful ==
    ASSUME IInv, NEW t \in minted, NEW f \in Legs(t), NEW o \in Legs(t),
           NEW r \in {f, o}, NEW s \in InputStatus, SetLegStatus(t, f, o, r, s)
    PROVE  \A q \in RowId : Lawful(q)
<1>1. /\ IsTransfer(t, f, o) /\ s # "void"
      /\ rows' = [rows EXCEPT ![r] = WithStatus(r, s)]
  BY DEF SetLegStatus, Write
<1>2. r \in RowId /\ Live(r) /\ rows[r] \in Row
  BY <1>1, PairFacts
<1>3. /\ rows'[r] = WithStatus(r, s)
      /\ \A q \in RowId \ {r} : rows'[q] = rows[q]
  BY <1>1, <1>2 DEF IInv, TypeOK
<1>4. Lawful(r)
  BY <1>1, <1>2, <1>3, MarkedLawful
<1> QED
  BY <1>3, <1>4 DEF Lawful

----------------------------------------------------------------------------
(* The operations of other services.                                       *)

LEMMA MarkRowLawful ==
    ASSUME IInv, NEW r \in RowId, NEW s \in InputStatus, MarkRow(r, s)
    PROVE  \A q \in RowId : Lawful(q)
<1>1. /\ Live(r) /\ rows[r].kind = "regular"
      /\ rows' = [rows EXCEPT ![r].status = s]
  BY DEF MarkRow, Write
<1>2. /\ rows'[r] = WithStatus(r, s)
      /\ \A q \in RowId \ {r} : rows'[q] = rows[q]
  BY <1>1 DEF IInv, TypeOK, WithStatus, StoredStatus
<1>3. rows[r] \in Row
  BY <1>1, LiveRow DEF IInv
<1>4. Lawful(r)
  BY <1>1, <1>2, <1>3, MarkedLawful
<1> QED
  BY <1>2, <1>4 DEF Lawful

LEMMA ManyMarksLawful ==
    ASSUME IInv, NEW a \in Account, NEW S \in SUBSET RegisterRows(a),
           NEW st \in [S -> Status \ {"void"}], Write(WithStatuses(S, st))
    PROVE  \A r \in RowId : Lawful(r)
<1>1. \A r \in RowId : rows'[r] = IF r \in S THEN [rows[r] EXCEPT !.status = st[r]] ELSE rows[r]
  BY DEF Write, WithStatuses
<1>2. ASSUME NEW r \in S
      PROVE  Lawful(r)
  <2>1. r \in RowId /\ Live(r) /\ rows[r] \in RegularRow
    BY RowFields DEF RegisterRows, Live, IInv, TypeOK
  <2>2. rows'[r] = [rows[r] EXCEPT !.status = st[r]] /\ st[r] \in Status \ {"void"}
    BY <1>1, <2>1
  <2>3. rows'[r] \in RegularRow /\ rows'[r].status # "void"
    BY <2>1, <2>2 DEF RegularRow
  <2>4. OnlyMarked(r)
    BY <2>1, <2>2, <2>3 DEF OnlyMarked, RegularRow, Row
  <2>5. Live(r)'
    BY <2>3, NullAssumption DEF Live, Row
  <2> QED
    BY <2>1, <2>3, <2>4, <2>5 DEF Lawful, Remarked
<1> QED
  BY <1>1, <1>2 DEF Lawful

LEMMA ReconcilingLawful ==
    ASSUME IInv, NEW a \in Account, NEW S \in SUBSET RegisterRows(a),
           \/ Reconcile(a, S)
           \/ \E before \in [S -> InputStatus] : UndoFinish(a, S, before)
    PROVE  \A r \in RowId : Lawful(r)
<1>1. CASE Reconcile(a, S)
  <2>1. [r \in S |-> "reconciled"] \in [S -> Status \ {"void"}]
    BY DEF Status
  <2> QED
    BY <1>1, <2>1, ManyMarksLawful DEF Reconcile
<1>2. ASSUME NEW before \in [S -> InputStatus], UndoFinish(a, S, before)
      PROVE  \A r \in RowId : Lawful(r)
  <2>1. before \in [S -> Status \ {"void"}]
    BY DEF InputStatus, Status
  <2> QED
    BY <1>2, <2>1, ManyMarksLawful DEF UndoFinish
<1> QED
  BY <1>1, <1>2

LEMMA DeletePlainLawful ==
    ASSUME IInv, NEW r \in RowId, DeletePlain(r)
    PROVE  \A q \in RowId : Lawful(q)
<1>1. /\ rows'[r] = Deleted /\ \A q \in RowId \ {r} : rows'[q] = rows[q]
  BY DEF DeletePlain, IInv, TypeOK
<1>2. Live(r) /\ ~ Locked(r)
  BY DEF DeletePlain, PlainMutable, Plain, Locked, LegStatus, StatusToRegular
<1> QED
  BY <1>1, <1>2 DEF Lawful, Removed

----------------------------------------------------------------------------
(* Every step.                                                             *)

LEMMA NextLawful ==
    ASSUME IInv, TokensLive, PlainLive, [Next]_vars
    PROVE  \A r \in RowId : Lawful(r)
<1>1. CASE UNCHANGED rows
  BY <1>1 DEF Lawful
<1>2. CASE JobNext
  <2>1. \/ UNCHANGED rows
        \/ \E t \in TransferId, f, o \in RowId : FinishCreate(t, f, o)
        \/ \E f, o \in RowId : FinishRecreate(f, o)
        \/ \E t \in TransferId, f, o \in RowId : FinishReplace(t, f, o)
        \/ \E r \in RowId : FinishPlain(r)
    BY <1>2 DEF JobNext, Begin, BeginCreate, BeginRecreate, BeginReplace, BeginPlain,
       BeginClose, FinishClose, Abort
  <2> QED
    BY <1>1, <2>1, FinishLawful
<1>3. CASE TransferNext
  BY <1>3, DeleteLawful, VoidLawful, RestoreLawful, SetLegStatusLawful, SetStatusLawful,
     UpdateLawful, ReverseLawful DEF TransferNext
<1>4. CASE OtherNext
  <2>1. \/ UNCHANGED rows
        \/ \E r \in RowId : DeletePlain(r)
        \/ \E r \in RowId, s \in InputStatus : MarkRow(r, s)
        \/ \E a \in Account : \E S \in SUBSET RegisterRows(a) :
              \/ Reconcile(a, S)
              \/ \E before \in [S -> InputStatus] : UndoFinish(a, S, before)
    BY <1>4 DEF OtherNext, Reopen, Restart
  <2> QED
    BY <1>1, <2>1, DeletePlainLawful, MarkRowLawful, ReconcilingLawful
<1> QED
  BY <1>1, <1>2, <1>3, <1>4 DEF Next, vars

LEMMA VoidRowsStep ==
    ASSUME VoidRowsEmpty, \A r \in RowId : Lawful(r)
    PROVE  VoidRowsEmpty'
<1> SUFFICES ASSUME NEW r \in RowId, Live(r)', rows'[r].status = "void"
             PROVE  rows'[r].amount = 0
  BY DEF VoidRowsEmpty
<1>1. CASE rows'[r] = rows[r]
  BY <1>1 DEF VoidRowsEmpty, Live
<1>2. CASE Changed(r)
  BY <1>2 DEF Changed
<1> QED
  BY <1>1, <1>2 DEF Lawful, Written, Removed, Remarked, Live

(* What any step may do to a token and to the two unfinished operations.   *)
TokenStep ==
    /\ token' = token \/ job'["managed"] = Idle
    /\ \A t \in TransferId : LET k == token'[t] IN
          \/ k \in {NoToken, token[t]}
          \/ k.op = "delete"
          \/ k.to.amount >= 0 /\ "void" \notin {k.from.status, k.to.status}

(* j undoes the delete that the token of its transfer holds.               *)
Undoes(j) ==
    /\ j.op = "recreate" /\ token[j.tid] # NoToken
    /\ token[j.tid].op = "delete" /\ token[j.tid].spec = j.spec

DirectStep ==
    LET j == job'["direct"] IN
    \/ j \in {Idle, job["direct"]}
    \/ j.op = "replace" /\ GuardSpec(j.spec)
    \/ j.op = "plain" /\ j.new \in PlainRow

ManagedStep ==
    LET j == job'["managed"] IN
    \/ j = Idle
    \/ j = job["managed"] /\ open \subseteq open'
    \/ j.op = "close"
    \/ /\ GuardSpec(j.spec) /\ open' = open
       /\ j.op = "create" \/ (Undoes(j) /\ token' = token)

LEMMA Unrecorded ==
    ASSUME NEW t, NEW f, NEW o, NEW r, NEW s, NEW e,
           SetLegStatus(t, f, o, r, s) \/ SetStatus(t, f, o, s)
              \/ Update(t, f, o, e) \/ Reverse(t, f, o)
    PROVE  UNCHANGED token
BY DEF SetLegStatus, SetStatus, Update, Reverse

LEMMA OneTransaction ==
    ASSUME NEW t, NEW f, NEW o, NEW r, NEW s, NEW e,
           Delete(t, f, o) \/ Void(t, f, o) \/ Restore(t, f, o)
              \/ SetLegStatus(t, f, o, r, s) \/ SetStatus(t, f, o, s)
              \/ Update(t, f, o, e) \/ Reverse(t, f, o)
    PROVE  UNCHANGED <<open, job>>
BY DEF Delete, Void, Restore, SetLegStatus, SetStatus, Update, Reverse, Write

LEMMA TokensStep ==
    ASSUME IInv, [Next]_vars
    PROVE  TokenStep
<1>1. CASE UNCHANGED token
  BY <1>1 DEF TokenStep
<1>2. CASE \E f, o \in RowId : FinishRecreate(f, o)
  BY <1>2 DEF TokenStep, FinishRecreate, IInv, TypeOK, Lane
<1>3. ASSUME NEW t \in minted, NEW f \in Legs(t), NEW o \in Legs(t),
             Delete(t, f, o) \/ Restore(t, f, o)
      PROVE  TokenStep
  BY <1>3 DEF TokenStep, Delete, Restore, Write, ManagerFree, IInv, TypeOK
<1>4. ASSUME NEW t \in minted, NEW f \in Legs(t), NEW o \in Legs(t), Void(t, f, o)
      PROVE  TokenStep
  <2>1. rows[f].status # "void" /\ rows[o].status # "void"
    BY <1>4 DEF Void, CheckLive, LegStatus, StatusToRegular
  <2>2. rows[o].amount >= 0
    BY <1>4, PairFacts DEF Void, IsTransfer, Mirror
  <2> QED
    BY <1>4, <2>1, <2>2 DEF TokenStep, Void, Write, ManagerFree, IInv, TypeOK
<1>5. CASE Restart
  BY <1>5 DEF TokenStep, Restart, Lane
<1>6. CASE JobNext
  <2>1. UNCHANGED token \/ \E f, o \in RowId : FinishRecreate(f, o)
    BY <1>6 DEF JobNext, Begin, BeginCreate, BeginRecreate, BeginReplace, BeginPlain,
       BeginClose, FinishClose, FinishCreate, FinishReplace, FinishPlain, Abort
  <2> QED
    BY <1>1, <1>2, <2>1
<1>7. CASE TransferNext
  <2>1. PICK t \in minted : \E f, o \in Legs(t) :
           UNCHANGED token \/ Delete(t, f, o) \/ Restore(t, f, o) \/ Void(t, f, o)
    BY <1>7, Unrecorded DEF TransferNext
  <2> QED
    BY <1>1, <1>3, <1>4, <2>1
<1>8. CASE OtherNext
  BY <1>1, <1>5, <1>8 DEF OtherNext, DeletePlain, MarkRow, Reconcile, UndoFinish, Reopen
<1> QED
  BY <1>1, <1>6, <1>7, <1>8 DEF Next, vars

LEMMA JobsStep ==
    ASSUME IInv, [Next]_vars
    PROVE  DirectStep /\ ManagedStep
<1>1. CASE UNCHANGED job /\ open \subseteq open'
  BY <1>1 DEF DirectStep, ManagedStep
<1> DEFINE At(lane, j) == job' = [job EXCEPT ![lane] = j] /\ UNCHANGED open
<1>2. ASSUME NEW j, At("managed", j), 
             \/ j = Idle \/ j.op = "close"
             \/ GuardSpec(j.spec) /\ (j.op = "create" \/ (Undoes(j) /\ token' = token))
      PROVE  DirectStep /\ ManagedStep
  BY <1>2 DEF DirectStep, ManagedStep, IInv, TypeOK, Lane
<1>3. ASSUME NEW j, At("direct", j), 
             \/ j = Idle
             \/ j.op = "replace" /\ GuardSpec(j.spec)
             \/ j.op = "plain" /\ j.new \in PlainRow
      PROVE  DirectStep /\ ManagedStep
  BY <1>3 DEF DirectStep, ManagedStep, IInv, TypeOK, Lane
<1>4. ASSUME NEW s, BeginCreate(s) PROVE DirectStep /\ ManagedStep
  BY <1>2, <1>4 DEF BeginCreate, Begin
<1>5. ASSUME NEW t, BeginRecreate(t) PROVE DirectStep /\ ManagedStep
  BY <1>2, <1>5 DEF BeginRecreate, Begin, Undoes
<1>6. ASSUME NEW r, NEW s, BeginReplace(r, s) PROVE DirectStep /\ ManagedStep
  BY <1>3, <1>6 DEF BeginReplace, Begin
<1>7. ASSUME NEW new \in PlainRow, BeginPlain(new) PROVE DirectStep /\ ManagedStep
  BY <1>3, <1>7 DEF BeginPlain, Begin
<1>8. ASSUME NEW a, BeginClose(a) PROVE DirectStep /\ ManagedStep
  BY <1>2, <1>8 DEF BeginClose, Begin
<1>9. CASE FinishClose \/ Restart
  BY <1>9 DEF FinishClose, Restart, DirectStep, ManagedStep, IInv, TypeOK, Lane
<1>10. ASSUME NEW t, NEW f, NEW o, FinishCreate(t, f, o) \/ FinishRecreate(f, o)
       PROVE  DirectStep /\ ManagedStep
  BY <1>2, <1>10 DEF FinishCreate, FinishRecreate
<1>11. ASSUME NEW t, NEW f, NEW o, FinishReplace(t, f, o) \/ FinishPlain(f)
       PROVE  DirectStep /\ ManagedStep
  BY <1>3, <1>11 DEF FinishReplace, FinishPlain
<1>12. ASSUME NEW lane \in Lane, Abort(lane) PROVE DirectStep /\ ManagedStep
  BY <1>2, <1>3, <1>12 DEF Abort, Lane
<1> HIDE DEF At
<1>13. CASE JobNext
  BY <1>4, <1>5, <1>6, <1>7, <1>8, <1>9, <1>10, <1>11, <1>12, <1>13 DEF JobNext
<1>14. CASE TransferNext
  BY <1>1, <1>14, OneTransaction DEF TransferNext
<1>15. CASE OtherNext
  BY <1>1, <1>9, <1>15 DEF OtherNext, Write, DeletePlain, MarkRow, Reconcile, UndoFinish,
     Reopen
<1> QED
  BY <1>1, <1>13, <1>14, <1>15 DEF Next, vars

LEMMA InitSInv == Init => SInv
<1> SUFFICES ASSUME Init PROVE SInv
  OBVIOUS
<1>1. IInv
  BY InitIInv
<1>2. VoidRowsEmpty
  BY DEF Init, VoidRowsEmpty, Live
<1> QED
  BY <1>1, <1>2 DEF Init, SInv, TokensLive, PlainLive, OpenChecked, Lane

LEMMA NextSInv == SInv /\ [Next]_vars => SInv'
<1> SUFFICES ASSUME SInv, [Next]_vars PROVE SInv'
  OBVIOUS
<1>1. IInv'
  BY NextIInv DEF SInv
<1>2. VoidRowsEmpty'
  BY NextLawful, VoidRowsStep DEF SInv
<1>3. TokensLive'
  BY TokensStep DEF SInv, TokensLive, TokenStep
<1>4. PlainLive'
  BY JobsStep, PlainAssumption DEF SInv, PlainLive, DirectStep
<1>5. OpenChecked'
  BY JobsStep DEF SInv, OpenChecked, ManagedStep, GuardSpec
<1> QED
  BY <1>1, <1>2, <1>3, <1>4, <1>5 DEF SInv

----------------------------------------------------------------------------
(* The theorems.                                                           *)

(* Whatever the direct lane and the other services do between the checks   *)
(* and the transaction of a managed command, the accounts it was checked   *)
(* for are open when it writes and an undone delete finds its transfer id  *)
(* free.                                                                   *)
THEOREM ChecksHold == Spec => []ManagedCheckHolds
<1>1. SInv => ManagedCheckHolds
  BY DEF SInv, IInv, OpenChecked, JobsChecked, JobChecked, ManagedCheckHolds, Lane
<1> QED
  BY <1>1, InitSInv, NextSInv, PTL DEF Spec

(* A void mark on one leg means that neither leg has an amount.            *)
THEOREM VoidMeansEmpty == Spec => []VoidIsEmpty
<1>1. SInv => VoidIsEmpty
  <2> SUFFICES ASSUME SInv, NEW t \in TransferId, NEW f \in Legs(t), NEW o \in Legs(t),
                      rows[f].status = "void"
               PROVE  rows[o].amount = 0
    BY DEF VoidIsEmpty
  <2>1. /\ f \in RowId /\ Live(f) /\ rows[f].amount = 0
        /\ rows[o] \in Row
    BY LegFacts DEF SInv, IInv, VoidRowsEmpty
  <2>2. PICK g \in RowId, h \in RowId : Legs(t) = {g, h} /\ Mirror(g, h)
    BY DEF SInv, IInv, PairMirror
  <2>3. f = o \/ (f = g /\ o = h) \/ (f = h /\ o = g)
    BY <2>2
  <2>4. rows[o].amount \in Int
    BY <2>1, RowFields, SignedInt
  <2>5. f = o \/ rows[f].amount = -rows[o].amount \/ rows[o].amount = -rows[f].amount
    BY <2>2, <2>3 DEF Mirror
  <2>6. \A n \in Int : (0 = -n \/ n = -0) => n = 0
    OBVIOUS
  <2> QED
    BY <2>1, <2>4, <2>5, <2>6
<1> QED
  BY <1>1, InitSInv, NextSInv, PTL DEF Spec

(* A reconciled row of a register or of a transfer keeps its account, its  *)
(* transfer, its amount and its date, whichever service writes next.       *)
THEOREM ReconciledStays == Spec => ReconciledLocked
<1>1. SInv /\ [Next]_vars =>
        [\A r \in RowId :
            /\ Live(r) /\ LegStatus(r) = "reconciled"
            /\ rows[r].kind = "regular" \/ rows[r].tid # NoTransfer
            => /\ Live(r)'
               /\ \A c \in {"acct", "other", "tid", "amount", "date"} :
                     rows'[r][c] = rows[r][c]]_vars
  <2> SUFFICES ASSUME SInv, [Next]_vars, NEW r \in RowId, Locked(r)
               PROVE  Live(r)' /\ \A c \in {"acct", "other", "tid", "amount", "date"} :
                                     rows'[r][c] = rows[r][c]
    BY DEF Locked
  <2>1. Lawful(r)
    BY NextLawful DEF SInv
  <2>2. rows'[r] = rows[r] \/ Remarked(r)
    BY <2>1 DEF Lawful, Written, Removed, Changed, Locked, Live
  <2> QED
    BY <2>2 DEF Remarked, OnlyMarked, Locked, Live
<1> QED
  BY <1>1, InitSInv, NextSInv, PTL DEF Spec, ReconciledLocked

----------------------------------------------------------------------------
(* Transfers implements IdealTransfers: every step of the service is one   *)
(* change of one whole transfer, or a loss of undo, or nothing a caller    *)
(* sees.  Beside the invariant the mapping needs the direction of a void   *)
(* command's snapshots, and that a recreate under way writes what the      *)
(* token of its transfer holds.                                            *)

(* The views.                                                              *)

(* The views as functions of the tables, to be read before and after a step. *)
LegsIn(T, t) == {r \in RowId : T[r] \notin {Unused, Deleted} /\ T[r].tid = t}

Entry(T, t) ==
    IF LegsIn(T, t) = {} THEN Absent
    ELSE IF \A r \in LegsIn(T, t) : T[r].amount = 0
         THEN [ends |-> {T[r].acct : r \in LegsIn(T, t)}]
         ELSE [from   |-> T[CHOOSE r \in LegsIn(T, t) : T[r].amount < 0].acct,
               to     |-> T[CHOOSE r \in LegsIn(T, t) : T[r].amount > 0].acct,
               amount |-> T[CHOOSE r \in LegsIn(T, t) : T[r].amount > 0].amount]

RecalledIn(T, k) ==
    IF k.op = "void"
    THEN [from |-> T[k.from.row].acct, to |-> T[k.to.row].acct, amount |-> k.to.amount]
    ELSE [from |-> k.spec.from, to |-> k.spec.to, amount |-> k.spec.amount]

Kept(T, k) ==
    IF k = NoToken \/ RecalledIn(T, k).amount = 0 THEN Absent ELSE RecalledIn(T, k)

LEMMA Views ==
    /\ bookView = [t \in TransferId |-> Entry(rows, t)]
    /\ bookView' = [t \in TransferId |-> Entry(rows', t)]
    /\ memoryView = [t \in TransferId |-> Kept(rows, token[t])]
    /\ memoryView' = [t \in TransferId |-> Kept(rows', token'[t])]
    /\ \A t : Legs(t) = LegsIn(rows, t) /\ Legs(t)' = LegsIn(rows', t)
<1>1. \A t : Legs(t) = LegsIn(rows, t) /\ Legs(t)' = LegsIn(rows', t)
  BY DEF Legs, Live, LegsIn
<1>2. bookView = [t \in TransferId |-> Entry(rows, t)]
  BY DEF bookView, Entry, Sender, Receiver, Legs, Live, LegsIn
<1>3. bookView' = [t \in TransferId |-> Entry(rows', t)]
  BY DEF bookView, Entry, Sender, Receiver, Legs, Live, LegsIn
<1>4. memoryView = [t \in TransferId |-> Kept(rows, token[t])]
  BY DEF memoryView, Kept, Recalled, RecalledIn
<1>5. memoryView' = [t \in TransferId |-> Kept(rows', token'[t])]
  BY DEF memoryView, Kept, Recalled, RecalledIn
<1> QED
  BY <1>1, <1>2, <1>3, <1>4, <1>5

LEMMA EntryOfPair ==
    ASSUME NEW T, NEW t, NEW f, NEW o, f # o, LegsIn(T, t) = {f, o},
           T[f].amount \in Int, T[o].amount \in Int, T[f].amount = -T[o].amount
    PROVE  /\ T[o].amount > 0 =>
                Entry(T, t) = [from |-> T[f].acct, to |-> T[o].acct, amount |-> T[o].amount]
           /\ T[o].amount = 0 => Entry(T, t) = [ends |-> {T[f].acct, T[o].acct}]
<1>1. CASE T[o].amount > 0
  <2>1. T[f].amount < 0 /\ T[o].amount # 0
    BY <1>1
  <2>2. (CHOOSE r \in {f, o} : T[r].amount < 0) = f
    BY <1>1, <2>1
  <2>3. (CHOOSE r \in {f, o} : T[r].amount > 0) = o
    BY <1>1, <2>1
  <2> QED
    BY <1>1, <2>1, <2>2, <2>3 DEF Entry
<1>2. CASE T[o].amount = 0
  <2>1. T[f].amount = 0
    <3>1. \A n \in Int : n >= 0 /\ n <= 0 => -n = 0
      OBVIOUS
    <3>2. T[o].amount >= 0 /\ T[o].amount <= 0
      BY <1>2
    <3> QED
      BY <3>1, <3>2
  <2>2. {T[r].acct : r \in LegsIn(T, t)} = {T[f].acct, T[o].acct}
    OBVIOUS
  <2>3. \A r \in LegsIn(T, t) : T[r].amount = 0
    BY <1>2, <2>1
  <2>4. Entry(T, t) = [ends |-> {T[r].acct : r \in LegsIn(T, t)}]
    BY <2>3 DEF Entry
  <2> QED
    BY <1>2, <2>2, <2>4
<1> QED
  BY <1>1, <1>2


(* A void command's snapshots run the way the transfer ran.                *)
Forward ==
    \A t \in TransferId : LET k == token[t] IN
        k # NoToken /\ k.op = "void" => k.to.amount >= 0

(* What unfinished operations write moves money, and what an undone delete *)
(* writes is what the token of its transfer holds.                         *)
Committed ==
    /\ LET j == job["managed"] IN j # Idle /\ j.op \in {"create", "recreate"} =>
          /\ j.spec.amount > 0
          /\ j.op = "recreate" => Undoes(j)
    /\ LET j == job["direct"] IN j # Idle /\ j.op = "replace" => j.spec.amount > 0

RInv == SInv /\ Forward /\ Committed

LEMMA InitRInv == Init => RInv
BY InitSInv DEF Init, RInv, Forward, Committed, Lane

LEMMA NextRInv == RInv /\ [Next]_vars => RInv'
<1> SUFFICES ASSUME RInv, [Next]_vars PROVE RInv'
  OBVIOUS
<1>1. SInv'
  BY NextSInv DEF RInv
<1>2. Forward'
  BY TokensStep DEF RInv, SInv, Forward, TokenStep
<1>3. Committed'
  <2>1. DirectStep /\ ManagedStep /\ TokenStep
    BY TokensStep, JobsStep DEF RInv, SInv
  <2>2. ASSUME job'["managed"] # Idle, job'["managed"].op \in {"create", "recreate"}
        PROVE  /\ job'["managed"].spec.amount > 0
               /\ job'["managed"].op = "recreate" => Undoes(job["managed"])'
    <3>1. token' = token
      BY <2>1, <2>2 DEF TokenStep
    <3>2. CASE job'["managed"] = job["managed"]
      BY <2>2, <3>1, <3>2 DEF RInv, Committed, Undoes
    <3>3. CASE job'["managed"] # job["managed"]
      BY <2>1, <2>2, <3>1, <3>3 DEF ManagedStep, GuardSpec, Undoes
    <3> QED
      BY <3>2, <3>3
  <2>3. LET j == job'["direct"] IN j # Idle /\ j.op = "replace" => j.spec.amount > 0
    BY <2>1 DEF RInv, Committed, DirectStep, GuardSpec
  <2> QED
    BY <2>2, <2>3 DEF Committed
<1> QED
  BY <1>1, <1>2, <1>3 DEF RInv

----------------------------------------------------------------------------
(* What a step leaves of a transfer it does not touch.                     *)

(* The legs of t move what they moved.                                     *)
Unmoved(t) ==
    /\ Legs(t)' = Legs(t)
    /\ \A r \in Legs(t) : rows'[r].acct = rows[r].acct /\ rows'[r].amount = rows[r].amount

LEMMA PairOf ==
    ASSUME IInv, NEW t \in TransferId, Legs(t) # {}
    PROVE  \E f, o \in RowId :
              /\ f # o /\ Legs(t) = {f, o} /\ Mirror(f, o)
              /\ rows[f].amount \in Signed /\ rows[o].amount \in Signed
              /\ rows[f].amount \in Int /\ rows[o].amount \in Int
              /\ rows[f].amount = -rows[o].amount /\ rows[o].amount >= 0
              /\ rows[f].acct \in Account /\ rows[o].acct \in Account
              /\ rows[f].acct # rows[o].acct
<1>1. PICK f \in RowId, o \in RowId : Legs(t) = {f, o} /\ Mirror(f, o)
  BY DEF IInv, PairMirror
<1>2. rows[f] \in Row /\ rows[o] \in Row
  BY <1>1, LegFacts DEF IInv
<1>3. /\ rows[f].amount \in Signed /\ rows[o].amount \in Signed
      /\ rows[f].amount \in Int /\ rows[o].amount \in Int
      /\ rows[f].acct \in Account /\ rows[o].acct \in Account
  BY <1>2, RowFields, SignedInt
<1>4. rows[o].amount = -rows[f].amount /\ Mirror(o, f)
  BY <1>1, <1>3 DEF Mirror, HasInvestmentLeg
<1>5. CASE rows[o].amount >= 0
  BY <1>1, <1>3, <1>5 DEF Mirror
<1>6. CASE rows[f].amount >= 0
  <2>1. Legs(t) = {o, f}
    BY <1>1
  <2> QED
    BY <1>1, <1>3, <1>4, <1>6, <2>1 DEF Mirror
<1> QED
  BY <1>1, <1>3, <1>4, <1>5, <1>6 DEF Mirror

LEMMA EntryStays ==
    ASSUME IInv, NEW t \in TransferId, Unmoved(t)
    PROVE  Entry(rows', t) = Entry(rows, t)
<1>1. LegsIn(rows', t) = LegsIn(rows, t) /\ LegsIn(rows, t) = Legs(t)
  BY Views DEF Unmoved
<1>2. CASE Legs(t) = {}
  BY <1>1, <1>2 DEF Entry
<1>3. CASE Legs(t) # {}
  <2>1. PICK f \in RowId, o \in RowId :
              /\ f # o /\ Legs(t) = {f, o}
              /\ rows[f].amount \in Int /\ rows[o].amount \in Int
              /\ rows[f].amount = -rows[o].amount /\ rows[o].amount >= 0
    BY <1>3, PairOf
  <2>2. /\ rows'[f].acct = rows[f].acct /\ rows'[f].amount = rows[f].amount
        /\ rows'[o].acct = rows[o].acct /\ rows'[o].amount = rows[o].amount
    BY <2>1 DEF Unmoved
  <2>3. /\ rows[o].amount > 0 => Entry(rows, t) =
             [from |-> rows[f].acct, to |-> rows[o].acct, amount |-> rows[o].amount]
        /\ rows[o].amount = 0 => Entry(rows, t) = [ends |-> {rows[f].acct, rows[o].acct}]
    BY <1>1, <2>1, EntryOfPair
  <2>4. /\ rows'[o].amount > 0 => Entry(rows', t) =
             [from |-> rows'[f].acct, to |-> rows'[o].acct, amount |-> rows'[o].amount]
        /\ rows'[o].amount = 0 => Entry(rows', t) = [ends |-> {rows'[f].acct, rows'[o].acct}]
    BY <1>1, <2>1, <2>2, EntryOfPair
  <2>5. CASE rows[o].amount > 0
    BY <2>2, <2>3, <2>4, <2>5
  <2>6. CASE rows[o].amount = 0
    BY <2>2, <2>3, <2>4, <2>6
  <2> QED
    BY <2>1, <2>5, <2>6
<1> QED
  BY <1>2, <1>3

LEMMA KeptStays ==
    ASSUME IInv, NEW t \in TransferId,
           \A r \in Legs(t) : rows'[r].acct = rows[r].acct
    PROVE  Kept(rows', token[t]) = Kept(rows, token[t])
<1>1. token[t] # NoToken /\ token[t].op = "void" =>
         token[t].from.row \in Legs(t) /\ token[t].to.row \in Legs(t)
  BY DEF IInv, TokensFit
<1> QED
  BY <1>1 DEF Kept, RecalledIn

(* A step that moves no money and no snapshot.                             *)
LEMMA Stutters ==
    ASSUME IInv, token' = token, \A t \in TransferId : Unmoved(t)
    PROVE  UNCHANGED <<bookView, memoryView>>
<1>1. ASSUME NEW t \in TransferId
      PROVE  Entry(rows', t) = Entry(rows, t) /\ Kept(rows', token'[t]) = Kept(rows, token[t])
  <2>1. Kept(rows', token[t]) = Kept(rows, token[t])
    BY KeptStays DEF Unmoved
  <2> QED
    BY <2>1, EntryStays
<1> QED
  BY <1>1, Views

(* A step on one transfer.                                                 *)
LEMMA OneChanges ==
    ASSUME IInv, NEW t \in TransferId,
           \A u \in TransferId \ {t} : token'[u] = token[u] /\ Unmoved(u)
    PROVE  /\ bookView[t] = Entry(rows, t) /\ memoryView[t] = Kept(rows, token[t])
           /\ Ideal!Put(t, Entry(rows', t))
           /\ Ideal!Remember(t, Kept(rows', token'[t]))
           /\ Entry(rows', t) = Entry(rows, t) => UNCHANGED bookView
           /\ Kept(rows', token'[t]) = Kept(rows, token[t]) => UNCHANGED memoryView
<1>1. ASSUME NEW u \in TransferId \ {t}
      PROVE  Entry(rows', u) = Entry(rows, u) /\ Kept(rows', token'[u]) = Kept(rows, token[u])
  <2>1. Kept(rows', token[u]) = Kept(rows, token[u])
    BY KeptStays DEF Unmoved
  <2> QED
    BY <2>1, EntryStays
<1>2. bookView' = [bookView EXCEPT ![t] = Entry(rows', t)]
  BY <1>1, Views
<1>3. memoryView' = [memoryView EXCEPT ![t] = Kept(rows', token'[t])]
  BY <1>1, Views
<1> QED
  BY <1>2, <1>3, Views DEF Ideal!Put, Ideal!Remember

----------------------------------------------------------------------------
(* The steps.                                                              *)

LEMMA MarksStutter ==
    ASSUME IInv, OnlyMarks
    PROVE  UNCHANGED <<bookView, memoryView>>
<1>1. \A r \in RowId : Fixed(r) /\ (Live(r) => rows'[r].amount = rows[r].amount)
  BY NullAssumption DEF OnlyMarks, OnlyMarked, Fixed, Live
<1>2. \A t \in TransferId : Unmoved(t)
  BY <1>1, LegsKept DEF Unmoved, Fixed, Legs
<1> QED
  BY <1>2, Stutters DEF OnlyMarks

(* Checks, rollbacks, closes and reopens.                                  *)
LEMMA QuietStutters ==
    ASSUME IInv, UNCHANGED <<rows, token>>
    PROVE  UNCHANGED <<bookView, memoryView>>
<1>1. \A t \in TransferId : Unmoved(t)
  BY DEF Unmoved, Legs, Live
<1> QED
  BY <1>1, Stutters

(* Rows that are no leg come and go.                                       *)
LEMMA PlainStutters ==
    ASSUME IInv, token' = token, \A r \in RowId : Touched(NoTransfer, r)
    PROVE  UNCHANGED <<bookView, memoryView>>
<1>1. \A t \in TransferId : Unmoved(t)
  BY IdAssumption, ElsewhereKept DEF Unmoved
<1> QED
  BY <1>1, Stutters

LEMMA RestartForgets ==
    ASSUME IInv, Restart
    PROVE  Ideal!Forget(TransferId)
<1>1. \A t \in TransferId : Unmoved(t)
  BY DEF Restart, Unmoved, Legs, Live
<1>2. \A t \in TransferId : Entry(rows', t) = Entry(rows, t) /\ Kept(rows', token'[t]) = Absent
  BY <1>1, EntryStays DEF Restart, Kept
<1> QED
  BY <1>2, Views DEF Ideal!Forget

(* What a pair means, and that it is neither absent nor anything else.     *)
LEMMA MovingEntry ==
    ASSUME NEW a \in Account, NEW b \in Account, a # b, NEW n \in Amount
    PROVE  /\ [from |-> a, to |-> b, amount |-> n] \in Ideal!Moving
           /\ [from |-> a, to |-> b, amount |-> n] # Absent
<1>1. [from |-> a, to |-> b, amount |-> n] \in Ideal!Moving
  BY DEF Ideal!Moving
<1> QED
  BY <1>1, AbsentAssumption

LEMMA StruckEntry ==
    ASSUME NEW a \in Account, NEW b \in Account
    PROVE  /\ [ends |-> {a, b}] \in Ideal!Struck
           /\ [ends |-> {a, b}] \notin Ideal!Moving
           /\ [ends |-> {a, b}] # Absent
<1>1. [ends |-> {a, b}] \in Ideal!Struck
  BY DEF Ideal!Struck
<1>2. [ends |-> {a, b}] \notin Ideal!Moving
  BY DEF Ideal!Moving
<1> QED
  BY <1>1, <1>2, AbsentAssumption

LEMMA FreshPairMoves ==
    ASSUME TypeOK, NEW t \in TransferId, NEW f \in RowId, NEW o \in RowId, f # o,
           Legs(t) = {},
           NEW s \in TransferSpec, SpecChecked(s), s.amount > 0,
           rows'[f] = NewLeg(t, s.from, s.to, -s.amount, s),
           rows'[o] = NewLeg(t, s.to, s.from, s.amount, s),
           \A r \in RowId \ {f, o} : rows'[r] = rows[r] \/ rows'[r] = Deleted
    PROVE  LET m == [from |-> s.from, to |-> s.to, amount |-> s.amount] IN
           /\ Entry(rows, t) = Absent /\ Entry(rows', t) = m
           /\ m \in Ideal!Moving /\ m # Absent
<1>1. /\ s.from \in Account /\ s.to \in Account /\ s.from # s.to
      /\ s.amount \in Amount /\ s.amount \in Int /\ -s.amount \in Int
  <2>1. s.amount \in Amount
    <3>1. s.amount \in Amount \cup {0}
      BY DEF TransferSpec
    <3> QED
      BY <3>1
  <2>2. s.amount \in Nat
    BY <2>1, ValueAssumption
  <2> QED
    BY <2>1, <2>2 DEF TransferSpec, SpecChecked
<1>2. LegsIn(rows, t) = {} /\ LegsIn(rows', t) = {f, o}
  BY FreshPairMirrors, Views
<1>3. /\ rows'[f].acct = s.from /\ rows'[f].amount = -s.amount
      /\ rows'[o].acct = s.to /\ rows'[o].amount = s.amount
  BY DEF NewLeg
<1>4. Entry(rows, t) = Absent
  BY <1>2 DEF Entry
<1>5. Entry(rows', t) = [from |-> s.from, to |-> s.to, amount |-> s.amount]
  BY <1>1, <1>2, <1>3, EntryOfPair
<1> QED
  BY <1>1, <1>4, <1>5, MovingEntry

(* What is absent has no snapshot that a create would have to respect.     *)
LEMMA CreateSteps ==
    ASSUME RInv, NEW t \in TransferId, NEW f \in RowId, NEW o \in RowId,
           FinishCreate(t, f, o) \/ FinishReplace(t, f, o)
    PROVE  Ideal!Create(t)
<1> DEFINE j == IF FinishCreate(t, f, o) THEN job["managed"] ELSE job["direct"]
<1>1. /\ j # Idle /\ j.op \in {"create", "replace"} /\ j.spec \in TransferSpec
      /\ SpecChecked(j.spec) /\ j.spec.amount > 0
  BY JobFields DEF RInv, SInv, IInv, TypeOK, JobsChecked, JobChecked, Committed, FinishCreate,
     FinishReplace, Lane
<1>2. token' = token /\ token[t] = NoToken /\ Legs(t) = {} /\ f # o
  BY DEF RInv, SInv, IInv, UnmintedUnused, FinishCreate, FinishReplace, FreshPair
<1>3. \A x \in RowId : Touched(t, x)
  BY FinishCreateKeeps, FinishReplaceKeeps DEF RInv, SInv
<1>4. \A u \in TransferId \ {t} : token'[u] = token[u] /\ Unmoved(u)
  BY <1>2, <1>3, ElsewhereKept DEF Unmoved
<1>5. /\ rows'[f] = NewLeg(t, j.spec.from, j.spec.to, -j.spec.amount, j.spec)
      /\ rows'[o] = NewLeg(t, j.spec.to, j.spec.from, j.spec.amount, j.spec)
      /\ \A r \in RowId \ {f, o} : rows'[r] = rows[r] \/ rows'[r] = Deleted
  BY <1>2 DEF RInv, SInv, IInv, TypeOK, FinishCreate, FinishReplace, WithPair
<1> HIDE DEF j
<1> DEFINE m == [from |-> j.spec.from, to |-> j.spec.to, amount |-> j.spec.amount]
<1>6. Entry(rows, t) = Absent /\ Entry(rows', t) = m /\ m \in Ideal!Moving
  BY <1>1, <1>2, <1>5, FreshPairMoves DEF RInv, SInv, IInv
<1> HIDE DEF m
<1>7. /\ bookView[t] = Absent /\ memoryView[t] = Absent
      /\ Ideal!Put(t, m) /\ UNCHANGED memoryView
  <2>1. Kept(rows, token[t]) = Absent /\ Kept(rows', token'[t]) = Absent
    BY <1>2 DEF Kept
  <2> QED
    BY <1>4, <1>6, <2>1, OneChanges DEF RInv, SInv
<1> QED
  BY <1>6, <1>7 DEF Ideal!Create

LEMMA RecreateSteps ==
    ASSUME RInv, NEW f \in RowId, NEW o \in RowId, FinishRecreate(f, o)
    PROVE  Ideal!BringBack(job["managed"].tid)
<1> DEFINE j == job["managed"]
           t == j.tid
           m == [from |-> j.spec.from, to |-> j.spec.to, amount |-> j.spec.amount]
<1>1. /\ j # Idle /\ j.op = "recreate" /\ t \in TransferId /\ j.spec \in TransferSpec
      /\ SpecChecked(j.spec) /\ j.spec.amount > 0 /\ Legs(t) = {} /\ Undoes(j)
  BY JobFields DEF RInv, SInv, IInv, TypeOK, JobsChecked, JobChecked, Committed,
     FinishRecreate, Lane
<1>2. /\ \A u \in TransferId \ {t} : token'[u] = token[u]
      /\ token'[t] = NoToken /\ f # o
  BY <1>1 DEF RInv, SInv, IInv, TypeOK, FinishRecreate, FreshPair
<1>3. \A x \in RowId : Touched(t, x)
  BY FinishRecreateKeeps DEF RInv, SInv
<1>4. \A u \in TransferId \ {t} : token'[u] = token[u] /\ Unmoved(u)
  BY <1>1, <1>2, <1>3, ElsewhereKept DEF Unmoved
<1>5. /\ rows'[f] = NewLeg(t, j.spec.from, j.spec.to, -j.spec.amount, j.spec)
      /\ rows'[o] = NewLeg(t, j.spec.to, j.spec.from, j.spec.amount, j.spec)
      /\ \A r \in RowId \ {f, o} : rows'[r] = rows[r] \/ rows'[r] = Deleted
  BY <1>2 DEF RInv, SInv, IInv, TypeOK, FinishRecreate, WithPair
<1>6. /\ Entry(rows, t) = Absent /\ Entry(rows', t) = m
      /\ m \in Ideal!Moving /\ m # Absent
  BY <1>1, <1>2, <1>5, FreshPairMoves DEF RInv, SInv, IInv
<1>7. Kept(rows, token[t]) = m /\ Kept(rows', token'[t]) = Absent
  BY <1>1, <1>2 DEF Kept, RecalledIn, Undoes
<1> HIDE DEF m, t
<1>8. /\ bookView[t] = Absent /\ memoryView[t] = m
      /\ Ideal!Put(t, m) /\ Ideal!Remember(t, Absent)
  BY <1>1, <1>4, <1>6, <1>7, OneChanges DEF RInv, SInv, t
<1> QED
  BY <1>6, <1>8 DEF Ideal!BringBack, t

----------------------------------------------------------------------------
(* The operations on a transfer.                                           *)

(* Get puts the sending leg first.                                         *)
LEMMA Oriented ==
    ASSUME IInv, NEW t \in minted, NEW f \in Legs(t), NEW o \in Legs(t),
           IsTransfer(t, f, o)
    PROVE  /\ t \in TransferId /\ f \in RowId /\ o \in RowId /\ f # o
           /\ Legs(t) = {f, o} /\ Live(f) /\ Live(o)
           /\ rows[f] \in Row /\ rows[o] \in Row
           /\ rows[f].amount \in Int /\ rows[o].amount \in Int
           /\ rows[f].amount \in Signed /\ rows[o].amount \in Signed
           /\ rows[f].amount = -rows[o].amount /\ rows[o].amount >= 0
           /\ rows[o].amount > 0 => rows[o].amount \in Amount
           /\ rows[f].acct \in Account /\ rows[o].acct \in Account
           /\ rows[f].acct # rows[o].acct
           /\ rows[o].amount > 0 => Entry(rows, t) =
                [from |-> rows[f].acct, to |-> rows[o].acct, amount |-> rows[o].amount]
           /\ rows[o].amount = 0 =>
                Entry(rows, t) = [ends |-> {rows[f].acct, rows[o].acct}]
<1>1. /\ t \in TransferId /\ f \in RowId /\ o \in RowId /\ f # o
      /\ Legs(t) = {f, o} /\ Live(f) /\ Live(o) /\ Mirror(f, o)
      /\ rows[f] \in Row /\ rows[o] \in Row
      /\ rows[f].amount \in Int /\ rows[o].amount \in Int
      /\ rows[f].amount \in Signed /\ rows[o].amount \in Signed
  BY PairFacts
<1>2. rows[f].amount = -rows[o].amount /\ rows[f].acct # rows[o].acct
  BY <1>1 DEF Mirror
<1>3. rows[o].amount >= 0
  BY <1>1, <1>2 DEF IsTransfer
<1>4. rows[o].amount > 0 => rows[o].amount \in Amount
  BY <1>1, ValueAssumption DEF Signed
<1>5. rows[f].acct \in Account /\ rows[o].acct \in Account
  BY <1>1, RowFields
<1>6. LegsIn(rows, t) = {f, o}
  BY <1>1, Views
<1>7. /\ rows[o].amount > 0 => Entry(rows, t) =
           [from |-> rows[f].acct, to |-> rows[o].acct, amount |-> rows[o].amount]
      /\ rows[o].amount = 0 => Entry(rows, t) = [ends |-> {rows[f].acct, rows[o].acct}]
  BY <1>1, <1>2, <1>6, EntryOfPair
<1> QED
  BY <1>1, <1>2, <1>3, <1>4, <1>5, <1>7

(* The legs f and o of t are rewritten, and no other row.                  *)
LEMMA PairRewritten ==
    ASSUME IInv, NEW t \in TransferId, NEW f \in RowId, NEW o \in RowId, f # o,
           Legs(t) = {f, o},
           \A r \in RowId : Fixed(r),
           \A r \in RowId \ {f, o} : rows'[r] = rows[r],
           rows'[f].amount \in Int, rows'[o].amount \in Int,
           rows'[f].amount = -rows'[o].amount
    PROVE  /\ \A u \in TransferId \ {t} : Unmoved(u)
           /\ rows'[f].acct = rows[f].acct /\ rows'[o].acct = rows[o].acct
           /\ rows'[o].amount > 0 => Entry(rows', t) =
                [from |-> rows[f].acct, to |-> rows[o].acct, amount |-> rows'[o].amount]
           /\ rows'[o].amount = 0 =>
                Entry(rows', t) = [ends |-> {rows[f].acct, rows[o].acct}]
<1>1. \A u : Legs(u)' = Legs(u)
  BY LegsKept
<1>2. \A u \in TransferId \ {t} : Unmoved(u)
  BY <1>1 DEF Unmoved, Legs
<1>3. rows'[f].acct = rows[f].acct /\ rows'[o].acct = rows[o].acct
  BY DEF Fixed, Legs
<1>4. LegsIn(rows', t) = {f, o}
  BY <1>1, Views
<1>5. /\ rows'[o].amount > 0 => Entry(rows', t) =
           [from |-> rows'[f].acct, to |-> rows'[o].acct, amount |-> rows'[o].amount]
      /\ rows'[o].amount = 0 => Entry(rows', t) = [ends |-> {rows'[f].acct, rows'[o].acct}]
  BY <1>4, EntryOfPair
<1> QED
  BY <1>2, <1>3, <1>5

LEMMA UpdateSteps ==
    ASSUME IInv, NEW t \in minted, NEW f \in Legs(t), NEW o \in Legs(t),
           NEW e \in Edit, Update(t, f, o, e)
    PROVE  t \in TransferId /\ (Ideal!Amend(t) \/ Ideal!Revive(t))
<1>1. IsTransfer(t, f, o) /\ token' = token
  BY DEF Update
<1> DEFINE a == rows[f].acct
           b == rows[o].acct
           m == [from |-> a, to |-> b, amount |-> e.amount]
<1>2. /\ t \in TransferId /\ f \in RowId /\ o \in RowId /\ f # o
      /\ Legs(t) = {f, o} /\ rows[f] \in Row /\ rows[o] \in Row
      /\ a \in Account /\ b \in Account /\ a # b
  BY <1>1, Oriented
<1>3. /\ e.date \in Date /\ e.cat \in Category \cup {NoCategory}
      /\ e.status \in Status \ {"void"} /\ e.amount \in Amount
  BY DEF Edit, Update, GuardSpec
<1>4. e.amount \in Signed /\ -e.amount \in Signed /\ e.amount \in Int /\ e.amount > 0
      /\ -e.amount \in Int
  BY <1>3, SignedInt, ValueAssumption DEF Signed
<1>5. rows'[f].amount = -e.amount /\ rows'[o].amount = e.amount
  BY <1>2, <1>3, <1>4, RewrittenType DEF Update, Write, IInv, TypeOK
<1>6. \A r \in RowId \ {f, o} : rows'[r] = rows[r]
  BY DEF Update, Write, IInv, TypeOK
<1>7. Entry(rows', t) = m /\ \A u \in TransferId \ {t} : Unmoved(u)
  BY <1>2, <1>4, <1>5, <1>6, UpdateKeeps, PairRewritten
<1>8. Kept(rows', token[t]) = Kept(rows, token[t])
  BY <1>2, UpdateKeeps, KeptStays DEF Fixed, Legs
<1>9. bookView[t] = Entry(rows, t) /\ Ideal!Put(t, m) /\ UNCHANGED memoryView
  BY <1>1, <1>2, <1>7, <1>8, OneChanges
<1>10. CASE rows[o].amount > 0
  <2>1. bookView[t] = [from |-> a, to |-> b, amount |-> rows[o].amount]
        /\ rows[o].amount \in Amount
    BY <1>1, <1>9, <1>10, Oriented
  <2>2. bookView[t] \in Ideal!Moving /\ m = [bookView[t] EXCEPT !.amount = e.amount]
    BY <1>2, <2>1, MovingEntry
  <2> QED
    BY <1>2, <1>3, <1>9, <2>2 DEF Ideal!Amend, Ideal!IsMoving
<1>11. CASE rows[o].amount = 0
  <2>1. bookView[t] = [ends |-> {a, b}]
    BY <1>1, <1>9, <1>11, Oriented
  <2>2. bookView[t] \in Ideal!Struck /\ m \in Ideal!Moving /\ {m.from, m.to} = bookView[t].ends
    BY <1>2, <1>3, <2>1, MovingEntry, StruckEntry
  <2> QED
    BY <1>2, <1>9, <2>2 DEF Ideal!Revive, Ideal!IsStruck
<1> QED
  BY <1>1, <1>10, <1>11, Oriented

LEMMA ReverseSteps ==
    ASSUME IInv, NEW t \in minted, NEW f \in Legs(t), NEW o \in Legs(t),
           Reverse(t, f, o)
    PROVE  t \in TransferId /\ Ideal!Flip(t)
<1> DEFINE a == rows[f].acct
           b == rows[o].acct
           n == rows[o].amount
           s == [SpecOf(f, o, f) EXCEPT !.from = b, !.to = a]
<1>1. IsTransfer(t, f, o) /\ token' = token
  BY DEF Reverse
<1>2. /\ t \in TransferId /\ f \in RowId /\ o \in RowId /\ f # o
      /\ Legs(t) = {f, o} /\ rows[f] \in Row /\ rows[o] \in Row
      /\ a \in Account /\ b \in Account /\ a # b /\ n \in Int /\ n >= 0
  BY <1>1, Oriented
<1>3. SpecOf(f, o, f) \in TransferSpec /\ s.status # "void" /\ s.amount > 0
  BY <1>2, SpecOfType DEF Reverse, GuardSpec
<1>4. /\ s.date \in Date /\ s.cat \in Category \cup {NoCategory}
      /\ s.status \in Status \ {"void"} /\ s.amount = n
  BY <1>2, <1>3 DEF TransferSpec, SpecOf, Abs
<1>5. n > 0 /\ n \in Amount /\ n \in Signed /\ -n \in Signed /\ -n \in Int
  BY <1>1, <1>3, <1>4, Oriented, SignedInt
<1>6. rows' = [rows EXCEPT ![f] = Rewritten(f, n, s), ![o] = Rewritten(o, -n, s)]
  BY <1>4 DEF Reverse, Write
<1> HIDE DEF s
<1>7. rows'[f].amount = n /\ rows'[o].amount = -n
  BY <1>2, <1>4, <1>5, <1>6, RewrittenType DEF IInv, TypeOK
<1>8. \A r \in RowId \ {f, o} : rows'[r] = rows[r]
  BY <1>6 DEF IInv, TypeOK
<1>9. /\ Entry(rows', t) = [from |-> b, to |-> a, amount |-> n]
      /\ \A u \in TransferId \ {t} : Unmoved(u)
  <2>1. Legs(t) = {o, f} /\ \A r \in RowId \ {o, f} : rows'[r] = rows[r]
    BY <1>2, <1>8
  <2> QED
    BY <1>2, <1>5, <1>7, <2>1, ReverseKeeps, PairRewritten
<1>10. Kept(rows', token[t]) = Kept(rows, token[t])
  BY <1>2, ReverseKeeps, KeptStays DEF Fixed, Legs
<1>11. /\ bookView[t] = [from |-> a, to |-> b, amount |-> n]
       /\ Ideal!Put(t, [from |-> b, to |-> a, amount |-> n]) /\ UNCHANGED memoryView
  BY <1>1, <1>2, <1>5, <1>9, <1>10, OneChanges, Oriented
<1>12. /\ bookView[t] \in Ideal!Moving
       /\ bookView[t].from = a /\ bookView[t].to = b /\ bookView[t].amount = n
  BY <1>2, <1>5, <1>11, MovingEntry
<1> QED
  BY <1>2, <1>11, <1>12 DEF Ideal!Flip, Ideal!IsMoving

LEMMA VoidSteps ==
    ASSUME IInv, NEW t \in minted, NEW f \in Legs(t), NEW o \in Legs(t),
           Void(t, f, o)
    PROVE  t \in TransferId /\ (Ideal!Strike(t) \/ Ideal!Forget({t}))
<1> DEFINE a == rows[f].acct
           b == rows[o].acct
           n == rows[o].amount
           k == [op   |-> "void",
                 from |-> [row |-> f, amount |-> rows[f].amount, status |-> rows[f].status],
                 to   |-> [row |-> o, amount |-> n, status |-> rows[o].status]]
<1>1. IsTransfer(t, f, o) /\ rows[f].kind = "regular" /\ rows[o].kind = "regular"
  BY DEF Void, HasInvestmentLeg
<1>2. /\ t \in TransferId /\ f \in RowId /\ o \in RowId /\ f # o
      /\ Legs(t) = {f, o} /\ rows[f] \in RegularRow /\ rows[o] \in RegularRow
      /\ rows[f].amount \in Signed /\ n \in Signed
      /\ a \in Account /\ b \in Account /\ a # b /\ n \in Int /\ n >= 0
  BY <1>1, Oriented, RowFields
<1>3. k \in Token /\ k # NoToken
  <2>1. k \in Token
    BY <1>2 DEF Token, RestoreLeg, RegularRow
  <2> QED
    BY <2>1, NullAssumption
<1>4. /\ rows' = [rows EXCEPT ![f] = VoidedRow(f), ![o] = VoidedRow(o)]
      /\ token' = [token EXCEPT ![t] = k]
  BY DEF Void, Write
<1> HIDE DEF k
<1>5. token'[t] = k /\ \A u \in TransferId \ {t} : token'[u] = token[u]
  BY <1>2, <1>4 DEF IInv, TypeOK
<1>6. /\ rows'[f].amount = 0 /\ rows'[o].amount = 0
      /\ \A r \in RowId \ {f, o} : rows'[r] = rows[r]
  BY <1>2, <1>4 DEF VoidedRow, RegularRow, IInv, TypeOK
<1>7. /\ \A u \in TransferId \ {t} : Unmoved(u)
      /\ rows'[f].acct = a /\ rows'[o].acct = b
      /\ Entry(rows', t) = [ends |-> {a, b}]
  <2>1. \A x \in Int, y \in Int : x >= 0 /\ x <= 0 /\ y >= 0 /\ y <= 0 => x = -y
    OBVIOUS
  <2>2. /\ rows'[f].amount \in Int /\ rows'[f].amount >= 0 /\ rows'[f].amount <= 0
        /\ rows'[o].amount \in Int /\ rows'[o].amount >= 0 /\ rows'[o].amount <= 0
    BY <1>6
  <2>3. rows'[f].amount = -rows'[o].amount
    BY <2>1, <2>2
  <2> QED
    BY <1>2, <1>6, <2>2, <2>3, VoidKeeps, PairRewritten
<1>8. Kept(rows', k) = IF n = 0 THEN Absent ELSE [from |-> a, to |-> b, amount |-> n]
  BY <1>3, <1>7 DEF Kept, RecalledIn, k
<1>9. /\ bookView[t] = Entry(rows, t) /\ Ideal!Put(t, [ends |-> {a, b}])
      /\ Ideal!Remember(t, Kept(rows', k))
      /\ Entry(rows', t) = Entry(rows, t) => UNCHANGED bookView
  BY <1>2, <1>5, <1>7, OneChanges
<1>10. CASE n > 0
  <2>1. bookView[t] = [from |-> a, to |-> b, amount |-> n] /\ n \in Amount
    BY <1>1, <1>9, <1>10, Oriented
  <2>2. /\ bookView[t] \in Ideal!Moving /\ Kept(rows', k) = bookView[t]
        /\ {bookView[t].from, bookView[t].to} = {a, b}
    BY <1>2, <1>8, <1>10, <2>1, MovingEntry
  <2> QED
    BY <1>2, <1>9, <2>2 DEF Ideal!Strike, Ideal!IsMoving
<1>11. CASE n = 0
  <2>1. Entry(rows', t) = Entry(rows, t)
    BY <1>1, <1>7, <1>11, Oriented
  <2>2. UNCHANGED bookView /\ Ideal!Remember(t, Absent)
    BY <1>8, <1>9, <1>11, <2>1
  <2> QED
    BY <1>2, <2>2, Views DEF Ideal!Forget, Ideal!Remember
<1> QED
  BY <1>2, <1>10, <1>11

LEMMA RestoreSteps ==
    ASSUME RInv, NEW t \in minted, NEW f \in Legs(t), NEW o \in Legs(t),
           Restore(t, f, o)
    PROVE  t \in TransferId /\ (Ideal!Unstrike(t) \/ UNCHANGED <<bookView, memoryView>>)
<1> DEFINE k == token[t]
           g == k.from.row
           h == k.to.row
           n == k.to.amount
           a == rows[g].acct
           b == rows[h].acct
<1>1. IsTransfer(t, f, o) /\ rows[f].kind = "regular" /\ rows[o].kind = "regular" /\ IInv
  BY DEF Restore, HasInvestmentLeg, RInv, SInv
<1>2. t \in TransferId /\ k \in Token /\ k # NoToken /\ k.op = "void"
  BY <1>1, PairFacts DEF Restore, IInv, TypeOK
<1>3. /\ g \in RowId /\ h \in RowId /\ g # h /\ Legs(t) = {g, h}
      /\ k.from.amount = -n /\ k.from.amount \in Int /\ n \in Int /\ n >= 0 /\ n \in Signed
  BY <1>1, <1>2, TokenFields, SignedInt DEF IInv, TokensFit, RInv, Forward
<1>4. (g = f /\ h = o) \/ (g = o /\ h = f)
  BY <1>1, <1>3, PairFacts
<1>5. /\ rows[g] \in RegularRow /\ rows[h] \in RegularRow
      /\ a \in Account /\ b \in Account /\ a # b
  BY <1>1, <1>4, Oriented, RowFields
<1>6. Entry(rows, t) = [ends |-> {a, b}]
  <2>1. rows[o].amount = 0
    BY <1>1, <1>3, <1>4, Oriented DEF Restore, RInv, SInv, VoidRowsEmpty
  <2>2. Entry(rows, t) = [ends |-> {rows[f].acct, rows[o].acct}]
    BY <1>1, <2>1, Oriented
  <2> QED
    BY <1>4, <2>2
<1>7. /\ rows' = [rows EXCEPT ![g] = RestoredRow(k.from), ![h] = RestoredRow(k.to)]
      /\ token' = [token EXCEPT ![t] = NoToken]
  BY DEF Restore, Write
<1>8. token'[t] = NoToken /\ \A u \in TransferId \ {t} : token'[u] = token[u]
  BY <1>1, <1>2, <1>7 DEF IInv, TypeOK
<1>9. /\ rows'[g].amount = -n /\ rows'[h].amount = n
      /\ \A r \in RowId \ {g, h} : rows'[r] = rows[r]
  BY <1>1, <1>3, <1>5, <1>7 DEF RestoredRow, RegularRow, IInv, TypeOK
<1>10. /\ \A u \in TransferId \ {t} : Unmoved(u)
       /\ n > 0 => Entry(rows', t) = [from |-> a, to |-> b, amount |-> n]
       /\ n = 0 => Entry(rows', t) = [ends |-> {a, b}]
  <2>1. \A r \in RowId : Fixed(r)
    BY <1>1, RestoreKeeps
  <2>2. rows'[g].amount \in Int /\ rows'[h].amount \in Int
        /\ rows'[g].amount = -rows'[h].amount
    BY <1>3, <1>9
  <2> HIDE DEF g, h
  <2> QED
    BY <1>1, <1>2, <1>3, <1>9, <2>1, <2>2, PairRewritten
<1>11. /\ Kept(rows, k) = IF n = 0 THEN Absent ELSE [from |-> a, to |-> b, amount |-> n]
       /\ Kept(rows', NoToken) = Absent
  BY <1>2 DEF Kept, RecalledIn
<1> HIDE DEF n, a, b
<1>12. /\ bookView[t] = [ends |-> {a, b}] /\ memoryView[t] = Kept(rows, k)
       /\ Ideal!Put(t, Entry(rows', t)) /\ Ideal!Remember(t, Absent)
       /\ Entry(rows', t) = Entry(rows, t) => UNCHANGED bookView
       /\ Absent = Kept(rows, k) => UNCHANGED memoryView
  BY <1>1, <1>2, <1>6, <1>8, <1>10, <1>11, OneChanges
<1>13. CASE n > 0
  <2>1. n \in Amount
    BY <1>3, <1>13, ValueAssumption DEF Signed
  <2>2. memoryView[t] = [from |-> a, to |-> b, amount |-> n] /\ Entry(rows', t) = memoryView[t]
    BY <1>10, <1>11, <1>12, <1>13
  <2>3. memoryView[t] # Absent
    BY <1>5, <2>1, <2>2, MovingEntry DEF a, b
  <2>4. bookView[t] \in Ideal!Struck
    BY <1>5, <1>12, StruckEntry DEF a, b
  <2> QED
    BY <1>2, <1>12, <2>2, <2>3, <2>4 DEF Ideal!Unstrike, Ideal!IsStruck
<1>14. CASE n = 0
  BY <1>2, <1>6, <1>10, <1>11, <1>12, <1>14
<1> QED
  BY <1>2, <1>3, <1>13, <1>14

LEMMA DeleteSteps ==
    ASSUME IInv, NEW t \in minted, NEW f \in Legs(t), NEW o \in Legs(t),
           Delete(t, f, o)
    PROVE  t \in TransferId /\ Ideal!Remove(t)
<1> DEFINE a == rows[f].acct
           b == rows[o].acct
           n == rows[o].amount
           s == SpecOf(f, o, f)
           k == [op |-> "delete", spec |-> s]
<1>1. IsTransfer(t, f, o)
  BY DEF Delete
<1>2. /\ t \in TransferId /\ f \in RowId /\ o \in RowId /\ f # o
      /\ Legs(t) = {f, o} /\ rows[f] \in Row /\ rows[o] \in Row
      /\ a \in Account /\ b \in Account /\ a # b /\ n \in Int /\ n >= 0
  BY <1>1, Oriented
<1>3. k \in Token /\ k # NoToken
  <2>1. s \in TransferSpec
    BY <1>2, SpecOfType
  <2> QED
    BY <2>1, NullAssumption DEF Token
<1>4. s.from = a /\ s.to = b /\ s.amount = n
  BY <1>2 DEF SpecOf, Abs
<1>5. /\ rows' = [rows EXCEPT ![f] = Deleted, ![o] = Deleted]
      /\ token' = [token EXCEPT ![t] = k]
  BY DEF Delete, Write
<1>6. token'[t] = k /\ \A u \in TransferId \ {t} : token'[u] = token[u]
  BY <1>2, <1>5 DEF IInv, TypeOK
<1>7. \A u \in TransferId \ {t} : Unmoved(u)
  BY DeleteKeeps, ElsewhereKept DEF Unmoved
<1>8. Entry(rows', t) = Absent
  <2>1. Legs(t)' = {}
    BY <1>2, <1>5 DEF Legs, Live, IInv, TypeOK
  <2> QED
    BY <2>1, Views DEF Entry
<1>9. Kept(rows', k) = IF n = 0 THEN Absent ELSE [from |-> a, to |-> b, amount |-> n]
  BY <1>3, <1>4 DEF Kept, RecalledIn
<1> HIDE DEF k
<1>10. /\ bookView[t] = Entry(rows, t) /\ Ideal!Put(t, Absent)
       /\ Ideal!Remember(t, Kept(rows', k))
  BY <1>2, <1>6, <1>7, <1>8, OneChanges
<1>11. CASE n > 0
  <2>1. bookView[t] = [from |-> a, to |-> b, amount |-> n] /\ n \in Amount
    BY <1>1, <1>10, <1>11, Oriented
  <2>2. bookView[t] \in Ideal!Moving /\ bookView[t] # Absent /\ Kept(rows', k) = bookView[t]
    BY <1>2, <1>9, <1>11, <2>1, MovingEntry
  <2> QED
    BY <1>2, <1>10, <2>2 DEF Ideal!Remove, Ideal!IsMoving
<1>12. CASE n = 0
  <2>1. bookView[t] = [ends |-> {a, b}]
    BY <1>1, <1>10, <1>12, Oriented
  <2>2. bookView[t] \notin Ideal!Moving /\ bookView[t] # Absent /\ Kept(rows', k) = Absent
    BY <1>2, <1>9, <1>12, <2>1, StruckEntry
  <2> QED
    BY <1>2, <1>10, <2>2 DEF Ideal!Remove, Ideal!IsMoving
<1> QED
  BY <1>2, <1>11, <1>12

----------------------------------------------------------------------------
(* Every step is a step of the ideal service, or moves nothing.            *)

LEMMA JobNextSteps ==
    ASSUME RInv, JobNext
    PROVE  \/ UNCHANGED <<bookView, memoryView>>
           \/ \E t \in TransferId : Ideal!Create(t) \/ Ideal!BringBack(t)
<1> USE DEF RInv, SInv
<1>1. CASE UNCHANGED <<rows, token>>
  BY <1>1, QuietStutters
<1>2. ASSUME NEW t \in TransferId, NEW f \in RowId, NEW o \in RowId,
             FinishCreate(t, f, o) \/ FinishReplace(t, f, o)
      PROVE  Ideal!Create(t)
  BY <1>2, CreateSteps
<1>3. ASSUME NEW f \in RowId, NEW o \in RowId, FinishRecreate(f, o)
      PROVE  \E t \in TransferId : Ideal!BringBack(t)
  <2>1. job["managed"].tid \in TransferId
    BY <1>3, JobFields DEF FinishRecreate, IInv, TypeOK, Lane
  <2> QED
    BY <1>3, <2>1, RecreateSteps
<1>4. ASSUME NEW r \in RowId, FinishPlain(r)
      PROVE  UNCHANGED <<bookView, memoryView>>
  BY <1>4, FinishPlainKeeps, PlainStutters DEF FinishPlain
<1>5. \/ UNCHANGED <<rows, token>>
      \/ \E t \in TransferId, f, o \in RowId : FinishCreate(t, f, o) \/ FinishReplace(t, f, o)
      \/ \E f, o \in RowId : FinishRecreate(f, o)
      \/ \E r \in RowId : FinishPlain(r)
  BY DEF JobNext, BeginCreate, BeginRecreate, BeginReplace, BeginPlain, BeginClose, Begin,
     FinishClose, Abort
<1> QED
  BY <1>1, <1>2, <1>3, <1>4, <1>5

LEMMA TransferNextSteps ==
    ASSUME RInv, TransferNext
    PROVE  \/ UNCHANGED <<bookView, memoryView>>
           \/ \E t \in TransferId :
                 \/ Ideal!Amend(t) \/ Ideal!Flip(t) \/ Ideal!Strike(t) \/ Ideal!Unstrike(t)
                 \/ Ideal!Remove(t) \/ Ideal!Revive(t)
           \/ \E T \in SUBSET TransferId : Ideal!Forget(T)
<1> USE DEF RInv, SInv
<1>1. PICK t \in minted : \E f, o \in Legs(t) :
        \/ Delete(t, f, o) \/ Void(t, f, o) \/ Restore(t, f, o) \/ Reverse(t, f, o)
        \/ \E r \in {f, o}, s \in InputStatus : SetLegStatus(t, f, o, r, s)
        \/ \E s \in InputStatus : SetStatus(t, f, o, s)
        \/ \E e \in Edit : Update(t, f, o, e)
  BY DEF TransferNext
<1>2. PICK f \in Legs(t), o \in Legs(t) :
        \/ Delete(t, f, o) \/ Void(t, f, o) \/ Restore(t, f, o) \/ Reverse(t, f, o)
        \/ \E r \in {f, o}, s \in InputStatus : SetLegStatus(t, f, o, r, s)
        \/ \E s \in InputStatus : SetStatus(t, f, o, s)
        \/ \E e \in Edit : Update(t, f, o, e)
  BY <1>1
<1>3. CASE Delete(t, f, o) \/ Reverse(t, f, o) \/ \E e \in Edit : Update(t, f, o, e)
  BY <1>3, DeleteSteps, ReverseSteps, UpdateSteps
<1>4. CASE Void(t, f, o)
  <2>1. {t} \in SUBSET TransferId
    BY DEF IInv, TypeOK
  <2> QED
    BY <1>4, <2>1, VoidSteps
<1>5. CASE Restore(t, f, o)
  BY <1>5, RestoreSteps
<1>6. CASE \/ \E r \in {f, o}, s \in InputStatus : SetLegStatus(t, f, o, r, s)
           \/ \E s \in InputStatus : SetStatus(t, f, o, s)
  BY <1>6, SetLegStatusMarks, SetStatusMarks, MarksStutter
<1> QED
  BY <1>2, <1>3, <1>4, <1>5, <1>6

LEMMA OtherNextSteps ==
    ASSUME RInv, OtherNext
    PROVE  UNCHANGED <<bookView, memoryView>> \/ Ideal!Forget(TransferId)
<1> USE DEF RInv, SInv
<1>1. ASSUME NEW r \in RowId, DeletePlain(r)
      PROVE  UNCHANGED <<bookView, memoryView>>
  BY <1>1, DeletePlainKeeps, PlainStutters DEF DeletePlain
<1>2. CASE \/ \E r \in RowId, s \in InputStatus : MarkRow(r, s)
           \/ \E a \in Account \ InvAccount : \E S \in SUBSET RegisterRows(a) :
                 \/ Reconcile(a, S)
                 \/ \E before \in [S -> InputStatus] : UndoFinish(a, S, before)
  BY <1>2, MarkRowMarks, ReconcileMarks, UndoFinishMarks, MarksStutter
<1>3. CASE \E a \in Account : Reopen(a)
  BY <1>3, QuietStutters DEF Reopen
<1>4. CASE Restart
  BY <1>4, RestartForgets
<1> QED
  BY <1>1, <1>2, <1>3, <1>4 DEF OtherNext

(* transfer.Service keeps its promise: each step of it is a step on whole  *)
(* transfers.  No interleaving, failure or restart loses money from one    *)
(* side only, edits never turn a transfer round, and undo restores the     *)
(* very transfer that was voided or deleted.                               *)
THEOREM Implements == Spec => ImplementsIdeal
<1>1. Init => Ideal!Init
  <2> SUFFICES ASSUME Init PROVE Ideal!Init
    OBVIOUS
  <2>1. \A t \in TransferId : Entry(rows, t) = Absent /\ Kept(rows, token[t]) = Absent
    BY DEF Init, Entry, LegsIn, Kept
  <2> QED
    BY <2>1, Views DEF Ideal!Init
<1>2. RInv /\ [Next]_vars => [Ideal!Next]_<<bookView, memoryView>>
  <2>1. CASE UNCHANGED vars
    BY <2>1, QuietStutters DEF RInv, SInv, vars
  <2>2. CASE Next
    BY <2>2, JobNextSteps, TransferNextSteps, OtherNextSteps DEF Next, Ideal!Next
  <2> QED
    BY <2>1, <2>2
<1> QED
  BY <1>1, <1>2, InitRInv, NextRInv, PTL DEF Spec, ImplementsIdeal, Ideal!Spec
=============================================================================
