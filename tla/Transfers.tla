----------------------------- MODULE Transfers -----------------------------
(***************************************************************************)
(* Whole transfers across the two ledgers of a tmoney file                 *)
(* (src/internal/transfer), with the operations of other services that     *)
(* touch the same rows: plain rows, cleared marks, reconciling, and        *)
(* closing and reopening accounts.                                         *)
(*                                                                         *)
(* A transfer has no row of its own.  It is two rows, each on the ledger   *)
(* of its account, tied by a transfer id and by pointers to each other's   *)
(* account.  Every operation reads that pair and writes one database       *)
(* transaction.  Some operations check their preconditions before the      *)
(* transaction begins; those are two steps here, with the unfinished       *)
(* operation in job.  The undo manager's mutex runs the commands it is     *)
(* given one at a time: lane "managed".  Writes that bypass it (replacing  *)
(* an investment row, importing) are lane "direct" and interleave.         *)
(***************************************************************************)
EXTENDS Integers, FiniteSets, FiniteSetsExt

CONSTANTS
    Account,        \* the accounts of the file
    InvAccount,     \* those of an investment type
    OpeningDate,    \* each account's opening date
    RowId,          \* row identifiers of both tables, ordered like the UUIDs
    TransferId,     \* transfer identifiers
    Amount,         \* positive magnitudes a user may enter
    Date,           \* dates a user may enter
    Today,
    Category,       \* non-system categories
    PlainRow,       \* the rows other services may create
    NoAccount, NoTransfer, NoCategory,  \* NULL columns
    Unused,         \* a row identifier not drawn yet
    Deleted,        \* the identifier of a deleted row; never drawn again
    NoToken, Idle

Status    == {"uncleared", "cleared", "reconciled", "void"}
InvStatus == {"pending", "cleared", "reconciled"}
Signed    == {0} \cup Amount \cup {-m : m \in Amount}

(* A row of transactions.                                                  *)
RegularRow ==
    [kind : {"regular"}, acct : Account, other : Account \cup {NoAccount},
     tid : TransferId \cup {NoTransfer}, amount : Signed, date : Date,
     cat : Category \cup {NoCategory}, status : Status]

(* A cash row of investment_transactions, which has no category column and *)
(* no void status.                                                         *)
InvestmentRow ==
    [kind : {"transfer_cash", "deposit", "withdrawal"}, acct : Account,
     other : Account \cup {NoAccount}, tid : TransferId \cup {NoTransfer},
     amount : Signed, date : Date, cat : {NoCategory}, status : InvStatus]

Row == RegularRow \cup InvestmentRow

(* The statuses a dialog or a flag can ask for.                            *)
InputStatus == {"uncleared", "cleared"}

(* The input of Create, also what a delete command keeps for its undo.     *)
TransferSpec ==
    [from : Account, to : Account, amount : Amount \cup {0}, date : Date,
     cat : Category \cup {NoCategory}, status : Status]

(* The mutable fields of an existing transfer.                             *)
Edit ==
    [amount : Amount, date : Date, cat : Category \cup {NoCategory},
     status : Status]

(* One leg as a void command keeps it for its undo.                        *)
RestoreLeg == [row : RowId, amount : Signed, status : Status]

Token ==
         [op : {"void"}, from : RestoreLeg, to : RestoreLeg]
    \cup [op : {"delete"}, spec : TransferSpec]

(* An operation between its checks and its database transaction.           *)
Job ==
         [op : {"create"}, spec : TransferSpec]
    \cup [op : {"recreate"}, tid : TransferId, spec : TransferSpec]
    \cup [op : {"replace"}, row : RowId, spec : TransferSpec]
    \cup [op : {"plain"}, new : Row]
    \cup [op : {"close"}, acct : Account]

Lane == {"managed", "direct"}

ASSUME AccountAssumption ==
    /\ InvAccount \subseteq Account
    /\ NoAccount \notin Account
    /\ OpeningDate \in [Account -> Int]
ASSUME IdAssumption ==
    /\ RowId \subseteq Nat
    /\ NoTransfer \notin TransferId
    /\ NoCategory \notin Category
ASSUME ValueAssumption ==
    /\ Amount \subseteq Nat \ {0}
    /\ Date \subseteq Int
    /\ Today \in Int
ASSUME PlainAssumption ==
    PlainRow \subseteq {p \in Row :
        /\ p.tid = NoTransfer /\ p.other = NoAccount
        /\ p.kind # "transfer_cash" /\ p.status # "void"}
ASSUME NullAssumption ==
    /\ Unused \notin Row /\ Deleted \notin Row /\ Unused # Deleted
    /\ NoToken \notin Token
    /\ Idle \notin Job

VARIABLES
    rows,     \* both tables: a row, Unused or Deleted for every identifier
    open,     \* the accounts that are not closed
    minted,   \* the transfer identifiers drawn so far
    token,    \* what the latest void or delete of a transfer can be undone with
    job       \* the operation each lane has between check and transaction

vars == <<rows, open, minted, token, job>>

----------------------------------------------------------------------------
(* Reading a transfer.                                                     *)

Live(r)  == rows[r] \notin {Unused, Deleted}
Legs(t)  == {r \in RowId : Live(r) /\ rows[r].tid = t}
Plain(r) == Live(r) /\ rows[r].tid = NoTransfer
Abs(n)   == IF n < 0 THEN -n ELSE n

StatusToRegular(s) == IF s = "pending" THEN "uncleared" ELSE s
LegStatus(r)       == StatusToRegular(rows[r].status)

(* Mutant of IsTransfer: the legs are ordered by row identifier alone.     *)
IsTransferById(t, f, o) == f < o /\ Legs(t) = {f, o}

(* Get finds exactly two legs and puts the sending one first; when the     *)
(* signs do not tell, the order of the row identifiers does.               *)
IsTransfer(t, f, o) ==
    /\ f # o
    /\ Legs(t) = {f, o}
    /\ \/ rows[f].amount < 0 /\ rows[o].amount >= 0
       \/ (rows[f].amount < 0 <=> rows[o].amount < 0) /\ f < o

(* Mutant of StatusFromRegular: the status is stored unconverted.          *)
StatusKept(s) == s

(* The status an investment leg stores for a canonical one.                *)
StatusFromRegular(s) == IF s = "uncleared" THEN "pending" ELSE s
StoredStatus(r, s) ==
    IF rows[r].kind = "regular" THEN s ELSE StatusFromRegular(s)

----------------------------------------------------------------------------
(* Guards shared by the operations.                                        *)

StoresCategory(a, b) == ~ {a, b} \subseteq InvAccount

GuardSpec(s) ==
    /\ s.amount > 0
    /\ s.from # s.to
    /\ {s.from, s.to} \subseteq open
    /\ s.date >= OpeningDate[s.from] /\ s.date >= OpeningDate[s.to]
    /\ s.cat # NoCategory => StoresCategory(s.from, s.to)
    /\ s.status # "void"

(* Mutant of CheckMutable: only the sending leg is asked.                  *)
CheckMutableFrom(f, o) == LegStatus(f) # "reconciled"

CheckMutable(f, o) == "reconciled" \notin {LegStatus(f), LegStatus(o)}
CheckLive(f, o)    == CheckMutable(f, o) /\ "void" \notin {LegStatus(f), LegStatus(o)}

HasInvestmentLeg(f, o) == rows[f].kind # "regular" \/ rows[o].kind # "regular"

ManagerFree == job["managed"] = Idle

----------------------------------------------------------------------------
(* Writing legs.                                                           *)

(* The row insertLeg writes for one side of spec s: the account's type     *)
(* picks the table, an investment leg is always transfer_cash.             *)
NewLeg(t, acct, other, amount, s) ==
    IF acct \in InvAccount
    THEN [kind |-> "transfer_cash", acct |-> acct, other |-> other, tid |-> t,
          amount |-> amount, date |-> s.date, cat |-> NoCategory,
          status |-> StatusFromRegular(s.status)]
    ELSE [kind |-> "regular", acct |-> acct, other |-> other, tid |-> t,
          amount |-> amount, date |-> s.date, cat |-> s.cat,
          status |-> s.status]

(* The table with both legs of spec s written under t into f and o.        *)
WithPair(table, t, f, o, s) ==
    [table EXCEPT ![f] = NewLeg(t, s.from, s.to, -s.amount, s),
                  ![o] = NewLeg(t, s.to, s.from, s.amount, s)]

FreshPair(f, o) == f # o /\ rows[f] = Unused /\ rows[o] = Unused

(* updateLeg: the row r rewritten with an edit and a signed amount.        *)
Rewritten(r, amount, e) ==
    [rows[r] EXCEPT !.amount = amount, !.date = e.date,
                    !.cat = IF rows[r].kind = "regular" THEN e.cat ELSE @,
                    !.status = StoredStatus(r, e.status)]

WithStatus(r, s) == [rows[r] EXCEPT !.status = StoredStatus(r, s)]

(* The category Get reports for a transfer: whichever leg carries one.     *)
CategoryOf(f, o) ==
    IF rows[f].cat # NoCategory THEN rows[f].cat ELSE rows[o].cat

(* The spec that would write the pair as it stands, sent from f to o.      *)
SpecOf(f, o, head) ==
    [from |-> rows[f].acct, to |-> rows[o].acct, amount |-> Abs(rows[o].amount),
     date |-> rows[head].date, cat |-> CategoryOf(f, o),
     status |-> LegStatus(head)]

----------------------------------------------------------------------------
(* Operations that check first and write later.                            *)

Begin(lane, j) ==
    /\ job[lane] = Idle
    /\ job' = [job EXCEPT ![lane] = j]
    /\ UNCHANGED <<rows, open, minted, token>>

BeginCreate(s) ==
    /\ GuardSpec(s)
    /\ Begin("managed", [op |-> "create", spec |-> s])

FinishCreate(t, f, o) ==
    LET j == job["managed"] IN
    /\ j # Idle /\ j.op = "create"
    /\ t \notin minted
    /\ FreshPair(f, o)
    /\ rows' = WithPair(rows, t, f, o, j.spec)
    /\ minted' = minted \cup {t}
    /\ job' = [job EXCEPT !["managed"] = Idle]
    /\ UNCHANGED <<open, token>>

(* Mutant of BeginRecreate: undo trusts what was checked at the delete.    *)
BeginRecreateUnchecked(t) ==
    /\ token[t] # NoToken /\ token[t].op = "delete"
    /\ Begin("managed", [op |-> "recreate", tid |-> t, spec |-> token[t].spec])

(* Undoing a delete: both legs again, under the old transfer id, in new    *)
(* rows.                                                                   *)
BeginRecreate(t) ==
    /\ token[t] # NoToken /\ token[t].op = "delete"
    /\ GuardSpec(token[t].spec)
    /\ Begin("managed", [op |-> "recreate", tid |-> t, spec |-> token[t].spec])

FinishRecreate(f, o) ==
    LET j == job["managed"] IN
    /\ j # Idle /\ j.op = "recreate"
    /\ FreshPair(f, o)
    /\ rows' = WithPair(rows, j.tid, f, o, j.spec)
    /\ token' = [token EXCEPT ![j.tid] = NoToken]
    /\ job' = [job EXCEPT !["managed"] = Idle]
    /\ UNCHANGED <<open, minted>>

(* A deposit or withdrawal becomes a transfer.  The row is read and the    *)
(* spec checked first; the transaction deletes whatever the row is by then.*)
BeginReplace(r, s) ==
    /\ Plain(r) /\ rows[r].kind \in {"deposit", "withdrawal"}
    /\ rows[r].acct \in {s.from, s.to}
    /\ GuardSpec(s)
    /\ Begin("direct", [op |-> "replace", row |-> r, spec |-> s])

FinishReplace(t, f, o) ==
    LET j == job["direct"] IN
    /\ j # Idle /\ j.op = "replace"
    /\ Live(j.row)
    /\ t \notin minted
    /\ FreshPair(f, o)
    /\ rows' = WithPair([rows EXCEPT ![j.row] = Deleted], t, f, o, j.spec)
    /\ minted' = minted \cup {t}
    /\ job' = [job EXCEPT !["direct"] = Idle]
    /\ UNCHANGED <<open, token>>

(* A row that is no transfer: an import, a deposit, a withdrawal.          *)
BeginPlain(new) ==
    /\ new.acct \in open
    /\ new.date >= OpeningDate[new.acct]
    /\ Begin("direct", [op |-> "plain", new |-> new])

FinishPlain(r) ==
    LET j == job["direct"] IN
    /\ j # Idle /\ j.op = "plain"
    /\ rows[r] = Unused
    /\ rows' = [rows EXCEPT ![r] = j.new]
    /\ job' = [job EXCEPT !["direct"] = Idle]
    /\ UNCHANGED <<open, minted, token>>

(* The transaction fails and rolls back, or the second read refuses.       *)
Abort(lane) ==
    /\ job[lane] # Idle
    /\ job' = [job EXCEPT ![lane] = Idle]
    /\ UNCHANGED <<rows, open, minted, token>>

----------------------------------------------------------------------------
(* Operations on a transfer that read and write in one transaction.        *)

Write(table) ==
    /\ ManagerFree
    /\ rows' = table
    /\ UNCHANGED <<open, minted, job>>

(* Mutant of Update: the receiving leg keeps its amount.                   *)
UpdateOneLeg(t, f, o, e) ==
    /\ IsTransfer(t, f, o)
    /\ CheckLive(f, o)
    /\ Write([rows EXCEPT ![f] = Rewritten(f, -e.amount, e),
                          ![o] = Rewritten(o, rows[o].amount, e)])
    /\ UNCHANGED token

Update(t, f, o, e) ==
    /\ IsTransfer(t, f, o)
    /\ CheckLive(f, o)
    /\ GuardSpec([from |-> rows[f].acct, to |-> rows[o].acct, amount |-> e.amount,
                  date |-> e.date, cat |-> e.cat, status |-> e.status])
    /\ Write([rows EXCEPT ![f] = Rewritten(f, -e.amount, e),
                          ![o] = Rewritten(o, e.amount, e)])
    /\ UNCHANGED token

(* The receiving leg becomes the sending one.                              *)
Reverse(t, f, o) ==
    LET s == [SpecOf(f, o, f) EXCEPT !.from = rows[o].acct, !.to = rows[f].acct] IN
    /\ IsTransfer(t, f, o)
    /\ CheckLive(f, o)
    /\ GuardSpec(s)
    /\ Write([rows EXCEPT ![f] = Rewritten(f, s.amount, s),
                          ![o] = Rewritten(o, -s.amount, s)])
    /\ UNCHANGED token

SetStatus(t, f, o, s) ==
    /\ s # "void"
    /\ IsTransfer(t, f, o)
    /\ CheckMutable(f, o)
    /\ Write([rows EXCEPT ![f] = WithStatus(f, s), ![o] = WithStatus(o, s)])
    /\ UNCHANGED token

(* One leg only; a reconciled leg on the other side does not block it.     *)
SetLegStatus(t, f, o, r, s) ==
    /\ s # "void"
    /\ IsTransfer(t, f, o)
    /\ r \in {f, o}
    /\ LegStatus(r) # "reconciled"
    /\ Write([rows EXCEPT ![r] = WithStatus(r, s)])
    /\ UNCHANGED token

VoidedRow(r) == [rows[r] EXCEPT !.amount = 0, !.status = "void"]

Void(t, f, o) ==
    /\ IsTransfer(t, f, o)
    /\ CheckLive(f, o)
    /\ ~ HasInvestmentLeg(f, o)
    /\ Write([rows EXCEPT ![f] = VoidedRow(f), ![o] = VoidedRow(o)])
    /\ token' = [token EXCEPT ![t] =
         [op   |-> "void",
          from |-> [row |-> f, amount |-> rows[f].amount, status |-> rows[f].status],
          to   |-> [row |-> o, amount |-> rows[o].amount, status |-> rows[o].status]]]

RestoredRow(leg) ==
    [rows[leg.row] EXCEPT !.amount = leg.amount, !.status = leg.status]

(* Mutant of Restore: the second leg is forgotten.                         *)
RestoreOneLeg(t, f, o) ==
    LET k == token[t] IN
    /\ k # NoToken /\ k.op = "void"
    /\ IsTransfer(t, f, o)
    /\ {k.from.row, k.to.row} = {f, o}
    /\ Write([rows EXCEPT ![k.from.row] = RestoredRow(k.from)])
    /\ token' = [token EXCEPT ![t] = NoToken]

(* Undoing a void from the command's snapshots.  Undo runs in reverse      *)
(* order, so the legs are as the void left them.                           *)
Restore(t, f, o) ==
    LET k == token[t] IN
    /\ k # NoToken /\ k.op = "void"
    /\ IsTransfer(t, f, o)
    /\ ~ HasInvestmentLeg(f, o)
    /\ {k.from.row, k.to.row} = {f, o}
    /\ rows[f].status = "void" /\ rows[o].status = "void"
    /\ Write([rows EXCEPT ![k.from.row] = RestoredRow(k.from),
                          ![k.to.row] = RestoredRow(k.to)])
    /\ token' = [token EXCEPT ![t] = NoToken]

Delete(t, f, o) ==
    /\ IsTransfer(t, f, o)
    /\ CheckMutable(f, o)
    /\ Write([rows EXCEPT ![f] = Deleted, ![o] = Deleted])
    /\ token' = [token EXCEPT ![t] = [op |-> "delete", spec |-> SpecOf(f, o, f)]]

----------------------------------------------------------------------------
(* Other services on the same rows.                                        *)

(* A register row is refused when void or reconciled; investment.Service   *)
(* has neither rule, and its edits do not run through the undo manager.    *)
PlainMutable(r) ==
    /\ Plain(r)
    /\ rows[r].acct \in open
    /\ rows[r].kind = "regular" => /\ ManagerFree
                                   /\ rows[r].status \notin {"void", "reconciled"}

DeletePlain(r) ==
    /\ PlainMutable(r)
    /\ rows' = [rows EXCEPT ![r] = Deleted]
    /\ UNCHANGED <<open, minted, token, job>>

(* ClearTransaction and MarkTransactionUncleared do not ask whether the    *)
(* row is a leg.                                                           *)
MarkRow(r, s) ==
    /\ Live(r) /\ rows[r].kind = "regular"
    /\ rows[r].status \notin {"void", "reconciled"}
    /\ rows[r].acct \in open
    /\ Write([rows EXCEPT ![r].status = s])
    /\ UNCHANGED token

RegisterRows(a) == {r \in RowId : Live(r) /\ rows[r].acct = a /\ rows[r].kind = "regular"}
CashRows(a)     == {r \in RowId : Live(r) /\ rows[r].acct = a /\ rows[r].kind # "regular"}

WithStatuses(S, st) ==
    [r \in RowId |-> IF r \in S THEN [rows[r] EXCEPT !.status = st[r]] ELSE rows[r]]

(* Finishing a reconciliation marks the checked rows of one account; a row *)
(* already reconciled is skipped and a void one fails the whole finish.    *)
(* An account may have been closed since the session began.                *)
Reconcile(a, S) ==
    /\ a \notin InvAccount
    /\ \A r \in S : rows[r].status # "void"
    /\ Write(WithStatuses(S, [r \in S |-> "reconciled"]))
    /\ UNCHANGED token

(* Undoing a finish writes the earlier statuses back to the rows that are  *)
(* still reconciled.                                                       *)
UndoFinish(a, S, before) ==
    /\ a \notin InvAccount
    /\ \A r \in S : rows[r].status = "reconciled"
    /\ Write(WithStatuses(S, before))
    /\ UNCHANGED token

Total(S) == MapThenSumSet(LAMBDA r : rows[r].amount, S)

Empty(a) ==
    /\ Total(RegisterRows(a)) = 0
    /\ a \in InvAccount => Total(CashRows(a)) = 0

(* Close, dated today.                                                     *)
BeginClose(a) ==
    /\ a \in open
    /\ Empty(a)
    /\ \A r \in RegisterRows(a) \cup CashRows(a) : rows[r].date <= Today
    /\ OpeningDate[a] <= Today
    /\ Begin("managed", [op |-> "close", acct |-> a])

FinishClose ==
    LET j == job["managed"] IN
    /\ j # Idle /\ j.op = "close"
    /\ open' = open \ {j.acct}
    /\ job' = [job EXCEPT !["managed"] = Idle]
    /\ UNCHANGED <<rows, minted, token>>

Reopen(a) ==
    /\ ManagerFree
    /\ a \notin open
    /\ open' = open \cup {a}
    /\ UNCHANGED <<rows, minted, token, job>>

(* The process ends, by choice or by a crash.  The database keeps whole    *)
(* transactions only; the undo stack is not kept.                          *)
Restart ==
    /\ job' = [lane \in Lane |-> Idle]
    /\ token' = [t \in TransferId |-> NoToken]
    /\ UNCHANGED <<rows, open, minted>>

----------------------------------------------------------------------------
Init ==
    /\ rows = [r \in RowId |-> Unused]
    /\ open = Account
    /\ minted = {}
    /\ token = [t \in TransferId |-> NoToken]
    /\ job = [lane \in Lane |-> Idle]

(* What the transfer dialog and the command line ask for.                  *)
NewTransfer == {s \in TransferSpec : s.amount # 0 /\ s.status = "uncleared"}

JobNext ==
    \/ \E s \in NewTransfer : BeginCreate(s)
    \/ \E t \in TransferId : BeginRecreate(t)
    \/ \E r \in RowId, s \in NewTransfer : BeginReplace(r, s)
    \/ \E new \in PlainRow : BeginPlain(new)
    \/ \E a \in Account : BeginClose(a)
    \/ \E t \in TransferId, f, o \in RowId : FinishCreate(t, f, o)
    \/ \E f, o \in RowId : FinishRecreate(f, o)
    \/ \E t \in TransferId, f, o \in RowId : FinishReplace(t, f, o)
    \/ \E r \in RowId : FinishPlain(r)
    \/ FinishClose
    \/ \E lane \in Lane : Abort(lane)

TransferNext ==
    \E t \in minted : \E f, o \in Legs(t) :
        \/ Delete(t, f, o)
        \/ Void(t, f, o)
        \/ Restore(t, f, o)
        \/ \E r \in {f, o}, s \in InputStatus : SetLegStatus(t, f, o, r, s)
        \/ \E s \in InputStatus : SetStatus(t, f, o, s)
        \/ \E e \in Edit : Update(t, f, o, e)
        \/ Reverse(t, f, o)

OtherNext ==
    \/ \E r \in RowId : DeletePlain(r)
    \/ \E r \in RowId, s \in InputStatus : MarkRow(r, s)
    \/ \E a \in Account \ InvAccount : \E S \in SUBSET RegisterRows(a) :
          \/ Reconcile(a, S)
          \/ \E before \in [S -> InputStatus] : UndoFinish(a, S, before)
    \/ \E a \in Account : Reopen(a)
    \/ Restart

Next == JobNext \/ TransferNext \/ OtherNext

Spec == Init /\ [][Next]_vars

----------------------------------------------------------------------------
(* Properties.                                                             *)

(* Every variable keeps its type: in particular a row that reads back from *)
(* investment_transactions never carries a category or the void status.    *)
TypeOK ==
    /\ rows \in [RowId -> Row \cup {Unused, Deleted}]
    /\ open \subseteq Account
    /\ minted \subseteq TransferId
    /\ token \in [TransferId -> Token \cup {NoToken}]
    /\ job \in [Lane -> Job \cup {Idle}]

(* What makes two rows a transfer: mutual pointers between two accounts,   *)
(* amounts that cancel, each row on the ledger of its account, and one     *)
(* category where both ledgers can store it.                               *)
Mirror(f, o) ==
    /\ f # o
    /\ rows[f].acct # rows[o].acct
    /\ rows[f].other = rows[o].acct /\ rows[o].other = rows[f].acct
    /\ rows[f].amount = -rows[o].amount
    /\ \A r \in {f, o} :
          rows[r].kind = IF rows[r].acct \in InvAccount THEN "transfer_cash" ELSE "regular"
    /\ ~ HasInvestmentLeg(f, o) => rows[f].cat = rows[o].cat

(* A transfer is never half there: every transfer id names no rows at all  *)
(* or exactly two that mirror each other, whatever was created, edited,    *)
(* voided, restored, deleted, recreated or replaced in whatever order, and *)
(* wherever the process stopped.                                           *)
PairMirror ==
    \A t \in TransferId :
        Legs(t) = {} \/ \E f, o \in RowId : Legs(t) = {f, o} /\ Mirror(f, o)

(* A void mark on either leg means no money on both: no sequence of edits, *)
(* marks and undos leaves one leg struck and the other one counting.       *)
VoidIsEmpty ==
    \A t \in TransferId : \A f, o \in Legs(t) :
        rows[f].status = "void" => rows[o].amount = 0

(* What a command on the managed lane has checked stays true until it      *)
(* writes: it never writes into an account closed meanwhile, and an undo   *)
(* of a delete never finds its transfer id back in use.                    *)
ManagedCheckHolds ==
    LET j == job["managed"] IN
    j # Idle /\ j.op \in {"create", "recreate"} =>
        /\ {j.spec.from, j.spec.to} \subseteq open
        /\ j.op = "recreate" => Legs(j.tid) = {}

(* A reconciled row of a register or of a transfer is locked: it stays,    *)
(* on its account and its transfer, with its amount and date, until a      *)
(* finish is undone.  (investment.Service locks no deposit or withdrawal.) *)
ReconciledLocked ==
    [][\A r \in RowId :
          /\ Live(r) /\ LegStatus(r) = "reconciled"
          /\ rows[r].kind = "regular" \/ rows[r].tid # NoTransfer
          => /\ Live(r)'
             /\ \A c \in {"acct", "other", "tid", "amount", "date"} :
                   rows'[r][c] = rows[r][c]
      ]_vars

(* The documented freeze: a row that counts in the balance of a closed     *)
(* account is neither removed nor given another amount until the account   *)
(* is reopened (specs/accounts.md, "Close Account"), so the account keeps  *)
(* the zero balance it was closed at.                                      *)
ClosedKeepsBalance ==
    [][\A r \in RowId :
          Live(r) /\ rows[r].acct \notin open \cup open' /\ rows[r].amount # 0
          => Live(r)' /\ rows'[r].amount = rows[r].amount
      ]_vars
=============================================================================
