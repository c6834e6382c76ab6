--------------------------- MODULE InvestmentLedger ---------------------------
(***************************************************************************)
(* The shares of one security in the investment accounts                   *)
(* (src/internal/investment): the ledger rows say what was bought, sold    *)
(* and moved; the holdings are kept beside them, as one position or as tax *)
(* lots, adjusted by every command and recomputed from the rows by a heal  *)
(* before most of them.                                                    *)
(*                                                                         *)
(* A command is one transaction, after a heal in a transaction of its own. *)
(* Turning lot tracking on or off, and a purchase that catches up with     *)
(* splits, are several transactions, and the program may end between them. *)
(* Prices, costs and cash are left out.                                    *)
(***************************************************************************)
EXTENDS Integers, Sequences, FiniteSetsExt, SequencesExt, TLC

CONSTANTS
    Account,     \* investment accounts
    Lump,        \* the numbers of shares a command names
    Date,
    NoDate,
    SplitRatio,
    None,
    MaxRow,      \* bound: row identifiers
    Scopes       \* bound: the rows, splits and switches of lot tracking that
                 \* one behaviour may have, whether accounts close, and the
                 \* shares and days it names

Scope == [rows : 0..MaxRow, splits : Nat, switches : Nat, closes : BOOLEAN,
          lumps : SUBSET Lump, days : SUBSET Date]

ASSUME InvestmentAssumption ==
    /\ Date \subseteq Nat \ {0} /\ Date # {} /\ IsFiniteSet(Date) /\ NoDate \notin Date
    /\ Lump \subseteq Nat \ {0} /\ IsFiniteSet(Account)
    /\ SplitRatio \in Nat \ {0, 1}
    /\ \A n \in Lump : n % SplitRatio = 0
    /\ MaxRow \in Nat
    /\ Scopes \subseteq Scope

VARIABLES
    books,    \* rows, lots, junctions, positions, accounts and the split
    job,      \* the command that is between two of its transactions
    loose,    \* history: accounts whose holdings need not follow their rows
    raw,      \* history: purchases entered after a split that precedes them
    skewed,   \* history: lots scaled when shares had been taken from them
    scope     \* what is left of the scope

vars == <<books, job, loose, raw, skewed, scope>>

RowId == 1..MaxRow
Sort  == {"buy", "sell", "send", "receive"}
Adds(row) == row.sort \in {"buy", "receive"}

(* A row, and the two rows of a share transfer, named by the sending one.  *)
Row   == [acct : Account, date : Date, sort : Sort, n : Lump, pair : 0..MaxRow]
LotId == RowId \X (1..MaxRow)
Lot   == [acct : Account, date : Date, left : Int, orig : Int, closed : BOOLEAN]

TypeOK ==
    /\ DOMAIN books.rows \subseteq RowId
    /\ \A r \in DOMAIN books.rows : books.rows[r] \in Row
    /\ DOMAIN books.lots \subseteq LotId
    /\ \A l \in DOMAIN books.lots : books.lots[l] \in Lot
    /\ DOMAIN books.junctions \subseteq RowId \X LotId
    /\ \A j \in DOMAIN books.junctions : books.junctions[j] \in Nat
    /\ books.pos \in [Account -> Int]
    /\ books.tracked \in [Account -> BOOLEAN] /\ books.open \in [Account -> BOOLEAN]
    /\ books.split \in Date \cup {NoDate}
    /\ loose \subseteq Account /\ raw \subseteq RowId /\ skewed \subseteq LotId
    /\ scope \in Scope

RowsOf(b, a)   == {r \in DOMAIN b.rows : b.rows[r].acct = a}
LotsOf(b, a)   == {l \in DOMAIN b.lots : b.lots[l].acct = a}
OpenLots(b, a) == {l \in LotsOf(b, a) : ~b.lots[l].closed}
LotsFrom(b, r) == {l \in DOMAIN b.lots : l[1] = r}
Junctions(b, r) == {j \in DOMAIN b.junctions : j[1] = r}
InOpen(b, a)   == MapThenSumSet(LAMBDA l : b.lots[l].left, OpenLots(b, a))

Drop(f, S) == [x \in DOMAIN f \ S |-> f[x]]

(* Rows in the order of a replay: by date, and by creation on one day.     *)
Before(b, q, r) ==
    \/ b.rows[q].date < b.rows[r].date
    \/ b.rows[q].date = b.rows[r].date /\ q < r

(* What row q counts for on a day: a split comes after the rows of its own *)
(* day and before those of the next.                                       *)
Worth(b, q, day) ==
    (IF Adds(b.rows[q]) THEN b.rows[q].n ELSE -b.rows[q].n)
      * (IF b.split # NoDate /\ b.rows[q].date <= b.split /\ b.split < day
         THEN SplitRatio ELSE 1)

Eve(b, r) ==
    MapThenSumSet(LAMBDA q : Worth(b, q, b.rows[r].date),
                  {q \in RowsOf(b, b.rows[r].acct) : Before(b, q, r)})

AfterAll == 1 + CHOOSE d \in Date : \A e \in Date : e <= d
Replayed(b, a) == MapThenSumSet(LAMBDA q : Worth(b, q, AfterAll), RowsOf(b, a))
Replays(b, a)  == \A r \in RowsOf(b, a) : Adds(b.rows[r]) \/ Eve(b, r) >= b.rows[r].n

(* The holdings of an account as valuation and the close rule read them.   *)
Held(b, a) == IF b.tracked[a] THEN InOpen(b, a) ELSE b.pos[a]

-----------------------------------------------------------------------------
(* The heal.  An operator that may refuse gives the set of the books it    *)
(* may leave, which is empty when it does.                                 *)

Consumed(b, l) ==
    MapThenSumSet(LAMBDA j : b.junctions[j], {j \in DOMAIN b.junctions : j[2] = l})
Remaining(b, l) == b.lots[l].orig - Consumed(b, l)

Relot(b, a) ==
    [b EXCEPT !.lots = [l \in DOMAIN @ |->
        IF l \in LotsOf(b, a)
        THEN [@[l] EXCEPT !.left = Remaining(b, l), !.closed = Remaining(b, l) = 0]
        ELSE @[l]]]

(* Lots are not replayed across a split.                                   *)
Gated(b, a) == b.split # NoDate /\ b.tracked[a]

Heal(b, a) ==
    LET c == [b EXCEPT !.pos[a] = Replayed(b, a)] IN
    CASE Gated(b, a)      -> {b}
      [] ~Replays(b, a)   -> {}
      [] ~b.tracked[a]    -> {c}
      [] OTHER            -> IF \E l \in LotsOf(b, a) : Remaining(b, l) < 0
                             THEN {} ELSE {Relot(c, a)}

(* The rebuild of one account: as the heal, but a position without rows is *)
(* left when the security has a split.                                     *)
Rebuild(b, a) == IF RowsOf(b, a) = {} /\ b.split # NoDate THEN {b} ELSE Heal(b, a)

(* The rebuild of every account at an open; a failure spares the others.   *)
HealAll(b) ==
    FoldSet(LAMBDA a, c : IF Rebuild(c, a) = {} THEN c ELSE CHOOSE d \in Rebuild(c, a) : TRUE,
            b, Account)

-----------------------------------------------------------------------------
(* Adding and removing shares.                                             *)

(* A row number that no row, lot or pair still names.                      *)
Fresh(b) ==
    1 + Max({0} \cup DOMAIN b.rows \cup {l[1] : l \in DOMAIN b.lots}
                \cup {b.rows[r].pair : r \in DOMAIN b.rows})

WithRow(b, r, row) == [b EXCEPT !.rows = (r :> row) @@ @]
NewLot(a, d, n)    == [acct |-> a, date |-> d, left |-> n, orig |-> n, closed |-> FALSE]

AddShares(b, a, r, d, n) ==
    IF b.tracked[a]
    THEN [b EXCEPT !.lots = (<<r, 1>> :> NewLot(a, d, n)) @@ @]
    ELSE [b EXCEPT !.pos[a] = @ + n]

(* The lots a command may name for n shares, and how many from each.       *)
Allocations(b, a, n) ==
    {f \in UNION {[S -> Lump] : S \in SUBSET OpenLots(b, a) \ {{}}} :
        /\ MapThenSumSet(LAMBDA l : f[l], DOMAIN f) = n
        /\ \A l \in DOMAIN f : f[l] <= b.lots[l].left}

Reduce(b, r, f) ==
    [b EXCEPT !.lots = [l \in DOMAIN @ |->
                IF l \in DOMAIN f
                THEN [@[l] EXCEPT !.left = @ - f[l], !.closed = b.lots[l].left = f[l]]
                ELSE @[l]],
              !.junctions = [j \in {<<r, l>> : l \in DOMAIN f} |-> f[j[2]]] @@ @]

Bought(b, a, d, n) ==
    LET r == Fresh(b) IN
    IF b.open[a] /\ r <= scope.rows
    THEN {AddShares(WithRow(b, r, [acct |-> a, date |-> d, sort |-> "buy", n |-> n,
                                   pair |-> 0]), a, r, d, n)}
    ELSE {}

Sold(b, a, d, n) ==
    LET r == Fresh(b)
        c == WithRow(b, r, [acct |-> a, date |-> d, sort |-> "sell", n |-> n, pair |-> 0])
    IN  CASE ~b.open[a] \/ r > scope.rows -> {}
          [] b.tracked[a] -> {Reduce(c, r, f) : f \in Allocations(b, a, n)}
          [] OTHER -> IF b.pos[a] < n THEN {} ELSE {[c EXCEPT !.pos[a] = @ - n]}

(* The lots that arrive: one for each allocation, with the purchase date   *)
(* of the lot it came from.                                                *)
Arrivals(b, to, r, f) ==
    LET from == SetToSeq(DOMAIN f) IN
    [l \in {<<r, k>> : k \in DOMAIN from} |->
        NewLot(to, b.lots[from[l[2]]].date, f[from[l[2]]])]

(* A sender without lots names none, and none arrive.                      *)
Moved(b, a, to, d, n) ==
    LET s == Fresh(b)  r == s + 1
        leg(acct, sort) == [acct |-> acct, date |-> d, sort |-> sort, n |-> n, pair |-> s]
        c == WithRow(WithRow(b, s, leg(a, "send")), r, leg(to, "receive"))
        sent == IF b.tracked[a]
                THEN {<<Reduce(c, s, f), Arrivals(b, to, r, f)>> : f \in Allocations(b, a, n)}
                ELSE IF b.pos[a] < n THEN {} ELSE {<<[c EXCEPT !.pos[a] = @ - n], <<>>>>}
    IN  IF ~b.open[a] \/ ~b.open[to] \/ a = to \/ r > scope.rows THEN {}
        ELSE {IF b.tracked[to] THEN [x[1] EXCEPT !.lots = x[2] @@ @]
              ELSE [x[1] EXCEPT !.pos[to] = @ + n] : x \in sent}

-----------------------------------------------------------------------------
(* Taking a row back.                                                      *)

(* Of several lots from one row the query returns any one.                 *)
ReverseAddition(b, r) ==
    LET row == b.rows[r] IN
    CASE ~b.tracked[row.acct]  -> {[b EXCEPT !.pos[row.acct] = @ - row.n]}
      [] LotsFrom(b, r) = {}   -> {b}
      [] OTHER -> {[b EXCEPT !.lots = Drop(@, {l})] :
                      l \in {k \in LotsFrom(b, r) : b.lots[k].left = b.lots[k].orig}}

(* Mutant of ReverseRemoval: a lot that was closed stays closed.           *)
ReverseRemovalStaysClosed(b, r) ==
    LET row == b.rows[r] IN
    CASE ~b.tracked[row.acct] -> {[b EXCEPT !.pos[row.acct] = @ + row.n]}
      [] OTHER -> {[b EXCEPT !.lots = [l \in DOMAIN @ |->
                      IF <<r, l>> \in Junctions(b, r)
                      THEN [@[l] EXCEPT !.left = @ + b.junctions[<<r, l>>]]
                      ELSE @[l]]]}

ReverseRemoval(b, r) ==
    LET row == b.rows[r] IN
    CASE ~b.tracked[row.acct] -> {[b EXCEPT !.pos[row.acct] = @ + row.n]}
      [] \E j \in Junctions(b, r) : j[2] \notin DOMAIN b.lots -> {}
      [] OTHER -> {[b EXCEPT !.lots = [l \in DOMAIN @ |->
                      IF <<r, l>> \in Junctions(b, r)
                      THEN [@[l] EXCEPT !.left = @ + b.junctions[<<r, l>>], !.closed = FALSE]
                      ELSE @[l]]]}

Undone(b, r) == IF Adds(b.rows[r]) THEN ReverseAddition(b, r) ELSE ReverseRemoval(b, r)

(* Mutant of Erase: the junctions stay.                                    *)
EraseRowOnly(b, r) == [b EXCEPT !.rows = Drop(@, {r})]

(* The row goes and takes its junctions along.                             *)
Erase(b, r) == [b EXCEPT !.rows = Drop(@, {r}), !.junctions = Drop(@, Junctions(b, r))]

Leg(b, r)   == b.rows[r].pair # 0
Other(b, r) == {o \in DOMAIN b.rows \ {r} : Leg(b, r) /\ b.rows[o].pair = b.rows[r].pair}

(* Mutant of Deleted: the other row of a transfer stays.                   *)
DeletedAlone(b, r) ==
    IF \A q \in {r} \cup Other(b, r) : b.open[b.rows[q].acct]
    THEN {Erase(c, r) : c \in Undone(b, r)} ELSE {}

(* Mutant of Deleted: only the account of the row itself must be open.     *)
DeletedOwnOpen(b, r) ==
    IF b.open[b.rows[r].acct]
    THEN {Erase(d, r) : d \in UNION {
            IF Other(b, r) = {} THEN {c}
            ELSE UNION {{Erase(d, o) : d \in Undone(c, o)} : o \in Other(b, r)} :
              c \in Undone(b, r)}}
    ELSE {}

Deleted(b, r) ==
    IF \A q \in {r} \cup Other(b, r) : b.open[b.rows[q].acct]
    THEN {Erase(d, r) : d \in UNION {
            IF Other(b, r) = {} THEN {c}
            ELSE UNION {{Erase(d, o) : d \in Undone(c, o)} : o \in Other(b, r)} :
              c \in Undone(b, r)}}
    ELSE {}

(* The first half of an edit of one row.                                   *)
Reversed(b, r) ==
    IF b.open[b.rows[r].acct] /\ ~Leg(b, r)
    THEN {Erase(c, r) : c \in Undone(b, r)} ELSE {}

(* The first half of an edit of a share transfer, begun at its sender.     *)
Unmoved(b, s) ==
    UNION {UNION {{Erase(Erase(d, r), s) : d \in Undone(c, r)} : c \in Undone(b, s)} :
              r \in Other(b, s)}

-----------------------------------------------------------------------------
(* Splits.                                                                 *)

InScope(b, d) ==
    {l \in DOMAIN b.lots : ~b.lots[l].closed /\ b.lots[l].date <= d}

AdjustLots(b, d, times, by) ==
    [b EXCEPT !.lots = [l \in DOMAIN @ |->
        IF l \in InScope(b, d)
        THEN [@[l] EXCEPT !.left = (@ * times) \div by, !.orig = (@ * times) \div by]
        ELSE @[l]]]

AsOf(b, a, d) ==
    MapThenSumSet(LAMBDA r : IF Adds(b.rows[r]) THEN b.rows[r].n ELSE -b.rows[r].n,
                  {r \in RowsOf(b, a) : b.rows[r].date <= d})

(* Whether an account has open lots decides, not whether it tracks lots.   *)
AdjustPositions(b, d, sign) ==
    [b EXCEPT !.pos = [a \in Account |->
        LET p == b.pos[a] + sign * AsOf(b, a, d) * (SplitRatio - 1) IN
        CASE OpenLots(b, a) # {} -> InOpen(b, a)
          [] OpenLots(b, a) = {} /\ b.pos[a] > 0 /\ AsOf(b, a, d) > 0 /\ p > 0 -> p
          [] OTHER -> b.pos[a]]]

(* The accounts in which a split, or its reversal, and a replay of the     *)
(* rows may part: the split takes the lots as they are now, a replay as    *)
(* they were on its day.                                                   *)
Parted(b, c, d) ==
    LET across(r, l) == (b.rows[r].date <= d) # (b.lots[l].date <= d) IN
    {a \in Account :
        IF b.tracked[a]
        THEN \/ \E j \in DOMAIN b.junctions : j[2] \in LotsOf(b, a) /\ across(j[1], j[2])
             \/ \E l \in LotsOf(b, a) : l[1] \in DOMAIN b.rows /\ across(l[1], l)
             \/ raw \cap RowsOf(b, a) # {}
        ELSE OpenLots(b, a) # {} \/ (AsOf(b, a, d) # 0 /\ c.pos[a] = b.pos[a])}

-----------------------------------------------------------------------------
(* The lots that a switch to lot tracking makes from the rows.             *)

Orders == {"fifo", "lifo"}

Consume(plan, r, lot) ==
    LET take == Min({plan.need, plan.lots[lot].left}) IN
    IF take = 0 THEN plan
    ELSE [plan EXCEPT !.need = @ - take,
                      !.lots[lot].left = @ - take,
                      !.lots[lot].closed = plan.lots[lot].left = take,
                      !.junctions = (<<r, lot>> :> take) @@ @]

Backfill(b, a, order) ==
    LET ordered == SetToSortSeq(RowsOf(b, a), LAMBDA q, r : Before(b, q, r))
        step(plan, r) ==
            LET row == b.rows[r]
                made == SelectSeq(ordered, LAMBDA q : <<q, 1>> \in DOMAIN plan.lots)
                turn == IF order = "fifo" THEN made ELSE [i \in DOMAIN made |-> made[Len(made) + 1 - i]]
                used == FoldLeft(LAMBDA p, q : Consume(p, r, <<q, 1>>),
                                 [plan EXCEPT !.need = row.n], turn)
            IN  IF Adds(row)
                THEN [plan EXCEPT !.lots = (<<r, 1>> :> NewLot(a, row.date, row.n)) @@ @]
                ELSE [used EXCEPT !.short = @ \/ used.need > 0]
    IN  FoldLeft(step, [lots |-> <<>>, junctions |-> <<>>, need |-> 0, short |-> FALSE],
                 ordered)

-----------------------------------------------------------------------------
(* The commands.                                                           *)

Init ==
    \E tracked \in [Account -> BOOLEAN] :
        /\ books = [rows |-> <<>>, lots |-> <<>>, junctions |-> <<>>,
                    pos |-> [a \in Account |-> 0], tracked |-> tracked,
                    open |-> [a \in Account |-> TRUE], split |-> NoDate]
        /\ job = None
        /\ loose = {} /\ raw = {} /\ skewed = {}
        /\ scope \in Scopes

Late(b, d) == b.split # NoDate /\ d <= b.split

(* The accounts in which the step from b to c, which takes back the rows   *)
(* gone, lets the holdings part from the rows: a row that precedes the     *)
(* split comes or goes at its own count, shares without lots arrive among  *)
(* lots, or one lot of several is taken back.                              *)
New(b, c, gone) == DOMAIN c.rows \ (DOMAIN b.rows \ gone)

Disturbed(b, c, gone) ==
    LET crosses(x, r) == /\ Late(x, x.rows[r].date)
                         /\ ~(x.rows[r].sort = "buy" /\ x.tracked[x.rows[r].acct])
        new == New(b, c, gone)
    IN  {b.rows[r].acct : r \in {q \in gone : crosses(b, q)}}
          \cup {c.rows[r].acct : r \in {q \in new :
                   \/ crosses(c, q)
                   \/ c.rows[q].sort = "receive" /\ c.tracked[c.rows[q].acct]
                        /\ LotsFrom(c, q) = {}}}
          \cup {b.rows[r].acct : r \in {q \in gone \ new : LotsFrom(c, q) # {}}}

(* The books become c, without the rows gone, after the accounts in H were *)
(* healed.                                                                 *)
Commit(H, gone, c) ==
    /\ books' = c
    /\ loose' = (loose \ {a \in H : ~books.tracked[a]}) \cup Disturbed(books, c, gone)
    /\ raw' = (raw \ gone)
                \cup {r \in New(books, c, gone) :
                        /\ c.rows[r].sort = "buy" /\ c.tracked[c.rows[r].acct]
                        /\ Late(c, c.rows[r].date)}
    /\ skewed' = {l \in skewed : l \in DOMAIN c.lots /\ l[1] \notin gone}
    /\ UNCHANGED scope

Idle == job = None /\ UNCHANGED job

Buy(a, d, n) ==
    /\ Idle /\ books.open[a]
    /\ \E h \in Heal(books, a) : \E c \in Bought(h, a, d, n) : Commit({a}, {}, c)

(* A sale, or shares liquidated for a fee.                                 *)
Sell(a, d, n) ==
    /\ Idle /\ books.open[a]
    /\ \E h \in Heal(books, a) : \E c \in Sold(h, a, d, n) : Commit({a}, {}, c)

TransferShares(a, to, d, n) ==
    /\ Idle /\ a # to
    /\ \E h \in Heal(books, a) : \E i \in Heal(h, to) :
         \E c \in Moved(i, a, to, d, n) : Commit({a, to}, {}, c)

(* A command that is refused after its heal.                               *)
Refused(a) == Idle /\ \E h \in Heal(books, a) : Commit({a}, {}, h)

DeleteTransaction(r) ==
    /\ Idle /\ r \in DOMAIN books.rows
    /\ \E c \in Deleted(books, r) : Commit({}, {r} \cup Other(books, r), c)

UpdateBuy(r, d, n) ==
    /\ Idle /\ r \in DOMAIN books.rows /\ books.rows[r].sort = "buy"
    /\ LET a == books.rows[r].acct IN
       \E h \in Heal(books, a) : \E u \in Reversed(h, r) :
         \E c \in Bought(u, a, d, n) : Commit({a}, {r}, c)

UpdateSell(r, d, n) ==
    /\ Idle /\ r \in DOMAIN books.rows /\ books.rows[r].sort = "sell"
    /\ LET a == books.rows[r].acct IN
       \E h \in Heal(books, a) : \E u \in Reversed(h, r) :
         \E c \in Sold(u, a, d, n) : Commit({a}, {r}, c)

(* The sender and the receiver may change with the edit.                   *)
UpdateTransferShares(s, a, to, d, n) ==
    /\ Idle /\ s \in DOMAIN books.rows /\ books.rows[s].sort = "send" /\ a # to
    /\ Cardinality(Other(books, s)) = 1
    /\ LET H == {books.rows[q].acct : q \in {s} \cup Other(books, s)} \cup {a, to}
           heal(Bs, x) == UNION {Heal(b, x) : b \in Bs}
       IN  /\ \A x \in H : books.open[x]
           /\ \E h \in FoldSet(LAMBDA x, Bs : heal(Bs, x), {books}, H) :
                \E u \in Unmoved(h, s) : \E c \in Moved(u, a, to, d, n) : Commit(H, {s} \cup Other(books, s), c)

Split(d) ==
    /\ Idle /\ books.split = NoDate /\ scope.splits > 0
    /\ LET c == AdjustPositions(AdjustLots(books, d, SplitRatio, 1), d, 1) IN
       /\ books' = [c EXCEPT !.split = d]
       /\ loose' = loose \cup Parted(books, c, d)
    /\ skewed' = skewed \cup {l \in InScope(books, d) : Consumed(books, l) > 0}
    /\ scope' = [scope EXCEPT !.splits = @ - 1]
    /\ UNCHANGED raw

(* Bound: no fraction of a share.                                          *)
Even(b, d) ==
    \A l \in InScope(b, d) :
        b.lots[l].left % SplitRatio = 0 /\ b.lots[l].orig % SplitRatio = 0

DeleteAction ==
    /\ Idle /\ books.split # NoDate
    /\ \A r \in DOMAIN books.rows : books.rows[r].date < books.split
    /\ Even(books, books.split)
    /\ LET d == books.split
           c == AdjustPositions(AdjustLots(books, d, 1, SplitRatio), d, -1)
       IN  /\ books' = [c EXCEPT !.split = NoDate]
           /\ loose' = loose \cup Parted(books, c, d)
           /\ skewed' = skewed \cup {l \in InScope(books, d) : Consumed(books, l) > 0}
    /\ UNCHANGED <<raw, scope>>

(* A purchase entered after a split that follows it, with the option to    *)
(* catch up, which is a transaction of its own.                            *)
BuyThenCatchUp(a, d, n) ==
    /\ job = None /\ books.open[a] /\ Late(books, d)
    /\ \E h \in Heal(books, a) : \E c \in Bought(h, a, d, n) :
         /\ Commit({a}, {}, c)
         /\ job' = [op |-> "catchup", row |-> Fresh(h)]

(* An account without lots has nothing to scale.                           *)
CatchUp ==
    /\ job # None /\ job.op = "catchup"
    /\ job' = None
    /\ IF LotsFrom(books, job.row) = {} THEN UNCHANGED <<books, raw>>
       ELSE LET l == <<job.row, 1>>
                a == books.lots[l].acct
                c == [books EXCEPT !.lots[l].left = @ * SplitRatio,
                                       !.lots[l].orig = @ * SplitRatio]
            IN  /\ books' = [c EXCEPT !.pos[a] = InOpen(c, a)]
                /\ raw' = raw \ {job.row}
    /\ UNCHANGED <<loose, skewed, scope>>

-----------------------------------------------------------------------------
(* Lot tracking on and off.                                                *)

Write(c) ==
    /\ books' = c
    /\ skewed' = skewed \cap DOMAIN c.lots
    /\ UNCHANGED <<raw, scope>>

EnableLots(a, order) ==
    /\ job = None /\ scope.switches > 0
    /\ LotsOf(books, a) = {}
    /\ RowsOf(books, a) = {} \/ books.split = NoDate
    /\ job' = [op |-> "enable", acct |-> a, plan |-> Backfill(books, a, order)]
    /\ scope' = [scope EXCEPT !.switches = @ - 1]
    /\ UNCHANGED <<books, loose, raw, skewed>>

(* One lot after another, in the order of the rows, then the junctions.    *)
ApplyBackfill ==
    /\ job # None /\ job.op = "enable"
    /\ LET todo  == DOMAIN job.plan.lots \ DOMAIN books.lots
           links == DOMAIN job.plan.junctions \ DOMAIN books.junctions
       IN  \/ \E l \in todo :
                /\ \A k \in todo : k = l \/ Before(books, l[1], k[1])
                /\ Write([books EXCEPT !.lots = (l :> job.plan.lots[l]) @@ @])
           \/ /\ todo = {}
              /\ \E j \in links :
                   Write([books EXCEPT !.junctions = (j :> job.plan.junctions[j]) @@ @])
    /\ UNCHANGED <<job, loose>>

TrackLots ==
    /\ job # None /\ job.op = "enable"
    /\ DOMAIN job.plan.lots \subseteq DOMAIN books.lots
    /\ DOMAIN job.plan.junctions \subseteq DOMAIN books.junctions
    /\ Write([books EXCEPT !.tracked[job.acct] = TRUE])
    /\ loose' = IF job.plan.short THEN loose \cup {job.acct} ELSE loose \ {job.acct}
    /\ job' = None

(* The flag goes first.                                                    *)
DisableLots(a) ==
    /\ job = None /\ scope.switches > 0
    /\ books.tracked[a]
    /\ books' = [books EXCEPT !.tracked[a] = FALSE]
    /\ loose' = loose \cup {a}
    /\ job' = [op |-> "disable", acct |-> a, step |-> "junctions"]
    /\ scope' = [scope EXCEPT !.switches = @ - 1]
    /\ UNCHANGED <<raw, skewed>>

DeleteJunctions ==
    /\ job # None /\ job.op = "disable" /\ job.step = "junctions"
    /\ Write([books EXCEPT !.junctions =
                 Drop(@, {j \in DOMAIN @ : j[2] \in LotsOf(books, job.acct)})])
    /\ job' = [job EXCEPT !.step = "lots"]
    /\ UNCHANGED loose

DeleteLots ==
    /\ job # None /\ job.op = "disable" /\ job.step = "lots"
    /\ Write([books EXCEPT !.lots = Drop(@, LotsOf(books, job.acct))])
    /\ job' = [job EXCEPT !.step = "rebuild"]
    /\ UNCHANGED loose

RebuildPositions ==
    /\ job # None /\ job.op = "disable" /\ job.step = "rebuild"
    /\ \E c \in Rebuild(books, job.acct) :
         /\ Write(c)
         /\ loose' = IF RowsOf(books, job.acct) = {} THEN loose ELSE loose \ {job.acct}
    /\ job' = None

(* A write fails and the command ends there.                               *)
Fails == job # None /\ job' = None
         /\ UNCHANGED <<books, loose, raw, skewed, scope>>

(* The program ends, between two transactions or not, and opens the file   *)
(* again.                                                                  *)
Open ==
    /\ job' = None
    /\ Write(HealAll(books))
    /\ loose' = loose \ {a \in Account : ~books.tracked[a] /\ Replays(books, a)
                                          /\ RowsOf(books, a) # {}}

-----------------------------------------------------------------------------
(* Closing.  The cash of the account is zero too.                          *)

LedgerState(b, a) ==
    IF b.tracked[a] THEN \E l \in OpenLots(b, a) : b.lots[l].left # 0 ELSE b.pos[a] # 0

Close(a) ==
    /\ Idle /\ scope.closes /\ books.open[a] /\ ~LedgerState(books, a)
    /\ Commit({}, {}, [books EXCEPT !.open[a] = FALSE])

Reopen(a) ==
    /\ Idle /\ ~books.open[a]
    /\ Commit({}, {}, [books EXCEPT !.open[a] = TRUE])

Next ==
    \/ \E a \in Account, d \in scope.days, n \in scope.lumps :
         Buy(a, d, n) \/ Sell(a, d, n) \/ BuyThenCatchUp(a, d, n)
    \/ \E a, to \in Account, d \in scope.days, n \in scope.lumps :
         \/ TransferShares(a, to, d, n)
         \/ \E s \in RowId : UpdateTransferShares(s, a, to, d, n)
    \/ \E r \in RowId, d \in scope.days, n \in scope.lumps : UpdateBuy(r, d, n) \/ UpdateSell(r, d, n)
    \/ \E r \in RowId : DeleteTransaction(r)
    \/ \E d \in scope.days : Split(d)
    \/ DeleteAction \/ CatchUp
    \/ \E a \in Account : Refused(a) \/ DisableLots(a) \/ Close(a) \/ Reopen(a)
    \/ \E a \in Account, order \in Orders : EnableLots(a, order)
    \/ ApplyBackfill \/ TrackLots \/ DeleteJunctions \/ DeleteLots \/ RebuildPositions
    \/ Fails \/ Open

Spec == Init /\ [][Next]_vars

-----------------------------------------------------------------------------
(* Whatever was bought, sold, moved, edited, deleted, split and healed, in *)
(* whatever order, and wherever a command was cut off, the holdings an     *)
(* account shows are those a replay of its rows gives, but in the accounts *)
(* where a split met rows of another day, lots were missing or shares came *)
(* without lots.                                                           *)
HoldingsMatchLedger ==
    \A a \in Account :
        a \notin loose /\ raw \cap RowsOf(books, a) = {} => Held(books, a) = Replayed(books, a)

(* A lot of a tracked account has left what its junctions do not take, is  *)
(* closed exactly when that is nothing, and its junctions are of rows and  *)
(* lots that exist, of its own account.  How much is left is not said of   *)
(* skewed lots, those split after shares had left them: a junction keeps   *)
(* the shares of before the split (SplitKeepsRemaining does not hold).     *)
LotsFollowJunctions ==
    /\ \A l \in DOMAIN books.lots :
         LET lot == books.lots[l] IN
         books.tracked[lot.acct] =>
            /\ lot.left >= 0 /\ (lot.closed <=> lot.left = 0)
            /\ l \in skewed \/ lot.left = Remaining(books, l)
    /\ \A j \in DOMAIN books.junctions :
         j[2] \in DOMAIN books.lots /\ books.tracked[books.lots[j[2]].acct] =>
            /\ j[1] \in DOMAIN books.rows /\ ~Adds(books.rows[j[1]])
            /\ books.rows[j[1]].acct = books.lots[j[2]].acct

(* A share transfer has both its rows or neither: one sends and one        *)
(* receives, the same shares on the same day, in two accounts.             *)
LegsPair ==
    \A r \in DOMAIN books.rows : Leg(books, r) =>
        \E o \in Other(books, r) :
            /\ Other(books, r) = {o}
            /\ {books.rows[r].sort, books.rows[o].sort} = {"send", "receive"}
            /\ books.rows[r].acct # books.rows[o].acct
            /\ books.rows[r].n = books.rows[o].n /\ books.rows[r].date = books.rows[o].date

(* Nothing but a split changes what a closed account holds, from its own   *)
(* side or from another account's, while its holdings follow its rows.     *)
ClosedIsFrozen ==
    [][\A a \in Account \ (loose \cup loose') :
          ~books.open[a] /\ ~books'.open[a] /\ books'.split = books.split
            => Held(books', a) = Held(books, a)]_vars

(* Shares that arrive in an account with lot tracking arrive as lots.      *)
ArriveAsLots ==
    \A r \in DOMAIN books.rows :
        books.rows[r].sort = "receive" /\ books.tracked[books.rows[r].acct]
          => LotsFrom(books, r) # {}

(* Whatever a split scales, a lot has left its original shares less those  *)
(* its junctions take.                                                     *)
SplitKeepsRemaining ==
    \A l \in DOMAIN books.lots :
        books.tracked[books.lots[l].acct] => books.lots[l].left = Remaining(books, l)
=============================================================================
