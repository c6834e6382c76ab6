---------------------------- MODULE LoanPayments ----------------------------
(***************************************************************************)
(* Loans that schedules pay down (src/internal/loan, the loan_*.go files   *)
(* of src/internal/scheduled, and the loan wizard).                        *)
(*                                                                         *)
(* A schedule is loan-shaped while its lines carry loan tags, it is        *)
(* monthly, and its loan account is open.  Each of its payments is then    *)
(* computed from what the loan owes on the day of the payment; any other   *)
(* schedule posts its template as it is.  rows are the rows of the loan    *)
(* account in the order they were written; a payment's row also keeps the  *)
(* interest and the draft of its parent on the funding account.  Opening a *)
(* file lists what is due and catches each schedule up in one transaction, *)
(* from the copy it listed; the user acts when that has ended.             *)
(***************************************************************************)
EXTENDS Calendar, FiniteSets, SequencesExt

CONSTANTS
    Schedule,
    AutoPosting,  \* those that post when the file is opened
    Cadences,     \* of each schedule: how it may recur
    Tagged,       \* those the loan wizard made; others were made by hand
    Lead,         \* post_lead_days of each
    Payment,      \* the principal-and-interest payment each was made with
    Opening,      \* what the loan owes at first, in cents
    OpeningRate,
    Escrow,       \* what each payment passes through, in cents
    Rate,         \* the rates an edit may set, in percent, or NoRate
    NoRate,
    PayEdits,     \* payments an edit may set
    Extra,        \* what a transfer or a charge adds to the loan account
    Day,          \* the days the file is opened on, and dates the user enters
    MaxRows,      \* bound: rows of the loan account
    MaxEdits,     \* bound: what the user changes besides posting and skipping
    Horizon,      \* bound: the last due date that is handled
    MaxTable      \* maxProjectionRows

ASSUME LoanAssumption ==
    /\ AutoPosting \subseteq Schedule /\ Tagged \subseteq Schedule
    /\ Lead \in [Schedule -> {0, 3, 7}]
    /\ Opening \in Nat \ {0} /\ OpeningRate \in Nat /\ Escrow \in Nat
    /\ Rate \subseteq Nat \cup {NoRate} /\ NoRate \notin Nat
    /\ PayEdits \subseteq Nat \ {0} /\ Extra \subseteq Int \ {0}
    /\ Day \subseteq Nat /\ IsFiniteSet(Day) /\ Day # {}
    /\ MaxRows \in Nat /\ MaxEdits \in Nat /\ Horizon \in Nat /\ MaxTable \in Nat \ {0}

VARIABLES
    sched,    \* the stored schedules
    rows,     \* the rows of the loan account that count
    rate,     \* the loan account's interest rate
    active,   \* whether the loan account is open
    today,
    todo,     \* what the start-up batch has still to catch up, as it was listed
    edits     \* how many changes the user has made

vars == <<sched, rows, rate, active, today, todo, edits>>

-----------------------------------------------------------------------------
(* Balances, as what is owed.                                              *)
SumOf(rs) == FoldSeq(LAMBDA r, sum : r.amount + sum, 0, rs)

Owed(rs) == Opening - SumOf(rs)
OwedAsOf(rs, t) == Opening - SumOf(SelectSeq(rs, LAMBDA r : r.date <= t))

(* A month's interest, half a cent rounded up.                             *)
Interest(owed, apr) == (owed * apr + 600) \div 1200

(* Mutant of SplitPayment: the last payment is not cut to what is owed.    *)
SplitUnclamped(owed, apr, pi) ==
    LET interest == Interest(owed, apr)
        principal == pi - interest
    IN [err |-> IF principal <= 0 /\ owed > 0 THEN "negative" ELSE "none",
        interest |-> interest, principal |-> principal, final |-> principal > owed]

SplitPayment(owed, apr, pi) ==
    LET interest == Interest(owed, apr)
        principal == pi - interest
        final == principal > owed
    IN [err |-> IF ~final /\ principal <= 0 /\ owed > 0 THEN "negative" ELSE "none",
        interest |-> interest,
        principal |-> IF final THEN owed ELSE principal,
        final |-> final]

(* BuildLoanSnapshot: the lines and the amount of a template.              *)
Snapshot(owed, apr, pi) ==
    LET p == SplitPayment(owed, apr, pi) IN
    [tagged |-> TRUE, interest |-> p.interest, principal |-> p.principal,
     parent |-> p.interest + p.principal + Escrow]

MonthlyLoanCadence(st) == st.freq = "monthly" /\ st.interval = 1 /\ st.second = NoDay

IsLoanShaped(st)    == MonthlyLoanCadence(st) /\ st.tagged /\ active
IsLoanAdoptable(st) == MonthlyLoanCadence(st) /\ active

(* Mutant of PaymentOf: the escrow is not taken off.                       *)
PaymentWithEscrow(st) == st.parent

(* What a template's amount leaves for interest and principal.             *)
PaymentOf(st) == st.parent - Escrow

(* ComputeLoanSplits.                                                      *)
ComputeLoanSplits(rs, st, date) ==
    LET owed == OwedAsOf(rs, date)
        p    == SplitPayment(owed, rate, PaymentOf(st))
        Fails(why) == [err |-> why]
    IN CASE rate = NoRate       -> Fails("no rate")
         [] owed <= 0           -> Fails("paid off")
         [] p.err # "none"      -> p
         [] st.interest = 0 /\ p.interest > 0 -> Fails("no interest line")
         [] OTHER               -> p

Row(date, amount, interest, how, s) ==
    [date |-> date, amount |-> amount, interest |-> interest, how |-> how, sched |-> s]

(* postOccurrenceMultiLine: the row an occurrence writes on the loan.      *)
Occurrence(rs, st, date, s) ==
    IF IsLoanShaped(st)
    THEN LET p == ComputeLoanSplits(rs, st, date) IN
         [err |-> p.err,
          row |-> IF p.err = "none"
                  THEN Row(date, p.principal, p.interest, "computed", s) ELSE {}]
    ELSE [err |-> "none", row |-> Row(date, st.principal, st.interest, "template", s)]

MarkCompleted(st) == [st EXCEPT !.done = TRUE]

Advanced(st) == [st EXCEPT !.next = CalculateNextDate(@, st)]

(* Mutant of FinalizeLoanPayoff: rows dated later are not counted.         *)
FinalizeToday(rs, st) ==
    IF IsLoanShaped(st) /\ OwedAsOf(rs, today) <= 0 THEN MarkCompleted(st) ELSE st

FinalizeLoanPayoff(rs, st) ==
    IF IsLoanShaped(st) /\ Owed(rs) <= 0 THEN MarkCompleted(st) ELSE st

-----------------------------------------------------------------------------
(* The start-up batch.                                                     *)
AutoPostDue(s, st, t) == ~st.done /\ st.next <= AddDays(t, Lead[s])

OpenFile(t) ==
    /\ todo = {} /\ t > today
    /\ today' = t
    /\ todo' = {[s |-> s, st |-> sched[s]] :
                   s \in {x \in AutoPosting : AutoPostDue(x, sched[x], t)}}
    /\ UNCHANGED <<sched, rows, rate, active, edits>>

(* One turn of the catch-up: post, advance and see whether that paid it    *)
(* off.  A loan that cannot be computed ends it, one paid off for good.    *)
CatchUpTurn(s, b) ==
    IF b.stop \/ ~AutoPostDue(s, b.st, today) THEN b
    ELSE LET p == Occurrence(b.rows, b.st, b.st.next, s) IN
         CASE p.err = "none" ->
                LET rs == Append(b.rows, p.row) IN
                [b EXCEPT !.rows = rs, !.st = FinalizeLoanPayoff(rs, Advanced(b.st))]
           [] p.err = "paid off" -> [b EXCEPT !.st = MarkCompleted(@), !.stop = TRUE]
           [] OTHER -> [b EXCEPT !.stop = TRUE]

CaughtUp(c) ==
    LET after[n \in 0 .. MaxRows + 1] ==
            IF n = 0 THEN [rows |-> rows, st |-> c.st, stop |-> FALSE]
            ELSE CatchUpTurn(c.s, after[n - 1])
    IN after[MaxRows + 1]

(* A schedule on a closed account is skipped and stays due.                *)
AutoSkip(c) ==
    /\ ~active
    /\ UNCHANGED <<sched, rows>>

AutoPost(c) ==
    LET b == CaughtUp(c) IN
    /\ active
    /\ Len(b.rows) <= MaxRows
    /\ rows' = b.rows
    /\ sched' = [sched EXCEPT ![c.s] = b.st]

AutoCandidate(c) ==
    /\ c \in todo
    /\ \A d \in todo : c.st.next <= d.st.next
    /\ AutoSkip(c) \/ AutoPost(c)
    /\ todo' = todo \ {c}
    /\ UNCHANGED <<rate, active, today, edits>>

-----------------------------------------------------------------------------
(* What the user does, once the batch has ended.                           *)
Free == todo = {}
Room == Len(rows) < MaxRows
Postable(s) == Free /\ active /\ ~sched[s].done /\ sched[s].next <= Horizon

Edits ==
    /\ Free /\ edits < MaxEdits
    /\ edits' = edits + 1

(* postManually: on the date it is due, or on one the user chooses.        *)
Post(s, date) ==
    LET st == sched[s]
        p  == Occurrence(rows, st, date, s)
    IN /\ Postable(s) /\ Room
       /\ p.err = "none"
       /\ rows' = Append(rows, p.row)
       /\ sched' = [sched EXCEPT ![s] = FinalizeLoanPayoff(rows', Advanced(st))]
       /\ UNCHANGED <<rate, active, today, todo, edits>>

(* A paid-off loan completes its schedule outside the refused transaction. *)
PostRefused(s, date) ==
    /\ Postable(s)
    /\ Occurrence(rows, sched[s], date, s).err = "paid off"
    /\ sched' = [sched EXCEPT ![s] = MarkCompleted(@)]
    /\ UNCHANGED <<rows, rate, active, today, todo, edits>>

(* PostWithEdits: nothing is computed after the user's edit.               *)
PostWithEdits(s, date, amount) ==
    LET st == sched[s] IN
    /\ Postable(s) /\ Room
    /\ rows' = Append(rows, Row(date, amount, 0, "edited", s))
    /\ sched' = [sched EXCEPT ![s] = FinalizeLoanPayoff(rows', Advanced(st))]
    /\ UNCHANGED <<rate, active, today, todo, edits>>

Skip(s) ==
    /\ Free /\ ~sched[s].done /\ sched[s].next <= Horizon
    /\ sched' = [sched EXCEPT ![s] = Advanced(@)]
    /\ UNCHANGED <<rows, rate, active, today, todo, edits>>

(* scheduled edit --next-date.                                             *)
EditNextDate(s, date) ==
    /\ Edits /\ ~sched[s].done
    /\ sched[s].start <= date
    /\ sched' = [sched EXCEPT ![s].next = date]
    /\ UNCHANGED <<rows, rate, active, today, todo>>

(* Saving a loan schedule in the generic editor strips its tags.           *)
Demote(s) ==
    /\ Edits /\ ~sched[s].done /\ IsLoanShaped(sched[s])
    /\ sched' = [sched EXCEPT ![s].tagged = FALSE]
    /\ UNCHANGED <<rows, rate, active, today, todo>>

(* The loan wizard on a schedule that exists: the account's rate and the   *)
(* template are written as one.                                            *)
EditAsLoan(s, apr, pi) ==
    LET owed == OwedAsOf(rows, sched[s].next) IN
    /\ Edits /\ ~sched[s].done /\ IsLoanAdoptable(sched[s])
    /\ apr # NoRate /\ owed > 0
    /\ SplitPayment(owed, apr, pi).err = "none"
    /\ rate' = apr
    /\ sched' = [sched EXCEPT ![s] = Snapshot(owed, apr, pi) @@ @]
    /\ UNCHANGED <<rows, active, today, todo>>

(* An account edit; a closed account keeps its rate.                       *)
EditRate(apr) ==
    /\ Edits /\ active
    /\ rate' = apr
    /\ UNCHANGED <<sched, rows, active, today, todo>>

(* A transfer into the loan, a charge on it, or the end of a row.          *)
Enter(date, amount) ==
    /\ Edits /\ active /\ Room
    /\ rows' = Append(rows, Row(date, amount, 0, "entered", "none"))
    /\ UNCHANGED <<sched, rate, active, today, todo>>

RemoveRow(i) ==
    /\ Edits /\ active
    /\ rows' = RemoveAt(rows, i)
    /\ UNCHANGED <<sched, rate, active, today, todo>>

CloseLoan ==
    /\ Free /\ active
    /\ Owed(rows) = 0 /\ \A i \in DOMAIN rows : rows[i].date <= today
    /\ active' = FALSE
    /\ UNCHANGED <<sched, rows, rate, today, todo, edits>>

ReopenLoan ==
    /\ Free /\ ~active
    /\ active' = TRUE
    /\ UNCHANGED <<sched, rows, rate, today, todo, edits>>

-----------------------------------------------------------------------------
(* The amortization table (loan.Project), from the inputs the view takes   *)
(* off the schedule (LoanScheduleInputs).                                  *)
ScheduleInputs(st) ==
    [pi  |-> st.parent - Escrow,
     day |-> IF st.day = NoDay THEN DayOf(st.next) ELSE st.day]

NoTable == <<>>

Project(rs, st) ==
    LET in == ScheduleInputs(st)
        Split(owed) == SplitPayment(owed, rate, in.pi)
        left[n \in 0 .. MaxTable] ==
            IF n = 0 THEN OwedAsOf(rs, st.next)
            ELSE left[n - 1] - Split(left[n - 1]).principal
        payments == IF \E n \in 1 .. MaxTable : left[n] <= 0
                    THEN Min({n \in 1 .. MaxTable : left[n] <= 0})
                    ELSE MaxTable
    IN IF left[0] <= 0 \/ Split(left[0]).err # "none" THEN NoTable
       ELSE [n \in 1 .. payments |->
               [date |-> AddMonths(st.next, n - 1, in.day),
                interest |-> Split(left[n - 1]).interest,
                principal |-> Split(left[n - 1]).principal]]

-----------------------------------------------------------------------------
Init ==
    /\ \E cadence \in [Schedule -> UNION Range(Cadences)] :
         /\ \A s \in Schedule : cadence[s] \in Cadences[s]
         /\ sched = [s \in Schedule |->
                       [next |-> cadence[s].start, done |-> FALSE, tagged |-> s \in Tagged]
                         @@ cadence[s] @@ Snapshot(Opening, OpeningRate, Payment[s])]
    /\ rows = <<>> /\ rate = OpeningRate /\ active = TRUE
    /\ today = Min(Day) /\ todo = {} /\ edits = 0

Dates(s) == Day \cup {sched[s].next}

Next ==
    \/ \E t \in Day : OpenFile(t)
    \/ \E c \in todo : AutoCandidate(c)
    \/ \E s \in Schedule :
         \/ \E date \in Dates(s) :
              \/ Post(s, date) \/ PostRefused(s, date)
              \/ \E amount \in PayEdits : PostWithEdits(s, date, amount)
         \/ \E date \in Day : EditNextDate(s, date)
         \/ Skip(s) \/ Demote(s)
         \/ \E apr \in Rate, pi \in PayEdits : EditAsLoan(s, apr, pi)
    \/ \E apr \in Rate : EditRate(apr)
    \/ \E date \in Day, amount \in Extra : Enter(date, amount)
    \/ \E i \in DOMAIN rows : RemoveRow(i)
    \/ CloseLoan \/ ReopenLoan

Spec == Init /\ [][Next]_vars

-----------------------------------------------------------------------------
Cents == -(2 * Opening + Escrow) * (MaxRows + 1) .. (2 * Opening + Escrow) * (MaxRows + 1)

(* Every variable has its type.                                            *)
TypeOK ==
    /\ DOMAIN sched = Schedule
    /\ \A s \in Schedule :
         /\ sched[s].next \in Nat /\ sched[s].done \in BOOLEAN /\ sched[s].tagged \in BOOLEAN
         /\ sched[s].parent \in Cents
    /\ Len(rows) <= MaxRows /\ edits \in 0 .. MaxEdits
    /\ \A i \in DOMAIN rows : rows[i].amount \in Cents
    /\ rate \in Rate \cup {OpeningRate, NoRate}
    /\ active \in BOOLEAN /\ today \in Day
    /\ \A c \in todo : c.s \in AutoPosting

Written == SubSeq(rows', Len(rows) + 1, Len(rows'))

Consumes(s) ==
    \/ Skip(s)
    \/ \E date \in Dates(s) :
         Post(s, date) \/ \E amount \in PayEdits : PostWithEdits(s, date, amount)

CatchesUp(s) == \E c \in todo : c.s = s /\ AutoCandidate(c)

(* One or more payments of s, computed, the first on the day it is due and *)
(* none behind another row of the loan.                                    *)
PaysWhenDue(s) ==
    /\ Written # <<>>
    /\ Written[1].how = "computed" /\ Written[1].sched = s /\ Written[1].date = sched[s].next
    /\ \A i \in DOMAIN rows : rows[i].date <= sched[s].next

FollowsTable(s) ==
    LET before == Project(rows, sched[s])
        after  == Project(rows', sched'[s])
        k      == Len(Written)
        rest   == SubSeq(before, k + 1, Len(before))
    IN /\ k <= Len(before) \/ Len(before) = MaxTable
       /\ \A n \in 1 .. Min({k, Len(before)}) :
            before[n] = [date |-> Written[n].date, interest |-> Written[n].interest,
                         principal |-> Written[n].amount]
       /\ IsPrefix(rest, after)
       /\ sched'[s].done => rest = NoTable

(* The payments a schedule makes on the days they are due are those the    *)
(* amortization table showed, in date, interest and principal, and the     *)
(* table read afterwards is what was left of it, down to the last payment, *)
(* with which the schedule ends (loan_projection.go LoanScheduleInputs: "a *)
(* projection matches exactly what posting will compute").                 *)
AsProjected ==
    [][\A s \in Schedule :
        /\ PaysWhenDue(s)
        /\ sched[s].day # NoDay /\ OnGrid(sched[s].next, sched[s])
        => FollowsTable(s)]_vars

(* The same of every schedule, as the comment on addMonths in loan.go has  *)
(* it ("so a projection's dates match the dates the scheduler will post    *)
(* on").  It does not hold.                                                *)
TableDatesAgree ==
    [][\A s \in Schedule : PaysWhenDue(s) => FollowsTable(s)]_vars

(* No schedule of a loan is left that can be neither posted nor completed  *)
(* (specs/loan-wizard.md on a payoff transfer).  It does not hold.         *)
NoneStranded ==
    ~active => \A s \in Schedule :
        sched[s].tagged /\ MonthlyLoanCadence(sched[s]) => sched[s].done

(* Skipping, posting and catching up take the dates of a schedule one      *)
(* after the other: the next one is the first after it that the recurrence *)
(* names, over short months, leap days and dates that were edited off the  *)
(* recurrence (scheduled.go calculateNextDate).                            *)
NoDateMissed ==
    [][\A s \in Schedule :
        LET dates == <<sched[s].next>> \o
                     [i \in 1 .. Len(Written) - 1 |-> Written[i + 1].date] \o <<sched'[s].next>>
        IN /\ Consumes(s) => Follows(sched[s], sched[s].next, sched'[s].next)
           /\ CatchesUp(s) /\ Written # <<>> =>
                /\ Written[1].date = sched[s].next
                /\ \A i \in 1 .. Len(Written) : Follows(sched[s], dates[i], dates[i + 1])]_vars

(* The schedule of a loan ends with its debt: only where nothing is owed,  *)
(* and with the payment that leaves nothing to pay, early or late, also    *)
(* when something else had paid the loan before (finalizeLoanPayoff,       *)
(* posting.go: a paid-off loan completes rather than stays due).  Computed *)
(* payments that are dated after all other rows, as many as are caught up, *)
(* never pay more than is owed (loan.go SplitPayment).                     *)
EndsWithTheDebt ==
    [][/\ \A s \in Schedule :
            LET st == sched[s] IN
            /\ ~st.done /\ sched'[s].done =>
                  \/ Owed(rows') <= 0
                  \/ \E t \in Day \cup {sched'[s].next} : OwedAsOf(rows', t) <= 0
            /\ IsLoanShaped(st) /\ Written # <<>> /\ Last(Written).sched = s /\ Owed(rows') <= 0
                  => sched'[s].done
            /\ IsLoanShaped(st) /\ CatchesUp(s) /\ rate # NoRate
                  /\ OwedAsOf(rows', sched'[s].next) <= 0
                  => ~AutoPostDue(s, sched'[s], today)
       /\ Written # <<>> /\ (\A i \in DOMAIN Written :
               /\ Written[i].how = "computed"
               /\ \A j \in DOMAIN rows : rows[j].date <= Written[i].date)
          => Owed(rows') >= 0]_vars
=============================================================================
