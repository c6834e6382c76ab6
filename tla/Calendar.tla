------------------------------ MODULE Calendar ------------------------------
(***************************************************************************)
(* When a schedule falls due (src/internal/scheduled/scheduled.go) and the *)
(* month steps of an amortization table (src/internal/loan/loan.go).       *)
(*                                                                         *)
(* A month is a number, January of year 0 being 0.  A date is 32 times its *)
(* month and its day added, so that dates are ordered as numbers.          *)
(***************************************************************************)
EXTENDS Integers, FiniteSetsExt

NoDay == 0   \* a day of the month that is not set; -1 is the last day

Date(m, d) == 32 * m + d
MonthOf(t) == t \div 32
DayOf(t)   == t % 32

Leap(y) == (y % 4 = 0 /\ y % 100 # 0) \/ y % 400 = 0

LastDayOf(m) ==
    CASE m % 12 = 1 -> IF Leap(m \div 12) THEN 29 ELSE 28
      [] m % 12 \in {3, 5, 8, 10} -> 30
      [] OTHER -> 31

(* The day of a month, or its last when it has no such day.                *)
AdjustDay(m, day) ==
    Date(m, IF day = -1 \/ day > LastDayOf(m) THEN LastDayOf(m) ELSE day)

AddMonths(t, months, day) ==
    AdjustDay(MonthOf(t) + months, IF day = NoDay THEN DayOf(t) ELSE day)

NextDay(t) ==
    IF DayOf(t) = LastDayOf(MonthOf(t)) THEN Date(MonthOf(t) + 1, 1) ELSE t + 1

AddDays(t, k) ==
    LET after[i \in 0..k] == IF i = 0 THEN t ELSE NextDay(after[i - 1]) IN after[k]

(* Mutant of NextOnMonthGrid: it starts one period too late.               *)
NextOnMonthGridLate(current, start, period, day) ==
    LET d       == IF day = NoDay THEN DayOf(start) ELSE day
        elapsed == MonthOf(current) - MonthOf(start)
        first   == IF elapsed > 0 THEN elapsed \div period + 1 ELSE 0
        Point(n) == AdjustDay(MonthOf(start) + n * period, d)
    IN Point(Min({n \in first .. first + 2 : Point(n) > current}))

(* The walk starts at the grid point in or before the current month; it    *)
(* takes two steps at most.                                                *)
NextOnMonthGrid(current, start, period, day) ==
    LET d       == IF day = NoDay THEN DayOf(start) ELSE day
        elapsed == MonthOf(current) - MonthOf(start)
        first   == IF elapsed > 0 THEN elapsed \div period ELSE 0
        Point(n) == AdjustDay(MonthOf(start) + n * period, d)
    IN Point(Min({n \in first .. first + 2 : Point(n) > current}))

(* Twice a month, or monthly while only one day is set.                    *)
AddSemiMonthly(current, day, second) ==
    CASE day = NoDay    -> AddDays(current, 15)
      [] second = NoDay -> AddMonths(current, 1, day)
      [] OTHER ->
           Min({t \in {AdjustDay(MonthOf(current) + k, d) : k \in {0, 1}, d \in {day, second}} :
                   t > current})

MonthsOf(freq) ==
    CASE freq = "monthly" -> 1 [] freq = "quarterly" -> 3 [] freq = "yearly" -> 12

DaysOf(freq) ==
    CASE freq = "daily" -> 1 [] freq = "weekly" -> 7 [] freq = "fortnightly" -> 14

CalculateNextDate(current, st) ==
    CASE st.freq \in {"daily", "weekly", "fortnightly"} ->
            AddDays(current, st.interval * DaysOf(st.freq))
      [] st.freq = "semimonthly" -> AddSemiMonthly(current, st.day, st.second)
      [] OTHER ->
            NextOnMonthGrid(current, st.start, st.interval * MonthsOf(st.freq), st.day)

-----------------------------------------------------------------------------
(* A reference to compare with: the number of a day, and all the dates of  *)
(* a cadence that is counted in months, for the years checked.             *)
DayNumber(t) ==
    LET y == MonthOf(t) \div 12
        m == MonthOf(t) % 12
        Before == <<0, 31, 59, 90, 120, 151, 181, 212, 243, 273, 304, 334>>
    IN 365 * y + (y - 1) \div 4 - (y - 1) \div 100 + (y - 1) \div 400
         + Before[m + 1] + (IF m > 1 /\ Leap(y) THEN 1 ELSE 0) + DayOf(t)

(* A day of the month as the user means it: that day, or the month's end.  *)
Falls(t, day) ==
    \/ DayOf(t) = day
    \/ DayOf(t) = LastDayOf(MonthOf(t)) /\ (day = -1 \/ day > DayOf(t))

OnGrid(t, st) ==
    IF st.freq = "semimonthly" THEN Falls(t, st.day) \/ Falls(t, st.second)
    ELSE /\ MonthOf(t) >= MonthOf(st.start)
         /\ (MonthOf(t) - MonthOf(st.start)) % (st.interval * MonthsOf(st.freq)) = 0
         /\ Falls(t, IF st.day = NoDay THEN DayOf(st.start) ELSE st.day)

DatesBetween(a, b) ==
    {t \in a + 1 .. b - 1 : DayOf(t) \in 1 .. LastDayOf(MonthOf(t))}

(* b is the date of st that follows a: none lies between.                  *)
Follows(st, a, b) ==
    IF st.freq \in {"daily", "weekly", "fortnightly"}
    THEN DayNumber(b) = DayNumber(a) + st.interval * DaysOf(st.freq)
    ELSE /\ a < b /\ OnGrid(b, st)
         /\ \A t \in DatesBetween(a, b) : ~OnGrid(t, st)
=============================================================================
