----------------------------- MODULE PayPeriods -----------------------------
(* Schedules and pay periods: services/pay_periods.rs.                       *)
(*                                                                         *)
(* A date is the number of a day, a month the number of a month; the         *)
(* calendar is given by the first day of every month.  A vector of dates in  *)
(* increasing order is the set of its dates.                                *)
EXTENDS Integers, Sequences

CONSTANTS
    LastMonth,        \* bound of the calendar; month 0 is a January
    MonthStart,       \* MonthStart[k]: the first day of month k
    MaxPeriods,       \* MAX_PROJECTION_PERIODS
    MaxOverlapping    \* the 400 periods of get_pay_periods_overlapping_range

Months == 0..LastMonth
Dates == MonthStart[0]..(MonthStart[LastMonth] - 1)
NoDate == -1000

ASSUME CalendarAssumption ==
    /\ LastMonth \in Nat \ {0}
    /\ MonthStart \in [Months -> Nat]
    /\ \A k \in 0..(LastMonth - 1) : MonthStart[k + 1] - MonthStart[k] \in 28..31
ASSUME BoundsAssumption == MaxPeriods \in Nat /\ MaxOverlapping \in Nat

LeastOf(a, b) == IF a <= b THEN a ELSE b
GreatestOf(a, b) == IF a >= b THEN a ELSE b

(* date.year() and date.month(), and date.day(), of chrono. *)
MonthOf == [date \in Dates |-> CHOOSE k \in 0..(LastMonth - 1) :
                                   MonthStart[k] <= date /\ date < MonthStart[k + 1]]
DayOf(date) == date - MonthStart[MonthOf[date]] + 1

DaysInMonth(month) == MonthStart[month + 1] - MonthStart[month]
ClampedDate(month, day) == MonthStart[month] + LeastOf(day, DaysInMonth(month)) - 1
AddMonths(date, months) == ClampedDate(MonthOf[date] + months, DayOf(date))

-----------------------------------------------------------------------------
(* A schedule: its first date, how often, and its last date if it has one.   *)

Frequencies == {"weekly", "biweekly", "monthly", "yearly"}
ScheduleType == [anchor : Dates, frequency : Frequencies, last : Dates \cup {NoDate}]

IsInterval(s) == s.frequency \in {"weekly", "biweekly"}
IntervalDays(s) == IF s.frequency = "weekly" THEN 7 ELSE 14
MonthsApart(s) == IF s.frequency = "yearly" THEN 12 ELSE 1

EffectiveEnd(s, end) == IF s.last = NoDate THEN end ELSE LeastOf(s.last, end)

NextIntervalPayDate(s, from) ==
    LET remainder == (from - s.anchor) % IntervalDays(s) IN
    IF remainder = 0 THEN from ELSE from + IntervalDays(s) - remainder

(* This month's pay date, or this year's. *)
PayMonth(s, date) ==
    IF s.frequency = "yearly"
    THEN 12 * (MonthOf[date] \div 12) + (MonthOf[s.anchor] % 12)
    ELSE MonthOf[date]
PayDateIn(s, month) == ClampedDate(month, DayOf(s.anchor))

NextMonthlyPayDate(s, from) ==
    LET this == PayMonth(s, from) IN
    IF PayDateIn(s, this) >= from THEN PayDateIn(s, this)
                                  ELSE PayDateIn(s, this + MonthsApart(s))

(* The grid of pay dates goes on before the anchor; occurrences do not. *)
NextPayDate(s, from) ==
    IF IsInterval(s) THEN NextIntervalPayDate(s, from) ELSE NextMonthlyPayDate(s, from)
NextOccurrence(s, from) == NextPayDate(s, GreatestOf(from, s.anchor))

(* A year or a month on, the day is the anchor's again: no drift to the 28th. *)
AdvanceByMonth(s, current) ==
    IF IsInterval(s) THEN current + IntervalDays(s) ELSE AddMonths(current, MonthsApart(s))
AdvancePayDate(s, current) ==
    IF IsInterval(s) THEN current + IntervalDays(s)
                     ELSE PayDateIn(s, PayMonth(s, current) + MonthsApart(s))
PreviousByMonth(s, payDate) ==
    IF IsInterval(s) THEN payDate - IntervalDays(s) ELSE AddMonths(payDate, -MonthsApart(s))
PreviousPayDate(s, payDate) ==
    IF IsInterval(s) THEN payDate - IntervalDays(s)
                     ELSE PayDateIn(s, PayMonth(s, payDate) - MonthsApart(s))

PayDatesInRange(s, start, end) ==
    LET until == EffectiveEnd(s, end)
        from[date \in Dates] ==
            IF date > until THEN {} ELSE {date} \cup from[AdvancePayDate(s, date)]
    IN  IF start > until THEN {} ELSE from[NextOccurrence(s, start)]
OccursOn(s, date) == PayDatesInRange(s, date, date) # {}

(* Bound: the calendar holds the next pay date after every day up to this one. *)
Reaches(s, day) ==
    /\ day < MonthStart[LastMonth]
    /\ IF IsInterval(s) THEN day + IntervalDays(s) < MonthStart[LastMonth]
       ELSE \A date \in Dates : date <= day => PayMonth(s, date) + MonthsApart(s) < LastMonth

(* Bound: the calendar holds the pay date before this day's. *)
ReachesBack(s, day) == IsInterval(s) \/ MonthOf[day] >= MonthsApart(s)

-----------------------------------------------------------------------------
(* Periods: from the day after a pay date to the next one. *)

PeriodForPayDate(s, payDate) ==
    [pay |-> payDate, start |-> PreviousPayDate(s, payDate) + 1, end |-> payDate]
PeriodContaining(s, date) == PeriodForPayDate(s, NextPayDate(s, date))
InPeriod(period, date) == period.start <= date /\ date <= period.end

(* A range of days that is no pay period, and a period cut to a range. *)
PlainPeriod(from, to) == [pay |-> to, start |-> from, end |-> to]
(* Mutant: its end is not cut. *)
ClipStart(period, from, to) == [period EXCEPT !.start = GreatestOf(@, from)]
Clip(period, from, to) == [period EXCEPT !.start = GreatestOf(@, from), !.end = LeastOf(@, to)]

(* The loop both lists of periods are made by: at most this many periods,    *)
(* from the one paid on a date, up to a horizon, those that end too early    *)
(* left out.                                                                *)
PeriodsFrom(s, payDate, earliest, horizon, most) ==
    LET from[n \in 0..most] == [date \in Dates |->
            LET period == PeriodForPayDate(s, date)
                next == NextPayDate(s, date + 1) IN
            IF n = 0 \/ period.start > horizon THEN <<>>
            ELSE (IF period.end >= earliest THEN <<period>> ELSE <<>>)
                 \o (IF next <= date THEN <<>> ELSE from[n - 1][next])]
    IN  from[most][payDate]

ProjectionPeriods(s, today, start, end) ==
    LET horizon == IF end = NoDate THEN AddMonths(today, 12) ELSE end
        earliest == IF start = NoDate THEN today ELSE start
    IN  PeriodsFrom(s, NextPayDate(s, LeastOf(earliest, today)), earliest, horizon, MaxPeriods)

PayPeriodsOverlapping(s, from, to) ==
    IF from > to THEN <<>> ELSE PeriodsFrom(s, NextPayDate(s, from), from, to, MaxOverlapping)

-----------------------------------------------------------------------------
(* The dates a schedule means, said of each day alone: every so many days,    *)
(* or the anchor's day of the month, or the month's last if it is shorter.    *)
OnGrid(s, date) ==
    IF IsInterval(s) THEN (date - s.anchor) % IntervalDays(s) = 0
    ELSE /\ DayOf(date) = LeastOf(DayOf(s.anchor), DaysInMonth(MonthOf[date]))
         /\ s.frequency = "yearly" => MonthOf[date] % 12 = MonthOf[s.anchor] % 12
Occurs(s, date) ==
    OnGrid(s, date) /\ date >= s.anchor /\ (s.last = NoDate \/ date <= s.last)

(* Periods follow each other without gap or overlap, and each ends on its pay  *)
(* date and holds no other.                                                 *)
Tile(s, ps) ==
    \A n \in DOMAIN ps :
        /\ {d \in ps[n].start..ps[n].end : OnGrid(s, d)} = {ps[n].pay}
        /\ n > 1 => ps[n].start = ps[n - 1].end + 1
=============================================================================
