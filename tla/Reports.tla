------------------------------ MODULE Reports ------------------------------
(* Reports over what was earned and spent in a range of days: services/       *)
(* reports.rs, over the rows and the pay periods of Projections.               *)
EXTENDS Projections

CONSTANTS
    FirstWeekday,   \* the day of the week of date 0, Monday being 0
    Reported        \* bound: the ranges asked for, <<days before today, days after>>

ASSUME ReportsAssumption ==
    /\ FirstWeekday \in 0..6
    /\ Reported \subseteq Int \X Int /\ \A r \in Reported : r[1] + r[2] \in 0..729

(* Bound: the calendar holds the ranges asked for and the pay periods they     *)
(* overlap, and a list as many periods as a range has.                       *)
RangeReached(s, from, to) ==
    /\ {from, to} \subseteq Dates /\ ReachesBack(s, from) /\ Reaches(s, to + 744)
    /\ 6 * MaxOverlapping > to - PeriodContaining(s, from).start

ASSUME ReportsReach ==
    \A s \in Scenarios : \A day \in s.today..(s.today + s.days) : \A r \in Reported :
        RangeReached(s.template["income"].schedule, day - r[1], day + r[2])

(* validate_report_range: MAX_REPORT_RANGE_DAYS. *)
DayCount(from, to) == to - from + 1
ValidRange(from, to) == from <= to /\ DayCount(from, to) <= 730

PriorRange(from, days_) == PlainPeriod(from - days_, from - 1)

Granularity(days_) == IF days_ <= 31 THEN "day" ELSE IF days_ <= 120 THEN "week" ELSE "month"

WeekStart(date) == date - ((date + FirstWeekday) % 7)

(* build_time_buckets: days, weeks or months, cut to the range at both ends. *)
Buckets(from, to) ==
    LET by == Granularity(DayCount(from, to))
        weeks == {WeekStart(from) + 7 * n : n \in 0..((to - WeekStart(from)) \div 7)}
        months == MonthOf[from]..MonthOf[to] IN
    CASE by = "day" -> {PlainPeriod(d, d) : d \in from..to}
      [] by = "week" ->
            {Clip(PlainPeriod(w, w + 6), from, to) : w \in weeks}
      [] by = "month" ->
            {Clip(PlainPeriod(MonthStart[k], MonthStart[k + 1] - 1), from, to) : k \in months}

(* compute_kpis: every live row counts, on whatever account. *)
IncomeRows(period) ==
    {r \in rows : r.of \in {"income", "earning"} /\ r.live /\ InPeriod(period, r.date)}
Kpis(period) ==
    LET sum(rs) == MapThenSumSet(LAMBDA r : r.amount, rs) IN
    [income |-> sum(IncomeRows(period)), expenses |-> sum(SpendingRows(period)),
     extra |-> ExtraSpent(period),
     count |-> Cardinality(IncomeRows(period)) + Cardinality(SpendingRows(period))]

TimeSeries(from, to) ==
    {[start |-> b.start, end |-> b.end, income |-> Kpis(b).income, expenses |-> Kpis(b).expenses] :
        b \in Buckets(from, to)}

(* build_extra_spent_time_series: the part of each pay period in the range. *)
ExtraSpentBuckets(from, to) ==
    LET periods == PayPeriodsOverlapping(Schedule("income"), from, to) IN
    [n \in DOMAIN periods |-> ExtraSpent(Clip(periods[n], from, to))] \o <<>>

Report(from, to) ==
    LET prior == PriorRange(from, DayCount(from, to)) IN
    [kpis |-> Kpis(PlainPeriod(from, to)), prior |-> prior, before |-> Kpis(prior),
     series |-> TimeSeries(from, to), extra |-> ExtraSpentBuckets(from, to)]

-----------------------------------------------------------------------------
(* A report adds up: its buckets cover every day of the range once and sum to  *)
(* its totals, days, weeks or months; so do the pay periods it overlaps, cut   *)
(* to it; with the range before it, it adds up to the report of both; and over *)
(* the months of the expenses tab it counts what the tab lists                 *)
(* (build_report_summary, build_expense_period_view).                         *)
AddsUp(from, to) ==
    LET report == Report(from, to)
        both == Kpis(PlainPeriod(report.prior.start, to)) IN
    /\ UNION {b.start..b.end : b \in report.series} = from..to
    /\ MapThenSumSet(LAMBDA b : DayCount(b.start, b.end), report.series) = DayCount(from, to)
    /\ MapThenSumSet(LAMBDA b : b.income, report.series) = report.kpis.income
    /\ MapThenSumSet(LAMBDA b : b.expenses, report.series) = report.kpis.expenses
    /\ FoldLeft(LAMBDA x, y : x + y, 0, report.extra) = report.kpis.extra
    /\ DayCount(report.prior.start, report.prior.end) = DayCount(from, to)
    /\ \A k \in DOMAIN both : report.before[k] + report.kpis[k] = both[k]

ReportsAddUp ==
    /\ \A r \in Reported : LET from == today - r[1] to == today + r[2] IN
           ValidRange(from, to) /\ AddsUp(from, to)
    /\ \A key \in TabKeys \ {"last-period"} :
           LET period == TabPeriod(key, today) IN
           Total(TabItems(key, TRUE, today)) = Kpis(period).expenses
=============================================================================
