---------------------------- MODULE Projections ----------------------------
(* What a user's projection shows, as days pass, occurrences are charged and  *)
(* requests change the rows: services/projections.rs, expense_period.rs,      *)
(* upcoming_payable.rs and build_rows_after, over schedules and pay periods.  *)
(*                                                                         *)
(* All money is in one currency.  A row records an occurrence ("income",     *)
(* "expense", "transfer" with the day it was due), the payment of the         *)
(* one-time expense ("planned"), spending on the budget ("budget"), or is      *)
(* entered by hand ("earning", "spending").                                  *)
EXTENDS PayPeriods, FiniteSets, FiniteSetsExt, SequencesExt

CONSTANTS
    Accounts, NoAccount,
    Scenarios,      \* what the user may have set up, the rows recorded so far,
                    \* and bounds: how many days pass and requests come
    Amount,         \* of each kind of row
    Opening,        \* initial_amount of each account
    CatchUpDays, HorizonDays,
    ManualDays,     \* bound: how far from today rows are entered by hand
    LookAhead       \* bound: how far ahead occurrences are compared

Templates == {"income", "expense", "transfer"}
Kinds == Templates \cup {"planned", "budget", "earning", "spending"}
FirstDate == MonthStart[0]
Never == MonthStart[LastMonth]

MaybeAccount == Accounts \cup {NoAccount}
TemplateType == [schedule : ScheduleType, account : MaybeAccount, to : MaybeAccount,
                 saved : Int, live : BOOLEAN]
RowType == [of : Kinds, due : Int, date : Int, amount : Nat,
            account : MaybeAccount, to : MaybeAccount, live : BOOLEAN]

(* The unique index on the template and the day it was due, and one payment   *)
(* of the one-time expense.                                                 *)
OneRowPerSlot(rows_) ==
    \A r, q \in rows_ :
        r.of = q.of /\ (r.of = "planned" \/ (r.of \in Templates /\ r.due = q.due)) => r = q

(* Income and transfers leave a tombstone when they are deleted; no other row.  *)
DeletedSoftly(r) == r.of \in {"income", "transfer"}

(* A transfer has two accounts (NOT NULL, and a CHECK that they differ); no      *)
(* other template or row has a second.                                     *)
Routed(of, from, to) ==
    IF of = "transfer" THEN {from, to} \subseteq Accounts /\ from # to ELSE to = NoAccount

ASSUME ProjectionsAssumption ==
    /\ NoAccount \notin Accounts /\ Accounts # {} /\ IsFiniteSet(Accounts)
    /\ Amount \in [Kinds -> Nat \ {0}] /\ Opening \in [Accounts -> Int]
    /\ {CatchUpDays, HorizonDays, LookAhead} \subseteq Nat /\ ManualDays \subseteq Int
    /\ \A s \in Scenarios :
          /\ s.days \in Nat /\ s.edits \in Nat
          /\ s.today \in Dates /\ {s.start, s.end} \subseteq Dates \cup {NoDate}
          /\ \A k \in Templates : /\ s.template[k] \in TemplateType
                                 /\ Routed(k, s.template[k].account, s.template[k].to)
          /\ s.planned \in Dates \cup {NoDate} /\ s.budget \in Dates \X Dates
          /\ s.rows \subseteq RowType /\ IsFiniteSet(s.rows) /\ OneRowPerSlot(s.rows)
          /\ \A r \in s.rows : Routed(r.of, r.account, r.to) /\ (DeletedSoftly(r) \/ r.live)

(* Bound: the calendar holds every date that templates and a range are looked  *)
(* at on a day, and a list as many periods as the range has.                  *)
Reached(template_, start, end, day) ==
    LET s == template_["income"].schedule
        from == LeastOf(IF start = NoDate THEN day ELSE start, day)
        horizon == IF end = NoDate THEN AddMonths(day, 12) ELSE end
        first == PeriodContaining(s, from).start
        until == PeriodContaining(s, horizon).end
        furthest == {day + 1, day + HorizonDays, day + LookAhead, until} IN
    /\ {first, horizon, until} \subseteq Dates /\ MonthOf[day] + 12 < LastMonth
    /\ from <= until /\ horizon <= until
    /\ ReachesBack(s, from) /\ ReachesBack(s, first) /\ Reaches(s, until + 744)
    /\ 6 * LeastOf(MaxPeriods, MaxOverlapping) > until - first
    /\ \A k \in Templates, d \in furthest : Reaches(template_[k].schedule, d)
    /\ \A n \in ManualDays \cup {-1, 1} : day + n \in Dates

ASSUME ProjectionsReach ==
    \A s \in Scenarios : \A day \in s.today..(s.today + s.days) :
        Reached(s.template, s.start, s.end, day)

VARIABLES
    today,      \* the server's date
    template,   \* template[k]: schedule, accounts, updated_at, and whether it is live
    planned,    \* the one-time expense: date, account, whether it is live
    budget,     \* the dated budget: start, end, whether it is completed
    account,    \* account[a]: exclude_from_projections, archived_at
    range,      \* projection_start_date and projection_end_date
    rows,       \* rows recorded; deleted ones of a schedule stay as tombstones
    touched,    \* the date the last step re-froze history from, or Never
    days, edits \* days and requests left

vars == <<today, template, planned, budget, account, range, rows, touched, days, edits>>

-----------------------------------------------------------------------------
(* The kernel. *)

Schedule(k) == template[k].schedule
Excludes(a) == a \in Accounts /\ account[a].excluded
Active(a) == a \in Accounts /\ ~account[a].archived

(* A row keeps the slot of its occurrence, though it is deleted or void. *)
Recorded == {<<r.of, r.due>> : r \in rows}
Paid == \E r \in rows : r.of = "planned"
Spent == MapThenSumSet(LAMBDA r : r.amount, {r \in rows : r.of = "budget"})

(* Only a transfer between an excluded and a projected account counts. *)
Crossing(from, to) == Excludes(from) # Excludes(to)

(* An item of a list, which counts for or against the balance. *)
Item(of, due, date, amount, sign, account_, projected) ==
    [of |-> of, due |-> due, date |-> date, amount |-> amount, sign |-> sign,
     account |-> account_, projected |-> projected]

Counts(r) ==
    CASE r.of = "transfer" -> Crossing(r.account, r.to)
      [] r.of = "budget" -> FALSE      \* its budget's line stands for it
      [] OTHER -> ~Excludes(r.account)
Sign(of, to) ==
    IF of \in {"income", "earning"} \/ (of = "transfer" /\ ~Excludes(to)) THEN 1 ELSE -1

RowItems(period) ==
    {Item(r.of, r.due, r.date, r.amount, Sign(r.of, r.to), r.account, FALSE) :
        r \in {x \in rows : x.live /\ InPeriod(period, x.date) /\ Counts(x)}}

(* A template shows the occurrences from today on that no row stands for: any *)
(* row, excluded accounts' and deleted ones' included, but of the transfers    *)
(* only those that cross (transfer_slots).                                   *)
Materialized ==
    {<<r.of, r.due>> : r \in {x \in rows : x.of = "transfer" => Crossing(x.account, x.to)}}
Shows(k) ==
    LET t == template[k] IN
    /\ t.live
    /\ IF k = "transfer" THEN Crossing(t.account, t.to) /\ Active(t.account) /\ Active(t.to)
                         ELSE ~Excludes(t.account)
FromTomorrow(due, asOf) == due > asOf
Upcoming(due, asOf) == due >= asOf
TemplateItems(k, period, asOf) ==
    {Item(k, due, due, Amount[k], Sign(k, template[k].to), template[k].account, TRUE) :
        due \in {d \in PayDatesInRange(Schedule(k), period.start, period.end) :
                    Upcoming(d, asOf) /\ <<k, d>> \notin Materialized}}

(* An unpaid one-time expense past its date is due today. *)
PlannedDate(asOf) == GreatestOf(planned.date, asOf)
PlannedDue(period, asOf) ==
    IF planned.live /\ planned.date # NoDate /\ ~Paid /\ InPeriod(period, PlannedDate(asOf))
    THEN {Item("planned", planned.date, PlannedDate(asOf), Amount["planned"], -1, planned.account, TRUE)}
    ELSE {}
PlannedItems(period, asOf) == IF Excludes(planned.account) THEN {} ELSE PlannedDue(period, asOf)

(* The line of the budget: the envelope until it has ended, then what was    *)
(* spent, always on its end date.                                           *)
BudgetAmount(asOf) ==
    IF budget.completed \/ asOf > budget.end THEN Spent ELSE Amount["budget"]
BudgetItems(period, asOf) ==
    IF BudgetAmount(asOf) > 0 /\ InPeriod(period, budget.end)
    THEN {Item("budget", budget.end, budget.end, BudgetAmount(asOf), -1, NoAccount, asOf < budget.start)}
    ELSE {}

ItemsIn(period, asOf) ==
    RowItems(period) \cup PlannedItems(period, asOf) \cup BudgetItems(period, asOf)
        \cup UNION {TemplateItems(k, period, asOf) : k \in {t \in Templates : Shows(t)}}

Total(items) == MapThenSumSet(LAMBDA i : i.amount, items)

(* The opening period, which begins before the projection does, has no       *)
(* income and only the expenses from the start on.                          *)
WholePeriod(period, start) == period.start
EffectiveStart(period, start) ==
    IF start # NoDate /\ start > period.start /\ start <= period.end THEN start ELSE period.start

Summed(period, from, items) ==
    [pay |-> period.pay, start |-> from, end |-> period.end, opening |-> from # period.start,
     income |-> Total({i \in items : i.sign = 1}),
     expense |-> Total({i \in items : i.sign = -1}), items |-> items]
Line(period, start, asOf) ==
    LET from == EffectiveStart(period, start) IN
    Summed(period, from, {i \in ItemsIn(period, asOf) :
                             IF i.sign = 1 THEN from = period.start ELSE i.date >= from})
LinesOf(periods, start, asOf) ==
    [n \in DOMAIN periods |-> Line(periods[n], start, asOf)] \o <<>>

Net(line) == line.income - line.expense

(* Rows carry a running balance. *)
Running(lines, opening) ==
    LET until[n \in 0..Len(lines)] == IF n = 0 THEN opening ELSE until[n - 1] + Net(lines[n])
    IN  [n \in DOMAIN lines |->
            [pay |-> lines[n].pay, start |-> lines[n].start, end |-> lines[n].end,
             income |-> lines[n].income, expense |-> lines[n].expense,
             free |-> IF lines[n].opening THEN opening ELSE Net(lines[n]),
             cumulative |-> until[n], items |-> lines[n].items]] \o <<>>
BuildRows(opening, start, end, asOf) ==
    Running(LinesOf(ProjectionPeriods(Schedule("income"), asOf, start, end), start, asOf), opening)

InitialFreeMoney ==
    MapThenSumSet(LAMBDA a : Opening[a], {a \in Accounts : ~account[a].excluded})

(* The whole projection, and what of it follows a frozen period. *)
Projection(asOf) == BuildRows(InitialFreeMoney, range.start, range.end, asOf)
RowsFromPayDay(base, asOf) == BuildRows(base.cumulative, base.pay, range.end, asOf)
RowsAfter(base, asOf) == BuildRows(base.cumulative, base.pay + 1, range.end, asOf)

(* projection_period_items: the row of one period, on demand, if there is one. *)
PaidFirst(built, pay) ==
    LET paid == {n \in DOMAIN built : built[n].pay = pay} IN
    {built[n] : n \in {m \in paid : \A k \in paid : m <= k}}
PeriodRowFromStart(pay, asOf) ==
    LET period == PeriodForPayDate(Schedule("income"), pay) IN
    PaidFirst(BuildRows(0, period.start, pay, asOf), pay)
PeriodRow(pay, asOf) ==
    LET period == PeriodForPayDate(Schedule("income"), pay)
        inside == range.start # NoDate /\ range.start > period.start
        start == IF inside THEN range.start ELSE period.start IN
    IF NextPayDate(Schedule("income"), pay) # pay \/ (inside /\ range.start > period.end) THEN {}
    ELSE PaidFirst(BuildRows(0, start, pay, asOf), pay)

(* build_expense_period_view, the expenses tab: the pay period of a day, with  *)
(* what is due in it and a line for the budget that overlaps it, or the months *)
(* up to the day, with recorded rows alone.  It looks at every account.        *)
Spendings == {"expense", "planned", "budget", "spending"}
TabKeys == {"last-period", "last-month", "last-3-months"}
TabPeriod(key, asOf) ==
    CASE key = "last-period" -> PeriodContaining(Schedule("income"), asOf)
      [] key = "last-month" -> PlainPeriod(AddMonths(asOf, -1), asOf)
      [] key = "last-3-months" -> PlainPeriod(AddMonths(asOf, -3), asOf)
SpendingRows(period) == {r \in rows : r.of \in Spendings /\ InPeriod(period, r.date)}
ActualItems(rows_) == {Item(r.of, r.due, r.date, r.amount, -1, r.account, FALSE) : r \in rows_}
BudgetLine(period) ==
    IF budget.start <= period.end /\ budget.end >= period.start
    THEN {Item("budget", budget.end, budget.start, Spent, -1, NoAccount, FALSE)} ELSE {}
TabItems(key, withProjected, asOf) ==
    LET period == TabPeriod(key, asOf)
        actual == SpendingRows(period)
        due == PlannedDue(period, asOf)
                   \cup (IF template["expense"].live THEN TemplateItems("expense", period, asOf) ELSE {})
        items == IF key = "last-period"
                 THEN ActualItems({r \in actual : r.of # "budget"}) \cup due \cup BudgetLine(period)
                 ELSE ActualItems(actual)
    IN  {i \in items : withProjected \/ ~i.projected}
ExtraSpent(period) ==
    MapThenSumSet(LAMBDA r : r.amount, {r \in SpendingRows(period) : r.of = "spending"})

(* build_upcoming_payable_items: what may be paid early. *)
PayableToday(asOf) == asOf
PayableSince(asOf) == asOf + 1
Payable(asOf) ==
    LET end == asOf + HorizonDays IN
    {<<"expense", due>> : due \in {d \in PayDatesInRange(Schedule("expense"), PayableSince(asOf), end) :
                                      template["expense"].live /\ <<"expense", d>> \notin Recorded}}
    \cup (IF planned.live /\ planned.date > asOf /\ planned.date <= end /\ ~Paid
          THEN {<<"planned", planned.date>>} ELSE {})

-----------------------------------------------------------------------------
(* Accounts. *)

(* compute_balances: rows from the projection start to a day. *)
Signed(a, r) ==
    IF r.of = "transfer" THEN (IF r.to = a THEN r.amount ELSE -r.amount)
    ELSE IF r.of \in {"income", "earning"} THEN r.amount ELSE -r.amount
Balance(a, asOf) ==
    Opening[a] + MapThenSumSet(LAMBDA r : Signed(a, r),
                     {r \in rows : r.live /\ a \in {r.account, r.to} /\ r.date <= asOf
                                          /\ (range.start = NoDate \/ r.date >= range.start)})

ActiveAccounts == {a \in Accounts : Active(a)}
ProjectedAccounts == {a \in ActiveAccounts : ~Excludes(a)}

(* The account a payment may draw from: the preferred one while it is        *)
(* active, else the richest of those that projections count, else any.       *)
Candidates == IF ProjectedAccounts = {} THEN ActiveAccounts ELSE ProjectedAccounts
PickAny(preferred, asOf) == ActiveAccounts
Pick(preferred, asOf) ==
    IF Active(preferred) THEN {preferred}
    ELSE {a \in Candidates : \A b \in Candidates : Balance(a, asOf) >= Balance(b, asOf)}

NewRow(of, due, date, from, to) ==
    [of |-> of, due |-> due, date |-> date, amount |-> Amount[of], account |-> from, to |-> to,
     live |-> TRUE]

-----------------------------------------------------------------------------
(* The daily job: one occurrence of its window, in any order; then it re-freezes *)
(* from the first day of the window on.  What a step that fails after a row    *)
(* leaves frozen is ProjectionHistory's matter.                              *)
ChargedFrom(k, due) == IF k = "expense" THEN Pick(template[k].account, due) ELSE {template[k].account}

Charge(k, due) ==
    LET t == template[k] IN
    /\ t.live /\ due >= t.saved /\ OccursOn(t.schedule, due) /\ <<k, due>> \notin Recorded
    /\ k = "transfer" => Active(t.account) /\ Active(t.to)
    /\ \E a \in ChargedFrom(k, due) : rows' = rows \cup {NewRow(k, due, due, a, t.to)}
    /\ touched' = today - CatchUpDays
    /\ UNCHANGED <<today, template, planned, budget, account, range, days, edits>>

Job == \E k \in Templates, due \in (today - CatchUpDays)..today : Charge(k, due)

Tick ==
    /\ days > 0 /\ days' = days - 1
    /\ today' = today + 1 /\ touched' = Never
    /\ UNCHANGED <<template, planned, budget, account, range, rows, edits>>

-----------------------------------------------------------------------------
(* Requests.  A client's today may be a day off the server's. *)

ClientDays == (today - 1)..(today + 1)
NearToday == {today + n : n \in ManualDays}

Request(date) == edits > 0 /\ edits' = edits - 1 /\ touched' = date
Others == <<today, range, days>>

(* early_pay_expense: within the current pay period, up to today, of an       *)
(* occurrence still to come.                                                *)
MayPay(due, on, now) ==
    /\ InPeriod(PeriodContaining(Schedule("income"), now), on)
    /\ on <= now /\ now < due

EarlyPay(due, on, now) ==
    /\ Request(Never) /\ MayPay(due, on, now)
    /\ template["expense"].live /\ OccursOn(Schedule("expense"), due)
    /\ <<"expense", due>> \notin Recorded
    /\ \E a \in Pick(NoAccount, on) :
           rows' = rows \cup {NewRow("expense", due, on, a, NoAccount)}
    /\ UNCHANGED <<Others, template, planned, budget, account>>

EarlyPayPlanned(on, now) ==
    /\ Request(Never) /\ MayPay(planned.date, on, now)
    /\ planned.live /\ ~Paid
    /\ \E a \in Pick(NoAccount, on) :
           rows' = rows \cup {NewRow("planned", planned.date, on, a, NoAccount)}
    /\ UNCHANGED <<Others, template, planned, budget, account>>

PayPlanned(now) ==
    /\ Request(Never) /\ planned.live /\ ~Paid
    /\ \E a \in Pick(planned.account, now) :
           rows' = rows \cup {NewRow("planned", planned.date, now, a, NoAccount)}
    /\ UNCHANGED <<Others, template, planned, budget, account>>

MovePlanned(date) ==
    /\ Request(Never) /\ planned.live /\ planned' = [planned EXCEPT !.date = date]
    /\ UNCHANGED <<Others, template, budget, account, rows>>

DeletePlanned ==
    /\ Request(Never) /\ planned.live /\ planned' = [planned EXCEPT !.live = FALSE]
    /\ UNCHANGED <<Others, template, budget, account, rows>>

(* Rows entered by hand.  Bound: one of a kind on a day. *)
AddRow(of, date, a) ==
    /\ Request(date) /\ Active(a) /\ NewRow(of, date, date, a, NoAccount) \notin rows
    /\ rows' = rows \cup {NewRow(of, date, date, a, NoAccount)}
    /\ UNCHANGED <<Others, template, planned, budget, account>>

MoveRow(r, date) ==
    /\ Request(LeastOf(r.date, date)) /\ r.of \in {"earning", "spending"} /\ date # r.date
    /\ [r EXCEPT !.date = date, !.due = date] \notin rows
    /\ rows' = (rows \ {r}) \cup {[r EXCEPT !.date = date, !.due = date]}
    /\ UNCHANGED <<Others, template, planned, budget, account>>

(* The budget's line is on its end date, whenever its money was spent. *)
RefreezeAtOwnDate(r) == r.date
RefreezeFrom(r) == IF r.of = "budget" THEN LeastOf(r.date, budget.end) ELSE r.date

Spend(date) ==
    /\ ~budget.completed
    /\ \E a \in Pick(NoAccount, date) :
           LET r == NewRow("budget", date, date, a, NoAccount) IN
           r \notin rows /\ Request(RefreezeFrom(r)) /\ rows' = rows \cup {r}
    /\ UNCHANGED <<Others, template, planned, budget, account>>

(* Income of a schedule and transfers are deleted softly, and what was        *)
(* charged or paid not at all.                                              *)
DeleteRow(r) ==
    /\ Request(RefreezeFrom(r)) /\ r.live /\ r.of \notin {"expense", "planned"}
    /\ rows' = IF DeletedSoftly(r)
               THEN (rows \ {r}) \cup {[r EXCEPT !.live = FALSE]} ELSE rows \ {r}
    /\ UNCHANGED <<Others, template, planned, budget, account>>

VoidCharge(r) ==
    /\ Request(r.date) /\ r.of = "expense" /\ r.amount > 0
    /\ rows' = (rows \ {r}) \cup {[r EXCEPT !.amount = 0]}
    /\ UNCHANGED <<Others, template, planned, budget, account>>

CompleteBudget(now) ==
    /\ Request(Min({budget.end, now} \cup {r.date : r \in {x \in rows : x.of = "budget"}}))
    /\ ~budget.completed /\ now <= budget.end
    /\ budget' = [budget EXCEPT !.end = now, !.completed = TRUE]
    /\ UNCHANGED <<Others, template, planned, account, rows>>

(* Account changes rebuild all of the history. *)
ExcludeAccount(a) ==
    /\ Request(FirstDate) /\ account' = [account EXCEPT ![a].excluded = ~@]
    /\ UNCHANGED <<Others, template, planned, budget, rows>>

ArchiveAccount(a) ==
    /\ Request(FirstDate) /\ Active(a) /\ Cardinality(ActiveAccounts) > 1
    /\ account' = [account EXCEPT ![a].archived = TRUE]
    /\ UNCHANGED <<Others, template, planned, budget, rows>>

(* A last payment date for the recurring expense; deleting a template. *)
EndExpense(last) ==
    /\ Request(Never) /\ template["expense"].live /\ last >= Schedule("expense").anchor
    /\ template' = [template EXCEPT !["expense"] = [@ EXCEPT !.schedule.last = last, !.saved = today]]
    /\ UNCHANGED <<Others, planned, budget, account, rows>>

DeleteTemplate(k) ==
    /\ Request(Never) /\ template[k].live
    /\ template' = [template EXCEPT ![k].live = FALSE]
    /\ UNCHANGED <<Others, planned, budget, account, rows>>

Requests ==
    \/ \E now \in ClientDays :
           \/ \E on \in NearToday : \/ EarlyPayPlanned(on, now)
                                   \/ \E due \in now..(now + HorizonDays) : EarlyPay(due, on, now)
           \/ PayPlanned(now) \/ CompleteBudget(now)
    \/ \E date \in NearToday :
           \/ MovePlanned(date) \/ Spend(date) \/ EndExpense(date)
           \/ \E a \in Accounts : AddRow("earning", date, a) \/ AddRow("spending", date, a)
           \/ \E r \in rows : MoveRow(r, date)
    \/ \E r \in rows : DeleteRow(r) \/ VoidCharge(r)
    \/ \E a \in Accounts : ExcludeAccount(a) \/ ArchiveAccount(a)
    \/ \E k \in Templates \ {"income"} : DeleteTemplate(k)
    \/ DeletePlanned

Init ==
    \E s \in Scenarios :
        /\ today = s.today
        /\ template = [k \in Templates |-> s.template[k]]
        /\ planned = [date |-> s.planned, account |-> NoAccount, live |-> TRUE]
        /\ budget = [start |-> s.budget[1], end |-> s.budget[2], completed |-> FALSE]
        /\ account = [a \in Accounts |-> [excluded |-> a \in s.excluded, archived |-> FALSE]]
        /\ range = [start |-> s.start, end |-> s.end]
        /\ rows = s.rows /\ touched = Never /\ days = s.days /\ edits = s.edits

Next == Job \/ Tick \/ Requests
Spec == Init /\ [][Next]_vars

-----------------------------------------------------------------------------
(* Properties. *)

(* Stepping from pay date to pay date meets exactly the dates of the          *)
(* schedule, from the anchor to the last payment date, and none drifts after  *)
(* a short month or a leap year; the look at one day agrees (get_pay_dates_  *)
(* in_range and occurs_on).                                                 *)
OccurrencesAgree ==
    \A k \in Templates :
        LET s == Schedule(k)
            near == (today - HorizonDays)..(today + LookAhead) IN
        /\ PayDatesInRange(s, today - HorizonDays, today + LookAhead) = {d \in near : Occurs(s, d)}
        /\ \A d \in (today - HorizonDays)..(today + HorizonDays) : OccursOn(s, d) <=> Occurs(s, d)

(* The periods of a projection follow each other without gap or overlap, each *)
(* ends on its pay date and holds no other, and they reach from the start to  *)
(* the horizon (get_projection_periods); looked up by a range, they are the   *)
(* same (get_pay_periods_overlapping_range).                                *)
PeriodsTile ==
    LET s == Schedule("income")
        ps == ProjectionPeriods(s, today, range.start, range.end)
        earliest == IF range.start = NoDate THEN today ELSE range.start IN
    /\ ps # <<>> => InPeriod(Head(ps), earliest)
    /\ range.end # NoDate /\ range.end >= earliest => InPeriod(Last(ps), range.end)
    /\ Tile(s, ps)
    /\ ps # <<>> => PayPeriodsOverlapping(s, Head(ps).start, Last(ps).end) = ps

(* A projection shows every occurrence, payment and row once: none is counted *)
(* both as projected and as recorded or in two periods, and from today to the *)
(* horizon none whose slot is free is missing (the slots of                  *)
(* build_projection_rows and the cutoff at today).                           *)
OccurrenceShownOnce ==
    LET built == Projection(today)
        slots == [n \in DOMAIN built |-> {<<i.of, i.due>> : i \in
                     {x \in built[n].items : x.of \in Templates \cup {"planned"}}}]
        counted == {i \in UNION {built[n].items : n \in DOMAIN built} :
                       i.of \in Templates \cup {"planned"}}
        expected(k) == {d \in GreatestOf(today, Head(built).start)..LeastOf(today + LookAhead, Last(built).end) :
                           Occurs(Schedule(k), d) /\ <<k, d>> \notin Recorded}
        opening == {d \in Head(built).start..Head(built).end : Head(built).start = range.start
                        /\ range.start # PreviousPayDate(Schedule("income"), Head(built).pay) + 1} IN
    built # <<>> =>
        /\ \A n, m \in DOMAIN built : n # m => slots[n] \cap slots[m] = {}
        /\ Cardinality({<<i.of, i.due>> : i \in counted}) = Cardinality(counted)
        /\ \A k \in Templates : \A d \in expected(k) :
              Shows(k) /\ ~(d \in opening /\ Sign(k, template[k].to) = 1)
              => \E n \in DOMAIN built : <<k, d>> \in slots[n]

(* What each period of the projection adds up to; its running balance is the  *)
(* opening balance and the sum of these.  Periods that ended before yesterday  *)
(* are frozen, or may be.                                                    *)
Lines == {Line(p, range.start, today) :
             p \in Range(ProjectionPeriods(Schedule("income"), today, range.start, range.end))}
Sums(line) == [pay |-> line.pay, start |-> line.start, income |-> line.income,
               expense |-> line.expense]
FrozenSums == {Sums(l) : l \in {x \in Lines : x.pay < today - 1}}

(* Every step re-freezes from early enough: a frozen period before the date   *)
(* the step re-freezes from is as it was.  Steps that re-freeze nothing, the   *)
(* next day among them, change no frozen period (the dates every handler      *)
(* gives to finish_write, and the job's refresh_history_for_date).           *)
RefreezeReachesFarEnough ==
    [][/\ {l \in FrozenSums : l.pay < touched'} \subseteq FrozenSums'
       /\ touched' # FirstDate => InitialFreeMoney' = InitialFreeMoney]_vars

(* Rows computed after a frozen period go on where it ends: they are the rest *)
(* of the whole projection (build_rows_after).                              *)
FrozenAndLiveContinuous ==
    LET built == Projection(today) IN
    \A n \in DOMAIN built :
        built[n].pay < today - 1 => RowsAfter(built[n], today) = SubSeq(built, n + 1, Len(built))

(* The items of a period, computed alone when a client opens it, are those    *)
(* its row in the projection was summed from (projection_period_items).  The  *)
(* expenses tab of the current period lists the same expenses, save transfers *)
(* and the budget's line, when no account is excluded and the projection does *)
(* not start within the period (build_expense_period_view).                  *)
TabMatches(r) ==
    LET period == TabPeriod("last-period", today) IN
    (\A a \in Accounts : ~Excludes(a)) /\ r.pay = period.pay /\ r.start = period.start =>
        {i \in TabItems("last-period", TRUE, today) : i.of # "budget"} =
            {i \in r.items : i.of \in Spendings \ {"budget"}}

PeriodItemsMatch ==
    \A r \in Range(Projection(today)) :
        /\ \E alone \in PeriodRow(r.pay, today) :
              /\ alone.start = r.start /\ alone.end = r.end
              /\ alone.items = r.items /\ alone.income = r.income /\ alone.expense = r.expense
        /\ TabMatches(r)

(* The balance a projection carries out of a past period is what its accounts *)
(* held that day, once the budget and its spending lie wholly on one side of   *)
(* it, every row has an account and the opening period had no income (which   *)
(* projections leave out by design): the sums of compute_balances and the      *)
(* running balance agree, whatever is excluded, archived, voided, deleted or   *)
(* transferred.                                                            *)
BalancesAgree ==
    LET built == Projection(today)
        spends == {r \in rows : r.of = "budget"}
        ins == {r \in rows : r.live /\ InPeriod(Head(built), r.date) /\ Sign(r.of, r.to) = 1} IN
    range.start # NoDate =>
        \A n \in DOMAIN built :
            /\ built[n].pay < today
            /\ built[1].start = PreviousPayDate(Schedule("income"), built[1].pay) + 1 \/ ins = {}
            /\ \A r \in spends : /\ (r.date <= built[n].pay) <=> (budget.end <= built[n].pay)
                                 /\ LeastOf(r.date, budget.end) >= range.start /\ ~Excludes(r.account)
            /\ \A r \in rows : r.account \in Accounts
            => built[n].cumulative =
                   MapThenSumSet(LAMBDA a : Balance(a, built[n].pay),
                                 {a \in Accounts : ~Excludes(a)})

(* The job's charge of today's occurrence changes no total: what was          *)
(* projected becomes a row of the same amount on an account projections        *)
(* count, however accounts are excluded; unless none that is active is, or the *)
(* template's own account was archived (charge_due_expenses and the cutoff).   *)
ChargingKeepsTheProjection ==
    [][\A k \in Templates :
          /\ Charge(k, today)
          /\ k = "expense" => IF template[k].account = NoAccount THEN ProjectedAccounts # {}
                              ELSE Active(template[k].account)
          => {Sums(l) : l \in Lines} = {Sums(l) : l \in Lines}']_vars

(* What a client is offered to pay early is accepted when it pays, and is     *)
(* what its projection shows ahead, but for excluded accounts and beyond the  *)
(* horizon (upcoming_payable, early_pay_expense and the projection).          *)
PayableAgrees ==
    LET built == Projection(today)
        offered == Payable(today)
        ahead == {<<i.of, i.due>> : i \in
                     {x \in UNION {r.items : r \in Range(built)} :
                         /\ x.projected /\ x.of \in {"expense", "planned"}
                         /\ x.due > today /\ x.due <= today + HorizonDays}} IN
    /\ \A o \in offered : /\ MayPay(o[2], today, today)
                          /\ o[1] = "expense" => OccursOn(Schedule("expense"), o[2])
    /\ ahead \subseteq offered
    /\ built # <<>> /\ (\A a \in Accounts : ~Excludes(a)) =>
          {o \in offered : o[2] >= Head(built).start /\ o[2] <= Last(built).end} \subseteq ahead
=============================================================================
