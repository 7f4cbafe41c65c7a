-------------------------- MODULE ProjectionsProofs --------------------------
(***************************************************************************)
(* What holds of Projections and of Reports for any templates, schedules,    *)
(* accounts and calendar, whatever a user changes between the days and the   *)
(* requests; the lemmas about schedules and periods are of ScheduleProofs.   *)
(***************************************************************************)
EXTENDS ScheduleProofs, Reports

-----------------------------------------------------------------------------
(* The states of Projections. *)

ProjectionsTyped ==
    /\ today \in Int /\ days \in Nat /\ edits \in Nat /\ touched \in Int
    /\ template \in [Templates -> TemplateType]
    /\ planned \in [date : Int, account : MaybeAccount, live : BOOLEAN]
    /\ budget \in [start : Int, end : Int, completed : BOOLEAN]
    /\ account \in [Accounts -> [excluded : BOOLEAN, archived : BOOLEAN]]
    /\ range \in [start : Dates \cup {NoDate}, end : Dates \cup {NoDate}]
    /\ rows \subseteq RowType /\ IsFiniteSet(rows)

(* The calendar reaches for every day still to come. *)
InReach == \A day \in today..(today + days) : Reached(template, range.start, range.end, day)

ProjectionsInv == ProjectionsTyped /\ InReach /\ OneRowPerSlot(rows)

LEMMA NewRowTyped ==
    ASSUME NEW of \in Kinds, NEW due \in Int, NEW date \in Int,
           NEW from \in MaybeAccount, NEW to \in MaybeAccount
    PROVE  /\ NewRow(of, due, date, from, to) \in RowType
           /\ NewRow(of, due, date, from, to).of = of /\ NewRow(of, due, date, from, to).due = due
BY ProjectionsAssumption DEF NewRow, RowType

(* An account is picked among those there are. *)
LEMMA PickedIsAccount ==
    ASSUME NEW preferred, NEW asOf, NEW a \in Pick(preferred, asOf) PROVE a \in MaybeAccount
BY DEF Pick, Active, Candidates, ProjectedAccounts, ActiveAccounts, MaybeAccount

(* A row is added to a slot that was free. *)
LEMMA RowAdded ==
    ASSUME ProjectionsTyped, OneRowPerSlot(rows), NEW n \in RowType, rows' = rows \cup {n},
           \A r \in rows : ~(r.of = n.of /\ (r.of = "planned" \/ (r.of \in Templates /\ r.due = n.due)))
    PROVE  rows' \subseteq RowType /\ IsFiniteSet(rows') /\ OneRowPerSlot(rows')
<1>1. rows' \subseteq RowType /\ IsFiniteSet(rows')
  BY FS_AddElement DEF ProjectionsTyped
<1>2. OneRowPerSlot(rows')
  BY DEF OneRowPerSlot
<1> QED
  BY <1>1, <1>2

(* A row gives way to another in its slot. *)
LEMMA RowReplaced ==
    ASSUME ProjectionsTyped, OneRowPerSlot(rows), NEW r \in rows, NEW n \in RowType,
           n.of = r.of, r.of \in {"earning", "spending"} \/ n.due = r.due,
           rows' = (rows \ {r}) \cup {n}
    PROVE  rows' \subseteq RowType /\ IsFiniteSet(rows') /\ OneRowPerSlot(rows')
<1>1. IsFiniteSet(rows \ {r})
  BY FS_Subset DEF ProjectionsTyped
<1>2. IsFiniteSet(rows')
  BY <1>1, FS_AddElement
<1>3. OneRowPerSlot(rows')
  BY DEF OneRowPerSlot, Templates
<1> QED
  BY <1>2, <1>3 DEF ProjectionsTyped

(* How far the calendar reaches for a schedule does not depend on its end. *)
LEMMA ReachedIgnoresLast ==
    ASSUME NEW t \in [Templates -> TemplateType], NEW u \in [Templates -> TemplateType],
           \A k \in Templates : /\ u[k].schedule.anchor = t[k].schedule.anchor
                                /\ u[k].schedule.frequency = t[k].schedule.frequency,
           u["income"].schedule = t["income"].schedule,
           NEW start, NEW end, NEW day, Reached(t, start, end, day)
    PROVE  Reached(u, start, end, day)
<1>1. ASSUME NEW k \in Templates, NEW d, Reaches(t[k].schedule, d) PROVE Reaches(u[k].schedule, d)
  BY <1>1 DEF Reaches, IsInterval, IntervalDays, PayMonth, MonthsApart
<1> DEFINE s == t["income"].schedule
           horizon == IF end = NoDate THEN AddMonths(day, 12) ELSE end
           until == PeriodContaining(s, horizon).end
           furthest == {day + 1, day + HorizonDays, day + LookAhead, until}
<1>2. \A k \in Templates, d \in furthest : Reaches(t[k].schedule, d)
  BY DEF Reached
<1>3. \A k \in Templates, d \in furthest : Reaches(u[k].schedule, d)
  <2> HIDE DEF furthest
  <2> QED
    BY <1>1, <1>2
<1> QED
  BY <1>3 DEF Reached

(* A finite set of dates has an earliest one. *)
LEMMA MinIs ==
    ASSUME NEW S \in SUBSET Int, IsFiniteSet(S), S # {}
    PROVE  Min(S) \in S /\ \A d \in S : Min(S) <= d
<1> DEFINE HasMin(T) == \E m \in T : \A d \in T : m <= d
           Bad == {n \in Nat : \E T \in SUBSET Int :
                      IsFiniteSet(T) /\ Cardinality(T) = n /\ T # {} /\ ~HasMin(T)}
<1>1. Bad = {}
  <2> SUFFICES ASSUME Bad # {} PROVE FALSE
    OBVIOUS
  <2>1. PICK n \in Bad : \A m \in Bad : n <= m
    <3>1. Bad \subseteq Nat
      OBVIOUS
    <3> HIDE DEF Bad
    <3> QED
      BY <3>1, Least
  <2>2. PICK T \in SUBSET Int : IsFiniteSet(T) /\ Cardinality(T) = n /\ T # {} /\ ~HasMin(T)
    OBVIOUS
  <2>3. PICK x \in T : TRUE
    BY <2>2
  <2> DEFINE U == T \ {x}
  <2>4. IsFiniteSet(U) /\ Cardinality(U) = n - 1
    BY <2>2, FS_RemoveElement
  <2>5. n \in Nat /\ n - 1 \in Nat /\ n - 1 < n
    BY <2>4, FS_CardinalityType
  <2>6. U = {} \/ HasMin(U)
    <3> SUFFICES ASSUME U # {}, ~HasMin(U) PROVE FALSE
      OBVIOUS
    <3>1. n - 1 \in Bad
      BY <2>4, <2>5
    <3> HIDE DEF Bad, U, HasMin
    <3> QED
      BY <2>1, <2>5, <3>1
  <2>7. CASE U = {}
    <3>1. T = {x} /\ x \in Int
      BY <2>7
    <3> QED
      BY <2>2, <3>1
  <2>8. CASE HasMin(U)
    <3>1. PICK m \in U : \A d \in U : m <= d
      BY <2>8
    <3>2. m \in Int /\ x \in Int /\ m \in T /\ \A d \in T : d = x \/ d \in U
      OBVIOUS
    <3> HIDE DEF U
    <3>3. CASE m <= x
      BY <2>2, <3>1, <3>2, <3>3
    <3>4. CASE x <= m
      <4>1. \A d \in T : x <= d
        BY <3>1, <3>2, <3>4
      <4> QED
        BY <2>2, <4>1
    <3> QED
      BY <3>2, <3>3, <3>4
  <2> QED
    BY <2>6, <2>7, <2>8
<1>2. HasMin(S)
  BY <1>1, FS_CardinalityType
<1> QED
  BY <1>2 DEF Min

LEMMA NeverTyped == Never \in Int /\ FirstDate \in Int
BY DateFacts DEF Never, FirstDate

LEMMA InitInv == Init => ProjectionsInv
<1> SUFFICES ASSUME NEW s \in Scenarios,
                    today = s.today,
                    template = [k \in Templates |-> s.template[k]],
                    planned = [date |-> s.planned, account |-> NoAccount, live |-> TRUE],
                    budget = [start |-> s.budget[1], end |-> s.budget[2], completed |-> FALSE],
                    account = [a \in Accounts |-> [excluded |-> a \in s.excluded, archived |-> FALSE]],
                    range = [start |-> s.start, end |-> s.end],
                    rows = s.rows, touched = Never, days = s.days, edits = s.edits
             PROVE  ProjectionsInv
  BY DEF Init
<1>0. \A d \in Dates : d \in Int
  BY DateFacts
<1>1. /\ today \in Int /\ days \in Nat /\ edits \in Nat /\ touched \in Int
      /\ template \in [Templates -> TemplateType]
  <2>1. s.today \in Int
    BY <1>0, ProjectionsAssumption
  <2> QED
    BY <2>1, ProjectionsAssumption, NeverTyped
<1>2. planned \in [date : Int, account : MaybeAccount, live : BOOLEAN]
  <2>1. s.planned \in Int
    BY <1>0, ProjectionsAssumption DEF NoDate
  <2> QED
    BY <2>1 DEF MaybeAccount
<1>3. budget \in [start : Int, end : Int, completed : BOOLEAN]
  <2>1. s.budget[1] \in Int /\ s.budget[2] \in Int
    BY <1>0, ProjectionsAssumption
  <2> QED
    BY <2>1
<1>4. account \in [Accounts -> [excluded : BOOLEAN, archived : BOOLEAN]]
  OBVIOUS
<1>5. range \in [start : Dates \cup {NoDate}, end : Dates \cup {NoDate}]
  BY ProjectionsAssumption
<1>6. rows \subseteq RowType /\ IsFiniteSet(rows) /\ OneRowPerSlot(rows)
  BY ProjectionsAssumption
<1>7. InReach
  <2>1. \A day \in today..(today + days) : Reached(s.template, s.start, s.end, day)
    BY ProjectionsReach
  <2>2. \A k \in Templates : template[k] = s.template[k]
    OBVIOUS
  <2>3. "income" \in Templates /\ range.start = s.start /\ range.end = s.end
    BY DEF Templates
  <2> QED
    BY <2>1, <2>2, <2>3 DEF InReach, Reached
<1> QED
  BY <1>1, <1>2, <1>3, <1>4, <1>5, <1>6, <1>7 DEF ProjectionsInv, ProjectionsTyped

LEMMA WithinRange ==
    ASSUME NEW a \in Int, NEW n \in Int, NEW b \in Int, NEW m \in Int,
           a <= b, b + m <= a + n, NEW d \in b..(b + m)
    PROVE  d \in a..(a + n)
OBVIOUS

(* Days that stay to come, and schedules that keep their dates but for an end. *)
LEMMA ReachKept ==
    ASSUME ProjectionsTyped, InReach, template' \in [Templates -> TemplateType],
           \A k \in Templates : /\ template'[k].schedule.anchor = template[k].schedule.anchor
                                /\ template'[k].schedule.frequency = template[k].schedule.frequency,
           template'["income"].schedule = template["income"].schedule,
           range' = range, today' \in Int, days' \in Int,
           today <= today', today' + days' <= today + days
    PROVE  InReach'
<1>1. ASSUME NEW day \in today'..(today' + days')
      PROVE  Reached(template', range.start, range.end, day)
  <2>1. day \in today..(today + days)
    <3>1. today \in Int /\ days \in Int
      BY DEF ProjectionsTyped
    <3> QED
      BY <3>1, WithinRange
  <2>2. Reached(template, range.start, range.end, day)
    BY <2>1 DEF InReach
  <2> QED
    BY <2>2, ReachedIgnoresLast DEF ProjectionsTyped
<1> QED
  BY <1>1 DEF InReach

LEMMA RowsStep ==
    ASSUME ProjectionsInv, UNCHANGED <<today, template, planned, budget, account, range, days>>,
           edits' \in Nat, touched' \in Int,
           rows' \subseteq RowType, IsFiniteSet(rows'), OneRowPerSlot(rows')
    PROVE  ProjectionsInv'
<1>1. ProjectionsTyped'
  BY DEF ProjectionsInv, ProjectionsTyped
<1>2. InReach'
  BY DEF ProjectionsInv, InReach
<1> QED
  BY <1>1, <1>2 DEF ProjectionsInv

LEMMA RowAddedStep ==
    ASSUME ProjectionsInv, UNCHANGED <<today, template, planned, budget, account, range, days>>,
           edits' \in Nat, touched' \in Int, NEW n \in RowType, rows' = rows \cup {n},
           \A r \in rows : ~(r.of = n.of /\ (r.of = "planned" \/ (r.of \in Templates /\ r.due = n.due)))
    PROVE  ProjectionsInv'
<1>1. ProjectionsTyped /\ OneRowPerSlot(rows)
  BY DEF ProjectionsInv
<1>2. rows' \subseteq RowType /\ IsFiniteSet(rows') /\ OneRowPerSlot(rows')
  BY <1>1, RowAdded
<1> QED
  BY <1>2, RowsStep

LEMMA RowReplacedStep ==
    ASSUME ProjectionsInv, UNCHANGED <<today, template, planned, budget, account, range, days>>,
           edits' \in Nat, touched' \in Int, NEW r \in rows, NEW n \in RowType,
           n.of = r.of, r.of \in {"earning", "spending"} \/ n.due = r.due,
           rows' = (rows \ {r}) \cup {n}
    PROVE  ProjectionsInv'
<1>1. ProjectionsTyped /\ OneRowPerSlot(rows)
  BY DEF ProjectionsInv
<1>2. rows' \subseteq RowType /\ IsFiniteSet(rows') /\ OneRowPerSlot(rows')
  BY <1>1, RowReplaced
<1> QED
  BY <1>2, RowsStep

(* A request has its date, and counts. *)
LEMMA RequestTyped ==
    ASSUME ProjectionsTyped, NEW date \in Int, Request(date)
    PROVE  edits' \in Nat /\ touched' \in Int /\ touched' = date
BY DEF ProjectionsTyped, Request

LEMMA SlotFree ==
    ASSUME NEW k \in Templates, NEW due, <<k, due>> \notin Recorded
    PROVE  \A r \in rows : ~(r.of = k /\ r.due = due)
BY DEF Recorded

LEMMA KindsAre ==
    /\ Templates \subseteq Kinds /\ {"planned", "budget", "earning", "spending"} \subseteq Kinds
    /\ \A k \in Templates : k \notin {"planned", "budget", "earning", "spending"}
BY DEF Templates, Kinds

LEMMA ChargeKeepsInv ==
    ASSUME ProjectionsInv, NEW k \in Templates, NEW due \in Int, Charge(k, due) PROVE ProjectionsInv'
<1>1. PICK a \in ChargedFrom(k, due) : rows' = rows \cup {NewRow(k, due, due, a, template[k].to)}
  BY DEF Charge
<1>2. a \in MaybeAccount /\ template[k].to \in MaybeAccount
  <2>1. template[k].account \in MaybeAccount /\ template[k].to \in MaybeAccount
    BY DEF ProjectionsInv, ProjectionsTyped, TemplateType
  <2> QED
    BY <1>1, <2>1, PickedIsAccount DEF ChargedFrom
<1>3. /\ NewRow(k, due, due, a, template[k].to) \in RowType
      /\ NewRow(k, due, due, a, template[k].to).of = k
      /\ NewRow(k, due, due, a, template[k].to).due = due
  <2>1. k \in Kinds
    BY KindsAre
  <2> QED
    BY <1>2, <2>1, NewRowTyped
<1>4. \A r \in rows : ~(r.of = k /\ r.due = due)
  BY SlotFree DEF Charge
<1>5. touched' \in Int
  BY ProjectionsAssumption DEF Charge, ProjectionsInv, ProjectionsTyped
<1>6. edits' \in Nat
  BY DEF Charge, ProjectionsInv, ProjectionsTyped
<1>7. UNCHANGED <<today, template, planned, budget, account, range, days>>
  BY DEF Charge
<1> QED
  BY <1>1, <1>3, <1>4, <1>5, <1>6, <1>7, KindsAre, RowAddedStep

LEMMA PlannedKeepsInv ==
    ASSUME ProjectionsInv, NEW date \in Int, ~Paid, Request(Never),
           NEW a \in MaybeAccount, rows' = rows \cup {NewRow("planned", planned.date, date, a, NoAccount)},
           UNCHANGED <<Others, template, planned, budget, account>>
    PROVE  ProjectionsInv'
<1> DEFINE n == NewRow("planned", planned.date, date, a, NoAccount)
<1>1. planned.date \in Int /\ ProjectionsTyped
  BY DEF ProjectionsInv, ProjectionsTyped
<1>2. n \in RowType /\ n.of = "planned"
  <2>1. NoAccount \in MaybeAccount /\ "planned" \in Kinds
    BY KindsAre DEF MaybeAccount
  <2> QED
    BY <1>1, <2>1, NewRowTyped
<1>3. \A r \in rows : r.of # "planned"
  BY DEF Paid
<1>4. edits' \in Nat /\ touched' \in Int
  BY <1>1, RequestTyped, NeverTyped
<1> HIDE DEF n
<1>5. \A r \in rows : ~(r.of = n.of /\ (r.of = "planned" \/ (r.of \in Templates /\ r.due = n.due)))
  BY <1>2, <1>3
<1>6. UNCHANGED <<today, template, planned, budget, account, range, days>>
  BY DEF Others
<1> QED
  BY <1>2, <1>4, <1>5, <1>6, RowAddedStep DEF n

(* A row of no slot: entered by hand, or spent on the budget. *)
LEMMA HandKeepsInv ==
    ASSUME ProjectionsInv, NEW of \in {"budget", "earning", "spending"}, NEW date \in Int,
           NEW a \in MaybeAccount, NEW from \in Int, Request(from),
           rows' = rows \cup {NewRow(of, date, date, a, NoAccount)},
           UNCHANGED <<Others, template, planned, budget, account>>
    PROVE  ProjectionsInv'
<1> DEFINE n == NewRow(of, date, date, a, NoAccount)
<1>1. n \in RowType /\ n.of = of
  BY NewRowTyped, KindsAre DEF MaybeAccount
<1>2. edits' \in Nat /\ touched' \in Int
  BY RequestTyped DEF ProjectionsInv
<1> HIDE DEF n
<1>3. \A r \in rows : ~(r.of = n.of /\ (r.of = "planned" \/ (r.of \in Templates /\ r.due = n.due)))
  BY <1>1, KindsAre
<1>4. UNCHANGED <<today, template, planned, budget, account, range, days>>
  BY DEF Others
<1> QED
  BY <1>1, <1>2, <1>3, <1>4, RowAddedStep DEF n

LEMMA EarlyPayKeepsInv ==
    ASSUME ProjectionsInv, NEW due \in Int, NEW on \in Int, NEW today_, EarlyPay(due, on, today_)
    PROVE  ProjectionsInv'
<1> DEFINE n(a) == NewRow("expense", due, on, a, NoAccount)
<1>1. PICK a \in Pick(NoAccount, on) : rows' = rows \cup {n(a)}
  BY DEF EarlyPay
<1>2. n(a) \in RowType /\ n(a).of = "expense" /\ n(a).due = due
  <2>1. NoAccount \in MaybeAccount /\ "expense" \in Kinds
    BY KindsAre DEF MaybeAccount, Templates
  <2>2. a \in MaybeAccount
    BY <1>1, PickedIsAccount
  <2> QED
    BY <2>1, <2>2, NewRowTyped
<1>3. edits' \in Nat /\ touched' \in Int
  BY RequestTyped, NeverTyped DEF ProjectionsInv, EarlyPay
<1>4. \A r \in rows : ~(r.of = "expense" /\ r.due = due)
  BY SlotFree DEF EarlyPay, Templates
<1>5. UNCHANGED <<today, template, planned, budget, account, range, days>>
  BY DEF EarlyPay, Others
<1> HIDE DEF n
<1>6. \A r \in rows : ~(r.of = n(a).of /\ (r.of = "planned" \/ (r.of \in Templates /\ r.due = n(a).due)))
  BY <1>2, <1>4
<1> QED
  BY <1>1, <1>2, <1>3, <1>5, <1>6, RowAddedStep

(* Where requests move rows to. *)
LEMMA NearTyped ==
    ASSUME ProjectionsTyped
    PROVE  /\ \A d \in NearToday : d \in Int
           /\ \A d \in ClientDays : d \in Int /\ today - 1 <= d
BY ProjectionsAssumption DEF NearToday, ClientDays, ProjectionsTyped

LEMMA MoveRowKeepsInv ==
    ASSUME ProjectionsInv, NEW r \in rows, NEW date \in Int, MoveRow(r, date) PROVE ProjectionsInv'
<1> DEFINE n == [r EXCEPT !.date = date, !.due = date]
<1>1. r \in RowType /\ ProjectionsTyped
  BY DEF ProjectionsInv, ProjectionsTyped
<1>2. n \in RowType /\ n.of = r.of
  BY <1>1 DEF RowType
<1>3. LeastOf(r.date, date) \in Int
  BY <1>1 DEF RowType, LeastOf
<1>4. edits' \in Nat /\ touched' \in Int
  BY <1>1, <1>3, RequestTyped DEF MoveRow
<1>5. UNCHANGED <<today, template, planned, budget, account, range, days>>
  BY DEF MoveRow, Others
<1>6. rows' = (rows \ {r}) \cup {n} /\ r.of \in {"earning", "spending"}
  BY DEF MoveRow
<1> HIDE DEF n
<1> QED
  BY <1>2, <1>4, <1>5, <1>6, RowReplacedStep

LEMMA RefreezeFromTyped ==
    ASSUME ProjectionsTyped, NEW r \in RowType
    PROVE  RefreezeFrom(r) \in Int /\ RefreezeFrom(r) <= r.date
           /\ (r.of = "budget" => RefreezeFrom(r) <= budget.end)
BY DEF RefreezeFrom, LeastOf, ProjectionsTyped, RowType

LEMMA DeleteRowKeepsInv ==
    ASSUME ProjectionsInv, NEW r \in rows, DeleteRow(r) PROVE ProjectionsInv'
<1> DEFINE n == [r EXCEPT !.live = FALSE]
<1>1. r \in RowType /\ ProjectionsTyped
  BY DEF ProjectionsInv, ProjectionsTyped
<1>2. n \in RowType /\ n.of = r.of /\ n.due = r.due
  BY <1>1 DEF RowType
<1>3. edits' \in Nat /\ touched' \in Int
  BY <1>1, RefreezeFromTyped, RequestTyped DEF DeleteRow
<1>4. UNCHANGED <<today, template, planned, budget, account, range, days>>
  BY DEF DeleteRow, Others
<1>5. rows' = (rows \ {r}) \cup {n} \/ rows' = rows \ {r}
  BY DEF DeleteRow
<1> HIDE DEF n
<1>6. CASE rows' = (rows \ {r}) \cup {n}
  BY <1>2, <1>3, <1>4, <1>6, RowReplacedStep
<1>7. CASE rows' = rows \ {r}
  <2>1. rows' \subseteq RowType /\ IsFiniteSet(rows') /\ OneRowPerSlot(rows')
    BY <1>7, FS_Subset DEF ProjectionsInv, ProjectionsTyped, OneRowPerSlot
  <2> QED
    BY <1>3, <1>4, <2>1, RowsStep
<1> QED
  BY <1>5, <1>6, <1>7

LEMMA VoidChargeKeepsInv ==
    ASSUME ProjectionsInv, NEW r \in rows, VoidCharge(r) PROVE ProjectionsInv'
<1> DEFINE n == [r EXCEPT !.amount = 0]
<1>1. r \in RowType /\ ProjectionsTyped
  BY DEF ProjectionsInv, ProjectionsTyped
<1>2. n \in RowType /\ n.of = r.of /\ n.due = r.due
  BY <1>1 DEF RowType
<1>3. r.date \in Int
  BY <1>1 DEF RowType
<1>4. edits' \in Nat /\ touched' \in Int
  BY <1>1, <1>3, RequestTyped DEF VoidCharge
<1>5. UNCHANGED <<today, template, planned, budget, account, range, days>>
  BY DEF VoidCharge, Others
<1>6. rows' = (rows \ {r}) \cup {n}
  BY DEF VoidCharge
<1> HIDE DEF n
<1> QED
  BY <1>2, <1>4, <1>5, <1>6, RowReplacedStep

(* Steps that leave the rows, the days and the range alone. *)
LEMMA NoRowStep ==
    ASSUME ProjectionsInv, UNCHANGED <<Others, rows>>, edits' \in Nat, touched' \in Int,
           template' \in [Templates -> TemplateType],
           \A k \in Templates : /\ template'[k].schedule.anchor = template[k].schedule.anchor
                                /\ template'[k].schedule.frequency = template[k].schedule.frequency,
           template'["income"].schedule = template["income"].schedule,
           planned' \in [date : Int, account : MaybeAccount, live : BOOLEAN],
           budget' \in [start : Int, end : Int, completed : BOOLEAN],
           account' \in [Accounts -> [excluded : BOOLEAN, archived : BOOLEAN]]
    PROVE  ProjectionsInv'
<1>1. ProjectionsTyped'
  BY DEF ProjectionsInv, ProjectionsTyped, Others
<1>2. today' = today /\ days' = days /\ range' = range /\ today \in Int /\ days \in Int
  BY DEF ProjectionsInv, ProjectionsTyped, Others
<1>3. InReach'
  <2>1. today <= today' /\ today' + days' <= today + days /\ today' \in Int /\ days' \in Int
    BY <1>2
  <2> QED
    BY <1>2, <2>1, ReachKept DEF ProjectionsInv
<1> QED
  BY <1>1, <1>3 DEF ProjectionsInv, OneRowPerSlot

LEMMA PlannedStep ==
    ASSUME ProjectionsInv, UNCHANGED <<Others, template, budget, account, rows>>, Request(Never),
           NEW p \in [date : Int, account : MaybeAccount, live : BOOLEAN], planned' = p
    PROVE  ProjectionsInv'
<1>1. edits' \in Nat /\ touched' \in Int
  BY RequestTyped, NeverTyped DEF ProjectionsInv
<1> QED
  BY <1>1, NoRowStep DEF ProjectionsInv, ProjectionsTyped

LEMMA BudgetDates ==
    ASSUME ProjectionsTyped, NEW date \in Int
    PROVE  LET D == {budget.end, date} \cup {r.date : r \in {x \in rows : x.of = "budget"}} IN
           Min(D) \in Int /\ \A d \in D : Min(D) <= d
<1> DEFINE R == {x \in rows : x.of = "budget"}
           Date(r) == r.date
           E == {Date(r) : r \in R}
           D == {budget.end, date} \cup E
<1>1. IsFiniteSet(E)
  <2>1. IsFiniteSet(R)
    BY FS_Subset DEF ProjectionsTyped
  <2> DEFINE f == [r \in R |-> r.date]
  <2>2. f \in Surjection(R, E)
    BY DEF Surjection
  <2> HIDE DEF R, E, f
  <2> QED
    BY <2>1, <2>2, FS_Surjection
<1>2. D \subseteq Int
  <2>1. \A r \in rows : r.date \in Int
    BY DEF ProjectionsTyped, RowType
  <2> QED
    BY <2>1 DEF ProjectionsTyped
<1>3. IsFiniteSet(D)
  <2>1. IsFiniteSet({budget.end, date})
    <3>1. IsFiniteSet({budget.end})
      BY FS_Singleton
    <3>2. {budget.end, date} = {budget.end} \cup {date}
      OBVIOUS
    <3> QED
      BY <3>1, <3>2, FS_AddElement
  <2> HIDE DEF E
  <2> QED
    BY <1>1, <2>1, FS_Union
<1>4. D # {}
  OBVIOUS
<1>5. D = {budget.end, date} \cup {r.date : r \in {x \in rows : x.of = "budget"}}
  OBVIOUS
<1> HIDE DEF D
<1>6. Min(D) \in D /\ \A d \in D : Min(D) <= d
  BY <1>2, <1>3, <1>4, MinIs
<1> QED
  BY <1>2, <1>5, <1>6

LEMMA OtherRequestsKeepInv ==
    ASSUME ProjectionsInv,
           \/ \E d \in ClientDays : CompleteBudget(d)
           \/ \E a \in Accounts : ExcludeAccount(a) \/ ArchiveAccount(a)
           \/ \E d \in NearToday : MovePlanned(d) \/ EndExpense(d)
           \/ \E k \in Templates \ {"income"} : DeleteTemplate(k)
           \/ DeletePlanned
    PROVE  ProjectionsInv'
<1>0. ProjectionsTyped
  BY DEF ProjectionsInv
<1>1. ASSUME NEW d \in ClientDays, CompleteBudget(d) PROVE ProjectionsInv'
  <2>1. d \in Int
    BY <1>0, NearTyped
  <2>2. edits' \in Nat /\ touched' \in Int
    <3>1. Request(Min({budget.end, d} \cup {r.date : r \in {x \in rows : x.of = "budget"}}))
      BY <1>1 DEF CompleteBudget
    <3> QED
      BY <1>0, <2>1, <3>1, BudgetDates, RequestTyped
  <2>3. budget' \in [start : Int, end : Int, completed : BOOLEAN]
    BY <1>0, <1>1, <2>1 DEF CompleteBudget, ProjectionsTyped
  <2>4. UNCHANGED <<Others, template, planned, account, rows>>
    BY <1>1 DEF CompleteBudget
  <2> QED
    BY <1>0, <2>2, <2>3, <2>4, NoRowStep DEF ProjectionsTyped
<1>2. ASSUME NEW a \in Accounts, ExcludeAccount(a) \/ ArchiveAccount(a) PROVE ProjectionsInv'
  <2>1. edits' \in Nat /\ touched' \in Int
    BY <1>0, <1>2, NeverTyped, RequestTyped DEF ExcludeAccount, ArchiveAccount
  <2>2. account' \in [Accounts -> [excluded : BOOLEAN, archived : BOOLEAN]]
    <3> DEFINE A == [excluded : BOOLEAN, archived : BOOLEAN]
    <3>1. account \in [Accounts -> A] /\ account[a] \in A
      BY <1>0 DEF ProjectionsTyped
    <3>2. \A b \in BOOLEAN : /\ [account[a] EXCEPT !.excluded = b] \in A
                            /\ [account[a] EXCEPT !.archived = b] \in A
      BY <3>1
    <3>3. PICK row \in A : account' = [account EXCEPT ![a] = row]
      <4>1. (~account[a].excluded) \in BOOLEAN
        OBVIOUS
      <4>2. CASE ExcludeAccount(a)
        <5>1. account' = [account EXCEPT ![a] = [account[a] EXCEPT !.excluded = ~account[a].excluded]]
          BY <4>2, <3>1 DEF ExcludeAccount
        <5> QED
          BY <5>1, <4>1, <3>2
      <4>3. CASE ArchiveAccount(a)
        <5>1. account' = [account EXCEPT ![a] = [account[a] EXCEPT !.archived = TRUE]]
          BY <4>3, <3>1 DEF ArchiveAccount
        <5> QED
          BY <5>1, <3>2
      <4> QED
        BY <1>2, <4>2, <4>3
    <3> HIDE DEF A
    <3>4. account' \in [Accounts -> A]
      BY <3>1, <3>3
    <3> QED
      BY <3>4 DEF A
  <2>3. UNCHANGED <<Others, template, planned, budget, rows>>
    BY <1>2 DEF ExcludeAccount, ArchiveAccount
  <2> QED
    BY <1>0, <2>1, <2>2, <2>3, NoRowStep DEF ProjectionsTyped
<1>3. ASSUME NEW d \in NearToday, MovePlanned(d) PROVE ProjectionsInv'
  <2>1. d \in Int
    BY <1>0, NearTyped
  <2>2. [planned EXCEPT !.date = d] \in [date : Int, account : MaybeAccount, live : BOOLEAN]
    BY <1>0, <2>1 DEF ProjectionsTyped
  <2> QED
    BY <1>3, <2>2, PlannedStep DEF MovePlanned
<1>4. ASSUME DeletePlanned PROVE ProjectionsInv'
  <2>1. [planned EXCEPT !.live = FALSE] \in [date : Int, account : MaybeAccount, live : BOOLEAN]
    BY <1>0 DEF ProjectionsTyped
  <2> QED
    BY <1>4, <2>1, PlannedStep DEF DeletePlanned
<1>5. ASSUME NEW d \in NearToday, EndExpense(d) PROVE ProjectionsInv'
  <2> DEFINE t == template["expense"]
             u == [t EXCEPT !.schedule.last = d, !.saved = today]
  <2>1. d \in Dates
    <3>1. PICK n \in ManualDays : d = today + n
      BY DEF NearToday
    <3>2. today \in today..(today + days)
      BY <1>0 DEF ProjectionsTyped
    <3>3. Reached(template, range.start, range.end, today)
      BY <3>2 DEF ProjectionsInv, InReach
    <3> QED
      BY <3>1, <3>3 DEF Reached
  <2>2. t \in TemplateType
    BY <1>0 DEF ProjectionsTyped, Templates
  <2>3. u \in TemplateType /\ u.schedule.anchor = t.schedule.anchor
        /\ u.schedule.frequency = t.schedule.frequency
    BY <1>0, <2>1, <2>2 DEF TemplateType, ScheduleType, ProjectionsTyped
  <2>4. template' = [template EXCEPT !["expense"] = u]
    BY <1>5 DEF EndExpense
  <2> HIDE DEF t, u
  <2>5. /\ template' \in [Templates -> TemplateType]
        /\ template'["expense"] = u
        /\ \A k \in Templates : k # "expense" => template'[k] = template[k]
    BY <1>0, <2>3, <2>4 DEF ProjectionsTyped, Templates
  <2>6. edits' \in Nat /\ touched' \in Int
    BY <1>0, <1>5, RequestTyped, NeverTyped DEF EndExpense
  <2>7. UNCHANGED <<Others, planned, budget, account, rows>>
    BY <1>5 DEF EndExpense
  <2>8. /\ \A k \in Templates : /\ template'[k].schedule.anchor = template[k].schedule.anchor
                                /\ template'[k].schedule.frequency = template[k].schedule.frequency
        /\ template'["income"].schedule = template["income"].schedule
    BY <2>3, <2>5 DEF t, Templates
  <2> QED
    BY <1>0, <2>5, <2>6, <2>7, <2>8, NoRowStep DEF ProjectionsTyped
<1>6. ASSUME NEW k \in Templates \ {"income"}, DeleteTemplate(k) PROVE ProjectionsInv'
  <2>1. template[k] \in TemplateType
    BY <1>0 DEF ProjectionsTyped
  <2>2. /\ [template[k] EXCEPT !.live = FALSE] \in TemplateType
        /\ [template[k] EXCEPT !.live = FALSE].schedule = template[k].schedule
    BY <2>1 DEF TemplateType
  <2>3. template' = [template EXCEPT ![k] = [template[k] EXCEPT !.live = FALSE]]
    BY <1>6 DEF DeleteTemplate
  <2>4. /\ template' \in [Templates -> TemplateType]
        /\ \A j \in Templates : template'[j].schedule = template[j].schedule
    BY <1>0, <2>2, <2>3 DEF ProjectionsTyped
  <2>5. edits' \in Nat /\ touched' \in Int
    BY <1>0, <1>6, RequestTyped, NeverTyped DEF DeleteTemplate
  <2>6. UNCHANGED <<Others, planned, budget, account, rows>>
    BY <1>6 DEF DeleteTemplate
  <2>7. "income" \in Templates
    BY DEF Templates
  <2> QED
    BY <1>0, <2>4, <2>5, <2>6, <2>7, NoRowStep DEF ProjectionsTyped
<1> QED
  BY <1>1, <1>2, <1>3, <1>4, <1>5, <1>6

LEMMA TickKeepsInv == ASSUME ProjectionsInv, Tick PROVE ProjectionsInv'
<1>0. /\ today \in Int /\ days \in Nat /\ edits \in Nat
      /\ today' = today + 1 /\ days' = days - 1 /\ days > 0 /\ touched' = Never
      /\ UNCHANGED <<template, planned, budget, account, range, rows, edits>>
  BY DEF Tick, ProjectionsInv, ProjectionsTyped
<1>1. ProjectionsTyped'
  <2>1. days' \in Nat /\ today' \in Int /\ touched' \in Int
    BY <1>0, NeverTyped
  <2> QED
    BY <1>0, <2>1 DEF ProjectionsInv, ProjectionsTyped
<1>2. InReach'
  <2>1. today <= today' /\ today' + days' <= today + days /\ today' \in Int /\ days' \in Int
    BY <1>0
  <2> QED
    BY <1>0, <2>1, ReachKept DEF ProjectionsInv, ProjectionsTyped
<1> QED
  BY <1>0, <1>1, <1>2 DEF ProjectionsInv, OneRowPerSlot

LEMMA StepKeepsProjectionsInv == ASSUME ProjectionsInv, [Next]_vars PROVE ProjectionsInv'
<1>0. /\ ProjectionsTyped /\ \A d \in NearToday : d \in Int
      /\ \A d \in ClientDays : d \in Int /\ today - 1 <= d
  BY NearTyped DEF ProjectionsInv
<1>1. CASE Job
  <2>1. PICK k \in Templates, due \in (today - CatchUpDays)..today : Charge(k, due)
    BY <1>1 DEF Job
  <2>2. due \in Int
    BY <1>0, ProjectionsAssumption DEF ProjectionsTyped
  <2> QED
    BY <2>1, <2>2, ChargeKeepsInv
<1>2. CASE Tick
  BY <1>2, TickKeepsInv
<1>3. CASE Requests
  <2>1. ASSUME NEW d \in ClientDays, NEW on \in NearToday, EarlyPayPlanned(on, d) PROVE ProjectionsInv'
    <3>1. PICK a \in Pick(NoAccount, on) :
             rows' = rows \cup {NewRow("planned", planned.date, on, a, NoAccount)}
      BY <2>1 DEF EarlyPayPlanned
    <3>2. a \in MaybeAccount /\ on \in Int
      BY <1>0, <3>1, PickedIsAccount
    <3> QED
      BY <2>1, <3>1, <3>2, PlannedKeepsInv DEF EarlyPayPlanned
  <2>2. ASSUME NEW d \in ClientDays, NEW on \in NearToday, NEW due \in d..(d + HorizonDays),
               EarlyPay(due, on, d)
        PROVE  ProjectionsInv'
    <3>1. due \in Int /\ on \in Int
      BY <1>0, ProjectionsAssumption
    <3> QED
      BY <2>2, <3>1, EarlyPayKeepsInv
  <2>3. ASSUME NEW d \in ClientDays, PayPlanned(d) PROVE ProjectionsInv'
    <3>1. PICK a \in Pick(planned.account, d) :
             rows' = rows \cup {NewRow("planned", planned.date, d, a, NoAccount)}
      BY <2>3 DEF PayPlanned
    <3>2. a \in MaybeAccount /\ d \in Int
      BY <1>0, <3>1, PickedIsAccount
    <3> QED
      BY <2>3, <3>1, <3>2, PlannedKeepsInv DEF PayPlanned
  <2>4. ASSUME NEW d \in NearToday, Spend(d) PROVE ProjectionsInv'
    <3> DEFINE n(a) == NewRow("budget", d, d, a, NoAccount)
    <3>1. PICK a \in Pick(NoAccount, d) : Request(RefreezeFrom(n(a))) /\ rows' = rows \cup {n(a)}
      BY <2>4 DEF Spend
    <3>2. a \in MaybeAccount /\ d \in Int
      BY <1>0, <3>1, PickedIsAccount
    <3>3. "budget" \in Kinds /\ NoAccount \in MaybeAccount
      BY KindsAre DEF MaybeAccount
    <3>4. n(a) \in RowType
      BY <3>2, <3>3, NewRowTyped
    <3>5. RefreezeFrom(n(a)) \in Int
      BY <1>0, <3>4, RefreezeFromTyped
    <3> QED
      BY <2>4, <3>1, <3>2, <3>5, HandKeepsInv DEF Spend
  <2>5. ASSUME NEW d \in NearToday, NEW a \in Accounts, NEW of \in {"earning", "spending"}, AddRow(of, d, a)
        PROVE  ProjectionsInv'
    <3>1. d \in Int /\ a \in MaybeAccount
      BY <1>0 DEF MaybeAccount
    <3> QED
      BY <2>5, <3>1, HandKeepsInv DEF AddRow
  <2>6. ASSUME NEW d \in NearToday, NEW r \in rows, MoveRow(r, d) PROVE ProjectionsInv'
    BY <1>0, <2>6, MoveRowKeepsInv
  <2>7. ASSUME NEW r \in rows, DeleteRow(r) \/ VoidCharge(r) PROVE ProjectionsInv'
    BY <2>7, DeleteRowKeepsInv, VoidChargeKeepsInv
  <2>8. \/ \E d \in ClientDays : \/ \E on \in NearToday : EarlyPayPlanned(on, d)
                                 \/ \E on \in NearToday : \E due \in d..(d + HorizonDays) : EarlyPay(due, on, d)
                                 \/ PayPlanned(d)
        \/ \E d \in NearToday : \/ Spend(d)
                                \/ \E a \in Accounts, of \in {"earning", "spending"} : AddRow(of, d, a)
                                \/ \E r \in rows : MoveRow(r, d)
        \/ \E r \in rows : DeleteRow(r) \/ VoidCharge(r)
        \/ \/ \E d \in ClientDays : CompleteBudget(d)
           \/ \E a \in Accounts : ExcludeAccount(a) \/ ArchiveAccount(a)
           \/ \E d \in NearToday : MovePlanned(d) \/ EndExpense(d)
           \/ \E k \in Templates \ {"income"} : DeleteTemplate(k)
           \/ DeletePlanned
    BY <1>3, Zenon DEF Requests
  <2> QED
    BY <2>1, <2>2, <2>3, <2>4, <2>5, <2>6, <2>7, <2>8, OtherRequestsKeepInv
<1>4. CASE UNCHANGED vars
  <2>1. edits' \in Nat /\ touched' \in Int /\ rows' = rows
    BY <1>0, <1>4 DEF vars, ProjectionsTyped
  <2>2. rows' \subseteq RowType /\ IsFiniteSet(rows') /\ OneRowPerSlot(rows')
    BY <1>0, <2>1 DEF ProjectionsTyped, ProjectionsInv
  <2> QED
    BY <1>4, <2>1, <2>2, RowsStep DEF vars
<1> QED
  BY <1>1, <1>2, <1>3, <1>4 DEF Next

(* What a user has set up stays well-formed, an occurrence has one row and the   *)
(* one-time expense one payment, whatever the job and requests do; and the      *)
(* calendar goes on reaching far enough.                                      *)
THEOREM ProjectionsInvariant == Spec => []ProjectionsInv
<1>1. ProjectionsInv /\ [Next]_vars => ProjectionsInv'
  BY StepKeepsProjectionsInv
<1> QED
  BY <1>1, InitInv, PTL DEF Spec

LEMMA ReachedToday ==
    ASSUME ProjectionsInv PROVE Reached(template, range.start, range.end, today)
<1>1. today \in today..(today + days)
  BY DEF ProjectionsInv, ProjectionsTyped
<1> QED
  BY <1>1 DEF ProjectionsInv, InReach

LEMMA TemplateFacts ==
    ASSUME ProjectionsTyped, NEW k \in Templates
    PROVE  /\ Schedule(k) \in ScheduleType /\ template[k].live \in BOOLEAN
           /\ template[k].account \in MaybeAccount /\ template[k].to \in MaybeAccount
<1>1. template[k] \in TemplateType
  BY DEF ProjectionsTyped
<1> QED
  BY <1>1 DEF TemplateType, Schedule

LEMMA InvOccurrencesAgree == ProjectionsInv => OccurrencesAgree
<1> SUFFICES ASSUME ProjectionsInv, NEW k \in Templates
             PROVE  LET s == Schedule(k)
                        near == (today - HorizonDays)..(today + LookAhead) IN
                    /\ PayDatesInRange(s, today - HorizonDays, today + LookAhead) = {d \in near : Occurs(s, d)}
                    /\ \A d \in (today - HorizonDays)..(today + HorizonDays) : OccursOn(s, d) <=> Occurs(s, d)
  BY DEF OccurrencesAgree
<1> DEFINE s == Schedule(k)
<1>1. s \in ScheduleType
  BY TemplateFacts DEF ProjectionsInv
<1>2. Reaches(s, today + HorizonDays) /\ Reaches(s, today + LookAhead)
  BY ReachedToday DEF Reached, Schedule
<1>3. today \in Int /\ HorizonDays \in Int /\ LookAhead \in Int
  BY ProjectionsAssumption DEF ProjectionsInv, ProjectionsTyped
<1> HIDE DEF s
<1>4. PayDatesInRange(s, today - HorizonDays, today + LookAhead)
        = {d \in (today - HorizonDays)..(today + LookAhead) : Occurs(s, d)}
  BY <1>1, <1>2, <1>3, PayDatesAreOccurrences
<1>5. ASSUME NEW d \in (today - HorizonDays)..(today + HorizonDays) PROVE OccursOn(s, d) <=> Occurs(s, d)
  <2>1. d \in Int /\ d <= today + HorizonDays
    BY <1>3
  <2>2. Reaches(s, d)
    BY <1>1, <1>2, <1>3, <2>1, ReachesLess
  <2> QED
    BY <1>1, <2>1, <2>2, OccursOnAgrees
<1> QED
  BY <1>4, <1>5 DEF s

(* What a projection takes for an occurrence is one, around today and for      *)
(* every template, whatever ends and deletions it has seen (get_pay_dates_in_   *)
(* range and occurs_on).  Of the calendar it assumes ProjectionsReach.          *)
THEOREM TemplatesOccur == Spec => []OccurrencesAgree
BY ProjectionsInvariant, InvOccurrencesAgree, PTL

-----------------------------------------------------------------------------
(* Lists of periods: which period holds a day, and when two lists are one.     *)

Periods == [pay : Int, start : Int, end : Int]

LEMMA PayPeriodIs ==
    ASSUME NEW s \in ScheduleType, NEW p, PayPeriod(s, p)
    PROVE  /\ p \in Periods /\ p.pay = p.end /\ p.start < p.end
           /\ {d \in p.start..p.end : OnGrid(s, d)} = {p.end}
<1> DEFINE q == PeriodForPayDate(s, p.pay)
<1>1. /\ q.pay = p.pay /\ q.end = p.pay /\ q.start \in Int /\ p.pay - q.start >= 5
      /\ {d \in q.start..q.end : OnGrid(s, d)} = {p.pay}
  BY PeriodHolds DEF PayPeriod
<1>2. p.pay \in Int /\ p = q
  <2>1. \A d \in Dates : d \in Int
    BY DateFacts
  <2> QED
    BY <2>1 DEF PayPeriod
<1>3. q = [pay |-> q.pay, start |-> q.start, end |-> q.end]
  BY DEF PeriodForPayDate
<1> HIDE DEF q
<1> QED
  BY <1>1, <1>2, <1>3 DEF Periods

(* A day is in one period. *)
LEMMA OnePeriod ==
    ASSUME NEW s \in ScheduleType, NEW p, NEW q, PayPeriod(s, p), PayPeriod(s, q),
           NEW d \in Int, InPeriod(p, d), InPeriod(q, d)
    PROVE  p = q
<1>1. /\ p \in Periods /\ p.pay = p.end /\ {c \in p.start..p.end : OnGrid(s, c)} = {p.end}
      /\ q \in Periods /\ q.pay = q.end /\ {c \in q.start..q.end : OnGrid(s, c)} = {q.end}
  BY PayPeriodIs
<1>2. p.start \in Int /\ p.end \in Int /\ q.start \in Int /\ q.end \in Int
  BY <1>1 DEF Periods
<1>3. p.start <= d /\ d <= p.end /\ q.start <= d /\ d <= q.end
  BY DEF InPeriod
<1>4. OnGrid(s, p.end) /\ OnGrid(s, q.end)
  BY <1>1
<1>5. CASE p.end <= q.end
  <2>1. p.end \in q.start..q.end
    BY <1>2, <1>3, <1>5
  <2>2. p.end = q.end
    BY <1>1, <1>4, <2>1
  <2> QED
    BY <1>1, <2>2 DEF PayPeriod
<1>6. CASE q.end <= p.end
  <2>1. q.end \in p.start..p.end
    BY <1>2, <1>3, <1>6
  <2>2. p.end = q.end
    BY <1>1, <1>4, <2>1
  <2> QED
    BY <1>1, <2>2 DEF PayPeriod
<1> QED
  BY <1>2, <1>5, <1>6

Cut(s, ps) == ps \in Seq(Periods) /\ Tile(s, ps) /\ \A i \in DOMAIN ps : PayPeriod(s, ps[i])

LEMMA CutFacts ==
    ASSUME NEW s \in ScheduleType, NEW ps, Cut(s, ps)
    PROVE  /\ Len(ps) \in Nat /\ DOMAIN ps = 1..Len(ps) /\ (ps = <<>> <=> Len(ps) = 0)
           /\ \A i \in DOMAIN ps : /\ i \in Nat /\ ps[i] \in Periods /\ PayPeriod(s, ps[i])
                                   /\ ps[i].start \in Int /\ ps[i].end \in Int /\ ps[i].start < ps[i].end
           /\ \A i \in DOMAIN ps : i > 1 => i - 1 \in DOMAIN ps /\ ps[i].start = ps[i - 1].end + 1
<1>1. Len(ps) \in Nat /\ DOMAIN ps = 1..Len(ps) /\ (ps = <<>> <=> Len(ps) = 0)
  BY DEF Cut
<1>2. ASSUME NEW i \in DOMAIN ps
      PROVE  /\ i \in Nat /\ ps[i] \in Periods /\ PayPeriod(s, ps[i])
             /\ ps[i].start \in Int /\ ps[i].end \in Int /\ ps[i].start < ps[i].end
  <2>1. PayPeriod(s, ps[i])
    BY DEF Cut
  <2>2. ps[i] \in Periods /\ ps[i].start < ps[i].end
    BY <2>1, PayPeriodIs
  <2> QED
    BY <1>1, <2>1, <2>2 DEF Periods
<1>3. ASSUME NEW i \in DOMAIN ps, i > 1 PROVE i - 1 \in DOMAIN ps /\ ps[i].start = ps[i - 1].end + 1
  <2>1. ps[i].start = ps[i - 1].end + 1
    BY <1>3 DEF Cut, Tile
  <2> QED
    BY <1>1, <1>3, <2>1
<1> QED
  BY <1>1, <1>2, <1>3

(* Later periods are later. *)
LEMMA CutIncreases ==
    ASSUME NEW s \in ScheduleType, NEW ps, Cut(s, ps),
           NEW i \in DOMAIN ps, NEW j \in DOMAIN ps, i < j
    PROVE  ps[i].end < ps[j].start
<1> DEFINE Bad == {k \in DOMAIN ps : i < k /\ ~(ps[i].end < ps[k].start)}
<1>0. i \in Nat /\ j \in Nat /\ DOMAIN ps \subseteq Nat
  BY CutFacts
<1> SUFFICES ASSUME Bad # {} PROVE FALSE
  OBVIOUS
<1>1. PICK k \in Bad : \A m \in Bad : k <= m
  <2>1. Bad \in SUBSET Nat
    BY <1>0
  <2> HIDE DEF Bad
  <2> QED
    BY <2>1, Least
<1>2. k \in DOMAIN ps /\ i < k /\ ~(ps[i].end < ps[k].start) /\ k \in Nat
  BY <1>0
<1>3. k > 1 /\ k - 1 \in Nat
  BY <1>0, <1>2, CutFacts
<1>4. k - 1 \in DOMAIN ps /\ ps[k].start = ps[k - 1].end + 1
  BY <1>2, <1>3, CutFacts
<1>5. /\ ps[i].end \in Int /\ ps[k].start \in Int
      /\ ps[k - 1].end \in Int /\ ps[k - 1].start \in Int /\ ps[k - 1].start < ps[k - 1].end
  BY <1>2, <1>4, CutFacts
<1>6. CASE k - 1 = i
  BY <1>2, <1>4, <1>5, <1>6
<1>7. CASE k - 1 # i
  <2>1. i < k - 1 /\ ~(k <= k - 1)
    BY <1>0, <1>2, <1>7
  <2>2. k - 1 \notin Bad
    <3> HIDE DEF Bad
    <3> QED
      BY <1>1, <2>1
  <2>3. ps[i].end < ps[k - 1].start
    BY <1>4, <2>1, <2>2
  <2> QED
    BY <1>2, <1>4, <1>5, <2>3
<1> QED
  BY <1>6, <1>7

(* Every day from the first to the last is in a period. *)
LEMMA CutCovers ==
    ASSUME NEW s \in ScheduleType, NEW ps, Cut(s, ps), ps # <<>>,
           NEW d \in Int, ps[1].start <= d, d <= ps[Len(ps)].end
    PROVE  \E i \in DOMAIN ps : InPeriod(ps[i], d)
<1> DEFINE Reach == {k \in DOMAIN ps : d <= ps[k].end}
<1>0. Len(ps) \in DOMAIN ps /\ DOMAIN ps \subseteq Nat /\ 1 \in DOMAIN ps
  BY CutFacts
<1>1. PICK k \in Reach : \A m \in Reach : k <= m
  <2>1. Reach \in SUBSET Nat /\ Reach # {}
    BY <1>0
  <2> HIDE DEF Reach
  <2> QED
    BY <2>1, Least
<1>2. k \in DOMAIN ps /\ d <= ps[k].end /\ k \in Nat /\ k >= 1
  BY <1>0, CutFacts
<1>3. CASE k = 1
  BY <1>2, <1>3 DEF InPeriod
<1>4. CASE k # 1
  <2>1. k > 1 /\ ~(k <= k - 1)
    BY <1>2, <1>4
  <2>2. k - 1 \in DOMAIN ps /\ ps[k].start = ps[k - 1].end + 1
    BY <1>2, <2>1, CutFacts
  <2>3. k - 1 \notin Reach
    <3> HIDE DEF Reach
    <3> QED
      BY <1>1, <2>1
  <2>4. ps[k - 1].end \in Int /\ ps[k].start \in Int
    BY <1>2, <2>2, CutFacts
  <2>5. ps[k].start <= d
    BY <2>2, <2>3, <2>4
  <2> QED
    BY <1>2, <2>5 DEF InPeriod
<1> QED
  BY <1>3, <1>4

(* Lists that begin and end with the same periods are the same. *)
LEMMA SameCut ==
    ASSUME NEW s \in ScheduleType, NEW ps, NEW qs, Cut(s, ps), Cut(s, qs), ps # <<>>, qs # <<>>,
           ps[1] = qs[1], ps[Len(ps)] = qs[Len(qs)]
    PROVE  ps = qs
<1> DEFINE Bad == {k \in DOMAIN ps \cap DOMAIN qs : ps[k] # qs[k]}
<1>0. /\ DOMAIN ps = 1..Len(ps) /\ DOMAIN qs = 1..Len(qs) /\ Len(ps) \in Nat /\ Len(qs) \in Nat
      /\ Len(ps) \in DOMAIN ps /\ Len(qs) \in DOMAIN qs
      /\ ps \in Seq(Periods) /\ qs \in Seq(Periods)
  BY CutFacts DEF Cut
<1>1. Bad = {}
  <2> SUFFICES ASSUME Bad # {} PROVE FALSE
    OBVIOUS
  <2>1. PICK k \in Bad : \A m \in Bad : k <= m
    <3>1. Bad \in SUBSET Nat
      BY <1>0
    <3> HIDE DEF Bad
    <3> QED
      BY <3>1, Least
  <2>2. k \in DOMAIN ps /\ k \in DOMAIN qs /\ ps[k] # qs[k] /\ k \in Nat /\ k >= 1
    BY <1>0
  <2>3. k > 1 /\ ~(k <= k - 1)
    BY <2>2
  <2>4. /\ k - 1 \in DOMAIN ps /\ ps[k].start = ps[k - 1].end + 1
        /\ k - 1 \in DOMAIN qs /\ qs[k].start = qs[k - 1].end + 1
    BY <2>2, <2>3, CutFacts
  <2>5. ps[k - 1] = qs[k - 1]
    <3>1. k - 1 \notin Bad
      <4> HIDE DEF Bad
      <4> QED
        BY <2>1, <2>3
    <3> QED
      BY <2>4, <3>1
  <2>6. /\ PayPeriod(s, ps[k]) /\ ps[k].start \in Int /\ ps[k].start < ps[k].end /\ ps[k].end \in Int
        /\ PayPeriod(s, qs[k]) /\ qs[k].start \in Int /\ qs[k].start < qs[k].end /\ qs[k].end \in Int
    BY <2>2, CutFacts
  <2>7. ps[k].start = qs[k].start
    BY <2>4, <2>5
  <2>8. InPeriod(ps[k], ps[k].start) /\ InPeriod(qs[k], ps[k].start)
    BY <2>6, <2>7 DEF InPeriod
  <2> QED
    BY <2>2, <2>6, <2>8, OnePeriod
<1>2. ASSUME Len(ps) < Len(qs) PROVE FALSE
  <2>1. Len(ps) \in DOMAIN qs
    BY <1>0, <1>2
  <2>2. qs[Len(ps)] = qs[Len(qs)]
    BY <1>0, <1>1, <2>1
  <2>3. qs[Len(ps)].end < qs[Len(qs)].start
    BY <1>0, <1>2, <2>1, CutIncreases
  <2>4. qs[Len(qs)].start < qs[Len(qs)].end /\ qs[Len(qs)].start \in Int /\ qs[Len(qs)].end \in Int
    BY <1>0, CutFacts
  <2> QED
    BY <2>2, <2>3, <2>4
<1>3. ASSUME Len(qs) < Len(ps) PROVE FALSE
  <2>1. Len(qs) \in DOMAIN ps
    BY <1>0, <1>3
  <2>2. ps[Len(qs)] = ps[Len(ps)]
    BY <1>0, <1>1, <2>1
  <2>3. ps[Len(qs)].end < ps[Len(ps)].start
    BY <1>0, <1>3, <2>1, CutIncreases
  <2>4. ps[Len(ps)].start < ps[Len(ps)].end /\ ps[Len(ps)].start \in Int /\ ps[Len(ps)].end \in Int
    BY <1>0, CutFacts
  <2> QED
    BY <2>2, <2>3, <2>4
<1>4. Len(ps) = Len(qs)
  <2> DEFINE m == Len(ps)
             n == Len(qs)
  <2>1. m \in Nat /\ n \in Nat /\ ~(m < n) /\ ~(n < m)
    BY <1>0, <1>2, <1>3
  <2> HIDE DEF m, n
  <2>2. m = n
    BY <2>1
  <2> QED
    BY <2>2 DEF m, n
<1>5. \A k \in 1..Len(ps) : ps[k] = qs[k]
  BY <1>0, <1>1, <1>4
<1>6. ps = [k \in 1..Len(ps) |-> ps[k]] /\ qs = [k \in 1..Len(qs) |-> qs[k]]
  <2>1. ps \in [1..Len(ps) -> Periods] /\ qs \in [1..Len(qs) -> Periods]
    BY <1>0
  <2> QED
    BY <2>1
<1> QED
  BY <1>4, <1>5, <1>6

-----------------------------------------------------------------------------
(* The periods of a projection. *)

PayDays == Schedule("income")
ProjectionStart == IF range.start = NoDate THEN today ELSE range.start
ProjectionEnd == IF range.end = NoDate THEN AddMonths(today, 12) ELSE range.end
Projected == ProjectionPeriods(PayDays, today, range.start, range.end)
FirstDay == PeriodContaining(PayDays, LeastOf(ProjectionStart, today)).start
LastPeriod == PeriodContaining(PayDays, ProjectionEnd)

LEMMA RangeFacts ==
    ASSUME ProjectionsInv
    PROVE  /\ PayDays \in ScheduleType
           /\ today \in Dates /\ ProjectionStart \in Dates /\ ProjectionEnd \in Dates
           /\ LeastOf(ProjectionStart, today) \in Dates /\ FirstDay \in Dates
           /\ LastPeriod.end \in Dates /\ LastPeriod.end \in Int /\ ProjectionEnd <= LastPeriod.end
           /\ LeastOf(ProjectionStart, today) <= LastPeriod.end
           /\ Reaches(PayDays, LastPeriod.end + 744)
           /\ ReachesBack(PayDays, LeastOf(ProjectionStart, today)) /\ ReachesBack(PayDays, FirstDay)
           /\ 6 * LeastOf(MaxPeriods, MaxOverlapping) > LastPeriod.end - FirstDay
<1>1. Reached(template, range.start, range.end, today)
  BY ReachedToday
<1>2. /\ ReachesBack(PayDays, LeastOf(ProjectionStart, today)) /\ ReachesBack(PayDays, FirstDay)
      /\ FirstDay \in Dates /\ ProjectionEnd \in Dates /\ ProjectionEnd <= LastPeriod.end
      /\ LeastOf(ProjectionStart, today) <= LastPeriod.end
      /\ Reaches(PayDays, LastPeriod.end + 744)
      /\ 6 * LeastOf(MaxPeriods, MaxOverlapping) > LastPeriod.end - FirstDay
  BY <1>1 DEF Reached, PayDays, Schedule, ProjectionStart, ProjectionEnd, FirstDay, LastPeriod
<1>3. PayDays \in ScheduleType
  BY TemplateFacts DEF ProjectionsInv, PayDays, Templates
<1>4. today \in Dates
  <2>1. today - 1 \in Dates /\ today + 1 \in Dates
    BY <1>1 DEF Reached
  <2>2. today \in Int
    BY DEF ProjectionsInv, ProjectionsTyped
  <2>3. \A d \in Int : d \in Dates <=> MonthStart[0] <= d /\ d < MonthStart[LastMonth]
    BY DateFacts
  <2>4. MonthStart[0] \in Nat /\ MonthStart[LastMonth] \in Nat
    BY DateFacts
  <2> QED
    BY <2>1, <2>2, <2>3, <2>4
<1>5. ProjectionStart \in Dates
  BY <1>4 DEF ProjectionStart, ProjectionsInv, ProjectionsTyped
<1>6. LeastOf(ProjectionStart, today) \in Dates
  BY <1>4, <1>5 DEF LeastOf
<1>7. LastPeriod.end \in Dates /\ LastPeriod.end \in Int
  <2>1. LastPeriod.end \in Dates
    BY <1>1 DEF Reached, PayDays, Schedule, ProjectionEnd, LastPeriod
  <2>2. \A d \in Dates : d \in Int
    BY DateFacts
  <2> QED
    BY <2>1, <2>2
<1> QED
  BY <1>2, <1>3, <1>4, <1>5, <1>6, <1>7

LEMMA ReachesBackLater ==
    ASSUME NEW s \in ScheduleType, NEW d \in Dates, NEW e \in Dates, d <= e, ReachesBack(s, d)
    PROVE  ReachesBack(s, e)
<1>1. MonthOf[d] <= MonthOf[e] /\ MonthOf[d] \in Nat /\ MonthOf[e] \in Nat
  BY MonthBefore, MonthOfIs, MonthFacts
<1>2. MonthsApart(s) \in Nat
  BY DEF MonthsApart
<1> QED
  BY <1>1, <1>2 DEF ReachesBack

(* The period that holds a day, looked up, is one of the grid.                 *)
LEMMA ContainingIs ==
    ASSUME NEW s \in ScheduleType, NEW reach \in Int, Reaches(s, reach),
           NEW from \in Dates, from <= reach, ReachesBack(s, from)
    PROVE  PayPeriod(s, PeriodContaining(s, from)) /\ InPeriod(PeriodContaining(s, from), from)
<1>1. /\ NextPayDate(s, from) \in Dates /\ NextPayDate(s, from) \in Grid(s)
      /\ ReachesBack(s, NextPayDate(s, from))
      /\ InPeriod(PeriodForPayDate(s, NextPayDate(s, from)), from)
  BY PeriodContains
<1>2. PeriodContaining(s, from).pay = NextPayDate(s, from)
  BY DEF PeriodContaining, PeriodForPayDate
<1> QED
  BY <1>1, <1>2 DEF PeriodContaining, PayPeriod

(* Of two periods, the one that holds an earlier day begins and ends no later.  *)
LEMMA PeriodsOrder ==
    ASSUME NEW s \in ScheduleType, NEW p, NEW q, PayPeriod(s, p), PayPeriod(s, q),
           NEW d \in Int, NEW e \in Int, InPeriod(p, d), InPeriod(q, e), d <= e
    PROVE  p.start <= q.start /\ p.end <= q.end
<1>1. /\ p.start \in Int /\ p.end \in Int /\ q.start \in Int /\ q.end \in Int
      /\ p.start < p.end /\ q.start < q.end
  BY PayPeriodIs DEF Periods
<1>2. p.start <= d /\ d <= p.end /\ q.start <= e /\ e <= q.end
  BY DEF InPeriod
<1>3. CASE p = q
  BY <1>1, <1>3
<1>4. CASE p # q
  <2>1. ~InPeriod(q, d) /\ ~InPeriod(p, e)
    BY <1>4, OnePeriod
  <2>2. d < q.start /\ p.end < e
    BY <1>1, <1>2, <2>1 DEF InPeriod
  <2>3. ~InPeriod(p, q.start)
    <3>1. InPeriod(q, q.start)
      BY <1>1 DEF InPeriod
    <3> QED
      BY <1>1, <1>4, <3>1, OnePeriod
  <2>4. p.end < q.start
    BY <1>1, <1>2, <2>2, <2>3 DEF InPeriod
  <2> QED
    BY <1>1, <2>4
<1> QED
  BY <1>3, <1>4

LEMMA ProjectedFacts ==
    ASSUME ProjectionsInv
    PROVE  /\ Cut(PayDays, Projected)
           /\ \A i \in DOMAIN Projected : Overlaps(PayDays, ProjectionStart, ProjectionEnd, Projected[i])
           /\ Projected # <<>> => InPeriod(Projected[1], ProjectionStart)
           /\ ProjectionEnd >= ProjectionStart
                 => Projected # <<>> /\ InPeriod(Projected[Len(Projected)], ProjectionEnd)
<1> DEFINE s == PayDays
           from == LeastOf(ProjectionStart, today)
           reach == LastPeriod.end + 744
<1>1. /\ s \in ScheduleType /\ today \in Dates /\ ProjectionStart \in Dates /\ ProjectionEnd \in Dates
      /\ LastPeriod.end \in Int /\ ProjectionEnd <= LastPeriod.end /\ from \in Dates
      /\ from <= LastPeriod.end /\ Reaches(s, reach) /\ ReachesBack(s, from)
      /\ FirstDay \in Dates
      /\ 6 * LeastOf(MaxPeriods, MaxOverlapping) > LastPeriod.end - FirstDay
  BY RangeFacts
<1>3. reach \in Int /\ ProjectionEnd + 744 <= reach /\ from <= reach
  <2>1. ProjectionEnd \in Int /\ from \in Int
    <3>1. \A d \in Dates : d \in Int
      BY DateFacts
    <3> QED
      BY <1>1, <3>1
  <2> HIDE DEF from
  <2> QED
    BY <1>1, <2>1
<1>5. 6 * MaxPeriods > ProjectionEnd - FirstDay
  <2>1. \A d \in Dates : d \in Int
    BY DateFacts
  <2>2. ProjectionEnd \in Int /\ FirstDay \in Int
    BY <1>1, <2>1
  <2>3. MaxPeriods \in Nat /\ MaxOverlapping \in Nat
    BY BoundsAssumption
  <2> QED
    BY <1>1, <2>2, <2>3 DEF LeastOf
<1>6. Projected = PeriodsFrom(s, NextPayDate(s, from), ProjectionStart, ProjectionEnd, MaxPeriods)
  BY DEF Projected, ProjectionPeriods, ProjectionStart, ProjectionEnd
<1>7. FirstDay = PeriodContaining(s, from).start
  BY DEF FirstDay
<1>8. from <= ProjectionStart
  <2>1. \A d \in Dates : d \in Int
    BY DateFacts
  <2> QED
    BY <1>1, <2>1 DEF LeastOf
<1> HIDE DEF s, reach, from
<1>9. /\ Projected \in Seq(Periods) /\ Tile(s, Projected)
      /\ \A i \in DOMAIN Projected : Overlaps(s, ProjectionStart, ProjectionEnd, Projected[i])
      /\ Projected # <<>> => InPeriod(Projected[1], ProjectionStart)
      /\ ProjectionEnd >= ProjectionStart /\ 6 * MaxPeriods > ProjectionEnd - FirstDay
            => Projected # <<>> /\ InPeriod(Projected[Len(Projected)], ProjectionEnd)
  BY <1>1, <1>3, <1>6, <1>7, <1>8, BoundsAssumption, PeriodsListed DEF Periods
<1> QED
  BY <1>5, <1>9 DEF Cut, Overlaps, s

LEMMA InvPeriodsTile == ProjectionsInv => PeriodsTile
<1> SUFFICES ASSUME ProjectionsInv PROVE PeriodsTile
  OBVIOUS
<1> DEFINE s == PayDays
           ps == Projected
           a == ps[1].start
           b == ps[Len(ps)].end
           qs == PayPeriodsOverlapping(s, a, b)
           from == LeastOf(ProjectionStart, today)
<1>1. /\ Cut(s, ps)
      /\ \A i \in DOMAIN ps : Overlaps(s, ProjectionStart, ProjectionEnd, ps[i])
      /\ ps # <<>> => InPeriod(ps[1], ProjectionStart)
      /\ ProjectionEnd >= ProjectionStart => ps # <<>> /\ InPeriod(ps[Len(ps)], ProjectionEnd)
  BY ProjectedFacts
<1>2. /\ s \in ScheduleType /\ ProjectionStart \in Dates /\ ProjectionEnd \in Dates /\ today \in Dates
      /\ from \in Dates /\ FirstDay \in Dates
      /\ LastPeriod.end \in Dates /\ LastPeriod.end \in Int /\ ProjectionEnd <= LastPeriod.end
      /\ from <= LastPeriod.end
      /\ Reaches(s, LastPeriod.end + 744)
      /\ ReachesBack(s, from) /\ ReachesBack(s, FirstDay)
      /\ 6 * LeastOf(MaxPeriods, MaxOverlapping) > LastPeriod.end - FirstDay
  BY RangeFacts
<1>3. \A d \in Dates : d \in Int
  BY DateFacts
<1>4. ASSUME ps # <<>> PROVE qs = ps
  <2> DEFINE lp == PeriodContaining(s, from)
  <2>0. Len(ps) \in Nat /\ Len(ps) # 0
    BY <1>1, <1>2, <1>4, CutFacts
  <2>1. /\ 1 \in DOMAIN ps /\ Len(ps) \in DOMAIN ps
        /\ a \in Int /\ ps[1].end \in Int /\ a < ps[1].end
        /\ b \in Int /\ ps[Len(ps)].start \in Int /\ ps[Len(ps)].start < b
        /\ PayPeriod(s, ps[1]) /\ PayPeriod(s, ps[Len(ps)])
    BY <1>1, <1>2, <1>4, CutFacts
  <2>2. FirstDay <= a /\ FirstDay = lp.start
    <3>1. PayPeriod(s, lp) /\ InPeriod(lp, from)
      <4>1. from <= LastPeriod.end + 744 /\ LastPeriod.end + 744 \in Int
        <5>1. from \in Int
          BY <1>2, <1>3
        <5> HIDE DEF from
        <5> QED
          BY <1>2, <5>1
      <4> QED
        BY <1>2, <4>1, ContainingIs
    <3>2. from \in Int /\ ProjectionStart \in Int /\ from <= ProjectionStart
      BY <1>2, <1>3 DEF LeastOf
    <3>3. lp.start <= a
      <4>1. InPeriod(ps[1], ProjectionStart)
        BY <1>1, <1>4
      <4> HIDE DEF from, lp
      <4> QED
        BY <1>2, <2>1, <3>1, <3>2, <4>1, PeriodsOrder
    <3>4. FirstDay = lp.start
      BY DEF FirstDay
    <3> QED
      BY <3>3, <3>4
  <2>3. b <= LastPeriod.end
    <3>1. PayPeriod(s, LastPeriod) /\ InPeriod(LastPeriod, ProjectionEnd)
      <4>1. ReachesBack(s, ProjectionEnd)
        <5>1. \/ ReachesBack(s, ProjectionEnd)
              \/ ps # <<>> /\ ps[Len(ps)].start <= ProjectionEnd
          BY <1>1, <1>4, <2>1 DEF Overlaps
        <5>2. a <= ps[Len(ps)].start
          <6>1. CASE Len(ps) = 1
            <7>1. ps[Len(ps)] = ps[1]
              BY <6>1
            <7>2. a = ps[Len(ps)].start
              BY <7>1
            <7> QED
              BY <2>1, <7>2
          <6>2. CASE Len(ps) # 1
            <7>1. 1 < Len(ps)
              BY <2>0, <6>2
            <7>2. ps[1].end < ps[Len(ps)].start
              BY <1>1, <1>2, <2>1, <7>1, CutIncreases
            <7> QED
              BY <2>1, <7>2
          <6> QED
            BY <6>1, <6>2
        <5>3. FirstDay \in Int /\ ProjectionEnd \in Int
          BY <1>2, <1>3
        <5>4. FirstDay <= ProjectionEnd \/ ReachesBack(s, ProjectionEnd)
          BY <2>1, <2>2, <5>1, <5>2, <5>3
        <5> QED
          BY <1>2, <5>4, ReachesBackLater
      <4>2. ProjectionEnd <= LastPeriod.end + 744 /\ LastPeriod.end + 744 \in Int
        <5>1. ProjectionEnd \in Int
          BY <1>2, <1>3
        <5> QED
          BY <1>2, <5>1
      <4>3. LastPeriod = PeriodContaining(s, ProjectionEnd)
        BY DEF LastPeriod
      <4> QED
        BY <1>2, <4>1, <4>2, <4>3, ContainingIs
    <3>2. ps[Len(ps)].start <= ProjectionEnd /\ InPeriod(ps[Len(ps)], ps[Len(ps)].start)
      BY <1>1, <2>1 DEF Overlaps, InPeriod
    <3>3. ProjectionEnd \in Int
      BY <1>2, <1>3
    <3> DEFINE q == ps[Len(ps)]
    <3>4. q.start \in Int /\ PayPeriod(s, q) /\ InPeriod(q, q.start) /\ q.start <= ProjectionEnd
      BY <2>1, <3>2
    <3> HIDE DEF q
    <3>5. q.end <= LastPeriod.end
      BY <1>2, <3>1, <3>3, <3>4, PeriodsOrder
    <3> QED
      BY <3>5 DEF q
  <2>4. b \in Dates /\ ps[1].end <= b
    <3>1. b \in Dates
      <4>1. ps[Len(ps)].pay = b
        BY <1>2, <2>1, PayPeriodIs
      <4> QED
        BY <2>1, <4>1 DEF PayPeriod
    <3>2. CASE Len(ps) = 1
      <4>1. ps[Len(ps)] = ps[1]
        BY <3>2
      <4>2. ps[1].end = b
        BY <4>1
      <4> QED
        BY <2>1, <3>1, <4>2
    <3>3. CASE Len(ps) # 1
      <4>1. 1 < Len(ps)
        BY <2>0, <3>3
      <4>2. ps[1].end < ps[Len(ps)].start
        BY <1>1, <1>2, <2>1, <4>1, CutIncreases
      <4> QED
        BY <2>1, <3>1, <4>2
    <3> QED
      BY <3>2, <3>3
  <2>5. a \in Dates /\ a <= b
    <3>1. FirstDay \in Int
      BY <1>2, <1>3
    <3>2. a <= b /\ FirstDay <= a
      BY <2>1, <2>2, <2>4
    <3>3. /\ MonthStart[0] \in Nat /\ MonthStart[LastMonth] \in Nat
          /\ \A date \in Int : date \in Dates <=> MonthStart[0] <= date /\ date < MonthStart[LastMonth]
      BY DateFacts
    <3>4. MonthStart[0] <= a /\ a < MonthStart[LastMonth]
      <4>1. MonthStart[0] <= FirstDay /\ b < MonthStart[LastMonth]
        BY <1>2, <2>1, <2>4, <3>1, <3>3
      <4> HIDE DEF a, b
      <4> QED
        BY <2>1, <3>1, <3>2, <3>3, <4>1
    <3> QED
      BY <2>1, <3>2, <3>3, <3>4
  <2>6. ReachesBack(s, a)
    BY <1>2, <2>2, <2>5, ReachesBackLater
  <2>7. PeriodContaining(s, a) = ps[1]
    <3>1. a <= LastPeriod.end + 744 /\ LastPeriod.end + 744 \in Int
      BY <1>2, <2>1, <2>3, <2>5
    <3>2. PayPeriod(s, PeriodContaining(s, a)) /\ InPeriod(PeriodContaining(s, a), a)
      BY <1>2, <2>5, <2>6, <3>1, ContainingIs
    <3>3. InPeriod(ps[1], a)
      BY <2>1 DEF InPeriod
    <3> QED
      BY <1>2, <2>1, <3>2, <3>3, OnePeriod
  <2>8. /\ qs \in Seq(Periods) /\ Tile(s, qs)
        /\ \A i \in DOMAIN qs : Overlaps(s, a, b, qs[i])
        /\ qs # <<>> => InPeriod(qs[1], a)
        /\ qs # <<>> /\ InPeriod(qs[Len(qs)], b)
    <3> DEFINE reach == LastPeriod.end + 744
    <3>1. reach \in Int /\ b + 744 <= reach /\ Reaches(s, reach)
      BY <1>2, <2>1, <2>3
    <3>2. 6 * MaxOverlapping > b - PeriodContaining(s, a).start
      <4>1. FirstDay \in Int /\ PeriodContaining(s, a).start = a
        BY <1>2, <1>3, <2>7
      <4>2. MaxPeriods \in Nat /\ MaxOverlapping \in Nat
        BY BoundsAssumption
      <4>3. LeastOf(MaxPeriods, MaxOverlapping) <= MaxOverlapping /\ LeastOf(MaxPeriods, MaxOverlapping) \in Nat
        BY <4>2 DEF LeastOf
      <4> DEFINE m == LeastOf(MaxPeriods, MaxOverlapping)
                 l == LastPeriod.end
      <4>4. /\ m \in Nat /\ m <= MaxOverlapping /\ l \in Int /\ 6 * m > l - FirstDay
            /\ FirstDay <= a /\ b <= l /\ a \in Int /\ b \in Int
        BY <1>2, <2>1, <2>2, <2>3, <4>3
      <4> HIDE DEF a, b, m, l
      <4>5. 6 * MaxOverlapping > b - a
        BY <4>1, <4>2, <4>4
      <4> QED
        BY <4>1, <4>5
    <3> HIDE DEF reach, a, b, s
    <3> QED
      BY <1>2, <2>5, <2>4, <2>6, <3>1, <3>2, OverlappingPeriodsTile DEF Periods
  <2>9. Cut(s, qs)
    BY <2>8 DEF Cut, Overlaps
  <2>10. 1 \in DOMAIN qs /\ Len(qs) \in DOMAIN qs /\ PayPeriod(s, qs[1]) /\ PayPeriod(s, qs[Len(qs)])
    BY <1>2, <2>8, <2>9, CutFacts
  <2>11. qs[1] = ps[1]
    <3>1. InPeriod(ps[1], a)
      BY <2>1 DEF InPeriod
    <3> HIDE DEF qs, a
    <3> QED
      BY <1>2, <2>1, <2>8, <2>10, <3>1, OnePeriod
  <2>12. qs[Len(qs)] = ps[Len(ps)]
    <3>1. InPeriod(ps[Len(ps)], b)
      BY <2>1 DEF InPeriod
    <3> HIDE DEF qs, b
    <3> QED
      BY <1>2, <2>1, <2>8, <2>10, <3>1, OnePeriod
  <2> QED
    BY <1>1, <1>2, <1>4, <2>8, <2>9, <2>11, <2>12, SameCut
<1>5. range.end # NoDate /\ range.end >= ProjectionStart => InPeriod(Last(ps), range.end)
  <2>1. range.end # NoDate => ProjectionEnd = range.end
    BY DEF ProjectionEnd
  <2> QED
    BY <1>1, <2>1 DEF Last
<1>6. ps # <<>> => InPeriod(Head(ps), ProjectionStart) /\ Head(ps) = ps[1] /\ Last(ps) = ps[Len(ps)]
  BY <1>1 DEF Last
<1>7. Tile(s, ps)
  BY <1>1 DEF Cut
<1>8. ps # <<>> => PayPeriodsOverlapping(s, Head(ps).start, Last(ps).end) = ps
  BY <1>4, <1>6
<1> QED
  BY <1>5, <1>6, <1>7, <1>8 DEF PeriodsTile, ProjectionStart, Projected, PayDays

(* The periods of a projection tile the days from its start to its horizon,    *)
(* and are those found by looking up its range (get_projection_periods and     *)
(* get_pay_periods_overlapping_range), on every day and for every schedule the *)
(* calendar reaches.                                                        *)
THEOREM PeriodsOfProjectionTile == Spec => []PeriodsTile
BY ProjectionsInvariant, InvPeriodsTile, PTL

-----------------------------------------------------------------------------
(* Sums of the amounts of items.  MapThenSumSet is a fold that takes the       *)
(* elements of a set in the order CHOOSE gives them: it exists for every        *)
(* finite set, and any element may be taken first.                            *)

Chosen(S) == CHOOSE c \in S : TRUE
Folds(f, S, w) ==
    f = [s \in SUBSET S |-> IF s = {} THEN 0 ELSE w[Chosen(s)] + f[s \ {Chosen(s)}]]

(* The sum of the weights of a set. *)
SumOf(w, S) == (CHOOSE f : Folds(f, S, w))[S]

(* Every set of finite sets has one without a proper subset in it. *)
LEMMA Smallest ==
    ASSUME NEW S, NEW T \in SUBSET FiniteSubsetsOf(S), T # {}
    PROVE  \E s \in T : \A t \in T : ~(t \subseteq s /\ t # s)
<1> DEFINE R == StrictSubsetOrdering(S)
           F == FiniteSubsetsOf(S)
<1>1. IsWellFoundedOn(R, F)
  BY FS_StrictSubsetOrderingWellFounded
<1>2. \A s, t \in F : t \subseteq s /\ t # s => <<t, s>> \in R
  BY DEF StrictSubsetOrdering, FiniteSubsetsOf
<1> HIDE DEF R, F
<1>3. PICK s \in T : \A t \in T : ~(<<t, s>> \in R)
  <2>1. T \in SUBSET F
    BY DEF F
  <2> QED
    BY <1>1, <2>1, WFMin
<1>4. \A t \in T : t \in F
  BY DEF F
<1> QED
  BY <1>2, <1>3, <1>4

LEMMA SubsetsFinite ==
    ASSUME NEW S, IsFiniteSet(S), NEW s \in SUBSET S
    PROVE  /\ IsFiniteSet(s) /\ s \in FiniteSubsetsOf(S)
           /\ s # {} => /\ Chosen(s) \in s /\ s \ {Chosen(s)} \in SUBSET S
                        /\ s \ {Chosen(s)} \subseteq s /\ s \ {Chosen(s)} # s
<1>1. IsFiniteSet(s)
  BY FS_Subset
<1>2. s # {} => Chosen(s) \in s
  BY DEF Chosen
<1> QED
  BY <1>1, <1>2 DEF FiniteSubsetsOf

LEMMA FoldUnique ==
    ASSUME NEW S, IsFiniteSet(S), NEW w, NEW T, NEW f, Folds(f, S, w), NEW g, Folds(g, T, w),
           NEW u \in SUBSET S, u \subseteq T
    PROVE  f[u] = g[u]
<1> DEFINE Bad == {s \in SUBSET S : s \subseteq T /\ f[s] # g[s]}
<1> SUFFICES ASSUME Bad # {} PROVE FALSE
  OBVIOUS
<1>1. Bad \in SUBSET FiniteSubsetsOf(S)
  BY SubsetsFinite
<1>2. PICK s \in Bad : \A t \in Bad : ~(t \subseteq s /\ t # s)
  <2> HIDE DEF Bad
  <2> QED
    BY <1>1, Smallest
<1>3. f[s] = IF s = {} THEN 0 ELSE w[Chosen(s)] + f[s \ {Chosen(s)}]
  BY <1>2 DEF Folds
<1>4. g[s] = IF s = {} THEN 0 ELSE w[Chosen(s)] + g[s \ {Chosen(s)}]
  BY <1>2 DEF Folds
<1>5. ASSUME s # {} PROVE f[s \ {Chosen(s)}] = g[s \ {Chosen(s)}]
  <2>1. s \ {Chosen(s)} \in SUBSET S /\ s \ {Chosen(s)} \subseteq s /\ s \ {Chosen(s)} # s
    BY <1>2, <1>5, SubsetsFinite
  <2>2. s \ {Chosen(s)} \notin Bad
    BY <1>2, <2>1
  <2> QED
    BY <1>2, <2>1, <2>2
<1> QED
  BY <1>2, <1>3, <1>4, <1>5

LEMMA FoldExists ==
    ASSUME NEW S, IsFiniteSet(S), NEW w
    PROVE  \E f : Folds(f, S, w)
<1> DEFINE Bad == {s \in SUBSET S : ~\E f : Folds(f, s, w)}
<1> SUFFICES ASSUME Bad # {} PROVE FALSE
  OBVIOUS
<1>1. Bad \in SUBSET FiniteSubsetsOf(S)
  BY SubsetsFinite
<1>2. PICK s \in Bad : \A t \in Bad : ~(t \subseteq s /\ t # s)
  <2> HIDE DEF Bad
  <2> QED
    BY <1>1, Smallest
<1> DEFINE Fold(t) == CHOOSE f : Folds(f, t, w)
           G(t) == Fold(t)[t]
           h == [t \in SUBSET s |-> IF t = {} THEN 0 ELSE w[Chosen(t)] + G(t \ {Chosen(t)})]
<1>3. \A t \in SUBSET s : t # s => Folds(Fold(t), t, w)
  <2> TAKE t \in SUBSET s
  <2> HAVE t # s
  <2>1. \E f : Folds(f, t, w)
    BY <1>2
  <2> QED
    BY <2>1
<1>4. \A t \in SUBSET s : IsFiniteSet(t)
  BY <1>2, SubsetsFinite
<1>5. ASSUME NEW u \in SUBSET s, u # s
      PROVE  G(u) = h[u]
  <2>1. Folds(Fold(u), u, w)
    BY <1>3, <1>5
  <2>2. G(u) = IF u = {} THEN 0 ELSE w[Chosen(u)] + Fold(u)[u \ {Chosen(u)}]
    <3> HIDE DEF Fold
    <3> QED
      BY <2>1 DEF Folds
  <2>3. ASSUME u # {} PROVE Fold(u)[u \ {Chosen(u)}] = G(u \ {Chosen(u)})
    <3>1. u \ {Chosen(u)} \in SUBSET u /\ u \ {Chosen(u)} \in SUBSET s /\ u \ {Chosen(u)} # s
      BY <1>4, <2>3, SubsetsFinite
    <3>2. Folds(Fold(u \ {Chosen(u)}), u \ {Chosen(u)}, w)
      BY <1>3, <3>1
    <3> HIDE DEF Fold
    <3> QED
      BY <1>4, <2>1, <3>1, <3>2, FoldUnique
  <2> HIDE DEF G
  <2> QED
    BY <2>2, <2>3
<1>6. ASSUME NEW t \in SUBSET s, t # {}
      PROVE  G(t \ {Chosen(t)}) = h[t \ {Chosen(t)}]
  <2>1. t \ {Chosen(t)} \in SUBSET s /\ t \ {Chosen(t)} # s
    BY <1>4, <1>6, SubsetsFinite
  <2> HIDE DEF G, h
  <2> QED
    BY <1>5, <2>1
<1>7. h = [t \in SUBSET s |-> IF t = {} THEN 0 ELSE w[Chosen(t)] + h[t \ {Chosen(t)}]]
  <2>1. \A t \in SUBSET s : (IF t = {} THEN 0 ELSE w[Chosen(t)] + G(t \ {Chosen(t)}))
                          = (IF t = {} THEN 0 ELSE w[Chosen(t)] + h[t \ {Chosen(t)}])
    <3> HIDE DEF G, h
    <3> QED
      BY <1>6
  <2> DEFINE H == h
  <2>2. H = [t \in SUBSET s |-> IF t = {} THEN 0 ELSE w[Chosen(t)] + G(t \ {Chosen(t)})]
    OBVIOUS
  <2>3. \A t \in SUBSET s : (IF t = {} THEN 0 ELSE w[Chosen(t)] + G(t \ {Chosen(t)}))
                          = (IF t = {} THEN 0 ELSE w[Chosen(t)] + H[t \ {Chosen(t)}])
    BY <2>1
  <2> HIDE DEF G, H
  <2>4. H = [t \in SUBSET s |-> IF t = {} THEN 0 ELSE w[Chosen(t)] + H[t \ {Chosen(t)}]]
    BY <2>2, <2>3
  <2> QED
    BY <2>4 DEF H
<1>8. Folds(h, s, w)
  <2> HIDE DEF h
  <2> QED
    BY <1>7 DEF Folds
<1> QED
  BY <1>2, <1>8

LEMMA SumStep ==
    ASSUME NEW w, NEW S, IsFiniteSet(S)
    PROVE  SumOf(w, S) = IF S = {} THEN 0 ELSE w[Chosen(S)] + SumOf(w, S \ {Chosen(S)})
<1> DEFINE Fold(T) == CHOOSE f : Folds(f, T, w)
<1>1. \A T : SumOf(w, T) = Fold(T)[T]
  BY DEF SumOf
<1>2. ASSUME NEW T, IsFiniteSet(T) PROVE Folds(Fold(T), T, w)
  BY <1>2, FoldExists
<1> HIDE DEF Fold
<1>3. Fold(S)[S] = IF S = {} THEN 0 ELSE w[Chosen(S)] + Fold(S)[S \ {Chosen(S)}]
  BY <1>2 DEF Folds
<1>4. ASSUME S # {} PROVE Fold(S)[S \ {Chosen(S)}] = Fold(S \ {Chosen(S)})[S \ {Chosen(S)}]
  <2>1. IsFiniteSet(S \ {Chosen(S)})
    BY FS_Subset
  <2> QED
    BY <1>2, <2>1, FoldUnique
<1> QED
  BY <1>1, <1>3, <1>4

LEMMA SumInt ==
    ASSUME NEW w, NEW S, IsFiniteSet(S), \A c \in S : w[c] \in Int
    PROVE  SumOf(w, S) \in Int
<1> DEFINE Bad == {s \in SUBSET S : SumOf(w, s) \notin Int}
<1> SUFFICES ASSUME Bad # {} PROVE FALSE
  OBVIOUS
<1>1. Bad \in SUBSET FiniteSubsetsOf(S)
  BY SubsetsFinite
<1>2. PICK s \in Bad : \A t \in Bad : ~(t \subseteq s /\ t # s)
  <2> HIDE DEF Bad
  <2> QED
    BY <1>1, Smallest
<1>3. s # {} => Chosen(s) \in S /\ s \ {Chosen(s)} \notin Bad /\ s \ {Chosen(s)} \in SUBSET S
  BY <1>2, SubsetsFinite
<1>4. SumOf(w, s) = IF s = {} THEN 0 ELSE w[Chosen(s)] + SumOf(w, s \ {Chosen(s)})
  BY <1>2, SubsetsFinite, SumStep
<1> QED
  BY <1>2, <1>3, <1>4

LEMMA SumTake ==
    ASSUME NEW w, NEW S, IsFiniteSet(S), \A c \in S : w[c] \in Int, NEW c \in S
    PROVE  SumOf(w, S) = w[c] + SumOf(w, S \ {c})
<1> DEFINE Bad == {s \in SUBSET S : \E x \in s : SumOf(w, s) # w[x] + SumOf(w, s \ {x})}
<1> SUFFICES ASSUME Bad # {} PROVE FALSE
  OBVIOUS
<1>1. Bad \in SUBSET FiniteSubsetsOf(S)
  BY SubsetsFinite
<1>2. PICK s \in Bad : \A t \in Bad : ~(t \subseteq s /\ t # s)
  <2> HIDE DEF Bad
  <2> QED
    BY <1>1, Smallest
<1>3. PICK x \in s : SumOf(w, s) # w[x] + SumOf(w, s \ {x})
  BY <1>2
<1> DEFINE y == Chosen(s)
<1>4. y \in s /\ s \ {y} \notin Bad /\ s \ {x} \notin Bad
  <2>1. y \in s
    BY <1>3 DEF Chosen
  <2> HIDE DEF Bad, y
  <2> QED
    BY <1>2, <1>3, <2>1
<1>5. SumOf(w, s) = w[y] + SumOf(w, s \ {y})
  BY <1>2, <1>3, SubsetsFinite, SumStep
<1> HIDE DEF y
<1>6. x # y
  BY <1>3, <1>5
<1>7. SumOf(w, s \ {y}) = w[x] + SumOf(w, (s \ {y}) \ {x})
  BY <1>2, <1>4, <1>6
<1>8. SumOf(w, s \ {x}) = w[y] + SumOf(w, (s \ {x}) \ {y})
  BY <1>2, <1>3, <1>4, <1>6
<1>9. (s \ {y}) \ {x} = (s \ {x}) \ {y}
  OBVIOUS
<1>10. w[x] \in Int /\ w[y] \in Int /\ SumOf(w, (s \ {x}) \ {y}) \in Int
  <2>1. (s \ {x}) \ {y} \in SUBSET S /\ x \in S /\ y \in S
    BY <1>2, <1>4
  <2> QED
    BY <2>1, SubsetsFinite, SumInt
<1> DEFINE t == SumOf(w, (s \ {x}) \ {y})
<1>11. SumOf(w, s \ {y}) = w[x] + t /\ SumOf(w, s \ {x}) = w[y] + t /\ t \in Int
  BY <1>7, <1>8, <1>9, <1>10
<1> HIDE DEF Bad, t
<1>12. w[y] + (w[x] + t) = w[x] + (w[y] + t)
  BY <1>10, <1>11
<1> QED
  BY <1>3, <1>5, <1>11, <1>12

LEMMA FoldIs ==
    ASSUME NEW S, IsFiniteSet(S), NEW w, NEW f, Folds(f, S, w)
    PROVE  f[S] = SumOf(w, S)
<1> DEFINE sum == CHOOSE g : Folds(g, S, w)
<1>1. Folds(sum, S, w)
  BY FoldExists
<1> HIDE DEF sum
<1>2. f[S] = sum[S]
  BY <1>1, FoldUnique
<1> QED
  BY <1>2 DEF SumOf, sum

LEMMA SumEmpty == ASSUME NEW w PROVE SumOf(w, {}) = 0
BY FS_EmptySet, SumStep

LEMMA SumSame ==
    ASSUME NEW S, IsFiniteSet(S), NEW w, NEW v, \A x \in S : w[x] = v[x]
    PROVE  SumOf(w, S) = SumOf(v, S)
<1> DEFINE Bad == {s \in SUBSET S : SumOf(w, s) # SumOf(v, s)}
<1> SUFFICES ASSUME Bad # {} PROVE FALSE
  OBVIOUS
<1>1. Bad \in SUBSET FiniteSubsetsOf(S)
  BY SubsetsFinite
<1>2. PICK s \in Bad : \A t \in Bad : ~(t \subseteq s /\ t # s)
  <2> HIDE DEF Bad
  <2> QED
    BY <1>1, Smallest
<1>3. s # {} => Chosen(s) \in S /\ s \ {Chosen(s)} \notin Bad /\ s \ {Chosen(s)} \in SUBSET S
  BY <1>2, SubsetsFinite
<1>4. /\ SumOf(w, s) = IF s = {} THEN 0 ELSE w[Chosen(s)] + SumOf(w, s \ {Chosen(s)})
      /\ SumOf(v, s) = IF s = {} THEN 0 ELSE v[Chosen(s)] + SumOf(v, s \ {Chosen(s)})
  BY <1>2, SubsetsFinite, SumStep
<1> QED
  BY <1>2, <1>3, <1>4

(* The sum of amounts is one of these. *)
Amounts(S) == [c \in S |-> c.amount]

LEMMA TotalIs ==
    ASSUME NEW S, IsFiniteSet(S)
    PROVE  Total(S) = SumOf(Amounts(S), S)
<1> DEFINE w == Amounts(S)
           Weighs(f) == f = [s \in SUBSET S |-> IF s = {} THEN 0 ELSE Chosen(s).amount + f[s \ {Chosen(s)}]]
           total == CHOOSE f : Weighs(f)
<1>1. Total(S) = total[S]
  BY DEF Total, MapThenSumSet, MapThenFoldSet, Chosen
<1>2. \A s \in SUBSET S : s # {} => w[Chosen(s)] = Chosen(s).amount
  BY SubsetsFinite DEF Amounts
<1> HIDE DEF w
<1>3. ASSUME NEW f PROVE Weighs(f) <=> Folds(f, S, w)
  <2>1. \A s \in SUBSET S : (IF s = {} THEN 0 ELSE Chosen(s).amount + f[s \ {Chosen(s)}])
                           = (IF s = {} THEN 0 ELSE w[Chosen(s)] + f[s \ {Chosen(s)}])
    BY <1>2
  <2> QED
    BY <2>1 DEF Folds
<1>4. \E f : Folds(f, S, w)
  BY FoldExists
<1> HIDE DEF Weighs
<1>5. Weighs(total)
  BY <1>3, <1>4
<1>6. Folds(total, S, w)
  BY <1>3, <1>5
<1> HIDE DEF total
<1>7. total[S] = SumOf(w, S)
  BY <1>6, FoldIs
<1> QED
  BY <1>1, <1>7 DEF w

LEMMA TotalInt ==
    ASSUME NEW S, IsFiniteSet(S), \A c \in S : c.amount \in Int
    PROVE  Total(S) \in Int
<1>1. \A c \in S : Amounts(S)[c] \in Int
  BY DEF Amounts
<1> QED
  BY <1>1, TotalIs, SumInt

LEMMA TotalTake ==
    ASSUME NEW S, IsFiniteSet(S), \A c \in S : c.amount \in Int, NEW c \in S
    PROVE  Total(S) = c.amount + Total(S \ {c})
<1> DEFINE T == S \ {c}
<1>1. Amounts(S)[c] = c.amount /\ \A x \in S : Amounts(S)[x] \in Int
  BY DEF Amounts
<1>2. IsFiniteSet(T) /\ \A x \in T : Amounts(S)[x] = Amounts(T)[x]
  BY FS_Subset DEF Amounts
<1>3. SumOf(Amounts(S), S) = c.amount + SumOf(Amounts(S), T)
  BY <1>1, SumTake
<1> HIDE DEF T
<1>4. SumOf(Amounts(S), T) = SumOf(Amounts(T), T)
  BY <1>2, SumSame
<1>5. Total(S) = SumOf(Amounts(S), S) /\ Total(T) = SumOf(Amounts(T), T)
  BY <1>2, TotalIs
<1> QED
  BY <1>3, <1>4, <1>5 DEF T

(* An item that gives way to another of the same amount leaves the total.      *)
LEMMA TotalExchange ==
    ASSUME NEW S, IsFiniteSet(S), \A i \in S : i.amount \in Int,
           NEW x, NEW y, x \notin S, y \notin S, x.amount \in Int, x.amount = y.amount
    PROVE  Total(S \cup {x}) = Total(S \cup {y})
<1>1. ASSUME NEW z, z \notin S, z.amount \in Int PROVE Total(S \cup {z}) = z.amount + Total(S)
  <2> DEFINE T == S \cup {z}
  <2>1. IsFiniteSet(T) /\ z \in T /\ T \ {z} = S /\ \A i \in T : i.amount \in Int
    BY <1>1, FS_AddElement
  <2> HIDE DEF T
  <2>2. Total(T) = z.amount + Total(T \ {z})
    BY <2>1, TotalTake
  <2> QED
    BY <2>1, <2>2 DEF T
<1>2. y.amount \in Int
  OBVIOUS
<1>3. Total(S \cup {x}) = x.amount + Total(S)
  BY <1>1
<1>4. Total(S \cup {y}) = y.amount + Total(S)
  BY <1>1, <1>2
<1> QED
  BY <1>3, <1>4

-----------------------------------------------------------------------------
(* Periods that are frozen, or may be. *)

(* What a line shows of the items of its period. *)
LineOf(p, start, items) ==
    LET from == EffectiveStart(p, start) IN
    Summed(p, from, {i \in items : IF i.sign = 1 THEN from = p.start ELSE i.date >= from})

Frozen(p) == p \in Range(Projected) /\ p.pay < today - 1
BudgetRows == {r \in rows : r.of = "budget"}

LEMMA SpentIs == Spent = Total(BudgetRows)
BY DEF Spent, Total, BudgetRows

LEMMA LineIs ==
    ASSUME NEW p, NEW start, NEW asOf
    PROVE  Line(p, start, asOf) = LineOf(p, start, ItemsIn(p, asOf)) /\ Line(p, start, asOf).pay = p.pay
BY DEF Line, LineOf, Summed

FrozenShown == \A p : Frozen(p) => Sums(Line(p, range.start, today)) \in FrozenSums

LEMMA FrozenSumsAre ==
    /\ Lines = {Line(p, range.start, today) : p \in Range(Projected)}
    /\ \A l \in FrozenSums : \E p : Frozen(p) /\ l = Sums(Line(p, range.start, today)) /\ l.pay = p.pay
<1>1. Lines = {Line(p, range.start, today) : p \in Range(Projected)}
  BY DEF Lines, Projected, PayDays
<1>2. ASSUME NEW l \in FrozenSums
      PROVE  \E p : Frozen(p) /\ l = Sums(Line(p, range.start, today)) /\ l.pay = p.pay
  <2>1. PICK x \in Lines : x.pay < today - 1 /\ l = Sums(x)
    BY DEF FrozenSums
  <2>2. PICK p \in Range(Projected) : x = Line(p, range.start, today)
    BY <1>1
  <2> QED
    BY <2>1, <2>2, LineIs DEF Frozen, Sums
<1> QED
  BY <1>1, <1>2

LEMMA FrozenShownIs == FrozenShown
BY FrozenSumsAre, LineIs DEF FrozenShown, Frozen, FrozenSums

(* Such a period ended before yesterday, and is one of the grid. *)
LEMMA FrozenFacts ==
    ASSUME ProjectionsInv, NEW p, Frozen(p)
    PROVE  /\ PayPeriod(PayDays, p) /\ p.pay = p.end /\ p.start \in Int /\ p.end \in Int
           /\ p.end \in Dates /\ p.start < p.end /\ p.end < today - 1 /\ p.end < today
           /\ Overlaps(PayDays, ProjectionStart, ProjectionEnd, p)
<1>1. PICK i \in DOMAIN Projected : p = Projected[i]
  BY DEF Frozen, Range
<1>2. Overlaps(PayDays, ProjectionStart, ProjectionEnd, p)
  BY <1>1, ProjectedFacts
<1>3. PayDays \in ScheduleType /\ today \in Int
  BY RangeFacts DEF ProjectionsInv, ProjectionsTyped
<1>4. PayPeriod(PayDays, p)
  BY <1>2 DEF Overlaps
<1>5. p \in Periods /\ p.pay = p.end /\ p.start < p.end
  BY <1>3, <1>4, PayPeriodIs
<1>6. p.end \in Dates
  BY <1>4, <1>5 DEF PayPeriod
<1>7. p.end < today - 1 /\ p.start \in Int /\ p.end \in Int
  BY <1>5 DEF Frozen, Periods
<1>8. p.end < today
  BY <1>3, <1>7
<1> QED
  BY <1>2, <1>4, <1>5, <1>6, <1>7, <1>8

(* Nothing of it is projected: what it shows are its rows and the budget's line. *)
PastIsRecorded ==
    \A p : PayPeriod(PayDays, p) /\ p.end < today
              => ItemsIn(p, today) = RowItems(p) \cup BudgetItems(p, today)

LEMMA InvPastIsRecorded == ProjectionsInv => PastIsRecorded
<1> SUFFICES ASSUME ProjectionsInv, NEW p, PayPeriod(PayDays, p), p.end < today
             PROVE  ItemsIn(p, today) = RowItems(p) \cup BudgetItems(p, today)
  BY DEF PastIsRecorded
<1>1. /\ today \in Int /\ HorizonDays \in Nat /\ planned.date \in Int
      /\ \A k \in Templates : Schedule(k) \in ScheduleType
  BY ProjectionsAssumption, TemplateFacts DEF ProjectionsInv, ProjectionsTyped
<1>2. p.start \in Int /\ p.end \in Int /\ p.start < p.end
  <2>1. PayDays \in ScheduleType
    BY RangeFacts
  <2> QED
    BY <2>1, PayPeriodIs DEF Periods
<1>3. ASSUME NEW k \in Templates PROVE TemplateItems(k, p, today) = {}
  <2>1. Reaches(Schedule(k), today + HorizonDays)
    BY ReachedToday DEF Reached, Schedule
  <2>2. Reaches(Schedule(k), p.end)
    <3>1. p.end <= today + HorizonDays /\ today + HorizonDays \in Int
      BY <1>1, <1>2
    <3> QED
      BY <1>1, <1>2, <2>1, <3>1, ReachesLess
  <2>3. PayDatesInRange(Schedule(k), p.start, p.end) = {d \in p.start..p.end : Occurs(Schedule(k), d)}
    BY <1>1, <1>2, <2>2, PayDatesAreOccurrences
  <2>4. \A d \in PayDatesInRange(Schedule(k), p.start, p.end) : ~Upcoming(d, today)
    BY <1>1, <1>2, <2>3 DEF Upcoming
  <2> QED
    BY <2>4 DEF TemplateItems
<1>4. PlannedItems(p, today) = {}
  <2>1. ~InPeriod(p, PlannedDate(today))
    BY <1>1, <1>2 DEF PlannedDate, GreatestOf, InPeriod
  <2> QED
    BY <2>1 DEF PlannedItems, PlannedDue
<1> QED
  BY <1>3, <1>4 DEF ItemsIn

(* A day a year on is within the calendar. *)
LEMMA YearOn ==
    ASSUME NEW d \in Dates, MonthOf[d] + 12 < LastMonth
    PROVE  AddMonths(d, 12) \in Dates /\ d < AddMonths(d, 12)
<1> DEFINE k == MonthOf[d]
           e == AddMonths(d, 12)
<1>1. k \in MonthIndex /\ k \in Nat /\ d < MonthStart[k + 1] /\ d \in Int
  BY MonthOfIs, MonthFacts, DateFacts
<1>2. k + 12 \in MonthIndex /\ k < k + 12
  BY <1>1, MonthFacts DEF MonthIndex
<1>3. DayOf(d) \in 1..31
  BY DayOfIs
<1>4. e \in Dates /\ MonthOf[e] = k + 12
  BY <1>2, <1>3, ClampedIs DEF AddMonths
<1>5. MonthStart[k + 12] <= e /\ e \in Int
  <2>1. e \in Nat
    <3> HIDE DEF e
    <3> QED
      BY <1>4, DateFacts
  <2>2. MonthStart[MonthOf[e]] <= e
    <3> HIDE DEF e
    <3> QED
      BY <1>4, MonthOfIs
  <2> QED
    BY <1>4, <2>1, <2>2
<1>6. MonthStart[k + 1] <= MonthStart[k + 12] /\ MonthStart[k + 1] \in Nat /\ MonthStart[k + 12] \in Nat
  BY <1>1, <1>2, MonthFacts
<1> HIDE DEF k, e
<1>7. d < e
  BY <1>1, <1>5, <1>6
<1> QED
  BY <1>4, <1>7 DEF e

(* What a frozen period is summed from stays, unless a row or a line of the     *)
(* budget is moved into it or out of it.                                      *)
LEMMA FrozenKept ==
    ASSUME ProjectionsInv, ProjectionsTyped', PastIsRecorded',
           UNCHANGED <<today, range, account>>, PayDays' = PayDays, NEW p, Frozen(p),
           {x \in rows' : x.date <= p.end} = {x \in rows : x.date <= p.end},
           \/ budget' = budget /\ BudgetRows' = BudgetRows
           \/ p.end < budget.end /\ p.end < budget'.end
    PROVE  Sums(Line(p, range.start, today)) \in FrozenSums'
<1>1. /\ PayPeriod(PayDays, p) /\ p.start \in Int /\ p.end \in Int /\ p.end < today
  BY FrozenFacts
<1>2. ItemsIn(p, today) = RowItems(p) \cup BudgetItems(p, today)
  BY <1>1, InvPastIsRecorded DEF PastIsRecorded
<1>3. ItemsIn(p, today)' = RowItems(p)' \cup BudgetItems(p, today)'
  BY <1>1 DEF PastIsRecorded
<1>4. RowItems(p)' = RowItems(p)
  <2>1. \A x : Counts(x)' <=> Counts(x)
    BY DEF Counts, Crossing, Excludes
  <2>2. \A of, to : Sign(of, to)' = Sign(of, to)
    BY DEF Sign, Excludes
  <2>3. {x \in rows' : x.live /\ InPeriod(p, x.date) /\ Counts(x)'}
          = {x \in rows : x.live /\ InPeriod(p, x.date) /\ Counts(x)}
    BY <2>1 DEF InPeriod
  <2> DEFINE Shown(r, sign) == Item(r.of, r.due, r.date, r.amount, sign, r.account, FALSE)
             T == {x \in rows : x.live /\ InPeriod(p, x.date) /\ Counts(x)}
             U == {x \in rows' : x.live /\ InPeriod(p, x.date) /\ Counts(x)'}
  <2>4. RowItems(p) = {Shown(r, Sign(r.of, r.to)) : r \in T}
    BY DEF RowItems
  <2>5. RowItems(p)' = {Shown(r, Sign(r.of, r.to)') : r \in U}
    BY DEF RowItems
  <2>6. U = T
    BY <2>3
  <2> HIDE DEF Shown, T, U
  <2> QED
    BY <2>2, <2>4, <2>5, <2>6
<1>5. BudgetItems(p, today)' = BudgetItems(p, today)
  <2>1. CASE budget' = budget /\ BudgetRows' = BudgetRows
    <3>1. Spent' = Spent
      <4>1. Spent = Total(BudgetRows)
        BY SpentIs
      <4>2. (Spent = Total(BudgetRows))'
        BY SpentIs, PTL
      <4> QED
        BY <2>1, <4>1, <4>2
    <3> QED
      BY <2>1, <3>1 DEF BudgetItems, BudgetAmount
  <2>2. CASE p.end < budget.end /\ p.end < budget'.end
    <3>1. ~InPeriod(p, budget.end) /\ ~InPeriod(p, budget'.end)
      <4>1. budget.end \in Int /\ budget'.end \in Int
        BY DEF ProjectionsInv, ProjectionsTyped
      <4> QED
        BY <1>1, <2>2, <4>1 DEF InPeriod
    <3> QED
      BY <3>1 DEF BudgetItems
  <2> QED
    BY <2>1, <2>2
<1>6. ItemsIn(p, today)' = ItemsIn(p, today)
  BY <1>2, <1>3, <1>4, <1>5
<1>7. Sums(Line(p, range.start, today))' = Sums(Line(p, range.start, today))
  <2>1. Sums(Line(p, range.start, today)) = Sums(LineOf(p, range.start, ItemsIn(p, today)))
    BY LineIs
  <2>2. Line(p, range.start, today)' = LineOf(p, range.start, ItemsIn(p, today)')
    BY DEF Line, LineOf
  <2>3. Sums(Line(p, range.start, today))' = Sums(LineOf(p, range.start, ItemsIn(p, today)'))
    BY <2>2 DEF Sums
  <2> QED
    BY <1>6, <2>1, <2>3
<1>8. Frozen(p)'
  <2>1. Projected' = Projected
    BY DEF Projected
  <2> QED
    BY <2>1 DEF Frozen
<1>9. FrozenShown'
  BY FrozenShownIs, PTL
<1> QED
  BY <1>7, <1>8, <1>9 DEF FrozenShown

LEMMA SameBefore ==
    ASSUME NEW C, NEW A, NEW B, rows = C \cup A, rows' = C \cup B, NEW e \in Int,
           \A x \in A \cup B : x.date \in Int /\ e < x.date
    PROVE  {x \in rows' : x.date <= e} = {x \in rows : x.date <= e}
<1>1. \A x \in A \cup B : ~(x.date <= e)
  OBVIOUS
<1> QED
  BY <1>1

(* A row that comes, goes or changes after a frozen period, and is not spending *)
(* on a budget whose line the period has, leaves the period as it was.          *)
LEMMA LaterRows ==
    ASSUME ProjectionsInv, ProjectionsInv',
           UNCHANGED <<today, range, account, template, budget>>, NEW p, Frozen(p),
           NEW C, NEW A, NEW B, rows = C \cup A, rows' = C \cup B,
           \A x \in A \cup B : x.date \in Int /\ p.end < x.date,
           (\A x \in A \cup B : x.of # "budget") \/ p.end < budget.end
    PROVE  Sums(Line(p, range.start, today)) \in FrozenSums'
<1>1. p.end \in Int
  BY FrozenFacts
<1>2. {x \in rows' : x.date <= p.end} = {x \in rows : x.date <= p.end}
  BY <1>1, SameBefore
<1>3. (\A x \in A \cup B : x.of # "budget") => BudgetRows' = BudgetRows
  BY DEF BudgetRows
<1>4. PayDays' = PayDays /\ UNCHANGED <<today, range, account>>
  BY DEF PayDays, Schedule
<1>5. ProjectionsTyped' /\ PastIsRecorded'
  <2>1. PastIsRecorded'
    BY InvPastIsRecorded, PTL
  <2> QED
    BY <2>1 DEF ProjectionsInv
<1> QED
  BY <1>2, <1>3, <1>4, <1>5, FrozenKept

LEMMA LaterRow ==
    ASSUME ProjectionsInv, ProjectionsInv',
           UNCHANGED <<today, range, account, template, budget>>, NEW p, Frozen(p),
           NEW n, rows' = rows \cup {n}, n.date \in Int, p.end < n.date,
           n.of # "budget" \/ p.end < budget.end
    PROVE  Sums(Line(p, range.start, today)) \in FrozenSums'
<1> DEFINE A == {}
           B == {n}
<1>1. rows = rows \cup A /\ rows' = rows \cup B
  OBVIOUS
<1>2. \A x \in A \cup B : x = n
  OBVIOUS
<1> HIDE DEF A, B
<1>3. \A x \in A \cup B : x.date \in Int /\ p.end < x.date
  BY <1>2
<1>4. (\A x \in A \cup B : x.of # "budget") \/ p.end < budget.end
  BY <1>2
<1> QED
  BY <1>1, <1>3, <1>4, LaterRows

(* What is no row and no budget changes nothing that is past. *)
LEMMA SameRows ==
    ASSUME ProjectionsInv, ProjectionsInv', UNCHANGED <<today, range, account, rows>>,
           PayDays' = PayDays, NEW p, Frozen(p),
           budget' = budget \/ (p.end < budget.end /\ p.end < budget'.end)
    PROVE  Sums(Line(p, range.start, today)) \in FrozenSums'
<1>1. BudgetRows' = BudgetRows
  BY DEF BudgetRows
<1>2. ProjectionsTyped' /\ PastIsRecorded'
  <2>1. PastIsRecorded'
    BY InvPastIsRecorded, PTL
  <2> QED
    BY <2>1 DEF ProjectionsInv
<1>3. {x \in rows' : x.date <= p.end} = {x \in rows : x.date <= p.end}
  OBVIOUS
<1> QED
  BY <1>1, <1>2, <1>3, FrozenKept

(* The current pay period, a client's day off or not, begins after every frozen  *)
(* one, and so is what is paid within it.                                     *)
LEMMA CurrentPeriodLater ==
    ASSUME ProjectionsInv, NEW p, Frozen(p), NEW day \in ClientDays,
           NEW on \in Int, InPeriod(PeriodContaining(PayDays, day), on)
    PROVE  p.end < on
<1> DEFINE q == PeriodContaining(PayDays, day)
<1>1. /\ PayPeriod(PayDays, p) /\ p.start \in Int /\ p.end \in Int /\ p.end \in Dates
      /\ p.start < p.end /\ p.end < today - 1
  BY FrozenFacts
<1>2. day \in Int /\ today \in Int /\ today - 1 <= day /\ day <= today + 1
  BY DEF ClientDays, ProjectionsInv, ProjectionsTyped
<1>3. PayDays \in ScheduleType
  BY RangeFacts
<1>4. day \in Dates
  <2>1. today \in Dates /\ today - 1 \in Dates /\ today + 1 \in Dates
    BY ReachedToday, RangeFacts DEF Reached
  <2>2. day \in {today - 1, today, today + 1}
    BY <1>2
  <2> QED
    BY <2>1, <2>2
<1>5. Reaches(PayDays, today + 1)
  BY ReachedToday DEF Reached, PayDays, Schedule, Templates
<1>6. ReachesBack(PayDays, day)
  <2>1. ReachesBack(PayDays, p.end) /\ p.end <= day
    <3>1. p.pay = p.end
      BY <1>1, FrozenFacts
    <3> QED
      BY <1>1, <1>2, <3>1 DEF PayPeriod
  <2> QED
    BY <1>1, <1>3, <1>4, <2>1, ReachesBackLater
<1>7. PayPeriod(PayDays, q) /\ InPeriod(q, day)
  <2>1. today + 1 \in Int
    BY <1>2
  <2> QED
    BY <1>2, <1>3, <1>4, <1>5, <1>6, <2>1, ContainingIs
<1>8. q.start \in Int /\ q.end \in Int /\ q.start < q.end
  BY <1>3, <1>7, PayPeriodIs DEF Periods
<1> HIDE DEF q
<1>9. InPeriod(p, p.end) /\ p.end <= day /\ ~InPeriod(p, day)
  BY <1>1, <1>2 DEF InPeriod
<1>10. p.start <= q.start
  BY <1>1, <1>2, <1>3, <1>7, <1>9, PeriodsOrder
<1>11. ~InPeriod(p, q.start)
  <2>1. InPeriod(q, q.start) /\ p # q
    BY <1>7, <1>8, <1>9 DEF InPeriod
  <2> QED
    BY <1>1, <1>3, <1>7, <1>8, <2>1, OnePeriod
<1>12. p.end < q.start
  BY <1>1, <1>8, <1>10, <1>11 DEF InPeriod
<1>13. q.start <= on
  BY DEF InPeriod, q
<1> QED
  BY <1>1, <1>8, <1>12, <1>13

LEMMA ChargeRefreezes ==
    ASSUME ProjectionsInv, ProjectionsInv', NEW k \in Templates, NEW due \in (today - CatchUpDays)..today,
           Charge(k, due), NEW p, Frozen(p), p.pay < touched'
    PROVE  Sums(Line(p, range.start, today)) \in FrozenSums'
<1>1. PICK a \in ChargedFrom(k, due) : rows' = rows \cup {NewRow(k, due, due, a, template[k].to)}
  BY DEF Charge
<1>2. UNCHANGED <<today, range, account, template, budget>> /\ touched' = today - CatchUpDays
  BY DEF Charge
<1>3. due \in Int /\ p.end < due
  <2>1. p.end \in Int /\ p.pay = p.end /\ today \in Int /\ CatchUpDays \in Nat
    BY FrozenFacts, ProjectionsAssumption DEF ProjectionsInv, ProjectionsTyped
  <2> QED
    BY <1>2, <2>1
<1> DEFINE n == NewRow(k, due, due, a, template[k].to)
<1>4. n.date = due /\ n.of # "budget"
  BY KindsAre DEF NewRow
<1> HIDE DEF n
<1>5. rows' = rows \cup {n}
  BY <1>1 DEF n
<1> QED
  BY <1>2, <1>3, <1>4, <1>5, LaterRow

(* Paying early, or what is due, adds a row of the current period.              *)
LEMMA PaymentRefreezes ==
    ASSUME ProjectionsInv, ProjectionsInv', UNCHANGED <<Others, template, budget, account>>,
           NEW of \in {"expense", "planned"}, NEW due, NEW on \in Int, NEW a,
           rows' = rows \cup {NewRow(of, due, on, a, NoAccount)},
           NEW p, Frozen(p), p.end < on
    PROVE  Sums(Line(p, range.start, today)) \in FrozenSums'
<1>1. UNCHANGED <<today, range, account, template, budget>>
  BY DEF Others
<1> DEFINE n == NewRow(of, due, on, a, NoAccount)
<1>2. n.date = on /\ n.of # "budget"
  BY DEF NewRow
<1>3. rows' = rows \cup {n}
  OBVIOUS
<1> HIDE DEF n
<1> QED
  BY <1>1, <1>2, <1>3, LaterRow

LEMMA RowRequestsRefreeze ==
    ASSUME ProjectionsInv, ProjectionsInv', NEW p, Frozen(p), p.pay < touched',
           \/ \E d \in NearToday, a \in Accounts, of \in {"earning", "spending"} : AddRow(of, d, a)
           \/ \E d \in NearToday : Spend(d) \/ \E r \in rows : MoveRow(r, d)
           \/ \E r \in rows : DeleteRow(r) \/ VoidCharge(r)
    PROVE  Sums(Line(p, range.start, today)) \in FrozenSums'
<1>0. /\ p.end \in Int /\ p.pay = p.end /\ budget.end \in Int
      /\ \A d \in NearToday : d \in Int
      /\ \A r \in rows : r.date \in Int
  BY FrozenFacts, NearTyped DEF ProjectionsInv, ProjectionsTyped, RowType
<1>1. ASSUME NEW d \in NearToday, NEW a \in Accounts, NEW of \in {"earning", "spending"}, AddRow(of, d, a)
      PROVE  Sums(Line(p, range.start, today)) \in FrozenSums'
  <2> DEFINE n == NewRow(of, d, d, a, NoAccount)
  <2>1. /\ UNCHANGED <<today, range, account, template, budget>> /\ touched' = d
        /\ rows' = rows \cup {n}
    BY <1>1 DEF AddRow, Others, Request
  <2>2. n.date = d /\ n.of # "budget"
    BY DEF NewRow
  <2>3. d \in Int /\ p.end < d
    BY <1>0, <2>1
  <2> HIDE DEF n
  <2> QED
    BY <2>1, <2>2, <2>3, LaterRow
<1>2. ASSUME NEW d \in NearToday, Spend(d) PROVE Sums(Line(p, range.start, today)) \in FrozenSums'
  <2> DEFINE n(a) == NewRow("budget", d, d, a, NoAccount)
  <2>1. PICK a \in Pick(NoAccount, d) : Request(RefreezeFrom(n(a))) /\ rows' = rows \cup {n(a)}
    BY <1>2 DEF Spend
  <2>2. n(a).date = d /\ n(a).of = "budget"
    BY DEF NewRow
  <2>3. UNCHANGED <<today, range, account, template, budget>>
    BY <1>2 DEF Spend, Others
  <2>4. touched' = LeastOf(d, budget.end)
    BY <2>1, <2>2 DEF Request, RefreezeFrom
  <2>5. d \in Int /\ p.end < d /\ p.end < budget.end
    BY <1>0, <2>4 DEF LeastOf
  <2> HIDE DEF n
  <2> QED
    BY <2>1, <2>2, <2>3, <2>5, LaterRow
<1>3. ASSUME NEW d \in NearToday, NEW r \in rows, MoveRow(r, d)
      PROVE  Sums(Line(p, range.start, today)) \in FrozenSums'
  <2> DEFINE n == [r EXCEPT !.date = d, !.due = d]
  <2>1. /\ UNCHANGED <<today, range, account, template, budget>> /\ touched' = LeastOf(r.date, d)
        /\ rows = (rows \ {r}) \cup {r} /\ rows' = (rows \ {r}) \cup {n}
        /\ r.of \in {"earning", "spending"}
    BY <1>3 DEF MoveRow, Others, Request
  <2>2. n.date = d /\ n.of = r.of
    BY DEF ProjectionsInv, ProjectionsTyped, RowType
  <2>3. d \in Int /\ p.end < d /\ r.date \in Int /\ p.end < r.date
    BY <1>0, <2>1 DEF LeastOf
  <2> HIDE DEF n
  <2>4. \A x \in {r} \cup {n} : x.date \in Int /\ p.end < x.date /\ x.of # "budget"
    BY <2>1, <2>2, <2>3
  <2> QED
    BY <2>1, <2>4, LaterRows
<1>4. ASSUME NEW r \in rows, DeleteRow(r) PROVE Sums(Line(p, range.start, today)) \in FrozenSums'
  <2> DEFINE n == [r EXCEPT !.live = FALSE]
             B == IF DeletedSoftly(r) THEN {n} ELSE {}
  <2>1. /\ UNCHANGED <<today, range, account, template, budget>> /\ touched' = RefreezeFrom(r)
        /\ rows = (rows \ {r}) \cup {r} /\ rows' = (rows \ {r}) \cup B
    BY <1>4 DEF DeleteRow, Others, Request
  <2>2. n.date = r.date /\ n.of = r.of
    BY DEF ProjectionsInv, ProjectionsTyped, RowType
  <2>3. r.date \in Int /\ p.end < r.date /\ (r.of # "budget" \/ p.end < budget.end)
    BY <1>0, <2>1 DEF RefreezeFrom, LeastOf
  <2>4. \A x \in {r} \cup B : x.date = r.date /\ x.of = r.of
    BY <2>2
  <2> HIDE DEF B
  <2>5. \A x \in {r} \cup B : x.date \in Int /\ p.end < x.date
    BY <2>3, <2>4
  <2> QED
    BY <2>1, <2>3, <2>4, <2>5, LaterRows
<1>5. ASSUME NEW r \in rows, VoidCharge(r) PROVE Sums(Line(p, range.start, today)) \in FrozenSums'
  <2> DEFINE n == [r EXCEPT !.amount = 0]
  <2>1. /\ UNCHANGED <<today, range, account, template, budget>> /\ touched' = r.date
        /\ rows = (rows \ {r}) \cup {r} /\ rows' = (rows \ {r}) \cup {n} /\ r.of = "expense"
    BY <1>5 DEF VoidCharge, Others, Request
  <2>2. n.date = r.date /\ n.of = r.of
    BY DEF ProjectionsInv, ProjectionsTyped, RowType
  <2>3. r.date \in Int /\ p.end < r.date
    BY <1>0, <2>1
  <2> HIDE DEF n
  <2>4. \A x \in {r} \cup {n} : x.date \in Int /\ p.end < x.date /\ x.of # "budget"
    BY <2>1, <2>2, <2>3
  <2> QED
    BY <2>1, <2>4, LaterRows
<1> QED
  BY <1>1, <1>2, <1>3, <1>4, <1>5

LEMMA OtherRequestsRefreeze ==
    ASSUME ProjectionsInv, ProjectionsInv', NEW p, Frozen(p), p.pay < touched',
           \/ \E d \in ClientDays : CompleteBudget(d)
           \/ \E a \in Accounts : ExcludeAccount(a) \/ ArchiveAccount(a)
           \/ \E d \in NearToday : MovePlanned(d) \/ EndExpense(d)
           \/ \E k \in Templates \ {"income"} : DeleteTemplate(k)
           \/ DeletePlanned
    PROVE  Sums(Line(p, range.start, today)) \in FrozenSums'
<1>0. p.end \in Int /\ p.pay = p.end /\ p.end \in Dates
  BY FrozenFacts
<1>1. ASSUME NEW d \in ClientDays, CompleteBudget(d) PROVE Sums(Line(p, range.start, today)) \in FrozenSums'
  <2> DEFINE D == {budget.end, d} \cup {r.date : r \in {x \in rows : x.of = "budget"}}
  <2>1. d \in Int /\ budget.end \in Int
    BY NearTyped DEF ProjectionsInv, ProjectionsTyped
  <2>2. Min(D) \in Int /\ \A e \in D : Min(D) <= e
    BY <2>1, BudgetDates DEF ProjectionsInv
  <2>3. budget.end \in D /\ d \in D
    OBVIOUS
  <2>4. touched' = Min(D) /\ budget'.end = d
    BY <1>1 DEF CompleteBudget, Request, ProjectionsInv, ProjectionsTyped
  <2>5. UNCHANGED <<today, range, account, rows, template>>
    BY <1>1 DEF CompleteBudget, Others
  <2> HIDE DEF D
  <2>6. Min(D) <= budget.end /\ Min(D) <= d
    BY <2>2, <2>3
  <2>7. p.end < budget.end /\ p.end < budget'.end
    <3> DEFINE m == Min(D)
    <3>1. m \in Int /\ p.end < m /\ m <= budget.end /\ m <= d
      BY <1>0, <2>2, <2>4, <2>6
    <3> HIDE DEF m
    <3> QED
      BY <1>0, <2>1, <2>4, <3>1
  <2>8. PayDays' = PayDays
    BY <2>5 DEF PayDays, Schedule
  <2> QED
    BY <2>5, <2>7, <2>8, SameRows
<1>2. ASSUME NEW a \in Accounts, ExcludeAccount(a) \/ ArchiveAccount(a)
      PROVE  Sums(Line(p, range.start, today)) \in FrozenSums'
  <2>1. touched' = FirstDate
    BY <1>2 DEF ExcludeAccount, ArchiveAccount, Request
  <2>2. FirstDate <= p.end /\ FirstDate \in Int
    BY <1>0, DateFacts DEF FirstDate
  <2> QED
    BY <1>0, <2>1, <2>2
<1>3. ASSUME DeletePlanned \/ \E d \in NearToday : MovePlanned(d)
      PROVE  Sums(Line(p, range.start, today)) \in FrozenSums'
  <2>1. UNCHANGED <<today, range, account, rows, template, budget>>
    BY <1>3 DEF DeletePlanned, MovePlanned, Others
  <2>2. PayDays' = PayDays
    BY <2>1 DEF PayDays, Schedule
  <2> QED
    BY <2>1, <2>2, SameRows
<1>4. ASSUME NEW d \in NearToday, EndExpense(d) PROVE Sums(Line(p, range.start, today)) \in FrozenSums'
  <2>1. UNCHANGED <<today, range, account, rows, budget>>
    BY <1>4 DEF EndExpense, Others
  <2>2. PayDays' = PayDays
    <3>1. template'["income"] = template["income"]
      BY <1>4 DEF EndExpense, ProjectionsInv, ProjectionsTyped, Templates
    <3> QED
      BY <3>1 DEF PayDays, Schedule
  <2> QED
    BY <2>1, <2>2, SameRows
<1>5. ASSUME NEW k \in Templates \ {"income"}, DeleteTemplate(k)
      PROVE  Sums(Line(p, range.start, today)) \in FrozenSums'
  <2>1. UNCHANGED <<today, range, account, rows, budget>>
    BY <1>5 DEF DeleteTemplate, Others
  <2>2. PayDays' = PayDays
    <3>1. template'["income"] = template["income"]
      BY <1>5 DEF DeleteTemplate, ProjectionsInv, ProjectionsTyped, Templates
    <3> QED
      BY <3>1 DEF PayDays, Schedule
  <2> QED
    BY <2>1, <2>2, SameRows
<1> QED
  BY <1>1, <1>2, <1>3, <1>4, <1>5

-----------------------------------------------------------------------------
(* The next day. *)

(* What a line adds up to does not tell an item from another of the same sign,  *)
(* date and amount.                                                         *)
LEMMA SumsExchange ==
    ASSUME NEW S, IsFiniteSet(S), \A i \in S : i.amount \in Int,
           NEW x, NEW y, x \notin S, y \notin S, x.amount \in Int,
           x.amount = y.amount, x.sign = y.sign, x.date = y.date,
           NEW p, NEW start
    PROVE  Sums(LineOf(p, start, S \cup {x})) = Sums(LineOf(p, start, S \cup {y}))
<1> DEFINE from == EffectiveStart(p, start)
           Shown(i) == IF i.sign = 1 THEN from = p.start ELSE i.date >= from
           Part(items, sign) == {i \in {i \in items : Shown(i)} : i.sign = sign}
<1>1. \A items : Sums(LineOf(p, start, items))
                   = [pay |-> p.pay, start |-> from,
                      income |-> Total(Part(items, 1)), expense |-> Total(Part(items, -1))]
  BY DEF Sums, LineOf, Summed
<1>2. Shown(x) <=> Shown(y)
  OBVIOUS
<1>3. ASSUME NEW sign PROVE Total(Part(S \cup {x}, sign)) = Total(Part(S \cup {y}, sign))
  <2> DEFINE Q == {i \in S \cup {x, y} : Shown(i) /\ i.sign = sign}
             T == S \cap Q
  <2>1. \A items \in SUBSET (S \cup {x, y}) : Part(items, sign) = items \cap Q
    <3> HIDE DEF Shown
    <3> QED
      OBVIOUS
  <2>2. x \in Q <=> y \in Q
    <3> HIDE DEF Shown
    <3> QED
      BY <1>2
  <2>3. Part(S \cup {x}, sign) = (S \cup {x}) \cap Q /\ Part(S \cup {y}, sign) = (S \cup {y}) \cap Q
    <3> HIDE DEF Part, Q
    <3>1. S \cup {x} \in SUBSET (S \cup {x, y}) /\ S \cup {y} \in SUBSET (S \cup {x, y})
      OBVIOUS
    <3> QED
      BY <2>1, <3>1
  <2> HIDE DEF Part, Q, Shown
  <2>4. IsFiniteSet(T) /\ x \notin T /\ y \notin T /\ \A i \in T : i.amount \in Int
    <3>1. T \subseteq S
      OBVIOUS
    <3>2. IsFiniteSet(T)
      BY <3>1, FS_Subset
    <3>3. x \notin T /\ y \notin T
      BY <3>1, Zenon
    <3>4. \A i \in T : i.amount \in Int
      BY <3>1, Zenon
    <3> QED
      BY <3>2, <3>3, <3>4
  <2>5. CASE x \in Q
    <3>1. (S \cup {x}) \cap Q = T \cup {x} /\ (S \cup {y}) \cap Q = T \cup {y}
      BY <2>2, <2>5
    <3> HIDE DEF T
    <3>2. Total(T \cup {x}) = Total(T \cup {y})
      BY <2>4, TotalExchange, Zenon
    <3> QED
      BY <2>3, <3>1, <3>2, Zenon
  <2>6. CASE x \notin Q
    <3>1. (S \cup {x}) \cap Q = T /\ (S \cup {y}) \cap Q = T
      BY <2>2, <2>6
    <3> QED
      BY <2>3, <3>1
  <2> QED
    BY <2>5, <2>6
<1> HIDE DEF Part, from
<1> QED
  BY <1>1, <1>3

LEMMA RowItemsAre ==
    ASSUME ProjectionsTyped, NEW p
    PROVE  /\ IsFiniteSet(RowItems(p))
           /\ \A i \in RowItems(p) : i.amount \in Int /\ i.of # "budget" /\ i.projected = FALSE
<1> DEFINE T == {r \in rows : r.live /\ InPeriod(p, r.date) /\ Counts(r)}
           F(r) == Item(r.of, r.due, r.date, r.amount, Sign(r.of, r.to), r.account, FALSE)
           f == [r \in T |-> F(r)]
<1>1. RowItems(p) = {F(r) : r \in T}
  BY DEF RowItems
<1>2. IsFiniteSet(T)
  BY FS_Subset DEF ProjectionsTyped
<1>3. \A r \in T : r.amount \in Nat /\ r.of # "budget"
  BY DEF ProjectionsTyped, RowType, Counts
<1>4. \A r \in T : F(r).amount = r.amount /\ F(r).of = r.of /\ F(r).projected = FALSE
  BY DEF Item
<1> HIDE DEF T, F
<1>5. f \in Surjection(T, {F(r) : r \in T})
  BY DEF Surjection
<1> HIDE DEF f
<1>6. IsFiniteSet(RowItems(p))
  BY <1>1, <1>2, <1>5, FS_Surjection
<1> QED
  BY <1>1, <1>3, <1>4, <1>6

ProjectedAre ==
    /\ Cut(PayDays, Projected)
    /\ Projected # <<>> => InPeriod(Projected[1], ProjectionStart)
    /\ ProjectionEnd >= ProjectionStart
          => Projected # <<>> /\ InPeriod(Projected[Len(Projected)], ProjectionEnd)
    /\ PayDays \in ScheduleType /\ today \in Dates /\ MonthOf[today] + 12 < LastMonth

LEMMA InvProjectedAre == ProjectionsInv => ProjectedAre
<1> SUFFICES ASSUME ProjectionsInv PROVE ProjectedAre
  OBVIOUS
<1>1. MonthOf[today] + 12 < LastMonth
  BY ReachedToday DEF Reached
<1> QED
  BY <1>1, ProjectedFacts, RangeFacts DEF ProjectedAre

(* A period that is past stays on the list. *)
LEMMA StaysListed ==
    ASSUME ProjectionsInv, ProjectionsInv', Tick, NEW p, Frozen(p)
    PROVE  Frozen(p)'
<1>0. /\ today \in Int /\ today' = today + 1 /\ range' = range /\ template' = template
      /\ PayDays' = PayDays
  BY DEF Tick, ProjectionsInv, ProjectionsTyped, PayDays, Schedule
<1>1. /\ PayPeriod(PayDays, p) /\ p.pay = p.end /\ p.start \in Int /\ p.end \in Int
      /\ p.start < p.end /\ p.end < today - 1 /\ p.end < today
      /\ p.end >= ProjectionStart
  BY FrozenFacts DEF Overlaps
<1>2. range.start # NoDate /\ ProjectionStart = range.start /\ range.start \in Int /\ range.start <= p.end
  <2>1. ProjectionStart = IF range.start = NoDate THEN today ELSE range.start
    BY DEF ProjectionStart
  <2>2. range.start # NoDate
    BY <1>0, <1>1, <2>1
  <2>3. range.start \in Int
    <3>1. \A d \in Dates : d \in Int
      BY DateFacts
    <3> QED
      BY <2>2, <3>1 DEF ProjectionsInv, ProjectionsTyped
  <2> QED
    BY <1>1, <2>1, <2>2, <2>3
<1>3. CASE range.end # NoDate
  <2>1. LeastOf(range.start, today) = range.start /\ LeastOf(range.start, today') = range.start
    BY <1>0, <1>1, <1>2 DEF LeastOf
  <2>2. Projected' = Projected
    BY <1>0, <1>2, <1>3, <2>1 DEF Projected, ProjectionPeriods
  <2> QED
    BY <1>0, <1>1, <2>2 DEF Frozen
<1>4. CASE range.end = NoDate
  <2> DEFINE s == PayDays
             qs == Projected'
             x == GreatestOf(p.start, range.start)
  <2>1. ProjectedAre'
    BY InvProjectedAre, PTL
  <2>2. ProjectionStart' = range.start /\ ProjectionEnd' = AddMonths(today', 12)
    BY <1>0, <1>2, <1>4 DEF ProjectionStart, ProjectionEnd
  <2>3. /\ Cut(s, qs) /\ s \in ScheduleType /\ today' \in Dates
        /\ qs # <<>> => InPeriod(qs[1], range.start)
        /\ AddMonths(today', 12) >= range.start => qs # <<>> /\ InPeriod(qs[Len(qs)], AddMonths(today', 12))
    BY <1>0, <2>1, <2>2 DEF ProjectedAre
  <2>4. AddMonths(today', 12) \in Dates /\ today' < AddMonths(today', 12)
    BY <2>1, <2>3, YearOn DEF ProjectedAre
  <2>5. AddMonths(today', 12) \in Int
    <3>1. \A d \in Dates : d \in Int
      BY DateFacts
    <3> QED
      BY <2>4, <3>1
  <2>6. qs # <<>> /\ InPeriod(qs[1], range.start) /\ InPeriod(qs[Len(qs)], AddMonths(today', 12))
    BY <1>0, <1>1, <1>2, <2>3, <2>4, <2>5
  <2> HIDE DEF s, qs
  <2>7. /\ 1 \in DOMAIN qs /\ Len(qs) \in DOMAIN qs
        /\ qs[1].start \in Int /\ qs[Len(qs)].end \in Int
    BY <2>3, <2>6, CutFacts
  <2>8. x \in Int /\ p.start <= x /\ x <= p.end /\ range.start <= x
    BY <1>1, <1>2 DEF GreatestOf
  <2> HIDE DEF x
  <2>9. qs[1].start <= x /\ x <= qs[Len(qs)].end
    BY <1>0, <1>1, <1>2, <2>4, <2>5, <2>6, <2>7, <2>8 DEF InPeriod
  <2>10. PICK i \in DOMAIN qs : InPeriod(qs[i], x)
    BY <2>3, <2>6, <2>8, <2>9, CutCovers
  <2>11. PayPeriod(s, qs[i])
    BY <2>3, <2>10, CutFacts
  <2>12. qs[i] = p
    BY <1>1, <2>3, <2>8, <2>10, <2>11, OnePeriod DEF InPeriod, s
  <2>13. p \in Range(qs)
    BY <2>10, <2>12 DEF Range
  <2> QED
    BY <1>0, <1>1, <2>13 DEF Frozen, qs
<1> QED
  BY <1>3, <1>4

LEMMA TickRefreezes ==
    ASSUME ProjectionsInv, ProjectionsInv', Tick, NEW p, Frozen(p)
    PROVE  Sums(Line(p, range.start, today)) \in FrozenSums'
<1>0. /\ today \in Int /\ today' = today + 1 /\ PayDays' = PayDays
      /\ UNCHANGED <<range, rows, account, budget>>
  BY DEF Tick, ProjectionsInv, ProjectionsTyped, PayDays, Schedule
<1>1. PayPeriod(PayDays, p) /\ p.start \in Int /\ p.end \in Int /\ p.end < today /\ p.end < today'
  <2>1. PayPeriod(PayDays, p) /\ p.start \in Int /\ p.end \in Int /\ p.end < today
    BY FrozenFacts
  <2> QED
    BY <1>0, <2>1
<1>2. ItemsIn(p, today) = RowItems(p) \cup BudgetItems(p, today)
  BY <1>1, InvPastIsRecorded DEF PastIsRecorded
<1>3. ItemsIn(p, today)' = RowItems(p)' \cup BudgetItems(p, today)'
  <2>1. PastIsRecorded'
    BY InvPastIsRecorded, PTL
  <2> QED
    BY <1>0, <1>1, <2>1 DEF PastIsRecorded
<1>4. RowItems(p)' = RowItems(p)
  <2>1. \A x : Counts(x)' <=> Counts(x)
    BY <1>0 DEF Counts, Crossing, Excludes
  <2>2. \A of, to : Sign(of, to)' = Sign(of, to)
    BY <1>0 DEF Sign, Excludes
  <2> DEFINE Shown(r, sign) == Item(r.of, r.due, r.date, r.amount, sign, r.account, FALSE)
             T == {x \in rows : x.live /\ InPeriod(p, x.date) /\ Counts(x)}
             U == {x \in rows' : x.live /\ InPeriod(p, x.date) /\ Counts(x)'}
  <2>4. RowItems(p) = {Shown(r, Sign(r.of, r.to)) : r \in T}
    BY DEF RowItems
  <2>5. RowItems(p)' = {Shown(r, Sign(r.of, r.to)') : r \in U}
    BY DEF RowItems
  <2>6. U = T
    BY <1>0, <2>1
  <2> HIDE DEF Shown, T, U
  <2> QED
    BY <2>2, <2>4, <2>5, <2>6
<1>5. Spent' = Spent /\ Spent \in Int
  <2>1. Spent = Total(BudgetRows)
    BY SpentIs
  <2>2. (Spent = Total(BudgetRows))'
    BY SpentIs, PTL
  <2>3. BudgetRows' = BudgetRows
    BY <1>0 DEF BudgetRows
  <2>4. IsFiniteSet(BudgetRows) /\ \A r \in BudgetRows : r.amount \in Int
    BY FS_Subset DEF BudgetRows, ProjectionsInv, ProjectionsTyped, RowType
  <2>5. Total(BudgetRows) \in Int
    BY <2>4, TotalInt
  <2> QED
    BY <2>1, <2>2, <2>3, <2>5
<1>6. Sums(LineOf(p, range.start, RowItems(p) \cup BudgetItems(p, today)'))
        = Sums(LineOf(p, range.start, RowItems(p) \cup BudgetItems(p, today)))
  <2>1. CASE ~InPeriod(p, budget.end)
    <3>1. BudgetItems(p, today)' = {} /\ BudgetItems(p, today) = {}
      BY <1>0, <2>1 DEF BudgetItems
    <3> QED
      BY <3>1
  <2>2. CASE InPeriod(p, budget.end)
    <3> DEFINE x == Item("budget", budget.end, budget.end, Spent, -1, NoAccount, today < budget.start)
               y == Item("budget", budget.end, budget.end, Spent, -1, NoAccount, today' < budget.start)
    <3>1. budget.end \in Int /\ budget.end < today /\ budget.end < today'
      BY <1>0, <1>1, <2>2 DEF InPeriod, ProjectionsInv, ProjectionsTyped
    <3>2. BudgetAmount(today) = Spent /\ BudgetAmount(today)' = Spent
      BY <1>0, <1>5, <3>1 DEF BudgetAmount
    <3>3. CASE Spent > 0
      <4>1. BudgetItems(p, today) = {x} /\ BudgetItems(p, today)' = {y}
        BY <1>0, <2>2, <3>2, <3>3 DEF BudgetItems
      <4>2. /\ x.amount = Spent /\ y.amount = Spent /\ x.sign = y.sign /\ x.date = y.date
            /\ x.of = "budget" /\ y.of = "budget"
        BY DEF Item
      <4>3. IsFiniteSet(RowItems(p)) /\ \A i \in RowItems(p) : i.amount \in Int /\ i.of # "budget"
        BY RowItemsAre DEF ProjectionsInv
      <4> HIDE DEF x, y
      <4>4. x \notin RowItems(p) /\ y \notin RowItems(p)
        BY <4>2, <4>3
      <4>5. Sums(LineOf(p, range.start, RowItems(p) \cup {x}))
              = Sums(LineOf(p, range.start, RowItems(p) \cup {y}))
        BY <1>5, <4>2, <4>3, <4>4, SumsExchange
      <4> QED
        BY <4>1, <4>5
    <3>4. CASE ~(Spent > 0)
      <4>1. BudgetItems(p, today) = {} /\ BudgetItems(p, today)' = {}
        BY <1>0, <3>2, <3>4 DEF BudgetItems
      <4> QED
        BY <4>1
    <3> QED
      BY <3>3, <3>4
  <2> QED
    BY <2>1, <2>2
<1>7. Sums(Line(p, range.start, today))' = Sums(Line(p, range.start, today))
  <2>1. Sums(Line(p, range.start, today)) = Sums(LineOf(p, range.start, ItemsIn(p, today)))
    BY LineIs
  <2>2. Line(p, range.start, today)' = LineOf(p, range.start, ItemsIn(p, today)')
    BY <1>0 DEF Line, LineOf
  <2>3. Sums(Line(p, range.start, today))' = Sums(LineOf(p, range.start, ItemsIn(p, today)'))
    BY <2>2 DEF Sums
  <2> QED
    BY <1>2, <1>3, <1>4, <1>6, <2>1, <2>3
<1>8. Frozen(p)'
  BY StaysListed
<1>9. FrozenShown'
  BY FrozenShownIs, PTL
<1> QED
  BY <1>7, <1>8, <1>9 DEF FrozenShown

LEMMA PaymentsRefreeze ==
    ASSUME ProjectionsInv, ProjectionsInv', NEW p, Frozen(p), NEW d \in ClientDays,
           \/ PayPlanned(d)
           \/ \E on \in NearToday : \/ EarlyPayPlanned(on, d)
                                   \/ \E due \in d..(d + HorizonDays) : EarlyPay(due, on, d)
    PROVE  Sums(Line(p, range.start, today)) \in FrozenSums'
<1>1. CASE PayPlanned(d)
  <2>1. PICK a \in Pick(planned.account, d) :
             rows' = rows \cup {NewRow("planned", planned.date, d, a, NoAccount)}
    BY <1>1 DEF PayPlanned
  <2>2. d \in Int /\ p.end < d
    <3>1. p.end \in Int /\ p.end < today - 1 /\ today \in Int
      BY FrozenFacts DEF ProjectionsInv, ProjectionsTyped
    <3> QED
      BY <3>1 DEF ClientDays
  <2> QED
    BY <1>1, <2>1, <2>2, PaymentRefreezes DEF PayPlanned
<1>2. ASSUME NEW on \in NearToday, MayPay(planned.date, on, d) \/ \E due : MayPay(due, on, d)
      PROVE  on \in Int /\ p.end < on
  <2>1. on \in Int
    BY NearTyped DEF ProjectionsInv
  <2>2. InPeriod(PeriodContaining(PayDays, d), on)
    BY <1>2 DEF MayPay, PayDays
  <2> QED
    BY <2>1, <2>2, CurrentPeriodLater
<1>3. ASSUME NEW on \in NearToday, EarlyPayPlanned(on, d)
      PROVE  Sums(Line(p, range.start, today)) \in FrozenSums'
  <2>1. PICK a \in Pick(NoAccount, on) :
             rows' = rows \cup {NewRow("planned", planned.date, on, a, NoAccount)}
    BY <1>3 DEF EarlyPayPlanned
  <2>2. on \in Int /\ p.end < on
    BY <1>2, <1>3 DEF EarlyPayPlanned
  <2> QED
    BY <1>3, <2>1, <2>2, PaymentRefreezes DEF EarlyPayPlanned
<1>4. ASSUME NEW on \in NearToday, NEW due \in d..(d + HorizonDays), EarlyPay(due, on, d)
      PROVE  Sums(Line(p, range.start, today)) \in FrozenSums'
  <2>1. PICK a \in Pick(NoAccount, on) :
             rows' = rows \cup {NewRow("expense", due, on, a, NoAccount)}
    BY <1>4 DEF EarlyPay
  <2>2. on \in Int /\ p.end < on
    BY <1>2, <1>4 DEF EarlyPay
  <2> QED
    BY <1>4, <2>1, <2>2, PaymentRefreezes DEF EarlyPay
<1> QED
  BY <1>1, <1>3, <1>4

(* Only steps that rebuild all of the history change what accounts bring in.    *)
FreeMoney(account_) ==
    MapThenSumSet(LAMBDA a : Opening[a], {a \in Accounts : ~account_[a].excluded})

LEMMA InitialIs == InitialFreeMoney = FreeMoney(account)
BY DEF InitialFreeMoney, FreeMoney

LEMMA OpeningKept ==
    ASSUME Next, touched' # FirstDate PROVE InitialFreeMoney' = InitialFreeMoney
<1>1. account' = account
  <2>1. CASE Job
    BY <2>1 DEF Job, Charge
  <2>2. CASE Tick
    BY <2>2 DEF Tick
  <2>3. CASE Requests
    BY <2>3 DEF Requests, EarlyPayPlanned, EarlyPay, PayPlanned, CompleteBudget, MovePlanned, Spend,
         EndExpense, AddRow, MoveRow, DeleteRow, VoidCharge, ExcludeAccount, ArchiveAccount, Request,
         DeleteTemplate, DeletePlanned
  <2> QED
    BY <2>1, <2>2, <2>3 DEF Next
<1>2. (InitialFreeMoney = FreeMoney(account))'
  BY InitialIs, PTL
<1> QED
  BY <1>1, <1>2, InitialIs

LEMMA StepRefreezes ==
    ASSUME ProjectionsInv, ProjectionsInv', Next
    PROVE  /\ {l \in FrozenSums : l.pay < touched'} \subseteq FrozenSums'
           /\ touched' # FirstDate => InitialFreeMoney' = InitialFreeMoney
<1>1. ASSUME NEW p, Frozen(p), p.pay < touched'
      PROVE  Sums(Line(p, range.start, today)) \in FrozenSums'
  <2>1. CASE Job
    <3>1. PICK k \in Templates, due \in (today - CatchUpDays)..today : Charge(k, due)
      BY <2>1 DEF Job
    <3> QED
      BY <1>1, <3>1, ChargeRefreezes
  <2>2. CASE Tick
    BY <1>1, <2>2, TickRefreezes
  <2>3. ASSUME \E d \in ClientDays :
                   \/ PayPlanned(d)
                   \/ \E on \in NearToday :
                          \/ EarlyPayPlanned(on, d)
                          \/ \E due \in d..(d + HorizonDays) : EarlyPay(due, on, d)
        PROVE  Sums(Line(p, range.start, today)) \in FrozenSums'
    BY <1>1, <2>3, PaymentsRefreeze
  <2>4. ASSUME \/ \E d \in NearToday, a \in Accounts, of \in {"earning", "spending"} : AddRow(of, d, a)
               \/ \E d \in NearToday : Spend(d) \/ \E r \in rows : MoveRow(r, d)
               \/ \E r \in rows : DeleteRow(r) \/ VoidCharge(r)
        PROVE  Sums(Line(p, range.start, today)) \in FrozenSums'
    BY <1>1, <2>4, RowRequestsRefreeze
  <2>5. ASSUME \/ \E d \in ClientDays : CompleteBudget(d)
               \/ \E a \in Accounts : ExcludeAccount(a) \/ ArchiveAccount(a)
               \/ \E d \in NearToday : MovePlanned(d) \/ EndExpense(d)
               \/ \E k \in Templates \ {"income"} : DeleteTemplate(k)
               \/ DeletePlanned
        PROVE  Sums(Line(p, range.start, today)) \in FrozenSums'
    BY <1>1, <2>5, OtherRequestsRefreeze
  <2>6. CASE Requests
    BY <2>3, <2>4, <2>5, <2>6, Zenon DEF Requests
  <2> QED
    BY <2>1, <2>2, <2>6 DEF Next
<1>2. ASSUME NEW l \in FrozenSums, l.pay < touched' PROVE l \in FrozenSums'
  <2>1. PICK p : Frozen(p) /\ l = Sums(Line(p, range.start, today)) /\ l.pay = p.pay
    BY FrozenSumsAre
  <2> QED
    BY <1>1, <1>2, <2>1
<1> QED
  BY <1>2, OpeningKept

(* Whatever a step does, the frozen periods before the date it re-freezes from  *)
(* are as they were: the dates every handler gives to finish_write and the job  *)
(* to refresh_history_for_date reach back far enough, and the next day changes   *)
(* none.                                                                   *)
THEOREM HistoryRefrozen == Spec => RefreezeReachesFarEnough
<1> DEFINE Refrozen == /\ {l \in FrozenSums : l.pay < touched'} \subseteq FrozenSums'
                       /\ touched' # FirstDate => InitialFreeMoney' = InitialFreeMoney
<1>1. ProjectionsInv /\ ProjectionsInv' /\ [Next]_vars => [Refrozen]_vars
  <2> HIDE DEF Refrozen
  <2>1. ASSUME ProjectionsInv, ProjectionsInv', Next PROVE Refrozen
    BY <2>1, StepRefreezes DEF Refrozen
  <2> QED
    BY <2>1
<1> QED
  BY <1>1, ProjectionsInvariant, PTL DEF Spec, RefreezeReachesFarEnough, Refrozen

-----------------------------------------------------------------------------
(* The rows of a projection. *)

LEMMA EndsHere == ASSUME NEW n \in Nat, NEW S, NEW f \in [1..n -> S] PROVE f \o <<>> = f /\ f \in Seq(S)
<1>1. f \in Seq(S)
  OBVIOUS
<1> QED
  BY <1>1, ConcatEmptySeq

(* The period a day of the list is within, as its row shows it. *)
ShownItems(p) ==
    LET from == EffectiveStart(p, range.start) IN
    {i \in ItemsIn(p, today) : IF i.sign = 1 THEN from = p.start ELSE i.date >= from}

(* A row of a list has the line of its period. *)
RowOf(row, line) ==
    /\ row.pay = line.pay /\ row.start = line.start /\ row.end = line.end
    /\ row.income = line.income /\ row.expense = line.expense /\ row.items = line.items

LEMMA LinesAre ==
    ASSUME NEW s \in ScheduleType, NEW ps, Cut(s, ps), NEW start, NEW asOf
    PROVE  LET lines == LinesOf(ps, start, asOf) IN
           /\ Len(lines) = Len(ps) /\ DOMAIN lines = DOMAIN ps
           /\ \A n \in DOMAIN ps : lines[n] = Line(ps[n], start, asOf)
<1> DEFINE S == {Line(ps[n], start, asOf) : n \in DOMAIN ps}
           f == [n \in DOMAIN ps |-> Line(ps[n], start, asOf)]
<1>1. Len(ps) \in Nat /\ DOMAIN ps = 1..Len(ps)
  BY CutFacts
<1>2. f \in [1..Len(ps) -> S]
  BY <1>1
<1>3. LinesOf(ps, start, asOf) = f \o <<>>
  BY DEF LinesOf
<1>4. \A n \in DOMAIN ps : f[n] = Line(ps[n], start, asOf)
  OBVIOUS
<1>5. DOMAIN f = DOMAIN ps
  OBVIOUS
<1> HIDE DEF f, S
<1>6. LinesOf(ps, start, asOf) = f /\ f \in Seq(S)
  BY <1>1, <1>2, <1>3, EndsHere
<1>7. Len(f) = Len(ps)
  BY <1>1, <1>5, <1>6
<1> QED
  BY <1>4, <1>5, <1>6, <1>7

LEMMA RunningAre ==
    ASSUME NEW lines, Len(lines) \in Nat, DOMAIN lines = 1..Len(lines), NEW opening
    PROVE  LET built == Running(lines, opening) IN
           /\ Len(built) = Len(lines) /\ DOMAIN built = DOMAIN lines
           /\ \A n \in DOMAIN lines : RowOf(built[n], lines[n])
           /\ \E S : built \in Seq(S)
<1> DEFINE until == CHOOSE g : g = [n \in 0..Len(lines) |->
                        IF n = 0 THEN opening ELSE g[n - 1] + Net(lines[n])]
           row(n) == [pay |-> lines[n].pay, start |-> lines[n].start, end |-> lines[n].end,
             income |-> lines[n].income, expense |-> lines[n].expense,
             free |-> IF lines[n].opening THEN opening ELSE Net(lines[n]),
             cumulative |-> until[n], items |-> lines[n].items]
           f == [n \in DOMAIN lines |-> row(n)]
           S == {row(n) : n \in DOMAIN lines}
<1>1. Running(lines, opening) = f \o <<>>
  BY DEF Running
<1> HIDE DEF until
<1>2. f \in [1..Len(lines) -> S]
  OBVIOUS
<1>3. \A n \in DOMAIN lines : RowOf(f[n], lines[n])
  BY DEF RowOf
<1>4. DOMAIN f = 1..Len(lines)
  OBVIOUS
<1> HIDE DEF f, S
<1>5. Running(lines, opening) = f /\ f \in Seq(S)
  BY <1>1, <1>2, EndsHere
<1>6. Len(f) = Len(lines)
  BY <1>4, <1>5
<1> QED
  BY <1>3, <1>4, <1>5, <1>6

LEMMA ListedWithin ==
    ASSUME ProjectionsInv, NEW n \in DOMAIN Projected
    PROVE  Projected[n].end <= LastPeriod.end /\ FirstDay <= Projected[n].start
<1> DEFINE s == PayDays
           ps == Projected
           from == LeastOf(ProjectionStart, today)
           lp == PeriodContaining(s, from)
           a == ps[1].start
           q == ps[n]
<1>1. /\ Cut(s, ps)
      /\ \A i \in DOMAIN ps : Overlaps(s, ProjectionStart, ProjectionEnd, ps[i])
      /\ ps # <<>> => InPeriod(ps[1], ProjectionStart)
  BY ProjectedFacts
<1>2. /\ s \in ScheduleType /\ ProjectionStart \in Dates /\ ProjectionEnd \in Dates /\ today \in Dates
      /\ from \in Dates /\ FirstDay \in Dates
      /\ LastPeriod.end \in Dates /\ LastPeriod.end \in Int /\ ProjectionEnd <= LastPeriod.end
      /\ from <= LastPeriod.end
      /\ Reaches(s, LastPeriod.end + 744)
      /\ ReachesBack(s, from) /\ ReachesBack(s, FirstDay)
  BY RangeFacts
<1>3. /\ ProjectionStart \in Int /\ ProjectionEnd \in Int /\ from \in Int /\ FirstDay \in Int
      /\ from <= ProjectionStart
  <2>1. \A d \in Dates : d \in Int
    BY DateFacts
  <2> QED
    BY <1>2, <2>1 DEF LeastOf
<1> HIDE DEF from
<1>4. n \in Nat /\ n >= 1 /\ ps # <<>> /\ 1 \in DOMAIN ps /\ Len(ps) \in Nat
  BY <1>1, <1>2, CutFacts
<1>5. /\ a \in Int /\ ps[1].end \in Int /\ a < ps[1].end /\ PayPeriod(s, ps[1])
      /\ q.start \in Int /\ q.end \in Int /\ q.start < q.end /\ PayPeriod(s, q)
  BY <1>1, <1>2, <1>4, CutFacts
<1>6. a <= q.start
  <2>1. CASE n = 1
    BY <1>5, <2>1
  <2>2. CASE n # 1
    <3>1. 1 < n
      BY <1>4, <2>2
    <3>2. ps[1].end < ps[n].start
      BY <1>1, <1>2, <1>4, <3>1, CutIncreases
    <3> QED
      BY <1>5, <3>2
  <2> QED
    BY <2>1, <2>2
<1>7. FirstDay <= a
  <2>1. PayPeriod(s, lp) /\ InPeriod(lp, from)
    <3>1. from <= LastPeriod.end + 744 /\ LastPeriod.end + 744 \in Int
      BY <1>2, <1>3
    <3> QED
      BY <1>2, <3>1, ContainingIs
  <2>2. lp.start <= a
    <3>1. InPeriod(ps[1], ProjectionStart)
      BY <1>1, <1>4
    <3> HIDE DEF lp
    <3> QED
      BY <1>2, <1>3, <1>5, <2>1, <3>1, PeriodsOrder
  <2>3. FirstDay = lp.start
    BY DEF FirstDay, from
  <2> QED
    BY <2>2, <2>3
<1> HIDE DEF lp, a, q
<1>8. q.start <= ProjectionEnd
  BY <1>1 DEF Overlaps, q
<1>9. FirstDay <= ProjectionEnd
  BY <1>3, <1>5, <1>6, <1>7, <1>8
<1>10. PayPeriod(s, LastPeriod) /\ InPeriod(LastPeriod, ProjectionEnd)
  <2>1. ReachesBack(s, ProjectionEnd)
    BY <1>2, <1>9, ReachesBackLater
  <2>2. ProjectionEnd <= LastPeriod.end + 744 /\ LastPeriod.end + 744 \in Int
    BY <1>2, <1>3
  <2>3. LastPeriod = PeriodContaining(s, ProjectionEnd)
    BY DEF LastPeriod
  <2> QED
    BY <1>2, <2>1, <2>2, <2>3, ContainingIs
<1>11. InPeriod(q, q.start)
  BY <1>5 DEF InPeriod
<1>12. q.end <= LastPeriod.end
  BY <1>2, <1>3, <1>5, <1>8, <1>10, <1>11, PeriodsOrder
<1>13. FirstDay <= q.start
  BY <1>3, <1>5, <1>6, <1>7
<1> QED
  BY <1>12, <1>13 DEF q

ProjectedRows ==
    LET built == Projection(today) IN
    /\ Len(built) = Len(Projected) /\ DOMAIN built = DOMAIN Projected
    /\ \A n \in DOMAIN Projected : RowOf(built[n], Line(Projected[n], range.start, today))

LEMMA InvProjectedRows == ProjectionsInv => ProjectedRows
<1> SUFFICES ASSUME ProjectionsInv PROVE ProjectedRows
  OBVIOUS
<1> DEFINE lines == LinesOf(Projected, range.start, today)
<1>1. PayDays \in ScheduleType /\ Cut(PayDays, Projected)
  BY RangeFacts, ProjectedFacts
<1>2. Len(Projected) \in Nat /\ DOMAIN Projected = 1..Len(Projected)
  BY <1>1, CutFacts
<1>3. /\ Len(lines) = Len(Projected) /\ DOMAIN lines = DOMAIN Projected
      /\ \A n \in DOMAIN Projected : lines[n] = Line(Projected[n], range.start, today)
  BY <1>1, LinesAre
<1>4. Projection(today) = Running(lines, InitialFreeMoney)
  BY DEF Projection, BuildRows, Projected, PayDays
<1> HIDE DEF lines
<1>5. /\ Len(Projection(today)) = Len(lines) /\ DOMAIN Projection(today) = DOMAIN lines
      /\ \A n \in DOMAIN lines : RowOf(Projection(today)[n], lines[n])
  BY <1>2, <1>3, <1>4, RunningAre
<1> QED
  BY <1>3, <1>5 DEF ProjectedRows

(* Only the first period may begin before its row. *)
LEMMA StartsAre ==
    ASSUME ProjectionsInv, NEW n \in DOMAIN Projected
    PROVE  LET p == Projected[n]
               from == EffectiveStart(p, range.start) IN
           /\ from \in Int /\ p.start <= from /\ from <= p.end
           /\ from # p.start => from = range.start /\ n = 1
<1> DEFINE p == Projected[n]
           from == EffectiveStart(p, range.start)
<1>1. PayDays \in ScheduleType /\ Cut(PayDays, Projected)
      /\ (Projected # <<>> => InPeriod(Projected[1], ProjectionStart))
  BY RangeFacts, ProjectedFacts
<1>2. /\ n \in Nat /\ n >= 1 /\ Projected # <<>> /\ 1 \in DOMAIN Projected
      /\ p.start \in Int /\ p.end \in Int /\ p.start < p.end
      /\ Projected[1].end \in Int
  BY <1>1, CutFacts
<1>3. range.start # NoDate => range.start \in Int /\ range.start = ProjectionStart
  <2>1. \A d \in Dates : d \in Int
    BY DateFacts
  <2> QED
    BY <2>1 DEF ProjectionsInv, ProjectionsTyped, ProjectionStart
<1>4. ASSUME n # 1, range.start # NoDate PROVE range.start < p.start
  <2>1. Projected[1].end < p.start
    BY <1>1, <1>2, <1>4, CutIncreases
  <2>2. range.start <= Projected[1].end
    BY <1>1, <1>2, <1>3, <1>4 DEF InPeriod
  <2> HIDE DEF p
  <2> QED
    BY <1>2, <1>3, <1>4, <2>1, <2>2
<1> HIDE DEF p
<1> QED
  BY <1>2, <1>3, <1>4 DEF EffectiveStart, p

(* What is shown of a schedule are its occurrences from today on that no row     *)
(* stands for; none does when the slot is free.                              *)
DueIn(k, p) ==
    {d \in p.start..p.end : Occurs(Schedule(k), d) /\ d >= today /\ <<k, d>> \notin Materialized}
DueItem(k, d) == Item(k, d, d, Amount[k], Sign(k, template[k].to), template[k].account, TRUE)

LEMMA MaterializedIsRecorded ==
    /\ Materialized \subseteq Recorded
    /\ \A d : <<"expense", d>> \in Recorded => <<"expense", d>> \in Materialized
BY DEF Materialized, Recorded

LEMMA TemplateItemsAre ==
    ASSUME ProjectionsInv, NEW p, p.start \in Int, p.end \in Int, p.end <= LastPeriod.end,
           NEW k \in Templates
    PROVE  TemplateItems(k, p, today) = {DueItem(k, d) : d \in DueIn(k, p)}
<1>1. Schedule(k) \in ScheduleType
  BY TemplateFacts DEF ProjectionsInv
<1>2. Reaches(Schedule(k), LastPeriod.end) /\ LastPeriod.end \in Int
  BY ReachedToday, RangeFacts DEF Reached, Schedule, LastPeriod, PayDays, ProjectionEnd
<1>3. Reaches(Schedule(k), p.end)
  BY <1>1, <1>2, ReachesLess
<1>4. PayDatesInRange(Schedule(k), p.start, p.end) = {d \in p.start..p.end : Occurs(Schedule(k), d)}
  BY <1>1, <1>3, PayDatesAreOccurrences
<1>5. {d \in PayDatesInRange(Schedule(k), p.start, p.end) : Upcoming(d, today) /\ <<k, d>> \notin Materialized}
        = DueIn(k, p)
  BY <1>4 DEF DueIn, Upcoming
<1> QED
  BY <1>5 DEF TemplateItems, DueItem

(* Where an item of a period comes from. *)
RowItem(r) == Item(r.of, r.due, r.date, r.amount, Sign(r.of, r.to), r.account, FALSE)

PlannedItem ==
    Item("planned", planned.date, PlannedDate(today), Amount["planned"], -1, planned.account, TRUE)
ComesFrom(p, i) ==
    \/ \E r \in rows : r.live /\ InPeriod(p, r.date) /\ Counts(r) /\ i = RowItem(r)
    \/ /\ ~Paid /\ planned.live /\ InPeriod(p, PlannedDate(today)) /\ ~Excludes(planned.account)
       /\ i = PlannedItem
    \/ i.of = "budget" /\ i.sign = -1 /\ InPeriod(p, i.date) /\ i.date = budget.end
    \/ \E k \in Templates : Shows(k) /\ \E d \in DueIn(k, p) : i = DueItem(k, d)

LEMMA ItemsAre ==
    ASSUME ProjectionsInv, NEW p, p.start \in Int, p.end \in Int, p.end <= LastPeriod.end,
           NEW i \in ItemsIn(p, today)
    PROVE  ComesFrom(p, i)
<1>1. CASE i \in RowItems(p)
  BY <1>1 DEF RowItems, RowItem, ComesFrom
<1>2. CASE i \in PlannedItems(p, today)
  BY <1>2 DEF PlannedItems, PlannedDue, PlannedItem, ComesFrom
<1>3. CASE i \in BudgetItems(p, today)
  BY <1>3 DEF BudgetItems, Item, ComesFrom
<1>4. CASE \E k \in Templates : Shows(k) /\ i \in TemplateItems(k, p, today)
  <2>1. PICK k \in Templates : Shows(k) /\ i \in TemplateItems(k, p, today)
    BY <1>4
  <2>2. \E d \in DueIn(k, p) : i = DueItem(k, d)
    BY <2>1, TemplateItemsAre
  <2> QED
    BY <2>1, <2>2 DEF ComesFrom
<1> QED
  BY <1>1, <1>2, <1>3, <1>4 DEF ItemsIn

LEMMA RowsShow ==
    ASSUME ProjectionsInv
    PROVE  LET built == Projection(today) IN
           /\ Len(built) = Len(Projected) /\ DOMAIN built = DOMAIN Projected
           /\ Len(Projected) \in Nat /\ DOMAIN Projected = 1..Len(Projected)
           /\ built # <<>> => /\ Projected # <<>> /\ 1 \in DOMAIN Projected /\ Len(Projected) \in DOMAIN Projected
                              /\ Head(built) = built[1] /\ Last(built) = built[Len(Projected)]
           /\ \A n \in DOMAIN Projected :
                 /\ built[n].items = ShownItems(Projected[n]) /\ built[n].pay = Projected[n].pay
                 /\ built[n].start = EffectiveStart(Projected[n], range.start)
                 /\ built[n].end = Projected[n].end
<1> DEFINE built == Projection(today)
<1>1. PayDays \in ScheduleType /\ Cut(PayDays, Projected) /\ ProjectedRows
  BY RangeFacts, ProjectedFacts, InvProjectedRows
<1>2. Len(Projected) \in Nat /\ DOMAIN Projected = 1..Len(Projected)
  BY <1>1, CutFacts
<1>3. Len(built) = Len(Projected) /\ DOMAIN built = DOMAIN Projected
  BY <1>1 DEF ProjectedRows
<1>4. ASSUME NEW n \in DOMAIN Projected
      PROVE  /\ built[n].items = ShownItems(Projected[n]) /\ built[n].pay = Projected[n].pay
             /\ built[n].start = EffectiveStart(Projected[n], range.start)
             /\ built[n].end = Projected[n].end
  <2> DEFINE p == Projected[n]
             line == Line(p, range.start, today)
  <2>1. RowOf(built[n], line)
    BY <1>1 DEF ProjectedRows
  <2>2. line.items = ShownItems(p) /\ line.pay = p.pay /\ line.start = EffectiveStart(p, range.start)
        /\ line.end = p.end
    BY DEF Line, Summed, ShownItems
  <2> HIDE DEF line, p, built
  <2> QED
    BY <2>1, <2>2 DEF RowOf, p
<1>5. ASSUME built # <<>>
      PROVE  /\ Projected # <<>> /\ 1 \in DOMAIN Projected /\ Len(Projected) \in DOMAIN Projected
             /\ Head(built) = built[1] /\ Last(built) = built[Len(Projected)]
  <2>1. \E S : built \in Seq(S)
    <3> DEFINE S == {built[n] : n \in DOMAIN built}
    <3>1. PICK lines : built = Running(lines, InitialFreeMoney) /\ Len(lines) \in Nat /\ DOMAIN lines = 1..Len(lines)
      <4>1. built = Running(LinesOf(Projected, range.start, today), InitialFreeMoney)
        BY DEF Projection, BuildRows, Projected, PayDays
      <4> HIDE DEF built
      <4> QED
        BY <1>1, <1>2, <4>1, LinesAre
    <3> HIDE DEF built
    <3> QED
      BY <3>1, RunningAre
  <2> HIDE DEF built
  <2> QED
    BY <1>2, <1>3, <1>5, <2>1 DEF Last
<1> HIDE DEF built
<1> QED
  BY <1>2, <1>3, <1>4, <1>5 DEF built

-----------------------------------------------------------------------------
(* What may be paid early. *)

LEMMA KindsDiffer ==
    /\ "expense" # "planned" /\ "expense" # "transfer" /\ "expense" # "income" /\ "planned" # "budget"
    /\ "expense" # "budget" /\ "planned" # "transfer" /\ "planned" # "income"
    /\ "expense" \in Templates /\ "income" \in Templates /\ "transfer" \in Templates
    /\ "planned" \notin Templates /\ "budget" \notin Templates
BY DEF Templates

LEMMA PayableIs ==
    ASSUME ProjectionsInv
    PROVE  Payable(today) =
             {<<"expense", d>> : d \in {x \in (today + 1)..(today + HorizonDays) :
                    Occurs(Schedule("expense"), x) /\ template["expense"].live /\ <<"expense", x>> \notin Recorded}}
             \cup (IF planned.live /\ planned.date > today /\ planned.date <= today + HorizonDays /\ ~Paid
                   THEN {<<"planned", planned.date>>} ELSE {})
<1> DEFINE s == Schedule("expense")
<1>1. s \in ScheduleType
  BY TemplateFacts DEF ProjectionsInv, Templates
<1>2. Reaches(s, today + HorizonDays)
  BY ReachedToday DEF Reached, Schedule, Templates
<1>3. today \in Int /\ HorizonDays \in Int
  BY ProjectionsAssumption DEF ProjectionsInv, ProjectionsTyped
<1> HIDE DEF s
<1>4. PayDatesInRange(s, today + 1, today + HorizonDays) = {d \in (today + 1)..(today + HorizonDays) : Occurs(s, d)}
  BY <1>1, <1>2, <1>3, PayDatesAreOccurrences
<1> DEFINE D == {d \in PayDatesInRange(s, today + 1, today + HorizonDays) :
                    template["expense"].live /\ <<"expense", d>> \notin Recorded}
           E == {x \in (today + 1)..(today + HorizonDays) :
                    Occurs(s, x) /\ template["expense"].live /\ <<"expense", x>> \notin Recorded}
<1>5. D = E
  BY <1>4
<1>6. Payable(today) = {<<"expense", d>> : d \in D}
             \cup (IF planned.live /\ planned.date > today /\ planned.date <= today + HorizonDays /\ ~Paid
                   THEN {<<"planned", planned.date>>} ELSE {})
  BY DEF Payable, PayableSince, s
<1> HIDE DEF D
<1>7. Payable(today) = {<<"expense", d>> : d \in E}
             \cup (IF planned.live /\ planned.date > today /\ planned.date <= today + HorizonDays /\ ~Paid
                   THEN {<<"planned", planned.date>>} ELSE {})
  BY <1>5, <1>6
<1> QED
  BY <1>7 DEF s

LEMMA OfferedMayBePaid ==
    ASSUME ProjectionsInv, NEW o \in Payable(today)
    PROVE  /\ MayPay(o[2], today, today) /\ o[2] \in Int
           /\ o[1] = "expense" => OccursOn(Schedule("expense"), o[2])
<1>1. today \in Int /\ HorizonDays \in Int /\ planned.date \in Int /\ today \in Dates
  BY ProjectionsAssumption, RangeFacts DEF ProjectionsInv, ProjectionsTyped
<1>2. today < o[2] /\ o[2] \in Int /\ o[2] <= today + HorizonDays
      /\ (o[1] = "expense" => Occurs(Schedule("expense"), o[2]))
  <2>1. CASE \E x \in (today + 1)..(today + HorizonDays) : Occurs(Schedule("expense"), x) /\ o = <<"expense", x>>
    BY <1>1, <2>1
  <2>2. CASE planned.date > today /\ planned.date <= today + HorizonDays /\ o = <<"planned", planned.date>>
    BY <1>1, <2>2
  <2> QED
    BY <2>1, <2>2, PayableIs
<1>3. InPeriod(PeriodContaining(PayDays, today), today)
  <2>1. PayDays \in ScheduleType
    BY RangeFacts
  <2>2. Reaches(PayDays, today + HorizonDays) /\ today <= today + HorizonDays /\ today + HorizonDays \in Int
    BY <1>1, ReachedToday, ProjectionsAssumption DEF Reached, PayDays, Schedule, Templates
  <2>3. ReachesBack(PayDays, today)
    <3>1. LeastOf(ProjectionStart, today) <= today /\ LeastOf(ProjectionStart, today) \in Dates
          /\ ReachesBack(PayDays, LeastOf(ProjectionStart, today))
      <4>1. ProjectionStart \in Int
        <5>1. \A d \in Dates : d \in Int
          BY DateFacts
        <5> QED
          BY <5>1, RangeFacts
      <4>2. LeastOf(ProjectionStart, today) <= today
        BY <1>1, <4>1 DEF LeastOf
      <4> QED
        BY <4>2, RangeFacts
    <3> QED
      BY <1>1, <2>1, <3>1, ReachesBackLater
  <2> QED
    BY <1>1, <2>1, <2>2, <2>3, ContainingIs
<1>4. o[1] = "expense" => OccursOn(Schedule("expense"), o[2])
  <2>1. Schedule("expense") \in ScheduleType
    BY TemplateFacts DEF ProjectionsInv, Templates
  <2>2. Reaches(Schedule("expense"), today + HorizonDays)
    BY ReachedToday DEF Reached, Schedule, Templates
  <2>3. Reaches(Schedule("expense"), o[2])
    BY <1>1, <1>2, <2>1, <2>2, ReachesLess
  <2> QED
    BY <1>2, <2>1, <2>3, OccursOnAgrees
<1> QED
  BY <1>1, <1>2, <1>3, <1>4 DEF MayPay, PayDays

LEMMA AheadIsOffered ==
    ASSUME ProjectionsInv, NEW n \in DOMAIN Projected, NEW x \in ItemsIn(Projected[n], today),
           x.projected, x.of \in {"expense", "planned"}, x.due > today, x.due <= today + HorizonDays
    PROVE  <<x.of, x.due>> \in Payable(today)
<1> DEFINE p == Projected[n]
<1>0. PayDays \in ScheduleType /\ Cut(PayDays, Projected) /\ p.end <= LastPeriod.end
  BY RangeFacts, ProjectedFacts, ListedWithin
<1>1. p.start \in Int /\ p.end \in Int
  BY <1>0, CutFacts
<1> HIDE DEF p
<1>2. x \in ItemsIn(p, today)
  BY DEF p
<1>3. CASE \E r \in rows : r.live /\ InPeriod(p, r.date) /\ Counts(r) /\ x = RowItem(r)
  BY <1>3 DEF RowItem, Item
<1>4. CASE /\ ~Paid /\ planned.live
           /\ x = PlannedItem
  <2>1. x.of = "planned" /\ x.due = planned.date
    BY <1>4 DEF PlannedItem, Item
  <2> QED
    BY <1>4, <2>1, PayableIs
<1>5. CASE x.of = "budget"
  BY <1>5
<1>6. ASSUME NEW k \in Templates, Shows(k), NEW d \in DueIn(k, p), x = DueItem(k, d)
      PROVE  <<x.of, x.due>> \in Payable(today)
  <2>1. x.of = k /\ x.due = d
    BY <1>6 DEF DueItem, Item
  <2>2. k = "expense"
    BY <2>1 DEF Templates
  <2>3. template["expense"].live
    BY <1>6, <2>2 DEF Shows
  <2>4. d \in Int /\ today \in Int /\ HorizonDays \in Int /\ Occurs(Schedule("expense"), d) /\ <<"expense", d>> \notin Recorded
    BY <1>1, <2>2, MaterializedIsRecorded, ProjectionsAssumption DEF DueIn, ProjectionsInv, ProjectionsTyped
  <2>5. d \in (today + 1)..(today + HorizonDays)
    BY <2>1, <2>4
  <2> QED
    BY <2>1, <2>2, <2>3, <2>4, <2>5, PayableIs
<1>7. CASE \E k \in Templates : Shows(k) /\ \E d \in DueIn(k, p) : x = DueItem(k, d)
  BY <1>6, <1>7
<1>8. p.end <= LastPeriod.end
  BY <1>0 DEF p
<1>9. ComesFrom(p, x)
  BY <1>1, <1>2, <1>8, ItemsAre
<1> QED
  BY <1>3, <1>4, <1>5, <1>7, <1>9, Zenon DEF ComesFrom

(* A day from the first row's to the last's is in the period of a row, and not  *)
(* before the row.                                                          *)
LEMMA RowsCover ==
    ASSUME ProjectionsInv, Projected # <<>>, NEW d \in Int,
           EffectiveStart(Projected[1], range.start) <= d, d <= Projected[Len(Projected)].end
    PROVE  \E n \in DOMAIN Projected : /\ InPeriod(Projected[n], d)
                                      /\ EffectiveStart(Projected[n], range.start) <= d
<1>1. PayDays \in ScheduleType /\ Cut(PayDays, Projected)
  BY RangeFacts, ProjectedFacts
<1>2. /\ 1 \in DOMAIN Projected /\ Projected[1].start \in Int
      /\ \A n \in DOMAIN Projected : Projected[n].start \in Int
  BY <1>1, CutFacts
<1>3. Projected[1].start <= d
  <2> DEFINE from == EffectiveStart(Projected[1], range.start)
  <2>1. from \in Int /\ Projected[1].start <= from
    BY <1>2, StartsAre
  <2> HIDE DEF from
  <2>2. from <= d
    BY DEF from
  <2> QED
    BY <1>2, <2>1, <2>2
<1>4. PICK n \in DOMAIN Projected : InPeriod(Projected[n], d)
  BY <1>1, <1>3, CutCovers
<1>5. CASE EffectiveStart(Projected[n], range.start) = Projected[n].start
  BY <1>4, <1>5 DEF InPeriod
<1>6. CASE EffectiveStart(Projected[n], range.start) # Projected[n].start
  <2>1. n = 1
    BY <1>4, <1>6, StartsAre
  <2> QED
    BY <1>4, <2>1
<1> QED
  BY <1>4, <1>5, <1>6

LEMMA OfferedIsAhead ==
    ASSUME ProjectionsInv, \A a \in Accounts : ~Excludes(a), NEW o \in Payable(today),
           Projected # <<>>,
           EffectiveStart(Projected[1], range.start) <= o[2], o[2] <= Projected[Len(Projected)].end
    PROVE  \E n \in DOMAIN Projected : \E x \in ShownItems(Projected[n]) :
              /\ <<x.of, x.due>> = o /\ x.projected /\ x.of \in {"expense", "planned"}
              /\ x.due > today /\ x.due <= today + HorizonDays
<1>0. /\ today \in Int /\ HorizonDays \in Int /\ planned.date \in Int
      /\ \A a : ~Excludes(a)
  BY ProjectionsAssumption DEF ProjectionsInv, ProjectionsTyped, Excludes
<1>1. PayDays \in ScheduleType /\ Cut(PayDays, Projected)
  BY RangeFacts, ProjectedFacts
<1>2. CASE \E x \in (today + 1)..(today + HorizonDays) :
              /\ Occurs(Schedule("expense"), x) /\ template["expense"].live /\ <<"expense", x>> \notin Recorded
              /\ o = <<"expense", x>>
  <2>1. PICK d \in (today + 1)..(today + HorizonDays) :
              /\ Occurs(Schedule("expense"), d) /\ template["expense"].live /\ <<"expense", d>> \notin Recorded
              /\ o = <<"expense", d>>
    BY <1>2
  <2>2. d \in Int /\ d > today /\ d <= today + HorizonDays /\ o[2] = d
    BY <1>0, <2>1
  <2>3. PICK n \in DOMAIN Projected : /\ InPeriod(Projected[n], d)
                                     /\ EffectiveStart(Projected[n], range.start) <= d
    BY <2>2, RowsCover
  <2> DEFINE p == Projected[n]
             x == DueItem("expense", d)
  <2>4. p.start \in Int /\ p.end \in Int /\ p.end <= LastPeriod.end
    BY <1>1, CutFacts, ListedWithin
  <2>5. d \in DueIn("expense", p)
    BY <1>0, <2>1, <2>2, <2>3, <2>4, MaterializedIsRecorded DEF DueIn, InPeriod
  <2>6. Shows("expense")
    BY <1>0, <2>1 DEF Shows
  <2>7. x.of = "expense" /\ x.due = d /\ x.date = d /\ x.projected = TRUE /\ x.sign = -1
    BY DEF DueItem, Item, Sign
  <2> HIDE DEF x, p
  <2>8. x \in ItemsIn(p, today)
    <3>1. "expense" \in Templates
      BY DEF Templates
    <3>2. x \in TemplateItems("expense", p, today)
      BY <2>4, <2>5, <3>1, TemplateItemsAre DEF x
    <3> QED
      BY <2>6, <3>1, <3>2 DEF ItemsIn
  <2>9. x \in ShownItems(p)
    BY <2>3, <2>7, <2>8 DEF ShownItems, p
  <2> QED
    BY <2>1, <2>2, <2>7, <2>9 DEF p
<1>3. CASE /\ planned.live /\ planned.date > today /\ planned.date <= today + HorizonDays /\ ~Paid
           /\ o = <<"planned", planned.date>>
  <2> DEFINE d == planned.date
  <2>2. d \in Int /\ d > today /\ d <= today + HorizonDays /\ o[2] = d
    BY <1>0, <1>3
  <2>3. PICK n \in DOMAIN Projected : /\ InPeriod(Projected[n], d)
                                     /\ EffectiveStart(Projected[n], range.start) <= d
    BY <2>2, RowsCover
  <2> DEFINE p == Projected[n]
             x == PlannedItem
  <2>4. PlannedDate(today) = d
    BY <1>0, <2>2 DEF PlannedDate, GreatestOf
  <2>5. d # NoDate
    <3>1. today # NoDate /\ NoDate < today
      BY <1>0, RangeFacts, DateFacts DEF NoDate
    <3> QED
      BY <1>0, <2>2, <3>1 DEF NoDate
  <2>7. x.of = "planned" /\ x.due = d /\ x.date = d /\ x.projected = TRUE /\ x.sign = -1
    BY <2>4 DEF PlannedItem, Item
  <2>8. x \in ItemsIn(p, today)
    <3>1. x \in PlannedItems(p, today)
      BY <1>0, <1>3, <2>3, <2>4, <2>5 DEF PlannedItems, PlannedDue, PlannedItem
    <3> QED
      BY <3>1 DEF ItemsIn
  <2> HIDE DEF x, p
  <2>9. x \in ShownItems(p)
    BY <2>3, <2>7, <2>8 DEF ShownItems, p
  <2> QED
    BY <1>3, <2>2, <2>7, <2>9 DEF p
<1> QED
  BY <1>2, <1>3, PayableIs

LEMMA InvPayableAgrees == ProjectionsInv => PayableAgrees
<1> SUFFICES ASSUME ProjectionsInv PROVE PayableAgrees
  OBVIOUS
<1> DEFINE built == Projection(today)
           offered == Payable(today)
           Ahead(x) == /\ x.projected /\ x.of \in {"expense", "planned"}
                       /\ x.due > today /\ x.due <= today + HorizonDays
           items == {x \in UNION {r.items : r \in Range(built)} : Ahead(x)}
           ahead == {<<i.of, i.due>> : i \in items}
<1>1. /\ DOMAIN built = DOMAIN Projected
      /\ built # <<>> => /\ Projected # <<>> /\ 1 \in DOMAIN Projected /\ Len(Projected) \in DOMAIN Projected
                         /\ Head(built) = built[1] /\ Last(built) = built[Len(Projected)]
      /\ \A n \in DOMAIN Projected : /\ built[n].items = ShownItems(Projected[n])
                                     /\ built[n].start = EffectiveStart(Projected[n], range.start)
                                     /\ built[n].end = Projected[n].end
  BY RowsShow
<1> HIDE DEF built
<1>2. \A x : x \in items <=> Ahead(x) /\ \E n \in DOMAIN Projected : x \in ShownItems(Projected[n])
  <2> HIDE DEF Ahead
  <2> QED
    BY <1>1 DEF Range
<1>3. ahead \subseteq offered
  <2> SUFFICES ASSUME NEW i \in items PROVE <<i.of, i.due>> \in offered
    OBVIOUS
  <2>1. PICK n \in DOMAIN Projected : i \in ShownItems(Projected[n])
    BY <1>2
  <2>2. Ahead(i) /\ i \in ItemsIn(Projected[n], today)
    BY <1>2, <2>1 DEF ShownItems
  <2> HIDE DEF items
  <2> QED
    BY <2>2, AheadIsOffered
<1>4. ASSUME built # <<>>, \A a \in Accounts : ~Excludes(a), NEW o \in offered,
             o[2] >= Head(built).start, o[2] <= Last(built).end
      PROVE  o \in ahead
  <2>1. EffectiveStart(Projected[1], range.start) <= o[2] /\ o[2] <= Projected[Len(Projected)].end
    <3> DEFINE from == EffectiveStart(Projected[1], range.start)
    <3>1. Head(built).start = from /\ Last(built).end = Projected[Len(Projected)].end
      BY <1>1, <1>4
    <3>2. from \in Int
      BY <1>1, <1>4, StartsAre
    <3>3. o[2] \in Int
      BY <1>4, OfferedMayBePaid
    <3> HIDE DEF from
    <3> QED
      BY <1>4, <3>1, <3>2, <3>3 DEF from
  <2>4. PICK n \in DOMAIN Projected :
            \E x \in ShownItems(Projected[n]) : <<x.of, x.due>> = o /\ Ahead(x)
    BY <1>1, <1>4, <2>1, OfferedIsAhead
  <2>2. PICK x \in ShownItems(Projected[n]) : <<x.of, x.due>> = o /\ Ahead(x)
    BY <2>4
  <2>3. x \in items
    BY <1>2, <2>2
  <2> HIDE DEF items
  <2> QED
    BY <2>2, <2>3
<1> HIDE DEF ahead, offered
<1>5. \A o \in offered : /\ MayPay(o[2], today, today)
                         /\ o[1] = "expense" => OccursOn(Schedule("expense"), o[2])
  BY OfferedMayBePaid DEF offered
<1>6. built # <<>> /\ (\A a \in Accounts : ~Excludes(a)) =>
          {o \in offered : o[2] >= Head(built).start /\ o[2] <= Last(built).end} \subseteq ahead
  BY <1>4
<1> QED
  BY <1>3, <1>5, <1>6 DEF PayableAgrees, built, offered, ahead

(* What a client is offered to pay early, the handler takes, and the projection *)
(* shows ahead: build_upcoming_payable_items, early_pay_expense and              *)
(* build_projection_rows agree on every day, for any templates and rows.        *)
THEOREM OffersAreTaken == Spec => []PayableAgrees
BY ProjectionsInvariant, InvPayableAgrees, PTL

-----------------------------------------------------------------------------
(* Each occurrence counts once. *)

LEMMA ItemsInPeriod ==
    ASSUME ProjectionsInv, NEW p, p.start \in Int, p.end \in Int, p.end <= LastPeriod.end,
           NEW i \in ItemsIn(p, today)
    PROVE  InPeriod(p, i.date) /\ i.date \in Int /\ i.amount \in Int
<1>0. /\ today \in Int /\ planned.date \in Int /\ budget.end \in Int
      /\ \A r \in rows : r.date \in Int /\ r.amount \in Int
      /\ \A k \in Kinds : Amount[k] \in Nat
      /\ Templates \subseteq Kinds /\ "planned" \in Kinds
  BY ProjectionsAssumption DEF ProjectionsInv, ProjectionsTyped, RowType, Kinds
<1>1. CASE \E r \in rows : r.live /\ InPeriod(p, r.date) /\ Counts(r) /\ i = RowItem(r)
  BY <1>0, <1>1 DEF RowItem, Item
<1>2. CASE /\ InPeriod(p, PlannedDate(today))
           /\ i = Item("planned", planned.date, PlannedDate(today), Amount["planned"], -1,
                       planned.account, TRUE)
  <2>1. PlannedDate(today) \in Int
    BY <1>0 DEF PlannedDate, GreatestOf
  <2> QED
    BY <1>0, <1>2, <2>1 DEF Item
<1>3. CASE i \in BudgetItems(p, today)
  <2>1. Spent \in Int
    <3>1. IsFiniteSet(BudgetRows) /\ \A r \in BudgetRows : r.amount \in Int
      BY <1>0, FS_Subset DEF BudgetRows, ProjectionsInv, ProjectionsTyped
    <3> QED
      BY <3>1, TotalInt, SpentIs
  <2>2. BudgetAmount(today) \in Int
    BY <1>0, <2>1 DEF BudgetAmount, Kinds
  <2>3. InPeriod(p, budget.end) /\ i.date = budget.end /\ i.amount = BudgetAmount(today)
    BY <1>3 DEF BudgetItems, Item
  <2> QED
    BY <1>0, <2>2, <2>3
<1>4. ASSUME NEW k \in Templates, NEW d \in DueIn(k, p), i = DueItem(k, d)
      PROVE  InPeriod(p, i.date) /\ i.date \in Int /\ i.amount \in Int
  <2>1. i.date = d /\ i.amount = Amount[k]
    BY <1>4 DEF DueItem, Item
  <2>2. d \in p.start..p.end
    BY DEF DueIn
  <2> QED
    BY <1>0, <2>1, <2>2 DEF InPeriod
<1>5. CASE \E k \in Templates : Shows(k) /\ \E d \in DueIn(k, p) : i = DueItem(k, d)
  BY <1>4, <1>5
<1>6. CASE i \in RowItems(p)
  BY <1>1, <1>6 DEF RowItems, RowItem
<1>7. CASE i \in PlannedItems(p, today)
  BY <1>2, <1>7 DEF PlannedItems, PlannedDue
<1>8. CASE \E k \in Templates : Shows(k) /\ i \in TemplateItems(k, p, today)
  <2>1. PICK k \in Templates : Shows(k) /\ i \in TemplateItems(k, p, today)
    BY <1>8
  <2>2. \E d \in DueIn(k, p) : i = DueItem(k, d)
    BY <2>1, TemplateItemsAre
  <2> QED
    BY <1>4, <2>2
<1> QED
  BY <1>3, <1>6, <1>7, <1>8 DEF ItemsIn

(* A row, the one-time expense and an occurrence that is due have different slots. *)
Slotted(i) == i.of \in Templates \cup {"planned"}

LEMMA SlotsOnce ==
    ASSUME ProjectionsInv, NEW p, p.start \in Int, p.end \in Int, p.end <= LastPeriod.end,
           NEW q, q.start \in Int, q.end \in Int, q.end <= LastPeriod.end,
           NEW i \in ItemsIn(p, today), NEW j \in ItemsIn(q, today), Slotted(i),
           i.of = j.of, i.due = j.due
    PROVE  i = j
<1> DEFINE IsRow(x) == \E r \in rows : Counts(r) /\ x = RowItem(r)
           IsPlanned(x) == ~Paid /\ x = PlannedItem
           IsDue(x) == \E k \in Templates : \E d : <<k, d>> \notin Materialized /\ x = DueItem(k, d)
<1>1. ASSUME NEW x, NEW P, P.start \in Int, P.end \in Int, P.end <= LastPeriod.end,
             x \in ItemsIn(P, today), Slotted(x)
      PROVE  IsRow(x) \/ IsPlanned(x) \/ IsDue(x)
  <2>1. x.of # "budget"
    BY <1>1, KindsDiffer DEF Slotted
  <2>2. CASE \E k \in Templates : Shows(k) /\ \E d \in DueIn(k, P) : x = DueItem(k, d)
    BY <2>2 DEF DueIn
  <2>3. ComesFrom(P, x)
    BY <1>1, ItemsAre
  <2> QED
    BY <2>1, <2>2, <2>3, Zenon DEF ComesFrom
<1>2. IsRow(i) \/ IsPlanned(i) \/ IsDue(i)
  BY <1>1
<1>3. IsRow(j) \/ IsPlanned(j) \/ IsDue(j)
  BY <1>1 DEF Slotted
<1>4. ASSUME NEW x, NEW y, IsRow(x), IsPlanned(y), x.of = y.of PROVE FALSE
  <2>1. PICK r \in rows : x = RowItem(r)
    BY <1>4
  <2>2. r.of = "planned"
    BY <1>4, <2>1 DEF RowItem, Item, PlannedItem
  <2> QED
    BY <1>4, <2>2 DEF Paid
<1>5. ASSUME NEW x, NEW y, IsRow(x), IsDue(y), x.of = y.of, x.due = y.due PROVE FALSE
  <2>1. PICK r \in rows : Counts(r) /\ x = RowItem(r)
    BY <1>5
  <2>2. PICK k \in Templates : \E d : <<k, d>> \notin Materialized /\ y = DueItem(k, d)
    BY <1>5
  <2>3. PICK d : <<k, d>> \notin Materialized /\ y = DueItem(k, d)
    BY <2>2
  <2>4. r.of = k /\ r.due = d
    BY <1>5, <2>1, <2>3 DEF RowItem, DueItem, Item
  <2>5. r.of = "transfer" => Crossing(r.account, r.to)
    BY <2>1 DEF Counts
  <2> QED
    BY <2>3, <2>4, <2>5 DEF Materialized
<1>6. ASSUME NEW x, NEW y, IsPlanned(x), IsDue(y), x.of = y.of PROVE FALSE
  BY <1>6, KindsDiffer DEF DueItem, Item, PlannedItem
<1>7. ASSUME IsRow(i), IsRow(j) PROVE i = j
  <2>1. PICK r \in rows : i = RowItem(r)
    BY <1>7
  <2>2. PICK s \in rows : j = RowItem(s)
    BY <1>7
  <2>3. r.of = s.of /\ r.due = s.due /\ r.of = i.of
    BY <2>1, <2>2 DEF RowItem, Item
  <2>4. r = s
    BY <2>3 DEF Slotted, ProjectionsInv, OneRowPerSlot
  <2> QED
    BY <2>1, <2>2, <2>4
<1>8. ASSUME IsDue(i), IsDue(j) PROVE i = j
  <2>1. PICK k \in Templates : \E d : i = DueItem(k, d)
    BY <1>8
  <2>2. PICK d : i = DueItem(k, d)
    BY <2>1
  <2>3. PICK l \in Templates : \E e : j = DueItem(l, e)
    BY <1>8
  <2>4. PICK e : j = DueItem(l, e)
    BY <2>3
  <2>5. k = l /\ d = e
    BY <2>2, <2>4 DEF DueItem, Item
  <2> QED
    BY <2>2, <2>4, <2>5
<1> HIDE DEF IsRow, IsDue
<1> QED
  BY <1>2, <1>3, <1>4, <1>5, <1>6, <1>7, <1>8

(* No slot is shown in two periods. *)
LEMMA SlotsDiffer ==
    ASSUME ProjectionsInv, NEW n \in DOMAIN Projected, NEW m \in DOMAIN Projected, n < m,
           NEW i \in ItemsIn(Projected[n], today), NEW j \in ItemsIn(Projected[m], today),
           Slotted(i), i.of = j.of, i.due = j.due
    PROVE  FALSE
<1> DEFINE p == Projected[n]
           q == Projected[m]
<1>1. PayDays \in ScheduleType /\ Cut(PayDays, Projected)
  BY RangeFacts, ProjectedFacts
<1>2. /\ p.start \in Int /\ p.end \in Int /\ p.end <= LastPeriod.end
      /\ q.start \in Int /\ q.end \in Int /\ q.end <= LastPeriod.end
  BY <1>1, CutFacts, ListedWithin
<1>3. p.end < q.start
  BY <1>1, CutIncreases
<1> HIDE DEF p, q
<1>4. i \in ItemsIn(p, today) /\ j \in ItemsIn(q, today)
  BY DEF p, q
<1>5. i = j
  BY <1>2, <1>4, SlotsOnce
<1>6. InPeriod(p, i.date) /\ InPeriod(q, i.date) /\ i.date \in Int
  <2>1. InPeriod(p, i.date) /\ i.date \in Int
    BY <1>2, <1>4, ItemsInPeriod
  <2>2. InPeriod(q, j.date)
    BY <1>2, <1>4, ItemsInPeriod
  <2> QED
    BY <1>5, <2>1, <2>2
<1> QED
  BY <1>2, <1>3, <1>6 DEF InPeriod

(* An occurrence that is due has an item in the row of its period, and only     *)
(* the opening row leaves income out.                                       *)
LEMMA DueIsShown ==
    ASSUME ProjectionsInv, Projected # <<>>, NEW k \in Templates, Shows(k), NEW d \in Int,
           Occurs(Schedule(k), d), <<k, d>> \notin Recorded, today <= d,
           EffectiveStart(Projected[1], range.start) <= d, d <= Projected[Len(Projected)].end,
           ~(/\ Sign(k, template[k].to) = 1 /\ d <= Projected[1].end
             /\ EffectiveStart(Projected[1], range.start) # Projected[1].start)
    PROVE  \E n \in DOMAIN Projected : DueItem(k, d) \in ShownItems(Projected[n])
<1>0. today \in Int
  BY DEF ProjectionsInv, ProjectionsTyped
<1>1. PayDays \in ScheduleType /\ Cut(PayDays, Projected)
  BY RangeFacts, ProjectedFacts
<1>2. PICK n \in DOMAIN Projected : /\ InPeriod(Projected[n], d)
                                   /\ EffectiveStart(Projected[n], range.start) <= d
  BY RowsCover
<1> DEFINE p == Projected[n]
           from == EffectiveStart(p, range.start)
           x == DueItem(k, d)
<1>3. p.start \in Int /\ p.end \in Int /\ p.end <= LastPeriod.end
  BY <1>1, CutFacts, ListedWithin
<1>4. d \in DueIn(k, p)
  BY <1>0, <1>2, <1>3, MaterializedIsRecorded DEF DueIn, InPeriod
<1>5. x.date = d /\ x.sign = Sign(k, template[k].to)
  BY DEF DueItem, Item
<1>6. from # p.start => n = 1
  BY StartsAre
<1>7. x.sign = 1 => from = p.start
  <2>1. CASE n = 1
    <3>1. d <= Projected[1].end
      BY <1>2, <2>1 DEF InPeriod
    <3> QED
      BY <1>5, <2>1, <3>1
  <2> QED
    BY <1>6, <2>1
<1> HIDE DEF p, x
<1>8. x \in ItemsIn(p, today)
  <2>1. x \in TemplateItems(k, p, today)
    BY <1>3, <1>4, TemplateItemsAre DEF x
  <2> QED
    BY <2>1 DEF ItemsIn
<1>9. x \in ShownItems(p)
  BY <1>2, <1>5, <1>7, <1>8 DEF ShownItems, p
<1> QED
  BY <1>9 DEF p, x

(* The slots of what a period shows. *)
SlotOf(i) == <<i.of, i.due>>
ShownSlots == Recorded \cup {<<"planned", planned.date>>} \cup (Templates \X (today..LastPeriod.end))

LEMMA SlotsFinite == ASSUME ProjectionsInv PROVE IsFiniteSet(ShownSlots)
<1>1. IsFiniteSet(Recorded)
  <2> DEFINE f == [r \in rows |-> <<r.of, r.due>>]
  <2>1. f \in Surjection(rows, Recorded)
    BY DEF Surjection, Recorded
  <2>2. IsFiniteSet(rows)
    BY DEF ProjectionsInv, ProjectionsTyped
  <2> HIDE DEF f
  <2> QED
    BY <2>1, <2>2, FS_Surjection
<1>2. IsFiniteSet(Templates)
  <2>1. Templates = {"income"} \cup {"expense"} \cup {"transfer"}
    BY DEF Templates
  <2> QED
    BY <2>1, FS_Singleton, FS_Union
<1>3. IsFiniteSet(today..LastPeriod.end)
  BY RangeFacts, FS_Interval DEF ProjectionsInv, ProjectionsTyped
<1>4. IsFiniteSet(Templates \X (today..LastPeriod.end))
  BY <1>2, <1>3, FS_Product
<1>5. IsFiniteSet({<<"planned", planned.date>>})
  BY FS_Singleton
<1> QED
  BY <1>1, <1>4, <1>5, FS_Union DEF ShownSlots

LEMMA SlotsAre ==
    ASSUME ProjectionsInv, NEW n \in DOMAIN Projected,
           NEW i \in ItemsIn(Projected[n], today), Slotted(i)
    PROVE  SlotOf(i) \in ShownSlots
<1> DEFINE p == Projected[n]
<1>1. p.start \in Int /\ p.end \in Int /\ p.end <= LastPeriod.end
      /\ LastPeriod.end \in Int /\ today \in Int
  BY RangeFacts, ProjectedFacts, CutFacts, ListedWithin DEF ProjectionsInv, ProjectionsTyped
<1> HIDE DEF p
<1>2. ComesFrom(p, i)
  BY <1>1, ItemsAre DEF p
<1>3. CASE \E r \in rows : i = RowItem(r)
  BY <1>3 DEF RowItem, Item, Recorded, SlotOf, ShownSlots
<1>4. CASE i = PlannedItem
  BY <1>4 DEF PlannedItem, Item, SlotOf, ShownSlots
<1>5. i.of # "budget"
  BY KindsDiffer DEF Slotted
<1>6. CASE \E k \in Templates : \E d \in DueIn(k, p) : i = DueItem(k, d)
  <2>1. PICK k \in Templates : \E d \in DueIn(k, p) : i = DueItem(k, d)
    BY <1>6
  <2>2. PICK d \in DueIn(k, p) : i = DueItem(k, d)
    BY <2>1
  <2>3. d \in today..LastPeriod.end
    BY <1>1 DEF DueIn
  <2>4. SlotOf(i) = <<k, d>>
    BY <2>2 DEF SlotOf, DueItem, Item
  <2> QED
    BY <2>3, <2>4 DEF ShownSlots
<1> QED
  BY <1>2, <1>3, <1>4, <1>5, <1>6, Zenon DEF ComesFrom

(* Items told apart by their slots are as many as those. *)
LEMMA AsManySlots ==
    ASSUME NEW C, \A i, j \in C : SlotOf(i) = SlotOf(j) => i = j,
           IsFiniteSet({SlotOf(i) : i \in C})
    PROVE  Cardinality({SlotOf(i) : i \in C}) = Cardinality(C)
<1> DEFINE S == {SlotOf(i) : i \in C}
           g == [s \in S |-> CHOOSE i \in C : SlotOf(i) = s]
<1>1. \A s \in S : g[s] \in C /\ SlotOf(g[s]) = s
  OBVIOUS
<1>2. \A i \in C : SlotOf(i) \in S /\ g[SlotOf(i)] = i
  BY <1>1
<1>3. g \in [S -> C]
  BY <1>1
<1> HIDE DEF S, g
<1>4. g \in Bijection(S, C)
  BY <1>1, <1>2, <1>3 DEF Bijection, Injection, Surjection, IsInjective
<1>5. ExistsBijection(S, C) /\ IsFiniteSet(S)
  BY <1>4 DEF ExistsBijection, S
<1>6. Cardinality(C) = Cardinality(S)
  BY <1>5, FS_Bijection
<1> QED
  BY <1>6 DEF S

LEMMA InvOccurrenceShownOnce == ProjectionsInv => OccurrenceShownOnce
<1> SUFFICES ASSUME ProjectionsInv PROVE OccurrenceShownOnce
  OBVIOUS
<1> DEFINE built == Projection(today)
           slots == [n \in DOMAIN built |-> {<<i.of, i.due>> : i \in
                     {x \in built[n].items : x.of \in Templates \cup {"planned"}}}]
           counted == {i \in UNION {built[n].items : n \in DOMAIN built} :
                       i.of \in Templates \cup {"planned"}}
           expected(k) == {d \in GreatestOf(today, Head(built).start)..LeastOf(today + LookAhead, Last(built).end) :
                           Occurs(Schedule(k), d) /\ <<k, d>> \notin Recorded}
           opening == {d \in Head(built).start..Head(built).end : Head(built).start = range.start
                        /\ range.start # PreviousPayDate(Schedule("income"), Head(built).pay) + 1}
<1>0. /\ PayDays \in ScheduleType /\ Cut(PayDays, Projected) /\ today \in Int
      /\ DOMAIN Projected \subseteq Nat
  BY RangeFacts, ProjectedFacts, CutFacts DEF ProjectionsInv, ProjectionsTyped
<1>1. /\ DOMAIN built = DOMAIN Projected
      /\ built # <<>> => /\ Projected # <<>> /\ 1 \in DOMAIN Projected /\ Len(Projected) \in DOMAIN Projected
                         /\ Head(built) = built[1] /\ Last(built) = built[Len(Projected)]
      /\ \A n \in DOMAIN Projected :
            /\ built[n].items = ShownItems(Projected[n]) /\ built[n].pay = Projected[n].pay
            /\ built[n].start = EffectiveStart(Projected[n], range.start)
            /\ built[n].end = Projected[n].end
  BY RowsShow
<1> HIDE DEF built
<1>2. \A n \in DOMAIN Projected : \A i \in built[n].items : i \in ItemsIn(Projected[n], today)
  BY <1>1 DEF ShownItems
<1>3. ASSUME NEW n \in DOMAIN built, NEW m \in DOMAIN built, n # m
      PROVE  slots[n] \cap slots[m] = {}
  <2> SUFFICES ASSUME NEW t, t \in slots[n], t \in slots[m] PROVE FALSE
    OBVIOUS
  <2>1. PICK i \in built[n].items : Slotted(i) /\ t = <<i.of, i.due>>
    BY DEF Slotted
  <2>2. PICK j \in built[m].items : Slotted(j) /\ t = <<j.of, j.due>>
    BY DEF Slotted
  <2>3. i.of = j.of /\ i.due = j.due
    BY <2>1, <2>2
  <2>4. i \in ItemsIn(Projected[n], today) /\ j \in ItemsIn(Projected[m], today)
    BY <1>1, <1>2
  <2>5. n < m \/ m < n
    BY <1>0, <1>1, <1>3
  <2>6. CASE n < m
    BY <1>1, <2>1, <2>3, <2>4, <2>6, SlotsDiffer
  <2>7. CASE m < n
    BY <1>1, <2>2, <2>3, <2>4, <2>7, SlotsDiffer
  <2> QED
    BY <2>5, <2>6, <2>7
<1>4. \A i \in counted : Slotted(i) /\ \E n \in DOMAIN Projected : i \in ItemsIn(Projected[n], today)
  BY <1>1, <1>2 DEF Slotted
<1>5. {<<i.of, i.due>> : i \in counted} = {SlotOf(i) : i \in counted}
  BY DEF SlotOf
<1> HIDE DEF counted
<1>6. \A i, j \in counted : SlotOf(i) = SlotOf(j) => i = j
  <2> SUFFICES ASSUME NEW i \in counted, NEW j \in counted, SlotOf(i) = SlotOf(j) PROVE i = j
    OBVIOUS
  <2>1. PICK n \in DOMAIN Projected : i \in ItemsIn(Projected[n], today)
    BY <1>4
  <2>2. PICK m \in DOMAIN Projected : j \in ItemsIn(Projected[m], today)
    BY <1>4
  <2> DEFINE p == Projected[n]
             q == Projected[m]
  <2>3. /\ p.start \in Int /\ p.end \in Int /\ p.end <= LastPeriod.end
        /\ q.start \in Int /\ q.end \in Int /\ q.end <= LastPeriod.end
    BY <1>0, CutFacts, ListedWithin
  <2>4. i.of = j.of /\ i.due = j.due /\ Slotted(i)
    BY <1>4 DEF SlotOf
  <2>5. i \in ItemsIn(p, today) /\ j \in ItemsIn(q, today)
    BY <2>1, <2>2
  <2> HIDE DEF p, q
  <2> QED
    BY <2>3, <2>4, <2>5, SlotsOnce
<1>7. IsFiniteSet({SlotOf(i) : i \in counted})
  <2>1. {SlotOf(i) : i \in counted} \subseteq ShownSlots
    BY <1>4, SlotsAre
  <2> QED
    BY <2>1, SlotsFinite, FS_Subset
<1>8. Cardinality({<<i.of, i.due>> : i \in counted}) = Cardinality(counted)
  BY <1>5, <1>6, <1>7, AsManySlots
<1>9. ASSUME built # <<>>, NEW k \in Templates, NEW d \in expected(k), Shows(k),
             ~(d \in opening /\ Sign(k, template[k].to) = 1)
      PROVE  \E n \in DOMAIN built : <<k, d>> \in slots[n]
  <2> DEFINE p == Projected[1]
             from == EffectiveStart(p, range.start)
             last == Projected[Len(Projected)].end
  <2>1. /\ Projected # <<>> /\ 1 \in DOMAIN Projected /\ Len(Projected) \in DOMAIN Projected
        /\ Head(built).start = from /\ Head(built).end = p.end /\ Head(built).pay = p.pay
        /\ Last(built).end = last
    BY <1>1, <1>9
  <2>2. from \in Int /\ p.start <= from /\ from <= p.end /\ (from # p.start => from = range.start)
    BY <2>1, StartsAre
  <2>3. p.start \in Int /\ p.end \in Int /\ last \in Int /\ PayPeriod(PayDays, p)
    BY <1>0, <2>1, CutFacts
  <2>4. p.start = PreviousPayDate(Schedule("income"), p.pay) + 1
    <3>1. p = PeriodForPayDate(PayDays, p.pay)
      BY <2>3 DEF PayPeriod
    <3>2. PeriodForPayDate(PayDays, p.pay).start = PreviousPayDate(PayDays, p.pay) + 1
      BY DEF PeriodForPayDate
    <3> HIDE DEF p
    <3> QED
      BY <3>1, <3>2 DEF PayDays, Schedule
  <2> HIDE DEF from, last, p
  <2>5. /\ d \in GreatestOf(today, from)..LeastOf(today + LookAhead, last)
        /\ Occurs(Schedule(k), d) /\ <<k, d>> \notin Recorded
    BY <1>9, <2>1
  <2>6. d \in Int /\ today <= d /\ from <= d /\ d <= last
    <3>1. today + LookAhead \in Int
      BY <1>0, ProjectionsAssumption
    <3> QED
      BY <1>0, <2>2, <2>3, <2>5, <3>1 DEF GreatestOf, LeastOf
  <2>7. ~(/\ Sign(k, template[k].to) = 1 /\ d <= p.end /\ from # p.start)
    BY <1>9, <2>1, <2>2, <2>3, <2>4, <2>6
  <2>8. PICK n \in DOMAIN Projected : DueItem(k, d) \in ShownItems(Projected[n])
    BY <1>9, <2>1, <2>5, <2>6, <2>7, DueIsShown DEF p, from, last
  <2> DEFINE x == DueItem(k, d)
  <2>9. x.of = k /\ x.due = d
    BY DEF DueItem, Item
  <2> HIDE DEF x
  <2>10. x \in built[n].items /\ n \in DOMAIN built
    BY <1>1, <2>8 DEF x
  <2> QED
    BY <2>9, <2>10
<1> HIDE DEF slots, expected, opening
<1> QED
  BY <1>3, <1>8, <1>9 DEF OccurrenceShownOnce, built, slots, counted, expected, opening

(* A projection shows every occurrence, payment and row once, on every day and   *)
(* whatever is recorded: build_projection_rows takes a slot that is free or the  *)
(* row that holds it, never both.                                          *)
THEOREM OccurrencesShownOnce == Spec => []OccurrenceShownOnce
BY ProjectionsInvariant, InvOccurrenceShownOnce, PTL

-----------------------------------------------------------------------------
(* What charging today's occurrence does to the projection. *)

(* A row n of the occurrence of k that is due today, which counts when the       *)
(* template shows.                                                         *)
ChargedRow(k, n) ==
    /\ UNCHANGED <<today, template, planned, budget, account, range>>
    /\ rows' = rows \cup {n}
    /\ n.of = k /\ n.due = today /\ n.date = today /\ n.amount = Amount[k] /\ n.live
    /\ n.to = template[k].to
    /\ <<k, today>> \notin Recorded /\ Occurs(Schedule(k), today)
    /\ Shows(k) <=> Counts(n)

(* The account a charge is put on is projected when the template's is.         *)
ChargedAsShown(k) ==
    k = "expense" => IF template[k].account = NoAccount THEN ProjectedAccounts # {}
                     ELSE Active(template[k].account)

LEMMA ChargedIs ==
    ASSUME ProjectionsInv, NEW k \in Templates, Charge(k, today), ChargedAsShown(k)
    PROVE  \E n : ChargedRow(k, n)
<1> DEFINE t == template[k]
           n(a) == NewRow(k, today, today, a, t.to)
<1>1. PICK a \in ChargedFrom(k, today) : rows' = rows \cup {n(a)}
  BY DEF Charge
<1>2. /\ UNCHANGED <<today, template, planned, budget, account, range>>
      /\ t.live /\ OccursOn(Schedule(k), today) /\ <<k, today>> \notin Recorded
      /\ k = "transfer" => Active(t.account) /\ Active(t.to)
  BY DEF Charge, Schedule
<1>3. Occurs(Schedule(k), today)
  <2>1. Schedule(k) \in ScheduleType /\ today \in Int
    BY TemplateFacts DEF ProjectionsInv, ProjectionsTyped
  <2>2. Reaches(Schedule(k), today)
    <3>1. Reaches(Schedule(k), today + 1) /\ today <= today + 1 /\ today + 1 \in Int
      BY <2>1, ReachedToday DEF Reached, Schedule
    <3> QED
      BY <2>1, <3>1, ReachesLess
  <2> QED
    BY <1>2, <2>1, <2>2, OccursOnAgrees
<1>4. ~Excludes(NoAccount) /\ ~Active(NoAccount)
  BY ProjectionsAssumption DEF Excludes, Active
<1>5. ASSUME k = "expense" PROVE Excludes(a) <=> Excludes(t.account)
  <2>1. a \in Pick(t.account, today)
    BY <1>1, <1>5 DEF ChargedFrom
  <2>2. CASE t.account = NoAccount
    <3>1. ProjectedAccounts # {}
      BY <1>5, <2>2 DEF ChargedAsShown
    <3>2. a \in ProjectedAccounts
      BY <1>4, <2>1, <2>2, <3>1 DEF Pick, Candidates
    <3>3. ~Excludes(a)
      BY <3>2 DEF ProjectedAccounts
    <3> QED
      BY <1>4, <2>2, <3>3
  <2>3. CASE t.account # NoAccount
    <3>1. Active(t.account)
      BY <1>5, <2>3 DEF ChargedAsShown
    <3>2. a = t.account
      BY <2>1, <3>1 DEF Pick
    <3> QED
      BY <3>2
  <2> QED
    BY <2>2, <2>3
<1>6. k # "expense" => a = t.account
  BY <1>1 DEF ChargedFrom
<1>7. n(a).of = k /\ n(a).due = today /\ n(a).date = today /\ n(a).amount = Amount[k] /\ n(a).live
      /\ n(a).to = t.to /\ n(a).account = a
  BY DEF NewRow
<1> DEFINE m == n(a)
<1>8. rows' = rows \cup {m} /\ m.of = k /\ m.due = today /\ m.date = today /\ m.amount = Amount[k] /\ m.live
      /\ m.to = t.to /\ m.account = a
  BY <1>1, <1>7
<1> HIDE DEF m, n
<1>9. Shows(k) <=> Counts(m)
  <2>1. CASE k = "transfer"
    <3>1. a = t.account
      BY <1>6, <2>1
    <3>2. Counts(m) <=> Crossing(a, t.to)
      BY <1>8, <2>1 DEF Counts
    <3> QED
      BY <1>2, <2>1, <3>1, <3>2 DEF Shows
  <2>2. CASE k # "transfer"
    <3>1. k # "budget"
      BY KindsDiffer
    <3>2. Counts(m) <=> ~Excludes(a)
      BY <1>8, <2>2, <3>1 DEF Counts
    <3>3. Excludes(a) <=> Excludes(t.account)
      BY <1>5, <1>6
    <3> QED
      BY <1>2, <2>2, <3>2, <3>3 DEF Shows
  <2> QED
    BY <2>1, <2>2
<1>10. ChargedRow(k, m)
  BY <1>2, <1>3, <1>8, <1>9 DEF ChargedRow
<1> QED
  BY <1>10

LEMMA TemplateItemsAfter ==
    ASSUME NEW k \in Templates, NEW n, ChargedRow(k, n), NEW p, NEW j \in Templates
    PROVE  /\ Shows(j)' <=> Shows(j)
           /\ j # k => TemplateItems(j, p, today)' = TemplateItems(j, p, today)
           /\ Shows(k) =>
                TemplateItems(k, p, today)' = TemplateItems(k, p, today) \ {DueItem(k, today)}
<1>0. UNCHANGED <<today, template, account>> /\ rows' = rows \cup {n} /\ n.of = k /\ n.due = today
  BY DEF ChargedRow
<1>1. /\ UNCHANGED <<today, template, account>>
      /\ \A t : (t # <<k, today>>) => (t \in Materialized' <=> t \in Materialized)
      /\ Shows(k) => <<k, today>> \in Materialized'
  <2> DEFINE Stands(x) == x.of = "transfer" => Crossing(x.account, x.to)
  <2>1. \A x : Stands(x)' <=> Stands(x)
    BY <1>0 DEF Crossing, Excludes
  <2>2. Shows(k) => Stands(n)
    BY <1>0 DEF ChargedRow, Counts
  <2>3. Materialized = {<<x.of, x.due>> : x \in {y \in rows : Stands(y)}}
    BY DEF Materialized
  <2>4. Materialized' = {<<x.of, x.due>> : x \in {y \in rows' : Stands(y)'}}
    BY DEF Materialized
  <2> HIDE DEF Stands
  <2> QED
    BY <1>0, <2>1, <2>2, <2>3, <2>4
<1>2. Shows(j)' <=> Shows(j)
  BY <1>1 DEF Shows, Crossing, Excludes, Active
<1> DEFINE PD(i) == {d \in PayDatesInRange(Schedule(i), p.start, p.end) : Upcoming(d, today)}
           D(i) == {d \in PD(i) : <<i, d>> \notin Materialized}
           E(i) == {d \in PD(i) : <<i, d>> \notin Materialized'}
<1>3. ASSUME NEW i PROVE /\ TemplateItems(i, p, today) = {DueItem(i, d) : d \in D(i)}
                         /\ TemplateItems(i, p, today)' = {DueItem(i, d) : d \in E(i)}
  <2>1. D(i) = {d \in PayDatesInRange(Schedule(i), p.start, p.end) : Upcoming(d, today) /\ <<i, d>> \notin Materialized}
    OBVIOUS
  <2>2. E(i) = {d \in PayDatesInRange(Schedule(i), p.start, p.end) : Upcoming(d, today) /\ <<i, d>> \notin Materialized'}
    OBVIOUS
  <2>3. TemplateItems(i, p, today) = {DueItem(i, d) : d \in D(i)}
    BY <2>1 DEF TemplateItems, DueItem
  <2>4. /\ Schedule(i)' = Schedule(i) /\ template' = template /\ today' = today
        /\ Sign(i, template[i].to)' = Sign(i, template[i].to)
    BY <1>1 DEF Schedule, Sign, Excludes
  <2> DEFINE F(d) == Item(i, d, d, Amount[i], Sign(i, template[i].to), template[i].account, TRUE)
             G(d) == Item(i, d, d, Amount[i], Sign(i, template[i].to)', template'[i].account, TRUE)
             P == {d \in PayDatesInRange(Schedule(i)', p.start, p.end) : Upcoming(d, today)' /\ <<i, d>> \notin Materialized'}
  <2>6. TemplateItems(i, p, today)' = {G(d) : d \in P}
    BY DEF TemplateItems
  <2>7. \A d : F(d) = G(d)
    BY <2>4
  <2>8. P = E(i)
    BY <2>2, <2>4 DEF Upcoming
  <2> HIDE DEF F, G, P, E
  <2>9. {G(d) : d \in P} = {F(d) : d \in E(i)}
    BY <2>7, <2>8
  <2>5. TemplateItems(i, p, today)' = {DueItem(i, d) : d \in E(i)}
    BY <2>6, <2>9 DEF DueItem, F
  <2> QED
    BY <2>3, <2>5
<1> HIDE DEF PD
<1>4. ASSUME j # k PROVE E(j) = D(j)
  <2>1. \A d : <<j, d>> # <<k, today>>
    BY <1>4
  <2>2. \A d : <<j, d>> \in Materialized' <=> <<j, d>> \in Materialized
    BY <1>1, <2>1
  <2> QED
    BY <2>2
<1>5. ASSUME Shows(k) PROVE E(k) = D(k) \ {today}
  <2>1. \A d : d # today => (<<k, d>> \in Materialized' <=> <<k, d>> \in Materialized)
    BY <1>1
  <2> QED
    BY <1>1, <1>5, <2>1
<1>6. \A d, e : DueItem(k, d) = DueItem(k, e) => d = e
  BY DEF DueItem, Item
<1> HIDE DEF D, E
<1>7. Shows(k) => {DueItem(k, d) : d \in E(k)} = {DueItem(k, d) : d \in D(k)} \ {DueItem(k, today)}
  BY <1>5, <1>6
<1>8. j # k => TemplateItems(j, p, today)' = TemplateItems(j, p, today)
  BY <1>3, <1>4
<1>9. Shows(k) => TemplateItems(k, p, today)' = TemplateItems(k, p, today) \ {DueItem(k, today)}
  BY <1>3, <1>7
<1> QED
  BY <1>2, <1>8, <1>9

LEMMA RecordedItemsAfter ==
    ASSUME NEW k \in Templates, NEW n, ChargedRow(k, n), NEW p
    PROVE  /\ RowItems(p)' = RowItems(p) \cup {RowItem(x) : x \in {r \in {n} : InPeriod(p, today) /\ Counts(n)}}
           /\ PlannedItems(p, today)' = PlannedItems(p, today)
           /\ BudgetItems(p, today)' = BudgetItems(p, today)
<1>1. /\ UNCHANGED <<today, template, account, planned, budget>> /\ rows' = rows \cup {n}
      /\ n.of = k /\ n.date = today /\ n.live
  BY DEF ChargedRow
<1>2. /\ \A r : Counts(r)' = Counts(r) /\ RowItem(r)' = RowItem(r)
      /\ \A a : Excludes(a)' = Excludes(a)
  BY <1>1 DEF Counts, RowItem, Crossing, Sign, Excludes
<1> DEFINE S == {x \in rows : x.live /\ InPeriod(p, x.date) /\ Counts(x)}
           N == {r \in {n} : InPeriod(p, today) /\ Counts(n)}
           T == {x \in rows' : x.live /\ InPeriod(p, x.date) /\ Counts(x)}
<1>3. T = S \cup N
  BY <1>1
<1>4. RowItems(p) = {RowItem(r) : r \in S}
  BY DEF RowItems, RowItem
<1>5. RowItems(p)' = {RowItem(r) : r \in T}
  <2>1. RowItems(p)' = {RowItem(r)' : r \in {x \in rows' : x.live /\ InPeriod(p, x.date) /\ Counts(x)'}}
    BY DEF RowItems, RowItem
  <2>2. {x \in rows' : x.live /\ InPeriod(p, x.date) /\ Counts(x)'} = T
    BY <1>2
  <2> QED
    BY <1>2, <2>1, <2>2
<1>6. RowItems(p)' = RowItems(p) \cup {RowItem(x) : x \in N}
  <2> HIDE DEF S, N, T
  <2> QED
    BY <1>3, <1>4, <1>5
<1>7. Paid' = Paid
  BY <1>1, KindsDiffer DEF Paid
<1>8. PlannedItems(p, today)' = PlannedItems(p, today)
  BY <1>1, <1>2, <1>7 DEF PlannedItems, PlannedDue, PlannedDate
<1>9. BudgetRows' = BudgetRows
  BY <1>1, KindsDiffer DEF BudgetRows
<1>10. Spent' = Spent
  <2>1. (Spent = Total(BudgetRows))'
    BY SpentIs, PTL
  <2> QED
    BY <1>9, <2>1, SpentIs
<1>11. BudgetItems(p, today)' = BudgetItems(p, today)
  BY <1>1, <1>10 DEF BudgetItems, BudgetAmount
<1> QED
  BY <1>6, <1>8, <1>11

LEMMA ItemsAfter ==
    ASSUME NEW k \in Templates, NEW n, ChargedRow(k, n), NEW p
    PROVE  \A i : i \in ItemsIn(p, today)' <=>
                      \/ i \in ItemsIn(p, today) /\ ~(i = DueItem(k, today) /\ Shows(k))
                      \/ i = RowItem(n) /\ InPeriod(p, today) /\ Shows(k)
<1> DEFINE x == DueItem(k, today)
           R == RowItems(p)
           O == PlannedItems(p, today) \cup BudgetItems(p, today)
           T(j) == TemplateItems(j, p, today)
           N == {RowItem(m) : m \in {r \in {n} : InPeriod(p, today) /\ Counts(n)}}
<1>1. \A i : i \in ItemsIn(p, today) <=> i \in R \/ i \in O \/ \E j \in Templates : Shows(j) /\ i \in T(j)
  BY DEF ItemsIn
<1>2. \A i : i \in ItemsIn(p, today)' <=> i \in R' \/ i \in O' \/ \E j \in Templates : Shows(j)' /\ i \in T(j)'
  BY DEF ItemsIn
<1>3. R' = R \cup N /\ O' = O
  BY RecordedItemsAfter
<1>4. \A j \in Templates : (Shows(j)' <=> Shows(j)) /\ (j # k => T(j)' = T(j))
  BY TemplateItemsAfter
<1>5. Shows(k) => T(k)' = T(k) \ {x}
  BY TemplateItemsAfter
<1>6. \A i : i \in N <=> i = RowItem(n) /\ InPeriod(p, today) /\ Shows(k)
  BY DEF ChargedRow
<1>7. x \notin R
  BY DEF RowItems, Item, DueItem
<1>8. x \notin O
  <2>1. \A i \in O : i.of = "planned" \/ i.of = "budget"
    BY DEF PlannedItems, PlannedDue, BudgetItems, Item
  <2>2. x.of = k
    BY DEF DueItem, Item
  <2> HIDE DEF x, O
  <2> QED
    BY <2>1, <2>2, KindsDiffer
<1>9. \A j \in Templates : j # k => x \notin T(j)
  <2>1. ASSUME NEW j \in Templates, NEW i \in T(j) PROVE i.of = j
    <3>1. \E d : i = Item(j, d, d, Amount[j], Sign(j, template[j].to), template[j].account, TRUE)
      BY DEF TemplateItems
    <3> HIDE DEF T
    <3> QED
      BY <3>1 DEF Item
  <2>2. x.of = k
    BY DEF DueItem, Item
  <2> HIDE DEF x, T
  <2> QED
    BY <2>1, <2>2
<1> HIDE DEF x, R, O, T, N
<1> QED
  BY <1>1, <1>2, <1>3, <1>4, <1>5, <1>6, <1>7, <1>8, <1>9 DEF x

(* A period lists finitely many items. *)
LEMMA ItemsFinite ==
    ASSUME ProjectionsInv, NEW p, p.start \in Int, p.end \in Int, p.end <= LastPeriod.end
    PROVE  IsFiniteSet(ItemsIn(p, today))
<1>1. IsFiniteSet(RowItems(p))
  BY RowItemsAre DEF ProjectionsInv
<1>2. IsFiniteSet(PlannedItems(p, today)) /\ IsFiniteSet(BudgetItems(p, today))
  BY FS_Singleton, FS_EmptySet DEF PlannedItems, PlannedDue, BudgetItems
<1>3. ASSUME NEW k \in Templates PROVE IsFiniteSet(TemplateItems(k, p, today))
  <2> DEFINE D == DueIn(k, p)
             f == [d \in D |-> DueItem(k, d)]
  <2>1. IsFiniteSet(p.start..p.end)
    BY FS_Interval
  <2>2. D \subseteq p.start..p.end
    BY DEF DueIn
  <2>3. IsFiniteSet(D)
    BY <2>1, <2>2, FS_Subset
  <2>4. TemplateItems(k, p, today) = {DueItem(k, d) : d \in D}
    BY TemplateItemsAre
  <2>5. f \in Surjection(D, {DueItem(k, d) : d \in D})
    BY DEF Surjection
  <2> HIDE DEF D, f
  <2> QED
    BY <2>3, <2>4, <2>5, FS_Surjection
<1> DEFINE T(k) == TemplateItems(k, p, today)
           U == T("income") \cup T("expense") \cup T("transfer")
<1>4. IsFiniteSet(U)
  <2>1. IsFiniteSet(T("income")) /\ IsFiniteSet(T("expense")) /\ IsFiniteSet(T("transfer"))
    BY <1>3, KindsDiffer
  <2> HIDE DEF T
  <2> QED
    BY <2>1, FS_Union
<1> DEFINE A == RowItems(p) \cup PlannedItems(p, today) \cup BudgetItems(p, today) \cup U
<1>5. IsFiniteSet(A)
  <2> HIDE DEF U
  <2> QED
    BY <1>1, <1>2, <1>4, FS_Union
<1>6. ItemsIn(p, today) \subseteq A
  BY DEF ItemsIn, Templates
<1> HIDE DEF A
<1> QED
  BY <1>5, <1>6, FS_Subset

LEMMA ChargeKeepsSums ==
    ASSUME ProjectionsInv, NEW k \in Templates, NEW n, ChargedRow(k, n),
           NEW p, p.start \in Int, p.end \in Int, p.end <= LastPeriod.end
    PROVE  Sums(Line(p, range.start, today))' = Sums(Line(p, range.start, today))
<1> DEFINE x == DueItem(k, today)
           y == RowItem(n)
           I == ItemsIn(p, today)
           S == I \ {x}
<1>0. today \in Int /\ today' = today /\ range' = range
  BY DEF ProjectionsInv, ProjectionsTyped, ChargedRow
<1>1. \A i : i \in I' <=> \/ i \in I /\ ~(i = x /\ Shows(k))
                          \/ i = y /\ InPeriod(p, today) /\ Shows(k)
  BY ItemsAfter
<1>2. Sums(Line(p, range.start, today)) = Sums(LineOf(p, range.start, I))
  BY LineIs
<1>3. Sums(Line(p, range.start, today))' = Sums(LineOf(p, range.start, I'))
  <2>1. Line(p, range.start, today)' = LineOf(p, range.start, I')
    BY <1>0 DEF Line, LineOf
  <2> QED
    BY <2>1 DEF Sums
<1>4. x \in I => InPeriod(p, today)
  <2>1. x.date = today
    BY DEF DueItem, Item
  <2> HIDE DEF x
  <2> QED
    BY <2>1, ItemsInPeriod
<1>5. CASE InPeriod(p, today) /\ Shows(k)
  <2>1. x \in I
    <3>1. today \in DueIn(k, p)
      BY <1>0, <1>5, MaterializedIsRecorded DEF DueIn, ChargedRow, InPeriod
    <3>2. x \in TemplateItems(k, p, today)
      BY <3>1, TemplateItemsAre
    <3> QED
      BY <1>5, <3>2 DEF ItemsIn
  <2>2. /\ x.of = k /\ x.due = today /\ x.date = today /\ x.amount = Amount[k]
        /\ x.sign = Sign(k, template[k].to) /\ x.projected = TRUE
    BY DEF DueItem, Item
  <2>3. /\ y.of = k /\ y.due = today /\ y.date = today /\ y.amount = Amount[k]
        /\ y.sign = Sign(k, template[k].to) /\ y.projected = FALSE
    BY DEF RowItem, Item, ChargedRow
  <2> HIDE DEF x, y
  <2>4. x # y
    BY <2>2, <2>3
  <2>5. y \notin I
    <3>1. Slotted(x)
      BY <2>2 DEF Slotted
    <3> HIDE DEF I
    <3>2. ASSUME y \in I PROVE x = y
      <4>1. x \in ItemsIn(p, today) /\ y \in ItemsIn(p, today)
        BY <2>1, <3>2 DEF I
      <4> QED
        BY <2>2, <2>3, <3>1, <4>1, SlotsOnce
    <3> QED
      BY <2>4, <3>2
  <2>6. I = S \cup {x}
    BY <2>1
  <2>7. I' = S \cup {y}
    <3> HIDE DEF I
    <3>1. \A i : i \in I' <=> i \in S \/ i = y
      BY <1>1, <1>5
    <3> QED
      BY <3>1
  <2>8. IsFiniteSet(S) /\ x \notin S /\ y \notin S
    <3>1. IsFiniteSet(I)
      BY ItemsFinite
    <3> HIDE DEF I
    <3> QED
      BY <2>5, <3>1, FS_Subset
  <2>9. \A i \in S : i.amount \in Int
    <3>1. \A i \in I : i.amount \in Int
      BY ItemsInPeriod
    <3> QED
      BY <3>1
  <2>10. x.amount \in Int
    <3>1. k \in Kinds
      BY KindsAre
    <3> QED
      BY <2>2, <3>1, ProjectionsAssumption
  <2> HIDE DEF I, S
  <2>11. Sums(LineOf(p, range.start, S \cup {x})) = Sums(LineOf(p, range.start, S \cup {y}))
    BY <2>2, <2>3, <2>8, <2>9, <2>10, SumsExchange
  <2> QED
    BY <1>2, <1>3, <2>6, <2>7, <2>11
<1>6. CASE ~(InPeriod(p, today) /\ Shows(k))
  <2> HIDE DEF I, x, y
  <2>1. \A i : i \in I' <=> i \in I
    BY <1>1, <1>4, <1>6
  <2>2. I' = I
    <3>1. \A A, B : (\A i : i \in A <=> i \in B) => A = B
      OBVIOUS
    <3> QED
      BY <2>1, <3>1
  <2> QED
    BY <1>2, <1>3, <2>2
<1> QED
  BY <1>5, <1>6

ChargingKeeps ==
    \A k \in Templates :
          /\ Charge(k, today)
          /\ k = "expense" => IF template[k].account = NoAccount THEN ProjectedAccounts # {}
                              ELSE Active(template[k].account)
          => {Sums(l) : l \in Lines} = {Sums(l) : l \in Lines}'

LEMMA StepChargingKeeps == ProjectionsInv => ChargingKeeps
<1> SUFFICES ASSUME ProjectionsInv, NEW k \in Templates, Charge(k, today), ChargedAsShown(k)
             PROVE  {Sums(l) : l \in Lines} = {Sums(l) : l \in Lines}'
  BY DEF ChargingKeeps, ChargedAsShown
<1>1. PICK n : ChargedRow(k, n)
  BY ChargedIs
<1> DEFINE L(p) == Line(p, range.start, today)
           R == Range(Projected)
<1>2. Lines = {L(p) : p \in R}
  BY FrozenSumsAre
<1>3. (Lines = {L(p) : p \in R})'
  BY FrozenSumsAre, PTL
<1>4. Projected' = Projected
  BY <1>1 DEF ChargedRow, Projected, PayDays, Schedule
<1>5. \A p \in R : Sums(L(p))' = Sums(L(p))
  <2> SUFFICES ASSUME NEW p \in R PROVE Sums(L(p))' = Sums(L(p))
    OBVIOUS
  <2>1. PICK i \in DOMAIN Projected : p = Projected[i]
    BY DEF Range
  <2>2. p.start \in Int /\ p.end \in Int /\ p.end <= LastPeriod.end
    BY <2>1, RangeFacts, ProjectedFacts, CutFacts, ListedWithin
  <2> HIDE DEF R
  <2> QED
    BY <1>1, <2>2, ChargeKeepsSums
<1>6. {Sums(l) : l \in Lines} = {Sums(L(p)) : p \in R}
  BY <1>2
<1>7. {Sums(l) : l \in Lines}' = {Sums(L(p))' : p \in R}
  <2>1. R' = R
    BY <1>4
  <2>2. {Sums(l) : l \in Lines}' = {Sums(L(p))' : p \in R'}
    BY <1>3 DEF Sums
  <2> QED
    BY <2>1, <2>2
<1> HIDE DEF L, R
<1> QED
  BY <1>5, <1>6, <1>7

(* The daily job's charge of today's occurrence changes what no period of the    *)
(* projection adds up to (charge_due_expenses, its income and transfer siblings,  *)
(* and the cutoff of build_projection_rows), for any accounts and templates.     *)
THEOREM ChargedAsProjected == Spec => ChargingKeepsTheProjection
<1>1. ProjectionsInv /\ [Next]_vars => [ChargingKeeps]_vars
  BY StepChargingKeeps
<1> QED
  BY <1>1, ProjectionsInvariant, PTL DEF Spec, ChargingKeepsTheProjection, ChargingKeeps

-----------------------------------------------------------------------------
(* The row of one period, computed alone. *)

(* No row but income and transfers is ever deleted softly. *)
LiveRows == \A r \in rows : DeletedSoftly(r) \/ r.live

(* Where the rows after a step come from. *)
RowFollows(x) == x \in rows \/ x.live \/ DeletedSoftly(x) \/ \E r \in rows : x.of = r.of /\ x.live = r.live

LEMMA ChangesFollow ==
    ASSUME ProjectionsInv, NEW r \in rows, NEW d,
           MoveRow(r, d) \/ DeleteRow(r) \/ VoidCharge(r), NEW x \in rows'
    PROVE  RowFollows(x)
<1>1. r \in RowType
  BY DEF ProjectionsInv, ProjectionsTyped
<1>2. CASE MoveRow(r, d)
  BY <1>1, <1>2 DEF MoveRow, RowType, RowFollows
<1>3. CASE DeleteRow(r)
  BY <1>1, <1>3 DEF DeleteRow, RowType, RowFollows, DeletedSoftly
<1>4. CASE VoidCharge(r)
  BY <1>1, <1>4 DEF VoidCharge, RowType, RowFollows
<1> QED
  BY <1>2, <1>3, <1>4

LEMMA AdditionsFollow ==
    ASSUME NEW x \in rows', NEW of, NEW due, NEW date, NEW a, NEW to,
           rows' = rows \cup {NewRow(of, due, date, a, to)}
    PROVE  RowFollows(x)
BY DEF NewRow, RowFollows

LEMMA StepFollowsRows == ASSUME ProjectionsInv, [Next]_vars, NEW x \in rows' PROVE RowFollows(x)
<1>1. CASE Job
  <2>1. PICK k \in Templates, due \in (today - CatchUpDays)..today : Charge(k, due)
    BY <1>1 DEF Job
  <2> QED
    BY <2>1, AdditionsFollow DEF Charge
<1>2. CASE Tick \/ UNCHANGED vars
  BY <1>2 DEF Tick, vars, RowFollows
<1>3. CASE Requests
  <2>1. CASE \E d \in ClientDays : \/ \E on \in NearToday : EarlyPayPlanned(on, d)
                                   \/ \E on \in NearToday : \E due \in d..(d + HorizonDays) : EarlyPay(due, on, d)
                                   \/ PayPlanned(d)
    BY <2>1, AdditionsFollow DEF EarlyPayPlanned, EarlyPay, PayPlanned
  <2>2. CASE \E d \in NearToday : Spend(d) \/ \E a \in Accounts, of \in {"earning", "spending"} : AddRow(of, d, a)
    BY <2>2, AdditionsFollow DEF Spend, AddRow
  <2>3. CASE \/ \E d \in NearToday : \E r \in rows : MoveRow(r, d)
             \/ \E r \in rows : DeleteRow(r) \/ VoidCharge(r)
    BY <2>3, ChangesFollow
  <2>4. CASE \/ \E d \in ClientDays : CompleteBudget(d)
             \/ \E a \in Accounts : ExcludeAccount(a) \/ ArchiveAccount(a)
             \/ \E d \in NearToday : MovePlanned(d) \/ EndExpense(d)
             \/ \E k \in Templates \ {"income"} : DeleteTemplate(k)
             \/ DeletePlanned
    <3>1. rows' = rows
      BY <2>4 DEF CompleteBudget, ExcludeAccount, ArchiveAccount, MovePlanned, EndExpense, DeleteTemplate,
                  DeletePlanned
    <3> QED
      BY <3>1 DEF RowFollows
  <2> QED
    BY <1>3, <2>1, <2>2, <2>3, <2>4, Zenon DEF Requests
<1> QED
  BY <1>1, <1>2, <1>3 DEF Next

LEMMA LiveRowsInvariant == Spec => []LiveRows
<1>1. Init => LiveRows
  BY ProjectionsAssumption DEF Init, LiveRows
<1>2. ProjectionsInv /\ LiveRows /\ [Next]_vars => LiveRows'
  <2> SUFFICES ASSUME ProjectionsInv, LiveRows, [Next]_vars, NEW x \in rows'
               PROVE  DeletedSoftly(x) \/ x.live
    BY DEF LiveRows, DeletedSoftly
  <2>1. RowFollows(x)
    BY StepFollowsRows
  <2> QED
    BY <2>1 DEF RowFollows, LiveRows, DeletedSoftly
<1> QED
  BY <1>1, <1>2, ProjectionsInvariant, PTL DEF Spec

LEMMA StartLooksUp ==
    ASSUME ProjectionsInv, NEW n \in DOMAIN Projected
    PROVE  LET p == Projected[n]
               inside == range.start # NoDate /\ range.start > p.start
               from == EffectiveStart(p, range.start) IN
           /\ (IF inside THEN range.start ELSE p.start) = from
           /\ ~(inside /\ range.start > p.end)
           /\ from \in Dates /\ from # NoDate /\ FirstDay <= from
           /\ EffectiveStart(p, from) = from
<1> DEFINE p == Projected[n]
           inside == range.start # NoDate /\ range.start > p.start
           from == EffectiveStart(p, range.start)
<1>1. PayDays \in ScheduleType /\ Cut(PayDays, Projected)
      /\ (Projected # <<>> => InPeriod(Projected[1], ProjectionStart))
  BY RangeFacts, ProjectedFacts
<1>2. /\ n \in Nat /\ n >= 1 /\ Projected # <<>> /\ 1 \in DOMAIN Projected
      /\ p.start \in Int /\ p.end \in Int /\ p.start < p.end
      /\ Projected[1].end \in Int
  BY <1>1, CutFacts
<1>3. range.start # NoDate => range.start \in Int /\ range.start = ProjectionStart
  <2>1. \A d \in Dates : d \in Int
    BY DateFacts
  <2> QED
    BY <2>1 DEF ProjectionsInv, ProjectionsTyped, ProjectionStart
<1>4. n # 1 /\ range.start # NoDate => range.start < p.start
  <2>1. n # 1 => Projected[1].end < p.start
    BY <1>1, <1>2, CutIncreases
  <2>2. range.start # NoDate => range.start <= Projected[1].end
    BY <1>1, <1>2, <1>3 DEF InPeriod
  <2> HIDE DEF p
  <2> QED
    BY <1>2, <1>3, <2>1, <2>2
<1>5. n = 1 /\ range.start # NoDate => range.start <= p.end
  BY <1>1, <1>2, <1>3 DEF InPeriod
<1>6. FirstDay <= p.start /\ p.end <= LastPeriod.end
  BY ListedWithin
<1>7. FirstDay \in Dates /\ LastPeriod.end \in Dates /\ FirstDay \in Nat /\ LastPeriod.end \in Nat
  BY RangeFacts, DateFacts
<1> HIDE DEF p
<1>8. ~(inside /\ range.start > p.end)
  BY <1>2, <1>3, <1>4, <1>5
<1>9. (IF inside THEN range.start ELSE p.start) = from
  BY <1>2, <1>3, <1>8 DEF EffectiveStart
<1>10. from \in Int /\ p.start <= from /\ from <= p.end
  BY <1>2, <1>3 DEF EffectiveStart
<1> HIDE DEF from
<1>11. FirstDay <= from /\ from <= LastPeriod.end /\ from \in Nat
  <2>1. LastPeriod.end \in Int
    BY RangeFacts
  <2> QED
    BY <1>2, <1>6, <1>7, <1>10, <2>1
<1>12. from \in Dates
  <2>1. \A d \in Int : d \in Dates <=> MonthStart[0] <= d /\ d < MonthStart[LastMonth]
    BY DateFacts
  <2>2. MonthStart[0] \in Nat /\ MonthStart[LastMonth] \in Nat
    BY DateFacts
  <2>3. MonthStart[0] <= FirstDay /\ LastPeriod.end < MonthStart[LastMonth]
    BY <1>7, <2>1
  <2> DEFINE e == LastPeriod.end
  <2>4. e \in Nat /\ from <= e /\ e < MonthStart[LastMonth]
    BY <1>7, <1>11, <2>3
  <2> HIDE DEF e
  <2> QED
    BY <1>7, <1>11, <2>1, <2>2, <2>3, <2>4
<1>13. from # NoDate
  BY <1>11 DEF NoDate
<1>14. EffectiveStart(p, from) = from
  BY <1>2, <1>10, <1>13 DEF EffectiveStart
<1> QED
  BY <1>8, <1>9, <1>11, <1>12, <1>13, <1>14 DEF p, from

LEMMA AloneListed ==
    ASSUME ProjectionsInv, NEW n \in DOMAIN Projected
    PROVE  LET p == Projected[n]
               from == EffectiveStart(p, range.start)
               ps == ProjectionPeriods(PayDays, today, from, p.pay) IN
           Cut(PayDays, ps) /\ Len(ps) = 1 /\ ps[1] = p
<1> DEFINE s == PayDays
           p == Projected[n]
           from == EffectiveStart(p, range.start)
           ps == ProjectionPeriods(s, today, from, p.pay)
           low == LeastOf(from, today)
           reach == LastPeriod.end + 744
           first == PeriodContaining(s, low)
           lp == PeriodContaining(s, LeastOf(ProjectionStart, today))
<1>1. /\ s \in ScheduleType /\ Cut(s, Projected) /\ today \in Dates
      /\ LeastOf(ProjectionStart, today) \in Dates /\ FirstDay \in Dates
      /\ LastPeriod.end \in Int /\ LeastOf(ProjectionStart, today) <= LastPeriod.end
      /\ Reaches(s, reach) /\ ReachesBack(s, FirstDay)
      /\ ReachesBack(s, LeastOf(ProjectionStart, today))
      /\ 6 * LeastOf(MaxPeriods, MaxOverlapping) > LastPeriod.end - FirstDay
  BY RangeFacts, ProjectedFacts
<1>2. PayPeriod(s, p) /\ p.pay = p.end /\ p.start \in Int /\ p.end \in Int /\ p.start < p.end
  BY <1>1, CutFacts, PayPeriodIs
<1>3. /\ from \in Dates /\ from # NoDate /\ FirstDay <= from
      /\ from \in Int /\ p.start <= from /\ from <= p.end
  BY StartLooksUp, StartsAre
<1>4. p.end <= LastPeriod.end /\ p.pay \in Dates /\ p.pay # NoDate
  <2>1. p.pay \in Dates
    BY <1>2 DEF PayPeriod
  <2>2. p.pay \in Nat
    BY <2>1, DateFacts
  <2> QED
    BY <2>1, <2>2, ListedWithin DEF NoDate
<1> HIDE DEF p, from, s
<1>5. today \in Int /\ FirstDay \in Int /\ LeastOf(ProjectionStart, today) \in Int /\ ProjectionStart \in Int
  <2>1. \A d \in Dates : d \in Int
    BY DateFacts
  <2> QED
    BY <1>1, <2>1, RangeFacts
<1>6. PayPeriod(s, lp) /\ InPeriod(lp, LeastOf(ProjectionStart, today)) /\ FirstDay = lp.start
  <2>1. reach \in Int /\ LeastOf(ProjectionStart, today) <= reach
    BY <1>1, <1>5
  <2>2. PayPeriod(s, lp) /\ InPeriod(lp, LeastOf(ProjectionStart, today))
    BY <1>1, <2>1, ContainingIs
  <2> QED
    BY <2>2 DEF FirstDay, s
<1>7. FirstDay <= today
  BY <1>5, <1>6 DEF InPeriod, LeastOf
<1>8. /\ low \in Dates /\ low \in Int /\ low <= from /\ FirstDay <= low /\ low <= reach /\ reach \in Int
  BY <1>1, <1>3, <1>4, <1>2, <1>5, <1>7 DEF LeastOf
<1>9. ps = PeriodsFrom(s, NextPayDate(s, low), from, p.pay, MaxPeriods)
  BY <1>3, <1>4 DEF ProjectionPeriods
<1> HIDE DEF low, ps, lp
<1>10. ReachesBack(s, low)
  BY <1>1, <1>8, ReachesBackLater
<1>11. PayPeriod(s, first) /\ InPeriod(first, low)
  BY <1>1, <1>8, <1>10, ContainingIs
<1>12. FirstDay <= first.start /\ first.start \in Int
  <2>1. first.start \in Int
    BY <1>1, <1>11, PayPeriodIs DEF Periods
  <2>2. lp.start \in Int /\ lp.end \in Int /\ lp.start < lp.end
    BY <1>1, <1>6, PayPeriodIs DEF Periods
  <2>3. InPeriod(lp, FirstDay)
    BY <1>6, <2>2 DEF InPeriod
  <2> HIDE DEF first
  <2> QED
    BY <1>1, <1>5, <1>6, <1>8, <1>11, <2>1, <2>3, PeriodsOrder
<1>13. p.pay + 744 <= reach
  BY <1>1, <1>2, <1>4
<1>14. 6 * MaxPeriods > p.pay - first.start
  <2>1. MaxPeriods \in Nat /\ MaxOverlapping \in Nat
    BY BoundsAssumption
  <2>2. 6 * MaxPeriods >= 6 * LeastOf(MaxPeriods, MaxOverlapping)
    BY <2>1 DEF LeastOf
  <2>3. LeastOf(MaxPeriods, MaxOverlapping) \in Nat
    BY <2>1 DEF LeastOf
  <2> DEFINE a == LeastOf(MaxPeriods, MaxOverlapping)
             e == LastPeriod.end
             f == first.start
             g == p.end
  <2>4. /\ a \in Nat /\ e \in Int /\ f \in Int /\ g \in Int /\ 6 * MaxPeriods >= 6 * a /\ 6 * a > e - FirstDay
        /\ FirstDay <= f /\ g <= e
    BY <1>1, <1>2, <1>4, <1>12, <2>2, <2>3
  <2> HIDE DEF a, e, f, g
  <2>5. 6 * MaxPeriods > g - f
    BY <1>5, <2>1, <2>4
  <2> QED
    BY <1>2, <2>5 DEF f, g
<1>15. p.pay >= from
  BY <1>2, <1>3
<1> HIDE DEF reach, first
<1>16. /\ ps \in Seq(Periods) /\ Tile(s, ps)
       /\ \A i \in DOMAIN ps : Overlaps(s, from, p.pay, ps[i])
       /\ ps # <<>> => InPeriod(ps[1], from)
       /\ ps # <<>> /\ InPeriod(ps[Len(ps)], p.pay)
  <2> DEFINE to == p.pay
             qs == PeriodsFrom(s, NextPayDate(s, low), from, to, MaxPeriods)
  <2>1. /\ s \in ScheduleType /\ low \in Dates /\ from \in Dates /\ low <= from
        /\ to \in Dates /\ MaxPeriods \in Nat /\ reach \in Int /\ Reaches(s, reach)
        /\ to + 744 <= reach /\ low <= reach /\ ReachesBack(s, low)
    BY <1>1, <1>3, <1>4, <1>8, <1>10, <1>13, BoundsAssumption
  <2>2. to >= from /\ 6 * MaxPeriods > to - PeriodContaining(s, low).start
    BY <1>14, <1>15 DEF first
  <2> HIDE DEF to
  <2>3. /\ qs \in Seq(Periods) /\ Tile(s, qs)
        /\ \A i \in DOMAIN qs : Overlaps(s, from, to, qs[i])
        /\ qs # <<>> => InPeriod(qs[1], from)
        /\ to >= from /\ 6 * MaxPeriods > to - PeriodContaining(s, low).start
              => qs # <<>> /\ InPeriod(qs[Len(qs)], to)
    BY <2>1, PeriodsListed DEF Periods
  <2>4. ps = qs
    BY <1>9 DEF to
  <2> HIDE DEF qs
  <2>5. /\ qs \in Seq(Periods) /\ Tile(s, qs)
        /\ \A i \in DOMAIN qs : Overlaps(s, from, to, qs[i])
        /\ qs # <<>> => InPeriod(qs[1], from)
        /\ qs # <<>> /\ InPeriod(qs[Len(qs)], to)
    BY <2>2, <2>3
  <2> QED
    BY <2>4, <2>5 DEF to
<1>17. Cut(s, ps)
  BY <1>16 DEF Cut, Overlaps
<1>18. /\ Len(ps) \in Nat /\ DOMAIN ps = 1..Len(ps) /\ Len(ps) # 0
       /\ \A i \in DOMAIN ps : PayPeriod(s, ps[i]) /\ ps[i].start \in Int /\ ps[i].end \in Int
                               /\ ps[i].start < ps[i].end
  BY <1>1, <1>16, <1>17, CutFacts
<1>19. 1 \in DOMAIN ps /\ Len(ps) \in DOMAIN ps
  BY <1>18
<1>20. ps[1] = p
  <2>1. InPeriod(p, from) /\ InPeriod(ps[1], from)
    BY <1>3, <1>16 DEF InPeriod
  <2> QED
    BY <1>1, <1>2, <1>3, <1>18, <1>19, <2>1, OnePeriod
<1>21. ps[Len(ps)] = p
  <2>1. InPeriod(p, p.pay) /\ InPeriod(ps[Len(ps)], p.pay) /\ p.pay \in Int
    BY <1>2, <1>16 DEF InPeriod
  <2> QED
    BY <1>1, <1>2, <1>18, <1>19, <2>1, OnePeriod
<1>22. Len(ps) = 1
  <2>1. CASE 1 < Len(ps)
    <3>1. ps[1].end < ps[Len(ps)].start
      BY <1>1, <1>17, <1>19, <2>1, CutIncreases
    <3> QED
      BY <1>2, <1>20, <1>21, <3>1
  <2> QED
    BY <1>18, <2>1
<1> QED
  BY <1>17, <1>20, <1>22 DEF p, from, s, ps

LEMMA SameStartSameLine ==
    ASSUME NEW p, NEW a, NEW b, NEW asOf, EffectiveStart(p, a) = EffectiveStart(p, b)
    PROVE  Line(p, a, asOf) = Line(p, b, asOf)
BY DEF Line

(* Computed alone, a period has the row of its line in the projection. *)
LEMMA AloneComputed ==
    ASSUME ProjectionsInv, NEW n \in DOMAIN Projected
    PROVE  \E alone \in PeriodRow(Projected[n].pay, today) : RowOf(alone, Line(Projected[n], range.start, today))
<1> DEFINE s == PayDays
           p == Projected[n]
           from == EffectiveStart(p, range.start)
           ps == ProjectionPeriods(s, today, from, p.pay)
           lines == LinesOf(ps, from, today)
           built == BuildRows(0, from, p.pay, today)
           inside == range.start # NoDate /\ range.start > p.start
<1>1. /\ s \in ScheduleType /\ Cut(s, Projected) /\ LastPeriod.end \in Int
      /\ Reaches(s, LastPeriod.end + 744)
  BY RangeFacts, ProjectedFacts
<1>2. PayPeriod(s, p) /\ p.pay = p.end /\ p.start \in Int /\ p.end \in Int /\ p.start < p.end
  BY <1>1, CutFacts, PayPeriodIs
<1>3. /\ (IF inside THEN range.start ELSE p.start) = from
      /\ ~(inside /\ range.start > p.end)
      /\ EffectiveStart(p, from) = from
  BY StartLooksUp
<1>4. Cut(s, ps) /\ Len(ps) = 1 /\ ps[1] = p
  BY AloneListed
<1>5. p = PeriodForPayDate(s, p.pay) /\ p.pay \in Dates /\ ReachesBack(s, p.pay)
  BY <1>2 DEF PayPeriod
<1>6. p.end <= LastPeriod.end
  BY ListedWithin
<1> HIDE DEF p, from, s, ps
<1>7. NextPayDate(s, p.pay) = p.pay
  <2> DEFINE reach == LastPeriod.end + 744
             q == PeriodContaining(s, p.pay)
  <2>1. reach \in Int /\ p.pay <= reach /\ Reaches(s, reach)
    BY <1>1, <1>2, <1>6
  <2>2. PayPeriod(s, q) /\ InPeriod(q, p.pay)
    BY <1>1, <1>5, <2>1, ContainingIs
  <2>3. q.pay = NextPayDate(s, p.pay)
    BY DEF PeriodContaining, PeriodForPayDate
  <2> HIDE DEF q
  <2>4. InPeriod(p, p.pay) /\ p.pay \in Int
    BY <1>2 DEF InPeriod
  <2>5. p = q
    BY <1>1, <1>2, <2>2, <2>4, OnePeriod
  <2> QED
    BY <2>3, <2>5
<1>8. built = Running(lines, 0)
  BY DEF BuildRows, s, ps, PayDays
<1>9. Len(lines) = 1 /\ DOMAIN lines = 1..1 /\ lines[1] = Line(p, from, today)
  <2>1. Len(lines) = Len(ps) /\ DOMAIN lines = DOMAIN ps
        /\ \A m \in DOMAIN ps : lines[m] = Line(ps[m], from, today)
    BY <1>1, <1>4, LinesAre
  <2>2. DOMAIN ps = 1..1
    BY <1>1, <1>4, CutFacts
  <2> HIDE DEF lines
  <2> QED
    BY <1>4, <2>1, <2>2
<1> HIDE DEF lines, built
<1>10. DOMAIN built = 1..1 /\ RowOf(built[1], Line(p, from, today))
  <2>1. Len(lines) \in Nat /\ DOMAIN lines = 1..Len(lines)
    BY <1>9
  <2>2. /\ DOMAIN Running(lines, 0) = DOMAIN lines
        /\ \A m \in DOMAIN lines : RowOf(Running(lines, 0)[m], lines[m])
    BY <2>1, RunningAre
  <2> QED
    BY <1>8, <1>9, <2>2
<1>11. Line(p, from, today) = Line(p, range.start, today)
  <2>1. EffectiveStart(p, from) = EffectiveStart(p, range.start)
    BY <1>3 DEF from
  <2> QED
    BY <2>1, SameStartSameLine
<1>12. built[1].pay = p.pay
  BY <1>10 DEF RowOf, Line, Summed
<1>13. built[1] \in PaidFirst(built, p.pay)
  BY <1>10, <1>12 DEF PaidFirst
<1>14. PeriodRow(p.pay, today) = PaidFirst(built, p.pay)
  BY <1>3, <1>5, <1>7 DEF PeriodRow, built, s, PayDays, inside
<1> QED
  BY <1>10, <1>11, <1>13, <1>14 DEF p

(* What the expenses tab lists of a period is what the projection has of it. *)
LEMMA TabLists ==
    ASSUME ProjectionsInv, LiveRows, NEW p, p = TabPeriod("last-period", today),
           \A a \in Accounts : ~Excludes(a)
    PROVE  {i \in TabItems("last-period", TRUE, today) : i.of # "budget"} =
               {i \in ItemsIn(p, today) : i.of \in Spendings \ {"budget"}}
<1> DEFINE T == TabItems("last-period", TRUE, today)
           due == PlannedDue(p, today)
           charged == TemplateItems("expense", p, today)
           live == template["expense"].live
           recorded == ActualItems({r \in SpendingRows(p) : r.of # "budget"})
<1>1. \A a : ~Excludes(a)
  BY DEF Excludes
<1>2. T = recorded \cup (due \cup (IF live THEN charged ELSE {})) \cup BudgetLine(p)
  BY DEF TabItems
<1>3. \A i \in BudgetLine(p) \cup BudgetItems(p, today) : i.of = "budget"
  BY DEF BudgetLine, BudgetItems, Item
<1>4. \A i \in due : i.of = "planned"
  BY DEF PlannedDue, Item
<1>5. ASSUME NEW k, NEW i \in TemplateItems(k, p, today) PROVE i.of = k
  <2>1. PICK d : i = Item(k, d, d, Amount[k], Sign(k, template[k].to), template[k].account, TRUE)
    BY DEF TemplateItems
  <2> QED
    BY <2>1 DEF Item
<1>6. PlannedItems(p, today) = due
  BY <1>1 DEF PlannedItems
<1>7. Shows("expense") <=> live
  BY <1>1 DEF Shows
<1>8. recorded = {i \in RowItems(p) : i.of \in Spendings \ {"budget"}}
  <2>1. ASSUME NEW r \in rows, r.of \in Spendings \ {"budget"}
        PROVE  /\ r.live /\ Counts(r)
               /\ Item(r.of, r.due, r.date, r.amount, -1, r.account, FALSE)
                     = Item(r.of, r.due, r.date, r.amount, Sign(r.of, r.to), r.account, FALSE)
    BY <1>1, <2>1 DEF LiveRows, DeletedSoftly, Counts, Sign, Spendings
  <2>2. ASSUME NEW i \in recorded PROVE i \in RowItems(p) /\ i.of \in Spendings \ {"budget"}
    <3>1. PICK r \in {r \in SpendingRows(p) : r.of # "budget"} :
             i = Item(r.of, r.due, r.date, r.amount, -1, r.account, FALSE)
      BY <2>2 DEF ActualItems
    <3>2. r \in rows /\ r.of \in Spendings \ {"budget"} /\ InPeriod(p, r.date)
      BY <3>1 DEF SpendingRows
    <3>3. i.of = r.of
      BY <3>1 DEF Item
    <3>4. r.live /\ Counts(r) /\ i = Item(r.of, r.due, r.date, r.amount, Sign(r.of, r.to), r.account, FALSE)
      BY <2>1, <3>1, <3>2
    <3> QED
      BY <3>2, <3>3, <3>4 DEF RowItems
  <2>3. ASSUME NEW i \in RowItems(p), i.of \in Spendings \ {"budget"} PROVE i \in recorded
    <3>1. PICK r \in {x \in rows : x.live /\ InPeriod(p, x.date) /\ Counts(x)} :
             i = Item(r.of, r.due, r.date, r.amount, Sign(r.of, r.to), r.account, FALSE)
      BY <2>3 DEF RowItems
    <3>2. i.of = r.of
      BY <3>1 DEF Item
    <3>3. r \in {x \in SpendingRows(p) : x.of # "budget"}
      BY <2>3, <3>1, <3>2 DEF SpendingRows
    <3>4. i = Item(r.of, r.due, r.date, r.amount, -1, r.account, FALSE)
      BY <2>1, <2>3, <3>1, <3>2
    <3> QED
      BY <3>3, <3>4 DEF ActualItems
  <2> HIDE DEF recorded
  <2> QED
    BY <2>2, <2>3
<1>9. \A k \in Templates : k \in Spendings => k = "expense"
  BY DEF Templates, Spendings
<1>10. "expense" \in Templates /\ "expense" \in Spendings /\ "planned" \in Spendings
  BY DEF Templates, Spendings
<1> HIDE DEF T, due, live, recorded
<1>11. \A i : i \in ItemsIn(p, today) <=>
            \/ i \in RowItems(p) \/ i \in due \/ i \in BudgetItems(p, today)
            \/ \E k \in Templates : Shows(k) /\ i \in TemplateItems(k, p, today)
  BY <1>6 DEF ItemsIn
<1>12. ASSUME NEW i \in T, i.of # "budget"
       PROVE  i \in ItemsIn(p, today) /\ i.of \in Spendings \ {"budget"}
  <2>1. CASE i \in recorded
    BY <1>8, <1>11, <2>1
  <2>2. CASE i \in due
    BY <1>4, <1>10, <1>11, <2>2
  <2>3. CASE live /\ i \in charged
    BY <1>5, <1>7, <1>10, <1>11, <2>3
  <2> QED
    BY <1>2, <1>3, <1>12, <2>1, <2>2, <2>3
<1>13. ASSUME NEW i \in ItemsIn(p, today), i.of \in Spendings \ {"budget"}
       PROVE  i \in T
  <2>1. CASE i \in RowItems(p)
    BY <1>2, <1>8, <1>13, <2>1
  <2>2. CASE i \in due
    BY <1>2, <2>2
  <2>3. CASE \E k \in Templates : Shows(k) /\ i \in TemplateItems(k, p, today)
    <3>1. PICK k \in Templates : Shows(k) /\ i \in TemplateItems(k, p, today)
      BY <2>3
    <3>2. k = "expense"
      BY <1>5, <1>9, <1>13, <3>1
    <3> QED
      BY <1>2, <1>7, <3>1, <3>2
  <2> QED
    BY <1>3, <1>11, <1>13, <2>1, <2>2, <2>3
<1> QED
  BY <1>12, <1>13 DEF T

LEMMA InvTabMatches ==
    ASSUME ProjectionsInv, LiveRows, NEW r, NEW n \in DOMAIN Projected,
           RowOf(r, Line(Projected[n], range.start, today))
    PROVE  TabMatches(r)
<1> DEFINE s == PayDays
           p == Projected[n]
           from == EffectiveStart(p, range.start)
           period == PeriodContaining(s, today)
           line == Line(p, range.start, today)
<1>1. /\ s \in ScheduleType /\ Cut(s, Projected) /\ LastPeriod.end \in Int /\ today \in Dates
      /\ PayPeriod(s, p) /\ p.start \in Int /\ p.end \in Int
  BY RangeFacts, ProjectedFacts, CutFacts
<1>2. p.end <= LastPeriod.end
  BY ListedWithin
<1>3. TabPeriod("last-period", today) = period
  BY DEF TabPeriod, s, PayDays
<1>4. ASSUME \A a \in Accounts : ~Excludes(a), r.pay = period.pay, r.start = period.start
      PROVE  {i \in TabItems("last-period", TRUE, today) : i.of # "budget"} =
                 {i \in r.items : i.of \in Spendings \ {"budget"}}
  <2>1. r.pay = p.pay /\ r.start = from /\ r.items = line.items
    BY DEF RowOf, Line, Summed
  <2>2. period = p
    <3>1. p = PeriodForPayDate(s, p.pay)
      BY <1>1 DEF PayPeriod
    <3>2. period = PeriodForPayDate(s, period.pay)
      BY DEF PeriodContaining, PeriodForPayDate
    <3> HIDE DEF p, period
    <3> QED
      BY <1>4, <2>1, <3>1, <3>2
  <2>3. from = p.start
    BY <1>4, <2>1, <2>2
  <2>4. line.items = {i \in ItemsIn(p, today) : IF i.sign = 1 THEN from = p.start ELSE i.date >= from}
    BY DEF Line, Summed
  <2>5. \A i \in ItemsIn(p, today) : i.date >= p.start
    BY <1>1, <1>2, ItemsInPeriod DEF InPeriod
  <2> HIDE DEF p, from, line, period
  <2>6. r.items = ItemsIn(p, today)
    BY <2>1, <2>3, <2>4, <2>5
  <2>7. {i \in TabItems("last-period", TRUE, today) : i.of # "budget"} =
            {i \in ItemsIn(p, today) : i.of \in Spendings \ {"budget"}}
    BY <1>3, <1>4, <2>2, TabLists
  <2> QED
    BY <2>6, <2>7
<1> QED
  BY <1>3, <1>4 DEF TabMatches

LEMMA InvPeriodItemsMatch == ProjectionsInv /\ LiveRows => PeriodItemsMatch
<1> SUFFICES ASSUME ProjectionsInv, LiveRows, NEW r \in Range(Projection(today))
             PROVE  /\ \E alone \in PeriodRow(r.pay, today) :
                          /\ alone.start = r.start /\ alone.end = r.end
                          /\ alone.items = r.items /\ alone.income = r.income /\ alone.expense = r.expense
                    /\ TabMatches(r)
  BY DEF PeriodItemsMatch
<1> DEFINE built == Projection(today)
<1>1. DOMAIN built = DOMAIN Projected
      /\ \A n \in DOMAIN Projected : RowOf(built[n], Line(Projected[n], range.start, today))
  BY InvProjectedRows DEF ProjectedRows
<1>2. PICK n \in DOMAIN built : r = built[n]
  BY DEF Range
<1> HIDE DEF built
<1>3. n \in DOMAIN Projected /\ RowOf(r, Line(Projected[n], range.start, today))
  BY <1>1, <1>2
<1>4. r.pay = Projected[n].pay
  BY <1>3 DEF RowOf, Line, Summed
<1>5. PICK alone \in PeriodRow(r.pay, today) : RowOf(alone, Line(Projected[n], range.start, today))
  BY <1>3, <1>4, AloneComputed
<1>6. TabMatches(r)
  BY <1>3, InvTabMatches
<1> QED
  BY <1>3, <1>5, <1>6 DEF RowOf

(* Opened alone, each period of a projection has the items it was summed from, *)
(* and the expenses tab lists the same expenses of the current one             *)
(* (projection_period_items, build_expense_period_view).                     *)
THEOREM PeriodsOpened == Spec => []PeriodItemsMatch
BY ProjectionsInvariant, LiveRowsInvariant, InvPeriodItemsMatch, PTL

-----------------------------------------------------------------------------
(* Rows computed after a frozen period. *)

(* The balances of a list of lines. *)
BalancesTo(u, lines, opening, m) ==
    /\ u[0] = opening
    /\ \A n \in 1..m : u[n] = u[n - 1] + Net(lines[n])
Balances(u, lines, opening, m) ==
    u = [n \in 0..m |-> IF n = 0 THEN opening ELSE u[n - 1] + Net(lines[n])]
RunRow(line, opening, balance) ==
    [pay |-> line.pay, start |-> line.start, end |-> line.end,
     income |-> line.income, expense |-> line.expense,
     free |-> IF line.opening THEN opening ELSE Net(line),
     cumulative |-> balance, items |-> line.items]

LEMMA BalancesExist ==
    ASSUME NEW lines, NEW opening, NEW m \in Nat
    PROVE  \E u : Balances(u, lines, opening, m)
<1> DEFINE Good(u, k) == u = [n \in 0..k |-> u[n]] /\ BalancesTo(u, lines, opening, k)
           Bad == {k \in Nat : ~\E u : Good(u, k)}
<1>1. Bad = {}
  <2> SUFFICES ASSUME Bad # {} PROVE FALSE
    OBVIOUS
  <2>1. PICK k \in Bad : \A j \in Bad : k <= j
    <3>1. Bad \in SUBSET Nat
      OBVIOUS
    <3> HIDE DEF Bad
    <3> QED
      BY <3>1, Least
  <2>2. k \in Nat /\ ~\E u : Good(u, k)
    OBVIOUS
  <2>3. CASE k = 0
    <3> DEFINE u == [n \in 0..0 |-> opening]
    <3>1. u = [n \in 0..0 |-> u[n]] /\ u[0] = opening
      OBVIOUS
    <3>2. 1..0 = {}
      OBVIOUS
    <3> HIDE DEF u
    <3>3. Good(u, 0)
      BY <3>1, <3>2 DEF BalancesTo
    <3> QED
      BY <2>2, <2>3, <3>3
  <2>4. CASE k # 0
    <3>1. k - 1 \in Nat /\ ~(k <= k - 1)
      BY <2>2, <2>4
    <3>2. k - 1 \notin Bad
      <4> HIDE DEF Bad
      <4> QED
        BY <2>1, <3>1
    <3>3. PICK u : Good(u, k - 1)
      <4> HIDE DEF Good
      <4> QED
        BY <3>1, <3>2
    <3> DEFINE w == [n \in 0..k |-> IF n = k THEN u[k - 1] + Net(lines[k]) ELSE u[n]]
    <3>4. /\ w = [n \in 0..k |-> w[n]]
          /\ w[k] = u[k - 1] + Net(lines[k])
          /\ \A n \in 0..(k - 1) : w[n] = u[n]
      BY <2>2, <3>1
    <3>5. u[0] = opening /\ \A n \in 1..(k - 1) : u[n] = u[n - 1] + Net(lines[n])
      BY <3>3 DEF BalancesTo
    <3> HIDE DEF w
    <3>6. w[0] = opening /\ w[k] = w[k - 1] + Net(lines[k])
      <4>1. 0 \in 0..(k - 1) /\ k - 1 \in 0..(k - 1)
        BY <3>1
      <4> QED
        BY <3>4, <3>5, <4>1
    <3>7. ASSUME NEW n \in 1..(k - 1) PROVE w[n] = w[n - 1] + Net(lines[n])
      <4>1. n \in 0..(k - 1) /\ n - 1 \in 0..(k - 1)
        BY <2>2
      <4> QED
        BY <3>4, <3>5, <4>1
    <3>8. ASSUME NEW n \in 1..k PROVE w[n] = w[n - 1] + Net(lines[n])
      <4>1. n = k \/ n \in 1..(k - 1)
        BY <2>2
      <4> QED
        BY <3>6, <3>7, <4>1
    <3>9. Good(w, k)
      BY <3>4, <3>6, <3>8 DEF BalancesTo
    <3> QED
      BY <2>2, <3>9
  <2> QED
    BY <2>3, <2>4
<1>2. PICK u : Good(u, m)
  BY <1>1
<1>3. u = [n \in 0..m |-> u[n]] /\ u[0] = opening /\ \A n \in 1..m : u[n] = u[n - 1] + Net(lines[n])
  BY <1>2 DEF BalancesTo
<1>4. ASSUME NEW n \in 0..m PROVE u[n] = IF n = 0 THEN opening ELSE u[n - 1] + Net(lines[n])
  <2>1. n # 0 => n \in 1..m
    OBVIOUS
  <2> QED
    BY <1>3, <2>1
<1>5. u = [n \in 0..m |-> IF n = 0 THEN opening ELSE u[n - 1] + Net(lines[n])]
  BY <1>3, <1>4
<1> QED
  BY <1>5 DEF Balances

RunsBy(u, lines, opening) ==
    /\ BalancesTo(u, lines, opening, Len(lines))
    /\ Running(lines, opening) = [n \in 1..Len(lines) |-> RunRow(lines[n], opening, u[n])]

LEMMA RunningSteps ==
    ASSUME NEW lines, Len(lines) \in Nat, DOMAIN lines = 1..Len(lines), NEW opening
    PROVE  \E u : RunsBy(u, lines, opening)
<1> DEFINE L == Len(lines)
           until == CHOOSE g : Balances(g, lines, opening, L)
           f == [n \in DOMAIN lines |-> RunRow(lines[n], opening, until[n])]
           S == {RunRow(lines[n], opening, until[n]) : n \in DOMAIN lines}
<1>1. Running(lines, opening) = f \o <<>>
  BY DEF Running, RunRow, Balances
<1>2. until = [n \in 0..L |-> IF n = 0 THEN opening ELSE until[n - 1] + Net(lines[n])]
  <2>1. \E g : Balances(g, lines, opening, L)
    BY BalancesExist
  <2>2. Balances(until, lines, opening, L)
    BY <2>1
  <2> QED
    BY <2>2 DEF Balances
<1> HIDE DEF until
<1>3. BalancesTo(until, lines, opening, L)
  <2>1. 0 \in 0..L /\ \A n \in 1..L : n \in 0..L /\ n # 0
    OBVIOUS
  <2>2. \A n \in 0..L : until[n] = IF n = 0 THEN opening ELSE until[n - 1] + Net(lines[n])
    BY <1>2
  <2> QED
    BY <2>1, <2>2 DEF BalancesTo
<1>4. f \in [1..L -> S]
  OBVIOUS
<1>5. f = [n \in 1..L |-> RunRow(lines[n], opening, until[n])]
  OBVIOUS
<1> HIDE DEF f, S
<1>6. f \o <<>> = f
  BY <1>4, EndsHere
<1>7. RunsBy(until, lines, opening)
  BY <1>1, <1>3, <1>5, <1>6 DEF RunsBy
<1> QED
  BY <1>7

(* From any row on, the balance goes on from it. *)
LEMMA RunningRest ==
    ASSUME NEW lines, Len(lines) \in Nat, DOMAIN lines = 1..Len(lines), NEW opening,
           NEW rest, Len(rest) \in Nat, DOMAIN rest = 1..Len(rest),
           NEW n \in DOMAIN lines, Len(rest) = Len(lines) - n,
           \A i \in DOMAIN rest : rest[i] = lines[n + i] /\ ~rest[i].opening
    PROVE  Running(rest, Running(lines, opening)[n].cumulative)
             = SubSeq(Running(lines, opening), n + 1, Len(lines))
<1> DEFINE built == Running(lines, opening)
           m == Len(lines)
           k == Len(rest)
<1>1. PICK u : /\ BalancesTo(u, lines, opening, m)
               /\ built = [j \in 1..m |-> RunRow(lines[j], opening, u[j])]
  <2>1. \E w : RunsBy(w, lines, opening)
    BY RunningSteps
  <2> QED
    BY <2>1 DEF RunsBy
<1>2. built[n].cumulative = u[n]
  <2>1. built[n] = RunRow(lines[n], opening, u[n])
    BY <1>1
  <2> QED
    BY <2>1 DEF RunRow
<1>3. PICK v : /\ BalancesTo(v, rest, u[n], k)
               /\ Running(rest, u[n]) = [j \in 1..k |-> RunRow(rest[j], u[n], v[j])]
  <2> DEFINE o == u[n]
  <2> HIDE DEF o
  <2>1. \E v : RunsBy(v, rest, o)
    BY RunningSteps
  <2> QED
    BY <2>1 DEF o, RunsBy
<1>4. m \in Nat /\ n \in 1..m /\ k = m - n /\ k \in Nat
  OBVIOUS
<1>5. /\ \A j \in 1..m : u[j] = u[j - 1] + Net(lines[j])
      /\ v[0] = u[n] /\ \A j \in 1..k : v[j] = v[j - 1] + Net(rest[j])
      /\ \A j \in 1..k : rest[j] = lines[n + j] /\ ~rest[j].opening
  BY <1>1, <1>3 DEF BalancesTo
<1> DEFINE Bad == {j \in 0..k : v[j] # u[n + j]}
<1> HIDE DEF built, m, k
<1>6. Bad = {}
  <2> SUFFICES ASSUME Bad # {} PROVE FALSE
    OBVIOUS
  <2>1. PICK j \in Bad : \A i \in Bad : j <= i
    <3>1. Bad \in SUBSET Nat
      BY <1>4
    <3> HIDE DEF Bad
    <3> QED
      BY <3>1, Least
  <2>2. j \in 0..k /\ v[j] # u[n + j]
    OBVIOUS
  <2>3. j # 0
    <3>1. n + 0 = n
      BY <1>4
    <3> QED
      BY <1>5, <2>2, <3>1
  <2>4. /\ j \in 1..k /\ j - 1 \in 0..k /\ ~(j <= j - 1) /\ n + j \in 1..m
        /\ (n + j) - 1 = n + (j - 1)
    BY <1>4, <2>2, <2>3
  <2>5. v[j - 1] = u[n + (j - 1)]
    <3>1. j - 1 \notin Bad
      <4> HIDE DEF Bad
      <4> QED
        BY <2>1, <2>4
    <3> QED
      BY <2>4, <3>1
  <2>6. v[j] = v[j - 1] + Net(rest[j]) /\ rest[j] = lines[n + j]
        /\ u[n + j] = u[(n + j) - 1] + Net(lines[n + j])
    BY <1>5, <2>4
  <2> QED
    BY <2>2, <2>4, <2>5, <2>6
<1>7. ASSUME NEW j \in 1..k
      PROVE  RunRow(rest[j], u[n], v[j]) = built[n + j]
  <2>1. n + j \in 1..m /\ j \in 0..k
    BY <1>4
  <2>2. built[n + j] = RunRow(lines[n + j], opening, u[n + j])
    BY <1>1, <2>1
  <2>3. v[j] = u[n + j]
    BY <1>6, <2>1
  <2> QED
    BY <1>5, <2>2, <2>3 DEF RunRow
<1>8. SubSeq(built, n + 1, m) = [j \in 1..k |-> built[n + j]]
  <2> DEFINE S == {built[j] : j \in 1..m}
             part == SubSeq(built, n + 1, m)
  <2>1. /\ part \in Seq(S)
        /\ Len(part) = IF n + 1 <= m THEN m - (n + 1) + 1 ELSE 0
        /\ \A j \in 1..(m - (n + 1) + 1) : part[j] = built[(n + 1) + j - 1]
    <3>1. n + 1 \in Int /\ m \in Int /\ \A i \in (n + 1)..m : built[i] \in S
      BY <1>4
    <3> HIDE DEF S
    <3> QED
      BY <3>1, SubSeqProperties
  <2> HIDE DEF S, part
  <2>2. Len(part) = k /\ m - (n + 1) + 1 = k
    BY <1>4, <2>1
  <2>3. \A j \in 1..k : (n + 1) + j - 1 = n + j
    BY <1>4
  <2>4. \A j \in 1..k : part[j] = built[n + j]
    BY <2>1, <2>2, <2>3
  <2>5. part = [j \in 1..k |-> part[j]]
    <3>1. part \in [1..Len(part) -> S]
      BY <2>1
    <3> QED
      BY <2>2, <3>1
  <2> QED
    BY <2>4, <2>5 DEF part
<1>9. Running(rest, u[n]) = [j \in 1..k |-> built[n + j]]
  BY <1>3, <1>7
<1> QED
  BY <1>2, <1>8, <1>9 DEF built, m

(* What follows a period of a list is a list. *)
LEMMA RestOfCut ==
    ASSUME NEW s \in ScheduleType, NEW ps, Cut(s, ps), NEW n \in DOMAIN ps
    PROVE  LET rest == [i \in 1..(Len(ps) - n) |-> ps[n + i]] IN
           Cut(s, rest) /\ Len(rest) = Len(ps) - n
<1> DEFINE k == Len(ps) - n
           rest == [i \in 1..k |-> ps[n + i]]
<1>1. /\ Len(ps) \in Nat /\ DOMAIN ps = 1..Len(ps) /\ n \in Nat /\ k \in Nat
      /\ \A i \in DOMAIN ps : /\ ps[i] \in Periods /\ PayPeriod(s, ps[i])
                              /\ i > 1 => i - 1 \in DOMAIN ps /\ ps[i].start = ps[i - 1].end + 1
  BY CutFacts
<1>2. \A i \in 1..k : n + i \in DOMAIN ps /\ rest[i] = ps[n + i]
  BY <1>1
<1>3. rest \in [1..k -> Periods]
  BY <1>1, <1>2
<1> HIDE DEF rest
<1>4. rest \in Seq(Periods) /\ Len(rest) = k /\ DOMAIN rest = 1..k
  BY <1>1, <1>3
<1>5. \A i \in DOMAIN rest : PayPeriod(s, rest[i])
  BY <1>1, <1>2, <1>4
<1>6. ASSUME NEW i \in DOMAIN rest
      PROVE  /\ rest[i].pay = rest[i].end /\ {d \in rest[i].start..rest[i].end : OnGrid(s, d)} = {rest[i].end}
             /\ i > 1 => rest[i].start = rest[i - 1].end + 1
  <2>1. rest[i].pay = rest[i].end /\ {d \in rest[i].start..rest[i].end : OnGrid(s, d)} = {rest[i].end}
    BY <1>5, PayPeriodIs
  <2>2. ASSUME i > 1 PROVE rest[i].start = rest[i - 1].end + 1
    <3>1. /\ i \in 1..k /\ i - 1 \in 1..k /\ n + i \in DOMAIN ps /\ n + i > 1
          /\ (n + i) - 1 = n + (i - 1)
      BY <1>1, <1>2, <1>4, <2>2
    <3>2. ps[n + i].start = ps[(n + i) - 1].end + 1
      BY <1>1, <3>1
    <3> QED
      BY <1>2, <3>1, <3>2
  <2> QED
    BY <2>1, <2>2
<1>7. Tile(s, rest)
  BY <1>6 DEF Tile
<1> QED
  BY <1>4, <1>5, <1>7 DEF Cut, rest, k

(* The list from the day after a past period is the rest of the list. *)
LEMMA RestListed ==
    ASSUME ProjectionsInv, NEW n \in DOMAIN Projected, Projected[n].pay < today
    PROVE  LET qs == ProjectionPeriods(PayDays, today, Projected[n].pay + 1, range.end) IN
           /\ Cut(PayDays, qs) /\ Len(qs) = Len(Projected) - n
           /\ \A i \in DOMAIN qs : qs[i] = Projected[n + i]
<1> DEFINE s == PayDays
           p == Projected[n]
           from == p.pay + 1
           to == ProjectionEnd
           qs == ProjectionPeriods(s, today, from, range.end)
           reach == LastPeriod.end + 744
           first == PeriodContaining(s, from)
           lp == PeriodContaining(s, LeastOf(ProjectionStart, today))
           last == Projected[Len(Projected)]
           rest == [i \in 1..(Len(Projected) - n) |-> Projected[n + i]]
<1>1. /\ s \in ScheduleType /\ Cut(s, Projected) /\ today \in Dates
      /\ LeastOf(ProjectionStart, today) \in Dates /\ FirstDay \in Dates
      /\ LastPeriod.end \in Int /\ LeastOf(ProjectionStart, today) <= LastPeriod.end
      /\ to \in Dates /\ to <= LastPeriod.end /\ ProjectionStart \in Dates
      /\ Reaches(s, reach) /\ ReachesBack(s, FirstDay)
      /\ ReachesBack(s, LeastOf(ProjectionStart, today))
      /\ 6 * LeastOf(MaxPeriods, MaxOverlapping) > LastPeriod.end - FirstDay
  BY RangeFacts, ProjectedFacts
<1>2. /\ PayPeriod(s, p) /\ p.pay = p.end /\ p.start \in Int /\ p.end \in Int /\ p.start < p.end
      /\ Len(Projected) \in Nat /\ DOMAIN Projected = 1..Len(Projected)
      /\ Len(Projected) \in DOMAIN Projected
      /\ PayPeriod(s, last) /\ last.start \in Int /\ last.end \in Int /\ last.start < last.end
      /\ n + 1 \in DOMAIN Projected
           => /\ Projected[n + 1].start = p.end + 1 /\ PayPeriod(s, Projected[n + 1])
              /\ Projected[n + 1].end \in Int /\ Projected[n + 1].start < Projected[n + 1].end
  <2>1. n \in Nat /\ n >= 1
    BY <1>1, CutFacts
  <2>2. n + 1 > 1 /\ (n + 1) - 1 = n
    BY <2>1
  <2> QED
    BY <1>1, <2>1, <2>2, CutFacts, PayPeriodIs
<1>3. p.end >= ProjectionStart /\ p.start <= to /\ last.start <= to
      /\ (to >= ProjectionStart => InPeriod(last, to))
  BY <1>2, ProjectedFacts DEF Overlaps
<1>4. p.end <= LastPeriod.end /\ FirstDay <= p.start
  BY ListedWithin
<1> HIDE DEF p, s, to, last
<1>5. /\ today \in Int /\ FirstDay \in Int /\ LeastOf(ProjectionStart, today) \in Int
      /\ ProjectionStart \in Int /\ to \in Int /\ p.pay \in Dates
  <2>1. \A d \in Dates : d \in Int
    BY DateFacts
  <2> QED
    BY <1>1, <1>2, <2>1 DEF PayPeriod
<1>6. PayPeriod(s, lp) /\ InPeriod(lp, LeastOf(ProjectionStart, today)) /\ FirstDay = lp.start
  <2>1. reach \in Int /\ LeastOf(ProjectionStart, today) <= reach
    BY <1>1, <1>5
  <2>2. PayPeriod(s, lp) /\ InPeriod(lp, LeastOf(ProjectionStart, today))
    BY <1>1, <2>1, ContainingIs
  <2> QED
    BY <2>2 DEF FirstDay, s
<1>7. /\ from \in Dates /\ from \in Int /\ from # NoDate /\ FirstDay <= from
      /\ from <= reach /\ reach \in Int /\ LeastOf(from, today) = from
  <2>0. p.pay < today /\ p.pay \in Int /\ p.pay \in Nat /\ today \in Nat
    <3>1. p.pay < today
      BY DEF p
    <3>2. p.pay \in Nat /\ today \in Nat
      BY <1>1, <1>5, DateFacts
    <3> QED
      BY <3>1, <3>2
  <2>1. from \in Int /\ p.pay <= from /\ from <= today
    BY <2>0
  <2>2. from \in Dates
    <3>1. \A d \in Int : d \in Dates <=> MonthStart[0] <= d /\ d < MonthStart[LastMonth]
      BY DateFacts
    <3>2. MonthStart[0] \in Nat /\ MonthStart[LastMonth] \in Nat
      BY DateFacts
    <3>3. MonthStart[0] <= p.pay /\ today < MonthStart[LastMonth]
      <4>1. p.pay \in Int /\ p.pay \in Dates /\ today \in Int /\ today \in Dates
        BY <1>1, <1>5, <2>0
      <4> QED
        BY <3>1, <4>1
    <3> HIDE DEF from
    <3> QED
      BY <2>0, <2>1, <3>1, <3>2, <3>3
  <2>3. from \in Nat
    BY <2>0
  <2>4. FirstDay <= from
    BY <1>2, <1>4, <1>5
  <2>5. reach \in Int /\ from <= reach
    BY <1>1, <1>2, <1>4
  <2> HIDE DEF from, reach
  <2>6. LeastOf(from, today) = from
    BY <1>5, <2>1 DEF LeastOf
  <2>7. from # NoDate
    BY <2>3 DEF NoDate
  <2> QED
    BY <2>1, <2>2, <2>4, <2>5, <2>6, <2>7
<1>8. qs = PeriodsFrom(s, NextPayDate(s, from), from, to, MaxPeriods)
  BY <1>7 DEF ProjectionPeriods, to, ProjectionEnd
<1> HIDE DEF qs, lp
<1>9. ReachesBack(s, from)
  BY <1>1, <1>7, ReachesBackLater
<1>10. PayPeriod(s, first) /\ InPeriod(first, from)
  BY <1>1, <1>7, <1>9, ContainingIs
<1>11. FirstDay <= first.start /\ first.start \in Int
  <2>1. first.start \in Int
    BY <1>1, <1>10, PayPeriodIs DEF Periods
  <2>2. lp.start \in Int /\ lp.end \in Int /\ lp.start < lp.end
    BY <1>1, <1>6, PayPeriodIs DEF Periods
  <2>3. InPeriod(lp, FirstDay)
    BY <1>6, <2>2 DEF InPeriod
  <2> HIDE DEF first, from
  <2> QED
    BY <1>1, <1>5, <1>6, <1>7, <1>10, <2>1, <2>3, PeriodsOrder
<1>12. 6 * MaxPeriods > to - first.start
  <2>1. MaxPeriods \in Nat /\ MaxOverlapping \in Nat
    BY BoundsAssumption
  <2> DEFINE a == LeastOf(MaxPeriods, MaxOverlapping)
             e == LastPeriod.end
             f == first.start
  <2>2. 6 * MaxPeriods >= 6 * a /\ a \in Nat
    BY <2>1 DEF LeastOf
  <2>3. /\ e \in Int /\ f \in Int /\ 6 * a > e - FirstDay
        /\ FirstDay <= f /\ to <= e
    BY <1>1, <1>11
  <2> HIDE DEF a, e, f
  <2>4. 6 * MaxPeriods > to - f
    BY <1>5, <2>1, <2>2, <2>3
  <2> QED
    BY <2>4 DEF f
<1>13. /\ qs \in Seq(Periods) /\ Tile(s, qs)
       /\ \A i \in DOMAIN qs : Overlaps(s, from, to, qs[i])
       /\ qs # <<>> => InPeriod(qs[1], from)
       /\ to >= from => qs # <<>> /\ InPeriod(qs[Len(qs)], to)
  <2> DEFINE rs == PeriodsFrom(s, NextPayDate(s, from), from, to, MaxPeriods)
             f == from
  <2>1. /\ s \in ScheduleType /\ f \in Dates /\ f <= f /\ f \in Int
        /\ to \in Dates /\ MaxPeriods \in Nat /\ reach \in Int /\ Reaches(s, reach)
        /\ to + 744 <= reach /\ f <= reach /\ ReachesBack(s, f)
    BY <1>1, <1>5, <1>7, <1>9, BoundsAssumption
  <2>2. 6 * MaxPeriods > to - PeriodContaining(s, f).start
    BY <1>12
  <2>3. rs = PeriodsFrom(s, NextPayDate(s, f), f, to, MaxPeriods) /\ qs = rs
    BY <1>8
  <2> HIDE DEF rs, f, first, reach
  <2>4. /\ rs \in Seq(Periods) /\ Tile(s, rs)
        /\ \A i \in DOMAIN rs : Overlaps(s, f, to, rs[i])
        /\ rs # <<>> => InPeriod(rs[1], f)
        /\ to >= f /\ 6 * MaxPeriods > to - PeriodContaining(s, f).start
              => rs # <<>> /\ InPeriod(rs[Len(rs)], to)
    BY <2>1, <2>3, PeriodsListed DEF Periods
  <2> QED
    BY <2>2, <2>3, <2>4 DEF f
<1> HIDE DEF reach, first
<1>14. Cut(s, qs)
  BY <1>13 DEF Cut, Overlaps
<1>15. /\ Len(qs) \in Nat /\ DOMAIN qs = 1..Len(qs) /\ (qs = <<>> <=> Len(qs) = 0)
       /\ \A i \in DOMAIN qs : PayPeriod(s, qs[i]) /\ qs[i].start \in Int /\ qs[i].end \in Int
                               /\ qs[i].start < qs[i].end
  BY <1>1, <1>14, CutFacts
<1>16. n \in Nat /\ n >= 1 /\ n <= Len(Projected)
  BY <1>2
<1>17. CASE to >= from
  <2>1. InPeriod(last, to) /\ last.end > p.end
    <3>1. to >= ProjectionStart
      BY <1>2, <1>3, <1>5, <1>17
    <3> QED
      BY <1>2, <1>3, <1>5, <1>17, <3>1 DEF InPeriod
  <2>2. n < Len(Projected) /\ n + 1 \in DOMAIN Projected
    <3>1. n # Len(Projected)
      BY <1>2, <2>1 DEF p, last
    <3> QED
      BY <1>2, <1>16, <3>1
  <2>3. Cut(s, rest) /\ Len(rest) = Len(Projected) - n
    BY <1>1, RestOfCut
  <2>4. /\ Len(rest) \in Nat /\ Len(rest) # 0 /\ rest # <<>>
        /\ rest[1] = Projected[n + 1] /\ rest[Len(rest)] = last
        /\ \A i \in DOMAIN rest : rest[i] = Projected[n + i]
    <3>1. Len(rest) \in Nat /\ Len(rest) # 0 /\ n + (Len(Projected) - n) = Len(Projected)
      BY <1>2, <1>16, <2>2, <2>3
    <3>2. 1 \in 1..(Len(Projected) - n) /\ Len(Projected) - n \in 1..(Len(Projected) - n)
      BY <1>2, <1>16, <2>2
    <3>3. rest # <<>>
      BY <2>3, <3>1
    <3> QED
      BY <2>3, <3>1, <3>2, <3>3 DEF last
  <2> HIDE DEF rest
  <2>5. qs # <<>> /\ InPeriod(qs[1], from) /\ InPeriod(qs[Len(qs)], to)
    BY <1>13, <1>17
  <2>6. 1 \in DOMAIN qs /\ Len(qs) \in DOMAIN qs
    BY <1>15, <2>5
  <2>7. qs[1] = rest[1]
    <3>1. InPeriod(rest[1], from)
      BY <1>2, <2>2, <2>4 DEF InPeriod
    <3> HIDE DEF from
    <3> QED
      BY <1>1, <1>2, <1>7, <1>15, <2>2, <2>4, <2>5, <2>6, <3>1, OnePeriod
  <2>8. qs[Len(qs)] = rest[Len(rest)]
    BY <1>1, <1>2, <1>5, <1>15, <2>1, <2>4, <2>5, <2>6, OnePeriod
  <2>9. qs = rest
    BY <1>1, <1>14, <2>3, <2>4, <2>5, <2>7, <2>8, SameCut
  <2>10. Cut(s, qs) /\ Len(qs) = Len(Projected) - n /\ \A i \in DOMAIN qs : qs[i] = Projected[n + i]
    BY <1>14, <2>3, <2>4, <2>9
  <2> QED
    BY <2>10 DEF qs, s, p
<1>18. CASE ~(to >= from)
  <2>1. n = Len(Projected)
    <3> SUFFICES ASSUME n < Len(Projected) PROVE FALSE
      BY <1>2, <1>16
    <3>1. p.end < last.start
      BY <1>1, <1>2, CutIncreases DEF p, last
    <3> QED
      BY <1>2, <1>3, <1>5, <1>18, <3>1
  <2>2. qs = <<>>
    <3> SUFFICES ASSUME qs # <<>> PROVE FALSE
      OBVIOUS
    <3> DEFINE q == qs[1]
    <3>1. 1 \in DOMAIN qs
      BY <1>15
    <3>2. /\ PayPeriod(s, q) /\ q.start \in Int /\ q.end \in Int
          /\ InPeriod(q, from) /\ q.start <= to
      BY <1>13, <1>15, <3>1 DEF Overlaps
    <3> HIDE DEF q
    <3>3. InPeriod(q, p.end) /\ InPeriod(p, p.end)
      <4>1. q.start <= p.end
        <5>1. to < p.end + 1
          BY <1>2, <1>5, <1>18
        <5> HIDE DEF from
        <5> QED
          BY <1>2, <1>5, <3>2, <5>1
      <4>2. p.end <= q.end
        <5>1. p.end + 1 <= q.end
          BY <1>2, <3>2 DEF InPeriod
        <5> QED
          BY <1>2, <3>2, <5>1
      <4> QED
        BY <1>2, <4>1, <4>2 DEF InPeriod
    <3>4. q = p
      BY <1>1, <1>2, <3>2, <3>3, OnePeriod
    <3> QED
      BY <1>2, <3>2, <3>4 DEF InPeriod
  <2>3. Len(qs) = 0 /\ DOMAIN qs = {}
    BY <1>15, <2>2
  <2>4. Cut(s, qs) /\ Len(qs) = Len(Projected) - n /\ \A i \in DOMAIN qs : qs[i] = Projected[n + i]
    BY <1>2, <1>14, <1>16, <2>1, <2>3
  <2> QED
    BY <2>4 DEF qs, s, p
<1> QED
  BY <1>17, <1>18

LEMMA InvFrozenAndLiveContinuous == ProjectionsInv => FrozenAndLiveContinuous
<1> SUFFICES ASSUME ProjectionsInv,
                    NEW n \in DOMAIN Projection(today), Projection(today)[n].pay < today - 1
             PROVE  RowsAfter(Projection(today)[n], today)
                      = SubSeq(Projection(today), n + 1, Len(Projection(today)))
  BY DEF FrozenAndLiveContinuous
<1> DEFINE s == PayDays
           ps == Projected
           lines == LinesOf(ps, range.start, today)
           built == Projection(today)
           from == ps[n].pay + 1
           qs == ProjectionPeriods(s, today, from, range.end)
           rest == LinesOf(qs, from, today)
<1>1. s \in ScheduleType /\ Cut(s, ps) /\ today \in Int
  <2>1. \A d \in Dates : d \in Int
    BY DateFacts
  <2> QED
    BY <2>1, RangeFacts, ProjectedFacts
<1>2. /\ Len(ps) \in Nat /\ DOMAIN ps = 1..Len(ps)
      /\ \A i \in DOMAIN ps : /\ ps[i].start \in Int /\ ps[i].end \in Int /\ ps[i].pay = ps[i].end
                              /\ ps[i].start < ps[i].end
  BY <1>1, CutFacts, PayPeriodIs
<1>3. /\ Len(built) = Len(ps) /\ DOMAIN built = DOMAIN ps
      /\ \A i \in DOMAIN ps : RowOf(built[i], Line(ps[i], range.start, today))
  BY InvProjectedRows DEF ProjectedRows
<1>4. /\ Len(lines) = Len(ps) /\ DOMAIN lines = DOMAIN ps
      /\ \A i \in DOMAIN ps : lines[i] = Line(ps[i], range.start, today)
  BY <1>1, LinesAre
<1>5. n \in DOMAIN ps /\ built[n].pay = ps[n].pay
  BY <1>3 DEF RowOf, Line, Summed
<1>6. ps[n].pay < today
  BY <1>1, <1>2, <1>5
<1>7. /\ Cut(s, qs) /\ Len(qs) = Len(ps) - n
      /\ \A i \in DOMAIN qs : qs[i] = ps[n + i]
  BY <1>5, <1>6, RestListed
<1>8. built = Running(lines, InitialFreeMoney)
  BY DEF Projection, BuildRows, Projected, PayDays
<1>9. RowsAfter(built[n], today) = Running(rest, built[n].cumulative)
  BY <1>5 DEF RowsAfter, BuildRows, PayDays
<1> HIDE DEF ps, s, built, qs
<1>10. Len(qs) \in Nat /\ DOMAIN qs = 1..Len(qs)
  BY <1>1, <1>7, CutFacts
<1>11. /\ Len(rest) = Len(qs) /\ DOMAIN rest = DOMAIN qs
       /\ \A i \in DOMAIN qs : rest[i] = Line(qs[i], from, today)
  BY <1>1, <1>7, LinesAre
<1> HIDE DEF lines, rest
<1>12. ASSUME NEW i \in DOMAIN qs
       PROVE  rest[i] = lines[n + i] /\ ~rest[i].opening
  <2> DEFINE p == ps[n + i]
  <2>1. n + i \in DOMAIN ps /\ n < n + i /\ n + i # 1 /\ n \in Nat
    BY <1>2, <1>5, <1>7, <1>10
  <2>2. ps[n].end < p.start /\ p.start \in Int /\ ps[n].end \in Int /\ ps[n].pay = ps[n].end
    BY <1>1, <1>2, <1>5, <2>1, CutIncreases
  <2>3. EffectiveStart(p, range.start) = p.start
    BY <2>1, StartsAre DEF ps
  <2> HIDE DEF p
  <2>4. EffectiveStart(p, from) = p.start
    BY <2>2 DEF EffectiveStart
  <2>5. qs[i] = p
    BY <1>7 DEF p
  <2> HIDE DEF from
  <2>6. rest[i] = Line(p, from, today) /\ lines[n + i] = Line(p, range.start, today)
    BY <1>4, <1>11, <2>1, <2>5 DEF p
  <2>7. Line(p, from, today) = Line(p, range.start, today)
    BY <2>3, <2>4, SameStartSameLine
  <2>8. ~Line(p, range.start, today).opening
    BY <2>3 DEF Line, Summed
  <2> QED
    BY <2>6, <2>7, <2>8
<1>13. Running(rest, Running(lines, InitialFreeMoney)[n].cumulative)
         = SubSeq(Running(lines, InitialFreeMoney), n + 1, Len(lines))
  <2>1. /\ Len(lines) \in Nat /\ DOMAIN lines = 1..Len(lines)
        /\ Len(rest) \in Nat /\ DOMAIN rest = 1..Len(rest)
        /\ n \in DOMAIN lines /\ Len(rest) = Len(lines) - n
    BY <1>2, <1>4, <1>5, <1>7, <1>10, <1>11
  <2>2. \A i \in DOMAIN rest : rest[i] = lines[n + i] /\ ~rest[i].opening
    BY <1>11, <1>12
  <2> QED
    BY <2>1, <2>2, RunningRest
<1>14. RowsAfter(built[n], today) = SubSeq(built, n + 1, Len(built))
  BY <1>3, <1>4, <1>8, <1>9, <1>13
<1> QED
  BY <1>14 DEF built

(* Rows computed after any frozen period are the rest of the whole projection,  *)
(* their balances included (build_rows_after), wherever the periods and the     *)
(* start of the projection fall.                                           *)
THEOREM HistoryGoesOnLive == Spec => []FrozenAndLiveContinuous
BY ProjectionsInvariant, InvFrozenAndLiveContinuous, PTL

-----------------------------------------------------------------------------
(* Sums of sums. *)

LEMMA SumUnion ==
    ASSUME NEW S, IsFiniteSet(S), NEW T, IsFiniteSet(T), S \cap T = {}, NEW w,
           \A x \in S \cup T : w[x] \in Int
    PROVE  SumOf(w, S \cup T) = SumOf(w, S) + SumOf(w, T)
<1> DEFINE Bad == {s \in SUBSET S : SumOf(w, s \cup T) # SumOf(w, s) + SumOf(w, T)}
<1> SUFFICES ASSUME Bad # {} PROVE FALSE
  OBVIOUS
<1>1. Bad \in SUBSET FiniteSubsetsOf(S)
  BY SubsetsFinite
<1>2. PICK s \in Bad : \A t \in Bad : ~(t \subseteq s /\ t # s)
  <2> HIDE DEF Bad
  <2> QED
    BY <1>1, Smallest
<1>3. s \in SUBSET S /\ SumOf(w, s \cup T) # SumOf(w, s) + SumOf(w, T) /\ IsFiniteSet(s)
  BY <1>2, SubsetsFinite
<1>4. SumOf(w, T) \in Int
  BY SumInt
<1>5. CASE s = {}
  <2>1. s \cup T = T
    BY <1>5
  <2>2. SumOf(w, s) = 0
    BY <1>5, SumEmpty
  <2> DEFINE a == SumOf(w, T)
  <2>3. a \in Int /\ a # 0 + a
    BY <1>3, <1>4, <2>1, <2>2
  <2> HIDE DEF a
  <2> QED
    BY <2>3
<1>6. CASE s # {}
  <2>1. PICK x \in s : TRUE
    BY <1>6
  <2> DEFINE r == s \ {x}
  <2>2. r \in SUBSET S /\ r \subseteq s /\ r # s /\ IsFiniteSet(r) /\ IsFiniteSet(s \cup T)
    <3>1. r \in SUBSET S /\ r \subseteq s /\ r # s
      BY <1>3, <2>1
    <3>2. IsFiniteSet(r) /\ IsFiniteSet(s \cup T)
      BY <1>3, <3>1, FS_Subset, FS_Union
    <3> QED
      BY <3>1, <3>2
  <2>3. SumOf(w, r \cup T) = SumOf(w, r) + SumOf(w, T)
    BY <1>2, <2>2
  <2>4. (s \cup T) \ {x} = r \cup T
    BY <1>3, <2>1
  <2>5. SumOf(w, s) = w[x] + SumOf(w, r)
    BY <1>3, <2>1, SumTake
  <2>6. SumOf(w, s \cup T) = w[x] + SumOf(w, r \cup T)
    <3>1. x \in s \cup T /\ \A y \in s \cup T : w[y] \in Int
      BY <1>3, <2>1
    <3> HIDE DEF r, Bad
    <3> QED
      BY <2>2, <2>4, <3>1, SumTake
  <2>7. w[x] \in Int /\ SumOf(w, r) \in Int
    <3>1. \A y \in r : w[y] \in Int
      BY <2>2
    <3> HIDE DEF r
    <3> QED
      BY <1>3, <2>1, <2>2, <3>1, SumInt
  <2> HIDE DEF r
  <2> QED
    BY <1>3, <1>4, <2>3, <2>5, <2>6, <2>7
<1> QED
  BY <1>5, <1>6

LEMMA SumAdd ==
    ASSUME NEW S, IsFiniteSet(S), NEW u, NEW v, NEW w,
           \A x \in S : v[x] \in Int /\ w[x] \in Int /\ u[x] = v[x] + w[x]
    PROVE  SumOf(u, S) = SumOf(v, S) + SumOf(w, S)
<1> DEFINE Bad == {s \in SUBSET S : SumOf(u, s) # SumOf(v, s) + SumOf(w, s)}
<1> SUFFICES ASSUME Bad # {} PROVE FALSE
  OBVIOUS
<1>1. Bad \in SUBSET FiniteSubsetsOf(S)
  BY SubsetsFinite
<1>2. PICK s \in Bad : \A t \in Bad : ~(t \subseteq s /\ t # s)
  <2> HIDE DEF Bad
  <2> QED
    BY <1>1, Smallest
<1>3. s \in SUBSET S /\ SumOf(u, s) # SumOf(v, s) + SumOf(w, s) /\ IsFiniteSet(s)
  BY <1>2, SubsetsFinite
<1>4. CASE s = {}
  <2>1. SumOf(u, s) = 0 /\ SumOf(v, s) = 0 /\ SumOf(w, s) = 0
    BY <1>4, SumEmpty
  <2> QED
    BY <1>3, <2>1
<1>5. CASE s # {}
  <2>1. PICK x \in s : TRUE
    BY <1>5
  <2> DEFINE r == s \ {x}
  <2>2. r \in SUBSET S /\ r \subseteq s /\ r # s /\ IsFiniteSet(r)
    BY <1>3, <2>1, SubsetsFinite
  <2>3. SumOf(u, r) = SumOf(v, r) + SumOf(w, r)
    BY <1>2, <2>2
  <2>4. \A y \in s : u[y] \in Int /\ v[y] \in Int /\ w[y] \in Int /\ u[y] = v[y] + w[y]
    BY <1>3
  <2>5. /\ SumOf(u, s) = u[x] + SumOf(u, r) /\ SumOf(v, s) = v[x] + SumOf(v, r)
        /\ SumOf(w, s) = w[x] + SumOf(w, r)
    BY <1>3, <2>1, <2>4, SumTake
  <2>6. SumOf(v, r) \in Int /\ SumOf(w, r) \in Int
    <3>1. \A y \in r : v[y] \in Int /\ w[y] \in Int
      BY <2>2, <2>4
    <3> HIDE DEF r
    <3> QED
      BY <2>2, <3>1, SumInt
  <2> HIDE DEF r
  <2>7. u[x] = v[x] + w[x] /\ v[x] \in Int /\ w[x] \in Int
    BY <2>1, <2>4
  <2> QED
    BY <1>3, <2>3, <2>5, <2>6, <2>7
<1> QED
  BY <1>4, <1>5

(* The sum over images is the sum over what they are images of. *)
LEMMA SumImage ==
    ASSUME NEW S, IsFiniteSet(S), NEW h, NEW v, NEW w,
           \A x \in S : w[x] \in Int /\ v[h[x]] = w[x],
           \A x, y \in S : h[x] = h[y] => x = y
    PROVE  SumOf(v, {h[x] : x \in S}) = SumOf(w, S)
<1> DEFINE Image(s) == {h[x] : x \in s}
           Bad == {s \in SUBSET S : SumOf(v, Image(s)) # SumOf(w, s)}
<1> SUFFICES ASSUME Bad # {} PROVE FALSE
  OBVIOUS
<1>1. Bad \in SUBSET FiniteSubsetsOf(S)
  BY SubsetsFinite
<1>2. PICK s \in Bad : \A t \in Bad : ~(t \subseteq s /\ t # s)
  <2> HIDE DEF Bad
  <2> QED
    BY <1>1, Smallest
<1>3. s \in SUBSET S /\ SumOf(v, Image(s)) # SumOf(w, s) /\ IsFiniteSet(s)
  BY <1>2, SubsetsFinite
<1>4. CASE s = {}
  <2>1. Image(s) = {}
    BY <1>4
  <2>2. SumOf(v, Image(s)) = 0
    BY <2>1, SumEmpty
  <2>3. SumOf(w, s) = 0
    BY <1>4, SumEmpty
  <2> QED
    BY <1>3, <2>2, <2>3
<1>5. CASE s # {}
  <2>1. PICK x \in s : TRUE
    BY <1>5
  <2> DEFINE r == s \ {x}
  <2>2. r \in SUBSET S /\ r \subseteq s /\ r # s
    BY <1>3, <2>1
  <2>3. SumOf(v, Image(r)) = SumOf(w, r)
    BY <1>2, <2>2
  <2>4. SumOf(w, s) = w[x] + SumOf(w, r)
    BY <1>3, <2>1, SumTake
  <2>5. /\ h[x] \in Image(s) /\ v[h[x]] = w[x] /\ IsFiniteSet(Image(s))
        /\ \A i \in Image(s) : v[i] \in Int
    <3>1. IsFiniteSet(Image(s))
      <4> DEFINE f == [y \in s |-> h[y]]
      <4>1. f \in Surjection(s, Image(s))
        BY DEF Surjection
      <4> HIDE DEF f, Image
      <4> QED
        BY <1>3, <4>1, FS_Surjection
    <3> QED
      BY <1>3, <2>1, <3>1
  <2>6. Image(s) \ {h[x]} = Image(r)
    BY <1>3, <2>1
  <2> DEFINE I == Image(s)
             J == Image(r)
  <2> HIDE DEF I, J, r, Bad, Image
  <2>7. SumOf(v, I) = v[h[x]] + SumOf(v, I \ {h[x]})
    BY <2>5, SumTake DEF I
  <2> QED
    BY <1>3, <2>3, <2>4, <2>5, <2>6, <2>7 DEF I, J
<1> QED
  BY <1>4, <1>5

(* What weighs nothing may be left out. *)
LEMMA SumLess ==
    ASSUME NEW S, IsFiniteSet(S), NEW T \in SUBSET S, NEW w,
           \A x \in T : w[x] \in Int, \A x \in S \ T : w[x] = 0
    PROVE  SumOf(w, S) = SumOf(w, T)
<1> DEFINE R == S \ T
           zero == [x \in R |-> 0]
<1>1. IsFiniteSet(T) /\ IsFiniteSet(R) /\ T \cup R = S /\ T \cap R = {}
  BY FS_Subset
<1>2. \A x \in T \cup R : w[x] \in Int
  OBVIOUS
<1>3. \A x \in R : w[x] = zero[x] /\ zero[x] = 0
  OBVIOUS
<1> HIDE DEF R, zero
<1>4. SumOf(w, T \cup R) = SumOf(w, T) + SumOf(w, R)
  BY <1>1, <1>2, SumUnion
<1>5. SumOf(w, R) = SumOf(zero, R)
  BY <1>1, <1>3, SumSame
<1>6. SumOf(zero, R) = SumOf(zero, R) + SumOf(zero, R) /\ SumOf(zero, R) \in Int
  <2>1. \A x \in R : zero[x] \in Int /\ zero[x] = zero[x] + zero[x]
    BY <1>3
  <2> QED
    BY <1>1, <2>1, SumAdd, SumInt
<1>7. SumOf(w, T) \in Int
  BY <1>1, SumInt
<1> DEFINE a == SumOf(zero, R)
           b == SumOf(w, T)
<1>8. a \in Int /\ a = a + a /\ b \in Int /\ SumOf(w, S) = b + a
  BY <1>1, <1>4, <1>5, <1>6, <1>7
<1> HIDE DEF a, b
<1>9. SumOf(w, S) = b
  BY <1>8
<1> QED
  BY <1>9 DEF b

(* A sum over columns of the sums of the columns, by rows. *)
Crosses(S, T, c, across, columns, lines) ==
    /\ \A x \in S : columns[x] = SumOf(c[x], T)
    /\ \A y \in T : lines[y] = SumOf(across[y], S)
    /\ \A x \in S, y \in T : c[x][y] \in Int /\ across[y][x] = c[x][y]

LEMMA SumByRows ==
    ASSUME NEW S, IsFiniteSet(S), NEW T, IsFiniteSet(T), NEW c, NEW columns, NEW across, NEW lines,
           Crosses(S, T, c, across, columns, lines)
    PROVE  SumOf(columns, S) = SumOf(lines, T)
<1>0. /\ \A x \in S : columns[x] = SumOf(c[x], T)
      /\ \A y \in T : lines[y] = SumOf(across[y], S)
      /\ \A x \in S, y \in T : c[x][y] \in Int /\ across[y][x] = c[x][y]
  BY DEF Crosses
<1> DEFINE Column(t) == [x \in S |-> SumOf(c[x], t)]
           Bad == {t \in SUBSET T : SumOf(Column(t), S) # SumOf(lines, t)}
<1>1. Bad = {}
  <2> SUFFICES ASSUME Bad # {} PROVE FALSE
    OBVIOUS
  <2>1. Bad \in SUBSET FiniteSubsetsOf(T)
    BY SubsetsFinite
  <2>2. PICK t \in Bad : \A s \in Bad : ~(s \subseteq t /\ s # t)
    <3> HIDE DEF Bad
    <3> QED
      BY <2>1, Smallest
  <2>3. t \in SUBSET T /\ SumOf(Column(t), S) # SumOf(lines, t) /\ IsFiniteSet(t)
    BY <2>2, SubsetsFinite
  <2>4. CASE t = {}
    <3>1. \A x \in S : Column(t)[x] = 0
      BY <2>4, SumEmpty
    <3>2. {} \in SUBSET S /\ \A x \in {} : Column(t)[x] \in Int
      OBVIOUS
    <3> DEFINE w == Column(t)
    <3> HIDE DEF Column, w
    <3>3. SumOf(w, S) = SumOf(w, {})
      BY <3>1, <3>2, SumLess DEF w
    <3>4. SumOf(w, S) = 0 /\ SumOf(lines, t) = 0
      BY <2>4, <3>3, SumEmpty
    <3> QED
      BY <2>3, <3>4 DEF w
  <2>5. CASE t # {}
    <3>1. PICK y \in t : TRUE
      BY <2>5
    <3> DEFINE r == t \ {y}
               row == across[y]
    <3>2. r \in SUBSET T /\ r \subseteq t /\ r # t /\ IsFiniteSet(r) /\ y \in T /\ y \in t
      <4>1. r \in SUBSET T /\ r \subseteq t /\ r # t
        BY <2>3, <3>1
      <4> QED
        BY <2>3, <3>1, <4>1, FS_Subset
    <3>3. SumOf(Column(r), S) = SumOf(lines, r)
      BY <2>2, <3>2
    <3>4. ASSUME NEW x \in S
          PROVE  Column(r)[x] \in Int /\ row[x] \in Int /\ Column(t)[x] = Column(r)[x] + row[x]
      <4>1. \A z \in t : c[x][z] \in Int
        BY <1>0, <2>3
      <4>2. SumOf(c[x], t) = c[x][y] + SumOf(c[x], r)
        BY <2>3, <3>2, <4>1, SumTake
      <4>3. SumOf(c[x], r) \in Int
        <5>1. \A z \in r : c[x][z] \in Int
          BY <4>1
        <5> HIDE DEF r
        <5> QED
          BY <3>2, <5>1, SumInt
      <4>4. c[x][y] \in Int
        BY <3>2, <4>1
      <4> DEFINE a == SumOf(c[x], r)
      <4>5. Column(t)[x] = SumOf(c[x], t) /\ Column(r)[x] = a /\ row[x] = c[x][y]
        BY <1>0, <3>2
      <4>6. a \in Int /\ SumOf(c[x], t) = c[x][y] + a
        BY <4>2, <4>3
      <4> HIDE DEF a, Column, row
      <4> QED
        BY <4>4, <4>5, <4>6
    <3>5. lines[y] = SumOf(row, S)
      BY <1>0, <3>2
    <3> DEFINE whole == Column(t)
               part == Column(r)
    <3> HIDE DEF r, row, Column, Bad, whole, part
    <3>6. SumOf(whole, S) = SumOf(part, S) + SumOf(row, S)
      BY <3>4, SumAdd DEF whole, part
    <3>7. \A z \in T : lines[z] \in Int
      <4> TAKE z \in T
      <4> DEFINE at == across[z]
      <4>1. \A x \in S : at[x] \in Int
        BY <1>0
      <4>2. lines[z] = SumOf(at, S)
        BY <1>0
      <4> HIDE DEF at
      <4> QED
        BY <4>1, <4>2, SumInt
    <3>8. SumOf(lines, t) = lines[y] + SumOf(lines, r)
      <4>1. \A z \in t : lines[z] \in Int
        BY <2>3, <3>7
      <4> QED
        BY <2>3, <3>2, <4>1, SumTake DEF r
    <3>9. lines[y] \in Int /\ SumOf(lines, r) \in Int
      <4>1. \A z \in r : lines[z] \in Int
        BY <3>2, <3>7
      <4> QED
        BY <3>2, <3>7, <4>1, SumInt
    <3> DEFINE a == SumOf(lines, r)
               b == lines[y]
    <3>10. SumOf(whole, S) = a + b /\ SumOf(lines, t) = b + a /\ a \in Int /\ b \in Int
      BY <3>3, <3>5, <3>6, <3>8, <3>9 DEF part
    <3> HIDE DEF a, b
    <3>11. SumOf(whole, S) = SumOf(lines, t)
      BY <3>10
    <3> QED
      BY <2>3, <3>11 DEF whole
  <2> QED
    BY <2>4, <2>5
<1>2. SumOf(Column(T), S) = SumOf(lines, T)
  BY <1>1
<1>3. \A x \in S : columns[x] = Column(T)[x]
  BY <1>0
<1> DEFINE w == Column(T)
<1> HIDE DEF w, Column, Bad
<1>4. SumOf(columns, S) = SumOf(w, S)
  BY <1>3, SumSame DEF w
<1> QED
  BY <1>2, <1>4 DEF w

-----------------------------------------------------------------------------
(* What accounts hold. *)

(* The accounts that projections count, and what they hold on a day. *)
Projecting == {a \in Accounts : ~Excludes(a)}
Held(d) == MapThenSumSet(LAMBDA a : Balance(a, d), Projecting)
(* The rows that balances sum up to a day, and those of an account. *)
Summing(d) == {r \in rows : r.live /\ r.date <= d /\ (range.start = NoDate \/ r.date >= range.start)}
RowsOf(a, d) == {r \in rows : r.live /\ a \in {r.account, r.to} /\ r.date <= d
                                     /\ (range.start = NoDate \/ r.date >= range.start)}

LEMMA OpeningIs == InitialFreeMoney = SumOf(Opening, Projecting)
<1>1. Projecting = {a \in Accounts : ~account[a].excluded}
  BY DEF Projecting, Excludes
<1> QED
  BY <1>1 DEF InitialFreeMoney, MapThenSumSet, MapThenFoldSet, SumOf, Folds, Chosen

LEMMA BalanceIs ==
    ASSUME NEW a, NEW d, IsFiniteSet(RowsOf(a, d))
    PROVE  Balance(a, d) = Opening[a] + SumOf([r \in RowsOf(a, d) |-> Signed(a, r)], RowsOf(a, d))
<1> DEFINE S == RowsOf(a, d)
           w == [r \in S |-> Signed(a, r)]
           Weighs(f) == f = [s \in SUBSET S |-> IF s = {} THEN 0 ELSE Signed(a, Chosen(s)) + f[s \ {Chosen(s)}]]
           total == CHOOSE f : Weighs(f)
<1>1. Balance(a, d) = Opening[a] + total[S]
  BY DEF Balance, MapThenSumSet, MapThenFoldSet, Chosen, RowsOf
<1>2. \A s \in SUBSET S : s # {} => w[Chosen(s)] = Signed(a, Chosen(s))
  BY SubsetsFinite
<1> HIDE DEF w, S
<1>3. ASSUME NEW f PROVE Weighs(f) <=> Folds(f, S, w)
  <2>1. \A s \in SUBSET S : (IF s = {} THEN 0 ELSE Signed(a, Chosen(s)) + f[s \ {Chosen(s)}])
                           = (IF s = {} THEN 0 ELSE w[Chosen(s)] + f[s \ {Chosen(s)}])
    BY <1>2
  <2> QED
    BY <2>1 DEF Folds
<1>4. \E f : Folds(f, S, w)
  BY FoldExists DEF S
<1> HIDE DEF Weighs
<1>5. Weighs(total)
  BY <1>3, <1>4
<1>6. Folds(total, S, w)
  BY <1>3, <1>5
<1> HIDE DEF total
<1>7. total[S] = SumOf(w, S)
  BY <1>6, FoldIs DEF S
<1> QED
  BY <1>1, <1>7 DEF w, S

LEMMA HeldIs ==
    ASSUME NEW d
    PROVE  Held(d) = SumOf([a \in Projecting |-> Balance(a, d)], Projecting)
<1> DEFINE S == Projecting
           w == [a \in S |-> Balance(a, d)]
           Weighs(f) == f = [s \in SUBSET S |-> IF s = {} THEN 0 ELSE Balance(Chosen(s), d) + f[s \ {Chosen(s)}]]
           total == CHOOSE f : Weighs(f)
<1>0. IsFiniteSet(S)
  BY ProjectionsAssumption, FS_Subset DEF Projecting
<1>1. Held(d) = total[S]
  BY DEF Held, MapThenSumSet, MapThenFoldSet, Chosen
<1>2. \A s \in SUBSET S : s # {} => w[Chosen(s)] = Balance(Chosen(s), d)
  BY <1>0, SubsetsFinite
<1> HIDE DEF w, S
<1>3. ASSUME NEW f PROVE Weighs(f) <=> Folds(f, S, w)
  <2>1. \A s \in SUBSET S : (IF s = {} THEN 0 ELSE Balance(Chosen(s), d) + f[s \ {Chosen(s)}])
                           = (IF s = {} THEN 0 ELSE w[Chosen(s)] + f[s \ {Chosen(s)}])
    BY <1>2
  <2> QED
    BY <2>1 DEF Folds
<1>4. \E f : Folds(f, S, w)
  BY <1>0, FoldExists
<1> HIDE DEF Weighs
<1>5. Weighs(total)
  BY <1>3, <1>4
<1>6. Folds(total, S, w)
  BY <1>3, <1>5
<1> HIDE DEF total
<1>7. total[S] = SumOf(w, S)
  BY <1>0, <1>6, FoldIs
<1> QED
  BY <1>1, <1>7 DEF w, S

(* Where money may go. *)
RoutedRows ==
    /\ \A k \in Templates : Routed(k, template[k].account, template[k].to)
    /\ \A r \in rows : Routed(r.of, r.account, r.to)

RouteFollows(x) ==
    \/ Routed(x.of, x.account, x.to)
    \/ \E r \in rows : x.of = r.of /\ x.account = r.account /\ x.to = r.to

LEMMA ChangesKeepRoute ==
    ASSUME ProjectionsInv, NEW r \in rows, NEW d,
           MoveRow(r, d) \/ DeleteRow(r) \/ VoidCharge(r), NEW x \in rows'
    PROVE  RouteFollows(x)
<1>1. r \in RowType
  BY DEF ProjectionsInv, ProjectionsTyped
<1>2. CASE MoveRow(r, d)
  BY <1>1, <1>2 DEF MoveRow, RowType, RouteFollows
<1>3. CASE DeleteRow(r)
  BY <1>1, <1>3 DEF DeleteRow, RowType, RouteFollows
<1>4. CASE VoidCharge(r)
  BY <1>1, <1>4 DEF VoidCharge, RowType, RouteFollows
<1> QED
  BY <1>2, <1>3, <1>4

LEMMA AdditionsRouted ==
    ASSUME NEW x \in rows', NEW of, NEW due, NEW date, NEW a, NEW to, Routed(of, a, to),
           rows' = rows \cup {NewRow(of, due, date, a, to)}
    PROVE  RouteFollows(x)
BY DEF NewRow, RouteFollows

LEMMA RowsStayRouted == ASSUME ProjectionsInv, RoutedRows, [Next]_vars, NEW x \in rows' PROVE RouteFollows(x)
<1>0. \A of, a : of # "transfer" => Routed(of, a, NoAccount)
  BY DEF Routed
<1>1. CASE Job
  <2>1. PICK k \in Templates, due \in (today - CatchUpDays)..today : Charge(k, due)
    BY <1>1 DEF Job
  <2>2. PICK a \in ChargedFrom(k, due) : rows' = rows \cup {NewRow(k, due, due, a, template[k].to)}
    BY <2>1 DEF Charge
  <2>3. Routed(k, a, template[k].to)
    BY <2>2 DEF ChargedFrom, RoutedRows, Routed
  <2> QED
    BY <2>2, <2>3, AdditionsRouted
<1>2. CASE Tick \/ UNCHANGED vars
  BY <1>2 DEF Tick, vars, RouteFollows
<1>3. CASE Requests
  <2>1. CASE \E d \in ClientDays : \/ \E on \in NearToday : EarlyPayPlanned(on, d)
                                   \/ \E on \in NearToday : \E due \in d..(d + HorizonDays) : EarlyPay(due, on, d)
                                   \/ PayPlanned(d)
    BY <1>0, <2>1, AdditionsRouted DEF EarlyPayPlanned, EarlyPay, PayPlanned
  <2>2. CASE \E d \in NearToday : Spend(d) \/ \E a \in Accounts, of \in {"earning", "spending"} : AddRow(of, d, a)
    BY <1>0, <2>2, AdditionsRouted DEF Spend, AddRow
  <2>3. CASE \/ \E d \in NearToday : \E r \in rows : MoveRow(r, d)
             \/ \E r \in rows : DeleteRow(r) \/ VoidCharge(r)
    BY <2>3, ChangesKeepRoute
  <2>4. CASE \/ \E d \in ClientDays : CompleteBudget(d)
             \/ \E a \in Accounts : ExcludeAccount(a) \/ ArchiveAccount(a)
             \/ \E d \in NearToday : MovePlanned(d) \/ EndExpense(d)
             \/ \E k \in Templates \ {"income"} : DeleteTemplate(k)
             \/ DeletePlanned
    <3>1. rows' = rows
      BY <2>4 DEF CompleteBudget, ExcludeAccount, ArchiveAccount, MovePlanned, EndExpense, DeleteTemplate,
                  DeletePlanned
    <3> QED
      BY <3>1 DEF RouteFollows
  <2> QED
    BY <1>3, <2>1, <2>2, <2>3, <2>4, Zenon DEF Requests
<1> QED
  BY <1>1, <1>2, <1>3 DEF Next

LEMMA TemplatesKeepRoute ==
    ASSUME ProjectionsInv, [Next]_vars, NEW k \in Templates
    PROVE  template'[k].account = template[k].account /\ template'[k].to = template[k].to
<1>1. template \in [Templates -> TemplateType]
  BY DEF ProjectionsInv, ProjectionsTyped
<1>2. CASE UNCHANGED template
  BY <1>2
<1>3. CASE \E d : EndExpense(d)
  BY <1>1, <1>3 DEF EndExpense, TemplateType
<1>4. CASE \E j \in Templates : DeleteTemplate(j)
  BY <1>1, <1>4 DEF DeleteTemplate, TemplateType
<1>5. UNCHANGED template \/ (\E d : EndExpense(d)) \/ \E j \in Templates : DeleteTemplate(j)
  BY DEF Next, vars, Job, Charge, Tick, Requests, EarlyPayPlanned, EarlyPay, PayPlanned, CompleteBudget,
         MovePlanned, Spend, AddRow, MoveRow, DeleteRow, VoidCharge, ExcludeAccount, ArchiveAccount, DeletePlanned
<1> QED
  BY <1>2, <1>3, <1>4, <1>5

LEMMA RoutedInvariant == Spec => []RoutedRows
<1>1. Init => RoutedRows
  BY ProjectionsAssumption DEF Init, RoutedRows
<1>2. ProjectionsInv /\ RoutedRows /\ [Next]_vars => RoutedRows'
  <2> SUFFICES ASSUME ProjectionsInv, RoutedRows, [Next]_vars PROVE RoutedRows'
    OBVIOUS
  <2>1. ASSUME NEW x \in rows' PROVE Routed(x.of, x.account, x.to)
    <3>1. RouteFollows(x)
      BY RowsStayRouted
    <3> QED
      BY <3>1 DEF RouteFollows, RoutedRows
  <2>2. \A k \in Templates : Routed(k, template'[k].account, template'[k].to)
    BY TemplatesKeepRoute DEF RoutedRows
  <2> QED
    BY <2>1, <2>2 DEF RoutedRows, Routed
<1> QED
  BY <1>1, <1>2, ProjectionsInvariant, PTL DEF Spec

(* What a row does to what the counted accounts hold. *)
Effect(r) ==
    IF r.of = "transfer"
    THEN (IF Excludes(r.account) THEN 0 ELSE -r.amount) + (IF Excludes(r.to) THEN 0 ELSE r.amount)
    ELSE IF Excludes(r.account) THEN 0
    ELSE IF r.of \in {"income", "earning"} THEN r.amount ELSE -r.amount
SignedRow(a, r) == IF a \in {r.account, r.to} THEN Signed(a, r) ELSE 0

LEMMA SumOne == ASSUME NEW w, NEW x, w[x] \in Int PROVE SumOf(w, {x}) = w[x]
<1>1. IsFiniteSet({x}) /\ x \in {x} /\ {x} \ {x} = {} /\ \A y \in {x} : w[y] \in Int
  BY FS_Singleton
<1>2. SumOf(w, {x}) = w[x] + SumOf(w, {x} \ {x})
  BY <1>1, SumTake
<1>3. SumOf(w, {x} \ {x}) = 0
  BY <1>1, SumEmpty
<1> QED
  BY <1>2, <1>3

LEMMA SumTwo ==
    ASSUME NEW w, NEW x, NEW y, x # y, w[x] \in Int, w[y] \in Int
    PROVE  SumOf(w, {x, y}) = w[x] + w[y]
<1>1. {x, y} = {x} \cup {y} /\ {x} \cap {y} = {} /\ IsFiniteSet({x}) /\ IsFiniteSet({y})
  BY FS_Singleton
<1>2. \A z \in {x} \cup {y} : w[z] \in Int
  OBVIOUS
<1>3. SumOf(w, {x} \cup {y}) = SumOf(w, {x}) + SumOf(w, {y})
  BY <1>1, <1>2, SumUnion
<1> QED
  BY <1>1, <1>3, SumOne

(* Account by account, a row does what it does to all. *)
LEMMA EffectIs ==
    ASSUME NEW r, r.amount \in Int, r.account \in Accounts, Routed(r.of, r.account, r.to),
           NEW w, \A a \in Projecting : w[a] = SignedRow(a, r)
    PROVE  SumOf(w, Projecting) = Effect(r) /\ Effect(r) \in Int
<1> DEFINE S == Projecting
           U == S \cap {r.account, r.to}
           a == r.account
           b == r.to
           x == r.amount
<1>1. IsFiniteSet(S) /\ NoAccount \notin S /\ x \in Int /\ -x \in Int
  BY ProjectionsAssumption, FS_Subset DEF Projecting
<1>2. \A z \in S : w[z] \in Int /\ (z \notin U => w[z] = 0)
  BY DEF SignedRow, Signed
<1>3. SumOf(w, S) = SumOf(w, U)
  <2>1. U \in SUBSET S /\ (\A z \in U : w[z] \in Int) /\ \A z \in S \ U : w[z] = 0
    BY <1>2
  <2> HIDE DEF U, S
  <2> QED
    BY <1>1, <2>1, SumLess
<1>4. a \in S <=> ~Excludes(a)
  BY DEF Projecting
<1>5. CASE r.of = "transfer"
  <2>1. a \in Accounts /\ b \in Accounts /\ a # b
    BY <1>5 DEF Routed
  <2>2. b \in S <=> ~Excludes(b)
    BY <2>1 DEF Projecting
  <2>3. (a \in S => w[a] = -x) /\ (b \in S => w[b] = x)
    BY <1>5, <2>1 DEF SignedRow, Signed
  <2>4. Effect(r) = (IF Excludes(a) THEN 0 ELSE -x) + (IF Excludes(b) THEN 0 ELSE x)
    BY <1>5 DEF Effect
  <2>5. U = S \cap {a, b}
    OBVIOUS
  <2> HIDE DEF a, b, S, x, U
  <2>6. CASE a \in S /\ b \in S
    <3>1. SumOf(w, {a, b}) = w[a] + w[b] /\ U = {a, b}
      BY <1>1, <2>1, <2>3, <2>5, <2>6, SumTwo
    <3> QED
      BY <1>1, <1>3, <1>4, <2>2, <2>3, <2>4, <2>6, <3>1 DEF S
  <2>7. CASE a \in S /\ b \notin S
    <3>1. SumOf(w, {a}) = w[a] /\ U = {a}
      BY <1>1, <2>3, <2>5, <2>7, SumOne
    <3> QED
      BY <1>1, <1>3, <1>4, <2>2, <2>3, <2>4, <2>7, <3>1 DEF S
  <2>8. CASE a \notin S /\ b \in S
    <3>1. SumOf(w, {b}) = w[b] /\ U = {b}
      BY <1>1, <2>3, <2>5, <2>8, SumOne
    <3> QED
      BY <1>1, <1>3, <1>4, <2>2, <2>3, <2>4, <2>8, <3>1 DEF S
  <2>9. CASE a \notin S /\ b \notin S
    <3>1. SumOf(w, {}) = 0 /\ U = {}
      BY <2>5, <2>9, SumEmpty
    <3> QED
      BY <1>3, <1>4, <2>2, <2>4, <2>9, <3>1 DEF S
  <2> QED
    BY <2>6, <2>7, <2>8, <2>9
<1>6. CASE r.of # "transfer"
  <2>1. b = NoAccount /\ b \notin S
    BY <1>1, <1>6 DEF Routed
  <2> DEFINE y == IF r.of \in {"income", "earning"} THEN x ELSE -x
  <2>2. y \in Int /\ (a \in S => w[a] = y)
    BY <1>1, <1>6 DEF SignedRow, Signed
  <2>3. Effect(r) = IF Excludes(a) THEN 0 ELSE y
    BY <1>6 DEF Effect
  <2>4. U = S \cap {a, b}
    OBVIOUS
  <2> HIDE DEF a, b, S, x, y, U
  <2>5. CASE a \in S
    <3>1. SumOf(w, {a}) = w[a] /\ U = {a}
      BY <2>1, <2>2, <2>4, <2>5, SumOne
    <3> QED
      BY <1>3, <1>4, <2>2, <2>3, <2>5, <3>1 DEF S
  <2>6. CASE a \notin S
    <3>1. SumOf(w, {}) = 0 /\ U = {}
      BY <2>1, <2>4, <2>6, SumEmpty
    <3> QED
      BY <1>3, <1>4, <2>3, <2>6, <3>1 DEF S
  <2> QED
    BY <2>5, <2>6
<1> QED
  BY <1>5, <1>6

(* What the counted accounts hold is the opening balance and the effects of    *)
(* the rows up to the day.                                                  *)
LEMMA HeldSums ==
    ASSUME ProjectionsInv, RoutedRows, \A r \in rows : r.account \in Accounts, NEW d
    PROVE  /\ Held(d) = InitialFreeMoney + SumOf([r \in Summing(d) |-> Effect(r)], Summing(d))
           /\ InitialFreeMoney \in Int
<1> DEFINE S == Projecting
           T == Summing(d)
           c == [a \in S |-> [r \in T |-> SignedRow(a, r)]]
           columns == [a \in S |-> SumOf(c[a], T)]
           across == [r \in T |-> [a \in S |-> SignedRow(a, r)]]
           lines == [r \in T |-> SumOf(across[r], S)]
           balances == [a \in S |-> Balance(a, d)]
           effects == [r \in T |-> Effect(r)]
<1>1. IsFiniteSet(S) /\ S \subseteq Accounts
  BY ProjectionsAssumption, FS_Subset DEF Projecting
<1>2. IsFiniteSet(T) /\ \A r \in T : r \in rows /\ r.amount \in Int
  <2>1. T \subseteq rows
    BY DEF Summing
  <2>2. IsFiniteSet(rows) /\ \A r \in rows : r.amount \in Int
    BY DEF ProjectionsInv, ProjectionsTyped, RowType
  <2> HIDE DEF T
  <2> QED
    BY <2>1, <2>2, FS_Subset
<1>3. \A a \in S, r \in T : c[a][r] = SignedRow(a, r) /\ c[a][r] \in Int /\ across[r][a] = c[a][r]
  BY <1>2 DEF SignedRow, Signed
<1>4. ASSUME NEW a \in S
      PROVE  Balance(a, d) = Opening[a] + columns[a] /\ columns[a] \in Int /\ Opening[a] \in Int
  <2> DEFINE Q == RowsOf(a, d)
             q == [r \in Q |-> Signed(a, r)]
             w == c[a]
  <2>1. Q \in SUBSET T /\ \A r \in T : r \in Q <=> a \in {r.account, r.to}
    BY DEF RowsOf, Summing
  <2>2. \A r \in Q : w[r] \in Int /\ w[r] = q[r]
    BY <1>3, <2>1 DEF SignedRow
  <2>3. \A r \in T \ Q : w[r] = 0
    BY <1>3, <2>1 DEF SignedRow
  <2>4. columns[a] = SumOf(w, T)
    OBVIOUS
  <2>5. \A r \in T : w[r] \in Int
    BY <1>3
  <2>6. Opening[a] \in Int
    BY <1>1, ProjectionsAssumption
  <2> HIDE DEF c, columns, w, T
  <2>7. IsFiniteSet(Q)
    BY <1>2, <2>1, FS_Subset
  <2>8. Balance(a, d) = Opening[a] + SumOf(q, Q)
    BY <2>7, BalanceIs
  <2> HIDE DEF q, Q
  <2>9. SumOf(w, T) = SumOf(w, Q)
    BY <1>2, <2>1, <2>2, <2>3, SumLess
  <2>10. SumOf(w, Q) = SumOf(q, Q)
    BY <2>2, <2>7, SumSame
  <2>11. SumOf(w, T) \in Int
    BY <1>2, <2>5, SumInt
  <2> QED
    BY <2>4, <2>6, <2>8, <2>9, <2>10, <2>11
<1>5. ASSUME NEW r \in T
      PROVE  lines[r] = effects[r]
  <2> DEFINE w == across[r]
  <2>1. lines[r] = SumOf(w, S)
    OBVIOUS
  <2>2. \A a \in S : w[a] = SignedRow(a, r)
    BY <1>3
  <2>3. effects[r] = Effect(r)
    OBVIOUS
  <2>4. r.amount \in Int /\ r.account \in Accounts /\ Routed(r.of, r.account, r.to)
    BY <1>2 DEF RoutedRows
  <2> HIDE DEF w, c, across, lines, effects
  <2>5. SumOf(w, S) = Effect(r)
    BY <2>2, <2>4, EffectIs
  <2> QED
    BY <2>1, <2>3, <2>5
<1>6. \A a \in S : columns[a] = SumOf(c[a], T)
  OBVIOUS
<1>7. \A r \in T : lines[r] = SumOf(across[r], S)
  OBVIOUS
<1>8. \A a \in S : balances[a] = Balance(a, d)
  OBVIOUS
<1>9. Held(d) = SumOf(balances, S) /\ InitialFreeMoney = SumOf(Opening, S)
  BY HeldIs, OpeningIs
<1> HIDE DEF c, columns, across, lines, balances, effects, S, T
<1>10. SumOf(columns, S) = SumOf(lines, T)
  <2>1. Crosses(S, T, c, across, columns, lines)
    BY <1>3, <1>6, <1>7 DEF Crosses
  <2> QED
    BY <1>1, <1>2, <2>1, SumByRows
<1>11. SumOf(lines, T) = SumOf(effects, T)
  BY <1>2, <1>5, SumSame
<1>12. SumOf(balances, S) = SumOf(Opening, S) + SumOf(columns, S)
  <2>1. \A a \in S : Opening[a] \in Int /\ columns[a] \in Int /\ balances[a] = Opening[a] + columns[a]
    BY <1>4, <1>8
  <2> QED
    BY <1>1, <2>1, SumAdd
<1>13. SumOf(Opening, S) \in Int
  BY <1>1, <1>4, SumInt
<1> QED
  BY <1>9, <1>10, <1>11, <1>12, <1>13 DEF effects, T

(* Sums of amounts that count for or against. *)
LEMMA SumNat ==
    ASSUME NEW w, NEW S, IsFiniteSet(S), \A c \in S : w[c] \in Nat
    PROVE  SumOf(w, S) \in Nat
<1> DEFINE Bad == {s \in SUBSET S : SumOf(w, s) \notin Nat}
<1> SUFFICES ASSUME Bad # {} PROVE FALSE
  OBVIOUS
<1>1. Bad \in SUBSET FiniteSubsetsOf(S)
  BY SubsetsFinite
<1>2. PICK s \in Bad : \A t \in Bad : ~(t \subseteq s /\ t # s)
  <2> HIDE DEF Bad
  <2> QED
    BY <1>1, Smallest
<1>3. s # {} => Chosen(s) \in S /\ s \ {Chosen(s)} \notin Bad /\ s \ {Chosen(s)} \in SUBSET S
  BY <1>2, SubsetsFinite
<1>4. SumOf(w, s) = IF s = {} THEN 0 ELSE w[Chosen(s)] + SumOf(w, s \ {Chosen(s)})
  BY <1>2, SubsetsFinite, SumStep
<1>5. SumOf(w, s) \notin Nat
  BY <1>2
<1>6. CASE s = {}
  BY <1>4, <1>5, <1>6
<1>7. CASE s # {}
  <2>1. SumOf(w, s \ {Chosen(s)}) \in Nat /\ w[Chosen(s)] \in Nat
    BY <1>3, <1>7
  <2> QED
    BY <1>4, <1>5, <1>7, <2>1
<1> QED
  BY <1>6, <1>7

LEMMA SumOpposite ==
    ASSUME NEW S, IsFiniteSet(S), NEW w, NEW v, \A x \in S : w[x] \in Int /\ v[x] = -w[x]
    PROVE  SumOf(v, S) = -SumOf(w, S) /\ SumOf(w, S) \in Int
<1> DEFINE zero == [x \in S |-> 0]
<1>1. \A x \in S : zero[x] = v[x] + w[x] /\ v[x] \in Int /\ w[x] \in Int /\ zero[x] = 0
  OBVIOUS
<1>2. {} \in SUBSET S /\ (\A x \in {} : zero[x] \in Int) /\ \A x \in S \ {} : zero[x] = 0
  OBVIOUS
<1> HIDE DEF zero
<1>3. SumOf(zero, S) = SumOf(zero, {})
  BY <1>2, SumLess
<1>4. SumOf(zero, S) = SumOf(v, S) + SumOf(w, S)
  BY <1>1, SumAdd
<1>5. SumOf(v, S) \in Int /\ SumOf(w, S) \in Int
  BY <1>1, SumInt
<1>6. SumOf(zero, {}) = 0
  BY SumEmpty
<1> DEFINE a == SumOf(v, S)
           b == SumOf(w, S)
<1>7. a \in Int /\ b \in Int /\ 0 = a + b
  BY <1>3, <1>4, <1>5, <1>6
<1> HIDE DEF a, b
<1>8. a = -b
  BY <1>7
<1> QED
  BY <1>5, <1>8 DEF a, b

SignedItem(i) == IF i.sign = 1 THEN i.amount ELSE -i.amount

LEMMA NetTotals ==
    ASSUME NEW X, IsFiniteSet(X), \A i \in X : i.amount \in Int /\ i.sign \in {1, -1},
           NEW w, \A i \in X : w[i] = SignedItem(i)
    PROVE  Total({i \in X : i.sign = 1}) - Total({i \in X : i.sign = -1}) = SumOf(w, X)
<1> DEFINE P == {i \in X : i.sign = 1}
           M == {i \in X : i.sign = -1}
           f == Amounts(P)
           g == Amounts(M)
<1>1. P \cup M = X /\ P \cap M = {} /\ IsFiniteSet(P) /\ IsFiniteSet(M)
  <2>1. P \cup M = X /\ P \cap M = {} /\ P \subseteq X /\ M \subseteq X
    OBVIOUS
  <2> QED
    BY <2>1, FS_Subset
<1>2. \A i \in P \cup M : w[i] \in Int
  BY DEF SignedItem
<1>3. \A i \in P : w[i] = f[i]
  BY DEF SignedItem, Amounts
<1>4. \A i \in M : g[i] \in Int /\ w[i] = -g[i]
  BY DEF SignedItem, Amounts
<1>5. Total(P) = SumOf(f, P) /\ Total(M) = SumOf(g, M)
  BY <1>1, TotalIs
<1> HIDE DEF P, M, f, g
<1>6. SumOf(w, X) = SumOf(w, P) + SumOf(w, M)
  BY <1>1, <1>2, SumUnion
<1>7. SumOf(w, P) = SumOf(f, P)
  BY <1>1, <1>3, SumSame
<1>8. SumOf(w, M) = -SumOf(g, M) /\ SumOf(g, M) \in Int
  BY <1>1, <1>4, SumOpposite
<1>9. SumOf(w, P) \in Int
  BY <1>1, <1>2, SumInt
<1> DEFINE a == SumOf(f, P)
           b == SumOf(g, M)
<1>10. Total(P) = a /\ Total(M) = b /\ SumOf(w, X) = a + (-b) /\ a \in Int /\ b \in Int
  BY <1>5, <1>6, <1>7, <1>8, <1>9
<1> HIDE DEF a, b
<1>11. Total(P) - Total(M) = SumOf(w, X)
  BY <1>10
<1> QED
  BY <1>11 DEF P, M

-----------------------------------------------------------------------------
(* What a past period adds to the balance. *)

(* The rows of a period that the projection counts from its start on, and      *)
(* what one adds.                                                           *)
Worth(r) == IF Counts(r) THEN (IF Sign(r.of, r.to) = 1 THEN r.amount ELSE -r.amount) ELSE 0
RowsWithin(p) == {r \in rows : r.live /\ InPeriod(p, r.date) /\ r.date >= range.start}
CountedWithin(p) == {r \in RowsWithin(p) : Counts(r)}

(* What was spent on the budget is in the period the budget ended in.          *)
BudgetShown(p) == IF budget.end >= range.start THEN BudgetItems(p, today) ELSE {}
SpentIn(p) == IF InPeriod(p, budget.end) /\ budget.end >= range.start THEN Spent ELSE 0

(* The opening period had no income, or does not begin before the projection.  *)
IncomeShown(p) ==
    LET from == EffectiveStart(p, range.start) IN
    from = p.start \/ \A r \in rows : r.live /\ from <= r.date /\ r.date <= p.end => Sign(r.of, r.to) # 1

LEMMA StartsFrom ==
    ASSUME ProjectionsInv, range.start # NoDate, NEW n \in DOMAIN Projected
    PROVE  LET p == Projected[n] IN
           /\ range.start \in Int /\ p.start \in Int /\ p.end \in Int /\ range.start <= p.end
           /\ n = 1 => p.start <= range.start
           /\ n # 1 => range.start <= Projected[n - 1].end
           /\ \A d \in Int : InPeriod(p, d) => (d >= EffectiveStart(p, range.start) <=> d >= range.start)
<1> DEFINE p == Projected[n]
           h == Projected[1]
<1>1. PayDays \in ScheduleType /\ Cut(PayDays, Projected) /\ (Projected # <<>> => InPeriod(h, ProjectionStart))
  BY RangeFacts, ProjectedFacts
<1>2. /\ n \in Nat /\ n >= 1 /\ Projected # <<>> /\ 1 \in DOMAIN Projected /\ DOMAIN Projected \subseteq Nat
      /\ p.start \in Int /\ p.end \in Int /\ p.start < p.end /\ h.end \in Int /\ h.start \in Int
  BY <1>1, CutFacts
<1>3. range.start \in Int /\ range.start = ProjectionStart
  <2>1. \A d \in Dates : d \in Int
    BY DateFacts
  <2> QED
    BY <2>1 DEF ProjectionsInv, ProjectionsTyped, ProjectionStart
<1>4. h.start <= range.start /\ range.start <= h.end
  BY <1>1, <1>2, <1>3 DEF InPeriod
<1>5. n # 1 => h.end < p.start
  BY <1>1, <1>2, CutIncreases
<1>6. ASSUME n # 1 PROVE range.start <= Projected[n - 1].end
  <2>1. n - 1 \in DOMAIN Projected /\ n > 1
    BY <1>1, <1>2, <1>6, CutFacts
  <2> DEFINE q == Projected[n - 1]
  <2>2. q.start \in Int /\ q.end \in Int /\ q.start < q.end
    BY <1>1, <2>1, CutFacts
  <2>3. n - 1 # 1 => h.end < q.start
    <3>1. n - 1 # 1 => 1 < n - 1
      BY <1>2, <2>1
    <3> QED
      BY <1>1, <1>2, <2>1, <3>1, CutIncreases
  <2>4. n - 1 = 1 => q = h
    OBVIOUS
  <2> HIDE DEF q, h
  <2>5. range.start <= q.end
    BY <1>2, <1>3, <1>4, <2>2, <2>3, <2>4
  <2> QED
    BY <2>5 DEF q
<1>7. n = 1 => p = h
  OBVIOUS
<1> HIDE DEF p, h
<1>8. range.start <= p.end /\ (n = 1 => p.start <= range.start) /\ (n # 1 => range.start < p.start)
  BY <1>2, <1>3, <1>4, <1>5, <1>7
<1>9. \A d \in Int : InPeriod(p, d) => (d >= EffectiveStart(p, range.start) <=> d >= range.start)
  BY <1>2, <1>3, <1>8 DEF InPeriod, EffectiveStart
<1> QED
  BY <1>2, <1>3, <1>6, <1>8, <1>9 DEF p

(* Its row shows the rows of the period and the budget's line, from the start   *)
(* of the projection on.                                                    *)
LEMMA PastShows ==
    ASSUME ProjectionsInv, range.start # NoDate, NEW n \in DOMAIN Projected,
           Projected[n].end < today, IncomeShown(Projected[n])
    PROVE  ShownItems(Projected[n]) = {RowItem(r) : r \in CountedWithin(Projected[n])} \cup BudgetShown(Projected[n])
<1> DEFINE p == Projected[n]
           from == EffectiveStart(p, range.start)
           Shown(i) == IF i.sign = 1 THEN from = p.start ELSE i.date >= from
<1>1. /\ range.start \in Int /\ p.start \in Int /\ p.end \in Int
      /\ \A d \in Int : InPeriod(p, d) => (d >= from <=> d >= range.start)
  BY StartsFrom
<1>2. ItemsIn(p, today) = RowItems(p) \cup BudgetItems(p, today)
  <2>1. PayPeriod(PayDays, p)
    BY RangeFacts, ProjectedFacts, CutFacts
  <2> QED
    BY <2>1, InvPastIsRecorded DEF PastIsRecorded
<1>3. from \in Int /\ p.start <= from
  BY StartsAre
<1>4. \A r \in rows : r.date \in Int
  BY DEF ProjectionsInv, ProjectionsTyped, RowType
<1>5. budget.end \in Int
  BY DEF ProjectionsInv, ProjectionsTyped
<1>6. IncomeShown(p) /\ ShownItems(p) = {i \in ItemsIn(p, today) : Shown(i)}
  BY DEF ShownItems
<1>7. RowItems(p) = {RowItem(r) : r \in {x \in rows : x.live /\ InPeriod(p, x.date) /\ Counts(x)}}
  BY DEF RowItems, RowItem
<1> HIDE DEF p, from
<1>8. ASSUME NEW r \in rows, r.live, InPeriod(p, r.date)
      PROVE  Shown(RowItem(r)) <=> r.date >= range.start
  <2>1. RowItem(r).sign = Sign(r.of, r.to) /\ RowItem(r).date = r.date
    BY DEF RowItem, Item
  <2>2. r.date \in Int /\ (r.date >= from <=> r.date >= range.start)
    BY <1>1, <1>4, <1>8
  <2>3. CASE Sign(r.of, r.to) = 1
    <3>1. from = p.start \/ ~(r.date >= from)
      BY <1>6, <1>8, <2>2, <2>3 DEF IncomeShown, InPeriod, from
    <3>2. from = p.start => r.date >= from
      BY <1>1, <1>8, <2>2 DEF InPeriod
    <3> QED
      BY <2>1, <2>2, <2>3, <3>1, <3>2
  <2>4. CASE Sign(r.of, r.to) # 1
    BY <2>1, <2>2, <2>4
  <2> QED
    BY <2>3, <2>4
<1>9. ASSUME NEW i \in BudgetItems(p, today)
      PROVE  Shown(i) <=> budget.end >= range.start
  <2>1. i.sign = -1 /\ i.date = budget.end /\ InPeriod(p, budget.end)
    BY DEF BudgetItems, Item
  <2> QED
    BY <1>1, <1>5, <2>1
<1> HIDE DEF Shown
<1>10. ASSUME NEW i PROVE i \in RowItems(p) /\ Shown(i) <=> \E r \in CountedWithin(p) : i = RowItem(r)
  BY <1>7, <1>8 DEF CountedWithin, RowsWithin
<1>11. ASSUME NEW i PROVE i \in BudgetItems(p, today) /\ Shown(i) <=> i \in BudgetShown(p)
  BY <1>9 DEF BudgetShown
<1>12. ShownItems(p) = {RowItem(r) : r \in CountedWithin(p)} \cup BudgetShown(p)
  BY <1>2, <1>6, <1>10, <1>11
<1> QED
  BY <1>12 DEF p

Worths == [r \in rows |-> Worth(r)]

LEMMA WorthInt == ASSUME ProjectionsInv, NEW r \in rows PROVE Worths[r] = Worth(r) /\ Worth(r) \in Int /\ r.amount \in Nat
<1>1. r.amount \in Nat
  BY DEF ProjectionsInv, ProjectionsTyped, RowType
<1> QED
  BY <1>1 DEF Worths, Worth

(* A counted row is shown by an item of its own. *)
LEMMA ItemsDiffer ==
    ASSUME ProjectionsInv, RoutedRows, NEW r \in rows, NEW q \in rows, r.live, q.live, RowItem(r) = RowItem(q)
    PROVE  r = q
<1>1. r \in RowType /\ q \in RowType
  BY DEF ProjectionsInv, ProjectionsTyped
<1>2. /\ r.of = q.of /\ r.due = q.due /\ r.date = q.date /\ r.amount = q.amount /\ r.account = q.account
  BY DEF RowItem, Item
<1>3. CASE r.of = "transfer"
  BY <1>2, <1>3, KindsDiffer DEF ProjectionsInv, OneRowPerSlot
<1>4. CASE r.of # "transfer"
  <2>1. r.to = q.to
    BY <1>2, <1>4 DEF RoutedRows, Routed
  <2> QED
    BY <1>1, <1>2, <2>1 DEF RowType
<1> QED
  BY <1>3, <1>4

LEMMA BudgetRowsSum ==
    ASSUME ProjectionsInv
    PROVE  /\ BudgetRows \in SUBSET rows /\ IsFiniteSet(BudgetRows) /\ Spent \in Nat
           /\ Spent = SumOf(Amounts(BudgetRows), BudgetRows)
<1> DEFINE S == BudgetRows
           w == Amounts(S)
<1>1. S \in SUBSET rows /\ IsFiniteSet(rows) /\ \A r \in rows : r.amount \in Nat
  BY DEF BudgetRows, ProjectionsInv, ProjectionsTyped, RowType
<1>2. \A r \in S : w[r] \in Nat
  BY <1>1 DEF Amounts
<1>3. Spent = Total(S)
  BY SpentIs
<1> HIDE DEF S
<1>4. IsFiniteSet(S)
  BY <1>1, FS_Subset
<1>5. Total(S) = SumOf(w, S)
  BY <1>4, TotalIs
<1> HIDE DEF w
<1>6. SumOf(w, S) \in Nat
  BY <1>2, <1>4, SumNat
<1> QED
  BY <1>1, <1>3, <1>4, <1>5, <1>6 DEF S, w

(* The line of a budget that has ended takes off what was spent. *)
LEMMA BudgetShownIs ==
    ASSUME ProjectionsInv, NEW p, p.end \in Int, p.end < today,
           NEW w, \A i \in BudgetShown(p) : w[i] = SignedItem(i)
    PROVE  /\ IsFiniteSet(BudgetShown(p)) /\ SumOf(w, BudgetShown(p)) = -SpentIn(p) /\ SpentIn(p) \in Nat
           /\ \A i \in BudgetShown(p) : i.of = "budget" /\ i.amount \in Int /\ i.sign = -1
<1> DEFINE b == Item("budget", budget.end, budget.end, Spent, -1, NoAccount, today < budget.start)
           B == BudgetShown(p)
<1>1. Spent \in Nat /\ budget.end \in Int /\ today \in Int
  BY BudgetRowsSum DEF ProjectionsInv, ProjectionsTyped
<1>2. InPeriod(p, budget.end) => BudgetAmount(today) = Spent
  BY <1>1 DEF InPeriod, BudgetAmount
<1>3. /\ SpentIn(p) > 0 => B = {b} /\ SpentIn(p) = Spent
      /\ ~(SpentIn(p) > 0) => B = {} /\ SpentIn(p) = 0
  BY <1>1, <1>2 DEF BudgetShown, BudgetItems, SpentIn
<1>4. b.sign = -1 /\ b.amount = Spent /\ b.of = "budget"
  BY DEF Item
<1>5. SpentIn(p) \in Nat
  BY <1>1, <1>3
<1> HIDE DEF b, B
<1>6. CASE SpentIn(p) > 0
  <2>1. w[b] = -Spent /\ w[b] \in Int
    BY <1>1, <1>3, <1>4, <1>6 DEF SignedItem, B
  <2>2. SumOf(w, {b}) = w[b] /\ IsFiniteSet({b})
    BY <2>1, SumOne, FS_Singleton
  <2> QED
    BY <1>1, <1>3, <1>4, <1>5, <1>6, <2>1, <2>2 DEF B
<1>7. CASE ~(SpentIn(p) > 0)
  <2>1. SumOf(w, {}) = 0 /\ IsFiniteSet({})
    BY SumEmpty, FS_EmptySet
  <2> QED
    BY <1>3, <1>7, <2>1 DEF B
<1> QED
  BY <1>6, <1>7

LEMMA PastLine ==
    ASSUME ProjectionsInv, RoutedRows, range.start # NoDate, NEW n \in DOMAIN Projected,
           Projected[n].end < today, IncomeShown(Projected[n])
    PROVE  /\ Net(Line(Projected[n], range.start, today))
                = SumOf(Worths, RowsWithin(Projected[n])) - SpentIn(Projected[n])
           /\ SpentIn(Projected[n]) \in Nat
           /\ IsFiniteSet(RowsWithin(Projected[n])) /\ SumOf(Worths, RowsWithin(Projected[n])) \in Int
<1> DEFINE p == Projected[n]
           X == ShownItems(p)
           C == CountedWithin(p)
           W == RowsWithin(p)
           h == [r \in C |-> RowItem(r)]
           R == {h[r] : r \in C}
           B == BudgetShown(p)
           w == [i \in X |-> SignedItem(i)]
<1>1. p.end \in Int /\ p.end < today
  BY StartsFrom
<1>2. X = R \cup B
  <2>1. R = {RowItem(r) : r \in C}
    OBVIOUS
  <2>2. X = {RowItem(r) : r \in C} \cup B
    BY PastShows
  <2> QED
    BY <2>1, <2>2
<1>3. W \in SUBSET rows /\ C \in SUBSET W /\ IsFiniteSet(W) /\ IsFiniteSet(C)
  <2>1. W \in SUBSET rows /\ C \in SUBSET W /\ IsFiniteSet(rows)
    BY DEF CountedWithin, RowsWithin, ProjectionsInv, ProjectionsTyped
  <2> HIDE DEF W, C
  <2> QED
    BY <2>1, FS_Subset
<1>4. (\A r \in W : Worths[r] \in Int /\ r.live) /\ \A r \in W \ C : Worths[r] = 0
  <2>1. \A r \in W : r.live /\ (r \notin C => ~Counts(r))
    BY DEF RowsWithin, CountedWithin
  <2> QED
    BY <1>3, <2>1, WorthInt DEF Worth
<1>5. \A r \in C : Counts(r) /\ h[r] = RowItem(r)
  BY DEF CountedWithin
<1>6. \A r \in C : /\ h[r].of # "budget" /\ h[r].amount \in Int /\ h[r].sign \in {1, -1}
                   /\ SignedItem(h[r]) = Worths[r] /\ h[r] \in X
  <2> TAKE r \in C
  <2>1. Counts(r) /\ r \in rows /\ Worths[r] = Worth(r) /\ r.amount \in Nat
    BY <1>3, <1>5, WorthInt
  <2>2. r.of # "budget"
    BY <2>1 DEF Counts
  <2>3. h[r].of = r.of /\ h[r].amount = r.amount /\ h[r].sign = Sign(r.of, r.to)
    BY <1>5 DEF RowItem, Item
  <2>4. Sign(r.of, r.to) \in {1, -1}
    BY DEF Sign
  <2>5. SignedItem(h[r]) = Worth(r)
    BY <2>1, <2>3 DEF SignedItem, Worth
  <2>6. h[r] \in X
    BY <1>2
  <2> QED
    BY <2>1, <2>2, <2>3, <2>4, <2>5, <2>6
<1>7. \A r, q \in C : h[r] = h[q] => r = q
  BY <1>3, <1>4, <1>5, ItemsDiffer
<1>8. IsFiniteSet(R)
  <2>1. h \in Surjection(C, R)
    BY DEF Surjection
  <2> HIDE DEF h, R, C
  <2> QED
    BY <1>3, <2>1, FS_Surjection
<1>9. /\ IsFiniteSet(B) /\ SumOf(w, B) = -SpentIn(p) /\ SpentIn(p) \in Nat
      /\ \A i \in B : i.of = "budget" /\ i.amount \in Int /\ i.sign = -1
  <2>1. \A i \in B : w[i] = SignedItem(i)
    BY <1>2
  <2> HIDE DEF w, p
  <2> QED
    BY <1>1, <2>1, BudgetShownIs
<1>10. \A i \in X : w[i] = SignedItem(i)
  OBVIOUS
<1>11. Net(Line(p, range.start, today)) = Total({i \in X : i.sign = 1}) - Total({i \in X : i.sign = -1})
  BY DEF Net, Line, Summed, ShownItems
<1>12. \A i \in R : \E r \in C : i = h[r]
  OBVIOUS
<1>13. R = {h[r] : r \in C}
  OBVIOUS
<1> HIDE DEF p, X, C, W, h, R, B, w
<1>14. IsFiniteSet(X) /\ R \cap B = {} /\ \A i \in X : i.amount \in Int /\ i.sign \in {1, -1}
  <2>1. IsFiniteSet(X)
    BY <1>2, <1>8, <1>9, FS_Union
  <2> QED
    BY <1>2, <1>6, <1>9, <1>12, <2>1
<1>15. Net(Line(p, range.start, today)) = SumOf(w, X)
  BY <1>10, <1>11, <1>14, NetTotals
<1>16. SumOf(w, X) = SumOf(w, R) + SumOf(w, B)
  <2>1. \A i \in R \cup B : w[i] \in Int
    BY <1>2, <1>10, <1>14 DEF SignedItem
  <2> QED
    BY <1>2, <1>8, <1>9, <1>14, <2>1, SumUnion
<1>17. SumOf(w, R) = SumOf(Worths, C)
  <2>1. \A r \in C : Worths[r] \in Int /\ w[h[r]] = Worths[r]
    BY <1>3, <1>4, <1>6, <1>10
  <2> QED
    BY <1>3, <1>7, <1>13, <2>1, SumImage
<1>18. SumOf(Worths, W) = SumOf(Worths, C)
  <2>1. \A r \in C : Worths[r] \in Int
    BY <1>3, <1>4
  <2> QED
    BY <1>3, <1>4, <2>1, SumLess
<1>19. SumOf(Worths, W) \in Int
  BY <1>3, <1>4, SumInt
<1> DEFINE a == SumOf(Worths, W)
           z == Net(Line(p, range.start, today))
<1>20. a \in Int /\ SpentIn(p) \in Nat /\ z = a + (-SpentIn(p))
  BY <1>9, <1>15, <1>16, <1>17, <1>18, <1>19
<1> HIDE DEF a, z
<1>21. z = a - SpentIn(p)
  BY <1>20
<1> QED
  BY <1>3, <1>20, <1>21 DEF a, z, p, W

(* Where the periods before one end, and what the lines up to a day took off.   *)
EndOf(n) == IF n = 0 THEN range.start - 1 ELSE Projected[n].end
SpentBy(d) == IF range.start <= budget.end /\ budget.end <= d THEN Spent ELSE 0

LEMMA SumsByPeriod ==
    ASSUME ProjectionsInv, range.start # NoDate, NEW n \in DOMAIN Projected
    PROVE  LET p == Projected[n] IN
           /\ Summing(p.end) = Summing(EndOf(n - 1)) \cup RowsWithin(p)
           /\ Summing(EndOf(n - 1)) \cap RowsWithin(p) = {}
           /\ SpentBy(p.end) = SpentBy(EndOf(n - 1)) + SpentIn(p) /\ SpentBy(EndOf(n - 1)) \in Nat
           /\ n = 1 => SpentBy(EndOf(n - 1)) = 0 /\ Summing(EndOf(n - 1)) = {}
<1> DEFINE p == Projected[n]
           e == EndOf(n - 1)
<1>1. /\ range.start \in Int /\ p.start \in Int /\ p.end \in Int /\ range.start <= p.end
      /\ n = 1 => p.start <= range.start
      /\ n # 1 => range.start <= Projected[n - 1].end
  BY StartsFrom
<1>2. PayDays \in ScheduleType /\ Cut(PayDays, Projected)
  BY RangeFacts, ProjectedFacts
<1>3. /\ n \in Nat /\ n >= 1 /\ p.start < p.end
      /\ n > 1 => n - 1 \in DOMAIN Projected /\ p.start = Projected[n - 1].end + 1 /\ Projected[n - 1].end \in Int
  BY <1>2, CutFacts
<1>4. /\ e \in Int /\ e < p.end
      /\ n = 1 => e = range.start - 1 /\ p.start <= range.start
      /\ n # 1 => range.start <= e /\ p.start = e + 1
  <2>1. CASE n = 1
    <3>1. e = range.start - 1
      BY <2>1 DEF EndOf
    <3> HIDE DEF e, p
    <3> QED
      BY <1>1, <2>1, <3>1
  <2>2. CASE n # 1
    <3>1. e = Projected[n - 1].end /\ n > 1
      BY <1>3, <2>2 DEF EndOf
    <3> HIDE DEF e, p
    <3> QED
      BY <1>1, <1>3, <2>2, <3>1
  <2> QED
    BY <2>1, <2>2
<1>5. (\A r \in rows : r.date \in Int) /\ budget.end \in Int /\ Spent \in Nat
  BY BudgetRowsSum DEF ProjectionsInv, ProjectionsTyped, RowType
<1> HIDE DEF p, e
<1>6. \A d \in Int : d >= range.start /\ d <= p.end <=> (d >= range.start /\ d <= e) \/ (d >= range.start /\ InPeriod(p, d))
  BY <1>1, <1>4 DEF InPeriod
<1>7. \A d \in Int : ~(d >= range.start /\ d <= e /\ InPeriod(p, d))
  BY <1>1, <1>4 DEF InPeriod
<1>8. \A q : Summing(q) = {r \in rows : r.live /\ r.date <= q /\ r.date >= range.start}
  BY DEF Summing
<1>9. Summing(p.end) = Summing(e) \cup RowsWithin(p)
  BY <1>5, <1>6, <1>8 DEF RowsWithin
<1>10. Summing(e) \cap RowsWithin(p) = {}
  BY <1>5, <1>7, <1>8 DEF RowsWithin
<1>11. SpentBy(p.end) = SpentBy(e) + SpentIn(p) /\ SpentBy(e) \in Nat
  BY <1>1, <1>4, <1>5 DEF SpentBy, SpentIn, InPeriod
<1>12. n = 1 => SpentBy(e) = 0 /\ Summing(e) = {}
  BY <1>1, <1>4, <1>5, <1>8 DEF SpentBy
<1> QED
  BY <1>9, <1>10, <1>11, <1>12 DEF p, e

LEMMA CarriedOut ==
    ASSUME ProjectionsInv, RoutedRows, range.start # NoDate, NEW n \in DOMAIN Projected,
           Projected[n].end < today, \A m \in 1..n : IncomeShown(Projected[m]),
           NEW u, BalancesTo(u, LinesOf(Projected, range.start, today), InitialFreeMoney, Len(Projected))
    PROVE  /\ u[n] = InitialFreeMoney + SumOf(Worths, Summing(Projected[n].end)) - SpentBy(Projected[n].end)
           /\ SpentBy(Projected[n].end) \in Nat /\ SumOf(Worths, Summing(Projected[n].end)) \in Int
           /\ InitialFreeMoney \in Int
<1> DEFINE ps == Projected
           Sum(m) == SumOf(Worths, Summing(EndOf(m)))
           Carried(m) == /\ u[m] = InitialFreeMoney + Sum(m) - SpentBy(EndOf(m))
                         /\ SpentBy(EndOf(m)) \in Nat /\ Sum(m) \in Int
           Bad == {m \in 0..n : ~Carried(m)}
<1>1. PayDays \in ScheduleType /\ Cut(PayDays, ps) /\ today \in Int
  BY RangeFacts, ProjectedFacts DEF ProjectionsInv, ProjectionsTyped
<1>2. /\ Len(ps) \in Nat /\ DOMAIN ps = 1..Len(ps)
      /\ \A i \in DOMAIN ps : ps[i].start \in Int /\ ps[i].end \in Int /\ ps[i].start < ps[i].end
  BY <1>1, CutFacts
<1>3. \A i \in DOMAIN ps : LinesOf(ps, range.start, today)[i] = Line(ps[i], range.start, today)
  BY <1>1, LinesAre
<1>4. InitialFreeMoney \in Int
  <2>1. IsFiniteSet(Projecting) /\ \A a \in Projecting : Opening[a] \in Int
    BY ProjectionsAssumption, FS_Subset DEF Projecting
  <2> QED
    BY <2>1, OpeningIs, SumInt
<1>5. u[0] = InitialFreeMoney /\ \A i \in DOMAIN ps : u[i] = u[i - 1] + Net(Line(ps[i], range.start, today))
  BY <1>2, <1>3 DEF BalancesTo
<1>6. \A d : IsFiniteSet(Summing(d)) /\ \A r \in Summing(d) : Worths[r] \in Int
  <2> TAKE d
  <2>1. Summing(d) \subseteq rows /\ IsFiniteSet(rows)
    BY DEF Summing, ProjectionsInv, ProjectionsTyped
  <2> QED
    BY <2>1, FS_Subset, WorthInt
<1>7. 1..n \subseteq DOMAIN ps /\ n \in Nat
  BY <1>2
<1>8. Bad = {}
  <2> SUFFICES ASSUME Bad # {} PROVE FALSE
    OBVIOUS
  <2>1. PICK m \in Bad : \A j \in Bad : m <= j
    <3>1. Bad \in SUBSET Nat
      BY <1>7
    <3> HIDE DEF Bad
    <3> QED
      BY <3>1, Least
  <2>2. m \in 0..n /\ ~Carried(m)
    BY <2>1
  <2>3. CASE m = 0
    <3>1. 1 \in DOMAIN ps
      BY <1>2, <1>7
    <3>2. SpentBy(EndOf(1 - 1)) = 0 /\ Summing(EndOf(1 - 1)) = {}
      BY <3>1, SumsByPeriod
    <3>3. SpentBy(EndOf(0)) = 0 /\ Sum(0) = 0
      <4>1. 1 - 1 = 0
        OBVIOUS
      <4>2. SpentBy(EndOf(0)) = 0 /\ Summing(EndOf(0)) = {}
        BY <3>2, <4>1
      <4> QED
        BY <4>2, SumEmpty
    <3> HIDE DEF Sum
    <3>4. Carried(0)
      BY <1>4, <1>5, <3>3
    <3> QED
      BY <2>2, <2>3, <3>4
  <2>4. CASE m # 0
    <3> DEFINE p == ps[m]
               k == m - 1
    <3>1. m \in 1..n /\ m \in DOMAIN ps /\ k \in 0..n /\ ~(m <= k) /\ m # 0
      BY <1>7, <2>2, <2>4
    <3>2. Carried(k)
      <4>1. k \notin Bad
        <5> HIDE DEF Bad
        <5> QED
          BY <2>1, <3>1
      <4> HIDE DEF Carried
      <4> QED
        BY <3>1, <4>1
    <3>3. p.end < today
      <4>1. m # n => p.end < ps[n].start
        BY <1>1, <1>7, <3>1, CutIncreases
      <4>2. p.end \in Int /\ ps[n].start \in Int /\ ps[n].end \in Int /\ ps[n].start < ps[n].end
        BY <1>2, <3>1
      <4>3. m = n => p.end = ps[n].end
        OBVIOUS
      <4> HIDE DEF p
      <4> QED
        BY <1>1, <4>1, <4>2, <4>3
    <3>4. /\ Net(Line(p, range.start, today)) = SumOf(Worths, RowsWithin(p)) - SpentIn(p)
          /\ SpentIn(p) \in Nat /\ IsFiniteSet(RowsWithin(p)) /\ SumOf(Worths, RowsWithin(p)) \in Int
      BY <3>1, <3>3, PastLine
    <3>5. /\ Summing(p.end) = Summing(EndOf(k)) \cup RowsWithin(p)
          /\ Summing(EndOf(k)) \cap RowsWithin(p) = {}
          /\ SpentBy(p.end) = SpentBy(EndOf(k)) + SpentIn(p) /\ SpentBy(EndOf(k)) \in Nat
      BY <3>1, SumsByPeriod
    <3>6. u[m] = u[k] + Net(Line(p, range.start, today))
      BY <1>5, <3>1
    <3>7. EndOf(m) = p.end
      BY <3>1 DEF EndOf
    <3> HIDE DEF p, k
    <3>8. Sum(m) = Sum(k) + SumOf(Worths, RowsWithin(p))
      <4>1. \A r \in Summing(EndOf(k)) \cup RowsWithin(p) : Worths[r] \in Int
        BY <1>6, <3>5
      <4>2. SumOf(Worths, Summing(EndOf(k)) \cup RowsWithin(p))
              = SumOf(Worths, Summing(EndOf(k))) + SumOf(Worths, RowsWithin(p))
        BY <1>6, <3>4, <3>5, <4>1, SumUnion
      <4> QED
        BY <3>5, <3>7, <4>2
    <3> DEFINE a == Sum(k)
               b == SumOf(Worths, RowsWithin(p))
               c == SpentIn(p)
               x == SpentBy(EndOf(k))
               f == InitialFreeMoney
    <3>9. /\ a \in Int /\ b \in Int /\ c \in Nat /\ x \in Nat /\ f \in Int
          /\ u[k] = f + a - x /\ u[m] = u[k] + (b - c) /\ Sum(m) = a + b /\ SpentBy(EndOf(m)) = x + c
      BY <1>4, <3>2, <3>4, <3>5, <3>6, <3>7, <3>8
    <3> HIDE DEF a, b, c, x, f, Sum
    <3>10. u[m] = f + Sum(m) - SpentBy(EndOf(m)) /\ SpentBy(EndOf(m)) \in Nat /\ Sum(m) \in Int
      BY <3>9
    <3> QED
      BY <2>2, <3>10 DEF f
  <2> QED
    BY <2>3, <2>4
<1>9. Carried(n)
  <2>1. n \in 0..n
    BY <1>7
  <2> HIDE DEF Carried
  <2> QED
    BY <1>8, <2>1
<1>10. EndOf(n) = Projected[n].end
  BY <1>2 DEF EndOf
<1> QED
  BY <1>4, <1>9, <1>10

(* Lines and balances count the same, but for what was spent on the budget:     *)
(* the lines take it off with the budget's.                                  *)
BudgetPart(r) == IF r.of = "budget" THEN r.amount ELSE 0
SpendsAt(d, r) ==
    /\ (r.date <= d) <=> (budget.end <= d)
    /\ LeastOf(r.date, budget.end) >= range.start /\ ~Excludes(r.account)

LEMMA WorthIs ==
    ASSUME ProjectionsInv, RoutedRows, NEW r \in rows, r.account \in Accounts,
           r.of = "budget" => ~Excludes(r.account)
    PROVE  /\ Worth(r) = Effect(r) + BudgetPart(r) /\ Effect(r) \in Int /\ BudgetPart(r) \in Nat
           /\ Worths[r] = Worth(r)
<1> DEFINE a == r.account
           b == r.to
           x == r.amount
<1>1. x \in Nat /\ Worths[r] = Worth(r) /\ -x \in Int /\ r.of \in Kinds
  BY WorthInt DEF ProjectionsInv, ProjectionsTyped, RowType
<1>2. CASE r.of = "transfer"
  <2>1. Worth(r) = IF Crossing(a, b) THEN (IF ~Excludes(b) THEN x ELSE -x) ELSE 0
    BY <1>2 DEF Worth, Counts, Sign
  <2>2. Effect(r) = (IF Excludes(a) THEN 0 ELSE -x) + (IF Excludes(b) THEN 0 ELSE x)
    BY <1>2 DEF Effect
  <2>3. BudgetPart(r) = 0
    BY <1>2 DEF BudgetPart
  <2>4. Crossing(a, b) <=> ~(Excludes(a) <=> Excludes(b))
    <3>1. \A c \in Accounts : account[c].excluded \in BOOLEAN
      BY DEF ProjectionsInv, ProjectionsTyped
    <3>2. Excludes(a) \in BOOLEAN /\ Excludes(b) \in BOOLEAN
      BY <3>1 DEF Excludes
    <3> QED
      BY <3>2, Zenon DEF Crossing
  <2> HIDE DEF a, b, x
  <2>5. CASE Excludes(a) /\ Excludes(b)
    BY <1>1, <2>1, <2>2, <2>3, <2>4, <2>5
  <2>6. CASE Excludes(a) /\ ~Excludes(b)
    BY <1>1, <2>1, <2>2, <2>3, <2>4, <2>6
  <2>7. CASE ~Excludes(a) /\ Excludes(b)
    BY <1>1, <2>1, <2>2, <2>3, <2>4, <2>7
  <2>8. CASE ~Excludes(a) /\ ~Excludes(b)
    BY <1>1, <2>1, <2>2, <2>3, <2>4, <2>8
  <2> QED
    BY <2>5, <2>6, <2>7, <2>8
<1>3. CASE r.of = "budget"
  <2>1. Worth(r) = 0 /\ Effect(r) = -x /\ BudgetPart(r) = x
    BY <1>3 DEF Worth, Counts, Effect, BudgetPart
  <2> HIDE DEF x
  <2> QED
    BY <1>1, <2>1
<1>4. CASE r.of \notin {"transfer", "budget"}
  <2> DEFINE y == IF r.of \in {"income", "earning"} THEN x ELSE -x
  <2>1. Worth(r) = (IF Excludes(a) THEN 0 ELSE y) /\ Effect(r) = (IF Excludes(a) THEN 0 ELSE y) /\ BudgetPart(r) = 0
    BY <1>4 DEF Worth, Counts, Sign, Effect, BudgetPart
  <2>2. y \in Int
    BY <1>1
  <2> HIDE DEF a, y
  <2> QED
    BY <1>1, <2>1, <2>2
<1> QED
  BY <1>2, <1>3, <1>4

LEMMA SpentWithin ==
    ASSUME ProjectionsInv, LiveRows, range.start # NoDate, NEW d \in Int,
           \A r \in BudgetRows : SpendsAt(d, r),
           NEW w, \A r \in Summing(d) : w[r] = BudgetPart(r)
    PROVE  SumOf(w, Summing(d)) = SpentBy(d)
<1> DEFINE T == Summing(d)
           S == BudgetRows
           U == T \cap S
           v == Amounts(S)
<1>1. /\ S \in SUBSET rows /\ IsFiniteSet(S) /\ Spent \in Nat /\ Spent = SumOf(v, S)
      /\ T \in SUBSET rows /\ IsFiniteSet(T)
  <2>1. T \in SUBSET rows /\ IsFiniteSet(rows)
    BY DEF Summing, ProjectionsInv, ProjectionsTyped
  <2> HIDE DEF T
  <2> QED
    BY <2>1, BudgetRowsSum, FS_Subset
<1>2. /\ \A r \in rows : r.amount \in Nat /\ r.date \in Int /\ (r \in S <=> r.of = "budget")
      /\ range.start \in Int /\ budget.end \in Int
  <2>1. \A x \in Dates : x \in Int
    BY DateFacts
  <2> QED
    BY <2>1 DEF BudgetRows, ProjectionsInv, ProjectionsTyped, RowType
<1>3. (\A r \in U : w[r] \in Int /\ w[r] = v[r]) /\ \A r \in T \ U : w[r] = 0
  BY <1>1, <1>2 DEF BudgetPart, Amounts
<1>4. \A r \in S : r.live
  BY <1>1, <1>2 DEF LiveRows, DeletedSoftly
<1>5. \A r \in S : r \in T <=> r.date <= d /\ r.date >= range.start
  BY <1>1, <1>4 DEF Summing
<1>6. \A r \in S : /\ r.date >= range.start /\ budget.end >= range.start
                   /\ (r.date <= d) <=> (budget.end <= d)
  BY <1>1, <1>2 DEF SpendsAt, LeastOf
<1> HIDE DEF T, S, v, U
<1>7. SumOf(w, T) = SumOf(w, U)
  BY <1>1, <1>3, SumLess DEF U
<1>8. IsFiniteSet(U)
  BY <1>1, FS_Subset DEF U
<1>9. SumOf(w, U) = SumOf(v, U)
  BY <1>3, <1>8, SumSame
<1>10. CASE S = {}
  <2>1. U = {} /\ SumOf(v, {}) = 0
    BY <1>10, SumEmpty DEF U
  <2> QED
    BY <1>1, <1>7, <1>9, <1>10, <2>1 DEF SpentBy, T
<1>11. CASE S # {} /\ budget.end <= d
  <2>1. budget.end >= range.start
    BY <1>6, <1>11
  <2>2. U = S
    BY <1>5, <1>6, <1>11 DEF U
  <2>3. SpentBy(d) = Spent
    BY <1>2, <1>11, <2>1 DEF SpentBy
  <2> QED
    BY <1>1, <1>7, <1>9, <2>2, <2>3 DEF T
<1>12. CASE S # {} /\ ~(budget.end <= d)
  <2>1. U = {} /\ SumOf(v, {}) = 0
    BY <1>5, <1>6, <1>12, SumEmpty DEF U
  <2>2. SpentBy(d) = 0
    BY <1>12 DEF SpentBy
  <2> QED
    BY <1>7, <1>9, <2>1, <2>2 DEF T
<1> QED
  BY <1>10, <1>11, <1>12

LEMMA WorthsSum ==
    ASSUME ProjectionsInv, LiveRows, RoutedRows, range.start # NoDate, NEW d \in Int,
           \A r \in rows : r.account \in Accounts, \A r \in BudgetRows : SpendsAt(d, r)
    PROVE  /\ SumOf(Worths, Summing(d)) = SumOf([r \in Summing(d) |-> Effect(r)], Summing(d)) + SpentBy(d)
           /\ SumOf([r \in Summing(d) |-> Effect(r)], Summing(d)) \in Int
<1> DEFINE T == Summing(d)
           v == [r \in T |-> Effect(r)]
           w == [r \in T |-> BudgetPart(r)]
<1>1. T \in SUBSET rows /\ IsFiniteSet(T)
  <2>1. T \in SUBSET rows /\ IsFiniteSet(rows)
    BY DEF Summing, ProjectionsInv, ProjectionsTyped
  <2> HIDE DEF T
  <2> QED
    BY <2>1, FS_Subset
<1>2. \A r \in rows : r.of = "budget" => ~Excludes(r.account)
  BY DEF BudgetRows, SpendsAt
<1>3. \A r \in T : v[r] \in Int /\ w[r] \in Int /\ Worths[r] = v[r] + w[r]
  BY <1>1, <1>2, WorthIs
<1>4. SumOf(w, T) = SpentBy(d)
  <2>1. \A r \in Summing(d) : w[r] = BudgetPart(r)
    OBVIOUS
  <2> HIDE DEF w
  <2> QED
    BY <2>1, SpentWithin
<1> HIDE DEF v, w, T
<1>5. SumOf(Worths, T) = SumOf(v, T) + SumOf(w, T)
  BY <1>1, <1>3, SumAdd
<1>6. SumOf(v, T) \in Int
  BY <1>1, <1>3, SumInt
<1> QED
  BY <1>4, <1>5, <1>6 DEF v, T

(* What BalancesAgree asks of a row of the projection. *)
AgreesAt(n) ==
    LET built == Projection(today)
        ins == {r \in rows : r.live /\ InPeriod(Head(built), r.date) /\ Sign(r.of, r.to) = 1} IN
    /\ built[n].pay < today
    /\ built[1].start = PreviousPayDate(Schedule("income"), built[1].pay) + 1 \/ ins = {}
    /\ \A r \in BudgetRows : SpendsAt(built[n].pay, r)
    /\ \A r \in rows : r.account \in Accounts

LEMMA IncomesShown ==
    ASSUME ProjectionsInv, NEW n \in DOMAIN Projected, AgreesAt(n), NEW m \in DOMAIN Projected
    PROVE  IncomeShown(Projected[m])
<1> DEFINE p == Projected[1]
           built == Projection(today)
<1>1. CASE m # 1
  BY <1>1, StartsAre DEF IncomeShown
<1>2. CASE m = 1
  <2>1. built # <<>> /\ 1 \in DOMAIN Projected
    <3>1. DOMAIN built = DOMAIN Projected /\ DOMAIN <<>> = {}
      BY RowsShow
    <3> HIDE DEF built
    <3> QED
      BY <1>2, <3>1
  <2>2. /\ Head(built) = built[1] /\ built[1].pay = p.pay /\ built[1].end = p.end
        /\ built[1].start = EffectiveStart(p, range.start)
    BY <2>1, RowsShow
  <2>3. p.start = PreviousPayDate(Schedule("income"), p.pay) + 1
    <3>1. PayPeriod(PayDays, p)
      BY <2>1, RangeFacts, ProjectedFacts, CutFacts
    <3>2. p = PeriodForPayDate(PayDays, p.pay)
      BY <3>1 DEF PayPeriod
    <3>3. PeriodForPayDate(PayDays, p.pay).start = PreviousPayDate(PayDays, p.pay) + 1
      BY DEF PeriodForPayDate
    <3> HIDE DEF p
    <3> QED
      BY <3>2, <3>3 DEF PayDays
  <2>4. \/ built[1].start = PreviousPayDate(Schedule("income"), built[1].pay) + 1
        \/ {r \in rows : r.live /\ InPeriod(Head(built), r.date) /\ Sign(r.of, r.to) = 1} = {}
    BY DEF AgreesAt
  <2> HIDE DEF built, p
  <2>5. CASE built[1].start = PreviousPayDate(Schedule("income"), built[1].pay) + 1
    <3>1. EffectiveStart(p, range.start) = p.start
      BY <2>2, <2>3, <2>5
    <3> QED
      BY <1>2, <3>1 DEF IncomeShown, p
  <2>6. CASE {r \in rows : r.live /\ InPeriod(Head(built), r.date) /\ Sign(r.of, r.to) = 1} = {}
    <3>1. \A r \in rows : r.live /\ InPeriod(built[1], r.date) => Sign(r.of, r.to) # 1
      BY <2>2, <2>6
    <3>2. \A r \in rows : r.live /\ EffectiveStart(p, range.start) <= r.date /\ r.date <= p.end => Sign(r.of, r.to) # 1
      BY <2>2, <3>1 DEF InPeriod
    <3> QED
      BY <1>2, <3>2 DEF IncomeShown, p
  <2> QED
    BY <2>4, <2>5, <2>6
<1> QED
  BY <1>1, <1>2

LEMMA BalanceCarried ==
    ASSUME ProjectionsInv, LiveRows, RoutedRows, range.start # NoDate, NEW n \in DOMAIN Projected, AgreesAt(n)
    PROVE  Projection(today)[n].cumulative = Held(Projection(today)[n].pay)
<1> DEFINE ps == Projected
           lines == LinesOf(ps, range.start, today)
           built == Projection(today)
           d == ps[n].end
           g == SumOf([r \in Summing(d) |-> Effect(r)], Summing(d))
           w == SumOf(Worths, Summing(d))
           f == InitialFreeMoney
           x == SpentBy(d)
<1>1. PayDays \in ScheduleType /\ Cut(PayDays, ps)
  BY RangeFacts, ProjectedFacts
<1>2. Len(ps) \in Nat /\ DOMAIN ps = 1..Len(ps) /\ d \in Int /\ ps[n].pay = d
  BY <1>1, CutFacts, PayPeriodIs
<1>3. Len(lines) = Len(ps) /\ DOMAIN lines = DOMAIN ps
  BY <1>1, LinesAre
<1>4. built = Running(lines, InitialFreeMoney)
  BY DEF Projection, BuildRows, Projected, PayDays
<1>5. PICK u : RunsBy(u, lines, InitialFreeMoney)
  <2> HIDE DEF lines, ps
  <2> QED
    BY <1>2, <1>3, RunningSteps
<1>6. built[n].pay = d
  BY <1>2, RowsShow
<1>7. BalancesTo(u, lines, InitialFreeMoney, Len(ps)) /\ built[n].cumulative = u[n]
  <2>1. BalancesTo(u, lines, InitialFreeMoney, Len(ps))
        /\ built = [i \in 1..Len(ps) |-> RunRow(lines[i], InitialFreeMoney, u[i])]
    BY <1>3, <1>4, <1>5 DEF RunsBy
  <2>2. RunRow(lines[n], InitialFreeMoney, u[n]).cumulative = u[n]
    BY DEF RunRow
  <2> HIDE DEF built, lines
  <2> QED
    BY <1>2, <2>1, <2>2
<1>8. /\ d < today /\ (\A r \in BudgetRows : SpendsAt(d, r)) /\ \A r \in rows : r.account \in Accounts
  BY <1>6 DEF AgreesAt
<1>9. \A m \in 1..n : IncomeShown(ps[m])
  <2>1. 1..n \subseteq DOMAIN ps
    BY <1>2
  <2> QED
    BY <2>1, IncomesShown
<1>10. u[n] = f + w - x /\ x \in Nat /\ w \in Int /\ f \in Int
  BY <1>7, <1>8, <1>9, CarriedOut
<1>11. w = g + x /\ g \in Int
  BY <1>2, <1>8, WorthsSum
<1>12. Held(d) = f + g
  BY <1>8, HeldSums
<1> HIDE DEF f, g, w, x, d, built
<1>13. built[n].cumulative = Held(d)
  BY <1>7, <1>10, <1>11, <1>12
<1> QED
  BY <1>6, <1>13 DEF built

LEMMA InvBalancesAgree == ProjectionsInv /\ LiveRows /\ RoutedRows => BalancesAgree
<1> SUFFICES ASSUME ProjectionsInv, LiveRows, RoutedRows, range.start # NoDate,
                    NEW n \in DOMAIN Projection(today), AgreesAt(n)
             PROVE  Projection(today)[n].cumulative
                      = MapThenSumSet(LAMBDA a : Balance(a, Projection(today)[n].pay),
                                      {a \in Accounts : ~Excludes(a)})
  BY Zenon DEF BalancesAgree, AgreesAt, BudgetRows, SpendsAt
<1>1. n \in DOMAIN Projected
  BY RowsShow
<1>2. Projection(today)[n].cumulative = Held(Projection(today)[n].pay)
  BY <1>1, BalanceCarried
<1> QED
  BY <1>2 DEF Held, Projecting

(* What a projection carries out of a past period is what the counted accounts  *)
(* held that day: the running balance of build_projection_rows and the sums of  *)
(* compute_balances agree, for any rows, exclusions and transfers that          *)
(* BalancesAgree names.                                                     *)
THEOREM HeldAsProjected == Spec => []BalancesAgree
BY ProjectionsInvariant, LiveRowsInvariant, RoutedInvariant, InvBalancesAgree, PTL

-----------------------------------------------------------------------------
(* Reports: the ranges asked for stay within the calendar.                    *)
RangesReached ==
    \A day \in today..(today + days) : \A r \in Reported : RangeReached(PayDays, day - r[1], day + r[2])

LEMMA ReportsInit == Init => RangesReached
<1> SUFFICES ASSUME NEW s \in Scenarios, today = s.today,
                    template = [k \in Templates |-> s.template[k]], days = s.days
             PROVE  RangesReached
  BY DEF Init
<1>1. PayDays = s.template["income"].schedule
  BY DEF PayDays, Schedule, Templates
<1> QED
  BY <1>1, ReportsReach DEF RangesReached

LEMMA ReportsStep ==
    ASSUME ProjectionsInv, RangesReached, [Next]_vars
    PROVE  RangesReached'
<1>0. /\ today \in Int /\ days \in Nat /\ template \in [Templates -> TemplateType]
      /\ "income" \in Templates /\ "income" # "expense"
  BY KindsDiffer DEF ProjectionsInv, ProjectionsTyped
<1>1. PayDays' = PayDays
  <2>1. CASE UNCHANGED template
    BY <2>1 DEF PayDays, Schedule
  <2>2. CASE \E last : EndExpense(last)
    BY <1>0, <2>2 DEF EndExpense, PayDays, Schedule
  <2>3. CASE \E k \in Templates : DeleteTemplate(k)
    <3>1. PICK k \in Templates : DeleteTemplate(k)
      BY <2>3
    <3>2. template' = [template EXCEPT ![k].live = FALSE]
      BY <3>1 DEF DeleteTemplate
    <3>3. template'["income"] = template["income"] \/ template'["income"] = [template["income"] EXCEPT !.live = FALSE]
      BY <1>0, <3>2
    <3>4. template["income"] \in TemplateType
      BY <1>0
    <3>5. template'["income"].schedule = template["income"].schedule
      BY <3>3, <3>4 DEF TemplateType
    <3> QED
      BY <3>5 DEF PayDays, Schedule
  <2> QED
    BY <2>1, <2>2, <2>3 DEF Next, vars, Job, Charge, Tick, Requests, EarlyPayPlanned, EarlyPay, PayPlanned,
       CompleteBudget, MovePlanned, Spend, AddRow, MoveRow, DeleteRow, VoidCharge, ExcludeAccount,
       ArchiveAccount, DeletePlanned
<1>2. today' \in Int /\ days' \in Int /\ today <= today' /\ today' + days' <= today + days
  <2>1. CASE today' = today /\ days' = days
    BY <1>0, <2>1
  <2>2. CASE Tick
    BY <1>0, <2>2 DEF Tick
  <2>3. Job \/ UNCHANGED vars => today' = today /\ days' = days
    BY DEF vars, Job, Charge
  <2>4. Requests => today' = today /\ days' = days
    BY DEF Requests, EarlyPayPlanned, EarlyPay, PayPlanned,
       CompleteBudget, MovePlanned, Spend, AddRow, MoveRow, DeleteRow, VoidCharge, ExcludeAccount,
       ArchiveAccount, DeletePlanned, EndExpense, DeleteTemplate, Others
  <2> QED
    BY <2>1, <2>2, <2>3, <2>4 DEF Next
<1>3. ASSUME NEW day \in today'..(today' + days'), NEW r \in Reported
      PROVE  RangeReached(PayDays', day - r[1], day + r[2])
  <2>1. day \in today..(today + days)
    <3>1. today \in Int /\ days \in Int
      BY <1>0
    <3> QED
      BY <1>2, <3>1, WithinRange
  <2> QED
    BY <1>1, <2>1 DEF RangesReached
<1> QED
  BY <1>3 DEF RangesReached

LEMMA RangesInvariant == Spec => []RangesReached
<1>1. ProjectionsInv /\ RangesReached /\ [Next]_vars => RangesReached'
  BY ReportsStep
<1> QED
  BY <1>1, ReportsInit, ProjectionsInvariant, PTL DEF Spec

(* Parts of a range of days: none is empty or beyond it, and every day is in one. *)
Parts(from, to, P) ==
    /\ IsFiniteSet(P)
    /\ \A b \in P : b.start \in Int /\ b.end \in Int /\ from <= b.start /\ b.start <= b.end /\ b.end <= to
    /\ \A d \in from..to : \E b \in P : InPeriod(b, d)
    /\ \A b, c \in P, d \in Int : InPeriod(b, d) /\ InPeriod(c, d) => b = c

(* Each thing in one part, the sums of the parts add up to the sum.            *)
Splits(T, P, part, w, v) ==
    /\ IsFiniteSet(T) /\ IsFiniteSet(P)
    /\ \A x \in T : w[x] \in Int
    /\ \A p \in P : part[p] \in SUBSET T /\ v[p] = SumOf(w, part[p])
    /\ \A x \in T : \E p \in P : x \in part[p]
    /\ \A x \in T : \A p, q \in P : x \in part[p] /\ x \in part[q] => p = q

LEMMA SumParts ==
    ASSUME NEW T, NEW P, NEW part, NEW w, NEW v, Splits(T, P, part, w, v)
    PROVE  SumOf(v, P) = SumOf(w, T)
<1>0. /\ IsFiniteSet(T) /\ IsFiniteSet(P)
      /\ \A x \in T : w[x] \in Int
      /\ \A p \in P : part[p] \in SUBSET T /\ v[p] = SumOf(w, part[p])
      /\ \A x \in T : \E p \in P : x \in part[p]
      /\ \A x \in T : \A p, q \in P : x \in part[p] /\ x \in part[q] => p = q
  BY DEF Splits
<1> DEFINE c == [p \in P |-> [x \in T |-> IF x \in part[p] THEN w[x] ELSE 0]]
           across == [x \in T |-> [p \in P |-> IF x \in part[p] THEN w[x] ELSE 0]]
<1>1. ASSUME NEW p \in P PROVE v[p] = SumOf(c[p], T)
  <2> DEFINE line == c[p]
  <2>1. /\ \A x \in part[p] : line[x] = w[x] /\ line[x] \in Int
        /\ \A x \in T \ part[p] : line[x] = 0
    BY <1>0
  <2>2. IsFiniteSet(part[p])
    BY <1>0, FS_Subset
  <2> HIDE DEF line, c
  <2>3. SumOf(line, T) = SumOf(line, part[p])
    BY <1>0, <2>1, SumLess
  <2>4. SumOf(line, part[p]) = SumOf(w, part[p])
    BY <1>0, <2>1, <2>2, SumSame
  <2> QED
    BY <1>0, <2>3, <2>4 DEF line
<1>2. ASSUME NEW x \in T PROVE w[x] = SumOf(across[x], P)
  <2> DEFINE line == across[x]
  <2>1. PICK p \in P : x \in part[p]
    BY <1>0
  <2>2. /\ line[p] = w[x] /\ line[p] \in Int
        /\ \A q \in P \ {p} : line[q] = 0
    BY <1>0, <2>1
  <2>3. {p} \in SUBSET P /\ \A q \in {p} : line[q] \in Int
    BY <2>2
  <2> HIDE DEF line, across
  <2>4. SumOf(line, P) = SumOf(line, {p})
    BY <1>0, <2>2, <2>3, SumLess
  <2>5. SumOf(line, {p}) = line[p]
    BY <2>2, SumOne
  <2> QED
    BY <2>2, <2>4, <2>5 DEF line
<1>3. \A p \in P, x \in T : c[p][x] \in Int /\ across[x][p] = c[p][x]
  BY <1>0
<1> HIDE DEF c, across
<1>4. Crosses(P, T, c, across, v, w)
  BY <1>1, <1>2, <1>3 DEF Crosses
<1> QED
  BY <1>0, <1>4, SumByRows

Numbers(f, N, from, to) ==
    /\ IsFiniteSet(N)
    /\ \A n \in N : /\ f[n].start \in Int /\ f[n].end \in Int
                    /\ from <= f[n].start /\ f[n].start <= f[n].end /\ f[n].end <= to
    /\ \A d \in from..to : \E n \in N : InPeriod(f[n], d)
    /\ \A n, m \in N, d \in Int : InPeriod(f[n], d) /\ InPeriod(f[m], d) => n = m

LEMMA PartsNumbered ==
    ASSUME NEW from, NEW to, NEW N, NEW f, Numbers(f, N, from, to)
    PROVE  Parts(from, to, {f[n] : n \in N})
<1> DEFINE P == {f[n] : n \in N}
           g == [n \in N |-> f[n]]
<1>1. g \in Surjection(N, P)
  BY DEF Surjection
<1>2. IsFiniteSet(P)
  <2> HIDE DEF g, P
  <2> QED
    BY <1>1, FS_Surjection DEF Numbers
<1>3. \A b \in P : b.start \in Int /\ b.end \in Int /\ from <= b.start /\ b.start <= b.end /\ b.end <= to
  BY DEF Numbers
<1>4. \A d \in from..to : \E b \in P : InPeriod(b, d)
  BY DEF Numbers
<1>5. ASSUME NEW b \in P, NEW c \in P, NEW d \in Int, InPeriod(b, d), InPeriod(c, d)
      PROVE  b = c
  <2>1. PICK n \in N : b = f[n]
    OBVIOUS
  <2>2. PICK m \in N : c = f[m]
    OBVIOUS
  <2>3. n = m
    BY <1>5, <2>1, <2>2 DEF Numbers
  <2> QED
    BY <2>1, <2>2, <2>3
<1> HIDE DEF P
<1>6. \A b, c \in P, d \in Int : InPeriod(b, d) /\ InPeriod(c, d) => b = c
  BY <1>5
<1> QED
  BY <1>2, <1>3, <1>4, <1>6 DEF Parts, P

LEMMA ClippedIs ==
    ASSUME NEW a, NEW b, NEW from, NEW to
    PROVE  LET c == Clip(PlainPeriod(a, b), from, to) IN
           c.start = GreatestOf(a, from) /\ c.end = LeastOf(b, to)
BY DEF Clip, PlainPeriod

(* The days, weeks or months of a range, cut to it, are parts of it            *)
(* (build_time_buckets).                                                    *)
LEMMA DaysPart ==
    ASSUME NEW from \in Int, NEW to \in Int
    PROVE  Parts(from, to, {PlainPeriod(d, d) : d \in from..to})
<1> DEFINE f == [d \in from..to |-> PlainPeriod(d, d)]
<1>1. \A d \in from..to : f[d].start = d /\ f[d].end = d /\ d \in Int /\ from <= d /\ d <= to
  BY DEF PlainPeriod
<1>2. {PlainPeriod(d, d) : d \in from..to} = {f[d] : d \in from..to}
  OBVIOUS
<1>3. IsFiniteSet(from..to)
  BY FS_Interval
<1> HIDE DEF f
<1>4. /\ \A d \in from..to : \E n \in from..to : InPeriod(f[n], d)
      /\ \A n, m \in from..to, d \in Int : InPeriod(f[n], d) /\ InPeriod(f[m], d) => n = m
  BY <1>1 DEF InPeriod
<1>5. \A n \in from..to : /\ f[n].start \in Int /\ f[n].end \in Int
                          /\ from <= f[n].start /\ f[n].start <= f[n].end /\ f[n].end <= to
  BY <1>1
<1>6. Numbers(f, from..to, from, to)
  BY <1>3, <1>4, <1>5 DEF Numbers
<1>7. Parts(from, to, {f[n] : n \in from..to})
  BY <1>6, PartsNumbered
<1> QED
  BY <1>2, <1>7

LEMMA WeeksPart ==
    ASSUME NEW from \in Nat, NEW to \in Nat, from <= to
    PROVE  LET weeks == {WeekStart(from) + 7 * n : n \in 0..((to - WeekStart(from)) \div 7)} IN
           Parts(from, to, {Clip(PlainPeriod(w, w + 6), from, to) : w \in weeks})
<1> DEFINE w0 == WeekStart(from)
           N == 0..((to - w0) \div 7)
           weeks == {w0 + 7 * n : n \in N}
           f == [n \in N |-> Clip(PlainPeriod(w0 + 7 * n, w0 + 7 * n + 6), from, to)]
<1>1. w0 \in Int /\ w0 <= from /\ from <= w0 + 6
  <2>1. FirstWeekday \in 0..6
    BY ReportsAssumption
  <2>2. (from + FirstWeekday) % 7 \in 0..6
    BY <2>1
  <2> QED
    BY <2>2 DEF WeekStart
<1> HIDE DEF w0
<1>2. /\ (to - w0) \div 7 \in Int
      /\ \A n \in N : n \in Nat /\ w0 + 7 * n <= to
      /\ \A d \in from..to : (d - w0) \div 7 \in N /\ w0 + 7 * ((d - w0) \div 7) <= d
                             /\ d <= w0 + 7 * ((d - w0) \div 7) + 6
  BY <1>1
<1>3. \A n \in N : /\ f[n].start = GreatestOf(w0 + 7 * n, from)
                   /\ f[n].end = LeastOf(w0 + 7 * n + 6, to)
  BY ClippedIs
<1>4. {Clip(PlainPeriod(w, w + 6), from, to) : w \in weeks} = {f[n] : n \in N}
  OBVIOUS
<1>5. IsFiniteSet(N)
  BY <1>2, FS_Interval
<1> HIDE DEF f, N
<1>6. \A n \in N : /\ f[n].start \in Int /\ f[n].end \in Int
                   /\ from <= f[n].start /\ f[n].start <= f[n].end /\ f[n].end <= to
  BY <1>1, <1>2, <1>3 DEF GreatestOf, LeastOf
<1>7. \A n \in N, d \in Int : InPeriod(f[n], d) <=> /\ w0 + 7 * n <= d /\ d <= w0 + 7 * n + 6
                                                   /\ from <= d /\ d <= to
  BY <1>1, <1>2, <1>3 DEF GreatestOf, LeastOf, InPeriod
<1>8. \A d \in from..to : \E n \in N : InPeriod(f[n], d)
  BY <1>2, <1>7
<1>9. \A n, m \in N, d \in Int : InPeriod(f[n], d) /\ InPeriod(f[m], d) => n = m
  BY <1>1, <1>2, <1>7
<1>10. Parts(from, to, {f[n] : n \in N})
  BY <1>5, <1>6, <1>8, <1>9, PartsNumbered DEF Numbers
<1> QED
  BY <1>4, <1>10 DEF w0, N

LEMMA MonthsPart ==
    ASSUME NEW from \in Dates, NEW to \in Dates, from <= to
    PROVE  Parts(from, to, {Clip(PlainPeriod(MonthStart[k], MonthStart[k + 1] - 1), from, to) :
                                k \in MonthOf[from]..MonthOf[to]})
<1> DEFINE N == MonthOf[from]..MonthOf[to]
           Month(k) == Clip(PlainPeriod(MonthStart[k], MonthStart[k + 1] - 1), from, to)
           f == [k \in N |-> Month(k)]
<1>0. ASSUME NEW k PROVE /\ Month(k).start = GreatestOf(MonthStart[k], from)
                         /\ Month(k).end = LeastOf(MonthStart[k + 1] - 1, to)
  BY ClippedIs
<1>1. /\ MonthOf[from] \in MonthIndex /\ MonthStart[MonthOf[from]] <= from /\ from < MonthStart[MonthOf[from] + 1]
      /\ MonthOf[to] \in MonthIndex /\ MonthStart[MonthOf[to]] <= to /\ to < MonthStart[MonthOf[to] + 1]
  BY MonthOfIs
<1>2. from \in Nat /\ to \in Nat /\ MonthOf[from] \in Nat /\ MonthOf[to] \in Nat
  BY <1>1, MonthFacts, DateFacts
<1>3. \A k \in N : k \in MonthIndex /\ k \in Nat /\ MonthOf[from] <= k /\ k <= MonthOf[to]
  BY <1>1, <1>2, MonthFacts DEF MonthIndex
<1>4. \A k \in N : /\ MonthStart[k] \in Nat /\ MonthStart[k + 1] \in Nat /\ MonthStart[k] < MonthStart[k + 1]
                   /\ MonthStart[k] <= to /\ from < MonthStart[k + 1]
  <2> TAKE k \in N
  <2>1. k \in MonthIndex /\ MonthStart[k] \in Nat /\ MonthStart[k + 1] \in Nat /\ MonthStart[k] < MonthStart[k + 1]
    BY <1>3, MonthFacts
  <2>2. MonthStart[k] <= to
    <3>1. CASE k = MonthOf[to]
      BY <1>1, <3>1
    <3>2. CASE k < MonthOf[to]
      <4>1. MonthStart[k + 1] <= MonthStart[MonthOf[to]] /\ MonthStart[MonthOf[to]] \in Nat
        BY <1>1, <2>1, <3>2, MonthFacts
      <4> QED
        BY <1>1, <1>2, <2>1, <4>1
    <3> QED
      BY <1>2, <1>3, <3>1, <3>2
  <2>3. from < MonthStart[k + 1]
    <3>1. CASE k = MonthOf[from]
      BY <1>1, <3>1
    <3>2. CASE MonthOf[from] < k
      <4>1. /\ MonthStart[MonthOf[from] + 1] <= MonthStart[k] /\ MonthStart[MonthOf[from] + 1] \in Nat
        BY <1>1, <2>1, <3>2, MonthFacts
      <4> QED
        BY <1>1, <1>2, <2>1, <4>1
    <3> QED
      BY <1>2, <1>3, <3>1, <3>2
  <2> QED
    BY <2>1, <2>2, <2>3
<1> HIDE DEF Month
<1>5. \A k \in N : /\ f[k].start = GreatestOf(MonthStart[k], from)
                   /\ f[k].end = LeastOf(MonthStart[k + 1] - 1, to)
  BY <1>0
<1>6. {Month(k) : k \in N} = {f[k] : k \in N}
  <2>1. \A k \in N : f[k] = Month(k)
    OBVIOUS
  <2> HIDE DEF f, N
  <2> QED
    BY <2>1
<1>7. IsFiniteSet(N)
  <2>1. MonthOf[from] \in Int /\ MonthOf[to] \in Int
    BY <1>2
  <2> QED
    BY <2>1, FS_Interval
<1>8. \A d \in from..to : d \in Dates /\ MonthOf[d] \in N /\ MonthStart[MonthOf[d]] <= d /\ d < MonthStart[MonthOf[d] + 1]
  <2> TAKE d \in from..to
  <2>1. d \in Dates /\ from <= d /\ d <= to
    BY <1>2, DateFacts
  <2>2. MonthOf[from] <= MonthOf[d] /\ MonthOf[d] <= MonthOf[to]
    BY <2>1, MonthBefore
  <2>3. MonthOf[d] \in Nat /\ MonthStart[MonthOf[d]] <= d /\ d < MonthStart[MonthOf[d] + 1]
    BY <2>1, MonthOfIs, MonthFacts
  <2> QED
    BY <1>2, <2>1, <2>2, <2>3
<1> HIDE DEF f, N
<1>9. \A k \in N : /\ f[k].start \in Int /\ f[k].end \in Int
                   /\ from <= f[k].start /\ f[k].start <= f[k].end /\ f[k].end <= to
  BY <1>2, <1>4, <1>5 DEF GreatestOf, LeastOf
<1>10. \A k \in N, d \in Int : InPeriod(f[k], d) <=> /\ MonthStart[k] <= d /\ d < MonthStart[k + 1]
                                                    /\ from <= d /\ d <= to
  BY <1>2, <1>4, <1>5 DEF GreatestOf, LeastOf, InPeriod
<1>11. \A d \in from..to : \E k \in N : InPeriod(f[k], d)
  <2> TAKE d \in from..to
  <2>1. d \in Int /\ from <= d /\ d <= to /\ MonthOf[d] \in N /\ InPeriod(f[MonthOf[d]], d)
    BY <1>2, <1>8, <1>10
  <2> QED
    BY <2>1
<1>12. \A n, m \in N, d \in Int : InPeriod(f[n], d) /\ InPeriod(f[m], d) => n = m
  <2> SUFFICES ASSUME NEW n \in N, NEW m \in N, NEW d \in Int, InPeriod(f[n], d), InPeriod(f[m], d)
               PROVE  n = m
    OBVIOUS
  <2>1. /\ from <= d /\ d <= to /\ MonthStart[n] <= d /\ d < MonthStart[n + 1]
        /\ MonthStart[m] <= d /\ d < MonthStart[m + 1]
    BY <1>10
  <2>2. d \in Dates
    BY <1>2, <1>8, <2>1
  <2>3. MonthOf[d] = n /\ MonthOf[d] = m
    BY <1>3, <2>1, <2>2, MonthOfUnique
  <2> QED
    BY <2>3
<1>13. Numbers(f, N, from, to)
  BY <1>7, <1>9, <1>11, <1>12 DEF Numbers
<1>14. Parts(from, to, {f[n] : n \in N})
  BY <1>13, PartsNumbered
<1> QED
  BY <1>6, <1>14 DEF N, Month

LEMMA BucketsPart ==
    ASSUME NEW from \in Dates, NEW to \in Dates, from <= to
    PROVE  Parts(from, to, Buckets(from, to))
<1>1. from \in Nat /\ to \in Nat
  BY DateFacts
<1> DEFINE by == Granularity(DayCount(from, to))
<1>2. by \in {"day", "week", "month"}
  BY DEF Granularity
<1>3. CASE by = "day"
  BY <1>1, <1>3, DaysPart DEF Buckets
<1>4. CASE by = "week"
  BY <1>1, <1>4, WeeksPart DEF Buckets
<1>5. CASE by = "month"
  BY <1>1, <1>5, MonthsPart DEF Buckets
<1> QED
  BY <1>2, <1>3, <1>4, <1>5

(* The amounts of things with a date, by parts of a range of days.            *)
Dated(R) == IsFiniteSet(R) /\ \A r \in R : r.date \in Int /\ r.amount \in Int
InPart(R, b) == {r \in R : InPeriod(b, r.date)}

LEMMA PartsTotal ==
    ASSUME NEW R, Dated(R), NEW from \in Int, NEW to \in Int, NEW P, Parts(from, to, P),
           NEW v, \A b \in P : v[b] = Total(InPart(R, b))
    PROVE  /\ SumOf(v, P) = Total(InPart(R, PlainPeriod(from, to)))
           /\ \A b \in P : v[b] \in Int
<1> DEFINE T == InPart(R, PlainPeriod(from, to))
           w == Amounts(R)
           part == [b \in P |-> InPart(R, b)]
<1>1. /\ \A b \in P : b.start \in Int /\ b.end \in Int /\ from <= b.start /\ b.start <= b.end /\ b.end <= to
      /\ \A d \in from..to : \E b \in P : InPeriod(b, d)
      /\ \A b, c \in P, d \in Int : InPeriod(b, d) /\ InPeriod(c, d) => b = c
      /\ IsFiniteSet(P)
  BY DEF Parts
<1>2. \A d \in Int : InPeriod(PlainPeriod(from, to), d) <=> d \in from..to
  BY DEF InPeriod, PlainPeriod
<1>3. /\ T \in SUBSET R /\ \A r \in R : r \in T <=> r.date \in from..to
      /\ \A r \in R : r.date \in Int /\ r.amount \in Int /\ w[r] = r.amount
  BY <1>2 DEF InPart, Dated, Amounts
<1>4. ASSUME NEW S \in SUBSET R PROVE IsFiniteSet(S) /\ Total(S) = SumOf(w, S) /\ SumOf(w, S) \in Int
  <2>1. IsFiniteSet(S)
    BY FS_Subset DEF Dated
  <2>2. Total(S) = SumOf(Amounts(S), S)
    BY <2>1, TotalIs
  <2>3. \A x \in S : Amounts(S)[x] = w[x] /\ w[x] \in Int
    BY <1>3 DEF Amounts
  <2>4. SumOf(Amounts(S), S) = SumOf(w, S)
    BY <2>1, <2>3, SumSame
  <2>5. SumOf(w, S) \in Int
    <3> HIDE DEF w
    <3> QED
      BY <2>1, <2>3, SumInt
  <2> QED
    BY <2>1, <2>2, <2>4, <2>5
<1>5. \A b \in P : part[b] = InPart(R, b) /\ part[b] \in SUBSET R
                   /\ \A r \in R : r \in part[b] <=> InPeriod(b, r.date)
  BY DEF InPart
<1> HIDE DEF T, w, part
<1>6. \A b \in P : part[b] \in SUBSET T /\ v[b] = SumOf(w, part[b]) /\ v[b] \in Int
  <2> TAKE b \in P
  <2>1. part[b] \in SUBSET R
    BY <1>5
  <2>2. Total(part[b]) = SumOf(w, part[b]) /\ SumOf(w, part[b]) \in Int
    BY <1>4, <2>1
  <2>3. ASSUME NEW r \in part[b] PROVE r \in T
    <3>1. r \in R /\ InPeriod(b, r.date) /\ r.date \in Int
      BY <1>3, <1>5, <2>1
    <3>2. b.start \in Int /\ b.end \in Int /\ from <= b.start /\ b.end <= to
      BY <1>1
    <3>3. r.date \in from..to
      BY <3>1, <3>2 DEF InPeriod
    <3> QED
      BY <1>3, <3>1, <3>3
  <2> QED
    BY <1>5, <2>2, <2>3
<1>7. \A x \in T : \E b \in P : x \in part[b]
  <2> TAKE x \in T
  <2>1. x \in R /\ x.date \in from..to
    BY <1>3
  <2>2. PICK b \in P : InPeriod(b, x.date)
    BY <1>1, <2>1
  <2> QED
    BY <1>5, <2>1, <2>2
<1>8. \A x \in T : \A p, q \in P : x \in part[p] /\ x \in part[q] => p = q
  <2> SUFFICES ASSUME NEW x \in T, NEW p \in P, NEW q \in P, x \in part[p], x \in part[q]
               PROVE  p = q
    OBVIOUS
  <2>1. x \in R /\ x.date \in Int /\ InPeriod(p, x.date) /\ InPeriod(q, x.date)
    BY <1>3, <1>5
  <2> QED
    BY <1>1, <2>1
<1>9. IsFiniteSet(T) /\ Total(T) = SumOf(w, T) /\ \A x \in T : w[x] \in Int
  BY <1>3, <1>4
<1>10. Splits(T, P, part, w, v)
  BY <1>1, <1>6, <1>7, <1>8, <1>9 DEF Splits
<1>11. SumOf(v, P) = SumOf(w, T)
  BY <1>10, SumParts
<1> QED
  BY <1>6, <1>9, <1>11 DEF T

(* A sum of ones counts.                                                    *)
LEMMA SumOnes ==
    ASSUME NEW S, IsFiniteSet(S), NEW w, \A x \in S : w[x] = 1
    PROVE  SumOf(w, S) = Cardinality(S)
<1> DEFINE Bad == {s \in SUBSET S : SumOf(w, s) # Cardinality(s)}
<1> SUFFICES ASSUME Bad # {} PROVE FALSE
  OBVIOUS
<1>1. Bad \in SUBSET FiniteSubsetsOf(S)
  BY SubsetsFinite
<1>2. PICK s \in Bad : \A t \in Bad : ~(t \subseteq s /\ t # s)
  <2> HIDE DEF Bad
  <2> QED
    BY <1>1, Smallest
<1>3. s \in SUBSET S /\ SumOf(w, s) # Cardinality(s) /\ IsFiniteSet(s)
  BY <1>2, SubsetsFinite
<1>4. CASE s = {}
  BY <1>3, <1>4, SumEmpty, FS_EmptySet
<1>5. CASE s # {}
  <2>1. PICK x \in s : TRUE
    BY <1>5
  <2> DEFINE r == s \ {x}
  <2>2. r \in SUBSET S /\ r \subseteq s /\ r # s
    BY <1>3, <2>1
  <2>3. SumOf(w, r) = Cardinality(r)
    BY <1>2, <2>2
  <2>4. Cardinality(r) = Cardinality(s) - 1 /\ Cardinality(s) \in Nat
    BY <1>3, <2>1, FS_RemoveElement, FS_CardinalityType
  <2>5. SumOf(w, s) = w[x] + SumOf(w, r)
    <3>1. \A y \in s : w[y] \in Int
      BY <1>3
    <3> QED
      BY <1>3, <2>1, <3>1, SumTake
  <2>6. w[x] = 1
    BY <1>3, <2>1
  <2> HIDE DEF r, Bad
  <2>7. SumOf(w, s) = Cardinality(s)
    BY <2>3, <2>4, <2>5, <2>6
  <2> QED
    BY <1>3, <2>7
<1> QED
  BY <1>4, <1>5

(* The days of the parts are those of the range, each counted once.           *)
LEMMA PartsDays ==
    ASSUME NEW from \in Int, NEW to \in Int, from <= to, NEW P, Parts(from, to, P),
           NEW v, \A b \in P : v[b] = DayCount(b.start, b.end)
    PROVE  SumOf(v, P) = DayCount(from, to) /\ \A b \in P : v[b] \in Int
<1> DEFINE T == from..to
           w == [d \in T |-> 1]
           part == [b \in P |-> b.start..b.end]
<1>1. /\ \A b \in P : b.start \in Int /\ b.end \in Int /\ from <= b.start /\ b.start <= b.end /\ b.end <= to
      /\ \A d \in from..to : \E b \in P : InPeriod(b, d)
      /\ \A b, c \in P, d \in Int : InPeriod(b, d) /\ InPeriod(c, d) => b = c
      /\ IsFiniteSet(P)
  BY DEF Parts
<1>2. ASSUME NEW a \in Int, NEW c \in Int, a <= c, from <= a, c <= to
      PROVE  SumOf(w, a..c) = c - a + 1
  <2>1. IsFiniteSet(a..c) /\ Cardinality(a..c) = c - a + 1
    BY <1>2, FS_Interval
  <2>2. \A d \in a..c : w[d] = 1
    BY <1>2
  <2> HIDE DEF w
  <2> QED
    BY <2>1, <2>2, SumOnes
<1>3. \A b \in P : part[b] = b.start..b.end /\ \A d \in Int : d \in part[b] <=> InPeriod(b, d)
  BY <1>1 DEF InPeriod
<1>4. IsFiniteSet(T) /\ \A d \in T : w[d] \in Int /\ d \in Int
  BY FS_Interval
<1> HIDE DEF w
<1>5. \A b \in P : part[b] \in SUBSET T /\ v[b] = SumOf(w, part[b]) /\ v[b] \in Int
  <2> TAKE b \in P
  <2>1. b.start \in Int /\ b.end \in Int /\ from <= b.start /\ b.start <= b.end /\ b.end <= to
    BY <1>1
  <2>2. SumOf(w, b.start..b.end) = b.end - b.start + 1
    BY <1>2, <2>1
  <2>3. part[b] \in SUBSET T
    BY <2>1
  <2> QED
    BY <1>3, <2>1, <2>2, <2>3 DEF DayCount
<1>6. SumOf(w, T) = DayCount(from, to)
  BY <1>2 DEF DayCount
<1> HIDE DEF T, part
<1>7. \A x \in T : \E b \in P : x \in part[b]
  BY <1>1, <1>3, <1>4 DEF T
<1>8. \A x \in T : \A p, q \in P : x \in part[p] /\ x \in part[q] => p = q
  BY <1>1, <1>3, <1>4
<1>9. SumOf(v, P) = SumOf(w, T)
  <2>1. Splits(T, P, part, w, v)
    BY <1>1, <1>4, <1>5, <1>7, <1>8 DEF Splits
  <2> QED
    BY <2>1, SumParts
<1> QED
  BY <1>5, <1>6, <1>9 DEF T

LEMMA PartsCover ==
    ASSUME NEW from \in Int, NEW to \in Int, NEW P, Parts(from, to, P)
    PROVE  UNION {b.start..b.end : b \in P} = from..to
<1>1. \A b \in P : b.start..b.end \subseteq from..to
  BY DEF Parts
<1>2. \A d \in from..to : \E b \in P : d \in b.start..b.end
  BY DEF Parts, InPeriod
<1> QED
  BY <1>1, <1>2

(* The rows of a report are live, or of a kind that is; each has a date and an  *)
(* amount (compute_kpis).                                                   *)
Earned == {r \in rows : r.of \in {"income", "earning"} /\ r.live}
SpentRows == {r \in rows : r.of \in Spendings}
Extras == {r \in rows : r.of \in Spendings /\ r.of = "spending"}

LEMMA ReportRows ==
    ASSUME ProjectionsInv
    PROVE  /\ Dated(Earned) /\ Dated(SpentRows) /\ Dated(Extras)
           /\ \A R, S, p : Dated(R) /\ S = InPart(R, p) => IsFiniteSet(S) /\ Total(S) \in Int
<1>1. rows \subseteq RowType /\ IsFiniteSet(rows)
  BY DEF ProjectionsInv, ProjectionsTyped
<1>2. \A r \in rows : r.date \in Int /\ r.amount \in Int
  BY <1>1 DEF RowType
<1>3. \A S \in SUBSET rows : Dated(S)
  BY <1>1, <1>2, FS_Subset DEF Dated
<1>4. Earned \in SUBSET rows /\ SpentRows \in SUBSET rows /\ Extras \in SUBSET rows
  BY DEF Earned, SpentRows, Extras
<1>5. ASSUME NEW R, NEW S, NEW p, Dated(R), S = InPart(R, p)
      PROVE  IsFiniteSet(S) /\ Total(S) \in Int
  <2>1. S \in SUBSET R
    BY <1>5 DEF InPart
  <2>2. IsFiniteSet(S)
    BY <1>5, <2>1, FS_Subset DEF Dated
  <2>3. \A c \in S : c.amount \in Int
    BY <1>5, <2>1 DEF Dated
  <2> QED
    BY <2>2, <2>3, TotalInt
<1>6. \A R, S, p : Dated(R) /\ S = InPart(R, p) => IsFiniteSet(S) /\ Total(S) \in Int
  BY <1>5
<1> QED
  BY <1>3, <1>4, <1>6

LEMMA KpisAre ==
    ASSUME NEW p
    PROVE  /\ IncomeRows(p) = InPart(Earned, p) /\ SpendingRows(p) = InPart(SpentRows, p)
           /\ Kpis(p) = [income |-> Total(InPart(Earned, p)), expenses |-> Total(InPart(SpentRows, p)),
                         extra |-> ExtraSpent(p),
                         count |-> Cardinality(InPart(Earned, p)) + Cardinality(InPart(SpentRows, p))]
           /\ ExtraSpent(p) = Total(InPart(Extras, p))
<1>1. IncomeRows(p) = InPart(Earned, p)
  BY DEF IncomeRows, InPart, Earned
<1>2. SpendingRows(p) = InPart(SpentRows, p)
  BY DEF SpendingRows, InPart, SpentRows
<1>3. {r \in SpendingRows(p) : r.of = "spending"} = InPart(Extras, p)
  BY DEF SpendingRows, InPart, Extras
<1>4. ExtraSpent(p) = Total(InPart(Extras, p))
  BY <1>3 DEF ExtraSpent, Total
<1>5. Kpis(p) = [income |-> Total(IncomeRows(p)), expenses |-> Total(SpendingRows(p)),
                 extra |-> ExtraSpent(p),
                 count |-> Cardinality(IncomeRows(p)) + Cardinality(SpendingRows(p))]
  BY DEF Kpis, Total
<1> QED
  BY <1>1, <1>2, <1>4, <1>5

(* Sums of what a series has in each of its buckets.                         *)
LEMMA IncomeSum ==
    ASSUME NEW S, IsFiniteSet(S)
    PROVE  MapThenSumSet(LAMBDA b : b.income, S) = SumOf([b \in S |-> b.income], S)
<1> DEFINE w == [b \in S |-> b.income]
           Weighs(f) == f = [s \in SUBSET S |-> IF s = {} THEN 0 ELSE Chosen(s).income + f[s \ {Chosen(s)}]]
           total == CHOOSE f : Weighs(f)
<1>1. MapThenSumSet(LAMBDA b : b.income, S) = total[S]
  BY DEF MapThenSumSet, MapThenFoldSet, Chosen
<1>2. \A s \in SUBSET S : s # {} => w[Chosen(s)] = Chosen(s).income
  BY SubsetsFinite
<1> HIDE DEF w
<1>3. ASSUME NEW f PROVE Weighs(f) <=> Folds(f, S, w)
  <2>1. \A s \in SUBSET S : (IF s = {} THEN 0 ELSE Chosen(s).income + f[s \ {Chosen(s)}])
                           = (IF s = {} THEN 0 ELSE w[Chosen(s)] + f[s \ {Chosen(s)}])
    BY <1>2
  <2> QED
    BY <2>1 DEF Folds
<1>4. \E f : Folds(f, S, w)
  BY FoldExists
<1> HIDE DEF Weighs
<1>5. Weighs(total)
  BY <1>3, <1>4
<1>6. Folds(total, S, w)
  BY <1>3, <1>5
<1> HIDE DEF total
<1>7. total[S] = SumOf(w, S)
  BY <1>6, FoldIs
<1> QED
  BY <1>1, <1>7 DEF w

LEMMA ExpensesSum ==
    ASSUME NEW S, IsFiniteSet(S)
    PROVE  MapThenSumSet(LAMBDA b : b.expenses, S) = SumOf([b \in S |-> b.expenses], S)
<1> DEFINE w == [b \in S |-> b.expenses]
           Weighs(f) == f = [s \in SUBSET S |-> IF s = {} THEN 0 ELSE Chosen(s).expenses + f[s \ {Chosen(s)}]]
           total == CHOOSE f : Weighs(f)
<1>1. MapThenSumSet(LAMBDA b : b.expenses, S) = total[S]
  BY DEF MapThenSumSet, MapThenFoldSet, Chosen
<1>2. \A s \in SUBSET S : s # {} => w[Chosen(s)] = Chosen(s).expenses
  BY SubsetsFinite
<1> HIDE DEF w
<1>3. ASSUME NEW f PROVE Weighs(f) <=> Folds(f, S, w)
  <2>1. \A s \in SUBSET S : (IF s = {} THEN 0 ELSE Chosen(s).expenses + f[s \ {Chosen(s)}])
                           = (IF s = {} THEN 0 ELSE w[Chosen(s)] + f[s \ {Chosen(s)}])
    BY <1>2
  <2> QED
    BY <2>1 DEF Folds
<1>4. \E f : Folds(f, S, w)
  BY FoldExists
<1> HIDE DEF Weighs
<1>5. Weighs(total)
  BY <1>3, <1>4
<1>6. Folds(total, S, w)
  BY <1>3, <1>5
<1> HIDE DEF total
<1>7. total[S] = SumOf(w, S)
  BY <1>6, FoldIs
<1> QED
  BY <1>1, <1>7 DEF w

LEMMA DaysSum ==
    ASSUME NEW S, IsFiniteSet(S)
    PROVE  MapThenSumSet(LAMBDA b : DayCount(b.start, b.end), S) = SumOf([b \in S |-> DayCount(b.start, b.end)], S)
<1> DEFINE w == [b \in S |-> DayCount(b.start, b.end)]
           Weighs(f) == f = [s \in SUBSET S |-> IF s = {} THEN 0 ELSE DayCount(Chosen(s).start, Chosen(s).end) + f[s \ {Chosen(s)}]]
           total == CHOOSE f : Weighs(f)
<1>1. MapThenSumSet(LAMBDA b : DayCount(b.start, b.end), S) = total[S]
  BY DEF MapThenSumSet, MapThenFoldSet, Chosen
<1>2. \A s \in SUBSET S : s # {} => w[Chosen(s)] = DayCount(Chosen(s).start, Chosen(s).end)
  BY SubsetsFinite
<1> HIDE DEF w
<1>3. ASSUME NEW f PROVE Weighs(f) <=> Folds(f, S, w)
  <2>1. \A s \in SUBSET S : (IF s = {} THEN 0 ELSE DayCount(Chosen(s).start, Chosen(s).end) + f[s \ {Chosen(s)}])
                           = (IF s = {} THEN 0 ELSE w[Chosen(s)] + f[s \ {Chosen(s)}])
    BY <1>2
  <2> QED
    BY <2>1 DEF Folds
<1>4. \E f : Folds(f, S, w)
  BY FoldExists
<1> HIDE DEF Weighs
<1>5. Weighs(total)
  BY <1>3, <1>4
<1>6. Folds(total, S, w)
  BY <1>3, <1>5
<1> HIDE DEF total
<1>7. total[S] = SumOf(w, S)
  BY <1>6, FoldIs
<1> QED
  BY <1>1, <1>7 DEF w

(* What a series has, it has of its buckets, once each.                      *)
Lists(h, v, w, P) ==
    \A b \in P : /\ h[b].start = b.start /\ h[b].end = b.end
                /\ w[b] \in Int /\ v[h[b]] = w[b]

LEMMA SeriesSums ==
    ASSUME NEW from, NEW to, NEW P, Parts(from, to, P), NEW h, NEW v, NEW w, Lists(h, v, w, P)
    PROVE  SumOf(v, {h[b] : b \in P}) = SumOf(w, P)
<1>0. \A b \in P : /\ h[b].start = b.start /\ h[b].end = b.end
                  /\ w[b] \in Int /\ v[h[b]] = w[b]
  BY DEF Lists
<1>1. ASSUME NEW b \in P, NEW c \in P, h[b] = h[c] PROVE b = c
  <2>1. /\ b.start \in Int /\ b.end \in Int /\ b.start <= b.end
        /\ c.start = b.start /\ c.end = b.end
    BY <1>0, <1>1 DEF Parts
  <2>2. InPeriod(b, b.start) /\ InPeriod(c, b.start)
    BY <2>1 DEF InPeriod
  <2> QED
    BY <2>1, <2>2 DEF Parts
<1>2. IsFiniteSet(P)
  BY DEF Parts
<1>3. \A b, c \in P : h[b] = h[c] => b = c
  BY <1>1
<1>4. \A x \in P : w[x] \in Int /\ v[h[x]] = w[x]
  BY <1>0
<1> QED
  BY <1>2, <1>3, <1>4, SumImage

LEMMA SeriesAddsUp ==
    ASSUME ProjectionsInv, NEW from \in Dates, NEW to \in Dates, from <= to
    PROVE  LET series == TimeSeries(from, to)
               whole == PlainPeriod(from, to) IN
           /\ UNION {b.start..b.end : b \in series} = from..to
           /\ MapThenSumSet(LAMBDA b : DayCount(b.start, b.end), series) = DayCount(from, to)
           /\ MapThenSumSet(LAMBDA b : b.income, series) = Kpis(whole).income
           /\ MapThenSumSet(LAMBDA b : b.expenses, series) = Kpis(whole).expenses
<1> DEFINE P == Buckets(from, to)
           series == TimeSeries(from, to)
           whole == PlainPeriod(from, to)
           Of(b) == [start |-> b.start, end |-> b.end, income |-> Kpis(b).income, expenses |-> Kpis(b).expenses]
           h == [b \in P |-> Of(b)]
           earned == [b \in P |-> Total(InPart(Earned, b))]
           spent == [b \in P |-> Total(InPart(SpentRows, b))]
           lasting == [b \in P |-> DayCount(b.start, b.end)]
           income == [x \in series |-> x.income]
           expenses == [x \in series |-> x.expenses]
           length == [x \in series |-> DayCount(x.start, x.end)]
<1>1. from \in Int /\ to \in Int
  BY DateFacts
<1>2. Parts(from, to, P)
  BY BucketsPart
<1>3. series = {Of(b) : b \in P}
  BY DEF TimeSeries
<1>4. \A b : /\ Of(b).start = b.start /\ Of(b).end = b.end
             /\ Of(b).income = Total(InPart(Earned, b)) /\ Of(b).expenses = Total(InPart(SpentRows, b))
  BY KpisAre
<1> HIDE DEF Of, P, series
<1>5. series = {h[b] : b \in P} /\ \A b \in P : h[b] \in series /\ h[b] = Of(b)
  BY <1>3
<1>6. \A b \in P : /\ h[b].start = b.start /\ h[b].end = b.end
                   /\ income[h[b]] = earned[b] /\ expenses[h[b]] = spent[b] /\ length[h[b]] = lasting[b]
  BY <1>4, <1>5
<1>7. /\ \A b \in P : earned[b] = Total(InPart(Earned, b))
      /\ \A b \in P : spent[b] = Total(InPart(SpentRows, b))
      /\ \A b \in P : lasting[b] = DayCount(b.start, b.end)
  OBVIOUS
<1> HIDE DEF h, earned, spent, lasting
<1>8. IsFiniteSet(series)
  <2> DEFINE g == [b \in P |-> h[b]]
  <2>1. g \in Surjection(P, series)
    BY <1>5 DEF Surjection
  <2> HIDE DEF g
  <2> QED
    BY <1>2, <2>1, FS_Surjection DEF Parts
<1>9. /\ MapThenSumSet(LAMBDA b : b.income, series) = SumOf(income, series)
      /\ MapThenSumSet(LAMBDA b : b.expenses, series) = SumOf(expenses, series)
      /\ MapThenSumSet(LAMBDA b : DayCount(b.start, b.end), series) = SumOf(length, series)
  BY <1>8, IncomeSum, ExpensesSum, DaysSum
<1> HIDE DEF income, expenses, length
<1>10. SumOf(earned, P) = Total(InPart(Earned, whole)) /\ \A b \in P : earned[b] \in Int
  BY <1>1, <1>2, <1>7, ReportRows, PartsTotal
<1>11. SumOf(spent, P) = Total(InPart(SpentRows, whole)) /\ \A b \in P : spent[b] \in Int
  BY <1>1, <1>2, <1>7, ReportRows, PartsTotal
<1>12. SumOf(lasting, P) = DayCount(from, to) /\ \A b \in P : lasting[b] \in Int
  BY <1>1, <1>2, <1>7, PartsDays
<1>13. SumOf(income, series) = SumOf(earned, P)
  <2>1. Lists(h, income, earned, P)
    BY <1>6, <1>10 DEF Lists
  <2> QED
    BY <1>2, <1>5, <2>1, SeriesSums
<1>14. SumOf(expenses, series) = SumOf(spent, P)
  <2>1. Lists(h, expenses, spent, P)
    BY <1>6, <1>11 DEF Lists
  <2> QED
    BY <1>2, <1>5, <2>1, SeriesSums
<1>15. SumOf(length, series) = SumOf(lasting, P)
  <2>1. Lists(h, length, lasting, P)
    BY <1>6, <1>12 DEF Lists
  <2> QED
    BY <1>2, <1>5, <2>1, SeriesSums
<1>16. UNION {b.start..b.end : b \in series} = from..to
  <2>1. \A b \in series : \E c \in P : b.start = c.start /\ b.end = c.end
    BY <1>5, <1>6
  <2>2. \A c \in P : \E b \in series : b.start = c.start /\ b.end = c.end
    BY <1>5, <1>6
  <2>3. UNION {b.start..b.end : b \in series} = UNION {b.start..b.end : b \in P}
    BY <2>1, <2>2
  <2> QED
    BY <1>1, <1>2, <2>3, PartsCover
<1>17. Kpis(whole).income = Total(InPart(Earned, whole)) /\ Kpis(whole).expenses = Total(InPart(SpentRows, whole))
  BY KpisAre
<1> QED
  BY <1>9, <1>10, <1>11, <1>12, <1>13, <1>14, <1>15, <1>16, <1>17 DEF series

(* A fold over a sequence takes its last element first; the sum is the same.  *)
LEMMA FoldLeftSums ==
    ASSUME NEW q, NEW n \in Nat, DOMAIN q = 1..n, \A i \in 1..n : q[i] \in Int
    PROVE  FoldLeft(LAMBDA x, y : x + y, 0, q) = SumOf(q, 1..n)
<1> DEFINE S == 1..n
           Latest(s) == CHOOSE x \in s : \A y \in s : x >= y
           Weighs(f) == f = [s \in SUBSET S |-> IF s = {} THEN 0 ELSE f[s \ {Latest(s)}] + q[Latest(s)]]
           total == CHOOSE f : Weighs(f)
           g == [s \in SUBSET S |-> SumOf(q, s)]
<1>1. FoldLeft(LAMBDA x, y : x + y, 0, q) = total[S]
  BY DEF FoldLeft, MapThenFoldSet, Max
<1>2. ASSUME NEW s \in SUBSET S, s # {}
      PROVE  Latest(s) \in s
  <2> DEFINE back == {n - x : x \in s}
  <2>1. back \in SUBSET Nat /\ back # {}
    <3>1. \A x \in s : x \in 1..n
      BY <1>2
    <3>2. \A x \in s : n - x \in Nat
      BY <3>1
    <3>3. PICK x \in s : TRUE
      BY <1>2
    <3> QED
      BY <3>2, <3>3
  <2>2. PICK m \in back : \A k \in back : m <= k
    <3> HIDE DEF back
    <3> QED
      BY <2>1, Least
  <2>3. PICK x \in s : m = n - x
    OBVIOUS
  <2>4. \A y \in s : n - y \in back /\ y \in Int
    OBVIOUS
  <2>5. \A y \in s : x >= y
    <3> TAKE y \in s
    <3>1. m <= n - y /\ x \in Int /\ y \in Int
      BY <2>2, <2>4
    <3> QED
      BY <2>3, <3>1
  <2> QED
    BY <2>5
<1>3. IsFiniteSet(S)
  BY FS_Interval
<1> HIDE DEF Latest
<1>4. ASSUME NEW s \in SUBSET S
      PROVE  SumOf(q, s) = IF s = {} THEN 0 ELSE SumOf(q, s \ {Latest(s)}) + q[Latest(s)]
  <2>1. CASE s = {}
    BY <2>1, SumEmpty
  <2>2. CASE s # {}
    <3> DEFINE x == Latest(s)
               r == s \ {x}
    <3>1. x \in s /\ IsFiniteSet(s) /\ IsFiniteSet(r)
      BY <1>2, <1>3, <2>2, FS_Subset
    <3>2. \A i \in s : q[i] \in Int
      OBVIOUS
    <3> HIDE DEF x
    <3>3. SumOf(q, s) = q[x] + SumOf(q, r)
      <4>1. x \in s /\ IsFiniteSet(s)
        BY <3>1
      <4>2. \A c \in s : SumOf(q, s) = q[c] + SumOf(q, s \ {c})
        BY <3>2, <4>1, SumTake
      <4> QED
        BY <4>1, <4>2
    <3>4. SumOf(q, r) \in Int
      <4>1. \A i \in r : q[i] \in Int
        BY <3>2
      <4> HIDE DEF r
      <4> QED
        BY <3>1, <4>1, SumInt
    <3> DEFINE a == SumOf(q, r)
    <3>5. q[x] \in Int /\ a \in Int /\ SumOf(q, s) = q[x] + a
      BY <3>1, <3>2, <3>3, <3>4
    <3> HIDE DEF a
    <3>6. SumOf(q, s) = a + q[x]
      BY <3>5
    <3> QED
      BY <2>2, <3>6 DEF a, x
  <2> QED
    BY <2>1, <2>2
<1>5. Weighs(g)
  <2>1. \A s \in SUBSET S : g[s] = SumOf(q, s) /\ (s # {} => s \ {Latest(s)} \in SUBSET S)
    OBVIOUS
  <2>2. \A s \in SUBSET S : SumOf(q, s) = IF s = {} THEN 0 ELSE g[s \ {Latest(s)}] + q[Latest(s)]
    <3> TAKE s \in SUBSET S
    <3>1. s # {} => g[s \ {Latest(s)}] = SumOf(q, s \ {Latest(s)})
      OBVIOUS
    <3> HIDE DEF g
    <3> QED
      BY <1>4, <3>1
  <2> QED
    BY <2>2
<1> HIDE DEF g
<1>6. Weighs(total)
  <2> HIDE DEF Weighs
  <2> QED
    BY <1>5
<1>7. total[S] = g[S]
  <2> DEFINE Bad == {s \in SUBSET S : total[s] # g[s]}
  <2> SUFFICES ASSUME Bad # {} PROVE FALSE
    OBVIOUS
  <2>1. Bad \in SUBSET FiniteSubsetsOf(S)
    BY <1>3, SubsetsFinite
  <2>2. PICK s \in Bad : \A t \in Bad : ~(t \subseteq s /\ t # s)
    <3> HIDE DEF Bad
    <3> QED
      BY <2>1, Smallest
  <2>3. s \in SUBSET S /\ total[s] # g[s]
    OBVIOUS
  <2>4. /\ total[s] = IF s = {} THEN 0 ELSE total[s \ {Latest(s)}] + q[Latest(s)]
        /\ g[s] = IF s = {} THEN 0 ELSE g[s \ {Latest(s)}] + q[Latest(s)]
    <3> HIDE DEF total
    <3> QED
      BY <1>5, <1>6, <2>3
  <2> DEFINE r == s \ {Latest(s)}
  <2>5. s # {} => r \in SUBSET S /\ r \subseteq s /\ r # s
    BY <1>2, <2>3
  <2>6. s # {} => total[r] = g[r]
    <3> HIDE DEF total, r
    <3> QED
      BY <2>2, <2>5
  <2> HIDE DEF total, Bad
  <2> QED
    BY <2>3, <2>4, <2>6
<1> QED
  BY <1>1, <1>7 DEF g

LEMMA NumbersTotal ==
    ASSUME NEW R, Dated(R), NEW from \in Int, NEW to \in Int, NEW N, NEW f, Numbers(f, N, from, to),
           NEW q, \A n \in N : q[n] = Total(InPart(R, f[n]))
    PROVE  SumOf(q, N) = Total(InPart(R, PlainPeriod(from, to)))
<1> DEFINE P == {f[n] : n \in N}
           v == [b \in P |-> Total(InPart(R, b))]
<1>1. Parts(from, to, P)
  BY PartsNumbered
<1>2. /\ \A b \in P : v[b] = Total(InPart(R, b))
      /\ \A n \in N : f[n] \in P /\ v[f[n]] = q[n]
  OBVIOUS
<1> HIDE DEF P, v
<1>3. SumOf(v, P) = Total(InPart(R, PlainPeriod(from, to))) /\ \A b \in P : v[b] \in Int
  BY <1>1, <1>2, PartsTotal
<1>4. ASSUME NEW n \in N, NEW m \in N, f[n] = f[m] PROVE n = m
  <2>1. f[n].start \in Int /\ f[n].end \in Int /\ f[n].start <= f[n].end
    BY DEF Numbers
  <2>2. InPeriod(f[n], f[n].start) /\ InPeriod(f[m], f[n].start)
    BY <1>4, <2>1 DEF InPeriod
  <2> QED
    BY <2>1, <2>2 DEF Numbers
<1>5. IsFiniteSet(N) /\ \A x, y \in N : f[x] = f[y] => x = y
  BY <1>4 DEF Numbers
<1>6. \A x \in N : q[x] \in Int /\ v[f[x]] = q[x]
  BY <1>2, <1>3
<1>7. SumOf(v, {f[n] : n \in N}) = SumOf(q, N)
  BY <1>5, <1>6, SumImage
<1> QED
  BY <1>3, <1>7 DEF P

(* The pay periods that overlap a range, cut to it, are parts of it            *)
(* (get_pay_periods_overlapping_range, build_extra_spent_time_series).        *)
LEMMA CutPeriodsNumber ==
    ASSUME NEW s \in ScheduleType, NEW from \in Dates, NEW to \in Dates, from <= to,
           RangeReached(s, from, to), NEW ps, ps = PayPeriodsOverlapping(s, from, to),
           NEW f, \A n \in DOMAIN ps : f[n] = Clip(ps[n], from, to)
    PROVE  Len(ps) \in Nat /\ DOMAIN ps = 1..Len(ps) /\ Numbers(f, 1..Len(ps), from, to)
<1>1. from \in Int /\ to \in Int /\ to + 744 \in Int /\ to + 744 <= to + 744
  BY DateFacts
<1>2. /\ Reaches(s, to + 744) /\ ReachesBack(s, from)
      /\ 6 * MaxOverlapping > to - PeriodContaining(s, from).start
  BY DEF RangeReached
<1>3. /\ ps \in Seq(Periods) /\ Tile(s, ps)
      /\ \A i \in DOMAIN ps : Overlaps(s, from, to, ps[i])
      /\ ps # <<>> /\ InPeriod(ps[1], from) /\ InPeriod(ps[Len(ps)], to)
  BY <1>1, <1>2, OverlappingPeriodsTile DEF Periods
<1>4. Cut(s, ps)
  BY <1>3 DEF Cut, Overlaps
<1> DEFINE n == Len(ps)
<1>5. /\ n \in Nat /\ DOMAIN ps = 1..n /\ n # 0
      /\ \A i \in 1..n : ps[i].start \in Int /\ ps[i].end \in Int /\ ps[i].start < ps[i].end
  BY <1>3, <1>4, CutFacts
<1>6. \A i \in 1..n : ps[i].end >= from /\ ps[i].start <= to
  BY <1>3, <1>5 DEF Overlaps
<1>7. \A i \in 1..n : f[i].start = GreatestOf(ps[i].start, from) /\ f[i].end = LeastOf(ps[i].end, to)
  <2>1. ASSUME NEW p \in Periods
        PROVE  /\ Clip(p, from, to).start = GreatestOf(p.start, from)
               /\ Clip(p, from, to).end = LeastOf(p.end, to)
    BY DEF Clip, Periods
  <2>2. \A i \in 1..n : f[i] = Clip(ps[i], from, to) /\ ps[i] \in Periods
    BY <1>3, <1>4, <1>5, CutFacts
  <2> QED
    BY <2>1, <2>2
<1>8. \A i \in 1..n : /\ f[i].start \in Int /\ f[i].end \in Int
                      /\ from <= f[i].start /\ f[i].start <= f[i].end /\ f[i].end <= to
  BY <1>1, <1>5, <1>6, <1>7 DEF GreatestOf, LeastOf
<1>9. \A i \in 1..n, d \in Int : InPeriod(f[i], d) <=> InPeriod(ps[i], d) /\ from <= d /\ d <= to
  BY <1>1, <1>5, <1>7 DEF GreatestOf, LeastOf, InPeriod
<1>10. \A d \in from..to : \E i \in 1..n : InPeriod(f[i], d)
  <2> TAKE d \in from..to
  <2>1. d \in Int /\ from <= d /\ d <= to
    BY <1>1
  <2>2. 1 \in 1..n /\ n \in 1..n
    BY <1>5
  <2>3. ps[1].start <= d /\ d <= ps[n].end
    BY <1>1, <1>3, <1>5, <2>1, <2>2 DEF InPeriod
  <2>4. \E i \in DOMAIN ps : InPeriod(ps[i], d)
    BY <1>3, <1>4, <2>1, <2>3, CutCovers
  <2> QED
    BY <1>5, <1>9, <2>1, <2>4
<1>11. ASSUME NEW i \in 1..n, NEW j \in 1..n, NEW d \in Int, InPeriod(f[i], d), InPeriod(f[j], d)
       PROVE  i = j
  <2>1. InPeriod(ps[i], d) /\ InPeriod(ps[j], d)
    BY <1>9, <1>11
  <2>2. i < j => ps[i].end < ps[j].start
    BY <1>4, <1>5, CutIncreases
  <2>3. j < i => ps[j].end < ps[i].start
    BY <1>4, <1>5, CutIncreases
  <2>4. ~(i < j) /\ ~(j < i)
    BY <1>5, <2>1, <2>2, <2>3 DEF InPeriod
  <2> QED
    BY <1>5, <2>4
<1>12. IsFiniteSet(1..n)
  BY <1>5, FS_Interval
<1>13. Numbers(f, 1..n, from, to)
  <2>1. \A i, j \in 1..n, d \in Int : InPeriod(f[i], d) /\ InPeriod(f[j], d) => i = j
    BY <1>11
  <2> HIDE DEF n
  <2> QED
    BY <1>8, <1>10, <1>12, <2>1 DEF Numbers
<1> QED
  BY <1>5, <1>13

LEMMA ExtrasAddUp ==
    ASSUME ProjectionsInv, NEW from \in Dates, NEW to \in Dates, from <= to,
           RangeReached(PayDays, from, to)
    PROVE  FoldLeft(LAMBDA x, y : x + y, 0, ExtraSpentBuckets(from, to)) = ExtraSpent(PlainPeriod(from, to))
<1> DEFINE ps == PayPeriodsOverlapping(PayDays, from, to)
           n == Len(ps)
           f == [i \in DOMAIN ps |-> Clip(ps[i], from, to)]
           q == [i \in 1..n |-> ExtraSpent(Clip(ps[i], from, to))]
<1>1. PayDays \in ScheduleType /\ from \in Int /\ to \in Int
  BY RangeFacts, DateFacts
<1>2. \A i \in DOMAIN ps : f[i] = Clip(ps[i], from, to)
  OBVIOUS
<1> HIDE DEF ps, f
<1>3. n \in Nat /\ DOMAIN ps = 1..n /\ Numbers(f, 1..n, from, to)
  BY <1>1, <1>2, CutPeriodsNumber DEF ps
<1>4. \A i \in 1..n : q[i] = Total(InPart(Extras, f[i]))
  BY <1>2, <1>3, KpisAre
<1>5. \A i \in 1..n : q[i] \in Int
  BY <1>4, ReportRows
<1>6. ExtraSpentBuckets(from, to) = q \o <<>>
  BY <1>3 DEF ExtraSpentBuckets, PayDays, ps
<1>7. q \in [1..n -> Int]
  BY <1>5
<1>8. q \o <<>> = q /\ DOMAIN q = 1..n
  <2>1. DOMAIN q = 1..n
    OBVIOUS
  <2> HIDE DEF q
  <2> QED
    BY <1>3, <1>7, <2>1, EndsHere
<1> HIDE DEF q, n
<1>9. FoldLeft(LAMBDA x, y : x + y, 0, q) = SumOf(q, 1..n)
  BY <1>3, <1>5, <1>8, FoldLeftSums
<1>10. SumOf(q, 1..n) = Total(InPart(Extras, PlainPeriod(from, to)))
  <2>1. Dated(Extras)
    BY ReportRows
  <2> DEFINE N == 1..n
  <2>2. Numbers(f, N, from, to) /\ \A i \in N : q[i] = Total(InPart(Extras, f[i]))
    BY <1>3, <1>4
  <2> HIDE DEF N
  <2>3. SumOf(q, N) = Total(InPart(Extras, PlainPeriod(from, to)))
    BY <1>1, <2>1, <2>2, NumbersTotal
  <2> QED
    BY <2>3 DEF N
<1> QED
  BY <1>6, <1>8, <1>9, <1>10, KpisAre

(* A range and the one before it: rows of both are rows of either.            *)
LEMMA BothAdd ==
    ASSUME NEW R, Dated(R), NEW a \in Int, NEW b \in Int, NEW c \in Int, a <= b, b <= c + 1
    PROVE  LET before == InPart(R, PlainPeriod(a, b - 1))
               after == InPart(R, PlainPeriod(b, c))
               both == InPart(R, PlainPeriod(a, c)) IN
           /\ Total(both) = Total(before) + Total(after)
           /\ Cardinality(both) = Cardinality(before) + Cardinality(after)
           /\ Cardinality(before) \in Nat /\ Cardinality(after) \in Nat
<1> DEFINE before == InPart(R, PlainPeriod(a, b - 1))
           after == InPart(R, PlainPeriod(b, c))
           both == InPart(R, PlainPeriod(a, c))
<1>1. /\ before \in SUBSET R /\ after \in SUBSET R /\ both \in SUBSET R
      /\ \A r \in R : /\ r \in before <=> a <= r.date /\ r.date <= b - 1
                      /\ r \in after <=> b <= r.date /\ r.date <= c
                      /\ r \in both <=> a <= r.date /\ r.date <= c
  BY DEF InPart, InPeriod, PlainPeriod
<1>2. \A r \in R : r.date \in Int /\ r.amount \in Int
  BY DEF Dated
<1> HIDE DEF before, after, both
<1>3. \A r \in R : (r \in both <=> r \in before \/ r \in after) /\ ~(r \in before /\ r \in after)
  BY <1>1, <1>2
<1>4. both = before \cup after /\ before \cap after = {}
  BY <1>1, <1>3
<1>5. ASSUME NEW S \in SUBSET R PROVE IsFiniteSet(S) /\ Total(S) = SumOf(Amounts(R), S)
  <2>1. IsFiniteSet(S)
    BY FS_Subset DEF Dated
  <2>2. Total(S) = SumOf(Amounts(S), S)
    BY <2>1, TotalIs
  <2>3. \A x \in S : Amounts(S)[x] = Amounts(R)[x]
    BY DEF Amounts
  <2> QED
    BY <2>1, <2>2, <2>3, SumSame
<1>6. /\ IsFiniteSet(before) /\ Total(before) = SumOf(Amounts(R), before)
      /\ IsFiniteSet(after) /\ Total(after) = SumOf(Amounts(R), after)
      /\ IsFiniteSet(both) /\ Total(both) = SumOf(Amounts(R), both)
  BY <1>1, <1>5
<1> DEFINE w == Amounts(R)
<1>7. \A x \in before \cup after : w[x] \in Int
  BY <1>1, <1>2 DEF Amounts
<1> HIDE DEF w
<1>8. SumOf(w, before \cup after) = SumOf(w, before) + SumOf(w, after)
  BY <1>4, <1>6, <1>7, SumUnion
<1>9. /\ Cardinality(before \cup after) = Cardinality(before) + Cardinality(after) - Cardinality(before \cap after)
      /\ Cardinality(before) \in Nat /\ Cardinality(after) \in Nat /\ Cardinality(before \cap after) = 0
  BY <1>4, <1>6, FS_Union, FS_CardinalityType, FS_EmptySet
<1>10. Total(both) = Total(before) + Total(after)
  BY <1>4, <1>6, <1>8 DEF w
<1>11. Cardinality(both) = Cardinality(before) + Cardinality(after)
  BY <1>4, <1>9
<1> QED
  BY <1>9, <1>10, <1>11 DEF before, after, both

LEMMA KpisAdd ==
    ASSUME ProjectionsInv, NEW a \in Int, NEW b \in Int, NEW c \in Int, a <= b, b <= c + 1
    PROVE  \A k \in DOMAIN Kpis(PlainPeriod(a, c)) :
               Kpis(PlainPeriod(a, b - 1))[k] + Kpis(PlainPeriod(b, c))[k] = Kpis(PlainPeriod(a, c))[k]
<1> DEFINE before == PlainPeriod(a, b - 1)
           after == PlainPeriod(b, c)
           both == PlainPeriod(a, c)
           Of(p) == [income |-> Total(InPart(Earned, p)), expenses |-> Total(InPart(SpentRows, p)),
                     extra |-> Total(InPart(Extras, p)),
                     count |-> Cardinality(InPart(Earned, p)) + Cardinality(InPart(SpentRows, p))]
<1>1. \A p : Kpis(p) = Of(p)
  BY KpisAre
<1>2. Dated(Earned) /\ Dated(SpentRows) /\ Dated(Extras)
  BY ReportRows
<1>3. /\ Total(InPart(Earned, both)) = Total(InPart(Earned, before)) + Total(InPart(Earned, after))
      /\ Cardinality(InPart(Earned, both)) = Cardinality(InPart(Earned, before)) + Cardinality(InPart(Earned, after))
      /\ Cardinality(InPart(Earned, before)) \in Nat /\ Cardinality(InPart(Earned, after)) \in Nat
  BY <1>2, BothAdd
<1>4. /\ Total(InPart(SpentRows, both)) = Total(InPart(SpentRows, before)) + Total(InPart(SpentRows, after))
      /\ Cardinality(InPart(SpentRows, both))
            = Cardinality(InPart(SpentRows, before)) + Cardinality(InPart(SpentRows, after))
      /\ Cardinality(InPart(SpentRows, before)) \in Nat /\ Cardinality(InPart(SpentRows, after)) \in Nat
  BY <1>2, BothAdd
<1>5. Total(InPart(Extras, both)) = Total(InPart(Extras, before)) + Total(InPart(Extras, after))
  BY <1>2, BothAdd
<1> DEFINE e1 == Cardinality(InPart(Earned, before))
           e2 == Cardinality(InPart(Earned, after))
           s1 == Cardinality(InPart(SpentRows, before))
           s2 == Cardinality(InPart(SpentRows, after))
<1>6. Cardinality(InPart(Earned, both)) + Cardinality(InPart(SpentRows, both)) = (e1 + s1) + (e2 + s2)
  <2>1. /\ e1 \in Nat /\ e2 \in Nat /\ s1 \in Nat /\ s2 \in Nat
        /\ Cardinality(InPart(Earned, both)) = e1 + e2 /\ Cardinality(InPart(SpentRows, both)) = s1 + s2
    BY <1>3, <1>4
  <2> HIDE DEF e1, e2, s1, s2
  <2> QED
    BY <2>1
<1> HIDE DEF before, after, both
<1>7. /\ Of(before).income + Of(after).income = Of(both).income
      /\ Of(before).expenses + Of(after).expenses = Of(both).expenses
      /\ Of(before).extra + Of(after).extra = Of(both).extra
      /\ Of(before).count + Of(after).count = Of(both).count
  BY <1>3, <1>4, <1>5, <1>6
<1>8. DOMAIN Of(both) = {"income", "expenses", "extra", "count"}
  OBVIOUS
<1> HIDE DEF Of
<1>9. \A k \in DOMAIN Of(both) : Of(before)[k] + Of(after)[k] = Of(both)[k]
  BY <1>7, <1>8
<1> QED
  BY <1>1, <1>9 DEF before, after, both

(* What the expenses tab lists over the months up to today is what a report of  *)
(* them counts (build_expense_period_view, compute_kpis).                     *)
LEMMA TabAddsUp ==
    ASSUME ProjectionsInv, LiveRows, RoutedRows, NEW key \in TabKeys, key # "last-period"
    PROVE  Total(TabItems(key, TRUE, today)) = Kpis(TabPeriod(key, today)).expenses
<1> DEFINE p == TabPeriod(key, today)
           S == SpendingRows(p)
           Of(r) == Item(r.of, r.due, r.date, r.amount, -1, r.account, FALSE)
           h == [r \in S |-> Of(r)]
<1>1. TabItems(key, TRUE, today) = {Of(r) : r \in S}
  BY DEF TabItems, ActualItems
<1>2. S = InPart(SpentRows, p) /\ Kpis(p).expenses = Total(S)
  BY KpisAre
<1>3. Dated(SpentRows)
  BY ReportRows
<1>4. S \in SUBSET rows /\ S \in SUBSET SpentRows /\ \A r \in S : r.of \in Spendings
  BY DEF SpendingRows, SpentRows
<1>5. /\ IsFiniteSet(S)
      /\ \A r \in S : r \in RowType /\ r.amount \in Int
  <2>1. \A r \in S : r \in RowType /\ r.amount \in Int
    BY <1>3, <1>4 DEF Dated, ProjectionsInv, ProjectionsTyped
  <2> QED
    BY <1>3, <1>4, <2>1, FS_Subset DEF Dated
<1>6. \A r \in S : r.live /\ r.to = NoAccount
  <2> TAKE r \in S
  <2>1. r \in rows /\ r.of \in {"expense", "planned", "budget", "spending"}
    BY <1>4 DEF Spendings
  <2>2. r.of # "income" /\ r.of # "transfer"
    BY <2>1
  <2>3. r.live
    BY <2>1, <2>2 DEF LiveRows, DeletedSoftly
  <2>4. r.to = NoAccount
    BY <2>1, <2>2 DEF RoutedRows, Routed
  <2> QED
    BY <2>3, <2>4
<1>7. ASSUME NEW r \in S, NEW q \in S, h[r] = h[q] PROVE r = q
  <2>1. /\ r.of = q.of /\ r.due = q.due /\ r.date = q.date /\ r.amount = q.amount /\ r.account = q.account
    BY <1>7 DEF Item
  <2>2. r.live = TRUE /\ q.live = TRUE /\ r.to = q.to
    <3>1. r.live \in BOOLEAN /\ q.live \in BOOLEAN /\ r.live /\ q.live
      BY <1>5, <1>6 DEF RowType
    <3> QED
      BY <1>6, <3>1
  <2>3. r \in RowType /\ q \in RowType
    BY <1>5
  <2> QED
    BY <2>1, <2>2, <2>3 DEF RowType
<1>8. \A r \in S : h[r].amount = r.amount
  BY DEF Item
<1> HIDE DEF S, Of
<1>9. {Of(r) : r \in S} = {h[r] : r \in S}
  OBVIOUS
<1> DEFINE image == {h[r] : r \in S}
           v == Amounts(image)
           w == Amounts(S)
<1> HIDE DEF h
<1>10. \A r \in S : w[r] \in Int /\ v[h[r]] = w[r]
  BY <1>5, <1>8 DEF Amounts
<1>11. \A r, q \in S : h[r] = h[q] => r = q
  BY <1>7
<1>12. IsFiniteSet(image)
  <2> DEFINE g == [r \in S |-> h[r]]
  <2>1. g \in Surjection(S, image)
    BY DEF Surjection
  <2> HIDE DEF g, image
  <2> QED
    BY <1>5, <2>1, FS_Surjection
<1> HIDE DEF v, w
<1>13. SumOf(v, {h[r] : r \in S}) = SumOf(w, S)
  BY <1>5, <1>10, <1>11, SumImage
<1>14. Total(image) = SumOf(v, image) /\ Total(S) = SumOf(w, S)
  <2> HIDE DEF image
  <2> QED
    BY <1>5, <1>12, TotalIs DEF v, w
<1> QED
  BY <1>1, <1>2, <1>9, <1>13, <1>14

LEMMA RangeAddsUp ==
    ASSUME ProjectionsInv, NEW from \in Dates, NEW to \in Dates, from <= to,
           RangeReached(PayDays, from, to)
    PROVE  AddsUp(from, to)
<1> DEFINE days_ == DayCount(from, to)
           prior == PriorRange(from, days_)
<1>1. from \in Int /\ to \in Int
  BY DateFacts
<1>2. days_ \in Int /\ days_ = to - from + 1 /\ days_ > 0
  BY <1>1 DEF DayCount
<1> HIDE DEF days_
<1>3. prior.start = from - days_ /\ prior.end = from - 1 /\ prior = PlainPeriod(from - days_, from - 1)
  BY DEF PriorRange, PlainPeriod
<1>4. DayCount(prior.start, prior.end) = days_
  BY <1>1, <1>2, <1>3 DEF DayCount
<1>5. \A k \in DOMAIN Kpis(PlainPeriod(prior.start, to)) :
          Kpis(prior)[k] + Kpis(PlainPeriod(from, to))[k] = Kpis(PlainPeriod(prior.start, to))[k]
  <2> DEFINE a == from - days_
  <2>1. a \in Int /\ a <= from /\ from <= to + 1
    BY <1>1, <1>2
  <2> HIDE DEF a
  <2>2. \A k \in DOMAIN Kpis(PlainPeriod(a, to)) :
            Kpis(PlainPeriod(a, from - 1))[k] + Kpis(PlainPeriod(from, to))[k] = Kpis(PlainPeriod(a, to))[k]
    BY <1>1, <2>1, KpisAdd
  <2> QED
    BY <1>3, <2>2 DEF a
<1>6. FoldLeft(LAMBDA x, y : x + y, 0, ExtraSpentBuckets(from, to)) = Kpis(PlainPeriod(from, to)).extra
  <2>1. FoldLeft(LAMBDA x, y : x + y, 0, ExtraSpentBuckets(from, to)) = ExtraSpent(PlainPeriod(from, to))
    BY ExtrasAddUp
  <2>2. Kpis(PlainPeriod(from, to)).extra = ExtraSpent(PlainPeriod(from, to))
    BY KpisAre
  <2> QED
    BY <2>1, <2>2
<1> HIDE DEF prior
<1>7. LET series == TimeSeries(from, to)
          whole == PlainPeriod(from, to) IN
      /\ UNION {b.start..b.end : b \in series} = from..to
      /\ MapThenSumSet(LAMBDA b : DayCount(b.start, b.end), series) = DayCount(from, to)
      /\ MapThenSumSet(LAMBDA b : b.income, series) = Kpis(whole).income
      /\ MapThenSumSet(LAMBDA b : b.expenses, series) = Kpis(whole).expenses
  BY SeriesAddsUp
<1>8. LET report == Report(from, to) IN
      /\ report.kpis = Kpis(PlainPeriod(from, to)) /\ report.prior = prior /\ report.before = Kpis(prior)
      /\ report.series = TimeSeries(from, to) /\ report.extra = ExtraSpentBuckets(from, to)
  BY DEF Report, prior, days_
<1> QED
  BY <1>4, <1>5, <1>6, <1>7, <1>8 DEF AddsUp, days_

LEMMA InvReportsAddUp == ProjectionsInv /\ LiveRows /\ RoutedRows /\ RangesReached => ReportsAddUp
<1> SUFFICES ASSUME ProjectionsInv, LiveRows, RoutedRows, RangesReached
             PROVE  ReportsAddUp
  OBVIOUS
<1>1. ASSUME NEW r \in Reported
      PROVE  ValidRange(today - r[1], today + r[2]) /\ AddsUp(today - r[1], today + r[2])
  <2> DEFINE from == today - r[1]
             to == today + r[2]
  <2>1. /\ today \in Int /\ days \in Nat /\ today \in today..(today + days)
        /\ r[1] \in Int /\ r[2] \in Int /\ r[1] + r[2] \in 0..729
    BY ReportsAssumption DEF ProjectionsInv, ProjectionsTyped
  <2>2. from \in Int /\ to \in Int /\ from <= to /\ to - from + 1 <= 730
    BY <2>1
  <2>3. RangeReached(PayDays, from, to)
    BY <2>1 DEF RangesReached
  <2> HIDE DEF from, to
  <2>4. from \in Dates /\ to \in Dates
    BY <2>3 DEF RangeReached
  <2>5. AddsUp(from, to)
    BY <2>2, <2>3, <2>4, RangeAddsUp
  <2>6. ValidRange(from, to)
    BY <2>2 DEF ValidRange, DayCount
  <2> QED
    BY <2>5, <2>6 DEF from, to
<1>2. \A key \in TabKeys \ {"last-period"} :
          Total(TabItems(key, TRUE, today)) = Kpis(TabPeriod(key, today)).expenses
  BY TabAddsUp
<1> QED
  BY <1>1, <1>2 DEF ReportsAddUp

(* Whatever rows a user has and however they change, a report of a range adds   *)
(* up: its days, weeks or months, each day of the range in one of them, and the  *)
(* pay periods it overlaps, cut to it, sum to its totals, the range before it    *)
(* and it sum to the report of both, and the expenses tab lists what a report    *)
(* of its months counts (build_report_summary, build_time_buckets,               *)
(* build_extra_spent_time_series, build_expense_period_view).                    *)
THEOREM ReportsAdd == Spec => []ReportsAddUp
<1>1. ProjectionsInv /\ LiveRows /\ RoutedRows /\ RangesReached => ReportsAddUp
  BY InvReportsAddUp
<1> QED
  BY <1>1, ProjectionsInvariant, LiveRowsInvariant, RoutedInvariant, RangesInvariant, PTL
=============================================================================
