---------------------------- MODULE BudgetsProofs ----------------------------
(***************************************************************************)
(* What holds of Budgets for any budgets, expenses, amounts, currencies,     *)
(* days and requests.                                                       *)
(***************************************************************************)
EXTENDS Budgets, FiniteSetTheorems, TLAPS

-----------------------------------------------------------------------------
Stages == {"idle", "created", "check", "update", "updated", "count", "delete", "deleted",
           "complete", "close", "completed", "add", "added", "remove", "removed", "gone"}
RequestState == [pc : Stages, kind : AllKinds \cup {"none"}, id : Ids \cup {NoBudget},
                 row : RowState, old : 0..LastDay, new : RowState, x : Expenses \cup {"none"},
                 date : 0..LastDay, earliest : 0..LastDay]
ExpenseState == [live : BOOLEAN, budget : Ids \cup {NoBudget},
                 currency : Currencies \cup {"none"}, date : 0..LastDay]

(* A row with both dates or neither. *)
Whole(row) == (row.start = NoDate) = (row.end = NoDate)

(* No expense is recorded against b in xs. *)
Unspent(b, xs) == \A x \in Expenses : ~(xs[x].live /\ xs[x].budget = b)

(* A budget that exists has the day of its creation; an expense has a day     *)
(* and, if it has one, a budget that exists.                                *)
RowsHold ==
    /\ \A b \in Ids : Exists(b) => budget[b].created # NoDate
    /\ \A x \in Expenses :
          expense[x].live =>
             /\ expense[x].date # NoDate
             /\ expense[x].budget # NoBudget => Exists(expense[x].budget)

(* A completed budget is dated, unless an update raced its completion.       *)
CompletedDated ==
    {"update", "complete"} \subseteq raced \/
    \A b \in Ids : budget[b].status = "completed" => Dated(budget[b])

(* A request knows its kind, its budget and its expense. *)
Knows(r) ==
    /\ r.pc = "created" => r.kind = "create"
    /\ r.pc \in {"check", "update", "updated"} => r.kind = "update"
    /\ r.pc \in {"count", "delete", "deleted"} => r.kind = "delete"
    /\ r.pc \in {"complete", "close", "completed"} => r.kind = "complete"
    /\ r.pc \in {"add", "added"} => r.kind = "add"
    /\ r.pc \in {"remove", "removed"} => r.kind = "remove"
    /\ r.pc = "gone" => r.kind = "deleteExpense"
    /\ r.pc \notin {"idle", "gone"} => r.id \in Ids
    /\ r.pc \in {"add", "added", "remove", "removed"} => r.x \in Expenses
    /\ r.pc \in {"complete", "add"} => r.date # NoDate
    /\ r.pc \in {"check", "update"} => Whole(r.new)
    /\ r.pc = "close" => Dated(r.new)

(* What a request found out still holds, unless a kind of request that        *)
(* changes it has raced it.                                                 *)
Holds(r, bs, xs, rc) ==
    /\ r.pc \notin {"idle", "gone"} => bs[r.id].status # "absent"
    /\ r.pc \in {"check", "update"} =>
          {"update", "complete"} \subseteq rc \/ bs[r.id].status # "completed"
    /\ r.pc = "check" => "update" \in rc \/ r.row.currency = bs[r.id].currency
    /\ r.pc = "update" =>
          "update" \in rc \/ r.new.currency = bs[r.id].currency \/ Unspent(r.id, xs)
    /\ r.pc = "delete" => {"add", "delete"} \subseteq rc \/ Unspent(r.id, xs)
    /\ r.pc = "add" =>
          /\ {"add", "complete"} \subseteq rc \/ bs[r.id].status \in {"open", "deleted"}
          /\ \/ "update" \in rc
             \/ bs[r.id].status = "deleted"
             \/ r.row.currency = bs[r.id].currency

(* Two requests under way have raced. *)
Overlap ==
    \A p, q \in UnderWay : p # q => {request[p].kind, request[q].kind} \subseteq raced

BudgetsTyped ==
    /\ now \in 1..LastDay
    /\ budget \in [Ids -> RowState]
    /\ \A b \in Ids : Whole(budget[b])
    /\ expense \in [Expenses -> ExpenseState]
    /\ request \in [Requests -> RequestState]
    /\ dirty \subseteq Days
    /\ changes \in Nat
    /\ raced \subseteq AllKinds

BudgetsInv ==
    /\ BudgetsTyped
    /\ RowsHold
    /\ CompletedDated
    /\ SpendInBudgetCurrency
    /\ Overlap
    /\ \A q \in Requests : Knows(request[q]) /\ Holds(request[q], budget, expense, raced)

-----------------------------------------------------------------------------
(* The earliest of some dates. *)

(* Any numbers have a least: the intervals up to them are ordered by         *)
(* inclusion, which on finite sets is well founded.                         *)
LEMMA Least ==
    ASSUME NEW T \in SUBSET Nat, T # {}
    PROVE  \E m \in T : \A k \in T : m <= k
<1> DEFINE R == StrictSubsetOrdering(Nat)
           F == FiniteSubsetsOf(Nat)
           U == {0..t : t \in T}
<1>1. IsWellFoundedOn(R, F)
  BY FS_StrictSubsetOrderingWellFounded
<1>2. \A t \in T : 0..t \in F
  BY FS_Interval DEF FiniteSubsetsOf
<1>3. \A x, y \in Nat : x < y => <<0..x, 0..y>> \in R
  BY DEF StrictSubsetOrdering
<1> HIDE DEF R, F
<1>4. U \in SUBSET F /\ U # {}
  BY <1>2
<1> HIDE DEF U
<1>5. PICK u \in U : \A v \in U : ~(<<v, u>> \in R)
  BY <1>1, <1>4, WFMin
<1> USE DEF U
<1>6. PICK m \in T : u = 0..m
  OBVIOUS
<1>7. \A k \in T : ~(k < m)
  BY <1>3, <1>5, <1>6
<1> QED
  BY <1>7

LEMMA EarliestDate ==
    ASSUME NEW dates \in SUBSET (0..LastDay)
    PROVE  /\ HistoryFrom(dates) \in 0..LastDay
           /\ \A d \in dates : d # NoDate => HistoryFrom(dates) # NoDate /\ HistoryFrom(dates) <= d
           /\ HistoryFrom(dates) # NoDate => HistoryFrom(dates) \in dates
<1> DEFINE some == dates \ {NoDate}
<1>1. CASE some = {}
  BY <1>1, BudgetsAssumption DEF HistoryFrom, NoDate
<1>2. CASE some # {}
  <2>1. some \in SUBSET Nat
    <3>1. \A d \in 0..LastDay : d \in Nat
      BY BudgetsAssumption
    <3> QED
      BY <3>1
  <2>2. \E m \in some : \A k \in some : m <= k
    BY <1>2, <2>1, Least
  <2>3. Min(some) \in some /\ \A k \in some : Min(some) <= k
    BY <2>2 DEF Min
  <2>4. HistoryFrom(dates) = Min(some)
    BY <1>2 DEF HistoryFrom
  <2> HIDE DEF some
  <2> QED
    BY <2>3, <2>4 DEF some, NoDate
<1> QED
  BY <1>1, <1>2

-----------------------------------------------------------------------------
(* The types of rows and requests. *)

LEMMA AbsentTyped ==
    /\ Absent \in RowState /\ Absent.status = "absent" /\ Whole(Absent)
    /\ Deleted \in RowState /\ Deleted.status = "deleted" /\ Whole(Deleted)
BY BudgetsAssumption DEF Absent, Deleted, RowState, Whole, NoDate

LEMMA OpenTyped ==
    ASSUME NEW amount \in Amounts, NEW cur \in Currencies, NEW s \in 0..LastDay,
           NEW e \in 0..LastDay, NEW n \in 1..LastDay
    PROVE  [status |-> "open", amount |-> amount, currency |-> cur, start |-> s, end |-> e,
            created |-> n] \in RowState
BY BudgetsAssumption DEF RowState

LEMMA RangeTyped ==
    ASSUME NEW range \in Ranges
    PROVE  /\ range[1] \in 0..LastDay /\ range[2] \in 0..LastDay
           /\ (range[1] = NoDate) = (range[2] = NoDate)
BY BudgetsAssumption DEF Ranges, Days, NoDate

LEMMA IdleTyped == Idle \in RequestState /\ Knows(Idle)
BY AbsentTyped, BudgetsAssumption
   DEF Idle, RequestState, Stages, NoBudget, NoDate, Knows

-----------------------------------------------------------------------------
(* What a change of the rows leaves true of the requests under way. *)

RowsTyped ==
    /\ budget \in [Ids -> RowState]
    /\ \A b \in Ids : Whole(budget[b])
    /\ expense \in [Expenses -> ExpenseState]
RowsInv == RowsTyped /\ RowsHold /\ CompletedDated /\ SpendInBudgetCurrency
(* A request that is not one of the step goes on to know what holds. *)
Keeps(r) ==
    Knows(r) /\ Holds(r, budget, expense, raced) => Holds(r, budget', expense', raced')

Grows == raced \subseteq raced' /\ raced' \subseteq AllKinds

LEMMA InvRows == BudgetsInv => RowsInv
BY DEF BudgetsInv, BudgetsTyped, RowsInv, RowsTyped

LEMMA SameRows ==
    ASSUME RowsInv, Grows, UNCHANGED <<budget, expense>>
    PROVE  /\ RowsInv'
           /\ \A r \in RequestState :
                 Keeps(r)
<1>1. RowsInv'
  BY DEF RowsInv, RowsTyped, Grows, RowsHold, CompletedDated, SpendInBudgetCurrency, Exists, Dated
<1> QED
  BY <1>1 DEF Keeps, Holds, Grows

LEMMA CreatedRows ==
    ASSUME RowsInv, Grows, NEW b \in Ids, budget[b].status = "absent",
           NEW row \in RowState, row.status = "open", row.created # NoDate, Whole(row),
           budget' = [budget EXCEPT ![b] = row], expense' = expense
    PROVE  /\ RowsInv'
           /\ \A r \in RequestState :
                 Keeps(r)
<1>1. \A i \in Ids : budget'[i] = IF i = b THEN row ELSE budget[i]
  BY DEF RowsInv, RowsTyped
<1>2. \A i \in Ids : budget[i].status # "absent" => budget'[i] = budget[i]
  BY <1>1
<1>3. RowsTyped'
  BY <1>1 DEF RowsInv, RowsTyped
<1>4. RowsHold'
  BY <1>1, <1>2 DEF RowsInv, RowsTyped, RowsHold, Exists, ExpenseState
<1>5. CompletedDated'
  BY <1>1 DEF RowsInv, CompletedDated, Grows, Dated
<1>6. SpendInBudgetCurrency'
  BY <1>1, <1>2 DEF RowsInv, RowsTyped, RowsHold, Exists, SpendInBudgetCurrency, Grows, ExpenseState
<1>7. RowsInv'
  BY <1>3, <1>4, <1>5, <1>6 DEF RowsInv
<1>8. ASSUME NEW r \in RequestState, Knows(r), Holds(r, budget, expense, raced)
      PROVE  Holds(r, budget', expense', raced')
  <2>1. CASE r.pc \in {"idle", "gone"}
    BY <2>1 DEF Holds
  <2>2. CASE r.pc \notin {"idle", "gone"}
    <3>1. r.id \in Ids
      BY <1>8, <2>2 DEF Knows
    <3>2. budget'[r.id] = budget[r.id]
      BY <1>2, <1>8, <2>2, <3>1 DEF Holds
    <3> QED
      BY <1>8, <3>2 DEF Holds, Grows
  <2> QED
    BY <2>1, <2>2
<1> QED
  BY <1>7, <1>8 DEF Keeps

(* An update by q, which is at "update": the values of the request go into    *)
(* the row as it is.                                                        *)
LEMMA UpdatedRows ==
    ASSUME RowsInv, Grows, NEW q \in UnderWay, request[q] \in RequestState, Overlap,
           NEW b \in Ids, Exists(b), Knows(request[q]), Holds(request[q], budget, expense, raced),
           request[q].pc = "update", request[q].id = b,
           NEW row \in RowState, row.status = budget[b].status, row.created = budget[b].created,
           row.currency = request[q].new.currency, Whole(row),
           budget' = [budget EXCEPT ![b] = row], expense' = expense
    PROVE  /\ RowsInv'
           /\ \A p \in UnderWay : p # q /\ request[p] \in RequestState /\ Knows(request[p])
                                  => Keeps(request[p])
<1>1. \A i \in Ids : budget'[i] = IF i = b THEN row ELSE budget[i]
  BY DEF RowsInv, RowsTyped
<1>2. \A i \in Ids : budget'[i].status = budget[i].status
  BY <1>1
<1>3. RowsTyped'
  BY <1>1 DEF RowsInv, RowsTyped
<1>4. RowsHold'
  <2>1. \A i \in Ids : Exists(i)' = Exists(i) /\ budget'[i].created = budget[i].created
    BY <1>1, <1>2 DEF Exists
  <2> QED
    BY <2>1 DEF RowsInv, RowsTyped, RowsHold, ExpenseState
<1>5. CompletedDated'
  <2>1. {"update", "complete"} \subseteq raced \/ budget[b].status # "completed"
    BY DEF Holds
  <2> QED
    BY <1>1, <2>1 DEF RowsInv, CompletedDated, Grows, Dated
<1>6. SpendInBudgetCurrency'
  <2>1. CASE "update" \in raced
    BY <2>1 DEF SpendInBudgetCurrency, Grows
  <2>2. CASE "update" \notin raced
    <3>1. row.currency = budget[b].currency \/ Unspent(b, expense)
      BY <2>2 DEF Holds
    <3>2. ASSUME NEW x \in Expenses, expense[x].live, expense[x].budget # NoBudget
          PROVE  expense[x].currency = budget'[expense[x].budget].currency
      <4>1. expense[x].budget \in Ids
        BY <3>2 DEF RowsInv, RowsTyped, ExpenseState
      <4>2. expense[x].currency = budget[expense[x].budget].currency
        BY <2>2, <3>2 DEF RowsInv, SpendInBudgetCurrency
      <4> QED
        BY <1>1, <3>1, <3>2, <4>1, <4>2 DEF Unspent
    <3> QED
      BY <3>2 DEF SpendInBudgetCurrency
  <2> QED
    BY <2>1, <2>2
<1>7. RowsInv'
  BY <1>3, <1>4, <1>5, <1>6 DEF RowsInv
<1>8. ASSUME NEW p \in UnderWay, p # q, request[p] \in RequestState, Knows(request[p]),
             Holds(request[p], budget, expense, raced)
      PROVE  Holds(request[p], budget', expense', raced')
  <2> DEFINE r == request[p]
  <2>1. "update" \in raced'
    BY <1>8 DEF Overlap, Grows, Knows
  <2>2. CASE r.pc \in {"idle", "gone"}
    BY <2>2 DEF Holds
  <2>3. CASE r.pc \notin {"idle", "gone"}
    <3>1. r.id \in Ids
      BY <1>8, <2>3 DEF Knows
    <3>2. budget'[r.id].status = budget[r.id].status
      BY <1>2, <3>1
    <3> HIDE DEF r
    <3> QED
      BY <1>8, <2>1, <3>2 DEF Holds, Grows, r
  <2> QED
    BY <2>2, <2>3
<1> QED
  BY <1>7, <1>8 DEF Keeps

(* The completion of b by q.                                                *)
LEMMA CompletedRows ==
    ASSUME RowsInv, Grows, NEW q \in UnderWay, request[q] \in RequestState, Overlap,
           NEW b \in Ids, budget[b].status = "open", Knows(request[q]), request[q].pc = "close",
           NEW row \in RowState, row.status = "completed", row.created = budget[b].created,
           row.currency = budget[b].currency, Dated(row),
           budget' = [budget EXCEPT ![b] = row], expense' = expense
    PROVE  /\ RowsInv'
           /\ \A p \in UnderWay : p # q /\ request[p] \in RequestState /\ Knows(request[p])
                                  => Keeps(request[p])
<1>1. \A i \in Ids : budget'[i] = IF i = b THEN row ELSE budget[i]
  BY DEF RowsInv, RowsTyped
<1>2. RowsTyped'
  BY <1>1 DEF RowsInv, RowsTyped, Whole, Dated
<1>3. RowsHold'
  <2>1. \A i \in Ids : Exists(i)' = Exists(i) /\ budget'[i].created = budget[i].created
    BY <1>1 DEF Exists
  <2> QED
    BY <2>1 DEF RowsInv, RowsTyped, RowsHold, ExpenseState
<1>4. CompletedDated'
  BY <1>1 DEF RowsInv, CompletedDated, Grows, Dated
<1>5. SpendInBudgetCurrency'
  <2>1. \A i \in Ids : budget'[i].currency = budget[i].currency
    BY <1>1
  <2> QED
    BY <2>1 DEF RowsInv, RowsTyped, ExpenseState, SpendInBudgetCurrency, Grows
<1>6. RowsInv'
  BY <1>2, <1>3, <1>4, <1>5 DEF RowsInv
<1>7. ASSUME NEW p \in UnderWay, p # q, request[p] \in RequestState, Knows(request[p]),
             Holds(request[p], budget, expense, raced)
      PROVE  Holds(request[p], budget', expense', raced')
  <2> DEFINE r == request[p]
  <2>1. {"complete", r.kind} \subseteq raced'
    BY <1>7 DEF Overlap, Grows, Knows
  <2>2. CASE r.pc \in {"idle", "gone"}
    BY <2>2 DEF Holds
  <2>3. CASE r.pc \notin {"idle", "gone"}
    <3>1. r.id \in Ids
      BY <1>7, <2>3 DEF Knows
    <3>2. /\ budget'[r.id].currency = budget[r.id].currency
          /\ budget'[r.id].status = IF r.id = b THEN "completed" ELSE budget[r.id].status
      BY <1>1, <3>1
    <3>3. Knows(r)
      BY <1>7
    <3> HIDE DEF r
    <3> QED
      BY <1>7, <2>1, <3>2, <3>3 DEF Holds, Grows, Knows, r
  <2> QED
    BY <2>2, <2>3
<1> QED
  BY <1>6, <1>7 DEF Keeps

(* The deletion of b by q: the expenses recorded on it lose their budget.     *)
LEMMA DeletedRows ==
    ASSUME RowsInv, Grows, NEW q \in UnderWay, request[q] \in RequestState, Overlap,
           NEW b \in Ids, Knows(request[q]),
           budget' = [budget EXCEPT ![b] = Deleted],
           expense' = [x \in Expenses |-> IF expense[x].budget = b
                                          THEN [expense[x] EXCEPT !.budget = NoBudget]
                                          ELSE expense[x]]
    PROVE  /\ RowsInv'
           /\ \A p \in UnderWay : p # q /\ request[p] \in RequestState /\ Knows(request[p])
                                  => Keeps(request[p])
<1>1. \A i \in Ids : budget'[i] = IF i = b THEN Deleted ELSE budget[i]
  BY DEF RowsInv, RowsTyped
<1>2. \A x \in Expenses :
         /\ expense'[x] \in ExpenseState
         /\ expense'[x].live = expense[x].live /\ expense'[x].date = expense[x].date
         /\ expense'[x].currency = expense[x].currency
         /\ expense'[x].budget = IF expense[x].budget = b THEN NoBudget ELSE expense[x].budget
  <2>1. \A e \in ExpenseState : LET n == [e EXCEPT !.budget = NoBudget] IN
           /\ n \in ExpenseState /\ n.live = e.live /\ n.date = e.date
           /\ n.currency = e.currency /\ n.budget = NoBudget
    BY DEF ExpenseState
  <2> QED
    BY <2>1 DEF RowsInv, RowsTyped
<1>3. RowsTyped'
  <2>1. expense' \in [Expenses -> ExpenseState]
    BY <1>2
  <2> QED
    BY <1>1, <2>1, AbsentTyped DEF RowsInv, RowsTyped
<1>4. RowsHold'
  <2>1. \A i \in Ids : i # b => Exists(i)' = Exists(i) /\ budget'[i] = budget[i]
    BY <1>1 DEF Exists
  <2>2. ~Exists(b)'
    BY <1>1, AbsentTyped DEF Exists
  <2> QED
    BY <1>2, <2>1, <2>2 DEF RowsInv, RowsTyped, RowsHold, ExpenseState
<1>5. CompletedDated'
  BY <1>1, AbsentTyped DEF RowsInv, CompletedDated, Grows, Dated
<1>6. SpendInBudgetCurrency'
  BY <1>1, <1>2 DEF RowsInv, RowsTyped, ExpenseState, SpendInBudgetCurrency, Grows
<1>7. RowsInv'
  BY <1>3, <1>4, <1>5, <1>6 DEF RowsInv
<1>8. ASSUME NEW p \in UnderWay, p # q, request[p] \in RequestState, Knows(request[p]),
             Holds(request[p], budget, expense, raced)
      PROVE  Holds(request[p], budget', expense', raced')
  <2> DEFINE r == request[p]
  <2>1. r.kind \in raced'
    BY <1>8 DEF Overlap, Grows
  <2>2. CASE r.pc \in {"idle", "gone"}
    BY <2>2 DEF Holds
  <2>3. CASE r.pc \notin {"idle", "gone"}
    <3>1. r.id \in Ids
      BY <1>8, <2>3 DEF Knows
    <3>2. budget'[r.id] = IF r.id = b THEN Deleted ELSE budget[r.id]
      BY <1>1, <3>1
    <3>3. Knows(r)
      BY <1>8
    <3>4. Unspent(r.id, expense) => Unspent(r.id, expense')
      BY <1>2, <3>1, BudgetsAssumption DEF Unspent, NoBudget
    <3> HIDE DEF r
    <3> QED
      BY <1>8, <2>1, <3>2, <3>3, <3>4, AbsentTyped DEF Holds, Grows, Knows, r
  <2> QED
    BY <2>2, <2>3
<1> QED
  BY <1>7, <1>8 DEF Keeps

(* The recording of x by q, which is at "add".                              *)
LEMMA AddedRows ==
    ASSUME RowsInv, Grows, NEW q \in UnderWay, request[q] \in RequestState, Overlap,
           NEW b \in Ids, Exists(b), Knows(request[q]), Holds(request[q], budget, expense, raced),
           request[q].pc = "add", request[q].id = b, NEW x \in Expenses,
           NEW e \in ExpenseState, e.live, e.budget = b, e.date # NoDate,
           e.currency = request[q].row.currency,
           budget' = budget, expense' = [expense EXCEPT ![x] = e]
    PROVE  /\ RowsInv'
           /\ \A p \in UnderWay : p # q /\ request[p] \in RequestState /\ Knows(request[p])
                                  => Keeps(request[p])
<1>1. \A y \in Expenses : expense'[y] = IF y = x THEN e ELSE expense[y]
  BY DEF RowsInv, RowsTyped
<1>2. RowsTyped'
  BY DEF RowsInv, RowsTyped
<1>3. RowsHold'
  BY <1>1 DEF RowsInv, RowsHold, Exists
<1>4. CompletedDated'
  BY DEF RowsInv, CompletedDated, Grows, Dated
<1>5. SpendInBudgetCurrency'
  <2>1. "update" \in raced \/ e.currency = budget[b].currency
    BY DEF Holds, Exists
  <2> QED
    BY <1>1, <2>1 DEF RowsInv, SpendInBudgetCurrency, Grows
<1>6. RowsInv'
  BY <1>2, <1>3, <1>4, <1>5 DEF RowsInv
<1>7. ASSUME NEW p \in UnderWay, p # q, request[p] \in RequestState, Knows(request[p]),
             Holds(request[p], budget, expense, raced)
      PROVE  Holds(request[p], budget', expense', raced')
  <2>1. {"add", request[p].kind} \subseteq raced'
    BY <1>7 DEF Overlap, Grows, Knows
  <2> DEFINE r == request[p]
  <2>2. Knows(r) /\ Holds(r, budget, expense, raced) /\ {"add", r.kind} \subseteq raced'
    BY <1>7, <2>1
  <2> HIDE DEF r
  <2>3. Holds(r, budget', expense', raced')
    BY <2>2 DEF Holds, Grows, Knows
  <2> QED
    BY <2>3 DEF r
<1> QED
  BY <1>6, <1>7 DEF Keeps

(* The removal of x, by a request of either kind.                           *)
LEMMA RemovedRows ==
    ASSUME RowsInv, Grows, NEW x \in Expenses,
           budget' = budget, expense' = [expense EXCEPT ![x].live = FALSE]
    PROVE  /\ RowsInv'
           /\ \A r \in RequestState : Keeps(r)
<1>1. \A y \in Expenses :
         /\ expense'[y] \in ExpenseState
         /\ expense'[y].budget = expense[y].budget /\ expense'[y].date = expense[y].date
         /\ expense'[y].currency = expense[y].currency
         /\ expense'[y].live = (expense[y].live /\ y # x)
  <2> DEFINE e == [expense[x] EXCEPT !.live = FALSE]
  <2>1. expense[x] \in ExpenseState
    BY DEF RowsInv, RowsTyped
  <2>2. e \in ExpenseState /\ ~e.live /\ e.date = expense[x].date
        /\ e.currency = expense[x].currency /\ e.budget = expense[x].budget
    BY <2>1 DEF ExpenseState
  <2>3. expense' = [expense EXCEPT ![x] = e]
    OBVIOUS
  <2> HIDE DEF e
  <2>4. ASSUME NEW y \in Expenses, y # x
        PROVE  expense'[y] = expense[y] /\ expense[y] \in ExpenseState
    BY <2>3, <2>4 DEF RowsInv, RowsTyped
  <2>5. expense'[x] = e
    BY <2>3 DEF RowsInv, RowsTyped
  <2>6. ASSUME NEW y \in Expenses
        PROVE  /\ expense'[y] \in ExpenseState
               /\ expense'[y].budget = expense[y].budget /\ expense'[y].date = expense[y].date
               /\ expense'[y].currency = expense[y].currency
    BY <2>2, <2>4, <2>5
  <2>7. ASSUME NEW y \in Expenses
        PROVE  expense'[y].live = (expense[y].live /\ y # x)
    <3>1. CASE y = x
      BY <2>2, <2>5, <2>6, <3>1 DEF ExpenseState
    <3>2. CASE y # x
      BY <2>4, <3>2, Zenon DEF ExpenseState
    <3> QED
      BY <3>1, <3>2
  <2> QED
    BY <2>6, <2>7
<1>2. RowsTyped'
  <2>1. expense' \in [Expenses -> ExpenseState]
    BY <1>1 DEF RowsInv, RowsTyped
  <2> QED
    BY <2>1 DEF RowsInv, RowsTyped
<1>3. RowsHold'
  BY <1>1 DEF RowsInv, RowsHold, Exists
<1>4. CompletedDated'
  BY DEF RowsInv, CompletedDated, Grows, Dated
<1>5. SpendInBudgetCurrency'
  BY <1>1 DEF RowsInv, SpendInBudgetCurrency, Grows
<1>6. \A b : Unspent(b, expense) => Unspent(b, expense')
  BY <1>1 DEF Unspent
<1>7. RowsInv'
  BY <1>2, <1>3, <1>4, <1>5 DEF RowsInv
<1> QED
  BY <1>6, <1>7 DEF Keeps, Holds, Grows

-----------------------------------------------------------------------------
(* The steps of a request. *)

LEMMA IdleHolds ==
    ASSUME NEW r, r.pc \in {"idle", "gone"}, NEW bs, NEW xs, NEW rc
    PROVE  Holds(r, bs, xs, rc)
BY DEF Holds

(* A step of q, after which it is at s. *)
LEMMA StepKeeps ==
    ASSUME BudgetsInv, NEW q \in Requests, NEW s \in RequestState, Goto(q, s), Grows,
           now' \in 1..LastDay, changes' \in Nat, dirty' \subseteq Days,
           RowsInv', Knows(s), Holds(s, budget', expense', raced'),
           \A p \in UnderWay : p # q => Keeps(request[p]),
           \/ s.pc = "idle"
           \/ q \in UnderWay /\ s.kind = request[q].kind
           \/ \A p \in UnderWay : {s.kind, request[p].kind} \subseteq raced'
    PROVE  BudgetsInv'
<1>1. request \in [Requests -> RequestState]
  BY DEF BudgetsInv, BudgetsTyped
<1>2. \A p \in Requests : request'[p] = IF p = q THEN s ELSE request[p]
  BY <1>1 DEF Goto
<1>3. BudgetsTyped'
  BY <1>1, RowsInv' DEF Goto, BudgetsTyped, RowsInv, RowsTyped, Grows
<1>4. Overlap'
  <2>1. ASSUME NEW p \in Requests, request'[p].pc # "idle", p # q, s.pc # "idle"
        PROVE  {s.kind, request[p].kind} \subseteq raced'
    <3>1. p \in UnderWay
      BY <1>2, <2>1 DEF UnderWay
    <3>2. CASE q \in UnderWay /\ s.kind = request[q].kind
      BY <2>1, <3>1, <3>2 DEF BudgetsInv, Overlap, Grows
    <3>3. CASE \A i \in UnderWay : {s.kind, request[i].kind} \subseteq raced'
      BY <3>1, <3>3
    <3> QED
      BY <2>1, <3>2, <3>3
  <2>2. ASSUME NEW p \in UnderWay', NEW r \in UnderWay', p # r
        PROVE  {request'[p].kind, request'[r].kind} \subseteq raced'
    <3>1. p \in Requests /\ r \in Requests /\ request'[p].pc # "idle" /\ request'[r].pc # "idle"
      BY DEF UnderWay
    <3>2. CASE p # q /\ r # q
      BY <1>2, <2>2, <3>1, <3>2 DEF BudgetsInv, Overlap, Grows, UnderWay
    <3>3. CASE p = q
      BY <1>2, <2>1, <2>2, <3>1, <3>3
    <3>4. CASE r = q
      BY <1>2, <2>1, <2>2, <3>1, <3>4
    <3> QED
      BY <3>2, <3>3, <3>4
  <2> QED
    BY <2>2 DEF Overlap
<1>5. ASSUME NEW p \in Requests
      PROVE  Knows(request'[p]) /\ Holds(request'[p], budget', expense', raced')
  <2>1. CASE p = q
    BY <1>2, <2>1
  <2>2. CASE p # q /\ request[p].pc = "idle"
    BY <1>2, <2>2, IdleHolds DEF BudgetsInv
  <2>3. CASE p # q /\ request[p].pc # "idle"
    <3>1. p \in UnderWay
      BY <2>3 DEF UnderWay
    <3> QED
      BY <1>2, <2>3, <3>1 DEF BudgetsInv, Keeps
  <2> QED
    BY <2>1, <2>2, <2>3
<1> QED
  BY <1>3, <1>4, <1>5 DEF BudgetsInv, RowsInv

(* A step that leaves the rows as they are. *)
LEMMA ReadKeeps ==
    ASSUME BudgetsInv, NEW q \in Requests, NEW s \in RequestState, Goto(q, s),
           UNCHANGED <<now, budget, expense, changes, raced>>, dirty' \subseteq Days,
           Knows(s), Holds(s, budget, expense, raced),
           s.pc = "idle" \/ (q \in UnderWay /\ s.kind = request[q].kind)
    PROVE  BudgetsInv'
<1>1. RowsInv /\ Grows /\ request \in [Requests -> RequestState]
  BY InvRows DEF BudgetsInv, BudgetsTyped, Grows
<1>2. RowsInv' /\ \A r \in RequestState : Keeps(r)
  BY <1>1, SameRows
<1>3. \A p \in UnderWay : request[p] \in RequestState
  BY <1>1 DEF UnderWay
<1> QED
  BY <1>1, <1>2, <1>3, StepKeeps DEF BudgetsInv, BudgetsTyped

LEMMA AnsweredKeeps ==
    ASSUME BudgetsInv, NEW q \in Requests, Answered(q)
    PROVE  BudgetsInv'
<1>1. Holds(Idle, budget, expense, raced) /\ Idle.pc = "idle"
  BY IdleHolds DEF Idle
<1>2. Goto(q, Idle) /\ UNCHANGED <<now, budget, expense, changes, raced>> /\ dirty' \subseteq Days
  BY DEF Answered, rows, counts, BudgetsInv, BudgetsTyped
<1>3. Idle \in RequestState /\ Knows(Idle)
  BY IdleTyped
<1> QED
  BY <1>1, <1>2, <1>3, ReadKeeps

LEMMA FinishKeeps ==
    ASSUME BudgetsInv, NEW q \in Requests, NEW dates, Finish(q, dates)
    PROVE  BudgetsInv'
<1>1. Holds(Idle, budget, expense, raced) /\ Idle.pc = "idle"
  BY IdleHolds DEF Idle
<1>2. Goto(q, Idle) /\ UNCHANGED <<now, budget, expense, changes, raced>> /\ dirty' \subseteq Days
  BY DEF Finish, counts, BudgetsInv, BudgetsTyped
<1>3. Idle \in RequestState /\ Knows(Idle)
  BY IdleTyped
<1> QED
  BY <1>1, <1>2, <1>3, ReadKeeps

LEMMA SavedDays ==
    ASSUME BudgetsInv, NEW bs, NEW xs, Save(bs, xs)
    PROVE  dirty' \subseteq Days /\ budget' = bs /\ expense' = xs
BY DEF Save, ChangedDays, BudgetsInv, BudgetsTyped

LEMMA ArriveGrows ==
    ASSUME BudgetsInv, NEW q \in Requests, NEW kind, Arrive(q, kind)
    PROVE  /\ Grows /\ changes' \in Nat /\ kind \in AllKinds /\ request[q].pc = "idle"
           /\ \A p \in UnderWay : {kind, request[p].kind} \subseteq raced'
<1>1. kind \in AllKinds
  BY BudgetsAssumption DEF Arrive
<1>2. \A p \in UnderWay : request[p].kind \in AllKinds
  <2>1. ASSUME NEW p \in UnderWay
        PROVE  request[p].kind \in AllKinds
    <3>1. request[p] \in RequestState /\ Knows(request[p]) /\ request[p].pc # "idle"
      BY DEF UnderWay, BudgetsInv, BudgetsTyped
    <3> QED
      BY <3>1 DEF Knows, RequestState, Stages, AllKinds
  <2> QED
    BY <2>1
<1> QED
  BY <1>1, <1>2 DEF Arrive, Grows, BudgetsInv, BudgetsTyped

(* A request begins. *)
LEMMA StartKeeps ==
    ASSUME BudgetsInv, NEW q \in Requests, NEW kind, NEW b \in Ids, NEW state \in RequestState,
           Start(q, kind, b, state),
           \A s \in RequestState :
              /\ s.pc = state.pc /\ s.kind = kind /\ s.id = b /\ s.row = budget[b]
              /\ s.new = state.new /\ s.x = state.x /\ s.date = state.date
              => Knows(s) /\ Holds(s, budget, expense, raced')
    PROVE  BudgetsInv'
<1> DEFINE row == budget[b]
           s == [state EXCEPT !.kind = kind, !.id = b, !.row = row, !.old = row.end]
<1>1. /\ Arrive(q, kind) /\ Exists(b) /\ Goto(q, s)
      /\ UNCHANGED <<now, budget, expense, dirty>>
  BY DEF Start, rows
<1>2. row \in RowState
  BY DEF BudgetsInv, BudgetsTyped
<1>3. /\ Grows /\ changes' \in Nat /\ kind \in AllKinds
      /\ \A p \in UnderWay : {kind, request[p].kind} \subseteq raced'
  BY <1>1, ArriveGrows
<1>4. /\ s \in RequestState
      /\ s.pc = state.pc /\ s.kind = kind /\ s.id = b /\ s.row = budget[b]
      /\ s.new = state.new /\ s.x = state.x /\ s.date = state.date
  <2> HIDE DEF row
  <2>1. /\ s \in RequestState
        /\ s.pc = state.pc /\ s.kind = kind /\ s.id = b /\ s.row = row
        /\ s.new = state.new /\ s.x = state.x /\ s.date = state.date
    <3>1. row.end \in 0..LastDay
      BY <1>2 DEF RowState
    <3> QED
      BY <1>2, <1>3, <3>1 DEF RequestState
  <2> QED
    BY <2>1 DEF row
<1> HIDE DEF s
<1>5. Knows(s) /\ Holds(s, budget, expense, raced')
  BY <1>4
<1>6. RowsInv' /\ \A r \in RequestState : Keeps(r)
  BY <1>1, <1>3, InvRows, SameRows
<1>7. \A p \in UnderWay : request[p] \in RequestState
  BY DEF BudgetsInv, BudgetsTyped, UnderWay
<1>8. now' \in 1..LastDay /\ dirty' \subseteq Days /\ Holds(s, budget', expense', raced')
  BY <1>1, <1>5 DEF BudgetsInv, BudgetsTyped
<1> QED
  BY <1>1, <1>3, <1>4, <1>5, <1>6, <1>7, <1>8, StepKeeps

LEMMA StartUpdateKeeps ==
    ASSUME BudgetsInv, NEW q \in Requests, NEW b \in Ids, NEW amount \in Amounts,
           NEW currency \in Currencies, NEW range \in Ranges,
           StartUpdate(q, b, amount, currency, range)
    PROVE  BudgetsInv'
<1> DEFINE row == budget[b]
           from == range[1]
           to == range[2]
           new == [row EXCEPT !.amount = amount, !.currency = currency, !.start = from, !.end = to]
           state == [Idle EXCEPT !.pc = "check", !.new = new]
<1>1. row \in RowState /\ row.status = "open" /\ Exists(b)
  BY DEF BudgetsInv, BudgetsTyped, StartUpdate, Exists
<1>2. from \in 0..LastDay /\ to \in 0..LastDay /\ (from = NoDate) = (to = NoDate)
  BY RangeTyped
<1>3. Start(q, "update", b, state)
  BY DEF StartUpdate
<1> HIDE DEF row, from, to
<1>4. new \in RowState /\ Whole(new)
  <2>1. new \in RowState /\ new.start = from /\ new.end = to
    BY <1>1, <1>2 DEF RowState
  <2> QED
    BY <1>2, <2>1 DEF Whole
<1> HIDE DEF new
<1>5. state \in RequestState /\ state.pc = "check" /\ state.new = new
  BY <1>4, IdleTyped DEF RequestState, Stages
<1> HIDE DEF state
<1>6. ASSUME NEW s \in RequestState, s.pc = state.pc, s.kind = "update", s.id = b,
             s.row = budget[b], s.new = state.new
      PROVE  Knows(s) /\ Holds(s, budget, expense, raced')
  <2>1. Knows(s)
    BY <1>4, <1>5, <1>6 DEF Knows
  <2> QED
    BY <1>1, <1>5, <1>6, <2>1 DEF Holds, Exists, row
<1> QED
  BY <1>3, <1>5, <1>6, StartKeeps

LEMMA StartOthersKeep ==
    ASSUME BudgetsInv, NEW q \in Requests, NEW b \in Ids,
           \/ StartDelete(q, b)
           \/ \E asOf \in Days : StartComplete(q, b, asOf)
           \/ \E x \in Expenses : (\E d \in Days : StartAdd(q, b, x, d)) \/ StartRemove(q, b, x)
    PROVE  BudgetsInv'
<1>1. \A d \in Days : d \in 0..LastDay /\ d # NoDate
  BY BudgetsAssumption DEF Days, NoDate
<1>2. CASE StartDelete(q, b)
  <2> DEFINE state == [Idle EXCEPT !.pc = "count"]
  <2>1. state \in RequestState /\ state.pc = "count"
    BY IdleTyped DEF RequestState, Stages
  <2>2. Start(q, "delete", b, state)
    BY <1>2 DEF StartDelete
  <2> HIDE DEF state
  <2>3. \A s \in RequestState : s.pc = state.pc /\ s.kind = "delete" /\ s.id = b
           => Knows(s) /\ Holds(s, budget, expense, raced')
    BY <2>1, <2>2 DEF Start, Knows, Holds, Exists
  <2> QED
    BY <2>1, <2>2, <2>3, StartKeeps
<1>3. ASSUME NEW asOf \in Days, StartComplete(q, b, asOf)
      PROVE  BudgetsInv'
  <2> DEFINE state == [Idle EXCEPT !.pc = "complete", !.date = asOf]
  <2>1. state \in RequestState /\ state.pc = "complete" /\ state.date = asOf
    BY <1>1, IdleTyped DEF RequestState, Stages
  <2>2. Start(q, "complete", b, state)
    BY <1>3 DEF StartComplete
  <2> HIDE DEF state
  <2>3. \A s \in RequestState :
           s.pc = state.pc /\ s.kind = "complete" /\ s.id = b /\ s.date = state.date
           => Knows(s) /\ Holds(s, budget, expense, raced')
    BY <1>1, <2>1, <2>2 DEF Start, Knows, Holds, Exists
  <2> QED
    BY <2>1, <2>2, <2>3, StartKeeps
<1>4. ASSUME NEW x \in Expenses, NEW d \in Days, StartAdd(q, b, x, d)
      PROVE  BudgetsInv'
  <2> DEFINE state == [Idle EXCEPT !.pc = "add", !.x = x, !.date = d]
  <2>1. state \in RequestState /\ state.pc = "add" /\ state.date = d /\ state.x = x
    BY <1>1, IdleTyped DEF RequestState, Stages
  <2>2. Start(q, "add", b, state) /\ budget[b].status = "open"
    BY <1>4 DEF StartAdd
  <2> HIDE DEF state
  <2>3. \A s \in RequestState :
           /\ s.pc = state.pc /\ s.kind = "add" /\ s.id = b /\ s.date = state.date /\ s.x = state.x
           /\ s.row = budget[b]
           => Knows(s) /\ Holds(s, budget, expense, raced')
    BY <1>1, <2>1, <2>2 DEF Knows, Holds
  <2> QED
    BY <2>1, <2>2, <2>3, StartKeeps
<1>5. ASSUME NEW x \in Expenses, StartRemove(q, b, x)
      PROVE  BudgetsInv'
  <2> DEFINE state == [Idle EXCEPT !.pc = "remove", !.x = x]
  <2>1. state \in RequestState /\ state.pc = "remove" /\ state.x = x
    BY IdleTyped DEF RequestState, Stages
  <2>2. Start(q, "remove", b, state)
    BY <1>5 DEF StartRemove
  <2> HIDE DEF state
  <2>3. \A s \in RequestState :
           s.pc = state.pc /\ s.kind = "remove" /\ s.id = b /\ s.x = state.x
           => Knows(s) /\ Holds(s, budget, expense, raced')
    BY <2>1, <2>2 DEF Start, Knows, Holds, Exists
  <2> QED
    BY <2>1, <2>2, <2>3, StartKeeps
<1> QED
  BY <1>2, <1>3, <1>4, <1>5

(* What a request at a stage knows, spelled out.                            *)
LEMMA Request ==
    ASSUME BudgetsInv, NEW q \in Requests
    PROVE  /\ request[q] \in RequestState
           /\ Knows(request[q]) /\ Holds(request[q], budget, expense, raced)
           /\ request[q].pc # "idle" => q \in UnderWay
           /\ request[q].pc \notin {"idle", "gone"} =>
                 request[q].id \in Ids /\ budget[request[q].id] \in RowState
BY DEF BudgetsInv, BudgetsTyped, UnderWay, Knows

(* The earliest expense of a budget; none, when there is none.              *)
LEMMA EarliestOf ==
    ASSUME expense \in [Expenses -> ExpenseState], NEW b
    PROVE  /\ EarliestExpense(b) \in 0..LastDay
           /\ \A x \in Expenses :
                 expense[x].live /\ expense[x].budget = b /\ expense[x].date # NoDate =>
                    EarliestExpense(b) # NoDate /\ EarliestExpense(b) <= expense[x].date
           /\ RowsHold /\ EarliestExpense(b) = NoDate => Unspent(b, expense)
<1> DEFINE dates == {expense[x].date : x \in {y \in Expenses : expense[y].live
                                                              /\ expense[y].budget = b}}
<1>1. dates \in SUBSET (0..LastDay)
  BY DEF ExpenseState
<1>2. \A x \in Expenses : expense[x].live /\ expense[x].budget = b => expense[x].date \in dates
  OBVIOUS
<1>3. EarliestExpense(b) = HistoryFrom(dates)
  BY DEF EarliestExpense
<1> HIDE DEF dates
<1>4. /\ HistoryFrom(dates) \in 0..LastDay
      /\ \A d \in dates : d # NoDate => HistoryFrom(dates) # NoDate /\ HistoryFrom(dates) <= d
  BY <1>1, EarliestDate
<1> QED
  BY <1>2, <1>3, <1>4 DEF RowsHold, Unspent

LEMMA CheckKeeps ==
    ASSUME BudgetsInv, NEW q \in Requests, CheckUpdate(q)
    PROVE  BudgetsInv'
<1> DEFINE r == request[q]
           earliest == EarliestExpense(r.id)
           s == [r EXCEPT !.pc = "update", !.earliest = earliest]
<1>1. r \in RequestState /\ Knows(r) /\ Holds(r, budget, expense, raced) /\ r.pc = "check"
      /\ q \in UnderWay /\ r.id \in Ids
  BY Request DEF CheckUpdate
<1>2. UNCHANGED <<now, budget, expense, changes, raced>> /\ dirty' \subseteq Days
  BY DEF CheckUpdate, rows, counts, BudgetsInv, BudgetsTyped
<1>3. earliest \in 0..LastDay /\ (earliest = NoDate => Unspent(r.id, expense))
  BY EarliestOf DEF BudgetsInv, BudgetsTyped
<1>4. \/ Goto(q, Idle)
      \/ Goto(q, s) /\ (r.new.currency = r.row.currency \/ earliest = NoDate)
  BY DEF CheckUpdate
<1> HIDE DEF r, earliest
<1>5. CASE Goto(q, Idle)
  BY <1>2, <1>5, AnsweredKeeps DEF Answered, rows, counts, CheckUpdate
<1>6. CASE Goto(q, s) /\ (r.new.currency = r.row.currency \/ earliest = NoDate)
  <2>1. s \in RequestState /\ s.pc = "update" /\ s.kind = r.kind /\ s.id = r.id
        /\ s.new = r.new /\ s.x = r.x /\ s.date = r.date
    BY <1>1, <1>3 DEF RequestState, Stages
  <2> HIDE DEF s
  <2>2. Knows(s)
    BY <1>1, <2>1 DEF Knows
  <2>3. Holds(s, budget, expense, raced)
    BY <1>1, <1>3, <1>6, <2>1 DEF Holds
  <2>4. s.kind = request[q].kind
    BY <2>1 DEF r
  <2> QED
    BY <1>1, <1>2, <1>6, <2>1, <2>2, <2>3, <2>4, ReadKeeps
<1> QED
  BY <1>4, <1>5, <1>6

LEMMA CountKeeps ==
    ASSUME BudgetsInv, NEW q \in Requests, Count(q)
    PROVE  BudgetsInv'
<1> DEFINE r == request[q]
           s == [r EXCEPT !.pc = "delete"]
<1>1. r \in RequestState /\ Knows(r) /\ Holds(r, budget, expense, raced) /\ r.pc = "count"
      /\ q \in UnderWay /\ r.id \in Ids
  BY Request DEF Count
<1>2. UNCHANGED <<now, budget, expense, changes, raced>> /\ dirty' \subseteq Days
  BY DEF Count, rows, counts, BudgetsInv, BudgetsTyped
<1>3. EarliestExpense(r.id) = NoDate => Unspent(r.id, expense)
  BY EarliestOf DEF BudgetsInv, BudgetsTyped
<1>4. \/ Goto(q, Idle)
      \/ Goto(q, s) /\ EarliestExpense(r.id) = NoDate
  BY DEF Count
<1> HIDE DEF r
<1>5. CASE Goto(q, Idle)
  BY <1>2, <1>5, AnsweredKeeps DEF Answered, rows, counts, Count
<1>6. CASE Goto(q, s) /\ EarliestExpense(r.id) = NoDate
  <2>1. s \in RequestState /\ s.pc = "delete" /\ s.kind = r.kind /\ s.id = r.id
        /\ s.new = r.new /\ s.x = r.x /\ s.date = r.date
    BY <1>1 DEF RequestState, Stages
  <2> HIDE DEF s
  <2>2. Knows(s)
    BY <1>1, <2>1 DEF Knows
  <2>3. Holds(s, budget, expense, raced)
    BY <1>1, <1>3, <1>6, <2>1 DEF Holds
  <2>4. s.kind = request[q].kind
    BY <2>1 DEF r
  <2> QED
    BY <1>1, <1>2, <1>6, <2>1, <2>2, <2>3, <2>4, ReadKeeps
<1> QED
  BY <1>4, <1>5, <1>6

LEMMA ReadToCompleteKeeps ==
    ASSUME BudgetsInv, NEW q \in Requests, ReadToComplete(q)
    PROVE  BudgetsInv'
<1> DEFINE r == request[q]
           row == budget[r.id]
           from == StartOf(row, EarliestExpense(r.id))
           to == r.date
           new == [row EXCEPT !.status = "completed", !.end = to, !.start = from]
           s == [r EXCEPT !.pc = "close", !.new = new]
<1>1. r \in RequestState /\ Knows(r) /\ Holds(r, budget, expense, raced) /\ r.pc = "complete"
      /\ q \in UnderWay /\ r.id \in Ids /\ row \in RowState
  BY Request DEF ReadToComplete
<1>2. UNCHANGED <<now, budget, expense, changes, raced>> /\ dirty' \subseteq Days
  BY DEF ReadToComplete, rows, counts, BudgetsInv, BudgetsTyped
<1>3. EarliestExpense(r.id) \in 0..LastDay
  BY EarliestOf DEF BudgetsInv, BudgetsTyped
<1>4. \/ Goto(q, Idle)
      \/ Goto(q, s) /\ row.status = "open"
  BY DEF ReadToComplete
<1>5. row.status = "open" => from \in 0..LastDay /\ from # NoDate
  <2>1. row.status = "open" => row.created # NoDate
    BY <1>1 DEF BudgetsInv, RowsHold, Exists
  <2> QED
    BY <1>1, <1>3, <2>1 DEF StartOf, Dated, RowState
<1>6. to \in 0..LastDay /\ to # NoDate
  BY <1>1 DEF RequestState, Knows
<1> HIDE DEF r, from, to, row
<1>7. CASE Goto(q, Idle)
  BY <1>2, <1>7, AnsweredKeeps DEF Answered, rows, counts, ReadToComplete
<1>8. CASE Goto(q, s) /\ row.status = "open"
  <2>1. new \in RowState /\ Dated(new)
    BY <1>1, <1>5, <1>6, <1>8 DEF RowState, Dated
  <2> HIDE DEF new
  <2>2. s \in RequestState /\ s.pc = "close" /\ s.kind = r.kind /\ s.id = r.id
        /\ s.new = new /\ s.x = r.x /\ s.date = r.date
    BY <1>1, <2>1 DEF RequestState, Stages
  <2> HIDE DEF s
  <2>3. Knows(s)
    BY <1>1, <2>1, <2>2 DEF Knows
  <2>4. Holds(s, budget, expense, raced)
    BY <1>1, <2>2 DEF Holds
  <2>5. s.kind = request[q].kind
    BY <2>2 DEF r
  <2> QED
    BY <1>1, <1>2, <1>8, <2>2, <2>3, <2>4, <2>5, ReadKeeps
<1> QED
  BY <1>4, <1>7, <1>8

(* A request under way moves on to another stage. *)
LEMMA MovedTyped ==
    ASSUME NEW r \in RequestState, NEW stage \in Stages
    PROVE  LET s == [r EXCEPT !.pc = stage] IN
           /\ s \in RequestState /\ s.pc = stage /\ s.kind = r.kind /\ s.id = r.id /\ s.x = r.x
           /\ s.old = r.old /\ s.new = r.new /\ s.date = r.date /\ s.earliest = r.earliest
BY DEF RequestState

LEMMA CreateKeeps ==
    ASSUME BudgetsInv, NEW q \in Requests, NEW b \in Ids, NEW amount \in Amounts,
           NEW currency \in Currencies, NEW range \in Ranges,
           Create(q, b, amount, currency, range)
    PROVE  BudgetsInv'
<1> DEFINE row == [status |-> "open", amount |-> amount, currency |-> currency,
                   start |-> range[1], end |-> range[2], created |-> now]
           s == [Idle EXCEPT !.pc = "created", !.kind = "create", !.id = b, !.new = row]
<1>1. /\ Arrive(q, "create") /\ budget[b] = Absent /\ Goto(q, s) /\ UNCHANGED now
      /\ Save([budget EXCEPT ![b] = row], expense)
  BY DEF Create
<1>2. row \in RowState /\ row.status = "open" /\ row.created # NoDate /\ Whole(row)
  <2>1. now \in 1..LastDay
    BY DEF BudgetsInv, BudgetsTyped
  <2>2. range[1] \in 0..LastDay /\ range[2] \in 0..LastDay
        /\ (range[1] = NoDate) = (range[2] = NoDate)
    BY RangeTyped
  <2>3. row \in RowState
    BY <2>1, <2>2, OpenTyped
  <2> QED
    BY <2>1, <2>2, <2>3 DEF Whole, NoDate
<1>3. /\ Grows /\ changes' \in Nat
      /\ \A p \in UnderWay : {"create", request[p].kind} \subseteq raced'
  BY <1>1, ArriveGrows
<1> HIDE DEF row
<1>4. s \in RequestState /\ s.pc = "created" /\ s.kind = "create" /\ s.id = b
  BY <1>2, IdleTyped DEF RequestState, Stages, AllKinds
<1> HIDE DEF s
<1>5. budget' = [budget EXCEPT ![b] = row] /\ expense' = expense /\ dirty' \subseteq Days
  BY <1>1, SavedDays
<1>6. RowsInv' /\ \A r \in RequestState : Keeps(r)
  BY <1>1, <1>2, <1>3, <1>5, InvRows, AbsentTyped, CreatedRows
<1>7. \A p \in UnderWay : Keeps(request[p])
  BY <1>6 DEF BudgetsInv, BudgetsTyped, UnderWay
<1>8. Knows(s) /\ Holds(s, budget', expense', raced')
  <2>1. budget'[b] = row
    BY <1>5 DEF BudgetsInv, BudgetsTyped
  <2> QED
    BY <1>2, <1>4, <2>1 DEF Knows, Holds
<1>9. now' \in 1..LastDay
  BY <1>1 DEF BudgetsInv, BudgetsTyped
<1> QED
  BY <1>1, <1>3, <1>4, <1>5, <1>6, <1>7, <1>8, <1>9, StepKeeps

(* The end of a request's transaction: it goes on at stage.                  *)
LEMMA WrittenKeeps ==
    ASSUME BudgetsInv, NEW q \in UnderWay, NEW s \in RequestState, Goto(q, s),
           s.pc \in {"updated", "deleted", "completed", "added", "removed"},
           s.kind = request[q].kind, Knows(s), s.id \in Ids, budget'[s.id].status # "absent",
           RowsInv', \A p \in UnderWay : p # q => Keeps(request[p]),
           dirty' \subseteq Days, UNCHANGED <<now, changes, raced>>
    PROVE  BudgetsInv'
<1>1. q \in Requests /\ now' \in 1..LastDay /\ changes' \in Nat /\ Grows
  BY DEF UnderWay, BudgetsInv, BudgetsTyped, Grows
<1>2. Holds(s, budget', expense', raced')
  BY DEF Holds
<1> QED
  BY <1>1, <1>2, StepKeeps

LEMMA UpdateKeeps ==
    ASSUME BudgetsInv, NEW q \in Requests, Update(q)
    PROVE  BudgetsInv'
<1> DEFINE r == request[q]
           old == budget[r.id]
           new == r.new
           row == [old EXCEPT !.amount = new.amount, !.currency = new.currency,
                              !.start = new.start, !.end = new.end]
           s == [r EXCEPT !.pc = "updated"]
<1>1. r \in RequestState /\ Knows(r) /\ Holds(r, budget, expense, raced) /\ r.pc = "update"
      /\ q \in UnderWay /\ r.id \in Ids /\ old \in RowState
  BY Request DEF Update
<1>2. UNCHANGED <<now, changes, raced>> /\ Grows
  BY DEF Update, counts, Grows, BudgetsInv, BudgetsTyped
<1>3. CASE ~Exists(r.id)
  BY <1>1, <1>3, AnsweredKeeps DEF Update, Answered
<1>4. CASE Exists(r.id)
  <2>1. Save([budget EXCEPT ![r.id] = row], expense) /\ Goto(q, s)
    BY <1>4 DEF Update
  <2>2. new \in RowState /\ Whole(new)
    BY <1>1 DEF RequestState, Knows
  <2> HIDE DEF old, new
  <2>3. /\ row \in RowState /\ row.status = old.status /\ row.created = old.created
        /\ row.currency = new.currency /\ row.start = new.start /\ row.end = new.end
    BY <1>1, <2>2 DEF RowState
  <2> HIDE DEF row
  <2>4. /\ budget' = [budget EXCEPT ![r.id] = row] /\ expense' = expense /\ dirty' \subseteq Days
    BY <2>1, SavedDays
  <2>5. Whole(row) /\ row.status = budget[r.id].status /\ row.created = budget[r.id].created
        /\ row.currency = request[q].new.currency
    BY <2>2, <2>3 DEF Whole, old, new
  <2>6. RowsInv /\ Overlap
    BY InvRows DEF BudgetsInv
  <2>7. /\ RowsInv'
        /\ \A p \in UnderWay : p # q /\ request[p] \in RequestState /\ Knows(request[p])
                               => Keeps(request[p])
    BY <1>1, <1>2, <1>4, <2>3, <2>4, <2>5, <2>6, UpdatedRows
  <2>8. \A p \in UnderWay : p # q => Keeps(request[p])
    BY <2>7, Request DEF UnderWay
  <2>9. budget'[r.id] = row
    BY <1>1, <2>4 DEF BudgetsInv, BudgetsTyped
  <2>10. row.status # "absent"
    BY <1>4, <2>5 DEF Exists
  <2> HIDE DEF r
  <2>11. s \in RequestState /\ s.pc = "updated" /\ s.kind = r.kind /\ s.id = r.id
    BY <1>1, MovedTyped DEF Stages
  <2>12. Knows(s)
    BY <1>1, <2>11 DEF Knows
  <2> HIDE DEF s
  <2>13. s.kind = request[q].kind
    BY <2>11 DEF r
  <2> QED
    BY <1>1, <1>2, <2>1, <2>4, <2>7, <2>8, <2>9, <2>10, <2>11, <2>12, <2>13, WrittenKeeps
<1> QED
  BY <1>3, <1>4

LEMMA DeleteKeeps ==
    ASSUME BudgetsInv, NEW q \in Requests, Delete(q)
    PROVE  BudgetsInv'
<1> DEFINE r == request[q]
           s == [r EXCEPT !.pc = "deleted"]
<1>1. r \in RequestState /\ Knows(r) /\ Holds(r, budget, expense, raced) /\ r.pc = "delete"
      /\ q \in UnderWay /\ r.id \in Ids
  BY Request DEF Delete
<1>2. UNCHANGED <<now, changes, raced>> /\ Grows
  BY DEF Delete, counts, Grows, BudgetsInv, BudgetsTyped
<1>3. /\ budget' = [budget EXCEPT ![r.id] = Deleted]
      /\ expense' = [x \in Expenses |-> IF expense[x].budget = r.id
                                        THEN [expense[x] EXCEPT !.budget = NoBudget]
                                        ELSE expense[x]]
      /\ dirty' \subseteq Days
  BY SavedDays DEF Delete
<1>4. Goto(q, s)
  BY DEF Delete
<1>5. RowsInv /\ Overlap
  BY InvRows DEF BudgetsInv
<1>6. /\ RowsInv'
      /\ \A p \in UnderWay : p # q /\ request[p] \in RequestState /\ Knows(request[p])
                             => Keeps(request[p])
  BY <1>1, <1>2, <1>3, <1>5, DeletedRows
<1>7. \A p \in UnderWay : p # q => Keeps(request[p])
  BY <1>6, Request DEF UnderWay
<1>8. budget'[r.id].status # "absent"
  BY <1>1, <1>3, AbsentTyped DEF BudgetsInv, BudgetsTyped
<1> HIDE DEF r
<1>9. s \in RequestState /\ s.pc = "deleted" /\ s.kind = r.kind /\ s.id = r.id
  BY <1>1, MovedTyped DEF Stages
<1>10. Knows(s)
  BY <1>1, <1>9 DEF Knows
<1> HIDE DEF s
<1>11. s.kind = request[q].kind
  BY <1>9 DEF r
<1> QED
  BY <1>1, <1>2, <1>3, <1>4, <1>6, <1>7, <1>8, <1>9, <1>10, <1>11, WrittenKeeps

LEMMA CompleteKeeps ==
    ASSUME BudgetsInv, NEW q \in Requests, Complete(q)
    PROVE  BudgetsInv'
<1> DEFINE r == request[q]
           old == budget[r.id]
           new == r.new
           row == [old EXCEPT !.status = "completed", !.start = new.start, !.end = new.end]
           s == [r EXCEPT !.pc = "completed"]
<1>1. r \in RequestState /\ Knows(r) /\ Holds(r, budget, expense, raced) /\ r.pc = "close"
      /\ q \in UnderWay /\ r.id \in Ids /\ old \in RowState
  BY Request DEF Complete
<1>2. UNCHANGED <<now, changes, raced>> /\ Grows
  BY DEF Complete, counts, Grows, BudgetsInv, BudgetsTyped
<1>3. CASE old.status # "open"
  BY <1>1, <1>3, AnsweredKeeps DEF Complete, Answered
<1>4. CASE old.status = "open"
  <2>1. Save([budget EXCEPT ![r.id] = row], expense) /\ Goto(q, s)
    BY <1>4 DEF Complete, CompleteRow
  <2>2. new \in RowState /\ Dated(new)
    BY <1>1 DEF RequestState, Knows
  <2> HIDE DEF old, new
  <2>3. /\ row \in RowState /\ row.status = "completed" /\ row.created = old.created
        /\ row.currency = old.currency /\ row.start = new.start /\ row.end = new.end
    BY <1>1, <2>2 DEF RowState
  <2> HIDE DEF row
  <2>4. /\ budget' = [budget EXCEPT ![r.id] = row] /\ expense' = expense /\ dirty' \subseteq Days
    BY <2>1, SavedDays
  <2>5. Dated(row) /\ row.created = budget[r.id].created /\ row.currency = budget[r.id].currency
        /\ budget[r.id].status = "open"
    BY <1>4, <2>2, <2>3 DEF Dated, old
  <2>6. RowsInv /\ Overlap
    BY InvRows DEF BudgetsInv
  <2>7. /\ RowsInv'
        /\ \A p \in UnderWay : p # q /\ request[p] \in RequestState /\ Knows(request[p])
                               => Keeps(request[p])
    BY <1>1, <1>2, <2>3, <2>4, <2>5, <2>6, CompletedRows
  <2>8. \A p \in UnderWay : p # q => Keeps(request[p])
    BY <2>7, Request DEF UnderWay
  <2>9. budget'[r.id].status # "absent"
    BY <1>1, <2>3, <2>4 DEF BudgetsInv, BudgetsTyped
  <2> HIDE DEF r
  <2>10. s \in RequestState /\ s.pc = "completed" /\ s.kind = r.kind /\ s.id = r.id
    BY <1>1, MovedTyped DEF Stages
  <2>11. Knows(s)
    BY <1>1, <2>10 DEF Knows
  <2> HIDE DEF s
  <2>12. s.kind = request[q].kind
    BY <2>10 DEF r
  <2> QED
    BY <1>1, <1>2, <2>1, <2>4, <2>7, <2>8, <2>9, <2>10, <2>11, <2>12, WrittenKeeps
<1> QED
  BY <1>3, <1>4

LEMMA AddKeeps ==
    ASSUME BudgetsInv, NEW q \in Requests, Add(q)
    PROVE  BudgetsInv'
<1> DEFINE r == request[q]
           e == [live |-> TRUE, budget |-> r.id, currency |-> r.row.currency, date |-> r.date]
           s == [r EXCEPT !.pc = "added"]
<1>1. r \in RequestState /\ Knows(r) /\ Holds(r, budget, expense, raced) /\ r.pc = "add"
      /\ q \in UnderWay /\ r.id \in Ids /\ r.x \in Expenses /\ r.date # NoDate
  BY Request DEF Add, Knows
<1>2. UNCHANGED <<now, changes, raced>> /\ Grows
  BY DEF Add, counts, Grows, BudgetsInv, BudgetsTyped
<1>3. CASE ~Exists(r.id)
  BY <1>1, <1>3, AnsweredKeeps DEF Add, Answered
<1>4. CASE Exists(r.id)
  <2>1. Save(budget, [expense EXCEPT ![r.x] = e]) /\ Goto(q, s)
    BY <1>4 DEF Add
  <2>2. e \in ExpenseState /\ e.live /\ e.budget = r.id /\ e.date # NoDate
        /\ e.currency = request[q].row.currency
    BY <1>1 DEF RequestState, RowState, ExpenseState
  <2> HIDE DEF e
  <2>3. /\ budget' = budget /\ expense' = [expense EXCEPT ![r.x] = e] /\ dirty' \subseteq Days
    BY <2>1, SavedDays
  <2>4. RowsInv /\ Overlap
    BY InvRows DEF BudgetsInv
  <2>5. /\ RowsInv'
        /\ \A p \in UnderWay : p # q /\ request[p] \in RequestState /\ Knows(request[p])
                               => Keeps(request[p])
    BY <1>1, <1>2, <1>4, <2>2, <2>3, <2>4, AddedRows
  <2>6. \A p \in UnderWay : p # q => Keeps(request[p])
    BY <2>5, Request DEF UnderWay
  <2>7. budget'[r.id].status # "absent"
    BY <1>4, <2>3 DEF Exists
  <2> HIDE DEF r
  <2>8. s \in RequestState /\ s.pc = "added" /\ s.kind = r.kind /\ s.id = r.id /\ s.x = r.x
    BY <1>1, MovedTyped DEF Stages
  <2>9. Knows(s)
    BY <1>1, <2>8 DEF Knows
  <2> HIDE DEF s
  <2>10. s.kind = request[q].kind
    BY <2>8 DEF r
  <2> QED
    BY <1>1, <1>2, <2>1, <2>3, <2>5, <2>6, <2>7, <2>8, <2>9, <2>10, WrittenKeeps
<1> QED
  BY <1>3, <1>4

LEMMA RemoveKeeps ==
    ASSUME BudgetsInv, NEW q \in Requests, Remove(q)
    PROVE  BudgetsInv'
<1> DEFINE r == request[q]
           day == expense[r.x].date
           s == [r EXCEPT !.pc = "removed", !.date = day]
<1>1. r \in RequestState /\ Knows(r) /\ Holds(r, budget, expense, raced) /\ r.pc = "remove"
      /\ q \in UnderWay /\ r.id \in Ids /\ r.x \in Expenses
  BY Request DEF Remove, Knows
<1>2. UNCHANGED <<now, changes, raced>> /\ Grows
  BY DEF Remove, counts, Grows, BudgetsInv, BudgetsTyped
<1>3. CASE ~(expense[r.x].live /\ expense[r.x].budget = r.id)
  BY <1>1, <1>3, AnsweredKeeps DEF Remove, Answered
<1>4. CASE expense[r.x].live /\ expense[r.x].budget = r.id
  <2>1. Save(budget, [expense EXCEPT ![r.x].live = FALSE]) /\ Goto(q, s)
    BY <1>4 DEF Remove
  <2>2. /\ budget' = budget /\ expense' = [expense EXCEPT ![r.x].live = FALSE]
        /\ dirty' \subseteq Days
    BY <2>1, SavedDays
  <2>3. RowsInv' /\ \A i \in RequestState : Keeps(i)
    BY <1>1, <1>2, <2>2, InvRows, RemovedRows
  <2>4. \A p \in UnderWay : p # q => Keeps(request[p])
    BY <2>3, Request DEF UnderWay
  <2>5. budget'[r.id].status # "absent"
    BY <1>1, <2>2 DEF Holds
  <2>6. day \in 0..LastDay
    BY <1>1 DEF BudgetsInv, BudgetsTyped, ExpenseState
  <2> HIDE DEF r, day
  <2>7. s \in RequestState /\ s.pc = "removed" /\ s.kind = r.kind /\ s.id = r.id /\ s.x = r.x
    BY <1>1, <2>6 DEF RequestState, Stages
  <2>8. Knows(s)
    BY <1>1, <2>7 DEF Knows
  <2> HIDE DEF s
  <2>9. s.kind = request[q].kind
    BY <2>7 DEF r
  <2> QED
    BY <1>1, <1>2, <2>1, <2>2, <2>3, <2>4, <2>5, <2>7, <2>8, <2>9, WrittenKeeps
<1> QED
  BY <1>3, <1>4

LEMMA DeleteExpenseKeeps ==
    ASSUME BudgetsInv, NEW q \in Requests, NEW x \in Expenses, DeleteExpense(q, x)
    PROVE  BudgetsInv'
<1> DEFINE id == expense[x].budget
           day == expense[x].date
           s == [Idle EXCEPT !.pc = "gone", !.kind = "deleteExpense", !.id = id, !.date = day]
<1>1. /\ Arrive(q, "deleteExpense") /\ Goto(q, s) /\ UNCHANGED now
      /\ Save(budget, [expense EXCEPT ![x].live = FALSE])
  BY DEF DeleteExpense
<1>2. /\ Grows /\ changes' \in Nat
      /\ \A p \in UnderWay : {"deleteExpense", request[p].kind} \subseteq raced'
  BY <1>1, ArriveGrows
<1>3. /\ budget' = budget /\ expense' = [expense EXCEPT ![x].live = FALSE]
      /\ dirty' \subseteq Days
  BY <1>1, SavedDays
<1>4. RowsInv' /\ \A i \in RequestState : Keeps(i)
  BY <1>2, <1>3, InvRows, RemovedRows
<1>5. \A p \in UnderWay : Keeps(request[p])
  BY <1>4, Request DEF UnderWay
<1>6. day \in 0..LastDay /\ id \in Ids \cup {NoBudget}
  BY DEF BudgetsInv, BudgetsTyped, ExpenseState
<1> HIDE DEF id, day
<1>7. s \in RequestState /\ s.pc = "gone" /\ s.kind = "deleteExpense"
  BY <1>6, IdleTyped DEF RequestState, Stages, AllKinds
<1> HIDE DEF s
<1>8. Knows(s) /\ Holds(s, budget', expense', raced')
  BY <1>7, IdleHolds DEF Knows
<1>9. now' \in 1..LastDay
  BY <1>1 DEF BudgetsInv, BudgetsTyped
<1> QED
  BY <1>1, <1>2, <1>3, <1>4, <1>5, <1>7, <1>8, <1>9, StepKeeps

LEMMA UnmovedKeeps ==
    ASSUME BudgetsInv, UNCHANGED <<budget, expense, request, changes, raced>>,
           now' \in 1..LastDay, dirty' \subseteq Days
    PROVE  BudgetsInv'
<1>1. RowsInv /\ Grows
  BY InvRows DEF BudgetsInv, BudgetsTyped, Grows
<1>2. RowsInv' /\ \A r \in RequestState : Keeps(r)
  BY <1>1, SameRows
<1>3. BudgetsTyped' /\ Overlap'
  BY DEF BudgetsInv, BudgetsTyped, Overlap, UnderWay
<1>4. \A q \in Requests : Knows(request'[q]) /\ Holds(request'[q], budget', expense', raced')
  BY <1>2 DEF BudgetsInv, BudgetsTyped, Keeps
<1> QED
  BY <1>2, <1>3, <1>4 DEF BudgetsInv, RowsInv

LEMMA AnswerKeeps ==
    ASSUME BudgetsInv, NEW q \in Requests, Answer(q)
    PROVE  BudgetsInv'
<1>1. ASSUME NEW b \in Ids, NEW amount \in Amounts, NEW currency \in Currencies,
             NEW range \in Ranges, Create(q, b, amount, currency, range)
                                   \/ StartUpdate(q, b, amount, currency, range)
      PROVE  BudgetsInv'
  BY <1>1, CreateKeeps, StartUpdateKeeps
<1>2. ASSUME NEW b \in Ids,
             \/ StartDelete(q, b)
             \/ \E asOf \in Days \cap ((now - 1)..(now + 1)) : StartComplete(q, b, asOf)
             \/ \E x \in Expenses : (\E d \in Days : StartAdd(q, b, x, d)) \/ StartRemove(q, b, x)
      PROVE  BudgetsInv'
  BY <1>2, StartOthersKeep
<1>3. CASE \E x \in Expenses : DeleteExpense(q, x)
  BY <1>3, DeleteExpenseKeeps
<1>4. CASE CheckUpdate(q) \/ Count(q) \/ ReadToComplete(q)
  BY <1>4, CheckKeeps, CountKeeps, ReadToCompleteKeeps
<1>5. CASE Update(q) \/ Delete(q) \/ Complete(q) \/ Add(q) \/ Remove(q)
  BY <1>5, UpdateKeeps, DeleteKeeps, CompleteKeeps, AddKeeps, RemoveKeeps
<1>6. CASE FinishCreate(q) \/ FinishUpdate(q) \/ FinishDelete(q) \/ FinishRemove(q)
           \/ FinishDeleteExpense(q)
  BY <1>6, FinishKeeps
     DEF FinishCreate, FinishUpdate, FinishDelete, FinishRemove, FinishDeleteExpense
<1>7. CASE FinishComplete(q) \/ FinishAdd(q)
  BY <1>7, FinishKeeps, AnsweredKeeps DEF FinishComplete, FinishAdd
<1> QED
  BY <1>1, <1>2, <1>3, <1>4, <1>5, <1>6, <1>7 DEF Answer

THEOREM BudgetsInvariant == Spec => []BudgetsInv
<1>1. Init => BudgetsInv
  <2> SUFFICES ASSUME Init
               PROVE  BudgetsInv
    OBVIOUS
  <2>1. NoExpense \in ExpenseState /\ ~NoExpense.live
    BY BudgetsAssumption DEF NoExpense, ExpenseState, NoBudget, NoDate
  <2>2. BudgetsTyped
    BY <2>1, AbsentTyped, IdleTyped, BudgetsAssumption DEF Init, BudgetsTyped
  <2>3. RowsHold /\ CompletedDated /\ SpendInBudgetCurrency
    BY <2>1, AbsentTyped DEF Init, RowsHold, CompletedDated, SpendInBudgetCurrency, Exists
  <2>4. UnderWay = {} /\ \A q \in Requests : request[q] = Idle
    BY DEF Init, UnderWay, Idle
  <2>5. \A q \in Requests : Knows(request[q]) /\ Holds(request[q], budget, expense, raced)
    BY <2>4, IdleTyped, IdleHolds DEF Idle
  <2> QED
    BY <2>2, <2>3, <2>4, <2>5 DEF BudgetsInv, Overlap
<1>2. BudgetsInv /\ [Next]_vars => BudgetsInv'
  <2> SUFFICES ASSUME BudgetsInv, [Next]_vars
               PROVE  BudgetsInv'
    OBVIOUS
  <2>1. CASE \E q \in Requests : Answer(q)
    BY <2>1, AnswerKeeps
  <2>2. CASE Tick
    <3>1. now' \in 1..LastDay
      BY <2>2, BudgetsAssumption DEF Tick, BudgetsInv, BudgetsTyped
    <3>2. dirty' \subseteq Days
      BY <2>2 DEF Tick, Frozen, BudgetsInv, BudgetsTyped
    <3> QED
      BY <2>2, <3>1, <3>2, UnmovedKeeps DEF Tick, counts
  <2>3. CASE UNCHANGED vars
    BY <2>3, UnmovedKeeps DEF vars, BudgetsInv, BudgetsTyped
  <2> QED
    BY <2>1, <2>2, <2>3 DEF Next
<1> QED
  BY <1>1, <1>2, PTL DEF Spec

-----------------------------------------------------------------------------
(* What follows. *)

(* TypeOK: every variable has its type, a budget has both dates or none.     *)
THEOREM BudgetsTypes == Spec => []TypeOK
<1>1. BudgetsInv => TypeOK
  BY DEF BudgetsInv, BudgetsTyped, TypeOK, RequestState, ExpenseState, Stages, Whole
<1> QED
  BY <1>1, BudgetsInvariant, PTL

(* budgets.rs:147: what is spent is a sum of amounts in the budget's currency, *)
(* unless an update has raced another request.                              *)
THEOREM SpendCurrency == Spec => []SpendInBudgetCurrency
<1>1. BudgetsInv => SpendInBudgetCurrency
  BY DEF BudgetsInv
<1> QED
  BY <1>1, BudgetsInvariant, PTL

(* The steps that write rows; every other step leaves them as they are.      *)
Writes(q) ==
    \/ \E b \in Ids, amount \in Amounts, currency \in Currencies, range \in Ranges :
          Create(q, b, amount, currency, range)
    \/ Update(q) \/ Delete(q) \/ Complete(q) \/ Add(q) \/ Remove(q)
    \/ \E x \in Expenses : DeleteExpense(q, x)

LEMMA WhatWrites ==
    ASSUME [Next]_vars
    PROVE  UNCHANGED <<budget, expense>> \/ \E q \in Requests : Writes(q)
<1>1. ASSUME NEW q \in Requests, Answer(q)
      PROVE  UNCHANGED <<budget, expense>> \/ Writes(q)
  BY <1>1
  DEF Answer, Writes, Start, StartUpdate, StartDelete, StartComplete, StartAdd, StartRemove,
      CheckUpdate, Count, ReadToComplete, FinishCreate, FinishUpdate, FinishDelete, FinishComplete,
      FinishAdd, FinishRemove, FinishDeleteExpense, Finish, Answered, rows
<1>2. Tick => UNCHANGED <<budget, expense>>
  BY DEF Tick
<1>3. UNCHANGED vars => UNCHANGED <<budget, expense>>
  BY DEF vars
<1> QED
  BY <1>1, <1>2, <1>3 DEF Next

(* The expense a request is about to record is not there yet, and no other     *)
(* request is about to record it.                                           *)
Fresh ==
    \A q \in Requests : request[q].pc = "add" =>
        /\ ~expense[request[q].x].live
        /\ \A p \in Requests : p # q /\ request[p].pc = "add" => request[p].x # request[q].x

LEMMA OthersStay ==
    ASSUME BudgetsInv, NEW q \in Requests, Answer(q)
    PROVE  /\ request' = [request EXCEPT ![q] = request'[q]]
           /\ \A p \in Requests : p # q => request'[p] = request[p]
<1>1. request \in [Requests -> RequestState]
  BY DEF BudgetsInv, BudgetsTyped
<1>2. ASSUME NEW s, Goto(q, s)
      PROVE  /\ request' = [request EXCEPT ![q] = request'[q]]
             /\ \A p \in Requests : p # q => request'[p] = request[p]
  BY <1>1, <1>2 DEF Goto
<1>3. \E s : Goto(q, s)
  BY DEF Answer, Create, Start, StartUpdate, StartDelete, StartComplete, StartAdd, StartRemove,
         CheckUpdate, Count, ReadToComplete, FinishCreate, FinishUpdate, FinishDelete,
         FinishComplete, FinishAdd, FinishRemove, FinishDeleteExpense, Finish, Answered,
         Update, Delete, Complete, CompleteRow, Add, Remove, DeleteExpense
<1> QED
  BY <1>2, <1>3

(* Where a step takes its request.                                          *)
LEMMA Goes ==
    ASSUME BudgetsInv, NEW q \in Requests, NEW s, Goto(q, s)
    PROVE  request'[q] = s
BY DEF Goto, BudgetsInv, BudgetsTyped

LEMMA Begins ==
    ASSUME BudgetsInv, NEW q \in Requests, NEW kind, NEW b \in Ids, NEW state \in RequestState,
           Start(q, kind, b, state)
    PROVE  /\ Arrive(q, kind) /\ Exists(b) /\ UNCHANGED <<budget, expense, dirty>>
           /\ request'[q].pc = state.pc /\ request'[q].id = b
           /\ request'[q].old = budget[b].end
           /\ request'[q].x = state.x /\ request'[q].date = state.date
<1> DEFINE row == budget[b]
           s == [state EXCEPT !.kind = kind, !.id = b, !.row = row, !.old = row.end]
<1>1. /\ Arrive(q, kind) /\ Exists(b) /\ Goto(q, s) /\ UNCHANGED <<budget, expense, dirty>>
  BY DEF Start, rows
<1>2. s.pc = state.pc /\ s.id = b /\ s.old = row.end /\ s.x = state.x /\ s.date = state.date
  <2> HIDE DEF row
  <2> QED
    BY DEF RequestState
<1> HIDE DEF s
<1> QED
  BY <1>1, <1>2, Goes

(* The start of a request, whatever its kind. *)
Begun(q, b, stage) ==
    /\ request[q].pc = "idle" /\ Exists(b) /\ UNCHANGED <<budget, expense, dirty>>
    /\ UnderWay # {} => raced' # {}
    /\ request'[q].pc = stage /\ request'[q].id = b /\ request'[q].old = budget[b].end

LEMMA BeginsAtStage ==
    ASSUME BudgetsInv, NEW q \in Requests, NEW b \in Ids
    PROVE  /\ \A amount \in Amounts, currency \in Currencies, range \in Ranges :
                 StartUpdate(q, b, amount, currency, range) => Begun(q, b, "check")
           /\ StartDelete(q, b) => Begun(q, b, "count")
           /\ \A asOf \in Days : StartComplete(q, b, asOf) => Begun(q, b, "complete")
           /\ \A x \in Expenses, d \in Days :
                 StartAdd(q, b, x, d) => Begun(q, b, "add") /\ request'[q].x = x
           /\ \A x \in Expenses : StartRemove(q, b, x) => Begun(q, b, "remove")
<1>1. \A d \in Days : d \in 0..LastDay
  BY BudgetsAssumption DEF Days
<1>2. \A kind : Arrive(q, kind) => request[q].pc = "idle" /\ (UnderWay # {} => raced' # {})
  BY DEF Arrive
<1>3. ASSUME NEW kind, NEW state \in RequestState, Start(q, kind, b, state)
      PROVE  Begun(q, b, state.pc) /\ request'[q].x = state.x
  BY <1>2, <1>3, Begins DEF Begun
<1>4. ASSUME NEW amount \in Amounts, NEW currency \in Currencies, NEW range \in Ranges,
             StartUpdate(q, b, amount, currency, range)
      PROVE  Begun(q, b, "check")
  <2> DEFINE row == budget[b]
             from == range[1]
             to == range[2]
             new == [row EXCEPT !.amount = amount, !.currency = currency, !.start = from, !.end = to]
             state == [Idle EXCEPT !.pc = "check", !.new = new]
  <2>1. row \in RowState /\ from \in 0..LastDay /\ to \in 0..LastDay
    BY RangeTyped DEF BudgetsInv, BudgetsTyped
  <2>2. Start(q, "update", b, state)
    BY <1>4 DEF StartUpdate
  <2> HIDE DEF row, from, to
  <2>3. new \in RowState
    BY <2>1 DEF RowState
  <2> HIDE DEF new
  <2>4. state \in RequestState /\ state.pc = "check"
    BY <2>3, IdleTyped DEF RequestState, Stages
  <2> HIDE DEF state
  <2> QED
    BY <1>3, <2>2, <2>4
<1>5. ASSUME StartDelete(q, b)
      PROVE  Begun(q, b, "count")
  <2> DEFINE state == [Idle EXCEPT !.pc = "count"]
  <2>1. state \in RequestState /\ state.pc = "count"
    BY IdleTyped DEF RequestState, Stages
  <2>2. Start(q, "delete", b, state)
    BY <1>5 DEF StartDelete
  <2> HIDE DEF state
  <2> QED
    BY <1>3, <2>1, <2>2
<1>6. ASSUME NEW asOf \in Days, StartComplete(q, b, asOf)
      PROVE  Begun(q, b, "complete")
  <2> DEFINE state == [Idle EXCEPT !.pc = "complete", !.date = asOf]
  <2>1. state \in RequestState /\ state.pc = "complete"
    BY <1>1, IdleTyped DEF RequestState, Stages
  <2>2. Start(q, "complete", b, state)
    BY <1>6 DEF StartComplete
  <2> HIDE DEF state
  <2> QED
    BY <1>3, <2>1, <2>2
<1>7. ASSUME NEW x \in Expenses, NEW d \in Days, StartAdd(q, b, x, d)
      PROVE  Begun(q, b, "add") /\ request'[q].x = x
  <2> DEFINE state == [Idle EXCEPT !.pc = "add", !.x = x, !.date = d]
  <2>1. state \in RequestState /\ state.pc = "add" /\ state.x = x
    BY <1>1, IdleTyped DEF RequestState, Stages
  <2>2. Start(q, "add", b, state)
    BY <1>7 DEF StartAdd
  <2> HIDE DEF state
  <2> QED
    BY <1>3, <2>1, <2>2
<1>8. ASSUME NEW x \in Expenses, StartRemove(q, b, x)
      PROVE  Begun(q, b, "remove")
  <2> DEFINE state == [Idle EXCEPT !.pc = "remove", !.x = x]
  <2>1. state \in RequestState /\ state.pc = "remove"
    BY IdleTyped DEF RequestState, Stages
  <2>2. Start(q, "remove", b, state)
    BY <1>8 DEF StartRemove
  <2> HIDE DEF state
  <2> QED
    BY <1>3, <2>1, <2>2
<1> QED
  BY <1>4, <1>5, <1>6, <1>7, <1>8

(* What a request takes from one stage to the next. *)
Same(q) ==
    /\ request'[q].id = request[q].id /\ request'[q].old = request[q].old
    /\ request'[q].new = request[q].new /\ request'[q].x = request[q].x
    /\ request'[q].date = request[q].date /\ request'[q].earliest = request[q].earliest
Ended(q) == request'[q].pc = "idle" /\ UNCHANGED rows

LEMMA Moved ==
    ASSUME BudgetsInv, NEW q \in Requests, NEW stage \in Stages,
           Goto(q, [request[q] EXCEPT !.pc = stage])
    PROVE  request'[q].pc = stage /\ Same(q)
<1> DEFINE r == request[q]
           s == [r EXCEPT !.pc = stage]
<1>1. r \in RequestState /\ request'[q] = s
  BY Request, Goes
<1> HIDE DEF r
<1>2. s.pc = stage /\ s.id = r.id /\ s.x = r.x
      /\ s.old = r.old /\ s.new = r.new /\ s.date = r.date /\ s.earliest = r.earliest
  BY <1>1 DEF RequestState
<1> HIDE DEF s
<1> QED
  BY <1>1, <1>2 DEF Same, r

LEMMA MovesOn ==
    ASSUME BudgetsInv, NEW q \in Requests
    PROVE  /\ Update(q) => Ended(q) \/ (request'[q].pc = "updated" /\ Same(q))
           /\ Count(q) => \/ Ended(q)
                          \/ /\ request'[q].pc = "delete" /\ Same(q) /\ UNCHANGED rows
                             /\ EarliestExpense(request[q].id) = NoDate
           /\ Delete(q) => request'[q].pc = "deleted" /\ Same(q)
           /\ Complete(q) => Ended(q) \/ (request'[q].pc = "completed" /\ Same(q))
           /\ Add(q) => Ended(q) \/ (request'[q].pc = "added" /\ Same(q))
<1>1. Goto(q, Idle) => request'[q].pc = "idle"
  BY Goes DEF Idle
<1>2. \A stage \in Stages :
         Goto(q, [request[q] EXCEPT !.pc = stage]) => request'[q].pc = stage /\ Same(q)
  BY Moved
<1>3. {"updated", "delete", "deleted", "completed", "added"} \subseteq Stages
  BY DEF Stages
<1>4. Update(q) => Ended(q) \/ (request'[q].pc = "updated" /\ Same(q))
  BY <1>1, <1>2, <1>3 DEF Update, Ended
<1>5. Count(q) => \/ Ended(q)
                  \/ /\ request'[q].pc = "delete" /\ Same(q) /\ UNCHANGED rows
                     /\ EarliestExpense(request[q].id) = NoDate
  BY <1>1, <1>2, <1>3 DEF Count, Ended
<1>6. Delete(q) => request'[q].pc = "deleted" /\ Same(q)
  BY <1>2, <1>3 DEF Delete
<1>7. Complete(q) => Ended(q) \/ (request'[q].pc = "completed" /\ Same(q))
  BY <1>1, <1>2, <1>3 DEF Complete, CompleteRow, Ended
<1>8. Add(q) => Ended(q) \/ (request'[q].pc = "added" /\ Same(q))
  BY <1>1, <1>2, <1>3 DEF Add, Ended
<1> QED
  BY <1>4, <1>5, <1>6, <1>7, <1>8

LEMMA ReadsOn ==
    ASSUME BudgetsInv, NEW q \in Requests
    PROVE  /\ CheckUpdate(q) =>
                 \/ Ended(q)
                 \/ /\ request'[q].pc = "update" /\ UNCHANGED rows
                    /\ request'[q].id = request[q].id /\ request'[q].old = request[q].old
                    /\ request'[q].earliest = EarliestExpense(request[q].id)
           /\ ReadToComplete(q) =>
                 \/ Ended(q)
                 \/ /\ request'[q].pc = "close" /\ UNCHANGED rows
                    /\ request'[q].id = request[q].id /\ request'[q].old = request[q].old
           /\ Remove(q) =>
                 \/ Ended(q)
                 \/ /\ request'[q].pc = "removed" /\ request'[q].old = request[q].old
                    /\ request'[q].id = request[q].id
                    /\ request'[q].date = expense[request[q].x].date
<1> DEFINE r == request[q]
<1>1. r \in RequestState
  BY Request
<1>2. Goto(q, Idle) => request'[q].pc = "idle"
  BY Goes DEF Idle
<1>3. CheckUpdate(q) => \/ Ended(q)
                        \/ /\ request'[q].pc = "update" /\ UNCHANGED rows
                           /\ request'[q].id = r.id /\ request'[q].old = r.old
                           /\ request'[q].earliest = EarliestExpense(r.id)
  <2> DEFINE earliest == EarliestExpense(r.id)
             s == [r EXCEPT !.pc = "update", !.earliest = earliest]
  <2>1. CheckUpdate(q) => UNCHANGED rows /\ (Goto(q, Idle) \/ Goto(q, s))
    BY DEF CheckUpdate
  <2> HIDE DEF r, earliest
  <2>2. s.pc = "update" /\ s.id = r.id /\ s.old = r.old /\ s.earliest = earliest
    BY <1>1 DEF RequestState
  <2> HIDE DEF s
  <2> QED
    BY <1>2, <2>1, <2>2, Goes DEF Ended, earliest
<1>4. ReadToComplete(q) => \/ Ended(q)
                           \/ /\ request'[q].pc = "close" /\ UNCHANGED rows
                              /\ request'[q].id = r.id /\ request'[q].old = r.old
  <2> DEFINE new == [budget[r.id] EXCEPT !.status = "completed", !.end = r.date,
                                         !.start = StartOf(budget[r.id], EarliestExpense(r.id))]
             s == [r EXCEPT !.pc = "close", !.new = new]
  <2>1. ReadToComplete(q) => UNCHANGED rows /\ (Goto(q, Idle) \/ Goto(q, s))
    BY DEF ReadToComplete
  <2> HIDE DEF r, new
  <2>2. s.pc = "close" /\ s.id = r.id /\ s.old = r.old
    BY <1>1 DEF RequestState
  <2> HIDE DEF s
  <2> QED
    BY <1>2, <2>1, <2>2, Goes DEF Ended
<1>5. Remove(q) => \/ Ended(q)
                   \/ /\ request'[q].pc = "removed" /\ request'[q].old = r.old
                      /\ request'[q].id = r.id
                      /\ request'[q].date = expense[r.x].date
  <2> DEFINE day == expense[r.x].date
             s == [r EXCEPT !.pc = "removed", !.date = day]
  <2>1. Remove(q) => (UNCHANGED rows /\ Goto(q, Idle)) \/ Goto(q, s)
    BY DEF Remove
  <2> HIDE DEF r, day
  <2>2. s.pc = "removed" /\ s.id = r.id /\ s.old = r.old /\ s.date = day
    BY <1>1 DEF RequestState
  <2> HIDE DEF s
  <2> QED
    BY <1>2, <2>1, <2>2, Goes DEF Ended, day
<1> QED
  BY <1>3, <1>4, <1>5

LEMMA Ends ==
    ASSUME BudgetsInv, NEW q \in Requests,
           \/ FinishCreate(q) \/ FinishUpdate(q) \/ FinishDelete(q) \/ FinishRemove(q)
           \/ FinishDeleteExpense(q) \/ FinishComplete(q) \/ FinishAdd(q)
    PROVE  request'[q].pc = "idle" /\ UNCHANGED <<now, budget, expense, raced>>
<1>1. Goto(q, Idle) /\ UNCHANGED <<now, budget, expense, raced>>
  BY DEF FinishCreate, FinishUpdate, FinishDelete, FinishRemove, FinishDeleteExpense,
         FinishComplete, FinishAdd, Finish, Answered, rows, counts
<1> QED
  BY <1>1, Goes DEF Idle

LEMMA Created ==
    ASSUME BudgetsInv, NEW q \in Requests, NEW b \in Ids, NEW amount \in Amounts,
           NEW currency \in Currencies, NEW range \in Ranges,
           Create(q, b, amount, currency, range)
    PROVE  /\ request'[q].pc = "created" /\ request'[q].id = b
           /\ request'[q].new = [status |-> "open", amount |-> amount, currency |-> currency,
                                 start |-> range[1], end |-> range[2], created |-> now]
<1> DEFINE row == [status |-> "open", amount |-> amount, currency |-> currency,
                   start |-> range[1], end |-> range[2], created |-> now]
           s == [Idle EXCEPT !.pc = "created", !.kind = "create", !.id = b, !.new = row]
<1>1. Goto(q, s)
  BY DEF Create
<1> HIDE DEF row
<1>2. s.pc = "created" /\ s.id = b /\ s.new = row
  BY DEF Idle
<1> HIDE DEF s
<1>3. request'[q] = s
  BY <1>1, Goes
<1> QED
  BY <1>2, <1>3 DEF row

LEMMA Gone ==
    ASSUME BudgetsInv, NEW q \in Requests, NEW x \in Expenses, DeleteExpense(q, x)
    PROVE  /\ request'[q].pc = "gone" /\ request'[q].id = expense[x].budget
           /\ request'[q].date = expense[x].date
<1> DEFINE id == expense[x].budget
           day == expense[x].date
           s == [Idle EXCEPT !.pc = "gone", !.kind = "deleteExpense", !.id = id, !.date = day]
<1>1. Goto(q, s)
  BY DEF DeleteExpense
<1> HIDE DEF id, day
<1>2. s.pc = "gone" /\ s.id = id /\ s.date = day
  BY DEF Idle
<1> HIDE DEF s
<1>3. request'[q] = s
  BY <1>1, Goes
<1> QED
  BY <1>2, <1>3 DEF id, day

LEMMA OnlyStartAdds ==
    ASSUME BudgetsInv, NEW q \in Requests, Answer(q), request'[q].pc = "add"
    PROVE  \E b \in Ids, x \in Expenses, d \in Days :
              StartAdd(q, b, x, d) /\ request'[q].x = x
<1>1. ASSUME NEW b \in Ids, NEW amount \in Amounts, NEW currency \in Currencies,
             NEW range \in Ranges
      PROVE  ~Create(q, b, amount, currency, range) /\ ~StartUpdate(q, b, amount, currency, range)
  BY Created, BeginsAtStage DEF Begun
<1>2. ASSUME NEW b \in Ids
      PROVE  /\ ~StartDelete(q, b)
             /\ ~\E asOf \in Days \cap ((now - 1)..(now + 1)) : StartComplete(q, b, asOf)
             /\ ~\E x \in Expenses : StartRemove(q, b, x)
  BY BeginsAtStage DEF Begun
<1>3. \A x \in Expenses : ~DeleteExpense(q, x)
  BY Gone
<1>4. ~CheckUpdate(q) /\ ~Count(q) /\ ~ReadToComplete(q) /\ ~Update(q) /\ ~Delete(q)
      /\ ~Complete(q) /\ ~Add(q) /\ ~Remove(q)
  BY MovesOn, ReadsOn DEF Ended
<1>5. ~FinishCreate(q) /\ ~FinishUpdate(q) /\ ~FinishDelete(q) /\ ~FinishRemove(q)
      /\ ~FinishDeleteExpense(q) /\ ~FinishComplete(q) /\ ~FinishAdd(q)
  BY Ends
<1>6. \E b \in Ids, x \in Expenses, d \in Days : StartAdd(q, b, x, d)
  BY <1>1, <1>2, <1>3, <1>4, <1>5 DEF Answer
<1> QED
  BY <1>6, BeginsAtStage

(* Only Add makes an expense live. *)
LEMMA OnlyAddRecords ==
    ASSUME BudgetsInv, NEW q \in Requests, Answer(q), NEW x \in Expenses,
           ~expense[x].live, expense'[x].live
    PROVE  Add(q) /\ x = request[q].x /\ ~Ended(q) /\ expense'[x].budget = request[q].id
<1>1. Writes(q)
  <2>1. [Next]_vars
    BY DEF Next
  <2>2. UNCHANGED <<budget, expense>> \/ Writes(q)
    BY DEF Answer, Writes, Start, StartUpdate, StartDelete, StartComplete, StartAdd, StartRemove,
           CheckUpdate, Count, ReadToComplete, FinishCreate, FinishUpdate, FinishDelete,
           FinishComplete, FinishAdd, FinishRemove, FinishDeleteExpense, Finish, Answered, rows
  <2> QED
    BY <2>2
<1>2. expense \in [Expenses -> ExpenseState]
  BY DEF BudgetsInv, BudgetsTyped
<1>3. CASE expense' = expense
  BY <1>3
<1>4. ASSUME NEW y \in Expenses, expense' = [expense EXCEPT ![y].live = FALSE]
      PROVE  FALSE
  <2>1. CASE x = y
    <3>1. expense'[x] = [expense[x] EXCEPT !.live = FALSE] /\ expense[x] \in ExpenseState
      BY <1>2, <1>4, <2>1
    <3> QED
      BY <3>1 DEF ExpenseState
  <2>2. CASE x # y
    BY <1>2, <1>4, <2>2
  <2> QED
    BY <2>1, <2>2
<1>5. CASE Delete(q)
  <2>1. expense' = [i \in Expenses |-> IF expense[i].budget = request[q].id
                                       THEN [expense[i] EXCEPT !.budget = NoBudget]
                                       ELSE expense[i]]
    BY <1>5 DEF Delete, Save
  <2>2. expense[x] \in ExpenseState
    BY <1>2
  <2>3. [expense[x] EXCEPT !.budget = NoBudget].live = expense[x].live
    BY <2>2 DEF ExpenseState
  <2> QED
    BY <2>1, <2>3
<1>6. CASE Add(q) /\ expense' # expense
  <2> DEFINE y == request[q].x
             e == [live |-> TRUE, budget |-> request[q].id, currency |-> request[q].row.currency,
                   date |-> request[q].date]
  <2>1. expense' = [expense EXCEPT ![y] = e] /\ ~Ended(q)
    BY <1>6 DEF Add, Save, rows, Ended
  <2>2. e.budget = request[q].id
    OBVIOUS
  <2> HIDE DEF e, y
  <2>3. x = y
    BY <1>2, <2>1
  <2>4. expense'[x] = e
    BY <1>2, <2>1, <2>3
  <2> QED
    BY <1>6, <2>1, <2>2, <2>3, <2>4 DEF y
<1>7. (\E b \in Ids, amount \in Amounts, currency \in Currencies, range \in Ranges :
          Create(q, b, amount, currency, range)) \/ Update(q) \/ Complete(q)
      => expense' = expense
  BY DEF Create, Update, Complete, CompleteRow, Save, rows
<1>8. Remove(q) => expense' = expense \/ \E y \in Expenses : expense' = [expense EXCEPT ![y].live = FALSE]
  BY Request DEF Remove, Save, rows, Knows
<1>9. \A y \in Expenses : DeleteExpense(q, y) => expense' = [expense EXCEPT ![y].live = FALSE]
  BY DEF DeleteExpense, Save
<1> QED
  BY <1>1, <1>3, <1>4, <1>5, <1>6, <1>7, <1>8, <1>9 DEF Writes

LEMMA FreshKeeps ==
    ASSUME BudgetsInv, Fresh, [Next]_vars
    PROVE  Fresh'
<1>1. CASE UNCHANGED <<request, expense>>
  BY <1>1 DEF Fresh
<1>2. ASSUME NEW q \in Requests, Answer(q)
      PROVE  Fresh'
  <2>1. \A p \in Requests : p # q => request'[p] = request[p]
    BY <1>2, OthersStay
  <2>2. request'[q].pc = "add" =>
           /\ request'[q].x \in Expenses /\ ~expense[request'[q].x].live
           /\ \A p \in Requests : request[p].x # request'[q].x
           /\ expense' = expense
    <3> SUFFICES ASSUME request'[q].pc = "add"
                 PROVE  /\ request'[q].x \in Expenses /\ ~expense[request'[q].x].live
                        /\ \A p \in Requests : request[p].x # request'[q].x
                        /\ expense' = expense
      OBVIOUS
    <3>1. PICK b \in Ids, x \in Expenses, d \in Days : StartAdd(q, b, x, d) /\ request'[q].x = x
      BY <1>2, OnlyStartAdds
    <3>2. expense[x] = NoExpense /\ (\A p \in Requests : request[p].x # x) /\ expense' = expense
      BY <3>1 DEF StartAdd, Start, rows
    <3> QED
      BY <3>1, <3>2 DEF NoExpense
  <2>3. ASSUME NEW x \in Expenses, ~expense[x].live, expense'[x].live
        PROVE  request[q].pc = "add" /\ x = request[q].x /\ request'[q].pc # "add"
    <3>1. Add(q) /\ x = request[q].x
      BY <1>2, <2>3, OnlyAddRecords
    <3> QED
      BY <3>1, MovesOn DEF Add, Ended
  <2>4. ASSUME NEW p \in Requests, request'[p].pc = "add"
        PROVE  ~expense'[request'[p].x].live
    <3>1. CASE p = q
      BY <2>2, <2>4, <3>1
    <3>2. CASE p # q
      <4>1. request[p].pc = "add" /\ request'[p].x = request[p].x
        BY <2>1, <2>4, <3>2
      <4>2. ~expense[request[p].x].live /\ request[p].x \in Expenses
        BY <4>1, Request DEF Fresh, Knows
      <4>3. ~(request[q].pc = "add" /\ request[p].x = request[q].x)
        BY <3>2, <4>1 DEF Fresh
      <4> QED
        BY <2>3, <4>1, <4>2, <4>3
    <3> QED
      BY <3>1, <3>2
  <2>5. ASSUME NEW p \in Requests, NEW i \in Requests, p # i,
               request'[p].pc = "add", request'[i].pc = "add"
        PROVE  request'[p].x # request'[i].x
    BY <2>1, <2>2, <2>5 DEF Fresh
  <2> QED
    BY <2>4, <2>5 DEF Fresh
<1> QED
  BY <1>1, <1>2 DEF Next, Tick, vars

LEMMA KeepBudget ==
    ASSUME BudgetsInv, Fresh, NEW q \in Requests, Writes(q),
           ~({"add", "delete"} \subseteq raced'), NEW x \in Expenses,
           expense[x].live, expense'[x].live
    PROVE  expense'[x].budget = expense[x].budget
<1>1. expense \in [Expenses -> ExpenseState] /\ expense[x] \in ExpenseState
  BY DEF BudgetsInv, BudgetsTyped
<1>2. CASE expense' = expense
  BY <1>2
<1>3. CASE Delete(q)
  <2> DEFINE b == request[q].id
  <2>1. raced' = raced /\ request[q].pc = "delete"
    BY <1>3 DEF Delete, counts
  <2>2. Unspent(b, expense)
    BY <2>1, Request DEF Holds
  <2>3. expense[x].budget # b
    BY <2>2 DEF Unspent
  <2>4. expense' = [i \in Expenses |-> IF expense[i].budget = b
                                       THEN [expense[i] EXCEPT !.budget = NoBudget] ELSE expense[i]]
    BY <1>3 DEF Delete, Save
  <2> QED
    BY <2>3, <2>4
<1>4. CASE Add(q) /\ expense' # expense
  <2> DEFINE y == request[q].x
             e == [live |-> TRUE, budget |-> request[q].id, currency |-> request[q].row.currency,
                   date |-> request[q].date]
  <2>1. expense' = [expense EXCEPT ![y] = e] /\ request[q].pc = "add"
    BY <1>4 DEF Add, Save, rows
  <2>2. y # x
    BY <2>1 DEF Fresh
  <2> HIDE DEF e, y
  <2> QED
    BY <1>1, <2>1, <2>2
<1>5. ASSUME NEW y \in Expenses, expense' = [expense EXCEPT ![y].live = FALSE]
      PROVE  expense'[x].budget = expense[x].budget
  <2>1. CASE x = y
    <3>1. expense'[x] = [expense[x] EXCEPT !.live = FALSE]
      BY <1>1, <1>5, <2>1
    <3> QED
      BY <1>1, <3>1 DEF ExpenseState
  <2>2. CASE x # y
    BY <1>1, <1>5, <2>2
  <2> QED
    BY <2>1, <2>2
<1>6. (\E b \in Ids, amount \in Amounts, currency \in Currencies, range \in Ranges :
          Create(q, b, amount, currency, range)) \/ Update(q) \/ Complete(q)
      => expense' = expense
  BY DEF Create, Update, Complete, CompleteRow, Save, rows
<1>7. Remove(q) => expense' = expense \/ \E y \in Expenses : expense' = [expense EXCEPT ![y].live = FALSE]
  BY Request DEF Remove, Save, rows, Knows
<1>8. \A y \in Expenses : DeleteExpense(q, y) => expense' = [expense EXCEPT ![y].live = FALSE]
  BY DEF DeleteExpense, Save
<1> QED
  BY <1>2, <1>3, <1>4, <1>5, <1>6, <1>7, <1>8 DEF Writes

(* budgets.rs:185: an expense keeps the budget it was recorded against,       *)
(* unless the deletion of that budget races the recording.                  *)
THEOREM ExpensesKept == Spec => ExpensesKeepTheirBudget
<1>1. Init => Fresh
  BY DEF Init, Fresh, Idle
<1>2. BudgetsInv /\ Fresh /\ [Next]_vars => Fresh'
  BY FreshKeeps
<1>3. BudgetsInv /\ Fresh /\ [Next]_vars =>
         [\/ {"add", "delete"} \subseteq raced'
          \/ \A x \in Expenses :
                expense[x].live /\ expense'[x].live => expense'[x].budget = expense[x].budget]_vars
  BY WhatWrites, KeepBudget
<1> QED
  BY <1>1, <1>2, <1>3, BudgetsInvariant, PTL DEF Spec, ExpensesKeepTheirBudget

(* What a write does to a completed budget. *)
LEMMA ClosedByWrites ==
    ASSUME BudgetsInv, NEW q \in Requests, Writes(q),
           ~({"update", "complete"} \subseteq raced'), NEW b \in Ids,
           budget'[b].status = "completed"
    PROVE  /\ Dated(budget'[b])
           /\ budget[b].status = "completed" => budget'[b] = budget[b]
<1>1. budget \in [Ids -> RowState] /\ raced \subseteq raced'
  BY DEF BudgetsInv, BudgetsTyped, Writes, Create, Update, Delete, Complete, CompleteRow, Add,
         Remove, DeleteExpense, Arrive, counts
<1>2. budget[b].status = "completed" => Dated(budget[b])
  BY <1>1 DEF BudgetsInv, CompletedDated
<1>3. CASE budget'[b] = budget[b]
  BY <1>2, <1>3 DEF Dated
<1>4. ASSUME NEW i \in Ids, NEW amount \in Amounts, NEW currency \in Currencies,
             NEW range \in Ranges, Create(q, i, amount, currency, range)
      PROVE  budget'[b] = budget[b]
  <2> DEFINE row == [status |-> "open", amount |-> amount, currency |-> currency,
                     start |-> range[1], end |-> range[2], created |-> now]
  <2>1. budget' = [budget EXCEPT ![i] = row]
    BY <1>4 DEF Create, Save
  <2>2. row.status # "completed"
    OBVIOUS
  <2> HIDE DEF row
  <2> QED
    BY <1>1, <2>1, <2>2
<1>5. CASE Update(q) /\ ~(budget'[b] = budget[b])
  <2> DEFINE r == request[q]
             old == budget[r.id]
             new == r.new
             row == [old EXCEPT !.amount = new.amount, !.currency = new.currency,
                                !.start = new.start, !.end = new.end]
  <2>1. budget' = [budget EXCEPT ![r.id] = row] /\ r.pc = "update" /\ raced' = raced
    BY <1>5 DEF Update, Save, rows, counts
  <2>2. r.id \in Ids /\ old \in RowState /\ old.status # "completed"
    BY <2>1, Request DEF Holds
  <2> HIDE DEF old, new
  <2>3. row.status = old.status
    BY <2>2 DEF RowState
  <2> HIDE DEF row
  <2>4. b # r.id
    BY <1>1, <2>1, <2>2, <2>3
  <2> QED
    BY <1>1, <1>5, <2>1, <2>4
<1>6. CASE Delete(q) /\ ~(budget'[b] = budget[b])
  <2>1. budget' = [budget EXCEPT ![request[q].id] = Deleted]
    BY <1>6 DEF Delete, Save
  <2>2. budget'[b] = Deleted
    BY <1>1, <1>6, <2>1
  <2> QED
    BY <2>2, AbsentTyped
<1>7. CASE Complete(q) /\ ~(budget'[b] = budget[b])
  <2> DEFINE r == request[q]
             old == budget[r.id]
             new == r.new
             row == [old EXCEPT !.status = "completed", !.start = new.start, !.end = new.end]
  <2>1. budget' = [budget EXCEPT ![r.id] = row] /\ r.pc = "close" /\ old.status = "open"
    BY <1>7 DEF Complete, CompleteRow, Save, rows
  <2>2. r.id \in Ids /\ old \in RowState /\ Dated(new)
    BY <2>1, Request DEF Knows
  <2>3. b = r.id
    BY <1>1, <1>7, <2>1
  <2>4. budget[b].status = "open"
    BY <2>1, <2>3
  <2> HIDE DEF old, new
  <2>5. Dated(row)
    BY <2>2 DEF RowState, Dated
  <2> HIDE DEF row
  <2>6. budget'[b] = row
    BY <1>1, <2>1, <2>3
  <2> QED
    BY <2>4, <2>5, <2>6
<1>8. Add(q) \/ Remove(q) \/ (\E x \in Expenses : DeleteExpense(q, x)) => budget' = budget
  BY DEF Add, Remove, DeleteExpense, Save, rows
<1> QED
  BY <1>3, <1>4, <1>5, <1>6, <1>7, <1>8 DEF Writes

(* An expense is recorded on an open budget, unless a completion raced it.    *)
LEMMA RecordedOnOpen ==
    ASSUME BudgetsInv, NEW q \in Requests, Answer(q),
           ~({"add", "complete"} \subseteq raced'), NEW x \in Expenses,
           ~expense[x].live, expense'[x].live
    PROVE  budget[expense'[x].budget].status = "open"
<1>1. Add(q) /\ ~Ended(q) /\ expense'[x].budget = request[q].id
  BY OnlyAddRecords
<1>2. raced' = raced /\ request[q].pc = "add"
  BY <1>1 DEF Add, counts
<1>3. budget[request[q].id].status \in {"open", "deleted"}
  BY <1>2, Request DEF Holds
<1>4. Exists(request[q].id)
  <2>1. ~Exists(request[q].id) => Goto(q, Idle) /\ UNCHANGED rows
    BY <1>1 DEF Add
  <2>2. Goto(q, Idle) => request'[q].pc = "idle"
    BY Goes DEF Idle
  <2> QED
    BY <1>1, <2>1, <2>2 DEF Ended
<1> QED
  BY <1>1, <1>3, <1>4 DEF Exists

(* repos/budgets.rs:309: what is completed is dated and closed for good, and   *)
(* nothing is recorded on it, but for the races the property names.          *)
THEOREM CompletedClosed == Spec => CompletedIsClosed
<1> DEFINE Closed == {"update", "complete"} \subseteq raced' \/
                     \A b \in Ids :
                        /\ budget'[b].status = "completed" => Dated(budget'[b])
                        /\ budget[b].status = "completed" /\ budget'[b].status = "completed" =>
                              budget'[b] = budget[b]
           Recorded == {"add", "complete"} \subseteq raced' \/
                       \A x \in Expenses :
                          ~expense[x].live /\ expense'[x].live =>
                              budget[expense'[x].budget].status = "open"
<1>1. BudgetsInv /\ [Next]_vars => [Closed]_vars
  <2> SUFFICES ASSUME BudgetsInv, [Next]_vars, ~(UNCHANGED vars),
                      ~({"update", "complete"} \subseteq raced'),
                      NEW b \in Ids, budget'[b].status = "completed"
               PROVE  /\ Dated(budget'[b])
                      /\ budget[b].status = "completed" => budget'[b] = budget[b]
    OBVIOUS
  <2>1. raced \subseteq raced'
    <3>1. ASSUME NEW q \in Requests, Answer(q)
          PROVE  raced \subseteq raced'
      BY <3>1 DEF Answer, Create, Start, StartUpdate, StartDelete, StartComplete, StartAdd,
         StartRemove, CheckUpdate, Count, ReadToComplete, FinishCreate, FinishUpdate, FinishDelete,
         FinishComplete, FinishAdd, FinishRemove, FinishDeleteExpense, Finish, Answered, Update,
         Delete, Complete, Add, Remove, DeleteExpense, Arrive, counts
    <3> QED
      BY <3>1 DEF Next, Tick, counts
  <2>2. CASE UNCHANGED <<budget, expense>>
    BY <2>1, <2>2 DEF BudgetsInv, CompletedDated, Dated
  <2>3. ASSUME NEW q \in Requests, Writes(q)
        PROVE  /\ Dated(budget'[b])
               /\ budget[b].status = "completed" => budget'[b] = budget[b]
    BY <2>3, ClosedByWrites
  <2> QED
    BY <2>2, <2>3, WhatWrites
<1>2. BudgetsInv /\ [Next]_vars => [Recorded]_vars
  <2>1. Tick => expense' = expense
    BY DEF Tick
  <2> QED
    BY <2>1, RecordedOnOpen DEF Next
<1>3. BudgetsInv /\ [Next]_vars => [Closed /\ Recorded]_vars
  BY <1>1, <1>2
<1> QED
  BY <1>3, BudgetsInvariant, PTL DEF Spec, CompletedIsClosed

-----------------------------------------------------------------------------
(* Re-freezing.  Without races one request is under way at a time, and the    *)
(* days it has left behind are those its finish_write will reach.           *)

(* Every day of D is reached from one of the dates. *)
Reached(D, dates) == \A d \in D : \E e \in dates : e # NoDate /\ e <= d

FinishDates(r) ==
    CASE r.pc = "created" -> {r.new.end}
      [] r.pc = "updated" -> {r.old, r.new.end, r.earliest}
      [] r.pc = "deleted" -> {r.old}
      [] r.pc = "completed" -> {r.old, r.new.end, EarliestExpense(r.id)}
      [] r.pc \in {"added", "removed"} -> {r.date, r.old}
      [] r.pc = "gone" -> {r.date} \cup (IF r.id = NoBudget THEN {} ELSE {budget[r.id].end})
      [] OTHER -> {}

Before == {"check", "update", "count", "delete", "complete", "close", "add", "remove"}

(* What a request that nothing races knows of its budget.                    *)
Alone(r) ==
    /\ r.pc \in Before => Exists(r.id) /\ r.old = budget[r.id].end
    /\ r.pc = "update" => r.earliest = EarliestExpense(r.id)
    /\ r.pc = "completed" => Exists(r.id)
    /\ r.pc = "added" => expense[r.x].live
    /\ Reached(dirty, FinishDates(r))

Sequential ==
    raced = {} =>
        /\ UnderWay = {} => dirty = {}
        /\ \A q \in UnderWay : Alone(request[q])

(* What changed on a day on which something did. *)
LineChanged(bs, xs, bt, xt, i, d) ==
    /\ (Dated(bs[i]) /\ bs[i].end = d) \/ (Dated(bt[i]) /\ bt[i].end = d)
    /\ ~(bs[i] = bt[i] /\ SpentOf(xs, i) = SpentOf(xt, i))
ItemChanged(bs, xs, bt, xt, x, d) ==
    /\ (xs[x].live /\ xs[x].date = d) \/ (xt[x].live /\ xt[x].date = d)
    /\ ~(/\ xs[x] = xt[x]
         /\ xs[x].budget # NoBudget => (Dated(bs[xs[x].budget]) <=> Dated(bt[xs[x].budget])))

LEMMA WhatChanged ==
    ASSUME NEW bs, NEW xs, NEW bt, NEW xt, NEW today, NEW d \in ChangedDays(bs, xs, bt, xt, today)
    PROVE  \/ \E i \in Ids : LineChanged(bs, xs, bt, xt, i, d)
           \/ \E x \in Expenses : ItemChanged(bs, xs, bt, xt, x, d)
<1>1. ASSUME \A i \in Ids : ~LineChanged(bs, xs, bt, xt, i, d)
      PROVE  Lines(bs, xs, today, d) = Lines(bt, xt, today, d)
  <2> DEFINE Shows(cs, zs, i) == Dated(cs[i]) /\ cs[i].end = d
                                 /\ ProjectionAmount(cs[i], SpentOf(zs, i), today) > 0
             Line(cs, zs, i) == [budget |-> i,
                                 amount |-> ProjectionAmount(cs[i], SpentOf(zs, i), today),
                                 currency |-> cs[i].currency]
  <2>1. ASSUME NEW i \in Ids, Shows(bs, xs, i)
        PROVE  Shows(bt, xt, i) /\ Line(bt, xt, i) = Line(bs, xs, i)
    BY <1>1, <2>1 DEF LineChanged
  <2>2. ASSUME NEW i \in Ids, Shows(bt, xt, i)
        PROVE  Shows(bs, xs, i) /\ Line(bt, xt, i) = Line(bs, xs, i)
    BY <1>1, <2>2 DEF LineChanged
  <2>3. /\ Lines(bs, xs, today, d) = {Line(bs, xs, i) : i \in {j \in Ids : Shows(bs, xs, j)}}
        /\ Lines(bt, xt, today, d) = {Line(bt, xt, i) : i \in {j \in Ids : Shows(bt, xt, j)}}
    BY DEF Lines
  <2> HIDE DEF Shows, Line
  <2> QED
    BY <2>1, <2>2, <2>3
<1>2. ASSUME \A x \in Expenses : ~ItemChanged(bs, xs, bt, xt, x, d)
      PROVE  OwnItems(bs, xs, d) = OwnItems(bt, xt, d)
  <2> DEFINE Own(cs, zs, x) == /\ zs[x].live /\ zs[x].date = d
                               /\ zs[x].budget # NoBudget => ~Dated(cs[zs[x].budget])
  <2>1. ASSUME NEW x \in Expenses
        PROVE  Own(bs, xs, x) <=> Own(bt, xt, x)
    BY <1>2 DEF ItemChanged
  <2>2. /\ OwnItems(bs, xs, d) = {x \in Expenses : Own(bs, xs, x)}
        /\ OwnItems(bt, xt, d) = {x \in Expenses : Own(bt, xt, x)}
    BY DEF OwnItems
  <2> HIDE DEF Own
  <2> QED
    BY <2>1, <2>2
<1> QED
  BY <1>1, <1>2 DEF ChangedDays

LEMMA SpentSame ==
    ASSUME NEW xs, NEW xt, NEW i,
           \A x \in Expenses : (xs[x].live /\ xs[x].budget = i) <=> (xt[x].live /\ xt[x].budget = i)
    PROVE  SpentOf(xs, i) = SpentOf(xt, i)
<1>1. {x \in Expenses : xs[x].live /\ xs[x].budget = i} = {x \in Expenses : xt[x].live /\ xt[x].budget = i}
  OBVIOUS
<1> QED
  BY <1>1 DEF SpentOf

LEMMA SaveReached ==
    ASSUME dirty = {}, NEW bs, NEW xs, Save(bs, xs), NEW dates,
           Reached(ChangedDays(budget, expense, bs, xs, now), dates)
    PROVE  Reached(dirty', dates)
BY DEF Save, Reached

(* A finish_write that reaches every dirty day leaves none. *)
LEMMA FinishReaches ==
    ASSUME BudgetsInv, NEW q, NEW dates \in SUBSET (0..LastDay), Reached(dirty, dates),
           Finish(q, dates)
    PROVE  dirty' = {}
<1> DEFINE from == HistoryFrom(dates)
<1>1. /\ from \in 0..LastDay
      /\ \A d \in dates : d # NoDate => from # NoDate /\ from <= d
  BY EarliestDate
<1>2. \A d \in dirty : d \in Int
  BY DEF BudgetsInv, BudgetsTyped, Days
<1>3. \A e \in dates : e \in Int
  OBVIOUS
<1>4. \A d \in dirty : from # NoDate /\ from <= d
  BY <1>1, <1>2, <1>3 DEF Reached
<1>5. dirty' = IF from = NoDate THEN dirty ELSE {d \in dirty : d < from}
  BY DEF Finish
<1> HIDE DEF from
<1> QED
  BY <1>1, <1>2, <1>4, <1>5

(* The days on which each write changes what projections show. *)

LEMMA CreateReached ==
    ASSUME BudgetsInv, NEW b \in Ids, budget[b].status = "absent", ~Dated(budget[b]),
           NEW row \in RowState
    PROVE  Reached(ChangedDays(budget, expense, [budget EXCEPT ![b] = row], expense, now), {row.end})
<1> DEFINE bt == [budget EXCEPT ![b] = row]
<1>1. \A i \in Ids : bt[i] = IF i = b THEN row ELSE budget[i]
  BY DEF BudgetsInv, BudgetsTyped
<1> HIDE DEF bt
<1>2. ASSUME NEW d \in ChangedDays(budget, expense, bt, expense, now)
      PROVE  row.end # NoDate /\ row.end <= d
  <2>1. d \in Days
    BY DEF ChangedDays
  <2>2. ASSUME NEW i \in Ids, LineChanged(budget, expense, bt, expense, i, d)
        PROVE  d = row.end
    BY <1>1, <2>2 DEF LineChanged
  <2>3. ASSUME NEW x \in Expenses, ItemChanged(budget, expense, bt, expense, x, d)
        PROVE  FALSE
    <3>1. expense[x].live /\ expense[x].budget # NoBudget
      BY <2>3 DEF ItemChanged
    <3>2. expense[x].budget \in Ids /\ expense[x].budget # b
      BY <3>1 DEF BudgetsInv, BudgetsTyped, ExpenseState, RowsHold, Exists
    <3> QED
      BY <1>1, <2>3, <3>2 DEF ItemChanged
  <2>4. d = row.end
    BY <2>2, <2>3, WhatChanged
  <2> QED
    BY <2>1, <2>4 DEF Days, NoDate
<1> QED
  BY <1>2 DEF Reached, bt

(* A row that changes while the expenses stay: the old end, the new end, and   *)
(* no day before the earliest expense.                                      *)
LEMMA RowReached ==
    ASSUME BudgetsInv, NEW b \in Ids, NEW row \in RowState, NEW old, old = budget[b].end
    PROVE  Reached(ChangedDays(budget, expense, [budget EXCEPT ![b] = row], expense, now),
                   {old, row.end, EarliestExpense(b)})
<1> DEFINE bt == [budget EXCEPT ![b] = row]
<1>1. \A i \in Ids : bt[i] = IF i = b THEN row ELSE budget[i]
  BY DEF BudgetsInv, BudgetsTyped
<1> HIDE DEF bt
<1>2. ASSUME NEW d \in ChangedDays(budget, expense, bt, expense, now)
      PROVE  \E e \in {old, row.end, EarliestExpense(b)} : e # NoDate /\ e <= d
  <2>1. d \in Days
    BY DEF ChangedDays
  <2>2. ASSUME NEW i \in Ids, LineChanged(budget, expense, bt, expense, i, d)
        PROVE  d = row.end \/ d = old
    BY <1>1, <2>2 DEF LineChanged
  <2>3. ASSUME NEW x \in Expenses, ItemChanged(budget, expense, bt, expense, x, d)
        PROVE  EarliestExpense(b) # NoDate /\ EarliestExpense(b) <= d
    <3>1. expense[x].live /\ expense[x].date = d /\ expense[x].budget # NoBudget
      BY <2>3 DEF ItemChanged
    <3>2. expense[x].budget \in Ids
      BY <3>1 DEF BudgetsInv, BudgetsTyped, ExpenseState
    <3>3. expense[x].budget = b
      BY <1>1, <2>3, <3>2 DEF ItemChanged
    <3>4. d # NoDate
      BY <2>1 DEF Days, NoDate
    <3> QED
      BY <3>1, <3>3, <3>4, EarliestOf DEF BudgetsInv, BudgetsTyped
  <2>4. d = row.end \/ d = old \/ (EarliestExpense(b) # NoDate /\ EarliestExpense(b) <= d)
    BY <2>2, <2>3, WhatChanged
  <2>5. d \in Int /\ d # NoDate
    BY <2>1 DEF Days, NoDate
  <2>6. CASE d = row.end \/ d = old
    BY <2>5, <2>6
  <2>7. CASE EarliestExpense(b) # NoDate /\ EarliestExpense(b) <= d
    BY <2>7
  <2> QED
    BY <2>4, <2>6, <2>7
<1> QED
  BY <1>2 DEF Reached, bt

(* Of the expenses, the deletion of b changes only those that are not live.   *)
LEMMA DeleteReached ==
    ASSUME BudgetsInv, NEW b \in Ids, NEW old, old = budget[b].end, Unspent(b, expense),
           NEW xt, \A x \in Expenses : xt[x].live <=> expense[x].live,
           \A x \in Expenses : expense[x].live => xt[x] = expense[x]
    PROVE  Reached(ChangedDays(budget, expense, [budget EXCEPT ![b] = Deleted], xt, now), {old})
<1> DEFINE bt == [budget EXCEPT ![b] = Deleted]
<1>1. \A i \in Ids : bt[i] = IF i = b THEN Deleted ELSE budget[i]
  BY DEF BudgetsInv, BudgetsTyped
<1>2. ~Dated(Deleted)
  BY DEF Deleted, Absent, Dated
<1> HIDE DEF bt
<1>3. ASSUME NEW i \in Ids
      PROVE  SpentOf(expense, i) = SpentOf(xt, i)
  <2>1. \A x \in Expenses :
           (expense[x].live /\ expense[x].budget = i) <=> (xt[x].live /\ xt[x].budget = i)
    OBVIOUS
  <2> QED
    BY <2>1, SpentSame
<1>4. ASSUME NEW d \in ChangedDays(budget, expense, bt, xt, now)
      PROVE  old # NoDate /\ old <= d
  <2>1. d \in Days
    BY DEF ChangedDays
  <2>2. ASSUME NEW i \in Ids, LineChanged(budget, expense, bt, xt, i, d)
        PROVE  d = old
    BY <1>1, <1>2, <1>3, <2>2 DEF LineChanged
  <2>3. ASSUME NEW x \in Expenses, ItemChanged(budget, expense, bt, xt, x, d)
        PROVE  FALSE
    <3>1. expense[x].live /\ xt[x] = expense[x] /\ expense[x].budget # NoBudget
      BY <2>3 DEF ItemChanged
    <3>2. expense[x].budget \in Ids /\ expense[x].budget # b
      BY <3>1 DEF BudgetsInv, BudgetsTyped, ExpenseState, Unspent
    <3> QED
      BY <1>1, <2>3, <3>1, <3>2 DEF ItemChanged
  <2>4. d = old
    BY <2>2, <2>3, WhatChanged
  <2> QED
    BY <2>1, <2>4 DEF Days, NoDate
<1> QED
  BY <1>4 DEF Reached, bt

LEMMA DetachedExpenses ==
    ASSUME BudgetsInv, NEW b \in Ids, Unspent(b, expense), NEW x \in Expenses, NEW e,
           e = IF expense[x].budget = b THEN [expense[x] EXCEPT !.budget = NoBudget]
                                        ELSE expense[x]
    PROVE  /\ e.live <=> expense[x].live
           /\ expense[x].live => e = expense[x]
<1>1. expense[x] \in ExpenseState /\ (expense[x].budget = b => ~expense[x].live)
  BY DEF BudgetsInv, BudgetsTyped, Unspent
<1>2. CASE expense[x].budget = b
  <2> DEFINE f == expense[x]
             n == [f EXCEPT !.budget = NoBudget]
  <2>1. f \in ExpenseState
    BY <1>1
  <2> HIDE DEF f
  <2>2. n.live = f.live
    BY <2>1 DEF ExpenseState
  <2>3. e = n
    BY <1>2 DEF f
  <2> HIDE DEF n
  <2>4. e.live = expense[x].live
    BY <2>2, <2>3 DEF f
  <2> QED
    BY <1>1, <1>2, <2>4, Zenon
<1>3. CASE expense[x].budget # b
  BY <1>3
<1> QED
  BY <1>2, <1>3

(* An expense of b that comes or goes: its day, and the end of its budget.     *)
LEMMA ExpenseReached ==
    ASSUME BudgetsInv, NEW x \in Expenses, NEW xt \in [Expenses -> ExpenseState],
           \A y \in Expenses : y # x => xt[y] = expense[y],
           xt[x].live = ~expense[x].live, NEW b, NEW day, NEW dates,
           expense[x].live => expense[x].budget = b /\ expense[x].date = day,
           xt[x].live => xt[x].budget = b /\ xt[x].date = day,
           day \in dates, b \in Ids => budget[b].end \in dates
    PROVE  Reached(ChangedDays(budget, expense, budget, xt, now), dates)
<1>1. \A i \in Ids : i # b => SpentOf(expense, i) = SpentOf(xt, i)
  BY SpentSame
<1>2. ASSUME NEW d \in ChangedDays(budget, expense, budget, xt, now)
      PROVE  \E e \in dates : e # NoDate /\ e <= d
  <2>1. d \in Int /\ d # NoDate
    BY DEF ChangedDays, Days, NoDate
  <2>2. ASSUME NEW i \in Ids, LineChanged(budget, expense, budget, xt, i, d)
        PROVE  d \in dates
    BY <1>1, <2>2 DEF LineChanged
  <2>3. ASSUME NEW y \in Expenses, ItemChanged(budget, expense, budget, xt, y, d)
        PROVE  d \in dates
    BY <2>3 DEF ItemChanged
  <2>4. d \in dates
    BY <2>2, <2>3, WhatChanged
  <2> QED
    BY <2>1, <2>4
<1> QED
  BY <1>2 DEF Reached

(* Without races, the request that moves is the only one under way.          *)
LEMMA MovesAlone ==
    ASSUME BudgetsInv, NEW q \in Requests, Answer(q), raced' = {}
    PROVE  /\ raced = {} /\ \A p \in UnderWay : p = q
           /\ request'[q].pc = "idle" => UnderWay' = {}
           /\ request'[q].pc # "idle" => UnderWay' = {q}
<1>1. \A p \in Requests : p # q => request'[p] = request[p]
  BY OthersStay
<1>2. \/ \E kind : Arrive(q, kind)
      \/ request[q].pc # "idle" /\ raced' = raced
  BY DEF Answer, Create, Start, StartUpdate, StartDelete, StartComplete, StartAdd, StartRemove,
         CheckUpdate, Count, ReadToComplete, FinishCreate, FinishUpdate, FinishDelete,
         FinishComplete, FinishAdd, FinishRemove, FinishDeleteExpense, Finish, Answered,
         Update, Delete, Complete, Add, Remove, DeleteExpense, counts
<1>3. raced = {} /\ \A p \in UnderWay : p = q
  <2>1. CASE \E kind : Arrive(q, kind)
    BY <2>1 DEF Arrive
  <2>2. CASE request[q].pc # "idle" /\ raced' = raced
    BY <2>2 DEF BudgetsInv, Overlap, UnderWay
  <2> QED
    BY <1>2, <2>1, <2>2
<1> QED
  BY <1>1, <1>3 DEF UnderWay

(* What the request finds when it is the only one. *)
LEMMA AloneNow ==
    ASSUME BudgetsInv, Sequential, NEW q \in Requests, raced = {}, \A p \in UnderWay : p = q
    PROVE  /\ request[q].pc = "idle" => dirty = {}
           /\ request[q].pc # "idle" => Alone(request[q])
           /\ request[q].pc \in Before => dirty = {}
<1>1. request[q].pc = "idle" => UnderWay = {}
  BY DEF UnderWay
<1>2. request[q].pc # "idle" => Alone(request[q])
  BY DEF Sequential, UnderWay
<1>3. request[q].pc \in Before => FinishDates(request[q]) = {} /\ request[q].pc # "idle"
  BY DEF FinishDates, Before
<1>4. request[q].pc \in Before => dirty = {}
  BY <1>2, <1>3 DEF Alone, Reached
<1> QED
  BY <1>1, <1>2, <1>4 DEF Sequential

(* A step of the only request, to the end or to a stage where it is alone.    *)
LEMMA SequentialTo ==
    ASSUME BudgetsInv, NEW q \in Requests, Answer(q), raced' = {},
           request'[q].pc = "idle" => dirty' = {},
           request'[q].pc # "idle" => Alone(request[q])'
    PROVE  Sequential'
<1>1. CASE request'[q].pc = "idle"
  BY <1>1, MovesAlone DEF Sequential
<1>2. CASE request'[q].pc # "idle"
  BY <1>2, MovesAlone DEF Sequential
<1> QED
  BY <1>1, <1>2

LEMMA EndsClean ==
    ASSUME BudgetsInv, NEW q \in Requests, request[q].pc # "idle", Alone(request[q]),
           \/ FinishCreate(q) \/ FinishUpdate(q) \/ FinishDelete(q) \/ FinishRemove(q)
           \/ FinishDeleteExpense(q) \/ FinishComplete(q) \/ FinishAdd(q)
    PROVE  dirty' = {}
<1> DEFINE r == request[q]
           dates == FinishDates(r)
<1>1. r \in RequestState /\ Reached(dirty, dates)
  BY Request DEF Alone
<1>2. dates \in SUBSET (0..LastDay)
  <2>1. r.old \in 0..LastDay /\ r.new.end \in 0..LastDay /\ r.earliest \in 0..LastDay
        /\ r.date \in 0..LastDay
    BY <1>1 DEF RequestState, RowState
  <2>2. EarliestExpense(r.id) \in 0..LastDay
    BY EarliestOf DEF BudgetsInv, BudgetsTyped
  <2>3. r.id # NoBudget => budget[r.id].end \in 0..LastDay
    BY <1>1 DEF RequestState, BudgetsInv, BudgetsTyped, RowState
  <2> QED
    BY <2>1, <2>2, <2>3 DEF FinishDates
<1>3. Finish(q, dates)
  BY DEF FinishCreate, FinishUpdate, FinishDelete, FinishRemove, FinishDeleteExpense,
         FinishComplete, FinishAdd, FinishDates, Alone
<1> HIDE DEF dates, r
<1> QED
  BY <1>1, <1>2, <1>3, FinishReaches

(* A request that begins, reads or gives up. *)
LEMMA ReadsAlone ==
    ASSUME BudgetsInv, NEW q \in Requests, raced = {}, dirty = {},
           request[q].pc # "idle" => Alone(request[q]),
           \/ \E b \in Ids, stage \in {"check", "count", "complete", "add", "remove"} :
                 Begun(q, b, stage)
           \/ CheckUpdate(q) \/ Count(q) \/ ReadToComplete(q)
           \/ Ended(q)
    PROVE  /\ request'[q].pc = "idle" => dirty' = {}
           /\ request'[q].pc # "idle" => Alone(request[q])'
<1>1. CASE Ended(q)
  BY <1>1 DEF Ended, rows
<1>2. ASSUME UNCHANGED rows, request'[q].pc \in Before, Exists(request'[q].id),
             request'[q].old = budget[request'[q].id].end,
             request'[q].pc = "update" => request'[q].earliest = EarliestExpense(request'[q].id)
      PROVE  dirty' = {} /\ Alone(request[q])'
  <2>1. dirty' = {} /\ budget' = budget /\ expense' = expense
    BY <1>2 DEF rows
  <2>2. \A dates : Reached({}, dates)
    BY DEF Reached
  <2>3. Reached(dirty, FinishDates(request[q]))'
    BY <2>1, <2>2
  <2>4. \A i : (Exists(i)' <=> Exists(i)) /\ EarliestExpense(i)' = EarliestExpense(i)
    BY <2>1 DEF Exists, EarliestExpense
  <2>5. request'[q].pc \notin {"completed", "added"}
    BY <1>2 DEF Before
  <2> QED
    BY <1>2, <2>1, <2>3, <2>4, <2>5 DEF Alone
<1>3. ASSUME NEW b \in Ids, NEW stage \in {"check", "count", "complete", "add", "remove"},
             Begun(q, b, stage)
      PROVE  dirty' = {} /\ Alone(request[q])'
  BY <1>2, <1>3 DEF Begun, Before, rows
<1>4. CASE CheckUpdate(q) /\ ~Ended(q)
  <2>1. request[q].pc = "check"
    BY <1>4 DEF CheckUpdate
  <2>2. Exists(request[q].id) /\ request[q].old = budget[request[q].id].end
    BY <2>1 DEF Alone, Before
  <2> QED
    BY <1>2, <1>4, <2>2, ReadsOn DEF Before
<1>5. CASE Count(q) /\ ~Ended(q)
  <2>1. request[q].pc = "count"
    BY <1>5 DEF Count
  <2>2. Exists(request[q].id) /\ request[q].old = budget[request[q].id].end
    BY <2>1 DEF Alone, Before
  <2> QED
    BY <1>2, <1>5, <2>2, MovesOn DEF Before, Same
<1>6. CASE ReadToComplete(q) /\ ~Ended(q)
  <2>1. request[q].pc = "complete"
    BY <1>6 DEF ReadToComplete
  <2>2. Exists(request[q].id) /\ request[q].old = budget[request[q].id].end
    BY <2>1 DEF Alone, Before
  <2> QED
    BY <1>2, <1>6, <2>2, ReadsOn DEF Before
<1> QED
  BY <1>1, <1>3, <1>4, <1>5, <1>6

(* After a write the days the request has changed are within its reach.      *)

LEMMA CreateAlone ==
    ASSUME BudgetsInv, dirty = {}, NEW q \in Requests, NEW b \in Ids, NEW amount \in Amounts,
           NEW currency \in Currencies, NEW range \in Ranges,
           Create(q, b, amount, currency, range)
    PROVE  Alone(request[q])'
<1> DEFINE row == [status |-> "open", amount |-> amount, currency |-> currency,
                   start |-> range[1], end |-> range[2], created |-> now]
<1>1. row \in RowState
  BY RangeTyped, OpenTyped DEF BudgetsInv, BudgetsTyped
<1>2. budget[b] = Absent /\ Save([budget EXCEPT ![b] = row], expense)
  BY DEF Create
<1>3. budget[b].status = "absent" /\ ~Dated(budget[b])
  BY <1>2, AbsentTyped DEF Absent, Dated
<1>4. request'[q].pc = "created" /\ request'[q].new = row
  BY Created
<1> HIDE DEF row
<1>5. Reached(dirty', {row.end})
  BY <1>1, <1>2, <1>3, CreateReached, SaveReached
<1>6. FinishDates(request[q])' = {row.end}
  BY <1>4 DEF FinishDates
<1>7. Reached(dirty, FinishDates(request[q]))'
  BY <1>5, <1>6
<1> QED
  BY <1>4, <1>7 DEF Alone, Before

LEMMA UpdateAlone ==
    ASSUME BudgetsInv, dirty = {}, NEW q \in Requests, Alone(request[q]), Update(q), ~Ended(q)
    PROVE  Alone(request[q])'
<1> DEFINE r == request[q]
           old == budget[r.id]
           new == r.new
           row == [old EXCEPT !.amount = new.amount, !.currency = new.currency,
                              !.start = new.start, !.end = new.end]
<1>1. r.pc = "update" /\ r.id \in Ids /\ old \in RowState /\ r \in RequestState
  BY Request DEF Update
<1>2. request'[q].pc = "updated" /\ Same(q)
  BY MovesOn
<1>3. Save([budget EXCEPT ![r.id] = row], expense)
  <2>1. ~Exists(r.id) => UNCHANGED rows /\ Goto(q, Idle)
    BY DEF Update
  <2>2. Goto(q, Idle) => request'[q].pc = "idle"
    BY Goes DEF Idle
  <2> QED
    BY <1>2, <2>1, <2>2 DEF Update
<1>4. r.old = old.end /\ r.earliest = EarliestExpense(r.id)
  BY <1>1 DEF Alone, Before
<1>5. new \in RowState
  BY <1>1 DEF RequestState
<1> HIDE DEF old, new
<1>6. row \in RowState /\ row.end = new.end
  BY <1>1, <1>5 DEF RowState
<1> HIDE DEF row
<1>7. Reached(dirty', {r.old, row.end, r.earliest})
  <2>1. Reached(ChangedDays(budget, expense, [budget EXCEPT ![r.id] = row], expense, now),
                {r.old, row.end, EarliestExpense(r.id)})
    BY <1>1, <1>4, <1>6, RowReached DEF old
  <2> QED
    BY <1>3, <1>4, <2>1, SaveReached
<1>8. FinishDates(request[q])' = {r.old, r.new.end, r.earliest}
  BY <1>2 DEF FinishDates, Same
<1>9. Reached(dirty, FinishDates(request[q]))'
  BY <1>6, <1>7, <1>8 DEF new
<1> QED
  BY <1>2, <1>9 DEF Alone, Before

LEMMA DeleteAlone ==
    ASSUME BudgetsInv, raced = {}, dirty = {}, NEW q \in Requests, Alone(request[q]), Delete(q)
    PROVE  Alone(request[q])'
<1> DEFINE r == request[q]
           xt == [x \in Expenses |-> IF expense[x].budget = r.id
                                     THEN [expense[x] EXCEPT !.budget = NoBudget] ELSE expense[x]]
<1>1. r.pc = "delete" /\ r.id \in Ids /\ Holds(r, budget, expense, raced)
  BY Request DEF Delete
<1>2. request'[q].pc = "deleted" /\ Same(q)
  BY MovesOn
<1>3. Save([budget EXCEPT ![r.id] = Deleted], xt)
  BY DEF Delete
<1>4. r.old = budget[r.id].end
  BY <1>1 DEF Alone, Before
<1>5. Unspent(r.id, expense)
  BY <1>1 DEF Holds
<1>6. \A x \in Expenses : (xt[x].live <=> expense[x].live) /\ (expense[x].live => xt[x] = expense[x])
  <2> SUFFICES ASSUME NEW x \in Expenses
               PROVE  (xt[x].live <=> expense[x].live) /\ (expense[x].live => xt[x] = expense[x])
    OBVIOUS
  <2>1. xt[x] = IF expense[x].budget = r.id THEN [expense[x] EXCEPT !.budget = NoBudget]
                                            ELSE expense[x]
    OBVIOUS
  <2> HIDE DEF xt
  <2> QED
    BY <1>1, <1>5, <2>1, DetachedExpenses
<1> HIDE DEF xt
<1>7. Reached(dirty', {r.old})
  BY <1>1, <1>3, <1>4, <1>5, <1>6, DeleteReached, SaveReached
<1>8. FinishDates(request[q])' = {r.old}
  BY <1>2 DEF FinishDates, Same
<1>9. Reached(dirty, FinishDates(request[q]))'
  BY <1>7, <1>8
<1> QED
  BY <1>2, <1>9 DEF Alone, Before

LEMMA CompleteAlone ==
    ASSUME BudgetsInv, dirty = {}, NEW q \in Requests, Alone(request[q]), Complete(q), ~Ended(q)
    PROVE  Alone(request[q])'
<1> DEFINE r == request[q]
           old == budget[r.id]
           new == r.new
           row == [old EXCEPT !.status = "completed", !.start = new.start, !.end = new.end]
<1>1. r.pc = "close" /\ r.id \in Ids /\ old \in RowState /\ r \in RequestState
  BY Request DEF Complete
<1>2. request'[q].pc = "completed" /\ Same(q)
  BY MovesOn
<1>3. Save([budget EXCEPT ![r.id] = row], expense)
  <2>1. old.status # "open" => UNCHANGED rows /\ Goto(q, Idle)
    BY DEF Complete
  <2>2. Goto(q, Idle) => request'[q].pc = "idle"
    BY Goes DEF Idle
  <2> QED
    BY <1>2, <2>1, <2>2 DEF Complete, CompleteRow
<1>4. r.old = old.end
  BY <1>1 DEF Alone, Before
<1>5. new \in RowState
  BY <1>1 DEF RequestState
<1> HIDE DEF old, new
<1>6. row \in RowState /\ row.end = new.end /\ row.status = "completed"
  BY <1>1, <1>5 DEF RowState
<1> HIDE DEF row
<1>7. Reached(dirty', {r.old, row.end, EarliestExpense(r.id)})
  BY <1>1, <1>3, <1>4, <1>6, RowReached, SaveReached DEF old
<1>8. expense' = expense /\ budget' = [budget EXCEPT ![r.id] = row]
  BY <1>3 DEF Save
<1>9. \A i : EarliestExpense(i)' = EarliestExpense(i)
  BY <1>8 DEF EarliestExpense
<1>10. FinishDates(request[q])' = {r.old, r.new.end, EarliestExpense(r.id)}
  BY <1>2, <1>9 DEF FinishDates, Same
<1>11. Reached(dirty, FinishDates(request[q]))'
  BY <1>6, <1>7, <1>10 DEF new
<1>12. Exists(request[q].id)'
  BY <1>1, <1>2, <1>6, <1>8 DEF Exists, Same, BudgetsInv, BudgetsTyped
<1> QED
  BY <1>2, <1>11, <1>12 DEF Alone, Before

LEMMA AddAlone ==
    ASSUME BudgetsInv, Fresh, dirty = {}, NEW q \in Requests, Alone(request[q]), Add(q), ~Ended(q)
    PROVE  Alone(request[q])'
<1> DEFINE r == request[q]
           x == r.x
           e == [live |-> TRUE, budget |-> r.id, currency |-> r.row.currency, date |-> r.date]
           xt == [expense EXCEPT ![x] = e]
<1>1. r.pc = "add" /\ r.id \in Ids /\ r \in RequestState /\ x \in Expenses
  BY Request DEF Add, Knows
<1>2. request'[q].pc = "added" /\ Same(q)
  BY MovesOn
<1>3. Save(budget, xt)
  <2>1. ~Exists(r.id) => UNCHANGED rows /\ Goto(q, Idle)
    BY DEF Add
  <2>2. Goto(q, Idle) => request'[q].pc = "idle"
    BY Goes DEF Idle
  <2> QED
    BY <1>2, <2>1, <2>2 DEF Add
<1>4. r.old = budget[r.id].end /\ ~expense[x].live
  BY <1>1 DEF Alone, Before, Fresh
<1>5. e \in ExpenseState /\ e.live = TRUE /\ e.budget = r.id /\ e.date = r.date
  BY <1>1 DEF RequestState, RowState, ExpenseState
<1> HIDE DEF e
<1>6. /\ xt \in [Expenses -> ExpenseState] /\ xt[x] = e
      /\ \A y \in Expenses : y # x => xt[y] = expense[y]
  BY <1>1, <1>5 DEF BudgetsInv, BudgetsTyped
<1> HIDE DEF xt
<1>7. xt[x].live = ~expense[x].live
  <2>1. expense[x].live = FALSE
    <3>1. expense[x].live \in BOOLEAN
      BY <1>1 DEF BudgetsInv, BudgetsTyped, ExpenseState
    <3> QED
      BY <1>4, <3>1
  <2> QED
    BY <1>5, <1>6, <2>1
<1>8. Reached(ChangedDays(budget, expense, budget, xt, now), {r.date, r.old})
  <2>1. xt[x].budget = r.id /\ xt[x].date = r.date
    BY <1>5, <1>6
  <2> HIDE DEF x, r
  <2> QED
    BY <1>1, <1>4, <1>6, <1>7, <2>1, ExpenseReached
<1>9. Reached(dirty', {r.date, r.old})
  BY <1>3, <1>8, SaveReached
<1>10. FinishDates(request[q])' = {r.date, r.old}
  BY <1>2 DEF FinishDates, Same
<1>11. Reached(dirty, FinishDates(request[q]))'
  BY <1>9, <1>10
<1>12. expense'[request'[q].x].live
  BY <1>2, <1>3, <1>5, <1>6 DEF Same, Save
<1> QED
  BY <1>2, <1>11, <1>12 DEF Alone, Before

(* An expense that is removed is one of its budget's no more. *)
LEMMA RemoveReached ==
    ASSUME BudgetsInv, dirty = {}, NEW x \in Expenses, expense[x].live,
           Save(budget, [expense EXCEPT ![x].live = FALSE]), NEW b, b = expense[x].budget,
           NEW dates, expense[x].date \in dates, b \in Ids => budget[b].end \in dates
    PROVE  Reached(dirty', dates)
<1> DEFINE xt == [expense EXCEPT ![x].live = FALSE]
           e == [expense[x] EXCEPT !.live = FALSE]
           day == expense[x].date
<1>1. expense[x] \in ExpenseState /\ expense \in [Expenses -> ExpenseState]
  BY DEF BudgetsInv, BudgetsTyped
<1>2. e \in ExpenseState /\ ~e.live
  BY <1>1 DEF ExpenseState
<1>3. xt = [expense EXCEPT ![x] = e]
  OBVIOUS
<1>4. Save(budget, xt)
  OBVIOUS
<1> HIDE DEF xt, e
<1>5. /\ xt \in [Expenses -> ExpenseState] /\ xt[x] = e
      /\ \A y \in Expenses : y # x => xt[y] = expense[y]
  BY <1>1, <1>2, <1>3
<1>6. xt[x].live = ~expense[x].live
  <2>1. expense[x].live \in BOOLEAN /\ e.live \in BOOLEAN
    BY <1>1, <1>2 DEF ExpenseState
  <2>2. e.live = ~expense[x].live
    BY <1>2, <2>1, Zenon
  <2> QED
    BY <1>5, <2>2, Zenon
<1>7. Reached(ChangedDays(budget, expense, budget, xt, now), dates)
  <2>1. ~xt[x].live
    BY <1>2, <1>5
  <2>2. day \in dates
    OBVIOUS
  <2> HIDE DEF day
  <2> QED
    BY <1>5, <1>6, <2>1, <2>2, ExpenseReached DEF day
<1> QED
  BY <1>4, <1>7, SaveReached

LEMMA RemoveAlone ==
    ASSUME BudgetsInv, dirty = {}, NEW q \in Requests, Alone(request[q]), Remove(q), ~Ended(q)
    PROVE  Alone(request[q])'
<1> DEFINE r == request[q]
<1>1. r.pc = "remove" /\ r.id \in Ids /\ r.x \in Expenses
  BY Request DEF Remove, Knows
<1>2. /\ request'[q].pc = "removed" /\ request'[q].old = r.old
      /\ request'[q].date = expense[r.x].date
  BY ReadsOn
<1>3. /\ Save(budget, [expense EXCEPT ![r.x].live = FALSE])
      /\ expense[r.x].live /\ expense[r.x].budget = r.id
  <2>1. Goto(q, Idle) => request'[q].pc = "idle"
    BY Goes DEF Idle
  <2> QED
    BY <1>2, <2>1 DEF Remove
<1>4. r.old = budget[r.id].end
  BY <1>1 DEF Alone, Before
<1>5. Reached(dirty', {expense[r.x].date, r.old})
  BY <1>1, <1>3, <1>4, RemoveReached
<1>6. FinishDates(request[q])' = {expense[r.x].date, r.old}
  BY <1>2 DEF FinishDates
<1>7. Reached(dirty, FinishDates(request[q]))'
  BY <1>5, <1>6
<1> QED
  BY <1>2, <1>7 DEF Alone, Before

LEMMA DeleteExpenseAlone ==
    ASSUME BudgetsInv, dirty = {}, NEW q \in Requests, NEW x \in Expenses, DeleteExpense(q, x)
    PROVE  Alone(request[q])'
<1> DEFINE b == expense[x].budget
           dates == {expense[x].date} \cup (IF b = NoBudget THEN {} ELSE {budget[b].end})
<1>1. request'[q].pc = "gone" /\ request'[q].id = b /\ request'[q].date = expense[x].date
  BY Gone
<1>2. expense[x].live /\ Save(budget, [expense EXCEPT ![x].live = FALSE]) /\ budget' = budget
  BY DEF DeleteExpense, Save
<1>3. b \in Ids => budget[b].end \in dates
  BY BudgetsAssumption DEF NoBudget
<1>4. Reached(dirty', dates)
  <2>1. expense[x].date \in dates
    OBVIOUS
  <2> HIDE DEF dates
  <2> QED
    BY <1>2, <1>3, <2>1, RemoveReached
<1>5. FinishDates(request[q])' = dates
  BY <1>1, <1>2 DEF FinishDates
<1>6. Reached(dirty, FinishDates(request[q]))'
  BY <1>4, <1>5
<1> QED
  BY <1>1, <1>6 DEF Alone, Before

LEMMA AnswerSequential ==
    ASSUME BudgetsInv, Fresh, Sequential, NEW q \in Requests, Answer(q), raced' = {}
    PROVE  Sequential'
<1> DEFINE Goal == /\ request'[q].pc = "idle" => dirty' = {}
                   /\ request'[q].pc # "idle" => Alone(request[q])'
<1>1. raced = {} /\ \A p \in UnderWay : p = q
  BY MovesAlone
<1>2. /\ request[q].pc = "idle" => dirty = {}
      /\ request[q].pc # "idle" => Alone(request[q])
      /\ request[q].pc \in Before => dirty = {}
  BY <1>1, AloneNow
<1>3. ASSUME NEW b \in Ids, NEW amount \in Amounts, NEW currency \in Currencies,
             NEW range \in Ranges, Create(q, b, amount, currency, range)
      PROVE  Goal
  <2>1. dirty = {}
    BY <1>2, <1>3 DEF Create, Arrive
  <2> QED
    BY <1>3, <2>1, CreateAlone, Created
<1>4. ASSUME NEW b \in Ids, NEW stage \in {"check", "count", "complete", "add", "remove"},
             Begun(q, b, stage)
      PROVE  Goal
  <2>1. dirty = {}
    BY <1>2, <1>4 DEF Begun
  <2> QED
    BY <1>1, <1>2, <1>4, <2>1, ReadsAlone
<1>5. ASSUME CheckUpdate(q) \/ Count(q) \/ ReadToComplete(q)
      PROVE  Goal
  <2>1. dirty = {} /\ request[q].pc # "idle"
    BY <1>2, <1>5 DEF CheckUpdate, Count, ReadToComplete, Before
  <2> QED
    BY <1>1, <1>2, <1>5, <2>1, ReadsAlone
<1>6. ASSUME Update(q) \/ Delete(q) \/ Complete(q) \/ Add(q) \/ Remove(q)
      PROVE  Goal
  <2>1. dirty = {} /\ request[q].pc # "idle" /\ Alone(request[q])
    BY <1>2, <1>6 DEF Update, Delete, Complete, Add, Remove, Before
  <2>2. CASE Ended(q)
    BY <1>1, <2>1, <2>2, ReadsAlone
  <2>3. CASE ~Ended(q)
    <3>1. Alone(request[q])'
      BY <1>1, <1>6, <2>1, <2>3, UpdateAlone, DeleteAlone, CompleteAlone, AddAlone, RemoveAlone
    <3>2. request'[q].pc # "idle"
      BY <1>6, <2>3, MovesOn, ReadsOn
    <3> QED
      BY <3>1, <3>2
  <2> QED
    BY <2>2, <2>3
<1>7. ASSUME NEW x \in Expenses, DeleteExpense(q, x)
      PROVE  Goal
  <2>1. dirty = {}
    BY <1>2, <1>7 DEF DeleteExpense, Arrive
  <2> QED
    BY <1>7, <2>1, DeleteExpenseAlone, Gone
<1>8. ASSUME \/ FinishCreate(q) \/ FinishUpdate(q) \/ FinishDelete(q) \/ FinishRemove(q)
             \/ FinishDeleteExpense(q) \/ FinishComplete(q) \/ FinishAdd(q)
      PROVE  Goal
  <2>1. request[q].pc # "idle" /\ Alone(request[q])
    BY <1>2, <1>8 DEF FinishCreate, FinishUpdate, FinishDelete, FinishRemove,
                      FinishDeleteExpense, FinishComplete, FinishAdd
  <2> QED
    BY <1>8, <2>1, EndsClean, Ends
<1>9. ASSUME NEW b \in Ids,
             \/ \E amount \in Amounts, currency \in Currencies, range \in Ranges :
                   StartUpdate(q, b, amount, currency, range)
             \/ StartDelete(q, b)
             \/ \E asOf \in Days \cap ((now - 1)..(now + 1)) : StartComplete(q, b, asOf)
             \/ \E x \in Expenses : (\E d \in Days : StartAdd(q, b, x, d)) \/ StartRemove(q, b, x)
      PROVE  \E stage \in {"check", "count", "complete", "add", "remove"} : Begun(q, b, stage)
  BY <1>9, BeginsAtStage
<1>10. Goal
  <2> HIDE DEF Goal
  <2> QED
    BY <1>3, <1>4, <1>5, <1>6, <1>7, <1>8, <1>9 DEF Answer
<1> QED
  BY <1>10, SequentialTo

(* A day that passes changes no frozen line: a period is frozen only when the   *)
(* budgets that end in it have ended for good.                              *)
LEMMA TickSequential ==
    ASSUME BudgetsInv, Sequential, Tick
    PROVE  Sequential'
<1>1. ASSUME NEW d \in Frozen(now)
      PROVE  Lines(budget, expense, now, d) = Lines(budget, expense, now + 1, d)
  <2>1. d < now - 1 /\ d \in Int /\ now \in Int
    BY DEF Frozen, Days, BudgetsInv, BudgetsTyped
  <2>2. \A b \in Ids : budget[b].end = d =>
           ProjectionAmount(budget[b], SpentOf(expense, b), now)
             = ProjectionAmount(budget[b], SpentOf(expense, b), now + 1)
    BY <2>1 DEF ProjectionAmount
  <2> DEFINE Amount(b, today) == ProjectionAmount(budget[b], SpentOf(expense, b), today)
             Line(b, today) == [budget |-> b, amount |-> Amount(b, today),
                                currency |-> budget[b].currency]
             Shows(b, today) == Dated(budget[b]) /\ budget[b].end = d /\ Amount(b, today) > 0
  <2>3. \A b \in Ids : (Shows(b, now) <=> Shows(b, now + 1))
                       /\ (Shows(b, now) => Line(b, now) = Line(b, now + 1))
    <3> HIDE DEF Amount
    <3>1. \A b \in Ids : budget[b].end = d => Amount(b, now) = Amount(b, now + 1)
      BY <2>2 DEF Amount
    <3> QED
      BY <3>1
  <2>4. \A today : Lines(budget, expense, today, d)
                     = {Line(b, today) : b \in {i \in Ids : Shows(i, today)}}
    BY DEF Lines
  <2> HIDE DEF Line, Shows
  <2> QED
    BY <2>3, <2>4
<1>2. dirty' = dirty /\ UNCHANGED <<budget, expense, request, raced>>
  BY <1>1 DEF Tick, counts
<1>3. UnderWay' = UnderWay
  BY <1>2 DEF UnderWay
<1>4. \A r : Alone(r)' = Alone(r)
  BY <1>2 DEF Alone, FinishDates, EarliestExpense, Exists, Reached
<1> QED
  BY <1>2, <1>3, <1>4 DEF Sequential

(* budgets.rs:33: after requests that came one after the other nothing is      *)
(* frozen that the rows no longer say, however many requests, on however many *)
(* budgets and expenses, over however many days.                            *)
THEOREM HistoryFollowsWrites == Spec => []HistoryFollows
<1>1. Init => Fresh /\ Sequential
  BY DEF Init, Fresh, Sequential, UnderWay, Idle
<1>2. BudgetsInv /\ Fresh /\ [Next]_vars => Fresh'
  BY FreshKeeps
<1>3. BudgetsInv /\ Fresh /\ Sequential /\ [Next]_vars => Sequential'
  <2> SUFFICES ASSUME BudgetsInv, Fresh, Sequential, [Next]_vars
               PROVE  Sequential'
    OBVIOUS
  <2>1. ASSUME NEW q \in Requests, Answer(q)
        PROVE  Sequential'
    BY <2>1, AnswerSequential DEF Sequential
  <2>2. CASE Tick
    BY <2>2, TickSequential
  <2>3. CASE UNCHANGED vars
    <3>1. UnderWay' = UnderWay
      BY <2>3 DEF vars, UnderWay
    <3>2. \A r : Alone(r)' = Alone(r)
      BY <2>3 DEF vars, Alone, FinishDates, EarliestExpense, Exists, Reached
    <3> QED
      BY <2>3, <3>1, <3>2 DEF vars, Sequential
  <2> QED
    BY <2>1, <2>2, <2>3 DEF Next
<1>4. Sequential => HistoryFollows
  BY DEF Sequential, HistoryFollows
<1> QED
  BY <1>1, <1>2, <1>3, <1>4, BudgetsInvariant, PTL DEF Spec

==============================================================================
