------------------------------- MODULE Budgets -------------------------------
(***************************************************************************)
(* Budgets and the expenses recorded against them: the handlers of          *)
(* src/src/routes/budgets.rs, which read, check and write in separate       *)
(* transactions (src/src/repos/budgets.rs), and the date each asks          *)
(* finish_write to re-freeze projections from.                              *)
(*                                                                         *)
(* A projection shows a dated budget as one line on its end date and an     *)
(* undated budget's expenses at their own dates (expense_period.rs).  Every  *)
(* expense is of one unit; names, tags, accounts and exchange rates are      *)
(* left out.  What re-freezing does is ProjectionHistory's matter: here a    *)
(* frozen day is dirty from the commit that changes what projections show on *)
(* it until a finish_write re-freezes from that day or an earlier one.      *)
(***************************************************************************)
EXTENDS Integers, FiniteSets, FiniteSetsExt

CONSTANTS
    Ids,        \* budgets
    Expenses,   \* expenses
    Requests,   \* concurrent requests
    Kinds,      \* the kinds of request that arrive
    Amounts,    \* what a budget may allow
    Currencies,
    LastDay,    \* bound: the last day of the clock
    MaxChanges  \* bound: requests

AllKinds == {"create", "update", "delete", "complete", "add", "remove", "deleteExpense"}

ASSUME BudgetsAssumption ==
    /\ Kinds \subseteq AllKinds
    /\ Amounts \subseteq Nat \ {0}
    /\ LastDay \in Nat \ {0} /\ MaxChanges \in Nat
    /\ "none" \notin Ids

VARIABLES
    now,      \* UTC's day
    budget,   \* budget[b]: [status, amount, currency, start, end, created]
    expense,  \* expense[x]: [live, budget, currency, date]
    request,  \* request[q]: a request between its transactions
    dirty,    \* days whose frozen projection lags the rows
    changes,
    raced     \* history: the kinds of the requests that have overlapped another

vars == <<now, budget, expense, request, dirty, changes, raced>>
counts == <<changes, raced>>
rows == <<budget, expense, dirty>>

-----------------------------------------------------------------------------
Days == 1..LastDay
NoDate == 0
NoBudget == "none"

Absent == [status |-> "absent", amount |-> 0, currency |-> "none",
           start |-> NoDate, end |-> NoDate, created |-> 0]
Deleted == [Absent EXCEPT !.status = "deleted"]
NoExpense == [live |-> FALSE, budget |-> NoBudget, currency |-> "none", date |-> NoDate]
Idle == [pc |-> "idle", kind |-> "none", id |-> NoBudget, row |-> Absent, old |-> NoDate,
         new |-> Absent, x |-> "none", date |-> NoDate, earliest |-> NoDate]

UnderWay == {q \in Requests : request[q].pc # "idle"}
Goto(q, state) == request' = [request EXCEPT ![q] = state]

(* validate_budget: both dates or neither, in order. *)
Ranges == {<<NoDate, NoDate>>} \cup {r \in Days \X Days : r[1] <= r[2]}

Init ==
    /\ now = 1
    /\ budget = [b \in Ids |-> Absent]
    /\ expense = [x \in Expenses |-> NoExpense]
    /\ request = [q \in Requests |-> Idle]
    /\ dirty = {}
    /\ changes = 0
    /\ raced = {}

-----------------------------------------------------------------------------
(* What a projection shows. *)

Dated(row) == row.start # NoDate /\ row.end # NoDate
SpentOf(xs, b) == Cardinality({x \in Expenses : xs[x].live /\ xs[x].budget = b})

(* get_budget_projection_amount *)
ProjectionAmount(row, spent, today) ==
    IF row.status = "completed" \/ row.end < today THEN spent ELSE row.amount

Lines(bs, xs, today, d) ==
    {[budget |-> b, amount |-> ProjectionAmount(bs[b], SpentOf(xs, b), today),
      currency |-> bs[b].currency] :
        b \in {i \in Ids : Dated(bs[i]) /\ bs[i].end = d
                           /\ ProjectionAmount(bs[i], SpentOf(xs, i), today) > 0}}
OwnItems(bs, xs, d) ==
    {x \in Expenses : /\ xs[x].live /\ xs[x].date = d
                      /\ xs[x].budget # NoBudget => ~Dated(bs[xs[x].budget])}
ChangedDays(bs, xs, bt, xt, today) ==
    {d \in Days : \/ Lines(bs, xs, today, d) # Lines(bt, xt, today, d)
                  \/ OwnItems(bs, xs, d) # OwnItems(bt, xt, d)}

(* A period that ended before yesterday is frozen (freeze_cutoff). *)
Frozen(today) == {d \in Days : d < today - 1}

(* A transaction that leaves the rows at bs and xs. *)
Save(bs, xs) ==
    /\ budget' = bs /\ expense' = xs
    /\ dirty' = dirty \cup (ChangedDays(budget, expense, bs, xs, now) \cap Frozen(now))

(* budget_history: the earliest of the dates that are there. *)
HistoryFrom(dates) ==
    IF dates \ {NoDate} = {} THEN NoDate ELSE Min(dates \ {NoDate})

(* The handler answers, with an error or with nothing more to do. *)
Answered(q) == Goto(q, Idle) /\ UNCHANGED <<now, rows, counts>>

(* finish_write: nothing to re-freeze, or everything from a date on. *)
Finish(q, dates) ==
    /\ dirty' = IF HistoryFrom(dates) = NoDate THEN dirty
                ELSE {d \in dirty : d < HistoryFrom(dates)}
    /\ Goto(q, Idle)
    /\ UNCHANGED <<now, budget, expense, counts>>

-----------------------------------------------------------------------------
Arrive(q, kind) ==
    /\ kind \in Kinds
    /\ request[q].pc = "idle"
    /\ changes < MaxChanges
    /\ changes' = changes + 1
    /\ raced' = IF UnderWay = {} THEN raced
                ELSE raced \cup {kind} \cup {request[p].kind : p \in UnderWay}

Exists(b) == budget[b].status \in {"open", "completed"}
EarliestExpense(b) ==
    HistoryFrom({expense[x].date : x \in {y \in Expenses : expense[y].live
                                                           /\ expense[y].budget = b}})

Create(q, b, amount, currency, range) ==
    LET row == [status |-> "open", amount |-> amount, currency |-> currency,
                start |-> range[1], end |-> range[2], created |-> now] IN
    /\ Arrive(q, "create")
    /\ budget[b] = Absent
    /\ Save([budget EXCEPT ![b] = row], expense)
    /\ Goto(q, [Idle EXCEPT !.pc = "created", !.kind = "create", !.id = b, !.new = row])
    /\ UNCHANGED now

FinishCreate(q) ==
    LET r == request[q] IN r.pc = "created" /\ Finish(q, {r.new.end})

(* Every other request reads its budget first. *)
Start(q, kind, b, state) ==
    /\ Arrive(q, kind)
    /\ Exists(b)
    /\ Goto(q, [state EXCEPT !.kind = kind, !.id = b, !.row = budget[b], !.old = budget[b].end])
    /\ UNCHANGED <<now, rows>>

(* update_budget *)
StartUpdate(q, b, amount, currency, range) ==
    /\ budget[b].status = "open"
    /\ Start(q, "update", b,
             [Idle EXCEPT !.pc = "check",
                          !.new = [budget[b] EXCEPT !.amount = amount, !.currency = currency,
                                                    !.start = range[1], !.end = range[2]]])

CheckUpdateNever(q) ==
    LET r == request[q] IN
    /\ r.pc = "check"
    /\ Goto(q, [r EXCEPT !.pc = "update", !.earliest = EarliestExpense(r.id)])
    /\ UNCHANGED <<now, rows, counts>>
CheckUpdate(q) ==
    LET r == request[q]
        earliest == EarliestExpense(r.id) IN
    /\ r.pc = "check"
    /\ IF r.new.currency # r.row.currency /\ earliest # NoDate
       THEN Goto(q, Idle)
       ELSE Goto(q, [r EXCEPT !.pc = "update", !.earliest = earliest])
    /\ UNCHANGED <<now, rows, counts>>

(* The row as it is now, completed or not, takes the values of the request. *)
Update(q) ==
    LET r == request[q] IN
    /\ r.pc = "update"
    /\ IF Exists(r.id)
       THEN /\ Save([budget EXCEPT ![r.id] =
                        [@ EXCEPT !.amount = r.new.amount, !.currency = r.new.currency,
                                  !.start = r.new.start, !.end = r.new.end]], expense)
            /\ Goto(q, [r EXCEPT !.pc = "updated"])
       ELSE Goto(q, Idle) /\ UNCHANGED rows
    /\ UNCHANGED <<now, counts>>
FinishUpdateAtNewEnd(q) ==
    LET r == request[q] IN r.pc = "updated" /\ Finish(q, {r.new.end, r.earliest})
FinishUpdate(q) ==
    LET r == request[q] IN r.pc = "updated" /\ Finish(q, {r.old, r.new.end, r.earliest})

(* delete_budget: the expenses are counted before the transaction; its       *)
(* foreign key keeps the expenses recorded meanwhile, without their budget.  *)
StartDelete(q, b) == Start(q, "delete", b, [Idle EXCEPT !.pc = "count"])

CountNever(q) ==
    LET r == request[q] IN
    /\ r.pc = "count"
    /\ Goto(q, [r EXCEPT !.pc = "delete"])
    /\ UNCHANGED <<now, rows, counts>>
Count(q) ==
    LET r == request[q] IN
    /\ r.pc = "count"
    /\ Goto(q, IF EarliestExpense(r.id) # NoDate THEN Idle ELSE [r EXCEPT !.pc = "delete"])
    /\ UNCHANGED <<now, rows, counts>>

Delete(q) ==
    LET r == request[q] IN
    /\ r.pc = "delete"
    /\ Save([budget EXCEPT ![r.id] = Deleted],
            [x \in Expenses |-> IF expense[x].budget = r.id
                                THEN [expense[x] EXCEPT !.budget = NoBudget] ELSE expense[x]])
    /\ Goto(q, [r EXCEPT !.pc = "deleted"])
    /\ UNCHANGED <<now, counts>>
FinishDelete(q) ==
    LET r == request[q] IN r.pc = "deleted" /\ Finish(q, {r.old})

(* complete_budget reads the budget a second time, in the repo. *)
StartComplete(q, b, asOf) == Start(q, "complete", b, [Idle EXCEPT !.pc = "complete", !.date = asOf])

StartOf(row, earliest) ==
    IF Dated(row) THEN row.start ELSE IF earliest # NoDate THEN earliest ELSE row.created

ReadToComplete(q) ==
    LET r == request[q]
        row == budget[r.id] IN
    /\ r.pc = "complete"
    /\ IF row.status = "open" /\ (row.end # NoDate => r.date <= row.end)
       THEN Goto(q, [r EXCEPT !.pc = "close",
                              !.new = [row EXCEPT !.status = "completed", !.end = r.date,
                                           !.start = StartOf(row, EarliestExpense(r.id))]])
       ELSE Goto(q, Idle)
    /\ UNCHANGED <<now, rows, counts>>

CompleteRow(q) ==
    LET r == request[q] IN
    /\ Save([budget EXCEPT ![r.id] = [@ EXCEPT !.status = "completed", !.start = r.new.start,
                                               !.end = r.new.end]], expense)
    /\ Goto(q, [r EXCEPT !.pc = "completed"])
CompleteAnyway(q) ==
    /\ request[q].pc = "close"
    /\ IF Exists(request[q].id) THEN CompleteRow(q) ELSE Goto(q, Idle) /\ UNCHANGED rows
    /\ UNCHANGED <<now, counts>>
Complete(q) ==
    /\ request[q].pc = "close"
    /\ IF budget[request[q].id].status = "open"
       THEN CompleteRow(q)
       ELSE Goto(q, Idle) /\ UNCHANGED rows
    /\ UNCHANGED <<now, counts>>

(* The budget is read once more first: deleted since, nothing is re-frozen. *)
FinishComplete(q) ==
    LET r == request[q] IN
    /\ r.pc = "completed"
    /\ IF Exists(r.id)
       THEN Finish(q, {r.old, r.new.end, EarliestExpense(r.id)})
       ELSE Answered(q)

(* create_budget_expense: in the budget's currency as it was read; the       *)
(* transaction locks the row and looks no further than its existence.       *)
StartAdd(q, b, x, date) ==
    /\ budget[b].status = "open"
    /\ \A p \in Requests : request[p].x # x
    /\ expense[x] = NoExpense
    /\ Start(q, "add", b, [Idle EXCEPT !.pc = "add", !.x = x, !.date = date])

Add(q) ==
    LET r == request[q] IN
    /\ r.pc = "add"
    /\ IF Exists(r.id)
       THEN /\ Save(budget, [expense EXCEPT ![r.x] =
                        [live |-> TRUE, budget |-> r.id, currency |-> r.row.currency,
                         date |-> r.date]])
            /\ Goto(q, [r EXCEPT !.pc = "added"])
       ELSE Goto(q, Idle) /\ UNCHANGED rows
    /\ UNCHANGED <<now, counts>>

(* The expense is read once more first: gone again, nothing is re-frozen. *)
FinishAdd(q) ==
    LET r == request[q] IN
    /\ r.pc = "added"
    /\ IF expense[r.x].live THEN Finish(q, {r.date, r.old}) ELSE Answered(q)

(* delete_budget_expense *)
StartRemove(q, b, x) ==
    Start(q, "remove", b, [Idle EXCEPT !.pc = "remove", !.x = x])

Remove(q) ==
    LET r == request[q] IN
    /\ r.pc = "remove"
    /\ IF expense[r.x].live /\ expense[r.x].budget = r.id
       THEN /\ Save(budget, [expense EXCEPT ![r.x].live = FALSE])
            /\ Goto(q, [r EXCEPT !.pc = "removed", !.date = expense[r.x].date])
       ELSE Goto(q, Idle) /\ UNCHANGED rows
    /\ UNCHANGED <<now, counts>>

FinishRemove(q) ==
    LET r == request[q] IN r.pc = "removed" /\ Finish(q, {r.date, r.old})

(* delete_expense, of any expense, and expense_history_date, which reads the *)
(* budget afterwards.                                                       *)
DeleteExpense(q, x) ==
    /\ Arrive(q, "deleteExpense")
    /\ expense[x].live
    /\ Save(budget, [expense EXCEPT ![x].live = FALSE])
    /\ Goto(q, [Idle EXCEPT !.pc = "gone", !.kind = "deleteExpense", !.id = expense[x].budget,
                            !.date = expense[x].date])
    /\ UNCHANGED now
FinishDeleteExpense(q) ==
    LET r == request[q] IN
    /\ r.pc = "gone"
    /\ Finish(q, {r.date} \cup (IF r.id = NoBudget THEN {} ELSE {budget[r.id].end}))

Answer(q) ==
    \/ \E b \in Ids :
          \/ \E amount \in Amounts, currency \in Currencies, range \in Ranges :
                \/ Create(q, b, amount, currency, range)
                \/ StartUpdate(q, b, amount, currency, range)
          \/ StartDelete(q, b)
          \/ \E asOf \in Days \cap ((now - 1)..(now + 1)) : StartComplete(q, b, asOf)
          \/ \E x \in Expenses : (\E d \in Days : StartAdd(q, b, x, d)) \/ StartRemove(q, b, x)
    \/ \E x \in Expenses : DeleteExpense(q, x)
    \/ FinishCreate(q)
    \/ CheckUpdate(q) \/ Update(q) \/ FinishUpdate(q)
    \/ Count(q) \/ Delete(q) \/ FinishDelete(q)
    \/ ReadToComplete(q) \/ Complete(q) \/ FinishComplete(q)
    \/ Add(q) \/ FinishAdd(q) \/ Remove(q) \/ FinishRemove(q) \/ FinishDeleteExpense(q)

(* A day passes, and what was frozen stays as it was. *)
Tick ==
    /\ now < LastDay
    /\ now' = now + 1
    /\ dirty' = dirty \cup {d \in Frozen(now) : Lines(budget, expense, now, d)
                                                  # Lines(budget, expense, now + 1, d)}
    /\ UNCHANGED <<budget, expense, request, counts>>

Next == (\E q \in Requests : Answer(q)) \/ Tick

Spec == Init /\ [][Next]_vars

-----------------------------------------------------------------------------
RowState == [status : {"absent", "open", "completed", "deleted"}, amount : Amounts \cup {0},
             currency : Currencies \cup {"none"}, start : 0..LastDay, end : 0..LastDay,
             created : 0..LastDay]

(* Every variable has its type; a budget has both dates or none. *)
TypeOK ==
    /\ now \in 1..LastDay
    /\ budget \in [Ids -> RowState]
    /\ \A b \in Ids : (budget[b].start = NoDate) = (budget[b].end = NoDate)
    /\ expense \in [Expenses -> [live : BOOLEAN, budget : Ids \cup {NoBudget},
                                 currency : Currencies \cup {"none"}, date : 0..LastDay]]
    /\ request \in [Requests ->
          [pc : {"idle", "created", "check", "update", "updated", "count", "delete", "deleted",
                 "complete", "close", "completed", "add", "added", "remove", "removed", "gone"},
           kind : AllKinds \cup {"none"}, id : Ids \cup {NoBudget}, row : RowState,
           old : 0..LastDay, new : RowState, x : Expenses \cup {"none"}, date : 0..LastDay,
           earliest : 0..LastDay]]
    /\ dirty \subseteq Days
    /\ changes \in Nat
    /\ raced \subseteq AllKinds

(* budgets.rs:33: each request re-freezes from the earliest day on which it  *)
(* changed what projections show, and no frozen line is left holding an      *)
(* envelope (expense_period.rs:523): after requests that came one after the  *)
(* other, nothing is frozen that the rows no longer say.                     *)
HistoryFollows == UnderWay = {} /\ raced = {} => dirty = {}

(* budgets.rs:147: spent is a raw sum of amounts in the budget's currency.   *)
(* Only an update racing another request can leave an expense in the old     *)
(* currency.                                                                *)
SpendInBudgetCurrency ==
    "update" \notin raced =>
        \A x \in Expenses :
            expense[x].live /\ expense[x].budget # NoBudget =>
                expense[x].currency = budget[expense[x].budget].currency

(* budgets.rs:185: only a budget without expenses is deleted, so an expense  *)
(* keeps the budget it was recorded against, unless the deletion races the   *)
(* recording.                                                               *)
ExpensesKeepTheirBudget ==
    [][{"add", "delete"} \subseteq raced' \/
       \A x \in Expenses :
          expense[x].live /\ expense'[x].live => expense'[x].budget = expense[x].budget]_vars

(* repos/budgets.rs:309: completing freezes what was spent and closes the    *)
(* date range, once and for all, and an open-ended budget becomes dated,      *)
(* whatever other completions, recordings and removals race it; only an       *)
(* update that raced it reopens it.  No expense is recorded on a completed     *)
(* budget (routes/budgets.rs:239), unless its completion races the recording. *)
CompletedIsClosed ==
    [][/\ {"update", "complete"} \subseteq raced' \/
             \A b \in Ids :
                /\ budget'[b].status = "completed" => Dated(budget'[b])
                /\ budget[b].status = "completed" /\ budget'[b].status = "completed" =>
                      budget'[b] = budget[b]
       /\ {"add", "complete"} \subseteq raced' \/
             \A x \in Expenses :
                ~expense[x].live /\ expense'[x].live =>
                    budget[expense'[x].budget].status = "open"]_vars
=============================================================================
