SPECIFICATION Spec

CONSTANTS
    Ids = {b1}
    Expenses = {x1}
    Requests = {q1, q2}
    Kinds = {"create", "update", "delete", "complete", "add", "remove", "deleteExpense"}
    Amounts = {3}
    Currencies = {eur, usd}
    LastDay = 3
    MaxChanges = 3

SYMMETRY Symmetry
CHECK_DEADLOCK FALSE

INVARIANTS
    HistoryFollows
    SpendInBudgetCurrency

PROPERTIES
    ExpensesKeepTheirBudget
    CompletedIsClosed
