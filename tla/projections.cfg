SPECIFICATION Spec

CONSTANTS
    a1 = a1
    a2 = a2
    Accounts = {a1, a2}
    NoAccount = none
    LastMonth = 96
    MonthStart <- Calendar
    MaxPeriods = 5000
    MaxOverlapping = 400
    Scenarios <- Setups
    Amount <- TheAmounts
    Opening <- TheOpening
    CatchUpDays = 6
    HorizonDays = 10
    ManualDays <- Near
    LookAhead = 45
    FirstWeekday = 4
    Reported <- Ranges

INVARIANTS
    OccurrencesAgree
    PeriodsTile
    OccurrenceShownOnce
    FrozenAndLiveContinuous
    PeriodItemsMatch
    BalancesAgree
    PayableAgrees
    ReportsAddUp
PROPERTIES
    RefreezeReachesFarEnough
    ChargingKeepsTheProjection

CHECK_DEADLOCK FALSE
