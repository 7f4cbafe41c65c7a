SPECIFICATION RemindersSpec

CONSTANTS
    LastMonth = 2
    MonthStart <- Starts
    MaxPeriods = 1
    MaxOverlapping = 1
    Recurring = {netflix}
    Schedules <- Weeks
    LastDay = 12
    MaxSaves = 4
    MaxAborts = 1

CHECK_DEADLOCK FALSE

INVARIANTS
    ListedAreTrue

PROPERTIES
    RemindedInTime
    RemindersFillSlots
