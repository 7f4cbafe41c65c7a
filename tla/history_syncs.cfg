SPECIFICATION FairSpec

CONSTANTS
    Handlers = {h1}
    Periods = 2
    PeriodDays = 2
    CatchUpDays = 2
    Changes = {"row", "opening", "currency"}
    ClientOffsets <- AnyClientDay
    LastDay = 6
    MaxChanges = 2
    MaxFaults = 2
    Faults = {"timeout", "sync_failure", "clear_failure", "job_sync_failure", "step_failure", "crash"}

INVARIANTS
    Continuous
    FrozenEqualsLive
    OnlyClosedPeriodsFrozen

PROPERTIES
    EveryPeriodFrozen
