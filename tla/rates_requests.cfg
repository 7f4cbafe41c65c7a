SPECIFICATION FairSpec

CONSTANTS
    Callers = {r1, r2, r3}
    CallerKinds = {"plain", "holding", "forced"}
    PoolSize = 2
    TTL = 1
    LastTick = 2
    Faults = {"upstream", "abandon", "restart", "replica"}

INVARIANTS
    ReloadsOnlyStaleRates

PROPERTIES
    ImplementsReloadedCopy
    EveryRequestAnswered
