SPECIFICATION FairSpec

CONSTANTS
    a1 = a1
    a2 = a2
    e1 = e1
    Accounts = {a1, a2}
    Editors = {e1}
    Rates = {2}
    Amounts = {2}
    Micros = 3
    CatchUpDays = 1
    ClientOffsets <- AnyClientDay
    LastDay = 3
    MaxEdits = 2
    MaxFaults = 1

INVARIANTS
    ExactlyOnce
    InterestConserved
    NothingBackfilled

PROPERTIES
    InterestCatchesUp
