SPECIFICATION FairSpec

CONSTANTS
    p1 = p1
    p2 = p2
    rent = rent
    save = save
    pay = pay
    alice = alice
    bob = bob
    Replicas = {p1, p2}
    Users = {alice}
    Templates = {rent, pay}
    Owner <- OneUser
    Kind <- KindOf
    Schedules <- DayOne
    CatchUpDays = 1
    LastDay = 2
    MaxEdits = 0
    MaxFaults = 2
    Faults = {"crash", "lost_session"}
    ShortPasses = TRUE

PROPERTIES
    RowsFillSlots
    EveryOccurrenceRecorded
