SPECIFICATION Spec

CONSTANTS
    p1 = p1
    p2 = p2
    rent = rent
    save = save
    pay = pay
    alice = alice
    bob = bob
    Replicas = {p1, p2}
    Users = {alice, bob}
    Templates = {save, pay}
    Owner <- TwoUsers
    Kind <- KindOf
    Schedules <- DayOne
    CatchUpDays = 1
    LastDay = 2
    MaxEdits = 1
    MaxFaults = 1
    Faults = {"crash", "step_failure"}
    ShortPasses = FALSE

SYMMETRY Symmetry

INVARIANTS
    PassCatchesUp

PROPERTIES
    ChargesFollowTemplates
