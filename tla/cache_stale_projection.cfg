SPECIFICATION Spec

CONSTANTS
    Replicas = {p1}
    ReadReplicas = {p1}
    JobReplicas = {}
    Readers = {r1}
    Writers = {w1}
    Views = {"projections"}
    Histories = {"from"}
    ChargeSteps = 0
    PeriodInWindow = FALSE
    Faults = {}
    MaxWrites = 1
INVARIANTS
    NoStaleProjectionUnderNewRevision
