SPECIFICATION FairSpec

CONSTANTS
    Replicas = {p1, p2}
    ReadReplicas = {p1}
    JobReplicas = {}
    Readers = {r1}
    Writers = {w1}
    Views = {"projections", "money"}
    Histories = {"none", "from", "rebuild"}
    ChargeSteps = 0
    PeriodInWindow = TRUE
    Faults = {"sync_failure"}
    MaxWrites = 1

PROPERTIES
    ReadsConverge
