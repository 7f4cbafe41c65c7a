SPECIFICATION FairSpec

CONSTANTS
    Replicas = {p1}
    ReadReplicas = {p1}
    JobReplicas = {p1}
    Readers = {r1}
    Writers = {w1}
    Views = {"view"}
    Histories = {"none"}
    ChargeSteps = 1
    PeriodInWindow = FALSE
    Faults = {"timeout", "crash", "step_failure", "sync_failure", "clear_failure"}
    MaxWrites = 2
INVARIANTS
    EntriesCoverTheirRevision
    RowsArePublished

PROPERTIES
    UnpublishedRowsAppear
