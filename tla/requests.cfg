SPECIFICATION PathSpec

CONSTANTS
    r1 = r1
    r2 = r2
    u1 = u1
    u2 = u2
    old = old
    new = new
    job = job
    Requests = {r1, r2}
    Kids = {old, new}
    KeySets <- Rotation
    Interval = 1
    KeyFaults = {"upstream", "abandon", "restart"}
    Conns = {c1}
    Clients = {r1, r2, job}
    Users = {u1, u2}
    MaxSent = 2
    PoolFaults = {"drop", "error", "recycle"}
    Job = job

CONSTRAINT Apart
SYMMETRY Symmetry
CHECK_DEADLOCK FALSE

INVARIANTS
    StableKeysAccepted
    QueriesRunAsTheirSender
    HandlersForOnboarded

PROPERTIES
    KeysImplementReloadedCopy
