SPECIFICATION Spec
CONSTANTS
    Requests   = {r1, r2, r3}
    Replicas   = {p1}
    Incidents  = {i1}
    People     = {ann, bob}
    Levels     = {"low", "medium", "high"}
    EntryTypes = {"note"}
    Ops        = {"declare", "severity", "responders"}
    PoolMax    = 2
    MaxTrail   = 3
    MaxFaults  = 0
    NoRow      = NoRow
    Nobody     = Nobody
    key        = key
    Locks      = {key}
    LockOf    <- MCLockOf
SYMMETRY Interchangeable
INVARIANTS
    SeverityTrail
    AcknowledgedKept
