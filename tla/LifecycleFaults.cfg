SPECIFICATION Spec
CONSTANTS
    Requests   = {r1, r2}
    Replicas   = {p1, p2}
    Incidents  = {i1}
    People     = {ann}
    Levels     = {"low"}
    EntryTypes = {"resolution"}
    Ops        = {"declare", "status", "responders", "timeline", "postmortem"}
    PoolMax    = 1
    MaxTrail   = 2
    MaxFaults  = 1
    NoRow      = NoRow
    Nobody     = Nobody
    key        = key
    Locks      = {key}
    LockOf    <- MCLockOf
SYMMETRY Interchangeable
INVARIANTS
    PublishedIsCommitted
    NothingLeaks
