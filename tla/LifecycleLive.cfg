SPECIFICATION FairSpec
CONSTANTS
    Requests   = {r1, r2}
    Replicas   = {p1, p2}
    Incidents  = {i1}
    People     = {ann}
    Levels     = {"critical"}
    EntryTypes = {"resolution"}
    Ops        = {"declare", "status", "severity", "timeline", "postmortem"}
    PoolMax    = 1
    MaxTrail   = 1
    MaxFaults  = 0
    NoRow      = NoRow
    Nobody     = Nobody
    key        = key
    Locks      = {key}
    LockOf    <- MCLockOf
PROPERTIES
    EveryRequestEnds
