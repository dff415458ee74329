SPECIFICATION Spec
CONSTANTS
    Requests   = {r1, r2}
    Replicas   = {p1}
    Incidents  = {i1}
    People     = {ann}
    Levels     = {"low", "critical"}
    EntryTypes = {"resolution"}
    Ops        = {"declare", "status", "severity", "responders", "timeline", "postmortem"}
    PoolMax    = 2
    MaxTrail   = 3
    MaxFaults  = 0
    NoRow      = NoRow
    Nobody     = Nobody
    key        = key
    Locks      = {key}
    LockOf    <- MCLockOf
SYMMETRY Interchangeable
INVARIANTS
    TypeOK
    IInv
    AuditTrail
    EvidenceFirst
    FrozenOnceResolved
    EverythingPublished
PROPERTIES
    ImplementsContract
