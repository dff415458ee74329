SPECIFICATION FairSpec
CONSTANTS
    r1 = r1
    r2 = r2
    Requests   = {r1, r2}
    Replicas   = {p1, p2}
    p1 = p1
    p2 = p2
    Hosts     <- MCHosts
    PoolMax    = 1
    FirstDay  <- MCFirstDay
    Workloads <- MCWorkloads
    Seed      <- MCSeed
    Arriving   = {"high"}
    TTL        = 2
    Midnight   = 1
    MaxClock   = 2
    MaxWrites  = 1
    FaultKinds = {"get", "connect", "query", "set"}
    MaxFaults  = 1
INVARIANTS
    IInv
    FrequencyIsTrue
    TrendsAreTrue
    MttrIsTrue
    ServedWhileValid
PROPERTIES
    EveryRequestAnswered
CHECK_DEADLOCK FALSE
