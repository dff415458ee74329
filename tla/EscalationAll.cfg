SPECIFICATION FairSpec
CONSTANTS
    Incidents   = {i1}
    Policies    = {1, 2}
    LevelsOf   <- MCLevelsOf
    Consumers   = {c1, c2}
    Pollers     = {q1, q2}
    BatchMax    = 2
    MaxTime     = 2
    MaxChanges  = 1
    FaultKinds  = {"publish", "lookup", "post", "consumer", "poller"}
    MaxFaults   = 1
INVARIANTS
    IInv
    LevelsIncrease
    
PROPERTIES
    ImplementsContract
    ArmedIsEscalated
    StoppedTimerGoes
CHECK_DEADLOCK FALSE
