SPECIFICATION Spec
CONSTANTS
    Incidents   = {i1}
    Policies    = {1, 2}
    LevelsOf   <- MCLevelsOf
    Consumers   = {c1}
    Pollers     = {q1, q2}
    BatchMax    = 2
    MaxTime     = 3
    MaxChanges  = 1
    FaultKinds  = {}
    MaxFaults   = 0
INVARIANTS
    EscalatesWhenDue
CHECK_DEADLOCK FALSE
