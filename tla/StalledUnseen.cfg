SPECIFICATION FairSpec
CONSTANTS
    e1 = e1
    e2 = e2
    Executions = {e1, e2}
    StepsOf    <- MCStepsOf
    RollbackOf <- MCRollbackOf
    Workers    = {w1, w2}
    BatchMax   = 2
    EngineStream = "stream:runbook-executions"
    FaultKinds = {"crash"}
    MaxFaults  = 1
PROPERTIES
    StallFails
CHECK_DEADLOCK FALSE
