SPECIFICATION FairSpec
CONSTANTS
    e1 = e1
    e2 = e2
    Executions = {e1, e2}
    StepsOf    <- MCStepsOf
    RollbackOf <- MCRollbackOf
    Workers    = {w1, w2}
    BatchMax   = 2
    EngineStream = "stream:runbook-executions"
    FaultKinds = {"append", "throw", "ack", "crash"}
    MaxFaults  = 1
INVARIANTS
    TypeOK
    HonestStatus
    CommandsInOrder
    RowLeadsStream
    IInv
PROPERTIES
    OutcomeStays
    ImplementsContract
    EveryExecutionSettles
    RecordedStallFails
CHECK_DEADLOCK FALSE
