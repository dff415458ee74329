SPECIFICATION FairSpec
CONSTANTS
    Notes      = {n1, n2}
    Pods       = {p1, p2}
    BatchMax   = 2
    FaultKinds = {"rejected", "crash"}
    MaxFaults  = 1
INVARIANTS
    TypeOK
    HonestOutcome
    SentOnce
    SentIsListed
    FinalRecord
    IInv
PROPERTIES
    EveryNoteSettles
CHECK_DEADLOCK FALSE
