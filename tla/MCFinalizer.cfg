SPECIFICATION FinSpec
CONSTANTS
    b0 = b0
    b1 = b1
    b2 = b2
    b3 = b3
    b4 = b4
    Block <- FourBlocks
    Genesis = b0
    Parent <- MCParent
    Path <- MCPath
    Finalized <- FourBlocks
    Checkpoint = b0
    Worker = {w1}
    Persister = {fin}
    Fin = fin
    MaxRetained = 2
    CheckpointInterval = 2
    MaxPendingAcks = 2
    MaxAttempts = 2
    MaxFailures = 2
CHECK_DEADLOCK FALSE
INVARIANTS
    FinTypeOK
    AcksInChainOrder
    AckedInOrderIsDurable
    RetriesAbsorbFailures
    ReexecutionSeesParentState
    AcksConserved
    NoDoubleCommit
PROPERTY
    EveryReportAcknowledged
