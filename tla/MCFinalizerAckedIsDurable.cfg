SPECIFICATION FinSpec
CONSTANTS
    b0 = b0
    b1 = b1
    b2 = b2
    b3 = b3
    b4 = b4
    Block <- TwoBlocks
    Genesis = b0
    Parent <- MCParent
    Path <- MCPath
    Finalized <- TwoBlocks
    Checkpoint = b0
    Worker = {w1}
    Persister = {fin}
    Fin = fin
    MaxRetained = 8
    CheckpointInterval = 2
    MaxPendingAcks = 3
    MaxAttempts = 3
    MaxFailures = 0
CHECK_DEADLOCK FALSE
INVARIANT
    AckedIsDurable
