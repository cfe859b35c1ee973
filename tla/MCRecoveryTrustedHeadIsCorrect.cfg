SPECIFICATION RecSpec
CONSTANTS
    b0 = b0
    b1 = b1
    b2 = b2
    b3 = b3
    b4 = b4
    Block <- MCBlock
    Genesis = b0
    Parent <- MCParent
    Path <- MCPath
    Finalized <- MCBlock
    Checkpoint = b0
    Worker = {}
    Persister = {fin}
    Fin = fin
    NoMarker = nomarker
    PrepopulateCount = 1
    MaxRetained = 8
    CheckpointInterval = 2
    MaxPendingAcks = 4
    MaxAttempts = 3
    MaxFailures = 0
    MaxCrashes = 1
CHECK_DEADLOCK FALSE
INVARIANT
    TrustedHeadIsCorrect
