SPECIFICATION AppSpec
CONSTANTS
    b0 = b0
    b1 = b1
    b2 = b2
    b3 = b3
    x = x
    y = y
    Block <- CatchUpBlocks
    Genesis = b0
    Parent <- MCParent
    Path <- MCPath
    Finalized <- MCFinalized
    Checkpoint = b1
    Worker = {w1, w2}
    Persister = {p1}
    MaxRetained = 1
    CatchUpThreshold = 2
    Invalid = {}
    Time <- MCTime
    Latest = 3
SYMMETRY Tasks
CHECK_DEADLOCK FALSE
INVARIANT
    RevisitAdvancesWindow
