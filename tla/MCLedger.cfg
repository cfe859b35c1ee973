SPECIFICATION Spec
CONSTANTS
    b0 = b0
    b1 = b1
    b2 = b2
    b3 = b3
    x = x
    Block <- MCBlock
    Genesis = b0
    Parent <- MCParent
    Path <- MCPath
    Finalized <- MCFinalized
    Checkpoint = b0
    Worker = {w1, w2}
    Persister = {p1, p2}
    MaxRetained = 1
SYMMETRY Tasks
CHECK_DEADLOCK FALSE
INVARIANTS
    TypeOK
    SnapshotsComplete
    NoDoubleCommit
    QmdbIsFinalizedPrefix
    WalkNeverMissesSnapshot
    PersistedIsCommitted
    ChainStaysCached
