SPECIFICATION ArchiveSpec
CONSTANTS
    MaxHeight = 7
    CheckpointInterval = 3
INVARIANTS
    ArchiveTypeOK
    CleanIsDurable
    TipCheckpointIsArchived
