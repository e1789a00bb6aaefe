CONSTANTS
    c = c
    a = a
    None = None
    Keys <- MCKeys
    Codex <- MCCodex
    Revived <- MCRevived
    MaxReps = 2
    MaxBatches = 2
    MaxTroubles = 1
SPECIFICATION FairSpec
INVARIANTS
    OneReplacement
    EndsInOrder
PROPERTIES
    RestartSettles
    RetryIsReleased
CHECK_DEADLOCK FALSE
