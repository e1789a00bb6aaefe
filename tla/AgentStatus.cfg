SPECIFICATION FairSpec
CONSTANTS
    MaxSteps = 4
    MaxLost = 1
    MaxFails = 1
INVARIANTS
    WorkIsShown
    RestIsShown
    
PROPERTIES
    RowCatchesUp
CHECK_DEADLOCK FALSE
