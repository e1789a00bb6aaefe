SPECIFICATION FairSpec
CONSTANTS
    f1 = f1
    f2 = f2
    Rules <- MCRules
    Saved <- MCSaved
    Edited <- MCEdited
    Last = 2
    MaxEdits = 1
    MaxFails = 1
    MaxLosses = 1
INVARIANTS
    ListeningIsTrue
    NothingForgotten
    RulesAreAccounted
    RetiredIsClean
PROPERTIES
    ManagersSettle
CHECK_DEADLOCK FALSE
