\* The daemon and an older dashboard that cannot parse newer rows; one session
\* key, reused by later launchers.
CONSTANTS
    daemon = daemon
    dash = dash
    k1 = k1
    k2 = k2
    None = None
    Procs <- Both
    Dashboards = {dash}
    Keys <- OneKey
    SkewedReaders = {dash}
    LegacyPinned <- OneKey
    LegacyFollowUp <- OneKey
    Requests <- PinOnly
    MaxTurn = 1
    MaxFailures = 1
SPECIFICATION FairSpec

    
PROPERTIES
    NoReplayedCompletion
    PinSurvives
    CompletionRings
