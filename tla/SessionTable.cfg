\* One key used by two sessions, kills and windows, the default close policy.
CONSTANTS
    k1 = k1
    k2 = k2
    None = None
    Keys <- OneKey
    MaxGen = 2
    MaxChurn = 3
    MaxFrames = 1
    OnWindowClose = "close"
    OpensWindows = TRUE
SPECIFICATION FairTable
INVARIANTS
    KillIsConfirmed
    TableIsHost
PROPERTIES
    KillSettles
    SurvivorIsListed
