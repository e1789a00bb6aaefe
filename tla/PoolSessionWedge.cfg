\* A second window that gets in before the creator has the lock.
CONSTANTS
    c1 = c1
    c2 = c2
    c3 = c3
    None = None
    Clients <- TwoClients
    Forced <- NoneForced
    MaxShells = 2
    MaxFailures = 0
SPECIFICATION FairSpec
PROPERTIES
    TableIsUnlocked
CHECK_DEADLOCK FALSE
