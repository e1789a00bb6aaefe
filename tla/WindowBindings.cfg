\* One session, two windows, a drop and a restart, on zellij; all is bounded, so the system stops.
CONSTANTS
    t1 = t1
    t2 = t2
    Nil = Nil
    Tokens <- OneToken
    MaxWins = 2
    MaxDrops = 1
    MaxStarts = 1
    Focusing = TRUE
    Reports = TRUE
    Floating = TRUE
SPECIFICATION BindingsLiveSpec
INVARIANTS
    DetachedStays
PROPERTIES
    
    PrunedIsDead
    
CHECK_DEADLOCK FALSE
