\* Two daemons in turn, one session, a forced stop; daemons are born once, so the system stops.
CONSTANTS
    d1 = d1
    d2 = d2
    l1 = l1
    l2 = l2
    p1 = p1
    p2 = p2
    s1 = s1
    None = None
    Pids <- TwoPids
    Daemons <- TwoDaemons
    Launchers <- OneLauncher
    Stops <- OneStop
    Forced <- OneStop
    MaxAliens = 1
SPECIFICATION FairSpec
INVARIANTS
    PoolIsRecorded
    StopIsQuiet
PROPERTIES
    ReservationIsKept
    ForeignEnds
CHECK_DEADLOCK FALSE
