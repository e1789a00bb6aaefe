\* Two callers, one event, a backoff that doubles twice; a retired task stops.
CONSTANTS
    c1 = c1
    c2 = c2
    Probe = Probe
    Calls <- TwoCalls
    MaxEvents = 1
    BackoffCap = 2
SPECIFICATION FairSpec
INVARIANTS
    MemoryIsTrue
PROPERTIES
    ImplementsCallOnce
    LeavesQueue
CHECK_DEADLOCK FALSE
