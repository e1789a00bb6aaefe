SPECIFICATION Spec
CONSTANTS
    t1 = t1
    t2 = t2
    k1 = k1
    main = main
    picker = picker
    None = None
    Threads <- TwoThreads
    Main = main
    Extras <- OnePicker
    Killers <- OneKiller
    Forcing <- OneKiller
    MaxOps = 2
    MaxPid = 2
    MaxEvents = 3
    Ordered <- FirstOrdered
SYMMETRY Symmetry
INVARIANTS
    NothingIsLate
    ThreadIsAtRest
    
CHECK_DEADLOCK FALSE
