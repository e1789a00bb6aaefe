\* Three windows on one reservation, one of them a steal; every client attaches once, so the system stops.
CONSTANTS
    c1 = c1
    c2 = c2
    c3 = c3
    None = None
    Clients <- ThreeClients
    Forced <- OneForced
    MaxShells = 3
    MaxFailures = 1
SPECIFICATION Spec
SYMMETRY PlainClients
INVARIANTS
    RedeemedOnce
    
CHECK_DEADLOCK FALSE
