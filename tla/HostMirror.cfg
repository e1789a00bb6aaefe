\* Two keys, each used by two sessions; five host changes or link losses.
CONSTANTS
    k1 = k1
    k2 = k2
    Keys <- TwoKeys
    MaxGen = 2
    MaxChurn = 5
    MaxFrames = 2
SPECIFICATION FairMirror
INVARIANTS
    QuietMirrorAgrees
PROPERTIES
    MirrorSettles
    ImplementsAccount
CHECK_DEADLOCK FALSE
