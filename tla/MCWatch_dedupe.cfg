SPECIFICATION Spec
CONSTANTS
    p1 = p1
    p2 = p2
    Path = {p1, p2}
    ChanCap = 2
    Window = 2
    PurgeAge = 3
    PurgeAbove = 1
    MaxTime = 5
    MaxEvents = 4
INVARIANTS
    TypeOK
    BurstIsAnnounced
PROPERTIES
    OncePerWindow
CHECK_DEADLOCK FALSE
