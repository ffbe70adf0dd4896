SPECIFICATION Spec
CONSTANTS
    tap = tap
    fs = fs
    c1 = c1
    none = none
    Producer = {tap, fs}
    Watcher = {fs}
    Client = {c1}
    NoEvent = none
    RingSize = 2
    SendCap = 1
    MaxEvents = 3
INVARIANTS
    TypeOK
    RingHoldsRecentHistory
    NoGap
    ReplayIntact
    BroadcastOrder
    FramesConserved
CHECK_DEADLOCK FALSE
