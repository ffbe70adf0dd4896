SPECIFICATION FairSpec
CONSTANTS
    tap = tap
    fs = fs
    c1 = c1
    none = none
    Producer = {tap, fs}
    Watcher = {fs}
    Client = {c1}
    NoEvent = none
    RingSize = 1
    SendCap = 1
    MaxEvents = 2
PROPERTIES
    FeedSpec
    BroadcastEnds
    ReplayGoroutineEnds
    OfferedIsSettled
CHECK_DEADLOCK FALSE
