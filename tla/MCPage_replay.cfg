SPECIFICATION Spec
CONSTANTS
    Keep = 2
    AutoPause = TRUE
    MaxEvents = 2
    MaxTools = 1
    MaxConnects = 1
    Lossy = FALSE
INVARIANTS
    ReplayIsShown
