SPECIFICATION FairSpec
CONSTANTS
    Keep = 2
    AutoPause = TRUE
    MaxEvents = 3
    MaxTools = 1
    MaxConnects = 2
    Lossy = FALSE
INVARIANTS
    TypeOK
    TimerMatchesLabel
    PillIsTruthful
    StopIsShown
PROPERTIES
    WorkingEnds
