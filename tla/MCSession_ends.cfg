SPECIFICATION Spec
CONSTANT
    PipeCap = 2
INVARIANT
    TypeOK
PROPERTIES
    ServerEnds
    OrphansEnd
    TapEndIsSeen
CHECK_DEADLOCK FALSE
