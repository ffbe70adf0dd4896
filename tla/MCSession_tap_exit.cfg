SPECIFICATION Spec
CONSTANT
    PipeCap = 2
PROPERTY
    TapExitEnds
CHECK_DEADLOCK FALSE
