SPECIFICATION Spec
CONSTANTS
    Seg <- Names
    Extends <- NameExtends
    Roots <- Watched
    DataVolume <- Volume
    MaxSegs = 5
INVARIANTS
    SameInside
    NoticeListsDirectory
CHECK_DEADLOCK FALSE
