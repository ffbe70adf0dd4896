SPECIFICATION FairSpec
CONSTANTS
    root = root
    docs = docs
    note = note
    todo = todo
    Root = root
    Order <- MCOrder
    Parent <- MCParent
    DirPath = {docs}
    FirstDisks = {{docs}}
    MaxChanges = 2
    MaxSweeps = 1
    Lossy = FALSE
    Reorder = FALSE
    Reuse = FALSE
INVARIANTS
    TypeOK
    StalenessIsCovered
    RowsAreRegistered
PROPERTIES
    RowsSurviveRefresh
    SettlesUnlessSkipped
CHECK_DEADLOCK FALSE
