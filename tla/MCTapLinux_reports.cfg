SPECIFICATION Spec
CONSTANTS
    tap = tap
    ui = ui
    p1 = p1
    editor = editor
    indexer = indexer
    notes = notes
    dump = dump
    nofile = nofile
    Own = {tap, ui}
    Tap = tap
    Proc = {p1}
    Name = {editor, indexer}
    Excluded = {indexer}
    File = {notes, dump}
    DumpFile = dump
    NoFile = nofile
    QueueCap = 2
    BatchCap = 2
    CacheCap = 0
    PipeCap = 1
    MaxEvents = 2
    MaxDiscarded = 3
INVARIANTS
    TypeOK
    DescriptorsOwned
    Accounted
    RightlyFiltered
    ReportsAreRight
PROPERTIES
    AccessIsSettled
CHECK_DEADLOCK FALSE
