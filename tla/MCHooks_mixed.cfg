SPECIFICATION Spec
CONSTANTS
    a = a
    b = b
    lint = lint
    fmt = fmt
    opus = opus
    NotAList = NotAList
    NoKeys = NoKeys
    Urls <- MCUrls
    Own <- MCOwn
    Events <- MCEvents
    Matched <- MCMatched
    UserFiles <- MCUserFiles
INVARIANTS
    OwnHooksKept
