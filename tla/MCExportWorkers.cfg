SPECIFICATION Spec
CONSTANTS
    None = None
    Exports <- MCExports
    MaxMessages = 3
    MaxWaiting = 1
INVARIANTS
    NothingIsLost
    FailuresAreBounded
    SummaryAgrees
PROPERTIES
    CountsAreNotOverwritten
CHECK_DEADLOCK FALSE
