SPECIFICATION FairSpec
CONSTANTS
    Exports = {e1, e2}
    Attrs = {a1, a2}
    Tasks = {t1}
    None = None
    MaxMoves = 1
    MapWhileBusy = FALSE
INVARIANTS
    
    FailedIsListed

    
CHECK_DEADLOCK FALSE
