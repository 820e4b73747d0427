SPECIFICATION Spec
CONSTANTS
    Expenses = {x1, x2}
    Importers = {i1, i2}
    None = None
    MaxRows = 4
    MaxEvents = 1
    MaxAborts = 0
    MaxFilters = 1
    GroupByReport = TRUE
    InOrder = FALSE
SYMMETRY SymImporters
PROPERTIES
    PostedIsKept
    ImplementsGroupOnce
INVARIANTS
    InOneExport
CHECK_DEADLOCK FALSE
