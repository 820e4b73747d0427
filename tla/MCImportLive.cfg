SPECIFICATION FairSpec
CONSTANTS
    Expenses = {x1, x2}
    Importers = {i1}
    None = None
    MaxRows = 4
    MaxEvents = 1
    MaxAborts = 1
    MaxFilters = 0
    GroupByReport = FALSE
    InOrder = TRUE
PROPERTIES
    ApprovedIsGrouped
CHECK_DEADLOCK FALSE
