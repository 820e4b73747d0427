SPECIFICATION Spec
CONSTANTS
    None = None
    Payloads <- MCPayloads
    MaxRequests = 3
    MaxFields = 2
INVARIANTS
    ScheduledIffImported
    NamingIsKept
    LastRunCoversMapping
    ShownIsEnforced

    
CHECK_DEADLOCK FALSE
