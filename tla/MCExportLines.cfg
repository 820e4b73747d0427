SPECIFICATION Spec
CONSTANTS
    x1 = x1
    x2 = x2
    k1 = k1
    k2 = k2
    v1 = v1
    v2 = v2
    acc = acc
    None = None
    Expenses = {x1, x2}
    Cards = {k1, k2}
    Categories <- MCCategories
    Amounts = {4, 14}
    First <- MCFirst
    Table <- MCTable
    Items <- MCItems
    Vendors = {v1, v2}
    Accounts = {acc}
    CodeFields = {"COST_CODE"}
    Settings <- MCSettings
    Mappings <- MCMappings
    MaxDocs = 2
    MaxEdits = 1
INVARIANTS
    TypeOK
    HeaderIsSum
    
    
    CommitmentOfDocument

    
CHECK_DEADLOCK FALSE
