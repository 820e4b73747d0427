\* One handler, whatever the exports do meanwhile.
SPECIFICATION Spec
CONSTANTS
    x1 = x1
    x2 = x2
    r1 = r1
    r2 = r2
    r3 = r3
    h1 = h1
    Expenses = {x1, x2}
    Rows = {r1, r2, r3}
    Handlers = {h1}
    MaxChanges = 2
    Repeats = 2
    Groupings <- AnyWay
SYMMETRY MCSymmetry
CHECK_DEADLOCK FALSE
INVARIANTS
    FundsAgree
    GroupedAsSet
PROPERTIES
    PostedIsKept
    ImplementsGroupOnce
