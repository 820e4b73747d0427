SPECIFICATION Spec
CONSTANTS
    r1 = r1
    r2 = r2
    w1 = w1
    w2 = w2
    personal = personal
    ccc = ccc
    e1 = e1
    e2 = e2
    s1 = s1
    s2 = s2
    None = None
    MaxActive = 2
    Requests = {r1, r2}
    Workers = {w1, w2}
    Expenses = {e1}
    Funds = {personal}
    FundOf <- MCOneFund
    Schedules = {s1, s2}
INVARIANTS
    OnboardedIsConfigured
    MarkedIsStored
    EnabledIsScheduled
CHECK_DEADLOCK FALSE
SYMMETRY MCSymmetry
