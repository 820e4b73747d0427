SPECIFICATION Spec
CONSTANTS
    Exports = {e1, e2}
    Docs = {d1, d2}
    Chains = {c1}
    Pollers = {p1}
    None = None
    MaxSettingChanges = 0
    SlowChains = FALSE
    TornPosts = FALSE
SYMMETRY DocSymmetry
INVARIANTS
    RetryHasNoLiveDocument
PROPERTIES
    ImplementsExportOnce
