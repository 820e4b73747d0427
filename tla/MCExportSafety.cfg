SPECIFICATION Spec
CONSTANTS
    Exports = {e1}
    Docs = {d1, d2}
    Chains = {c1}
    Pollers = {p1}
    None = None
    MaxSettingChanges = 1
    SlowChains = TRUE
    TornPosts = TRUE
SYMMETRY ActorSymmetry
INVARIANTS
    QueuedHasDocument
    CompleteWasAccepted
