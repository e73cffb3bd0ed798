SPECIFICATION Spec
CONSTANTS
    Execution <- MCExecution
    Hash <- MCHash
    RequestHash <- MCRequestHash
    h1 = h1
    h2 = h2
    Same = {e1, e2}
    Other = {f1}
    None = None
    Settings <- AllSettings
    LockTtl = 1
    FailedTtl = 1
    StoreFaults = TRUE
    MaxTime = 3
CHECK_DEADLOCK FALSE
SYMMETRY Symmetry
INVARIANTS
    AnswerWasPersisted
    AnswerHoldsUntilExpiry
    LeaseProtectsRunner
    AtMostOneEffect
