SPECIFICATION PaymentSpec
CONSTANTS
    Call = {c1, c2}
    Amount = 2
    Modes <- MCModes
    MaxReports = 1
    MaxAttempts = 2
    MaxFaults = 1
CHECK_DEADLOCK FALSE
SYMMETRY Symmetry
INVARIANTS
    RowFollowsProvider
    UncertainIsAskedOnce
PROPERTIES
    MovesAlongTable
