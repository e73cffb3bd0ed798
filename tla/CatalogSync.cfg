SPECIFICATION Spec
CONSTANTS
    w1 = w1
    w2 = w2
    c1 = c1
    Worker = {w1, w2}
    Caller = {c1}
    Nobody = Nobody
    Providers <- MCProviders
    LeaseTtl = 1
    MaxRuns = 2
    MaxAsks = 2
    MaxChanges = 1
    MaxFaults = 1
SYMMETRY Symmetry
CHECK_DEADLOCK FALSE
INVARIANTS
    FirstCreateOnce
    SucceededIsBound
    EvidenceKept
