SPECIFICATION Spec
CONSTANTS
    c1 = c1
    c2 = c2
    b1 = b1
    b2 = b2
    v1 = v1
    l1 = l1
    l2 = l2
    Call = {c1, c2}
    Backfiller = {b1, b2}
    Verifier = {v1}
    Legacy <- MCLegacy
    Modes <- MCModes
    MaxRetries = 2
    PageSize = 2
    MaxEntries = 2
    MaxFaults = 1
    MaxEdits = 1
SYMMETRY Symmetry
CHECK_DEADLOCK FALSE
INVARIANTS
    ChainIsLinked
    VerdictWasTrue
    RecordedOnce
    ContentionIsReal
