SPECIFICATION SchemaSpec
CONSTANTS
    m1 = m1
    m2 = m2
    r1 = r1
    r2 = r2
    Migrator = {m1, m2}
    NoOne = nobody
    Dialects = {"postgresql", "mysql", "sqlite"}
    Row = {r1, r2}
    Dirt <- DirtDef
    MaxTries <- TriesDef
INVARIANTS
    RecordedStepsHold
    LockedCallsNeverStumble
    UpgradeLosesNothing
SYMMETRY Symmetry
CHECK_DEADLOCK FALSE
