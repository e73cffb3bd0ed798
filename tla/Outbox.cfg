SPECIFICATION Spec
CONSTANTS
    Event <- MCEvent
    Tenant <- MCTenant
    TenantOf <- MCTenantOf
    t1 = t1
    t2 = t2
    Backlog = {e1, e2}
    Rest = {f1}
    Worker = {w1, w2}
    None = None
    Limit = 2
    FetchLimit = 3
    MaxAttempts = 2
    BackoffMs = 2
    MaxBackoffMs = 2
    ClaimTtl = 1
    Locking = {TRUE, FALSE}
    MaxStalls = 1
    MaxFaults = 1
    MaxCrashes = 1
CHECK_DEADLOCK FALSE
SYMMETRY Symmetry
INVARIANTS
    ClaimIsExclusive
    DeadLetterOnlyWhenExhausted
PROPERTIES
    SettledIsFinal
    ClaimServesTenantsEvenly
