SPECIFICATION FairDeliverySpec
CONSTANTS
    Event = {e1}
    Tenant <- MCTenant
    TenantOf <- MCTenantOf
    Endpoints <- MCEndpoints
    t1 = t1
    p1 = p1
    p2 = p2
    Worker = {w1, w2}
    None = None
    Limit = 1
    FetchLimit = 1
    MaxAttempts = 3
    BackoffMs = 2
    MaxBackoffMs = 2
    ClaimTtl = 1
    Locking = {TRUE}
    MaxStalls = 1
    MaxFaults = 0
    MaxCrashes = 1
    MaxDeliveryAttempts = 2
    MaxStoreFaults = 1
CHECK_DEADLOCK FALSE
INVARIANTS
    PublishedReachedEndpoints
    DisabledWasEarned
PROPERTIES
    ImplementsOutbox
    EveryEventSettles
