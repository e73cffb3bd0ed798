SPECIFICATION FairInboxSpec
CONSTANTS
    Request = {r1, r2}
    Worker = {w1, w2}
    Operator = {p1}
    None = None
    Pipelines <- AllPipelines
    Normalized = TRUE
    ClaimTtl = 1
    JobAttempts = 2
    MaxRedeliveries = 1
    MaxFaults = 2
    MaxLostAcks = 1
    MaxLostClaims = 1
    MaxMarkFaults = 1
    MaxDeaths = 1
    MaxJobStalls = 1
    MaxStalls = 2
    MaxHappenings = 3
CHECK_DEADLOCK FALSE
INVARIANTS
    EffectsAccounted
    ClaimIsExclusive
PROPERTY AcceptedIsSettled
