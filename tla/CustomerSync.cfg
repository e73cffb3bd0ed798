\* Three calls: one whose lease runs out or whose process dies, one that stands
\* back or takes over, and one that meets what both have left.
SPECIFICATION FairSpec
CONSTANTS
    Call = {c1, c2, c3}
    Nobody = Nobody
    Modes = {TRUE, FALSE}
    LeaseTtl = 1
    MaxStalls = 1
    MaxForgotten = 1
    MaxFaults = 2
    MaxCrashes = 1
CHECK_DEADLOCK FALSE
INVARIANTS
    OneRemoteCustomer
    KnownIsAccounted
PROPERTY SyncReturns
