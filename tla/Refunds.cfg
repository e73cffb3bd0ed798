\* Two provider refunds and one local refund of one payment.
SPECIFICATION Spec
CONSTANTS
    Call = {r1, r2}
    LocalCall = {l1}
    Amount = 3
    Omitted = Omitted
    Requests <- MCRequests
    MaxReservationAttempts = 2
    MaxReleaseAttempts = 2
    Modes <- AllModes
    MaxCrashes = 1
SYMMETRY Symmetry
INVARIANTS
    LedgerIsSum
    RefundsWithinPayment
CHECK_DEADLOCK FALSE
