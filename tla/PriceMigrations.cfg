\* Two prices and two quantities: a swap and an update of the quantity can
\* undo one another.  Two attempts meet at the one claim in every order, and a
\* migration that failed is retried by the second.
SPECIFICATION Spec
CONSTANTS
    Attempt = {a1, a2}
    NoAttempt = nobody
    Operation = {"swap", "quantity_update", "cancel_now", "pause"}
    Price = {p1, p2}
    Quantity = {1, 2}
    none = none
    nobody = nobody
    p1 = p1
    p2 = p2
    NoItem = none
    FirstItem <- FirstItemDef
    Canonical = {TRUE, FALSE}
    MaxEvents = 1
    MaxFaults = 1
    Migration = {m1}
    Timing = {"immediate", "nextRenewal", "scheduled"}
SYMMETRY Symmetry
INVARIANTS
    ClaimAndMigrationAgree
    MigratedOnce
    ItemFollowsProvider
PROPERTIES
    ItemMovesWithVerdict
    ImplementsFence
CHECK_DEADLOCK FALSE
