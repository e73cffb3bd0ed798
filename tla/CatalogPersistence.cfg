SPECIFICATION Spec
CONSTANTS
    Call = {c1, c2, c3}
    State = {s1, s2}
    Absent = Absent
    Key = {k1}
    NoKey = NoKey
    Native = {TRUE, FALSE}
    MaxMade = 2
    MaxFaults = 2
SYMMETRY Symmetry
CHECK_DEADLOCK FALSE
INVARIANTS
    TransitionsTellTheRow
    ReturnedWasPersisted
