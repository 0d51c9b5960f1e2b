\* Two jobs, and two purges of any policy that may overlap.
\* The clock is bounded, so states without successors are expected.
CONSTANTS
    j1 = j1
    j2 = j2
    Jobs = {j1, j2}
    p1 = p1
    p2 = p2
    Purges = {p1, p2}
    MaxClock = 5
    MaxSkew = 1
    MaxTransaction = 1
    Documents <- MCDocuments
    AUDIT_FLOOR_DAYS = 2
    PURGE_FLOOR = 1
SPECIFICATION Spec
SYMMETRY MCSymmetry
CHECK_DEADLOCK FALSE
INVARIANTS
    LogIsASuffix
    LeftByAFullBatch
