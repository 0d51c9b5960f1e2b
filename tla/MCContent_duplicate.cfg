\* One analysis, whose first attempt goes on after it lost its lease.
CONSTANTS
    i1 = i1
    i2 = i2
    i3 = i3
    a1 = a1
    a2 = a2
    ImportJob = {i2}
    AnalysisJob = {a1}
    Budget <- MCBudget
    MaxVersion = 1
    MaxEdits = 0
    Invalid = {}
    Unreadable = {}
    Foreign = {}
    Insufficient = {}
    Together <- MCOneEach
    MaxFaults = 1
    Nothing = Nothing
SPECIFICATION Spec
CHECK_DEADLOCK FALSE
INVARIANT
    DuplicateIsReused
