\* Imports and analyses that compete, three editions of two contents, two faults.
\* Jobs and files are finite, so states without successors are expected.
CONSTANTS
    i1 = i1
    i2 = i2
    i3 = i3
    a1 = a1
    a2 = a2
    ImportJob = {i1, i2, i3}
    AnalysisJob = {a1, a2}
    Budget <- MCBudget
    MaxVersion = 2
    MaxEdits = 2
    Invalid = {}
    Unreadable = {}
    Foreign = {}
    Insufficient = {2}
    Together <- MCTogether
    MaxFaults = 2
    Nothing = Nothing
SPECIFICATION Spec
CHECK_DEADLOCK FALSE
INVARIANTS
    LoadedBetweenItsHashes
    Anchored
    SuccessIsBacked
PROPERTIES
    Refines
