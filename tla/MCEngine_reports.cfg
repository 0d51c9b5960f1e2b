\* Every export of five families of small files.
\* An analysis ends with its report, so states without successors are expected.
SPECIFICATION Spec
CONSTANTS
    None = None
    Broken = Broken
    Tolerance = 1
    Quantum = 2
    TopCustomers = 1
    Lookback = 4
    BaselineWindow = 3
    MinBaselinePeriods = 2
    One = 10
    Grains = {"week", "month"}
    Exports <- MCExports
    References <- MCReferences
INVARIANTS
    DatesAreNeverGuessed
    OrdersAreTheFiles
    SnapshotsComeBack
    NothingCountsTwice
    CostsAreWhole
    RefundPartIsBounded
    AlarmsAreTold
CHECK_DEADLOCK FALSE
