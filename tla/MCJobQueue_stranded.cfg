\* A forced stop on the last attempt (expected to be violated).
CONSTANTS
    MaxJobs = 1
    w1 = w1
    w2 = w2
    Worker = {w1, w2}
    Nobody = Nobody
    Kind = {import}
    Serves <- MCServes
    Key = {k1}
    NoKey = NoKey
    Priority <- MCNoPriority
    MaxAttempts = 3
    StartDelays <- MCLater
    Lease = 2
    MaxLease = 3
    BackoffBase = 1
    BackoffCap = 2
    PurgeFloor = 1
    MaxLocked = 0
SPECIFICATION Spec
INVARIANTS
    RequeuedWithAttemptsLeft
