\* One job with two attempts, two workers, one fault anywhere.
CONSTANTS
    MaxJobs = 1
    w1 = w1
    w2 = w2
    Worker = {w1, w2}
    Nobody = Nobody
    Kind = {import}
    Serves <- MCServes
    Key = {}
    NoKey = NoKey
    Priority <- MCNoPriority
    MaxAttempts = 2
    StartDelays <- MCNow
    Lease = 2
    MaxLease = 3
    BackoffBase = 1
    BackoffCap = 1
    PurgeFloor = 0
    MaxLocked = 0
    Margin = 0
    MaxFaults = 1
SPECIFICATION FairSpec
INVARIANTS
    LocalDeadlineIsPessimistic
    OutcomeIsTrue
PROPERTIES
    UsesTheQueue
    EveryJobEnds
