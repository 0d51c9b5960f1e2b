\* Two jobs that compete for one key and by priority, and two workers: claim order,
\* duplicate keys, batches of recovery and purge.
CONSTANTS
    MaxJobs = 2
    w1 = w1
    w2 = w2
    Worker = {w1, w2}
    Nobody = Nobody
    Kind = {import}
    Serves <- MCServes
    Key = {k1}
    NoKey = NoKey
    Priority <- MCPriorities
    MaxAttempts = 2
    StartDelays <- MCLater
    Lease = 1
    MaxLease = 3
    BackoffBase = 1
    BackoffCap = 1
    PurgeFloor = 1
    MaxLocked = 1
SPECIFICATION Spec
SYMMETRY MCSymmetry
INVARIANTS
    TableConstraints
    StaleRecordsAreFenced
    TrailTellsTheStory
    TriggerAccepts
    StrandedOnlyByForcedStop
PROPERTIES
    LeaseProtectsHolder
    KeepsPromise
