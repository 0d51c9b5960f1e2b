\* Three organizations in lists of two, one fault: who overtakes whom, who is missed,
\* who starves.
CONSTANTS
    Organizations = 3
    Worker = {w1}
    Batch = 2
    ExpiredBatch = 3
    MaxJobs = 1
    MaxFaults = 1
    MaxCount = 5
SPECIFICATION FairTurnSpec
INVARIANTS
    NoTurnTwice
    OvertakenTwiceAtMost
    NoneWasClaimable
PROPERTIES
    NoStarvation
    EveryLeaseRecovered
