\* An authorization revoked during a claim.
CONSTANTS
    Organizations = 2
    Worker = {w1}
    Batch = 2
    ExpiredBatch = 2
    MaxJobs = 1
    MaxFaults = 0
SPECIFICATION Spec
INVARIANT
    RevocationOnlySkips
