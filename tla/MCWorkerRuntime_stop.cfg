\* Two signals, two outages, two jobs: every race of a stop with the main thread.
\* The process ends, so states without successors are expected.
CONSTANTS
    Signal = {s1, s2}
    s1 = s1
    s2 = s2
    MaxOutages = 2
    MaxJobs = 2
SPECIFICATION FairSpec
CHECK_DEADLOCK FALSE
INVARIANTS
    ReturnsInTerminalState
    AtMostOneLateClaim
PROPERTIES
    StopEndsTheProcess
