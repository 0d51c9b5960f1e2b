\* Reports, limits and answers, each alone and together; one retry.
\* An explanation ends, so states without successors are expected.
SPECIFICATION Spec
CONSTANTS
    None = None
    Running = Running
    MaxRetries = 1
    Reports <- MCReports
    AllLimits <- MCLimits
    Answers <- MCAnswers
INVARIANTS
    ReferencesAreTrue
    TruncationIsTold
    LateAnswersAreIgnored
    ExplanationIsGrounded
PROPERTIES
    ExplanationEnds
CHECK_DEADLOCK FALSE
