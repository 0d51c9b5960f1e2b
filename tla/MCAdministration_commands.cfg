\* Two commands at once, a third that ends what they made, and a worker beside them.
\* Scripts are finite, so states without successors are expected.
CONSTANTS
    p1 = p1
    p2 = p2
    p3 = p3
    Processes = {p1, p2, p3}
    Services = {"svc"}
    Names <- MCNames
    Scripts <- MCScripts
    Founding <- MCFounding
    MaxFaults = 1
    PAGE_LIMIT = 1
SPECIFICATION Spec
CHECK_DEADLOCK FALSE
INVARIANTS
    NamesAreUnique
    TrailIsExact
    AnswersAreTrue
