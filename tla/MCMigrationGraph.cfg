SPECIFICATION MCFairSpec
CONSTANTS
    Ids = {1, 2, 3, 4}
CHECK_DEADLOCK FALSE
INVARIANTS
    OrderIsRight
    VerdictIsRight
    ClosureIsLeast
PROPERTY
    Terminates
