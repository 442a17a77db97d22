CONSTANTS
    first = first
    second = second
    one = one
    two = two
    Migrations = {first, second}
    Order <- MCOrder
    Files <- MCFiles

SPECIFICATION Spec

INVARIANT
    TestErrorsAreShown

\* A run ends.
CHECK_DEADLOCK FALSE
