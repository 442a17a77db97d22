CONSTANTS
    first = first
    second = second
    one = one
    two = two
    Migrations = {first, second}
    Order <- MCOrder
    Files <- MCFiles

SPECIFICATION Spec

INVARIANTS
    ExitTellsTheOutcome
    RetryIsSafe
    EntriesAreTrue
    ErrorsAreShownOnce

\* A run ends.
CHECK_DEADLOCK FALSE
