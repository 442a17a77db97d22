SPECIFICATION Spec
CONSTANTS
    Counts = {0, 1, 2}
    MaxCalls = 4
    None = None
    Skipped = Skipped
CHECK_DEADLOCK FALSE
INVARIANTS
    PassedReportIsWhole
    RecordsAreRight
