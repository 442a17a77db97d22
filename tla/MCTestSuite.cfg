SPECIFICATION Spec
CONSTANTS
    s1 = s1
    s2 = s2
    v1 = v1
    v2 = v2
    Suites = {s1, s2}
    FileCount = 2
    Wanted <- MCWanted
    LibraryOf <- MCLibraryOf
    Schemas = {0, 1, 2}
    MaxDrawn = 1
    Absent = Absent
    Foreign = Foreign
    Nobody = Nobody
CHECK_DEADLOCK FALSE
INVARIANTS
    SuccessIsOfWhatWasChecked
    FilesSeeTheirOwn
PROPERTIES
    AdvancesAreReported
