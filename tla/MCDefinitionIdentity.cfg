SPECIFICATION Spec
CONSTANTS
    a1 = a1
    a2 = a2
    a3 = a3
    a4 = a4
    b1 = b1
    b2 = b2
    r1 = r1
    r2 = r2
    Runs = {r1, r2}
    Migrations = {"a", "b"}
    Versions <- MCVersions
    Shape <- MCShape
    Unparsed = Unparsed
    Terms <- MCTerms
    Sound = {a1, a2, a3, b1, b2}
    Gone = Gone
    NoRow = NoRow
    NoRun = NoRun
    Nothing = Nothing
SYMMETRY Symmetry
CHECK_DEADLOCK FALSE
INVARIANTS
    OneWay
    IdentityIsExplained
    PlanIsCurrent
PROPERTIES
    RehashKeepsCheckouts
