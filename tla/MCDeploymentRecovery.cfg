SPECIFICATION Spec
CONSTANTS
    r1 = r1
    r2 = r2
    r3 = r3
    a = a
    b = b
    NoRun = NoRun
    NoDef = NoDef
    Runs = {r1, r2, r3}
    Commands = {"deploy", "resolve", "revert", "verify"}
    CheckoutOf <- AllMain
    Migrations = {a, b}
    Definitions <- MCDefinitions
    IdOf <- MCIdOf
    DependsOf <- MCDependsOf
    Forbidden = {"b1"}
    Checkouts <- MCCheckouts
    GraphOf <- MCGraphOf
    Rank <- MCRank
CHECK_DEADLOCK FALSE
SYMMETRY RunSymmetry
INVARIANTS
    HistoryExplainsRows
    EffectsAccountedFor
    VerifiedWhileApplied
