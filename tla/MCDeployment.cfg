SPECIFICATION FairSpec
CONSTANTS
    r1 = r1
    r2 = r2
    r3 = r3
    a = a
    b = b
    NoRun = NoRun
    NoDef = NoDef
    Runs = {r1, r2}
    Commands = {"deploy", "revert", "resolve", "baseline", "verify"}
    CheckoutOf <- MainAndEdited
    Migrations = {a, b}
    Definitions <- MCDefinitions
    IdOf <- MCIdOf
    DependsOf <- MCDependsOf
    Forbidden = {"b1"}
    Checkouts <- MCCheckouts
    GraphOf <- MCGraphOf
    Rank <- MCRank
CHECK_DEADLOCK FALSE
INVARIANTS
    RegistryIsSound
    ReportAccountsForAll
    LockedPlansHold
PROPERTIES
    OnlyHolderWrites
    ImplementsLedger
    EveryRunEnds
