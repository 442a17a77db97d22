SPECIFICATION FairSpec
CONSTANTS
    r1 = r1
    r2 = r2
    r3 = r3
    NoRun = NoRun
    NoRegistry = NoRegistry
    Ownership = Ownership
    Runs = {r1, r2, r3}
    Projects = {"p", "q"}
    Schemas = {"s", "t"}
    Formats = {2, 3}
    ProjectOf <- MCProjectOf
    SchemaOf <- SchemasApart
    Understands <- MCUnderstands
CHECK_DEADLOCK FALSE
INVARIANTS
    SoleRegistry
    WorkersOwnTheDatabase
PROPERTIES
    ImplementsClaim
    EveryRunEnds
