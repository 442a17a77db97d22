SPECIFICATION CheckoutSpec
CONSTANTS
    Procs = {p1, p2}
    Dirs <- MCDirs
    NameId <- MCNameId
    Texts <- MCTexts
    Pretty <- MCPretty
    Structure <- MCStructure
    Broken = {"broken"}
    Template = "neat"
    MaxRuns = 2
    MaxEdits = 1
    NoFile = NoFile
    Cut = Cut
SYMMETRY ProcSymmetry
INVARIANTS
    CommandsLeaveAProject
PROPERTIES
    FormatKeepsStructure
    InitLeavesAProjectAlone
    
CHECK_DEADLOCK FALSE
