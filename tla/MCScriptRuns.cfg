SPECIFICATION Spec
CONSTANTS
    Absent = Absent
    MaxMessages = 2
    Scripts <- MCScripts
    Terms <- MCTerms
    RefusedInBlock <- MCRefusedInBlock
INVARIANTS
    RowsAndRowAgree
    LockOutlivesTheScripts
    NoFalseGreen
    MessagesBelong
    LossIsOnRecord
    ModesFit
