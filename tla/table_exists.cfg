SPECIFICATION Spec
CONSTANTS
    Names = {a, b, c}
    MaxTables = 3
INVARIANTS
    TypeOK
    TrueIsTrue
    AbortHidden
