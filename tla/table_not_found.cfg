SPECIFICATION Spec
CONSTANTS
    Names = {a, b, c}
    MaxTables = 3
INVARIANT
    ExistingTableFound
