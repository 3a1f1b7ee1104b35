SPECIFICATION Spec
CONSTANTS
    DefaultSize = 8
    IndexSpace = 100000000
    MaxIndex = 11
    NameLengths = {0, 1}
    ValueLengths = {0, 1, 9, 10}
    MaxColumns = 2
    MessageLengths = {0, 3, 12}
INVARIANTS
    TypeOK
    ShortByThree
    FirstRowFits
CHECK_DEADLOCK FALSE
