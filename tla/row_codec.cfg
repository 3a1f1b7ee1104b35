SPECIFICATION Spec
CONSTANTS
    Units <- MCUnits
    Names <- MCNames
    Values <- MCValues
    Indexes = {0, 10}
    MaxColumns = 2
INVARIANTS
    TypeOK
    ReadBackIffCarried
PROPERTIES
    ParserAdvances
CHECK_DEADLOCK FALSE
