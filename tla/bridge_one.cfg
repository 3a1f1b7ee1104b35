SPECIFICATION Spec
CONSTANTS
    Isolates = {i1}
    Ports = {p1, p2}
    ILLEGAL_PORT = ILLEGAL_PORT
    Requests = {r1, r2, r3}
    Conns = {c1}
    NoCall = NoCall
    NoRequest = NoRequest
    MaxRows = 2
    IndexSpace = 4
    ConcurrentHandlers = FALSE
    NativePortMayFail = TRUE
SYMMETRY Symmetry
INVARIANTS
    TypeOK
    OneHandler
    RowsIntact
    NoRowLost
PROPERTIES
    AnswerFinal
    ServiceSpec
