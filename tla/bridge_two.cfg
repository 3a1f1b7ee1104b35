SPECIFICATION FairSpec
CONSTANTS
    Isolates = {i1, i2}
    Ports = {p1, p2}
    ILLEGAL_PORT = ILLEGAL_PORT
    Requests = {r1, r2}
    Conns = {c1}
    NoCall = NoCall
    NoRequest = NoRequest
    MaxRows = 1
    IndexSpace = 4
    ConcurrentHandlers = FALSE
    NativePortMayFail = FALSE
INVARIANTS
    OnePortEach
PROPERTIES
    EveryHandlerReturns
    EveryCallSettles
    AnswerFinal
