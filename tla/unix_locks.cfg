SPECIFICATION Spec
CONSTANTS
    c1 = c1
    c2 = c2
    c3 = c3
    c4 = c4
    i1 = i1
    i2 = i2
    i3 = i3
    p1 = p1
    p2 = p2
    Conns = {c1, c2, c3, c4}
    Isolates = {i1, i2, i3}
    Procs = {p1, p2}
    IsolateOf <- MCIsolateOf
    ProcOf <- MCProcOf
SYMMETRY Symmetry
INVARIANTS
    TypeOK
    Exclusion
    OneIsolateKeepsLocks
    ReservedReported
PROPERTIES
    LocksKept
