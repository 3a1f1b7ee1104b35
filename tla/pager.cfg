SPECIFICATION Spec
CONSTANTS
    Conns = {c1, c2}
    NoConn = NoConn
    LastPage = 3
    CacheSize = 2
    MaxTx = 2
SYMMETRY Symmetry
INVARIANTS
    TypeOK
    WriteAhead
    CacheTrusted
PROPERTIES
    StoreSpec
