SPECIFICATION Spec
CONSTANTS
    Dbs = {d1, d2}
    Stmts = {s1, s2}
    NoDb = NoDb
    NullStmt = NullStmt
    NullColumns = TRUE
CHECK_DEADLOCK FALSE
SYMMETRY Symmetry
INVARIANTS
    TypeOK
    NoOrphanStatement
    NoFreedHandleUsed
    NothingUnreachable
    TransactionsAsBelieved
