------------------------------ MODULE Handles ------------------------------
(***************************************************************************)
(* What the wrappers do to connections, statements and transactions, and   *)
(* what they answer, for a program that awaits each call.                  *)
(*                                                                         *)
(* The program holds the addresses of sqlite3 and sqlite3_stmt objects as  *)
(* integers and passes them back.  Each action is one call: the Dart       *)
(* function, its wrapper in sqlite3dart_api_wrappers.c and the SQLite      *)
(* function it calls (sqlite3.c 3.30.1).  That no two wrappers overlap is  *)
(* OneHandler of Bridge.                                                   *)
(*                                                                         *)
(* Data is abstracted: a statement is a query or an insert, it has one     *)
(* parameter, of which only the memory its content lives in is kept.       *)
(* Contention between connections (Pager) appears as SQLITE_BUSY chosen at *)
(* will.  SQL run by sqlite3_exec holds no transaction statement.          *)
(*                                                                         *)
(* The program may pass any address and begin or end transactions in any   *)
(* order, and SQLite may report any fault; broken remembers it.            *)
(***************************************************************************)
EXTENDS FiniteSets

CONSTANTS
    Dbs,        \* addresses of sqlite3 objects
    Stmts,      \* addresses of sqlite3_stmt objects
    NoDb,       \* the address 0, which sqlite3_open leaves without memory
    NullStmt,   \* the address 0, which prepare_v2 returns for empty SQL
    NullColumns \* can a column be SQL NULL?

ASSUME HandlesAssumption ==
    /\ NoDb \notin Dbs
    /\ NullStmt \notin Stmts
    /\ NullColumns \in BOOLEAN

VARIABLES
    conn,        \* the memory at each connection address
    autoCommit,  \* sqlite3.autoCommit of each connection
    stmt,        \* how far each statement has run; "free" if there is none
    owner,       \* the connection a statement was prepared on
    kind,        \* is the statement a query or an insert?
    failed,      \* did its last step fail?  (Vdbe.rc)
    param,       \* where the content of its parameter lives
    heldDbs,     \* handles the program believes in
    heldStmts,
    inTx,        \* does the program believe a transaction is open?
    broken,      \* what the program or SQLite did that should not happen
    crash,       \* what ended the process
    last         \* the last call and its answer

handles == <<heldDbs, heldStmts>>
memory == <<stmt, owner, kind, failed, param>>
vars == <<conn, autoCommit, memory, handles, inTx, broken, crash, last>>

\* "sick": sqlite3_open failed and left an object nobody knows the address of.
ConnStates == {"free", "open", "sick"}
\* "active": stopped by SQLITE_BUSY before its first row, still running.
StmtStates == {"free", "ready", "active", "row", "halted"}
Kinds == {"query", "insert"}
\* "own": in the statement, or nothing; "message": in the message, freed when the
\* handler returns; "wild": an address read from the wrong union member.
Contents == {"own", "message", "wild"}
Answers == {"none", "null", "handle", "number", "code", "text", "exception"}
\* "handle": a handle was passed that the program does not hold; "order": a
\* transaction begun in one, or ended outside one; "fault": SQLite was busy,
\* out of space, or the like.
Breaches == {"handle", "order", "fault"}
Causes == {"none", "null message", "null column", "dead content",
           "freed handle"}

\* The operations on a connection and on a statement.
DbOps == {"close", "exec", "table_exists", "prepare_v2", "begin", "commit",
          "rollback", "last_insert_rowid"}
StmtOps == {"bind", "step", "reset", "finalize", "column_text"}

Live(s) == stmt[s] # "free"
Open(d) == conn[d] = "open"

Init == /\ conn = [d \in Dbs |-> "free"]
        /\ autoCommit = [d \in Dbs |-> TRUE]
        /\ stmt = [s \in Stmts |-> "free"]
        /\ owner = [s \in Stmts |-> NoDb]
        /\ kind = [s \in Stmts |-> "query"]
        /\ failed = [s \in Stmts |-> FALSE]
        /\ param = [s \in Stmts |-> "own"]
        /\ heldDbs = {}
        /\ heldStmts = {}
        /\ inTx = [d \in Dbs |-> FALSE]
        /\ broken = {}
        /\ crash = "none"
        /\ last = [op |-> "none", answer |-> "none"]

Answer(op, answer) ==
    /\ last' = [op |-> op, answer |-> answer]
    /\ UNCHANGED crash

Crash(op, cause) ==
    /\ crash' = cause
    /\ last' = [op |-> op, answer |-> "none"]

Alive == crash = "none"

Breaks(breach) == broken' = broken \cup {breach}

\* getDb, isInvalidHandle and the statement wrappers let every address
\* through.  What SQLite does in freed memory is undefined, and followed no
\* further.
UseFreed ==
    /\ Crash("any", "freed handle")
    /\ UNCHANGED <<conn, autoCommit, memory, handles, inTx>>

-----------------------------------------------------------------------------
(* Connections.                                                            *)

\* Mutant: the handle is returned without looking at the error.
OpenDbIgnoresError(d) ==
    /\ Alive
    /\ conn[d] = "free"
    /\ conn' \in {[conn EXCEPT ![d] = "open"], [conn EXCEPT ![d] = "sick"]}
    /\ heldDbs' = heldDbs \cup {d}
    /\ Answer("open", "handle")
    /\ autoCommit' = [autoCommit EXCEPT ![d] = TRUE]
    /\ inTx' = [inTx EXCEPT ![d] = FALSE]
    /\ UNCHANGED <<memory, heldStmts, broken>>

\* Mutant: the same, of an open that had no memory for the object and set the
\* address to 0.
OpenDbReturnsNull(d) ==
    /\ Alive
    /\ conn[d] = "free"
    /\ \/ /\ conn' = [conn EXCEPT ![d] = "open"]
          /\ heldDbs' = heldDbs \cup {d}
          /\ UNCHANGED broken
       \/ /\ Breaks("fault")
          /\ heldDbs' = heldDbs \cup {NoDb}
          /\ UNCHANGED conn
    /\ Answer("open", "handle")
    /\ autoCommit' = [autoCommit EXCEPT ![d] = TRUE]
    /\ inTx' = [inTx EXCEPT ![d] = FALSE]
    /\ UNCHANGED <<memory, heldStmts>>

\* sqlite3_open_wrapper: a failed open answers with an exception and forgets
\* the object sqlite3_open may have allocated.
OpenDb(d) ==
    /\ Alive
    /\ conn[d] = "free"
    /\ \/ /\ conn' = [conn EXCEPT ![d] = "open"]
          /\ heldDbs' = heldDbs \cup {d}
          /\ Answer("open", "handle")
          /\ UNCHANGED broken
       \/ /\ Breaks("fault")
          /\ conn' \in {conn, [conn EXCEPT ![d] = "sick"]}
          /\ UNCHANGED heldDbs
          /\ Answer("open", "exception")
    /\ autoCommit' = [autoCommit EXCEPT ![d] = TRUE]
    /\ inTx' = [inTx EXCEPT ![d] = FALSE]
    /\ UNCHANGED <<memory, heldStmts>>

\* connectionIsBusy: statements of the connection are not finalized.
HasStatements(d) == \E s \in Stmts : Live(s) /\ owner[s] = d

\* Mutant: the wrapper does not look at the error of sqlite3_close.
CloseDbIgnoresBusy(d) ==
    /\ Alive
    /\ Open(d)
    /\ conn' = IF HasStatements(d) THEN conn ELSE [conn EXCEPT ![d] = "free"]
    /\ heldDbs' = heldDbs \ {d}
    /\ inTx' = [inTx EXCEPT ![d] = FALSE]
    /\ Answer("close", "null")
    /\ UNCHANGED <<autoCommit, memory, heldStmts, broken>>

\* Mutant: the connection is freed under its statements.
CloseDbUnderStatements(d) ==
    /\ Alive
    /\ Open(d)
    /\ conn' = [conn EXCEPT ![d] = "free"]
    /\ autoCommit' = [autoCommit EXCEPT ![d] = TRUE]
    /\ heldDbs' = heldDbs \ {d}
    /\ inTx' = [inTx EXCEPT ![d] = FALSE]
    /\ Answer("close", "null")
    /\ UNCHANGED <<memory, heldStmts, broken>>

\* sqlite3_close_wrapper: busy with live statements, else the transaction is
\* rolled back and the object freed.
CloseDb(d) ==
    /\ Alive
    /\ Open(d)
    /\ \/ /\ HasStatements(d)
          /\ Answer("close", "exception")
          /\ UNCHANGED <<conn, autoCommit, heldDbs, inTx>>
       \/ /\ ~HasStatements(d)
          /\ conn' = [conn EXCEPT ![d] = "free"]
          /\ autoCommit' = [autoCommit EXCEPT ![d] = TRUE]
          /\ heldDbs' = heldDbs \ {d}
          /\ inTx' = [inTx EXCEPT ![d] = FALSE]
          /\ Answer("close", "null")
    /\ UNCHANGED <<memory, heldStmts, broken>>

\* A failing statement may have rolled the transaction back (sqlite3VdbeHalt).
MayRollBack(d) ==
    \/ UNCHANGED <<autoCommit, broken>>
    \/ autoCommit' = [autoCommit EXCEPT ![d] = TRUE] /\ Breaks("fault")

\* sqlite3_exec_wrapper: rows and null, or an exception; a NULL column is
\* passed to strlen.
Exec(d) ==
    /\ Alive
    /\ Open(d)
    /\ \/ /\ Answer("exec", "null")
          /\ UNCHANGED <<autoCommit, broken>>
       \/ /\ Answer("exec", "exception")
          /\ MayRollBack(d)
       \/ /\ NullColumns
          /\ Crash("exec", "null column")
          /\ UNCHANGED <<autoCommit, broken>>
    /\ UNCHANGED <<conn, memory, handles, inTx>>

LastInsertRowid(d) ==
    /\ Alive
    /\ Open(d)
    /\ Answer("last_insert_rowid", "number")
    /\ UNCHANGED <<conn, autoCommit, memory, handles, inTx, broken>>

\* The operations on a connection, given an address that holds none.
UseFreedDb(d) ==
    /\ Alive
    /\ conn[d] = "free"
    /\ IF d \in heldDbs THEN UNCHANGED broken ELSE Breaks("handle")
    /\ UseFreed

-----------------------------------------------------------------------------
(* Transactions.                                                           *)

\* begin, commit and rollback pass no error pointer to sqlite3_exec and give
\* mountException a NULL message when it fails: strlen(NULL).
TransactionFails(op) ==
    /\ Crash(op, "null message")
    /\ UNCHANGED <<autoCommit, inTx>>

\* Mutant: the answer is null although the statement was not run.
TransactNotRun(op, d, auto) ==
    /\ inTx' = [inTx EXCEPT ![d] = ~auto]
    /\ Answer(op, "null")
    /\ UNCHANGED autoCommit

Transact(op, d, auto) ==
    /\ autoCommit' = [autoCommit EXCEPT ![d] = auto]
    /\ inTx' = [inTx EXCEPT ![d] = ~auto]
    /\ Answer(op, "null")

\* A busy insert is still running and blocks a commit.
Writing(d) == \E s \in Stmts : /\ stmt[s] = "active" /\ kind[s] = "insert"
                               /\ owner[s] = d

Begin(d) ==
    /\ Alive
    /\ Open(d)
    /\ IF inTx[d] THEN Breaks("order") ELSE UNCHANGED broken
    /\ \/ autoCommit[d] /\ Transact("begin", d, FALSE)
       \/ ~autoCommit[d] /\ TransactionFails("begin")
    /\ UNCHANGED <<conn, memory, handles>>

Commit(d) ==
    /\ Alive
    /\ Open(d)
    /\ IF inTx[d] THEN UNCHANGED broken ELSE Breaks("order")
    /\ \/ /\ ~autoCommit[d] /\ ~Writing(d)
          /\ Transact("commit", d, TRUE)
       \/ /\ autoCommit[d] \/ Writing(d)
          /\ TransactionFails("commit")
    /\ UNCHANGED <<conn, memory, handles>>

Rollback(d) ==
    /\ Alive
    /\ Open(d)
    /\ IF inTx[d] THEN UNCHANGED broken ELSE Breaks("order")
    /\ \/ ~autoCommit[d] /\ Transact("rollback", d, TRUE)
       \/ autoCommit[d] /\ TransactionFails("rollback")
    /\ UNCHANGED <<conn, memory, handles>>

\* Busy, out of memory or space, an I/O error: the same answer.
BeginOrCommitFaults(d) ==
    /\ Alive
    /\ Open(d)
    /\ Breaks("fault")
    /\ \E op \in {"begin", "commit"} : TransactionFails(op)
    /\ UNCHANGED <<conn, memory, handles>>

-----------------------------------------------------------------------------
(* Statements.                                                             *)

\* sqlite3_prepare_v2_wrapper; empty SQL succeeds with a null statement.
Prepare(d, s, k) ==
    /\ Alive
    /\ Open(d)
    /\ \/ /\ stmt[s] = "free"
          /\ stmt' = [stmt EXCEPT ![s] = "ready"]
          /\ owner' = [owner EXCEPT ![s] = d]
          /\ kind' = [kind EXCEPT ![s] = k]
          /\ failed' = [failed EXCEPT ![s] = FALSE]
          /\ param' = [param EXCEPT ![s] = "own"]
          /\ heldStmts' = heldStmts \cup {s}
          /\ Answer("prepare_v2", "handle")
       \/ /\ heldStmts' = heldStmts \cup {NullStmt}
          /\ Answer("prepare_v2", "handle")
          /\ UNCHANGED memory
       \/ /\ Answer("prepare_v2", "exception")
          /\ UNCHANGED <<memory, heldStmts>>
    /\ UNCHANGED <<conn, autoCommit, heldDbs, inTx, broken>>

Passed(s) == Alive /\ Live(s)

\* The bind wrappers: bind_int, bind_int64 and bind_double copy the value,
\* bind_text keeps a pointer into the message, bind_blob one read from the
\* wrong member of the union.  A statement that has run is misused.
Bind(s, content) ==
    /\ Passed(s)
    /\ \/ /\ stmt[s] = "ready"
          /\ param' = [param EXCEPT ![s] = content]
          /\ Answer("bind", "null")
       \/ /\ stmt[s] = "ready"
          /\ content = "wild"
          /\ param' = [param EXCEPT ![s] = "own"]
          /\ Answer("bind", "null")
       \/ /\ Answer("bind", "exception")
          /\ UNCHANGED param
    /\ UNCHANGED <<conn, autoCommit, stmt, owner, kind, failed, handles, inTx,
                   broken>>

StepTo(s, state, fails, answer) ==
    /\ stmt' = [stmt EXCEPT ![s] = state]
    /\ failed' = [failed EXCEPT ![s] = fails]
    /\ Answer("step", answer)

\* sqlite3_step_wrapper: SQLITE_DONE answers null, SQLITE_ERROR an
\* exception, every other code -- SQLITE_ROW, busy, constraint, full -- the
\* code.  A statement that has halted is reset first.
Step(s) ==
    /\ Passed(s)
    /\ \/ /\ kind[s] = "query"
          /\ StepTo(s, "row", FALSE, "code")
          /\ UNCHANGED <<autoCommit, broken>>
       \/ /\ StepTo(s, "halted", FALSE, "null")
          /\ UNCHANGED <<autoCommit, broken>>
       \/ /\ \E answer \in {"exception", "code"} :
                 StepTo(s, "halted", TRUE, answer)
          /\ MayRollBack(owner[s])
       \/ /\ Breaks("fault")
          /\ stmt[s] # "row"
          /\ StepTo(s, "active", TRUE, "code")
          /\ UNCHANGED autoCommit
       \/ /\ param[s] \in {"message", "wild"}
          /\ Crash("step", "dead content")
          /\ UNCHANGED <<stmt, failed, autoCommit, broken>>
    /\ UNCHANGED <<conn, owner, kind, param, handles, inTx>>

\* sqlite3_reset and sqlite3_finalize answer with the error of the last step.
LastError(s) == IF failed[s] THEN "exception" ELSE "null"

ResetStmt(s) ==
    /\ Passed(s)
    /\ stmt' = [stmt EXCEPT ![s] = "ready"]
    /\ failed' = [failed EXCEPT ![s] = FALSE]
    /\ Answer("reset", LastError(s))
    /\ UNCHANGED <<conn, autoCommit, owner, kind, param, handles, inTx,
                   broken>>

\* The statement is freed whatever the answer.  The program is assumed to drop
\* its handle also when the Future fails: SQLite says so, no reply does.
Finalize(s) ==
    /\ Passed(s)
    /\ stmt' = [stmt EXCEPT ![s] = "free"]
    /\ owner' = [owner EXCEPT ![s] = NoDb]
    /\ kind' = [kind EXCEPT ![s] = "query"]
    /\ failed' = [failed EXCEPT ![s] = FALSE]
    /\ param' = [param EXCEPT ![s] = "own"]
    /\ heldStmts' = heldStmts \ {s}
    /\ Answer("finalize", LastError(s))
    /\ UNCHANGED <<conn, autoCommit, heldDbs, inTx, broken>>

\* sqlite3_column_text_wrapper: without a row, and for a NULL column, the
\* result is a string at address 0, which the VM reads when it is posted.
ColumnText(s) ==
    /\ Passed(s)
    /\ \/ stmt[s] = "row" /\ Answer("column_text", "text")
       \/ /\ stmt[s] # "row" \/ NullColumns
          /\ Crash("column_text", "null column")
    /\ UNCHANGED <<conn, autoCommit, memory, handles, inTx, broken>>

\* The same calls with statement 0: bind and step are misused, reset and
\* finalize do nothing, a column is NULL.
UseNullStmt ==
    /\ Alive
    /\ NullStmt \in heldStmts
    /\ \/ Answer("bind", "exception") /\ UNCHANGED heldStmts
       \/ Answer("step", "code") /\ UNCHANGED heldStmts
       \/ Answer("reset", "null") /\ UNCHANGED heldStmts
       \/ Answer("finalize", "null") /\ heldStmts' = heldStmts \ {NullStmt}
       \/ Crash("column_text", "null column") /\ UNCHANGED heldStmts
    /\ UNCHANGED <<conn, autoCommit, memory, heldDbs, inTx, broken>>

UseFreedStmt(s) ==
    /\ Alive
    /\ ~Live(s)
    /\ IF s \in heldStmts THEN UNCHANGED broken ELSE Breaks("handle")
    /\ UseFreed

-----------------------------------------------------------------------------
Next == \/ \E d \in Dbs : \/ OpenDb(d) \/ CloseDb(d)
                          \/ Exec(d) \/ LastInsertRowid(d)
                          \/ Begin(d) \/ Commit(d) \/ Rollback(d)
                          \/ BeginOrCommitFaults(d)
                          \/ UseFreedDb(d)
                          \/ \E s \in Stmts, k \in Kinds : Prepare(d, s, k)
        \/ \E s \in Stmts : \/ Step(s) \/ ResetStmt(s) \/ Finalize(s)
                            \/ ColumnText(s) \/ UseFreedStmt(s)
                            \/ \E content \in Contents : Bind(s, content)
        \/ UseNullStmt

Spec == Init /\ [][Next]_vars

-----------------------------------------------------------------------------
(* Properties.                                                             *)

\* Type invariant of the objects, the program's view and the last answer.
TypeOK == /\ conn \in [Dbs -> ConnStates]
          /\ autoCommit \in [Dbs -> BOOLEAN]
          /\ stmt \in [Stmts -> StmtStates]
          /\ owner \in [Stmts -> Dbs \cup {NoDb}]
          /\ kind \in [Stmts -> Kinds]
          /\ failed \in [Stmts -> BOOLEAN]
          /\ param \in [Stmts -> Contents]
          /\ heldDbs \subseteq Dbs
          /\ heldStmts \subseteq Stmts \cup {NullStmt}
          /\ inTx \in [Dbs -> BOOLEAN]
          /\ broken \subseteq Breaches
          /\ crash \in Causes
          /\ last \in [op : DbOps \cup StmtOps \cup {"none", "open", "any"},
                       answer : Answers]

(* No statement outlives its connection: sqlite3_close refuses while one   *)
(* lives and the exception leaves the connection usable.                   *)
NoOrphanStatement == \A s \in Stmts : Live(s) => Open(owner[s])

(* A program that passes only handles it holds, and drops a statement      *)
(* whatever finalize answers, never reaches freed memory: what it holds is *)
(* live, although open and close may fail and addresses are used again.    *)
NoFreedHandleUsed ==
    /\ crash = "freed handle" => "handle" \in broken
    /\ \A d \in heldDbs : Open(d)
    /\ \A s \in heldStmts \ {NullStmt} : Live(s)

(* Nothing that opened successfully is lost: the program still holds the   *)
(* handle of every open connection and every live statement.               *)
NothingUnreachable ==
    /\ \A d \in Dbs : Open(d) => d \in heldDbs
    /\ \A s \in Stmts : Live(s) => s \in heldStmts

(* SQLite never has a transaction open that the program believes ended,    *)
(* whatever fails.  Before the first fault a program that brackets its     *)
(* transactions knows whether one is open, and begin, commit and rollback  *)
(* do not kill it.                                                         *)
TransactionsAsBelieved ==
    /\ \A d \in Dbs : ~autoCommit[d] => inTx[d]
    /\ broken \subseteq {"handle"} =>
           /\ crash # "null message"
           /\ \A d \in Dbs : inTx[d] => ~autoCommit[d]

(* A rollback is answered (sqlite3_convenience.dart, "Convenient method to *)
(* rollback a transaction", completes with an exception if it fails): it   *)
(* never ends the process.  The code violates it.                          *)
RollbackAnswers ==
    ~(last.op = "rollback" /\ crash # "none" /\ "order" \notin broken)
=============================================================================
