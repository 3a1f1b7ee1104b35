--------------------------- MODULE Handles_proofs ---------------------------
(***************************************************************************)
(* Theorems about Handles, for any number of connections and statements,   *)
(* any program and any environment the constants can name.                 *)
(***************************************************************************)
EXTENDS Handles, TLAPS

(* The inductive invariant.                                                *)

\* A live statement was prepared on some connection.
Owned == \A s \in Stmts : Live(s) => owner[s] \in Dbs

\* Only a fault leaves a statement running after a step, and only such a
\* statement can keep a commit from succeeding.
NoneActive == "fault" \notin broken => \A s \in Stmts : stmt[s] # "active"

Operations == DbOps \cup StmtOps \cup {"none", "open", "any"}

\* What was broken stays broken.
Remembers == broken \subseteq broken' /\ broken' \subseteq Breaches

Safe == /\ Owned
        /\ NoOrphanStatement
        /\ NoFreedHandleUsed
        /\ NothingUnreachable

Inv == TypeOK /\ Safe /\ TransactionsAsBelieved /\ NoneActive

-----------------------------------------------------------------------------
(* Lemmas about answers.                                                   *)

\* An answer is a record of the last call, on something live.
LEMMA AnswerType ==
    ASSUME TypeOK, NEW op \in Operations, NEW answer \in Answers, Answer(op, answer)
    PROVE  /\ last' \in [op : Operations, answer : Answers]
           /\ crash' \in Causes /\ crash' = crash
  BY DEF Answer, TypeOK, Operations

\* A call that ends the process leaves a record of the call and the cause.
LEMMA CrashType ==
    ASSUME NEW op \in Operations, NEW cause \in Causes, Crash(op, cause)
    PROVE  /\ last' \in [op : Operations, answer : Answers]
           /\ crash' \in Causes /\ crash' = cause
  BY DEF Crash, Answers

\* A breach is added to those before.
LEMMA BreaksType ==
    ASSUME TypeOK, NEW breach \in Breaches, Breaks(breach)
    PROVE  Remembers /\ breach \in broken'
  BY DEF Breaks, TypeOK, Remembers

\* No connection, no statement, no handle: the invariant holds at the start.
LEMMA InvInit == Init => Inv
  <1> SUFFICES ASSUME Init PROVE Inv
    OBVIOUS
  <1>1. TypeOK
    BY DEF Init, TypeOK, ConnStates, StmtStates, Kinds, Contents, Answers, Causes,
           Breaches
  <1>2. Safe
    BY DEF Init, Safe, Owned, NoOrphanStatement, NoFreedHandleUsed, NothingUnreachable,
           Live, Open
  <1>3. TransactionsAsBelieved /\ NoneActive
    BY DEF Init, TransactionsAsBelieved, NoneActive
  <1> QED
    BY <1>1, <1>2, <1>3 DEF Inv

-----------------------------------------------------------------------------
(* Connections.                                                            *)

\* Opening takes a free address; a failed open hands out no handle.
LEMMA OpenDbInv ==
    ASSUME Inv, NEW d \in Dbs, OpenDb(d)
    PROVE  Inv'
  <1>1. /\ last' \in [op : Operations, answer : Answers]
        /\ crash' \in Causes /\ crash' = crash
    <2>1. \E answer \in {"handle", "exception"} : Answer("open", answer)
      BY DEF OpenDb
    <2> QED
      BY <2>1, AnswerType DEF Inv, Answers, Operations, DbOps
  <1>2. /\ \A c \in Dbs : c # d => conn'[c] = conn[c]
        /\ conn[d] = "free"
        /\ conn' \in [Dbs -> ConnStates]
        /\ heldDbs' = IF conn'[d] = "open" THEN heldDbs \cup {d} ELSE heldDbs
        /\ Remembers
    BY DEF OpenDb, Inv, TypeOK, ConnStates, Breaks, Breaches, Remembers
  <1>3. TypeOK'
    <2>1. autoCommit' \in [Dbs -> BOOLEAN] /\ inTx' \in [Dbs -> BOOLEAN]
      BY DEF OpenDb, Inv, TypeOK
    <2>2. heldDbs' \subseteq Dbs
      BY <1>2 DEF Inv, TypeOK
    <2>3. UNCHANGED <<memory, heldStmts>>
      BY DEF OpenDb
    <2> QED
      BY <1>1, <1>2, <2>1, <2>2, <2>3 DEF Inv, TypeOK, Operations, memory, Remembers
  <1>4. Owned' /\ NoOrphanStatement'
    BY <1>2 DEF OpenDb, Inv, TypeOK, Safe, Owned, NoOrphanStatement, Live, Open, memory
  <1>5. NoFreedHandleUsed' /\ NothingUnreachable'
    BY <1>1, <1>2
       DEF OpenDb, Inv, TypeOK, Safe, NoFreedHandleUsed, NothingUnreachable,
           Live, Open, memory, Remembers
  <1>6. TransactionsAsBelieved'
    BY <1>1, <1>2 DEF OpenDb, Inv, TypeOK, TransactionsAsBelieved, Remembers
  <1>7. NoneActive'
    BY <1>2 DEF OpenDb, Inv, NoneActive, memory, Remembers
  <1> QED
    BY <1>3, <1>4, <1>5, <1>6, <1>7 DEF Inv, Safe

\* Closing frees a connection only when no statement lives on it, and the
\* program drops the handle in the same call.
LEMMA CloseDbInv ==
    ASSUME Inv, NEW d \in Dbs, CloseDb(d)
    PROVE  Inv'
  <1>1. /\ last' \in [op : Operations, answer : Answers]
        /\ crash' \in Causes /\ crash' = crash
    <2>1. \E answer \in {"null", "exception"} : Answer("close", answer)
      BY DEF CloseDb
    <2> QED
      BY <2>1, AnswerType DEF Inv, Answers, Operations, DbOps
  <1>2. UNCHANGED <<memory, heldStmts, broken>>
    BY DEF CloseDb
  <1>3. CASE HasStatements(d)
    <2>1. UNCHANGED <<conn, autoCommit, heldDbs, inTx>>
      BY <1>3 DEF CloseDb
    <2> QED
      BY <1>1, <1>2, <2>1
         DEF Inv, TypeOK, Safe, Owned, NoOrphanStatement, NoFreedHandleUsed,
             NothingUnreachable, TransactionsAsBelieved, NoneActive, Live, Open,
             Operations, memory
  <1>4. CASE ~HasStatements(d)
    <2>1. /\ conn' = [conn EXCEPT ![d] = "free"]
          /\ autoCommit' = [autoCommit EXCEPT ![d] = TRUE]
          /\ heldDbs' = heldDbs \ {d}
          /\ inTx' = [inTx EXCEPT ![d] = FALSE]
      BY <1>4 DEF CloseDb
    <2>2. TypeOK'
      BY <1>1, <1>2, <2>1 DEF Inv, TypeOK, ConnStates, Operations, memory
    <2>3. Owned' /\ NoOrphanStatement'
      BY <1>2, <1>4, <2>1
         DEF Inv, TypeOK, Safe, Owned, NoOrphanStatement, HasStatements, Live, Open, memory
    <2>4. NoFreedHandleUsed' /\ NothingUnreachable'
      BY <1>1, <1>2, <2>1
         DEF Inv, TypeOK, Safe, NoFreedHandleUsed, NothingUnreachable, Live, Open,
             memory
    <2>5. TransactionsAsBelieved' /\ NoneActive'
      BY <1>1, <1>2, <2>1
         DEF Inv, TypeOK, TransactionsAsBelieved, NoneActive, memory
    <2> QED
      BY <2>2, <2>3, <2>4, <2>5 DEF Inv, Safe
  <1> QED
    BY <1>3, <1>4

\* A step that answers, or ends the process, and changes at most the
\* transaction of one connection and the program's view of it.
LEMMA OnlyTransaction ==
    ASSUME Inv, UNCHANGED <<conn, memory, handles>>,
           last' \in [op : Operations, answer : Answers],
           crash' \in Causes, crash' # "freed handle", Remembers,
           autoCommit' \in [Dbs -> BOOLEAN], inTx' \in [Dbs -> BOOLEAN],
           TransactionsAsBelieved'
    PROVE  Inv'
  <1> USE DEF memory, handles, Remembers
  <1>1. TypeOK'
    BY DEF Inv, TypeOK, Operations
  <1>2. Safe'
    BY DEF Inv, Safe, Owned, NoOrphanStatement, NoFreedHandleUsed, NothingUnreachable,
           Live, Open
  <1>3. NoneActive'
    BY DEF Inv, NoneActive
  <1> QED
    BY <1>1, <1>2, <1>3 DEF Inv

\* sqlite3_exec_wrapper changes at most the transaction, and that only on a fault.
LEMMA ExecInv ==
    ASSUME Inv, NEW d \in Dbs, Exec(d)
    PROVE  Inv'
  <1>1. crash = "none"
    BY DEF Exec, Alive
  <1>2. /\ last' \in [op : Operations, answer : Answers]
        /\ crash' \in Causes /\ crash' \in {"none", "null column"}
    <2>1. CASE \E answer \in {"null", "exception"} : Answer("exec", answer)
      BY <1>1, <2>1, AnswerType DEF Inv, Answers, Operations, DbOps
    <2>2. CASE Crash("exec", "null column")
      BY <2>2, CrashType DEF Causes, Operations, DbOps
    <2> QED
      BY <2>1, <2>2 DEF Exec
  <1>3. /\ autoCommit' \in [Dbs -> BOOLEAN] /\ inTx' \in [Dbs -> BOOLEAN]
        /\ Remembers /\ inTx' = inTx /\ MayRollBack(d)
    BY DEF Exec, MayRollBack, Inv, TypeOK, Breaks, Breaches, Remembers
  <1>4. TransactionsAsBelieved'
    <2>1. CASE UNCHANGED <<autoCommit, broken>>
      BY <1>2, <1>3, <2>1 DEF Inv, TransactionsAsBelieved
    <2>2. CASE /\ autoCommit' = [autoCommit EXCEPT ![d] = TRUE]
               /\ Breaks("fault")
      <3>1. ~(broken' \subseteq {"handle"})
        BY <2>2 DEF Breaks
      <3>2. \A c \in Dbs : ~autoCommit'[c] => inTx'[c]
        BY <1>3, <2>2 DEF Inv, TypeOK, TransactionsAsBelieved
      <3> QED
        BY <3>1, <3>2 DEF TransactionsAsBelieved
    <2> QED
      BY <1>3, <2>1, <2>2 DEF MayRollBack
  <1> QED
    BY <1>2, <1>3, <1>4, OnlyTransaction DEF Exec

\* last_insert_rowid reads.
LEMMA LastInsertRowidInv ==
    ASSUME Inv, NEW d \in Dbs, LastInsertRowid(d)
    PROVE  Inv'
  <1>1. /\ last' \in [op : Operations, answer : Answers]
        /\ crash' \in Causes /\ crash' = "none"
    BY AnswerType
       DEF LastInsertRowid, Alive, Inv, Answers, Operations, DbOps
  <1>2. UNCHANGED <<autoCommit, inTx, broken>> /\ Remembers
    BY DEF LastInsertRowid, Inv, TypeOK, Remembers
  <1>3. TransactionsAsBelieved'
    BY <1>1, <1>2 DEF Inv, TransactionsAsBelieved
  <1> QED
    BY <1>1, <1>2, <1>3, OnlyTransaction DEF LastInsertRowid, Inv, TypeOK

-----------------------------------------------------------------------------
(* Transactions.                                                           *)

\* A successful begin, commit or rollback moves autoCommit and the program's
\* view together.
LEMMA TransactInv ==
    ASSUME Inv, NEW d \in Dbs, NEW op \in DbOps, NEW auto \in BOOLEAN,
           crash = "none", Transact(op, d, auto), Remembers,
           UNCHANGED <<conn, memory, handles>>
    PROVE  Inv'
  <1>1. /\ last' \in [op : Operations, answer : Answers]
        /\ crash' \in Causes /\ crash' = "none"
    BY AnswerType DEF Transact, Inv, Answers, Operations
  <1>2. /\ autoCommit' = [autoCommit EXCEPT ![d] = auto]
        /\ inTx' = [inTx EXCEPT ![d] = ~auto]
    BY DEF Transact
  <1>3. autoCommit' \in [Dbs -> BOOLEAN] /\ inTx' \in [Dbs -> BOOLEAN]
    BY <1>2 DEF Inv, TypeOK
  <1>4. TransactionsAsBelieved'
    BY <1>1, <1>2 DEF Inv, TypeOK, TransactionsAsBelieved, Remembers
  <1> QED
    BY <1>1, <1>3, <1>4, OnlyTransaction

\* A failing begin, commit or rollback kills the process, which takes a fault
\* or a transaction out of order.
LEMMA TransactionFailsInv ==
    ASSUME Inv, NEW op \in DbOps, TransactionFails(op), Remembers,
           ~(broken' \subseteq {"handle"}),
           UNCHANGED <<conn, memory, handles>>
    PROVE  Inv'
  <1>1. /\ last' \in [op : Operations, answer : Answers]
        /\ crash' \in Causes /\ crash' = "null message"
    BY CrashType DEF TransactionFails, Causes, Operations
  <1>2. UNCHANGED <<autoCommit, inTx>>
    BY DEF TransactionFails
  <1>3. TransactionsAsBelieved'
    BY <1>2 DEF Inv, TransactionsAsBelieved
  <1> QED
    BY <1>1, <1>2, <1>3, OnlyTransaction DEF Inv, TypeOK

\* begin_transaction fails only inside a transaction.
LEMMA BeginInv ==
    ASSUME Inv, NEW d \in Dbs, Begin(d)
    PROVE  Inv'
  <1>1. crash = "none" /\ UNCHANGED <<conn, memory, handles>>
    BY DEF Begin, Alive
  <1>2. Remembers /\ (inTx[d] => "order" \in broken')
    BY DEF Begin, Inv, TypeOK, Remembers, Breaks, Breaches
  <1>3. CASE Transact("begin", d, FALSE)
    BY <1>1, <1>2, <1>3, TransactInv DEF DbOps
  <1>4. CASE TransactionFails("begin") /\ ~autoCommit[d]
    <2>1. "order" \in broken'
      BY <1>2, <1>4 DEF Inv, TransactionsAsBelieved
    <2> QED
      BY <1>1, <1>2, <1>4, <2>1, TransactionFailsInv DEF DbOps
  <1> QED
    BY <1>3, <1>4 DEF Begin

\* A commit can fail on a running insert, which only a fault leaves behind,
\* and where no transaction is open.
LEMMA CommitInv ==
    ASSUME Inv, NEW d \in Dbs, Commit(d)
    PROVE  Inv'
  <1>1. crash = "none" /\ UNCHANGED <<conn, memory, handles>>
    BY DEF Commit, Alive
  <1>2. Remembers /\ (~inTx[d] => "order" \in broken')
    BY DEF Commit, Inv, TypeOK, Remembers, Breaks, Breaches
  <1>3. CASE Transact("commit", d, TRUE)
    BY <1>1, <1>2, <1>3, TransactInv DEF DbOps
  <1>4. CASE TransactionFails("commit") /\ (autoCommit[d] \/ Writing(d))
    <2>1. ~(broken' \subseteq {"handle"})
      <3>1. CASE Writing(d)
        <4>1. "fault" \in broken
          BY <3>1 DEF Inv, NoneActive, Writing
        <4> QED
          BY <1>2, <4>1 DEF Remembers
      <3>2. CASE autoCommit[d]
        <4>1. CASE inTx[d]
          BY <1>2, <3>2, <4>1 DEF Inv, TransactionsAsBelieved, Remembers
        <4>2. CASE ~inTx[d]
          BY <1>2, <4>2
        <4> QED
          BY <4>1, <4>2
      <3> QED
        BY <1>4, <3>1, <3>2
    <2> QED
      BY <1>1, <1>2, <1>4, <2>1, TransactionFailsInv DEF DbOps
  <1> QED
    BY <1>3, <1>4 DEF Commit

\* A rollback fails only where no transaction is open.
LEMMA RollbackInv ==
    ASSUME Inv, NEW d \in Dbs, Rollback(d)
    PROVE  Inv'
  <1>1. crash = "none" /\ UNCHANGED <<conn, memory, handles>>
    BY DEF Rollback, Alive
  <1>2. Remembers /\ (~inTx[d] => "order" \in broken')
    BY DEF Rollback, Inv, TypeOK, Remembers, Breaks, Breaches
  <1>3. CASE Transact("rollback", d, TRUE)
    BY <1>1, <1>2, <1>3, TransactInv DEF DbOps
  <1>4. CASE TransactionFails("rollback") /\ autoCommit[d]
    <2>1. CASE inTx[d]
      <3>1. ~(broken' \subseteq {"handle"})
        BY <1>2, <1>4, <2>1 DEF Inv, TransactionsAsBelieved, Remembers
      <3> QED
        BY <1>1, <1>2, <1>4, <3>1, TransactionFailsInv DEF DbOps
    <2>2. CASE ~inTx[d]
      BY <1>1, <1>2, <1>4, <2>2, TransactionFailsInv DEF DbOps
    <2> QED
      BY <2>1, <2>2
  <1> QED
    BY <1>3, <1>4 DEF Rollback

\* A begin or commit that SQLite cannot do is a fault.
LEMMA BeginOrCommitFaultsInv ==
    ASSUME Inv, NEW d \in Dbs, BeginOrCommitFaults(d)
    PROVE  Inv'
  <1>1. UNCHANGED <<conn, memory, handles>> /\ Breaks("fault")
    BY DEF BeginOrCommitFaults
  <1>2. Remembers /\ "fault" \in broken'
    BY <1>1, BreaksType DEF Inv, Breaches
  <1>3. PICK op \in {"begin", "commit"} : TransactionFails(op)
    BY DEF BeginOrCommitFaults
  <1> QED
    BY <1>1, <1>2, <1>3, TransactionFailsInv DEF DbOps

-----------------------------------------------------------------------------
(* Addresses that hold nothing.                                            *)

\* Freed memory is used only by a program that passes what it does not hold.
LEMMA UseFreedInv ==
    ASSUME Inv, UseFreed, Breaks("handle")
    PROVE  Inv'
  <1>1. UNCHANGED <<conn, autoCommit, memory, handles, inTx>>
    BY DEF UseFreed
  <1>2. Remembers /\ broken' = broken \cup {"handle"} /\ "handle" \in broken'
    BY BreaksType DEF Inv, Breaches, Breaks
  <1>3. /\ last' \in [op : Operations, answer : Answers]
        /\ crash' \in Causes /\ crash' = "freed handle"
    BY CrashType DEF UseFreed, Causes, Operations
  <1>4. TypeOK'
    BY <1>1, <1>2, <1>3
       DEF Inv, TypeOK, Operations, memory, handles, Remembers
  <1>5. Safe' /\ NoneActive'
    BY <1>1, <1>2, <1>3
       DEF Inv, Safe, Owned, NoOrphanStatement, NoFreedHandleUsed,
           NothingUnreachable, NoneActive, Live, Open, memory, handles
  <1>6. TransactionsAsBelieved'
    BY <1>1, <1>2, <1>3 DEF Inv, TransactionsAsBelieved
  <1> QED
    BY <1>4, <1>5, <1>6 DEF Inv

\* The handle of a freed connection is not held.
LEMMA UseFreedDbInv ==
    ASSUME Inv, NEW d \in Dbs, UseFreedDb(d)
    PROVE  Inv'
  <1>1. d \notin heldDbs
    BY DEF UseFreedDb, Inv, Safe, NoFreedHandleUsed, Open
  <1> QED
    BY <1>1, UseFreedInv DEF UseFreedDb

\* The handle of a freed statement is not held.
LEMMA UseFreedStmtInv ==
    ASSUME Inv, NEW s \in Stmts, UseFreedStmt(s)
    PROVE  Inv'
  <1>1. s \notin heldStmts
    BY HandlesAssumption DEF UseFreedStmt, Inv, Safe, NoFreedHandleUsed
  <1> QED
    BY <1>1, UseFreedInv DEF UseFreedStmt

-----------------------------------------------------------------------------
(* Statements.                                                             *)

\* A step that answers or ends the process, and frees nothing: a live
\* statement stays live and stays on its connection, what is held stays held.
LEMMA OnlyStatement ==
    ASSUME Inv, TypeOK', NoneActive', Remembers,
           UNCHANGED <<conn, owner, heldDbs, heldStmts, inTx>>,
           \A s \in Stmts : (stmt'[s] = "free") <=> (stmt[s] = "free"),
           UNCHANGED autoCommit \/ \E d \in Dbs : MayRollBack(d),
           crash' \in {crash, "null column", "dead content"}
    PROVE  Inv'
  <1>1. Safe'
    <2>1. Owned' /\ NoOrphanStatement'
      BY DEF Inv, Safe, Owned, NoOrphanStatement, Live, Open
    <2>2. NoFreedHandleUsed'
      <3>1. \A s \in heldStmts \ {NullStmt} : s \in Stmts
        BY DEF Inv, TypeOK
      <3> QED
        BY <3>1 DEF Inv, Safe, NoFreedHandleUsed, Live, Open, Remembers
    <2>3. NothingUnreachable'
      BY DEF Inv, Safe, NothingUnreachable, Live, Open
    <2> QED
      BY <2>1, <2>2, <2>3 DEF Safe
  <1>2. TransactionsAsBelieved'
    <2>1. CASE UNCHANGED autoCommit
      BY <2>1 DEF Inv, TransactionsAsBelieved, Remembers
    <2>2. CASE \E d \in Dbs : MayRollBack(d)
      BY ZenonT(60), <2>2
         DEF Inv, TypeOK, TransactionsAsBelieved, MayRollBack, Breaks, Remembers
    <2> QED
      BY <2>1, <2>2
  <1> QED
    BY <1>1, <1>2 DEF Inv

\* Preparing puts a new statement on an open connection and its handle in the
\* program's hands; empty SQL gives the null statement, an error nothing.
LEMMA PrepareInv ==
    ASSUME Inv, NEW d \in Dbs, NEW s \in Stmts, NEW k \in Kinds, Prepare(d, s, k)
    PROVE  Inv'
  <1>1. /\ last' \in [op : Operations, answer : Answers]
        /\ crash' \in Causes /\ crash' = crash
    <2>1. \E answer \in {"handle", "exception"} : Answer("prepare_v2", answer)
      BY DEF Prepare
    <2> QED
      BY <2>1, AnswerType DEF Inv, Answers, Operations, DbOps
  <1>2. Open(d) /\ UNCHANGED <<conn, autoCommit, heldDbs, inTx, broken>>
    BY DEF Prepare
  <1>3. CASE stmt[s] = "free" /\ heldStmts' = heldStmts \cup {s}
             /\ stmt' = [stmt EXCEPT ![s] = "ready"]
             /\ owner' = [owner EXCEPT ![s] = d]
             /\ kind' = [kind EXCEPT ![s] = k]
             /\ failed' = [failed EXCEPT ![s] = FALSE]
             /\ param' = [param EXCEPT ![s] = "own"]
    <2>1. TypeOK'
      BY <1>1, <1>2, <1>3 DEF Inv, TypeOK, StmtStates, Contents, Operations
    <2>2. Owned' /\ NoOrphanStatement'
      BY <1>2, <1>3 DEF Inv, TypeOK, Safe, Owned, NoOrphanStatement, Live, Open
    <2>3. NoFreedHandleUsed' /\ NothingUnreachable'
      BY <1>1, <1>2, <1>3
         DEF Inv, TypeOK, Safe, NoFreedHandleUsed, NothingUnreachable, Live, Open
    <2>4. TransactionsAsBelieved' /\ NoneActive'
      BY <1>1, <1>2, <1>3 DEF Inv, TypeOK, TransactionsAsBelieved, NoneActive
    <2> QED
      BY <2>1, <2>2, <2>3, <2>4 DEF Inv, Safe
  <1>4. CASE heldStmts' \in {heldStmts, heldStmts \cup {NullStmt}} /\ UNCHANGED memory
    <2>1. TypeOK'
      BY <1>1, <1>2, <1>4 DEF Inv, TypeOK, Operations, memory
    <2>2. Safe'
      BY <1>1, <1>2, <1>4
         DEF Inv, Safe, Owned, NoOrphanStatement, NoFreedHandleUsed,
             NothingUnreachable, Live, Open, memory
    <2>3. TransactionsAsBelieved' /\ NoneActive'
      BY <1>1, <1>2, <1>4 DEF Inv, TransactionsAsBelieved, NoneActive, memory
    <2> QED
      BY <2>1, <2>2, <2>3 DEF Inv
  <1> QED
    BY <1>3, <1>4 DEF Prepare

\* Binding changes where the parameter's content lives, nothing else.
LEMMA BindInv ==
    ASSUME Inv, NEW s \in Stmts, NEW content \in Contents, Bind(s, content)
    PROVE  Inv'
  <1>1. /\ last' \in [op : Operations, answer : Answers]
        /\ crash' \in Causes /\ crash' = crash
    <2>1. \E answer \in {"null", "exception"} : Answer("bind", answer)
      BY DEF Bind
    <2> QED
      BY <2>1, AnswerType DEF Inv, Answers, Operations, StmtOps
  <1>2. /\ UNCHANGED <<conn, autoCommit, stmt, owner, kind, failed, handles, inTx,
                       broken>>
        /\ Remembers
    BY DEF Bind, Inv, TypeOK, Remembers
  <1>3. param' \in [Stmts -> Contents]
    BY DEF Bind, Inv, TypeOK, Contents
  <1>4. TypeOK' /\ NoneActive'
    BY <1>1, <1>2, <1>3 DEF Inv, TypeOK, NoneActive, Operations, handles
  <1> QED
    BY <1>1, <1>2, <1>4, OnlyStatement DEF handles

\* The states a step leaves a statement in are never "free", and "active"
\* needs a fault.
LEMMA StepToInv ==
    ASSUME Inv, NEW s \in Stmts, NEW state \in {"row", "halted", "active"},
           NEW fails \in BOOLEAN, NEW answer \in Answers,
           Live(s), StepTo(s, state, fails, answer), Remembers,
           state = "active" => "fault" \in broken',
           autoCommit' \in [Dbs -> BOOLEAN],
           UNCHANGED autoCommit \/ MayRollBack(owner[s]),
           UNCHANGED <<conn, owner, kind, param, handles, inTx>>
    PROVE  Inv'
  <1>1. /\ last' \in [op : Operations, answer : Answers]
        /\ crash' \in Causes /\ crash' = crash
    BY AnswerType DEF StepTo, Inv, Operations, StmtOps
  <1>2. /\ stmt' = [stmt EXCEPT ![s] = state]
        /\ failed' = [failed EXCEPT ![s] = fails]
    BY DEF StepTo
  <1>3. TypeOK' /\ NoneActive'
    BY <1>1, <1>2
       DEF Inv, TypeOK, StmtStates, NoneActive, Operations, handles, Remembers
  <1>4. \A t \in Stmts : (stmt'[t] = "free") <=> (stmt[t] = "free")
    BY <1>2 DEF Inv, TypeOK, Live
  <1>5. owner[s] \in Dbs
    BY DEF Inv, Safe, Owned
  <1> QED
    BY <1>1, <1>3, <1>4, <1>5, OnlyStatement DEF handles

\* Stepping frees nothing, whatever the code it answers.
LEMMA StepInv ==
    ASSUME Inv, NEW s \in Stmts, Step(s)
    PROVE  Inv'
  <1>1. Live(s) /\ UNCHANGED <<conn, owner, kind, param, handles, inTx>>
    BY DEF Step, Passed
  <1>2. /\ Remembers
        /\ autoCommit' \in [Dbs -> BOOLEAN]
        /\ UNCHANGED autoCommit \/ MayRollBack(owner[s])
    BY DEF Step, MayRollBack, Inv, TypeOK, Breaks, Breaches, Remembers
  <1>3. CASE StepTo(s, "row", FALSE, "code")
    BY <1>1, <1>2, <1>3, StepToInv DEF Answers
  <1>4. CASE StepTo(s, "halted", FALSE, "null")
    BY <1>1, <1>2, <1>4, StepToInv DEF Answers
  <1>5. CASE \E answer \in {"exception", "code"} : StepTo(s, "halted", TRUE, answer)
    BY <1>1, <1>2, <1>5, StepToInv DEF Answers
  <1>6. CASE Breaks("fault") /\ StepTo(s, "active", TRUE, "code")
    <2>1. "fault" \in broken'
      BY <1>6 DEF Breaks
    <2> QED
      BY <1>1, <1>2, <1>6, <2>1, StepToInv DEF Answers
  <1>7. CASE Crash("step", "dead content") /\ UNCHANGED <<stmt, failed, autoCommit, broken>>
    <2>1. /\ last' \in [op : Operations, answer : Answers]
          /\ crash' \in Causes /\ crash' = "dead content"
      BY <1>7, CrashType DEF Causes, Operations, StmtOps
    <2>2. TypeOK' /\ NoneActive'
      BY <1>1, <1>7, <2>1 DEF Inv, TypeOK, NoneActive, Operations, handles
    <2> QED
      BY <1>1, <1>2, <1>7, <2>1, <2>2, OnlyStatement DEF handles
  <1> QED
    BY <1>3, <1>4, <1>5, <1>6, <1>7 DEF Step

\* Resetting makes the statement ready, whatever it answers.
LEMMA ResetStmtInv ==
    ASSUME Inv, NEW s \in Stmts, ResetStmt(s)
    PROVE  Inv'
  <1>1. /\ last' \in [op : Operations, answer : Answers]
        /\ crash' \in Causes /\ crash' = crash
    BY AnswerType DEF ResetStmt, LastError, Inv, Operations, StmtOps, Answers
  <1>2. /\ Live(s)
        /\ stmt' = [stmt EXCEPT ![s] = "ready"]
        /\ failed' = [failed EXCEPT ![s] = FALSE]
        /\ UNCHANGED <<conn, autoCommit, owner, kind, param, handles, inTx, broken>>
        /\ Remembers
    BY DEF ResetStmt, Passed, Inv, TypeOK, Remembers
  <1>3. TypeOK' /\ NoneActive'
    BY <1>1, <1>2 DEF Inv, TypeOK, StmtStates, NoneActive, Operations, handles
  <1>4. \A t \in Stmts : (stmt'[t] = "free") <=> (stmt[t] = "free")
    BY <1>2 DEF Inv, TypeOK, Live
  <1> QED
    BY <1>1, <1>2, <1>3, <1>4, OnlyStatement DEF handles

\* Finalizing takes the statement from its connection and from the program
\* in one call, whatever the call answers.
LEMMA FinalizeInv ==
    ASSUME Inv, NEW s \in Stmts, Finalize(s)
    PROVE  Inv'
  <1>1. /\ last' \in [op : Operations, answer : Answers]
        /\ crash' \in Causes /\ crash' = crash
    BY AnswerType DEF Finalize, LastError, Inv, Operations, StmtOps, Answers
  <1>2. /\ stmt' = [stmt EXCEPT ![s] = "free"]
        /\ owner' = [owner EXCEPT ![s] = NoDb]
        /\ kind' = [kind EXCEPT ![s] = "query"]
        /\ failed' = [failed EXCEPT ![s] = FALSE]
        /\ param' = [param EXCEPT ![s] = "own"]
        /\ heldStmts' = heldStmts \ {s}
        /\ UNCHANGED <<conn, autoCommit, heldDbs, inTx, broken>>
    BY DEF Finalize
  <1>3. TypeOK'
    BY <1>1, <1>2 DEF Inv, TypeOK, StmtStates, Kinds, Contents, Operations
  <1>4. Owned' /\ NoOrphanStatement'
    BY <1>2 DEF Inv, TypeOK, Safe, Owned, NoOrphanStatement, Live, Open
  <1>5. NoFreedHandleUsed' /\ NothingUnreachable'
    BY <1>1, <1>2
       DEF Inv, TypeOK, Safe, NoFreedHandleUsed, NothingUnreachable, Live, Open
  <1>6. TransactionsAsBelieved' /\ NoneActive'
    BY <1>1, <1>2 DEF Inv, TypeOK, TransactionsAsBelieved, NoneActive
  <1> QED
    BY <1>3, <1>4, <1>5, <1>6 DEF Inv, Safe

\* Reading a column answers or ends the process at address 0.
LEMMA ColumnTextInv ==
    ASSUME Inv, NEW s \in Stmts, ColumnText(s)
    PROVE  Inv'
  <1>1. /\ last' \in [op : Operations, answer : Answers]
        /\ crash' \in Causes /\ crash' \in {crash, "null column"}
    <2>1. CASE Answer("column_text", "text")
      BY <2>1, AnswerType DEF Inv, Answers, Operations, StmtOps
    <2>2. CASE Crash("column_text", "null column")
      BY <2>2, CrashType DEF Causes, Operations, StmtOps
    <2> QED
      BY <2>1, <2>2 DEF ColumnText
  <1>2. UNCHANGED <<conn, autoCommit, memory, handles, inTx, broken>> /\ Remembers
    BY DEF ColumnText, Inv, TypeOK, Remembers
  <1>3. TypeOK' /\ NoneActive'
    BY <1>1, <1>2 DEF Inv, TypeOK, NoneActive, Operations, memory, handles
  <1> QED
    BY <1>1, <1>2, <1>3, OnlyStatement DEF memory, handles

\* Calls on the null statement touch no object.
LEMMA UseNullStmtInv ==
    ASSUME Inv, UseNullStmt
    PROVE  Inv'
  <1>1. /\ last' \in [op : Operations, answer : Answers]
        /\ crash' \in Causes /\ crash' \in {crash, "null column"}
    <2>1. CASE \E op \in {"bind", "step", "reset", "finalize"},
                  answer \in {"exception", "code", "null"} : Answer(op, answer)
      BY <2>1, AnswerType DEF Inv, Answers, Operations, StmtOps
    <2>2. CASE Crash("column_text", "null column")
      BY <2>2, CrashType DEF Causes, Operations, StmtOps
    <2> QED
      BY <2>1, <2>2 DEF UseNullStmt
  <1>2. /\ UNCHANGED <<conn, autoCommit, memory, heldDbs, inTx, broken>>
        /\ heldStmts' \in {heldStmts, heldStmts \ {NullStmt}}
    BY DEF UseNullStmt
  <1>3. TypeOK'
    BY <1>1, <1>2 DEF Inv, TypeOK, Operations, memory
  <1>4. Safe'
    BY <1>1, <1>2, HandlesAssumption
       DEF Inv, Safe, Owned, NoOrphanStatement, NoFreedHandleUsed, NothingUnreachable,
           Live, Open, memory
  <1>5. TransactionsAsBelieved' /\ NoneActive'
    BY <1>1, <1>2 DEF Inv, TransactionsAsBelieved, NoneActive, memory
  <1> QED
    BY <1>3, <1>4, <1>5 DEF Inv

-----------------------------------------------------------------------------
(* The theorems.                                                           *)

\* Every call preserves the invariant.
LEMMA InvNext == Inv /\ [Next]_vars => Inv'
  <1> SUFFICES ASSUME Inv, [Next]_vars PROVE Inv'
    OBVIOUS
  <1>1. CASE \E d \in Dbs : OpenDb(d) \/ CloseDb(d) \/ Exec(d) \/ LastInsertRowid(d)
    BY <1>1, OpenDbInv, CloseDbInv, ExecInv, LastInsertRowidInv
  <1>2. CASE \E d \in Dbs : Begin(d) \/ Commit(d) \/ Rollback(d)
    BY <1>2, BeginInv, CommitInv, RollbackInv
  <1>3. CASE \E d \in Dbs : BeginOrCommitFaults(d) \/ UseFreedDb(d)
    BY <1>3, BeginOrCommitFaultsInv, UseFreedDbInv
  <1>4. CASE \E d \in Dbs, s \in Stmts, k \in Kinds : Prepare(d, s, k)
    BY <1>4, PrepareInv
  <1>5. CASE \E s \in Stmts : Step(s) \/ ResetStmt(s) \/ Finalize(s)
    BY <1>5, StepInv, ResetStmtInv, FinalizeInv
  <1>6. CASE \E s \in Stmts : ColumnText(s) \/ UseFreedStmt(s)
    BY <1>6, ColumnTextInv, UseFreedStmtInv
  <1>7. CASE \E s \in Stmts, content \in Contents : Bind(s, content)
    BY <1>7, BindInv
  <1>8. CASE UseNullStmt
    BY <1>8, UseNullStmtInv
  <1>9. CASE UNCHANGED vars
    BY <1>9 DEF vars, memory, handles, Inv, TypeOK, Safe, Owned, NoOrphanStatement,
                NoFreedHandleUsed, NothingUnreachable, TransactionsAsBelieved,
                NoneActive, Live, Open
  <1> QED
    BY <1>1, <1>2, <1>3, <1>4, <1>5, <1>6, <1>7, <1>8, <1>9 DEF Next

\* The inductive invariant holds in every state of every run.
THEOREM Invariance == Spec => []Inv
  BY InvInit, InvNext, PTL DEF Spec

\* Objects, handles and answers keep their types.
THEOREM TypeCorrect == Spec => []TypeOK
  BY Invariance, PTL DEF Inv

\* sqlite3_close_wrapper never leaves a statement without its connection,
\* for a program that passes any address it likes.
THEOREM NoOrphans == Spec => []NoOrphanStatement
  <1>1. Inv => NoOrphanStatement
    BY DEF Inv, Safe
  <1> QED
    BY <1>1, Invariance, PTL

\* A program that passes only the handles it was given, and forgets them when
\* close succeeds and when finalize answers, never reaches freed memory.
THEOREM HandlesAreLive == Spec => []NoFreedHandleUsed
  <1>1. Inv => NoFreedHandleUsed
    BY DEF Inv, Safe
  <1> QED
    BY <1>1, Invariance, PTL

\* The program still holds every connection and statement it opened.
THEOREM NothingLost == Spec => []NothingUnreachable
  <1>1. Inv => NothingUnreachable
    BY DEF Inv, Safe
  <1> QED
    BY <1>1, Invariance, PTL

\* No fault leaves a transaction open behind the program's back, and up to
\* the first fault a program that begins, commits and rolls back in turn knows
\* whether one is open and none of the three kills the process.
THEOREM Transactions == Spec => []TransactionsAsBelieved
  <1>1. Inv => TransactionsAsBelieved
    BY DEF Inv
  <1> QED
    BY <1>1, Invariance, PTL
=============================================================================
