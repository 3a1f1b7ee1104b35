# sqlite3dart: a verification development

`sqlite3dart` lets Dart programs call SQLite. A Dart function sends a message to
a native port, a native thread runs a C wrapper around one SQLite function and
posts the result to the reply port of the call, and the isolate's event loop
completes a `Future` or feeds a `Stream`. Programs share a database through
SQLite's file locks and rollback journal, which are compiled into the extension.
This directory holds TLA+ models of that system, the TLC configurations that
check them, and proofs checked by TLAPS.

Paths below are relative to the root of the repository.

## 1. Inventory

| Component | State | Operations | Interacts with |
|---|---|---|---|
| Asynchronous bridge (`src/sqlite3dart_extension.c`, `sqlite3dart/lib/src/sqlite3.dart`, `sqlite3_convenience.dart`, `sqlite3dart/lib/sqlite3dart.dart`) | `_receivePort`, queues of native and reply ports, open reply ports, completers and stream controllers | load the library, `get_receive_port`, send, `messageHandler`, reply handlers | wrappers (table of function pointers), the VM's ports |
| Wrappers (`src/sqlite3dart_api_wrappers.c`) | `_execRowIndex`, `_dynpointers[0]` | 20 wrappers, two callbacks of `sqlite3_exec`, `mountException` | SQLite; post to the reply port from inside a callback |
| Connections, statements, transactions | `sqlite3`, `sqlite3_stmt`, `autoCommit`; the program keeps their addresses as integers | open, close, exec, prepare, bind, step, reset, finalize, column_text, begin, commit, rollback, last_insert_rowid | the program passes raw addresses back |
| `table_exists` | the order of `sqlite_master` | query with a callback that posts and aborts | two replies for one call |
| Row text | one string per row | `sqlite3_exec_callback2` writes, `parseExecRow` reads | C bytes against Dart UTF-16 |
| Dynamic buffer (`src/sqlite3dart_core.c`) | `size`, `pointer` | `new_dynp`, `del_dynp` (no caller) | every text the wrappers post |
| Locks between connections (`src/sqlite3/sqlite3.c`, os_unix.c) | `unixFile.eFileLock`, `unixInodeInfo` (`eFileLock`, `nShared`, `nLock`, `pUnused`), what the kernel has granted each process | `unixLock`, `posixUnlock`, `unixCheckReservedLock`, open, `unixClose`, death of a process | connections of one process share the inode; processes meet in the kernel |
| Transactions on a file (`src/sqlite3/sqlite3.c`, pager.c) | `Pager.eState`, `eLock`, cache, `dbFileVers`; database file, journal file, what is durable of both | shared lock with hot-journal recovery, get, write, spill, commit, rollback, playback; death of a process, power loss | the locks; other connections through the files |
| Dart data types, constants (`sqlite3dart/lib/src/Sqlite*.dart`) | immutable | constructors, `toString` | rows |
| First-generation API (`src/sqlite3dart_api.c`, `sqlite3dart_api_async.c`, `sqlite3dart_old_extension.c`) | unreachable: its `Init` is commented out | | |
| The rest of the SQLite amalgamation (`src/sqlite3`) | vendored 3.30.1 | | |

What is hard here:

- **Concurrency.** The globals have no lock. What protects them is that the VM
  runs one handler of a native port at a time, and that a program with one
  isolate makes one native port. With two isolates neither holds.
- **Ordering.** Rows, the final `null`, exceptions and the extra bool of
  `table_exists` travel over one reply port; the handler closes it at the first
  final message, and everything after it is dropped.
- **Late reading.** A result that is a string is a pointer into the shared
  buffer, read only when the message is posted; text that was bound is a pointer
  into a message that is freed before the statement is stepped.
- **Failure.** Failing `begin`, `commit` and `rollback` reach `strlen(NULL)`;
  a failing statement may roll back the transaction the program believes in;
  `finalize` reports an error after it has freed the statement.
- **Sizes.** A row is measured before its index is incremented and without its
  last two bytes; values are counted in bytes and read in UTF-16 units.
- **Shared files.** POSIX locks belong to a process: connections of one process
  share them by counting, several system calls make one lock, and closing any
  descriptor gives all of them back.
- **Crashes.** The wrappers end the process in the middle of transactions (a NULL
  message, a NULL column), and power may fail: what the file is worth then
  depends on the order of writes and syncs of journal and database, and on three
  looks at the file system that decide whether a journal is hot.

What makes each component correct: calls are answered exactly once, in order,
with their own data (bridge); handlers exclude each other (wrappers); the
program's handles are exactly the live objects, and its view of transactions is
SQLite's (connections); no false positive and no leaked abort (`table_exists`);
a row is read back as it was written (row text); what is written fits (buffer);
readers share, one connection prepares a write, whoever changes the file is alone
(locks); a file shows one committed version at a time, whatever dies
(transactions).

## 2. Modules

| Module | What it is |
|---|---|
| `OrderedService` | Abstract: a queue of calls, each answered once, in order, with its own rows and error |
| `Bridge`, `MCBridge` | Isolates, native ports, handlers, shared globals, reply ports. Implements `OrderedService` for one isolate |
| `Bridge_proofs` | Theorems about `Bridge` |
| `Handles`, `MCHandles` | Connections, statements and transactions for a program that awaits each call |
| `Handles_proofs` | Theorems about `Handles` |
| `TableExists` | The callback, its two replies, the handler |
| `TableExists_proofs` | Theorems about `TableExists` |
| `RowCodec`, `MCRowCodec` | Characters of a row, written and parsed |
| `RowCodec_proofs` | Theorems about `RowCodec` |
| `RowBuffer` | Sizes of the buffer |
| `RowBuffer_proofs` | Theorems about `RowBuffer` |
| `Recursion` | Induction over numbers, and what the folds and recursive functions of `RowCodec` and `RowBuffer` are |
| `LockLevels` | The five levels of os.h |
| `FileLocks` | Abstract: what the five levels promise the connections to one file |
| `UnixLocks`, `MCUnixLocks` | POSIX locks, inodes and descriptors of several isolates and processes. Implements `FileLocks` until a close drops locks |
| `UnixLocks_proofs` | Theorems about `UnixLocks` |
| `Store` | Abstract: a file as one committed version and the copy its writer changes |
| `Pager`, `MCPager` | Cache, rollback journal and recovery of two connections; uses `FileLocks`, implements `Store` |
| `Pager_proofs` | Theorems about `Pager`, and about `FileLocks`, which it uses |

How they fit together: `Bridge` says that with one isolate wrappers do not
overlap, which `Handles` assumes; that an isolate's calls run one after the other
is also what `UnixLocks` assumes. `UnixLocks` shows that os_unix.c amounts to
`FileLocks`, and `Pager` makes transactions out of the actions of `FileLocks`
(`Locks!Share`, `Locks!Exclude`, ...), not of the system calls. What contention
does to a program -- SQLITE_BUSY -- is in `Handles` an answer at will, and the
death it leads to is `Die` of `Pager`.

### Bridge

State and code: `receivePort` is `_receivePort`; `dynpointer` is the text in
`_dynpointers[0]`; `execRowIndex` is `_execRowIndex`; `queue` and `busy` are a
native port's messages and the handlers that run for it; `inbox` holds what
waits in an isolate's event loop; `replyOpen` says which `RawReceivePort`s are
open; `received` and `outcome` are what the handler has done to the completer or
stream controller. `pc` is how far each request has got: `create`/`send` in the
isolate, `queued`, then the steps of its handler.

A call is one message, so a request is made once. The steps are the places where
another thread can come between: the test of `_receivePort` and its assignment;
entering `sqlite3_exec` (which needs the mutex of the connection), the index of
a row, its columns, its post, the return; `mountException`; the reply. Within
a step the code's assignments happen together. When two isolates run, C gives
the racing accesses no meaning at all: a text may be torn more finely than the
model shows, so nothing about texts is claimed for two isolates except that
one of the shown interleavings already breaks `RowStartsWithItsIndex`.

A text is where its pieces come from: the index or prefix it starts with and the
column groups appended to it, each named by the request and the row it belongs
to. `IsException` is the prefix test of `sqlite3_core.dart`; a text that is
neither an exception nor a row makes `parseExecRow` throw, which changes nothing.

Three errors have no answer, because the handler reads a string at address 0:
`begin`, `commit` and `rollback` give `mountException` a NULL message when SQLite
refuses them (`src/src/sqlite3dart_api_wrappers.c:493`, `515`, `540`), the callback
takes the length of a NULL column (`83`), and the text of a NULL column is posted
(`465`). `EndProcess` is these three: the request goes to `"ended"`, and then nothing
runs any more, in any isolate or thread (`Running`). So `"transaction"` is a
shape of call of its own; the exception it can answer with is that of an invalid
handle. What faults and NULLs it takes for a program to get there is in `Handles`.

A buffer that `LoadLibrary` has just replaced is empty (`Zeroed`): an exec that
posts it makes `parseExecRow` add an empty row, and `table_exists` runs an empty
statement, which succeeds without a row.

External, modelled from how the code uses it: `Dart_PostCObject` (copies the
message; a closed port takes none), FIFO ports, one worker per native port.
`get_receive_port` passes `handle_concurrently = true`, which the VM ignores;
`ConcurrentHandlers` is that assumption as a constant, FALSE in every run.

### Handles

Each action is one awaited call. `conn`, `autoCommit`, `stmt`, `failed` are
SQLite's; `heldDbs`, `heldStmts`, `inTx` are what the program believes from
the answers; `crash` is what ended the process; `last` is the last answer.

The program is any program: it may pass any address and begin or end
transactions in any order, and SQLite may report any fault. `broken` remembers
which rules were broken: `"handle"` (an address was passed that the
program does not hold), `"order"` (a transaction was begun in one, or ended
outside one), `"fault"` (busy, out of space, an I/O error, a statement that
rolled back). The properties say what holds until the rule they rest on is broken.
What happens in freed memory is undefined: the model ends there (`UseFreed`,
crash `"freed handle"`). A program is taken to drop the handle of a statement
whatever `finalize` answers: the wrapper reports the error of the last step by an
exception after the statement was freed, and a program that took this for a failure
and tried again would break the rule `"handle"`. That the error can be mistaken so is
a hazard no property covers. Addresses are used again: an opened object takes any
free address. The program stops for good when the process ends, hence
`CHECK_DEADLOCK FALSE`.

### TableExists, RowCodec, RowBuffer

`TableExists` keeps the order of `sqlite_master`, since only its first entry is
compared.

`RowCodec` starts from every row of any `Indexes` and of at most `MaxColumns`
columns with any `Names` and `Values` over its `Units`, encodes it in the initial
state and parses it turn by turn. `rowIndex` is `_execRowIndex`, `rowId` what
`parseExecRow` takes it for; `startIndex` and `row` are its variables. `Decimal`
is `snprintf` and `ParseInt` is `int.parse`, both over digits, so that sizes of
more than one digit are written and read as the code does. A unit is a character
of the Dart string; all units take one byte of UTF-8 except one that stands for
every character that takes more bytes than units. `ReadBack` asks for the very
columns that were written, not only for a map with the same entries: with short
values alone a row that was parsed wrongly can have the right map by accident.
The parser stops when it is done, and `RowBuffer` when the bound on the index is
reached, hence `CHECK_DEADLOCK FALSE`.

### FileLocks and UnixLocks

`FileLocks` is what os.h promises: `lock[c]` is a level, `reserved` who holds the
right to prepare a write. Two of its actions say more than the comment in os.h
(`src/src/sqlite3/sqlite3.c:15957`). `Share`: while a connection is PENDING a
reader may still join another reader, because connections of one process share
what the process was granted; a process that always reads can keep every writer
out, and nothing in the source promises otherwise. `FileLocks` knows no processes, so
it grants this to readers of other processes too, which is more than os.h and more
than `UnixLocks` ever does; exclusion does not depend on it. `Pend`: a connection may go
to PENDING without RESERVED, which is how a hot journal is rolled back.

`UnixLocks` is one action per system call. `level[c]` is `unixFile.eFileLock`,
`inodeLock`, `nShared`, `nLock`, `unused` the fields of the `unixInodeInfo` of a
process, `kernel[p][b]` what `fcntl` has granted process `p` on the pending byte,
the reserved byte and the shared range. `unixLock(SHARED)` is `JoinShared`
(another connection of the process has the lock) or `ReadPending`, `ReadRange`,
`DropPending`; `unixLock(EXCLUSIVE)` is `WritePending`, `WriteRange`;
`posixUnlock` is `Downgrade`, `DropBytes`, `Release`. The mutex of the inode
keeps other connections of the process out between them, other processes come
between any two. Closing is `Close` (the test of `nLock`, under the mutex) and
`CloseFd` (the close, after it was given back); `dropped` remembers which
processes lost locks by it. `Die` takes a whole process. Calls that return
SQLITE_BUSY at their first step change nothing and are not shown. `MayCall` takes
the calls of one isolate to run one after the other. That is what one native port
gives; an isolate whose calls went to two native ports, because another isolate made
a second one, could have two under way, and counts here as two isolates.

### Store and Pager

`Store` has a committed version, the version a power loss may go back to, what
each connection sees, and at most one writer. `Pager` implements it. Each
connection has its `eState`, its cache with the dirty pages, the change counter
its cache belongs to (`vers`), and `pc`, where a call stands between two
accesses to files. The files are what programs see (`file`, `recs`, `nRec`) and
what is durable of it (`disk`, `unsynced`, `safe`, `safeRec`, `linked`).

Modelled as the library uses it: `journal_mode=DELETE`, `synchronous=FULL`,
connections of different processes, one database file that keeps its size. A
page holds the number of the transaction that wrote it, page 1 the change
counter. `Die` ends a process between any two steps. `PowerLoss` keeps of each
page the durable content, the written one or a torn one, of the journal any
prefix of its records beyond the durable ones, either count in its header, and
the file itself only if its name is durable; a journal that was deleted without a
sync of the directory may return (`undead`), and takes back the last commit.
Records carry checksums in the code; here a damaged record is the end of the
prefix. The header fits in a sector and is written whole.

## 3. Runs

| Run | Question | Bounds |
|---|---|---|
| `bridge_one` | One isolate that never awaits: mutual exclusion, rows intact, none lost, answers final, refinement of `OrderedService` | 3 requests, 2 rows each, 1 connection, native port may fail |
| `bridge_two` | Two isolates: ports made, handlers return and calls settle unless the process ends, answers final | 2 requests, 1 row each, 2 ports, one shared connection |
| `handles` | Any program, any fault: handles, statements and transactions until the rule they rest on is broken | 2 connections, 2 statements, NULL columns |
| `table_exists` | True is true, the abort stays hidden | 3 names, 3 tables |
| `row_codec` | Which rows survive | 2 columns, names of up to 1 unit, values of up to 2 and two values of 10, indexes of 1 and 2 digits |
| `row_buffer` | How far the measure is off, with three bytes only where the index gains a digit | rows 0 to 11, 2 columns, buffer of 8 bytes |
| `unix_locks` | POSIX locks implement the five levels until a close drops locks; one isolate per process never drops them; hot-journal detection sees RESERVED | 2 processes, 3 isolates, 4 connections |
| `pager` | A file behaves as one atomic store through spills, rollbacks, deaths and power losses | 2 connections, 3 pages, caches of 2, 2 write transactions |

Why these bounds. In `bridge_one` a handler, a queued message and a message in
the isolate's inbox exist at the same time, and two rows make the index grow;
in `bridge_two` two requests suffice for both isolates to be in
`get_receive_port` together and for two handlers to run in parallel. In
`handles` two addresses show reuse and confusion of objects. `row_buffer`
passes the index from one digit to two (9 to 10) and value sizes from 9 to 10,
and wraps from the largest index to 0; `row_codec` has every separator in names
and in values, a digit, a two-byte character, empty texts, equal names, and values
whose size takes two digits.
`unix_locks` has a process whose connections share one isolate and a process
with two isolates: locks shared by counting, locks between processes, and the
race of a close with a lock are all there. In `pager` a cache of two pages, one
of which is page 1, makes any second page spill; two data pages make a
transaction that is half written; two transactions let a rolled-back counter
value come again, and a stale journal meet a newer file. The same model was
also checked with 2 pages and 3 transactions, and with caches of 3 pages.

Runs that end in a violation show disagreements between the code and what it,
its comments or the SQLite interface say:

| Run | What happens |
|---|---|
| `bridge_mixed_rows` | Two isolates, two native threads: a row starts with the index of another query |
| `handles_rollback` | A statement fails and rolls back; the program's `rollback` fails; `mountException(result, NULL)` ends the process |
| `table_not_found` | A table that is not first in `sqlite_master` is reported missing |
| `unix_close` | `unixClose` finds no lock and gives the mutex back; another isolate of the process locks the file; the close drops that lock, against the comment above the test |

Three more disagreements are in the models as what the code does, without a run
of their own, since one line shows each: a failed `sqlite3_open` leaves an object
nobody closes (`conn` is `"sick"`), bound text lives in a message that is freed
when the handler returns (`param` is `"message"`), and `isInvalidHandle` accepts
every address (`UseFreed`).

### Fairness

`FairSpec` of `Bridge` assumes weak fairness of each isolate's step inside a
call, of its event loop, of each native port's worker and of each handler: the
VM schedules the threads of isolates and workers while there is a process (every
condition is `WF_vars(Running /\ ...)`). Nobody has to load the library or to call,
and nothing has to end the process. The process may end at each of the three places
of `EndProcess`, so `EveryHandlerReturns` and `EveryCallSettles` name its end as the
alternative: they say that nobody waits for ever in a process that goes on. That
the process really is ended by a failing rollback is what `handles_rollback` shows. A handler that waits for the mutex of a connection needs no strong
fairness within a run, since each request holds it once. `EveryCallSettles` is
conditional on one loaded isolate: a second one may overwrite the text of an
exception before it is posted, and such an answer completes nothing.
`ParserAdvances` of `row_codec` is an action property and needs no fairness.
Nothing is claimed to happen eventually of locks and transactions: SQLite answers
SQLITE_BUSY at once (the library sets no busy handler), and whether to try again
is the program's decision.

## 4. Proofs

Every theorem holds for every value of the constants that the named assumption of
its module allows, finite or (but for `UnixLocks`, whose counters count
connections, and `OnePortForEach`, which counts isolates) infinite.

`Bridge_proofs`, from `BridgeAssumption`:

- **`TypeCorrect`**: `Spec => []TypeOK`.
- **`AnswerIsFinal`**: `Spec => AnswerFinal`, with any number of isolates.
- **`OneHandlerAlone`**: `Spec => []OneHandler` when there is one isolate and the
  VM runs one handler of a port at a time.

- **`RowsStayIntact`**, **`NoRowIsLost`**: `Spec => []RowsIntact` and
  `Spec => []NoRowLost`, on the same conditions.
- **`ServiceImplemented`**: `Spec => ServiceSpec`, the refinement of
  `OrderedService`, on the same conditions.
- **`OnePortForEach`**: `Spec => []OnePortEach` for any finite number of isolates,
  as long as `Dart_NewNativePort` does not fail.

`TypeOK` alone is not inductive: the handler of a request uses `call[r]`, and a
reply may only be for a request that was sent. `Inv` adds `OnlySent` (what waits
in a queue or an inbox belongs to requests whose message has been sent) and
`SettledClosed` (an answered request was sent and its reply port is closed).
`AnswerIsFinal` follows: only a reply handler changes what an answered request
has, and it runs only for an open port; `SettledClosed` needs `OnlySent`, because
`Call` opens a port, and must not do so for a request that has an answer.
`OneHandlerAlone` rests on `Alone`: a handler is in `busy` of the port stored
now; a port has one handler; no other port has been given anything; the isolate
makes a port only while there is none, and has one call under way. With two
isolates the last two fail, and with them `OneHandler`.

The theorems about rows add what the messages in the inbox carry: each the number
of the row to be received next, or the one after the message before it; and, of
the request whose handler runs, that its last message is the last row posted.
With one handler at a time nothing of another request comes in between.

For the refinement `Order` says why answers come in the order of the calls: the
queue holds the last calls asked (`RestOf`), all before them but one are replied
(`Turns`), the messages in the inbox are in the order of their calls (`Arrived`),
and a replied call without an answer has its last message there (`Final`). So the
open call whose message is next is the first without an answer (`FirstPending`).
`pending` of `OrderedService` is the rest of `asked` from that call on. Sending is
`Ask` or `Refuse`, a row is `GiveRow`, a last message `Complete` or `Fail`.

`OnePortEach` needs `Made`: the ports made and the isolates that have found none
and are about to make one are together no more than the isolates that called.

`Handles_proofs`, from `HandlesAssumption`, for any program and any fault:

- **`TypeCorrect`**, **`NoOrphans`**, **`HandlesAreLive`**, **`NothingLost`**,
  **`Transactions`**: `TypeOK`, `NoOrphanStatement`, `NoFreedHandleUsed`,
  `NothingUnreachable` and `TransactionsAsBelieved` hold in every state of `Spec`.

The invariant is the five properties and two more. `Owned`: a live statement
has an owner among the connections. `NoneActive`: until a fault no statement
is left running by a step; a running insert makes `commit` fail, so
`TransactionsAsBelieved` is not inductive without it. The five rest on each
other: `CloseDb` may free a connection because `HasStatements` sees every
statement of it; `Finalize` takes the statement and the handle away in one call,
whatever it answers (an assumption on the program, see Handles above), so `NoFreedHandleUsed` and `NothingUnreachable` survive an
exception. Actions that touch only transactions, and those that only move a
statement, are proved through one lemma each (`OnlyTransaction`, `OnlyStatement`).

`UnixLocks_proofs`, from `UnixLocksAssumption`:

- **`TypeCorrect`**: `Spec => []TypeOK`.
- **`LocksSurviveClose`**: `Spec => []OneIsolateKeepsLocks`.
- **`CountersExact`**: `nShared` is the number of connections of the process that
  hold a lock, `nLock` follows it, and the inode is unlocked exactly when both are
  0.

The invariant speaks of each process by itself (`Local`): the counters count
(`Counted`); one connection is between two system calls (`OneInside`), and what
it has found still holds (`Within`); nothing is granted to a process whose
counter is 0 and that is not inside a call (`Quiet`); and where one isolate uses
the process, the counter `unixClose` has seen to be 0 is still 0 when it closes
(`Closing`), so that there is nothing to drop. One lemma (`Elsewhere`) says that
a step of one process leaves the others alone. That the count of waiting
descriptors stays within its bound needs `Waiting`: a process has no more of them
than connections that were closed, since each close adds one of both. It is part of
`TypeOK`.

Then, on the same assumption:

- **`ExclusionHolds`**: `Spec => []Exclusion`, until a close has dropped locks.

Between processes the kernel excludes (`Kernel`), within a process it never
refuses: there it is the level of the inode and the number of its readers. So the
invariant ties the level and the stage of each connection to what the kernel has
granted its process and to the counters (`Exact`), says that one connection of a
process holds more than SHARED (`Upper`), and that outside the process of an
exclusive connection nobody has a read lock (`Alone`). `Apart` derives the four
clauses of `Exclusion` from it, by cases on one process or two.

- **`LocksImplemented`**: `Spec => LocksKept`, the refinement of `FileLocks`.

The invariant gains `Warranted`: the reserved byte is granted only to a process
whose inode says more than SHARED. One lemma per system call says which step of
`FileLocks` it is: joining a reader or giving back the pending byte is `Share`,
`Reserve` is `Reserve`, `WritePending` and `WriteRange` are `Pend` or `Exclude`,
`DropBytes` and `Release` are `Lower`, a death is `Die`; the others are none. The
hard one is `WriteRange`: that the kernel granted the write lock on the range
must mean that no other connection, in any process, holds anything.

- **`ReservedIsReported`**: `Spec => []ReservedReported`, from the same invariant.

That a writer is seen follows from the invariants above; that what is seen is a
writer needs `Backed`: a level of the inode above SHARED is always the level of
one of its connections, although several system calls lie between the two.

`TableExists_proofs`, from `TableExistsAssumption`: **`TypeCorrect`**,
**`TrueMeansThere`** (`Spec => []TrueIsTrue`) and **`AbortStaysHidden`**
(`Spec => []AbortHidden`). An answer is a reply that waited, so the invariant
(`Waiting`) says of each waiting reply what the properties say of an answer, and
that the exception of the abort waits behind the bool or finds the port closed.

`Pager_proofs`, from `PagerAssumption`, for any number of connections, pages and
write transactions and any size of the caches:

- **`WriteAheadHolds`**: `Spec => []WriteAhead`.
- **`CachesAreTrusted`**: `Spec => []CacheTrusted`.
- **`StoreImplemented`**: `Spec => StoreSpec`, the refinement of `Store`.
- **`TypeCorrect`**: `Spec => []TypeOK`.
- **`LocksUsed`**: `Spec => Locks!Spec`: what `Pager` does with locks is what
  `FileLocks` allows.
- **`LocksExclude`**: `Locks!Spec => [](Locks!TypeOK /\ Locks!Exclusion)`, the promise of
  `FileLocks` itself. Its invariant adds that who is RESERVED is in `reserved`,
  which one connection is at a time.

Everything is said in terms of `Recovered`, what a rollback of the journal would
make of the file now. The invariant says that it is what a reader sees; that
a cache which is clean is of the version its counter names, and that no two
versions have one counter; that the journal holds the original of each page of
the file or the disk that differs from `Recovered` and of each page a writer has
changed; and, for each stage of a call, which of the syncs before it are done.
Then `Recovered` is the same before and after each step of anyone, a torn page
after a power loss included, except the one that deletes the journal of a commit,
which happens when nobody else has a lock; `StepOf` is the form in which each
action's lemma says so. `WriteAhead` and `CacheTrusted` are read off the
invariant. What the proof needs of `Restore` are facts about single pages, by
the records' pages being distinct.

For the refinement the invariant gains `Lasting` (a page not written since the
last sync is on the disk as it is in the file, and while there is a journal no
older one can come back), `Sees` (readers, and writers that have changed
nothing, see `Recovered`) and `OneWriter` (a RESERVED lock makes the writer the
only one). One lemma per action says which step of `Store` it is. The hard ones
are the deletion of the journal, which is the commit and leaves the version
before it to fall back to, and the power loss, which ends in `Recovered` or in
that version, whatever part of the unsynced pages reached the disk.

`TypeCorrect` says more than it seems, because every content is bounded by
`MaxTx`, which stands for no limit of the code: if a step could reach the bound, a
power loss or a commit would be cut off there unnoticed. `Counter` shows that it
cannot. Every transaction is counted when it begins, a commit adds one to the
change counter, and while there is a writer the committed counter is below the
count; so neither the committed version nor the one a power loss may return to
ever passes it. It needs the refinement: only a step of `Store` says where the
version before came from.

`RowBuffer_proofs`, from `RowBufferAssumption`, for any lengths, any number of
columns and rows, and any number of index values above 100:

- **`TypeCorrect`**, **`AtMostThreeShort`** (`Spec => []ShortByThree`),
  **`FirstRowAlwaysFits`** (`Spec => []FirstRowFits`).

A row is never more than two bytes short, its newline and the NUL, except where its
index has a digit more than the one before (`GainsDigit`), which makes it three. The
three properties together are inductive. What they need is arithmetic: `sizeOfInteger`
gives an index at most one digit more than the index before it, and three or more
to the index -1 with which the first row is measured (`DigitsOf`).

`RowCodec_proofs`, from `RowCodecAssumption`, for any names, values, indexes and
number of columns:

- **`TypeCorrect`**: `Spec => []TypeOK`.
- **`RowsSurvive`**: `Spec => []ReadBackIffCarried`.
- **`LoopAdvances`**: `Spec => ParserAdvances`.

The text is described by the places where its columns begin (`IsLayout`). The
parser is `OnTrack`, at the beginning of a column, with all columns before it read
as they were written; or it is `Lost`, having passed a column that the format
cannot carry and read it differently or thrown. It never gets back: columns that
were added are not removed. `CarriedIsRead` shows one turn of the loop over a column
that can be carried to end exactly at the next; it needs that `int.parse` gives
back what `snprintf` printed (`ParseIntDecimal`), that the first equals sign and
colon are those of the format, and that a comma, a colon or an equals sign in the
value is not looked at. `OtherIsAltered` shows that a column that cannot be carried
is never read as it was.

`Recursion` is what both rest on. The library's induction theorems take a predicate
as a parameter, which the provers cannot instantiate; stated about the set
{n : P(n)} instead they follow from < being well founded on the numbers. A
recursive function is defined by CHOOSE, so it is first shown that some function
satisfies the equation: `FoldExists` for folds over sequences, `TenthsExist` for
recursion over decimal digits.

Only model-checked: liveness (`EveryHandlerReturns`, `EveryCallSettles`), which
needs ENABLED and is out of the prover's reach; and that the four properties of
the runs that end in a violation fail, which a counterexample shows once and for all.

## 5. Plan

Done, in this order: the bridge, handles, `table_exists`, row text, buffer; the
locks between connections with their abstract specification; transactions on a
file with deaths and power losses; theorems about the bridge, the handles,
`table_exists`, row text, buffer, both levels of the locks and the pager, with the
refinements of `OrderedService`, `FileLocks` and `Store`. Every safety property that a
run checks and that holds is proved.

Left, in the order of what it would add:

1. `Pager` for connections of one process, on `UnixLocks` directly, so that a
   lock lost by `unixClose` shows what it does to the file.
2. `Values`: widths of bound parameters and column values, including the members
   of the union that are read.

## 6. Not modelled

- The first-generation API (unreachable), Dart data types and constants (no
  state), the build, the example and the test.
- The messages' shape: `messageHandler` prints and goes on when a message is not
  an array of at least two, which no function of the library sends.
- SQL given to `sqlite3_exec` is assumed to hold no transaction statement; the
  transaction functions are modelled on their own. The widths and contents of
  bound values.
- Of the pager: other journal and synchronous modes (a program can only set them
  by a PRAGMA), `BEGIN EXCLUSIVE`, savepoints, master journals of attached
  databases, WAL, shared cache, files that grow or shrink, a first page that is
  not there yet, I/O errors other than death, record checksums as numbers, and the
  wrap of the 32-bit change counter.
- Of the locks: the variants of os_unix.c other than POSIX advisory locks, and
  Windows; I/O errors of `fcntl`. In `Pager` a lock is refused only when a
  connection's level forbids it, not because of a system call of another process that
  is half way; such a refusal is SQLITE_BUSY and leads to states that are reached
  anyway.
- The rest of SQLite: parser, code generator, virtual machine, B-trees, virtual
  tables. The amalgamation is 225,000 lines of vendored code; what of it decides
  the behaviour of this library when files are shared is modelled, the rest is
  assumed to do what the wrappers rely on. For this reason the models cover a
  small share of all lines, and most of the library's own code.
