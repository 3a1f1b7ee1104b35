------------------------------- MODULE Bridge -------------------------------
(***************************************************************************)
(* The asynchronous bridge between Dart isolates and SQLite.               *)
(*                                                                         *)
(* A Dart function (sqlite3.dart, sqlite3_convenience.dart) opens a reply  *)
(* port, asks get_receive_port() for the native port, sends one message    *)
(* and returns a Future or a Stream.  A native thread runs messageHandler  *)
(* (sqlite3dart_extension.c) for each message of a native port, which      *)
(* calls a wrapper (sqlite3dart_api_wrappers.c) and posts replies.  The    *)
(* isolate's event loop hands the replies to the handler of the reply      *)
(* port.                                                                   *)
(*                                                                         *)
(* Shared by all native threads: _receivePort, _execRowIndex and the       *)
(* buffer _dynpointers[0], without a lock.  A SQLite connection has a      *)
(* mutex, which sqlite3_exec holds across its callbacks.                   *)
(*                                                                         *)
(* A text is abstracted to where its pieces come from: a row is the index  *)
(* written at its start followed by the column groups appended to it.      *)
(* RowCodec models the characters, Handles what the operations do to       *)
(* connections and statements.                                             *)
(*                                                                         *)
(* Three errors reach no reply: the handler reads a string at address 0    *)
(* and the process ends with all its isolates and threads (EndProcess).    *)
(* What SQLite does to a handle that was freed is not in this module.      *)
(***************************************************************************)
EXTENDS Integers, Sequences, FiniteSets

CONSTANTS
    Isolates,            \* Dart isolates that import the library
    Ports,               \* identities Dart_NewNativePort can return
    ILLEGAL_PORT,        \* the value of _receivePort before any port exists
    Requests,            \* calls of the API, each made once
    Conns,               \* SQLite connections
    NoCall,              \* the call record of a request not made yet
    NoRequest,
    MaxRows,             \* bound: rows one exec produces
    IndexSpace,          \* number of values of _execRowIndex (2^64 in the code)
    ConcurrentHandlers,  \* does the VM honour handle_concurrently = true?
    NativePortMayFail    \* can Dart_NewNativePort return ILLEGAL_PORT?

ASSUME BridgeAssumption ==
    /\ ILLEGAL_PORT \notin Ports
    /\ NoRequest \notin Requests
    /\ MaxRows \in Nat
    /\ IndexSpace \in Nat /\ IndexSpace > MaxRows
    /\ ConcurrentHandlers \in BOOLEAN
    /\ NativePortMayFail \in BOOLEAN

(* The shapes a call can have.  "simple": one reply, a value or an         *)
(* exception (open, close, prepare_v2, step, reset, bind_*, finalize).     *)
(* "transaction": the same, of begin, commit and rollback, which pass      *)
(* mountException a NULL message when SQLite fails.  "text": one reply, a  *)
(* string that is not looked at (column_text).  "exec": rows, then null or *)
(* an exception.  "table_exists": a bool from the callback, then the       *)
(* result.                                                                 *)
Ops == {"simple", "transaction", "text", "exec", "table_exists"}

Calls == [isolate : Isolates, op : Ops, conn : Conns]

VARIABLES
    receivePort,   \* _receivePort
    created,       \* native ports made so far
    loaded,        \* isolates that have run sqlite3dart_extension_Init
    calling,       \* the call an isolate is executing, NoRequest if none
    call,          \* what each request asks for
    pc,            \* how far each request has got
    queue,         \* messages waiting at each native port
    busy,          \* requests whose handler runs on each native port
    dynpointer,    \* the text in _dynpointers[0]
    execRowIndex,  \* _execRowIndex
    produced,      \* rows SQLite has returned to the callback of a request
    result,        \* the type in the Dart_CObject result of a handler
    inbox,         \* messages waiting at each isolate
    replyOpen,     \* requests whose reply port is open
    received,      \* texts the handler of a request has accepted
    outcome,       \* how the Future or Stream of a request stands
    asked          \* history: requests in the order their messages were sent

dartVars == <<receivePort, created, loaded, calling, call, queue, asked>>
threadVars == <<busy, dynpointer, execRowIndex, produced, result>>
replyVars == <<inbox, replyOpen, received, outcome>>
vars == <<dartVars, threadVars, replyVars, pc>>

-----------------------------------------------------------------------------
(* Texts and messages.                                                     *)

RowHead(n) == <<"row", n>>
ErrorHead(r) == <<"Exception:", r>>
Heads == {RowHead(n) : n \in 0 .. IndexSpace - 1}
             \cup {ErrorHead(r) : r \in Requests}
             \cup {<<"zeros">>, <<"sql">>}
Texts == [head : Heads, cols : Seq(Requests \X Nat)]

Zeroed == [head |-> <<"zeros">>, cols |-> <<>>]
TableSql == [head |-> <<"sql">>, cols |-> <<>>]
ErrorText(r) == [head |-> ErrorHead(r), cols |-> <<>>]
RowText(r, k) == [head |-> RowHead(k - 1), cols |-> << <<r, k>> >>]

\* Mutant: the prefix tested is not the one mountException writes.
IsExceptionOtherPrefix(t) == t.head[1] = "Error:"

IsException(t) == t.head[1] = "Exception:"
IsRow(t) == t.head[1] = "row"

\* A message carries a text only if its type is "string".
MessageTypes == {"null", "bool", "int", "text", "string"}
Messages == [req : Requests, type : MessageTypes, text : Texts]
Message(r, type, t) ==
    [req |-> r, type |-> type, text |-> IF type = "string" THEN t ELSE Zeroed]

Stages == {"unused", "create", "send", "queued",
           "simple", "exec", "row", "columns", "post", "table",
           "mount", "reply", "replied", "ended"}

\* The handler that ended the process is still in its wrapper.
InHandler == {"simple", "exec", "row", "columns", "post", "table",
              "mount", "reply", "ended"}

Init ==
    /\ receivePort = ILLEGAL_PORT
    /\ created = {}
    /\ loaded = {}
    /\ calling = [i \in Isolates |-> NoRequest]
    /\ call = [r \in Requests |-> NoCall]
    /\ pc = [r \in Requests |-> "unused"]
    /\ queue = [p \in Ports |-> <<>>]
    /\ busy = [p \in Ports |-> {}]
    /\ dynpointer = Zeroed
    /\ execRowIndex = 0
    /\ produced = [r \in Requests |-> 0]
    /\ result = [r \in Requests |-> "null"]
    /\ inbox = [i \in Isolates |-> <<>>]
    /\ replyOpen = {}
    /\ received = [r \in Requests |-> <<>>]
    /\ outcome = [r \in Requests |-> "new"]
    /\ asked = <<>>

Goto(r, stage) == pc' = [pc EXCEPT ![r] = stage]

\* The process has not ended.
Running == \A r \in Requests : pc[r] # "ended"

-----------------------------------------------------------------------------
(* The isolate: loading the library and calling it.                        *)

\* An isolate imports the library: Init gives every thread a new buffer.
LoadLibrary(i) ==
    /\ i \notin loaded
    /\ loaded' = loaded \cup {i}
    /\ dynpointer' = Zeroed
    /\ UNCHANGED <<receivePort, created, calling, call, queue, asked, busy,
                   execRowIndex, produced, result, replyVars, pc>>

\* Mutant: get_receive_port() does not look for an existing port.
CallAlwaysCreates(i, r, o, c) ==
    /\ i \in loaded
    /\ calling[i] = NoRequest
    /\ pc[r] = "unused"
    /\ call' = [call EXCEPT ![r] = [isolate |-> i, op |-> o, conn |-> c]]
    /\ calling' = [calling EXCEPT ![i] = r]
    /\ replyOpen' = replyOpen \cup {r}
    /\ Goto(r, "create")
    /\ UNCHANGED <<receivePort, created, loaded, queue, asked, threadVars,
                   inbox, received, outcome>>

\* A Dart function opens a reply port and enters get_receive_port(), which
\* looks whether the native port exists.
Call(i, r, o, c) ==
    /\ i \in loaded
    /\ calling[i] = NoRequest
    /\ pc[r] = "unused"
    /\ call' = [call EXCEPT ![r] = [isolate |-> i, op |-> o, conn |-> c]]
    /\ calling' = [calling EXCEPT ![i] = r]
    /\ replyOpen' = replyOpen \cup {r}
    /\ Goto(r, IF receivePort = ILLEGAL_PORT THEN "create" ELSE "send")
    /\ UNCHANGED <<receivePort, created, loaded, queue, asked, threadVars,
                   inbox, received, outcome>>

\* The native port was missing: make one and store it, whatever another
\* isolate has stored since.
CreatePort(i) ==
    LET r == calling[i] IN
    /\ r # NoRequest
    /\ pc[r] = "create"
    /\ \/ \E p \in Ports \ created : /\ receivePort' = p
                                     /\ created' = created \cup {p}
       \/ /\ NativePortMayFail
          /\ receivePort' = ILLEGAL_PORT
          /\ UNCHANGED created
    /\ Goto(r, "send")
    /\ UNCHANGED <<loaded, calling, call, queue, asked, threadVars, replyVars>>

\* get_receive_port() returns the port stored now and the message is sent;
\* it returns null without one, and null.send() throws.
Send(i) ==
    LET r == calling[i] IN
    /\ r # NoRequest
    /\ pc[r] = "send"
    /\ calling' = [calling EXCEPT ![i] = NoRequest]
    /\ \/ /\ receivePort # ILLEGAL_PORT
          /\ queue' = [queue EXCEPT ![receivePort] = Append(@, r)]
          /\ asked' = Append(asked, r)
          /\ outcome' = [outcome EXCEPT ![r] = "pending"]
          /\ Goto(r, "queued")
       \/ /\ receivePort = ILLEGAL_PORT
          /\ outcome' = [outcome EXCEPT ![r] = "threw"]
          /\ Goto(r, "replied")
          /\ UNCHANGED <<queue, asked>>
    /\ UNCHANGED <<receivePort, created, loaded, call, threadVars,
                   inbox, replyOpen, received>>

-----------------------------------------------------------------------------
(* The native side: messageHandler and the wrappers.                       *)

\* Mutant: sqlite3_exec_wrapper does not reset _execRowIndex.
DequeueKeepsIndex(p) ==
    /\ queue[p] # <<>>
    /\ ConcurrentHandlers \/ busy[p] = {}
    /\ LET r == Head(queue[p])
           o == call[r].op
       IN /\ queue' = [queue EXCEPT ![p] = Tail(@)]
          /\ busy' = [busy EXCEPT ![p] = @ \cup {r}]
          /\ Goto(r, CASE o = "exec" -> "exec"
                       [] o = "table_exists" -> "table"
                       [] OTHER -> "simple")
          /\ dynpointer' = IF o = "table_exists" THEN TableSql ELSE dynpointer
    /\ UNCHANGED <<receivePort, created, loaded, calling, call, asked,
                   produced, execRowIndex, result, replyVars>>

\* A thread takes the next message of port p, finds the wrapper by name and
\* runs its first statements.
Dequeue(p) ==
    /\ queue[p] # <<>>
    /\ ConcurrentHandlers \/ busy[p] = {}
    /\ LET r == Head(queue[p])
           o == call[r].op
       IN /\ queue' = [queue EXCEPT ![p] = Tail(@)]
          /\ busy' = [busy EXCEPT ![p] = @ \cup {r}]
          /\ Goto(r, CASE o = "exec" -> "exec"
                       [] o = "table_exists" -> "table"
                       [] OTHER -> "simple")
          /\ execRowIndex' = IF o = "exec" THEN IndexSpace - 1 ELSE execRowIndex
          /\ dynpointer' = IF o = "table_exists" THEN TableSql ELSE dynpointer
    /\ UNCHANGED <<receivePort, created, loaded, calling, call, asked,
                   produced, result, replyVars>>

\* Mutant: sqlite3_exec returns without leaving the mutex.
HeldForEver(c) == \E r \in Requests : /\ pc[r] \notin {"unused", "create", "send", "queued", "exec"}
                                      /\ call[r].op = "exec" /\ call[r].conn = c

\* sqlite3_exec is inside connection c, with its mutex.
Held(c) == \E r \in Requests : /\ pc[r] \in {"row", "columns", "post"}
                               /\ call[r].conn = c

\* Dart_PostCObject: the message is copied; a closed port takes none.
Post(r, type, t) ==
    IF r \in replyOpen
    THEN inbox' = [inbox EXCEPT ![call[r].isolate] =
                                    Append(@, Message(r, type, t))]
    ELSE UNCHANGED inbox

\* A wrapper that makes one SQLite call and replies once.
SimpleCall(r) ==
    /\ pc[r] = "simple"
    /\ ~Held(call[r].conn)
    /\ \/ /\ result' = [result EXCEPT ![r] =
                            IF call[r].op = "text" THEN "text" ELSE "int"]
          /\ Goto(r, "reply")
       \/ /\ call[r].op # "text"
          /\ Goto(r, "mount")
          /\ UNCHANGED result
    /\ UNCHANGED <<dartVars, busy, dynpointer, execRowIndex, produced,
                   replyVars>>

\* sqlite3_exec_wrapper enters sqlite3_exec.
ExecEnter(r) ==
    /\ pc[r] = "exec"
    /\ ~Held(call[r].conn)
    /\ Goto(r, "row")
    /\ UNCHANGED <<dartVars, threadVars, replyVars>>

\* Mutant: the index is incremented in a wider type than the one it is kept in.
RowIndexNoWrap(r) ==
    /\ pc[r] = "row"
    /\ produced[r] < MaxRows
    /\ produced' = [produced EXCEPT ![r] = @ + 1]
    /\ execRowIndex' = execRowIndex + 1
    /\ dynpointer' = [head |-> RowHead(execRowIndex'), cols |-> <<>>]
    /\ Goto(r, "columns")
    /\ UNCHANGED <<dartVars, busy, result, replyVars>>

\* The callback gets a row, clears the buffer and starts it with the index.
RowIndex(r) ==
    /\ pc[r] = "row"
    /\ produced[r] < MaxRows
    /\ produced' = [produced EXCEPT ![r] = @ + 1]
    /\ execRowIndex' = (execRowIndex + 1) % IndexSpace
    /\ dynpointer' = [head |-> RowHead(execRowIndex'), cols |-> <<>>]
    /\ Goto(r, "columns")
    /\ UNCHANGED <<dartVars, busy, result, replyVars>>

\* The callback appends the columns to whatever the buffer holds.
RowColumns(r) ==
    /\ pc[r] = "columns"
    /\ dynpointer' = [dynpointer EXCEPT !.cols = Append(@, <<r, produced[r]>>)]
    /\ Goto(r, "post")
    /\ UNCHANGED <<dartVars, busy, execRowIndex, produced, result, replyVars>>

\* The callback posts the buffer to the reply port of its request.
RowPost(r) ==
    /\ pc[r] = "post"
    /\ Post(r, "string", dynpointer)
    /\ Goto(r, "row")
    /\ UNCHANGED <<dartVars, threadVars, replyOpen, received, outcome>>

\* sqlite3_exec returns, with an error or without.
ExecReturn(r) ==
    /\ pc[r] = "row"
    /\ \/ /\ result' = [result EXCEPT ![r] = "null"]
          /\ Goto(r, "reply")
       \/ /\ Goto(r, "mount")
          /\ UNCHANGED result
    /\ UNCHANGED <<dartVars, busy, dynpointer, execRowIndex, produced,
                   replyVars>>

\* sqlite3_table_exists runs the statement that is in the buffer.  With no
\* table it succeeds without a callback; with one the callback posts a bool
\* and aborts the query.  A buffer that LoadLibrary replaced holds the empty
\* statement, which succeeds.  The query fails when the database is locked, and
\* when the text in the buffer has been replaced by one that is not SQL.
TableQuery(r) ==
    /\ pc[r] = "table"
    /\ ~Held(call[r].conn)
    /\ \/ /\ dynpointer \in {TableSql, Zeroed}
          /\ result' = [result EXCEPT ![r] = "null"]
          /\ Goto(r, "reply")
          /\ UNCHANGED inbox
       \/ /\ dynpointer = TableSql
          /\ Post(r, "bool", Zeroed)
          /\ Goto(r, "mount")
          /\ UNCHANGED result
       \/ /\ Goto(r, "mount")
          /\ UNCHANGED <<inbox, result>>
    /\ UNCHANGED <<dartVars, busy, dynpointer, execRowIndex, produced,
                   replyOpen, received, outcome>>

\* mountException writes the message into the buffer and lets the result
\* point at it.  In a "transaction" that is the message of an invalid handle.
MountException(r) ==
    /\ pc[r] = "mount"
    /\ dynpointer' = ErrorText(r)
    /\ result' = [result EXCEPT ![r] = "string"]
    /\ Goto(r, "reply")
    /\ UNCHANGED <<dartVars, busy, execRowIndex, produced, replyVars>>

\* messageHandler posts the result; a string is read from the buffer now.
Reply(r) ==
    /\ pc[r] = "reply"
    /\ Post(r, result[r], dynpointer)
    /\ busy' = [p \in Ports |-> busy[p] \ {r}]
    /\ Goto(r, "replied")
    /\ UNCHANGED <<dartVars, dynpointer, execRowIndex, produced, result,
                   replyOpen, received, outcome>>

Handle(r) == \/ SimpleCall(r) \/ ExecEnter(r) \/ RowIndex(r) \/ RowColumns(r)
             \/ RowPost(r) \/ ExecReturn(r) \/ TableQuery(r)
             \/ MountException(r) \/ Reply(r)

\* A string at address 0 is read and the process ends: the NULL message of a
\* transaction that failed, a NULL column of a row, before the buffer or the
\* index change, or the NULL text of a column, when it is posted.
EndProcess(r) ==
    /\ \/ pc[r] = "mount" /\ call[r].op = "transaction"
       \/ pc[r] = "row" /\ produced[r] < MaxRows
       \/ pc[r] = "reply" /\ result[r] = "text"
    /\ Goto(r, "ended")
    /\ UNCHANGED <<dartVars, threadVars, replyVars>>

-----------------------------------------------------------------------------
(* The isolate's event loop.                                               *)

ClosePort(r) == replyOpen' = replyOpen \ {r}
Settle(r, how) == outcome' = [outcome EXCEPT ![r] = how]
Accept(m) == received' = [received EXCEPT ![m.req] = Append(@, m.text)]

\* Mutant: the port is closed at the first message, as the other handlers do.
StreamHandlerClosesFirst(m) ==
    /\ ClosePort(m.req)
    /\ \/ /\ m.type = "string" /\ IsException(m.text)
          /\ Settle(m.req, "error") /\ Accept(m)
       \/ /\ m.type = "string" /\ ~IsException(m.text)
          /\ Settle(m.req, "completed") /\ Accept(m)
       \/ /\ m.type # "string"
          /\ Settle(m.req, "completed")
          /\ UNCHANGED received

\* The handler of sqlite3_exec: an exception or null ends the stream, a row
\* is added to it, and so is the empty row that parseExecRow makes of an empty
\* text; a text that does not parse throws.
StreamHandler(m) ==
    \/ /\ m.type = "string" /\ IsException(m.text)
       /\ ClosePort(m.req) /\ Settle(m.req, "error") /\ Accept(m)
    \/ /\ m.type = "string" /\ (IsRow(m.text) \/ m.text = Zeroed)
       /\ Accept(m)
       /\ UNCHANGED <<replyOpen, outcome>>
    \/ /\ m.type = "null"
       /\ ClosePort(m.req) /\ Settle(m.req, "completed")
       /\ UNCHANGED received
    \/ /\ \/ m.type \notin {"string", "null"}
          \/ /\ m.type = "string" /\ m.text # Zeroed
             /\ ~IsException(m.text) /\ ~IsRow(m.text)
       /\ UNCHANGED <<replyOpen, received, outcome>>

\* Mutant: the reply port stays open.
FutureHandlerNoClose(m) ==
    /\ UNCHANGED replyOpen
    /\ \/ /\ m.type = "string" /\ IsException(m.text)
          /\ Settle(m.req, "error") /\ Accept(m)
       \/ /\ m.type = "string" /\ ~IsException(m.text)
          /\ UNCHANGED <<received, outcome>>
       \/ /\ m.type # "string"
          /\ Settle(m.req, "completed")
          /\ UNCHANGED received

\* Mutant: a string is never turned into an error of the Future.
FutureHandlerIgnoresError(m) ==
    /\ ClosePort(m.req)
    /\ \/ /\ m.type = "string"
          /\ UNCHANGED <<received, outcome>>
       \/ /\ m.type # "string"
          /\ Settle(m.req, "completed")
          /\ UNCHANGED received

\* The handlers of the other functions close the port at the first message.
\* A string that is no exception completes nothing.
FutureHandler(m) ==
    /\ ClosePort(m.req)
    /\ \/ /\ m.type = "string" /\ IsException(m.text)
          /\ Settle(m.req, "error") /\ Accept(m)
       \/ /\ m.type = "string" /\ ~IsException(m.text)
          /\ UNCHANGED <<received, outcome>>
       \/ /\ m.type # "string"
          /\ Settle(m.req, "completed")
          /\ UNCHANGED received

\* The event loop runs the handler of the next message; a message for a
\* closed port is dropped.
Dispatch(i) ==
    /\ calling[i] = NoRequest
    /\ inbox[i] # <<>>
    /\ inbox' = [inbox EXCEPT ![i] = Tail(@)]
    /\ LET m == Head(inbox[i]) IN
       \/ /\ m.req \in replyOpen
          /\ \/ call[m.req].op = "exec" /\ StreamHandler(m)
             \/ call[m.req].op # "exec" /\ FutureHandler(m)
       \/ /\ m.req \notin replyOpen
          /\ UNCHANGED <<replyOpen, received, outcome>>
    /\ UNCHANGED <<dartVars, threadVars, pc>>

-----------------------------------------------------------------------------
\* Nothing is left to do: every call was made and every message handled, or
\* the process has ended.
Quiescent == /\ \/ ~Running
                \/ /\ \A r \in Requests : pc[r] = "replied"
                   /\ \A i \in Isolates : inbox[i] = <<>> /\ i \in loaded
             /\ UNCHANGED vars

Step == \/ \E i \in Isolates : \/ LoadLibrary(i)
                               \/ CreatePort(i)
                               \/ Send(i)
                               \/ Dispatch(i)
        \/ \E i \in Isolates, r \in Requests, o \in Ops, c \in Conns :
               Call(i, r, o, c)
        \/ \E p \in Ports : Dequeue(p)
        \/ \E r \in Requests : Handle(r) \/ EndProcess(r)

Next == \/ Running /\ Step
        \/ Quiescent

Spec == Init /\ [][Next]_vars

(* The VM runs the threads of its isolates and native ports while there is *)
(* a process; nobody is bound to load the library or to make a call, and   *)
(* nothing has to end the process.                                         *)
Fairness ==
    /\ \A i \in Isolates : /\ WF_vars(Running /\ CreatePort(i))
                           /\ WF_vars(Running /\ Send(i))
                           /\ WF_vars(Running /\ Dispatch(i))
    /\ \A p \in Ports : WF_vars(Running /\ Dequeue(p))
    /\ \A r \in Requests : WF_vars(Running /\ Handle(r))

FairSpec == Spec /\ Fairness
-----------------------------------------------------------------------------
(* Properties.                                                             *)

(* Type invariant: the values the globals of sqlite3dart_extension.c, the  *)
(* queues and the reply ports can take.                                    *)
TypeOK ==
    /\ receivePort \in Ports \cup {ILLEGAL_PORT}
    /\ created \subseteq Ports
    /\ loaded \subseteq Isolates
    /\ calling \in [Isolates -> Requests \cup {NoRequest}]
    /\ call \in [Requests -> Calls \cup {NoCall}]
    /\ \A r \in Requests : pc[r] # "unused" => call[r] \in Calls
    /\ pc \in [Requests -> Stages]
    /\ queue \in [Ports -> Seq(Requests)]
    /\ busy \in [Ports -> SUBSET Requests]
    /\ dynpointer \in Texts
    /\ execRowIndex \in 0 .. IndexSpace - 1
    /\ produced \in [Requests -> 0 .. MaxRows]
    /\ result \in [Requests -> MessageTypes]
    /\ inbox \in [Isolates -> Seq(Messages)]
    /\ replyOpen \subseteq Requests
    /\ received \in [Requests -> Seq(Texts)]
    /\ outcome \in [Requests ->
                        {"new", "pending", "threw", "completed", "error"}]
    /\ asked \in Seq(Requests)

(* At most one message handler runs at any moment: what keeps the unlocked *)
(* globals _execRowIndex and _dynpointers[0] consistent.                   *)
OneHandler ==
    \A r, s \in Requests : pc[r] \in InHandler /\ pc[s] \in InHandler => r = s

(* A call receives its own rows, each whole, in order, the first starting  *)
(* with index 0, and after them at most its own exception: neither the     *)
(* shared buffer nor the shared row index leaks from one call to another.  *)
RowsIntact ==
    \A r \in Requests : \A k \in 1 .. Len(received[r]) :
        \/ received[r][k] = RowText(r, k)
        \/ /\ received[r][k] = ErrorText(r)
           /\ k = Len(received[r]) /\ outcome[r] = "error"

(* A row starts with the index of its line (the comment of                 *)
(* sqlite3_exec_callback2): the k-th row of a call carries index k - 1.    *)
(* With two isolates this fails.                                           *)
RowStartsWithItsIndex ==
    \A r \in Requests : \A k \in 1 .. Len(received[r]) :
        IsRow(received[r][k]) => received[r][k].head = RowHead(k - 1)

(* When a call is answered, every row SQLite produced for it has been      *)
(* delivered: closing the reply port cuts nothing off.                     *)
NoRowLost ==
    \A r \in Requests :
        /\ outcome[r] = "completed" => Len(received[r]) = produced[r]
        /\ outcome[r] = "error" => Len(received[r]) = produced[r] + 1

(* An answer is final: no completer is completed twice, although           *)
(* table_exists posts two replies, and a stream that ended gets no row.    *)
AnswerFinal ==
    [][\A r \in Requests : outcome[r] \in {"completed", "error"} =>
            outcome'[r] = outcome[r] /\ received'[r] = received[r]]_vars

(* get_receive_port() makes the native port lazily without a lock: even    *)
(* when isolates race, each that calls makes at most one.                  *)
OnePortEach ==
    Cardinality(created) <=
        Cardinality({call[r].isolate : r \in {q \in Requests : pc[q] # "unused"}})

(* Every message sent is answered by a handler that returns, unless the    *)
(* process ends: threads that wait for the mutex of a connection do not    *)
(* wait for ever.                                                          *)
EveryHandlerReturns ==
    \A r \in Requests : pc[r] = "queued" ~> pc[r] = "replied" \/ ~Running

(* Every Future completes and every Stream ends or reports an error once   *)
(* its message has been sent -- unless the process ends, and while no      *)
(* second isolate has loaded the library: it may replace an exception by a *)
(* row before it is posted, and such an answer completes nothing.          *)
EveryCallSettles ==
    \A r \in Requests :
        outcome[r] = "pending" ~> \/ outcome[r] \in {"completed", "error"}
                                 \/ ~Running
                                 \/ Cardinality(loaded) > 1

(* One isolate gets the service it expects: one answer per call, in the    *)
(* order of the calls, every row its own.                                  *)
Answered ==
    CHOOSE n \in 0 .. Len(asked) :
        /\ \A k \in 1 .. n : outcome[asked[k]] # "pending"
        /\ n < Len(asked) => outcome[asked[n + 1]] = "pending"
Unanswered == SubSeq(asked, Answered + 1, Len(asked))

Service == INSTANCE OrderedService
               WITH pending <- Unanswered, Row <- RowText, Error <- ErrorText

ServiceSpec == Service!Spec
=============================================================================
