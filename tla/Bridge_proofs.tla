--------------------------- MODULE Bridge_proofs ---------------------------
(***************************************************************************)
(* Theorems about Bridge, for every number of isolates, ports, requests,   *)
(* connections and rows.                                                   *)
(***************************************************************************)
EXTENDS Bridge, FiniteSetTheorems, SequenceTheorems, TLAPS

-----------------------------------------------------------------------------
(* The inductive invariant.                                                *)

\* The requests whose message has been sent, or whose call has thrown.
Sent == {r \in Requests : pc[r] \notin {"unused", "create", "send"}}

SentMessages == [req : Sent, type : MessageTypes, text : Texts]

\* What waits at a port, native or reply, belongs to a request that was sent.
OnlySent ==
    /\ queue \in [Ports -> Seq(Sent)]
    /\ inbox \in [Isolates -> Seq(SentMessages)]

\* A request with an answer was sent, and its reply port is closed.
SettledClosed ==
    \A r \in Requests : outcome[r] \in {"completed", "error"} =>
                            r \in Sent /\ r \notin replyOpen

Inv == TypeOK /\ OnlySent /\ SettledClosed

-----------------------------------------------------------------------------
(* Lemmas about sequences, texts and messages.                             *)

\* Appending to one of a family of sequences.
LEMMA AppendAt ==
    ASSUME NEW D, NEW S, NEW f \in [D -> Seq(S)], NEW d \in D, NEW e \in S
    PROVE  [f EXCEPT ![d] = Append(@, e)] \in [D -> Seq(S)]
  <1>1. Append(f[d], e) \in Seq(S)
    OBVIOUS
  <1> QED
    BY <1>1

\* Taking the head off one of a family of sequences.
LEMMA TailAt ==
    ASSUME NEW D, NEW S, NEW f \in [D -> Seq(S)], NEW d \in D, f[d] # <<>>
    PROVE  /\ Head(f[d]) \in S
           /\ [f EXCEPT ![d] = Tail(@)] \in [D -> Seq(S)]
  <1>1. Head(f[d]) \in S /\ Tail(f[d]) \in Seq(S)
    OBVIOUS
  <1> QED
    BY <1>1

\* A family of sequences over a set is one over every larger set.
LEMMA WiderSeq ==
    ASSUME NEW D, NEW S, NEW T, S \subseteq T, NEW f \in [D -> Seq(S)]
    PROVE  f \in [D -> Seq(T)]
  <1>1. ASSUME NEW d \in D PROVE f[d] \in Seq(T)
    <2>1. f[d] \in Seq(S)
      OBVIOUS
    <2> QED
      BY <2>1
  <1> QED
    BY <1>1

\* The texts the code writes into the buffer from scratch are texts.
LEMMA FreshTexts ==
    /\ Zeroed \in Texts
    /\ TableSql \in Texts
    /\ \A r \in Requests : ErrorText(r) \in Texts
    /\ \A n \in 0 .. IndexSpace - 1 : [head |-> RowHead(n), cols |-> <<>>] \in Texts
  BY DEF Zeroed, TableSql, ErrorText, Texts, Heads

\* Posting keeps the inboxes sequences of messages of sent requests.
LEMMA PostType ==
    ASSUME TypeOK, OnlySent, NEW r \in Sent,
           NEW type \in MessageTypes, NEW t \in Texts, Post(r, type, t)
    PROVE  inbox' \in [Isolates -> Seq(SentMessages)]
  <1>1. call[r].isolate \in Isolates
    BY DEF TypeOK, Calls, Sent
  <1>2. Message(r, type, t) \in SentMessages
    BY FreshTexts DEF Message, SentMessages
  <1>3. CASE r \in replyOpen
    <2> DEFINE i == call[r].isolate
               m == Message(r, type, t)
    <2>1. inbox' = [inbox EXCEPT ![i] = Append(@, m)]
      BY <1>3 DEF Post
    <2>2. inbox \in [Isolates -> Seq(SentMessages)]
      BY DEF OnlySent
    <2> HIDE DEF i, m
    <2> QED
      BY <1>1, <1>2, <2>1, <2>2, AppendAt DEF i, m
  <1>4. CASE r \notin replyOpen
    BY <1>4 DEF Post, OnlySent
  <1> QED
    BY <1>3, <1>4

\* What waits stays sent when requests are only added to those sent.
LEMMA StillSent ==
    ASSUME OnlySent, Sent \subseteq Sent'
    PROVE  /\ queue \in [Ports -> Seq(Sent')]
           /\ inbox \in [Isolates -> Seq(SentMessages')]
  <1>1. queue \in [Ports -> Seq(Sent')]
    BY WiderSeq DEF OnlySent
  <1>2. SentMessages \subseteq SentMessages'
    BY DEF SentMessages
  <1>3. inbox \in [Isolates -> Seq(SentMessages')]
    BY <1>2, WiderSeq DEF OnlySent
  <1> QED
    BY <1>1, <1>3

\* The messages of sent requests are messages of requests.
LEMMA SentType ==
    ASSUME OnlySent'
    PROVE  /\ queue' \in [Ports -> Seq(Requests)]
           /\ inbox' \in [Isolates -> Seq(Messages)]
  <1>1. Sent' \subseteq Requests /\ SentMessages' \subseteq Messages
    BY DEF Sent, SentMessages, Messages
  <1> QED
    BY <1>1, WiderSeq DEF OnlySent

\* A request that moves on to a stage after "send" leaves the others alone.
LEMMA GotoType ==
    ASSUME TypeOK, NEW r \in Requests, NEW stage \in Stages,
           stage \notin {"unused", "create", "send"}, Goto(r, stage)
    PROVE  /\ pc' \in [Requests -> Stages]
           /\ Sent' = Sent \cup {r}
           /\ r \in Sent => Sent' = Sent
  <1>1. pc' \in [Requests -> Stages] /\ Sent' = Sent \cup {r}
    BY DEF Goto, TypeOK, Sent
  <1>2. ASSUME r \in Sent PROVE Sent \cup {r} = Sent
    BY <1>2
  <1> QED
    BY <1>1, <1>2

-----------------------------------------------------------------------------
(* The initial states.                                                     *)

\* Nothing is sent, nothing waits and nothing is answered to begin with.
LEMMA InvInit == Init => Inv
  BY BridgeAssumption, FreshTexts
     DEF Init, Inv, TypeOK, OnlySent, SettledClosed, Stages, MessageTypes

-----------------------------------------------------------------------------
(* The steps of an isolate that make a call.                               *)

\* A new buffer holds zeros, which are a text.
LEMMA LoadLibraryInv ==
    ASSUME Inv, NEW i \in Isolates, LoadLibrary(i)
    PROVE  Inv'
  BY FreshTexts
     DEF LoadLibrary, Inv, TypeOK, OnlySent, SettledClosed, Sent, SentMessages,
         replyVars

\* A call that begins has not been sent and has no answer: opening its reply
\* port reopens none.
LEMMA CallInv ==
    ASSUME Inv, NEW i \in Isolates, NEW r \in Requests, NEW o \in Ops,
           NEW c \in Conns, Call(i, r, o, c)
    PROVE  Inv'
  <1> USE DEF threadVars
  <1>1. [isolate |-> i, op |-> o, conn |-> c] \in Calls
    BY DEF Calls
  <1>2. /\ call' \in [Requests -> Calls \cup {NoCall}]
        /\ \A s \in Requests : pc'[s] # "unused" => call'[s] \in Calls
    BY <1>1 DEF Call, Goto, Inv, TypeOK
  <1>3. pc' \in [Requests -> Stages] /\ Sent' = Sent
    BY DEF Call, Goto, Inv, TypeOK, Stages, Sent
  <1>4. calling' \in [Isolates -> Requests \cup {NoRequest}]
    BY DEF Call, Inv, TypeOK
  <1>5. TypeOK'
    BY <1>2, <1>3, <1>4 DEF Call, Inv, TypeOK
  <1>6. OnlySent'
    BY <1>3 DEF Call, Inv, OnlySent, SentMessages
  <1>7. r \notin Sent
    BY DEF Call, Sent
  <1>8. SettledClosed'
    BY <1>3, <1>7 DEF Call, Inv, SettledClosed
  <1> QED
    BY <1>5, <1>6, <1>8 DEF Inv

\* Making a native port sends nothing.
LEMMA CreatePortInv ==
    ASSUME Inv, NEW i \in Isolates, CreatePort(i)
    PROVE  Inv'
  <1> USE DEF threadVars, replyVars
  <1> DEFINE r == calling[i]
  <1>1. r \in Requests
    BY DEF CreatePort, Inv, TypeOK
  <1>2. /\ pc' \in [Requests -> Stages] /\ Sent' = Sent
        /\ \A s \in Requests : pc'[s] # "unused" => call'[s] \in Calls
    BY <1>1 DEF CreatePort, Goto, Inv, TypeOK, Stages, Sent
  <1>3. TypeOK'
    BY <1>2 DEF CreatePort, Inv, TypeOK
  <1>4. OnlySent' /\ SettledClosed'
    BY <1>2 DEF CreatePort, Inv, OnlySent, SentMessages, SettledClosed
  <1> QED
    BY <1>3, <1>4 DEF Inv

\* A message that is sent joins a queue of sent ones; the call has no answer.
LEMMA SendInv ==
    ASSUME Inv, NEW i \in Isolates, Send(i)
    PROVE  Inv'
  <1> USE DEF threadVars
  <1> DEFINE r == calling[i]
  <1>1. r \in Requests /\ r \notin Sent
    BY DEF Send, Inv, TypeOK, Sent
  <1>2. pc' \in [Requests -> Stages] /\ Sent' = Sent \cup {r}
    <2>1. Goto(r, "queued") \/ Goto(r, "replied")
      BY DEF Send
    <2>2. "queued" \in Stages /\ "replied" \in Stages
      BY DEF Stages
    <2> HIDE DEF r
    <2> QED
      BY <1>1, <2>1, <2>2, GotoType DEF Inv
  <1>3. \A s \in Requests : pc'[s] # "unused" => call'[s] \in Calls
    BY <1>1 DEF Send, Goto, Inv, TypeOK
  <1>4. outcome' \in [Requests ->
                          {"new", "pending", "threw", "completed", "error"}]
    BY <1>1 DEF Send, Inv, TypeOK
  <1>5. calling' \in [Isolates -> Requests \cup {NoRequest}]
    BY DEF Send, Inv, TypeOK
  <1>6. /\ queue \in [Ports -> Seq(Sent')]
        /\ inbox \in [Isolates -> Seq(SentMessages')]
    BY <1>2, StillSent DEF Inv
  <1>7. queue' \in [Ports -> Seq(Sent')] /\ asked' \in Seq(Requests)
    <2>1. CASE receivePort # ILLEGAL_PORT
      <3>1. receivePort \in Ports /\ r \in Sent'
        BY <1>2, <2>1 DEF Inv, TypeOK
      <3>2. queue' = [queue EXCEPT ![receivePort] = Append(@, r)]
        BY <2>1 DEF Send
      <3>3. asked' = Append(asked, r) /\ asked \in Seq(Requests)
        BY <2>1 DEF Send, Inv, TypeOK
      <3> HIDE DEF r
      <3>4. queue' \in [Ports -> Seq(Sent')]
        BY <1>6, <3>1, <3>2, AppendAt
      <3> QED
        BY <1>1, <3>3, <3>4
    <2>2. CASE receivePort = ILLEGAL_PORT
      BY <1>6, <2>2 DEF Send, Inv, TypeOK
    <2> QED
      BY <2>1, <2>2
  <1>8. OnlySent'
    BY <1>6, <1>7 DEF Send, OnlySent
  <1>9. TypeOK'
    <2>1. /\ queue' \in [Ports -> Seq(Requests)]
          /\ inbox' \in [Isolates -> Seq(Messages)]
      BY <1>8, SentType
    <2> QED
      BY <1>2, <1>3, <1>4, <1>5, <1>7, <2>1 DEF Send, Inv, TypeOK
  <1>10. SettledClosed'
    BY <1>1, <1>2 DEF Send, Inv, TypeOK, SettledClosed
  <1> QED
    BY <1>8, <1>9, <1>10 DEF Inv

-----------------------------------------------------------------------------
(* The steps of the native threads.                                        *)

\* The handler that starts is that of a sent request.
LEMMA DequeueInv ==
    ASSUME Inv, NEW p \in Ports, Dequeue(p)
    PROVE  Inv'
  <1> USE DEF replyVars
  <1> DEFINE r == Head(queue[p])
  <1>1. /\ r \in Sent
        /\ [queue EXCEPT ![p] = Tail(@)] \in [Ports -> Seq(Sent)]
    BY TailAt DEF Dequeue, Inv, OnlySent
  <1>2. r \in Requests
    BY <1>1 DEF Sent
  <1>3. PICK stage \in {"exec", "table", "simple"} : Goto(r, stage)
    BY DEF Dequeue
  <1>4. /\ pc' \in [Requests -> Stages] /\ Sent' = Sent
        /\ \A s \in Requests : pc'[s] # "unused" => call'[s] \in Calls
    <2>1. stage \in Stages /\ stage \notin {"unused", "create", "send"}
      BY DEF Stages
    <2> HIDE DEF r
    <2>2. pc' \in [Requests -> Stages] /\ Sent' = Sent
      BY <1>1, <1>2, <1>3, <2>1, GotoType DEF Inv
    <2>3. \A s \in Requests : pc'[s] # "unused" => call'[s] \in Calls
      BY <1>1, <1>2, <1>3 DEF Goto, Dequeue, Inv, TypeOK, Sent
    <2> QED
      BY <2>2, <2>3
  <1>5. execRowIndex' \in 0 .. IndexSpace - 1
    BY BridgeAssumption DEF Dequeue, Inv, TypeOK
  <1>6. dynpointer' \in Texts
    BY FreshTexts DEF Dequeue, Inv, TypeOK
  <1>7. busy' \in [Ports -> SUBSET Requests]
    BY <1>2 DEF Dequeue, Inv, TypeOK
  <1>8. OnlySent'
    BY <1>1, <1>4 DEF Dequeue, Inv, OnlySent, SentMessages
  <1>9. TypeOK'
    <2>1. /\ queue' \in [Ports -> Seq(Requests)]
          /\ inbox' \in [Isolates -> Seq(Messages)]
      BY <1>8, SentType
    <2> QED
      BY <1>4, <1>5, <1>6, <1>7, <2>1 DEF Dequeue, Inv, TypeOK
  <1>10. SettledClosed'
    BY <1>4 DEF Dequeue, Inv, SettledClosed
  <1> QED
    BY <1>8, <1>9, <1>10 DEF Inv

\* What every step of the handler of r has in common.
LEMMA HandlerStep ==
    ASSUME Inv, NEW r \in Requests, pc[r] \in InHandler,
           NEW stage \in InHandler \cup {"replied"}, Goto(r, stage),
           UNCHANGED <<dartVars, replyOpen, received, outcome>>,
           dynpointer' \in Texts, execRowIndex' \in 0 .. IndexSpace - 1,
           produced' \in [Requests -> 0 .. MaxRows],
           result' \in [Requests -> MessageTypes],
           busy' \in [Ports -> SUBSET Requests],
           inbox' \in [Isolates -> Seq(SentMessages)]
    PROVE  Inv'
  <1> USE DEF dartVars
  <1>1. r \in Sent
    BY DEF InHandler, Sent
  <1>2. stage \in Stages /\ stage \notin {"unused", "create", "send"}
    BY DEF InHandler, Stages
  <1>3. pc' \in [Requests -> Stages] /\ Sent' = Sent
    BY <1>1, <1>2, GotoType DEF Inv
  <1>4. \A s \in Requests : pc'[s] # "unused" => call'[s] \in Calls
    BY <1>1 DEF Goto, Inv, TypeOK, Sent
  <1>5. OnlySent'
    BY <1>3 DEF Inv, OnlySent, SentMessages
  <1>6. TypeOK'
    <2>1. /\ queue' \in [Ports -> Seq(Requests)]
          /\ inbox' \in [Isolates -> Seq(Messages)]
      BY <1>5, SentType
    <2> QED
      BY <1>3, <1>4, <2>1 DEF Inv, TypeOK
  <1>7. SettledClosed'
    BY <1>3 DEF Inv, SettledClosed
  <1> QED
    BY <1>5, <1>6, <1>7 DEF Inv

\* Each step of a handler posts at most one message, for its own request.
LEMMA HandleInv ==
    ASSUME Inv, NEW r \in Requests, Handle(r) \/ EndProcess(r)
    PROVE  Inv'
  <1> USE DEF threadVars, replyVars
  <1>0. /\ dynpointer \in Texts /\ execRowIndex \in 0 .. IndexSpace - 1
        /\ produced \in [Requests -> 0 .. MaxRows]
        /\ result \in [Requests -> MessageTypes]
        /\ busy \in [Ports -> SUBSET Requests]
        /\ inbox \in [Isolates -> Seq(SentMessages)]
    BY DEF Inv, TypeOK, OnlySent
  <1>00. {"null", "bool", "int", "text", "string"} = MessageTypes
    BY DEF MessageTypes
  <1>1. CASE SimpleCall(r)
    <2>1. result' \in [Requests -> MessageTypes]
      BY <1>0, <1>1, <1>00 DEF SimpleCall
    <2>2. PICK stage \in {"reply", "mount"} : Goto(r, stage)
      BY <1>1 DEF SimpleCall
    <2> QED
      BY <1>0, <1>1, <2>1, <2>2, HandlerStep DEF SimpleCall, InHandler
  <1>2. CASE ExecEnter(r)
    BY <1>0, <1>2, HandlerStep DEF ExecEnter, InHandler
  <1>3. CASE RowIndex(r)
    <2>1. /\ execRowIndex' \in 0 .. IndexSpace - 1
          /\ dynpointer' = [head |-> RowHead(execRowIndex'), cols |-> <<>>]
      BY <1>0, <1>3, BridgeAssumption DEF RowIndex
    <2>2. dynpointer' \in Texts
      BY <2>1, FreshTexts
    <2>3. produced' \in [Requests -> 0 .. MaxRows]
      BY <1>0, <1>3, BridgeAssumption DEF RowIndex
    <2> QED
      BY <1>0, <1>3, <2>1, <2>2, <2>3, HandlerStep DEF RowIndex, InHandler
  <1>4. CASE RowColumns(r)
    <2>1. dynpointer' \in Texts
      <3>1. <<r, produced[r]>> \in Requests \X Nat
        BY <1>0, BridgeAssumption
      <3>2. Append(dynpointer.cols, <<r, produced[r]>>) \in Seq(Requests \X Nat)
        BY <1>0, <3>1 DEF Texts
      <3> QED
        BY <1>0, <1>4, <3>2 DEF RowColumns, Texts
    <2> QED
      BY <1>0, <1>4, <2>1, HandlerStep DEF RowColumns, InHandler
  <1>5. CASE RowPost(r)
    <2>1. r \in Sent
      BY <1>5 DEF RowPost, Sent
    <2>2. inbox' \in [Isolates -> Seq(SentMessages)]
      BY <1>0, <1>00, <1>5, <2>1, PostType DEF RowPost, Inv
    <2> QED
      BY <1>0, <1>5, <2>2, HandlerStep DEF RowPost, InHandler
  <1>6. CASE ExecReturn(r)
    <2>1. result' \in [Requests -> MessageTypes]
      BY <1>0, <1>6, <1>00 DEF ExecReturn
    <2>2. PICK stage \in {"reply", "mount"} : Goto(r, stage)
      BY <1>6 DEF ExecReturn
    <2> QED
      BY <1>0, <1>6, <2>1, <2>2, HandlerStep DEF ExecReturn, InHandler
  <1>7. CASE TableQuery(r)
    <2>1. r \in Sent
      BY <1>7 DEF TableQuery, Sent
    <2>2. inbox' \in [Isolates -> Seq(SentMessages)]
      BY <1>0, <1>00, <1>7, <2>1, FreshTexts, PostType DEF TableQuery, Inv
    <2>3. result' \in [Requests -> MessageTypes]
      BY <1>0, <1>7, <1>00 DEF TableQuery
    <2>4. PICK stage \in {"reply", "mount"} : Goto(r, stage)
      BY <1>7 DEF TableQuery
    <2> QED
      BY <1>0, <1>7, <2>2, <2>3, <2>4, HandlerStep DEF TableQuery, InHandler
  <1>8. CASE MountException(r)
    <2>1. result' \in [Requests -> MessageTypes] /\ dynpointer' \in Texts
      BY <1>0, <1>8, <1>00, FreshTexts DEF MountException
    <2> QED
      BY <1>0, <1>8, <2>1, HandlerStep DEF MountException, InHandler
  <1>9. CASE Reply(r)
    <2>1. r \in Sent
      BY <1>9 DEF Reply, Sent
    <2>2. inbox' \in [Isolates -> Seq(SentMessages)]
      BY <1>0, <1>9, <2>1, PostType DEF Reply, Inv
    <2>3. busy' \in [Ports -> SUBSET Requests]
      BY <1>0, <1>9 DEF Reply
    <2> QED
      BY <1>0, <1>9, <2>2, <2>3, HandlerStep DEF Reply, InHandler
  <1>10. CASE EndProcess(r)
    BY <1>0, <1>10, HandlerStep DEF EndProcess, InHandler
  <1> QED
    BY <1>1, <1>2, <1>3, <1>4, <1>5, <1>6, <1>7, <1>8, <1>9, <1>10 DEF Handle

-----------------------------------------------------------------------------
(* The event loop.                                                         *)

\* What a reply handler does to its request, and to no other.
LEMMA ReplyHandlers ==
    ASSUME Inv, NEW m \in SentMessages, StreamHandler(m) \/ FutureHandler(m)
    PROVE  /\ \/ UNCHANGED replyOpen
              \/ replyOpen' = replyOpen \ {m.req}
           /\ \/ UNCHANGED outcome
              \/ /\ replyOpen' = replyOpen \ {m.req}
                 /\ \E how \in {"completed", "error"} :
                        outcome' = [outcome EXCEPT ![m.req] = how]
           /\ \/ UNCHANGED received
              \/ received' = [received EXCEPT ![m.req] = Append(@, m.text)]
  BY DEF StreamHandler, FutureHandler, ClosePort, Settle, Accept

\* An answer closes the port of the request the message was for.
LEMMA DispatchInv ==
    ASSUME Inv, NEW i \in Isolates, Dispatch(i)
    PROVE  Inv'
  <1> USE DEF dartVars, threadVars
  <1> DEFINE m == Head(inbox[i])
  <1>1. m \in SentMessages /\ inbox' \in [Isolates -> Seq(SentMessages)]
    BY TailAt DEF Dispatch, Inv, OnlySent
  <1>2. m.req \in Sent /\ m.req \in Requests /\ m.text \in Texts
    BY <1>1 DEF SentMessages, Sent
  <1>3. \/ StreamHandler(m) \/ FutureHandler(m)
        \/ UNCHANGED <<replyOpen, received, outcome>>
    BY DEF Dispatch
  <1> HIDE DEF m
  <1>4. /\ \/ UNCHANGED replyOpen
           \/ replyOpen' = replyOpen \ {m.req}
        /\ \/ UNCHANGED outcome
           \/ /\ replyOpen' = replyOpen \ {m.req}
              /\ \E how \in {"completed", "error"} :
                     outcome' = [outcome EXCEPT ![m.req] = how]
        /\ \/ UNCHANGED received
           \/ received' = [received EXCEPT ![m.req] = Append(@, m.text)]
    BY <1>1, <1>3, ReplyHandlers
  <1>5. Sent' = Sent
    BY DEF Dispatch, Sent
  <1>6. OnlySent'
    BY <1>1, <1>5 DEF Dispatch, Inv, OnlySent, SentMessages
  <1>7. received' \in [Requests -> Seq(Texts)]
    <2>1. received \in [Requests -> Seq(Texts)]
      BY DEF Inv, TypeOK
    <2>2. [received EXCEPT ![m.req] = Append(@, m.text)] \in [Requests -> Seq(Texts)]
      BY <1>2, <2>1, AppendAt
    <2> QED
      BY <1>4, <2>1, <2>2
  <1>8. outcome' \in [Requests ->
                          {"new", "pending", "threw", "completed", "error"}]
    BY <1>2, <1>4 DEF Inv, TypeOK
  <1>9. TypeOK'
    <2>1. inbox' \in [Isolates -> Seq(Messages)]
      BY <1>6, SentType
    <2>2. replyOpen' \subseteq Requests
      BY <1>4 DEF Inv, TypeOK
    <2> QED
      BY <1>7, <1>8, <2>1, <2>2 DEF Dispatch, Inv, TypeOK
  <1>10. SettledClosed'
    <2> SUFFICES ASSUME NEW r \in Requests, outcome'[r] \in {"completed", "error"}
                 PROVE  r \in Sent' /\ r \notin replyOpen'
      BY DEF SettledClosed
    <2>1. CASE outcome[r] \in {"completed", "error"}
      BY <1>4, <1>5, <2>1 DEF Inv, SettledClosed
    <2>2. CASE outcome[r] \notin {"completed", "error"}
      <3>1. r = m.req /\ replyOpen' = replyOpen \ {m.req}
        BY <1>2, <1>4, <2>2 DEF Inv, TypeOK
      <3> QED
        BY <1>2, <1>5, <3>1
    <2> QED
      BY <2>1, <2>2
  <1> QED
    BY <1>6, <1>9, <1>10 DEF Inv

-----------------------------------------------------------------------------
(* The theorems.                                                           *)

\* Every step keeps the invariant.
LEMMA InvNext == Inv /\ [Next]_vars => Inv'
  <1> SUFFICES ASSUME Inv, [Next]_vars PROVE Inv'
    OBVIOUS
  <1>1. ASSUME NEW i \in Isolates,
               LoadLibrary(i) \/ CreatePort(i) \/ Send(i) \/ Dispatch(i)
        PROVE  Inv'
    BY <1>1, LoadLibraryInv, CreatePortInv, SendInv, DispatchInv
  <1>2. ASSUME NEW i \in Isolates, NEW r \in Requests, NEW o \in Ops,
               NEW c \in Conns, Call(i, r, o, c)
        PROVE  Inv'
    BY <1>2, CallInv
  <1>3. ASSUME NEW p \in Ports, Dequeue(p) PROVE Inv'
    BY <1>3, DequeueInv
  <1>4. ASSUME NEW r \in Requests, Handle(r) \/ EndProcess(r) PROVE Inv'
    BY <1>4, HandleInv
  <1>5. CASE UNCHANGED vars
    BY <1>5
       DEF Inv, TypeOK, OnlySent, SettledClosed, Sent, SentMessages,
           vars, dartVars, threadVars, replyVars
  <1>6. CASE Quiescent
    BY <1>5, <1>6 DEF Quiescent
  <1> QED
    BY <1>1, <1>2, <1>3, <1>4, <1>5, <1>6 DEF Next, Step

(* The inductive invariant holds in every reachable state: types, only     *)
(* sent requests are handled or replied to, answered ones have no port.    *)
THEOREM Invariance == Spec => []Inv
  BY InvInit, InvNext, PTL DEF Spec

(* The globals, queues and reply ports keep their types, and a text in the *)
(* buffer or in a message is always one the code can have written.         *)
THEOREM TypeCorrect == Spec => []TypeOK
  <1>1. Inv => TypeOK
    BY DEF Inv
  <1> QED
    BY <1>1, Invariance, PTL

\* Only the reply handler of a request with an open port touches what the
\* request has received and how it stands, once it has been sent.
LEMMA AnswerStep ==
    ASSUME Inv, [Next]_vars, NEW r \in Requests,
           outcome[r] \in {"completed", "error"}
    PROVE  outcome'[r] = outcome[r] /\ received'[r] = received[r]
  <1> USE DEF dartVars, threadVars, replyVars
  <1>1. r \in Sent /\ r \notin replyOpen
    BY DEF Inv, SettledClosed
  <1>2. ASSUME NEW i \in Isolates, Dispatch(i)
        PROVE  outcome'[r] = outcome[r] /\ received'[r] = received[r]
    <2> DEFINE m == Head(inbox[i])
    <2>1. m \in SentMessages
      BY <1>2, TailAt DEF Dispatch, Inv, OnlySent
    <2>2. CASE m.req \in replyOpen
      <3>1. StreamHandler(m) \/ FutureHandler(m)
        BY <1>2, <2>2 DEF Dispatch
      <3>2. m.req # r
        BY <1>1, <2>2
      <3> HIDE DEF m
      <3> QED
        BY ZenonT(60), <2>1, <3>1, <3>2, ReplyHandlers DEF Inv, TypeOK
    <2>3. CASE m.req \notin replyOpen
      BY <1>2, <2>3 DEF Dispatch
    <2> QED
      BY <2>2, <2>3
  <1>3. ASSUME NEW i \in Isolates, Send(i)
        PROVE  outcome'[r] = outcome[r] /\ received'[r] = received[r]
    <2>1. calling[i] # r
      BY <1>1, <1>3 DEF Send, Sent
    <2> QED
      BY <1>3, <2>1 DEF Send, Inv, TypeOK
  <1>4. ASSUME NEW i \in Isolates,
               \/ LoadLibrary(i) \/ CreatePort(i)
               \/ \E q \in Requests, o \in Ops, c \in Conns : Call(i, q, o, c)
        PROVE  UNCHANGED <<received, outcome>>
    BY <1>4 DEF LoadLibrary, CreatePort, Call
  <1>5. ASSUME NEW p \in Ports, Dequeue(p)
        PROVE  UNCHANGED <<received, outcome>>
    BY <1>5 DEF Dequeue
  <1>6. ASSUME NEW q \in Requests, Handle(q) \/ EndProcess(q)
        PROVE  UNCHANGED <<received, outcome>>
    BY <1>6
       DEF Handle, SimpleCall, ExecEnter, RowIndex, RowColumns, RowPost,
           ExecReturn, TableQuery, MountException, Reply, EndProcess
  <1>7. CASE Quiescent \/ UNCHANGED vars
    BY <1>7 DEF Quiescent, vars
  <1> QED
    BY <1>2, <1>3, <1>4, <1>5, <1>6, <1>7 DEF Next, Step

(* An answer is final: whatever else a handler posts, and whatever other   *)
(* isolates do, a Future is completed once and a Stream that ended gets no *)
(* row, because the handler closed the reply port.                         *)
THEOREM AnswerIsFinal == Spec => AnswerFinal
  <1>1. Inv /\ [Next]_vars =>
            [\A r \in Requests : outcome[r] \in {"completed", "error"} =>
                outcome'[r] = outcome[r] /\ received'[r] = received[r]]_vars
    BY AnswerStep
  <1> QED
    BY <1>1, Invariance, PTL DEF Spec, AnswerFinal

-----------------------------------------------------------------------------
(* One isolate: mutual exclusion of the handlers.                          *)

\* A handler runs on the native port stored now.
HandlersOnPort ==
    \A r \in Requests : pc[r] \in InHandler =>
                            /\ receivePort \in Ports
                            /\ r \in busy[receivePort]

OnePerPort == \A p \in Ports : \A r, s \in busy[p] : r = s

\* No other native port has been given a message.
OthersIdle == \A p \in Ports : p # receivePort => queue[p] = <<>> /\ busy[p] = {}

\* The isolate makes a port only while there is none, and one call at a time.
CreatesWhenMissing ==
    \A r \in Requests : pc[r] = "create" => receivePort = ILLEGAL_PORT

OneCaller ==
    \A r \in Requests : pc[r] \in {"create", "send"} =>
                            \A i \in Isolates : calling[i] = r

Alone == /\ HandlersOnPort
         /\ OnePerPort
         /\ OthersIdle
         /\ CreatesWhenMissing
         /\ OneCaller

\* No port and no call to begin with.
LEMMA AloneInit == Init => Alone
  BY DEF Init, Alone, HandlersOnPort, OnePerPort, OthersIdle,
         CreatesWhenMissing, OneCaller, InHandler

\* The only isolate replaces ILLEGAL_PORT once, while nothing is queued.
LEMMA AloneCalls ==
    ASSUME Inv, Alone, NEW i, Isolates = {i},
           \/ LoadLibrary(i) \/ CreatePort(i) \/ Send(i)
           \/ \E r \in Requests, o \in Ops, c \in Conns : Call(i, r, o, c)
    PROVE  Alone'
  <1> USE DEF threadVars, replyVars, Goto, InHandler
  <1>1. CASE LoadLibrary(i)
    BY <1>1 DEF LoadLibrary, Alone, HandlersOnPort, OnePerPort, OthersIdle,
                CreatesWhenMissing, OneCaller
  <1>2. ASSUME NEW r \in Requests, NEW o \in Ops, NEW c \in Conns, Call(i, r, o, c)
        PROVE  Alone'
    <2>1. \A q \in Requests : pc[q] \notin {"create", "send"}
      BY <1>2, BridgeAssumption DEF Call, Alone, OneCaller, Inv, TypeOK
    <2>2. OneCaller' /\ CreatesWhenMissing'
      BY <1>2, <2>1 DEF Call, Inv, TypeOK, OneCaller, CreatesWhenMissing
    <2>3. HandlersOnPort' /\ OnePerPort' /\ OthersIdle'
      BY <1>2 DEF Call, Inv, TypeOK, Alone, HandlersOnPort, OnePerPort, OthersIdle
    <2> QED
      BY <2>2, <2>3 DEF Alone
  <1>3. CASE CreatePort(i)
    <2> DEFINE r == calling[i]
    <2>1. /\ r \in Requests /\ pc[r] = "create" /\ pc' = [pc EXCEPT ![r] = "send"]
          /\ receivePort' \in Ports \cup {ILLEGAL_PORT}
          /\ UNCHANGED <<calling, queue, busy>>
      BY <1>3 DEF CreatePort, Inv, TypeOK
    <2>2. receivePort = ILLEGAL_PORT
      BY <2>1 DEF Alone, CreatesWhenMissing
    <2>3. \A p \in Ports : queue[p] = <<>> /\ busy[p] = {}
      BY <2>2, BridgeAssumption DEF Alone, OthersIdle
    <2>4. \A q \in Requests : pc[q] \notin InHandler
      BY <2>2, BridgeAssumption DEF Alone, HandlersOnPort
    <2>5. \A q \in Requests : pc[q] \in {"create", "send"} => q = r
      BY DEF Alone, OneCaller
    <2>6. HandlersOnPort' /\ OnePerPort' /\ OthersIdle'
      BY <2>1, <2>3, <2>4 DEF Inv, TypeOK, HandlersOnPort, OnePerPort, OthersIdle
    <2>7. CreatesWhenMissing' /\ OneCaller'
      BY <2>1, <2>5 DEF Inv, TypeOK, Alone, CreatesWhenMissing, OneCaller
    <2> QED
      BY <2>6, <2>7 DEF Alone
  <1>4. CASE Send(i)
    <2> DEFINE r == calling[i]
    <2>1. /\ r \in Requests /\ pc[r] = "send"
          /\ \/ pc' = [pc EXCEPT ![r] = "queued"]
             \/ pc' = [pc EXCEPT ![r] = "replied"]
          /\ UNCHANGED <<receivePort, busy>>
          /\ \A p \in Ports : p # receivePort => queue'[p] = queue[p]
      BY <1>4 DEF Send, Inv, TypeOK
    <2>2. \A q \in Requests : pc[q] \in {"create", "send"} => q = r
      BY DEF Alone, OneCaller
    <2>3. HandlersOnPort' /\ OnePerPort' /\ OthersIdle'
      BY <2>1 DEF Inv, TypeOK, Alone, HandlersOnPort, OnePerPort, OthersIdle
    <2>4. \A q \in Requests : pc'[q] \notin {"create", "send"}
      BY <2>1, <2>2 DEF Inv, TypeOK
    <2> QED
      BY <2>3, <2>4 DEF Alone, CreatesWhenMissing, OneCaller
  <1> QED
    BY <1>1, <1>2, <1>3, <1>4

\* A handler starts on a port where none runs, and there is only that port.
LEMMA AloneDequeue ==
    ASSUME Inv, Alone, ~ConcurrentHandlers, NEW p \in Ports, Dequeue(p)
    PROVE  Alone'
  <1> DEFINE r == Head(queue[p])
  <1>1. /\ r \in Sent
        /\ [queue EXCEPT ![p] = Tail(@)] \in [Ports -> Seq(Sent)]
    BY TailAt DEF Dequeue, Inv, OnlySent
  <1>2. PICK stage \in {"exec", "table", "simple"} : pc' = [pc EXCEPT ![r] = stage]
    BY DEF Dequeue, Goto
  <1>3. /\ p = receivePort /\ busy[p] = {}
        /\ queue' = [queue EXCEPT ![p] = Tail(@)]
        /\ busy' = [busy EXCEPT ![p] = @ \cup {r}]
        /\ UNCHANGED <<receivePort, calling>>
    BY DEF Dequeue, Alone, OthersIdle
  <1>4. r \in Requests
    BY <1>1 DEF Sent
  <1> HIDE DEF r
  <1>5. \A q \in Requests : pc[q] \notin InHandler
    BY <1>3 DEF Alone, HandlersOnPort
  <1>6. HandlersOnPort' /\ OnePerPort' /\ OthersIdle'
    <2>1. busy'[p] = {r}
      BY <1>3 DEF Inv, TypeOK
    <2>2. \A q \in Requests : pc'[q] \in InHandler => q = r
      BY <1>2, <1>4, <1>5 DEF Inv, TypeOK
    <2>3. \A o \in Ports : o # p => queue'[o] = queue[o] /\ busy'[o] = busy[o]
      BY <1>3 DEF Inv, TypeOK
    <2> QED
      BY <1>3, <2>1, <2>2, <2>3 DEF Alone, HandlersOnPort, OnePerPort, OthersIdle
  <1>7. CreatesWhenMissing' /\ OneCaller'
    BY <1>2, <1>3, <1>4
       DEF Inv, TypeOK, Alone, CreatesWhenMissing, OneCaller
  <1> QED
    BY <1>6, <1>7 DEF Alone

\* A handler stays on its port until it replies.
LEMMA AloneHandle ==
    ASSUME Inv, Alone, NEW r \in Requests, Handle(r) \/ EndProcess(r)
    PROVE  Alone'
  <1> USE DEF dartVars, threadVars, replyVars
  <1>1. /\ pc[r] \in InHandler
        /\ UNCHANGED <<receivePort, calling, queue>>
        /\ \/ /\ UNCHANGED busy
              /\ \E stage \in InHandler : pc' = [pc EXCEPT ![r] = stage]
           \/ /\ busy' = [p \in Ports |-> busy[p] \ {r}]
              /\ pc' = [pc EXCEPT ![r] = "replied"]
    BY DEF Handle, SimpleCall, ExecEnter, RowIndex, RowColumns, RowPost,
           ExecReturn, TableQuery, MountException, Reply, EndProcess, Goto,
           InHandler, threadVars
  <1>2. HandlersOnPort'
    BY <1>1 DEF Inv, TypeOK, Alone, HandlersOnPort, InHandler
  <1>3. OnePerPort' /\ OthersIdle'
    BY <1>1 DEF Inv, TypeOK, Alone, OnePerPort, OthersIdle
  <1>4. CreatesWhenMissing' /\ OneCaller'
    BY ZenonT(60), <1>1 DEF Inv, TypeOK, Alone, CreatesWhenMissing, OneCaller, InHandler
  <1> QED
    BY <1>2, <1>3, <1>4 DEF Alone

\* Every step of a system with one isolate keeps the handlers apart.
LEMMA AloneNext ==
    ASSUME NEW i, Isolates = {i}, ~ConcurrentHandlers
    PROVE  Inv /\ Alone /\ [Next]_vars => Alone'
  <1> SUFFICES ASSUME Inv, Alone, [Next]_vars PROVE Alone'
    OBVIOUS
  <1>1. CASE \/ LoadLibrary(i) \/ CreatePort(i) \/ Send(i)
             \/ \E r \in Requests, o \in Ops, c \in Conns : Call(i, r, o, c)
    BY <1>1, AloneCalls
  <1>2. ASSUME NEW p \in Ports, Dequeue(p) PROVE Alone'
    BY <1>2, AloneDequeue
  <1>3. ASSUME NEW r \in Requests, Handle(r) \/ EndProcess(r) PROVE Alone'
    BY <1>3, AloneHandle
  <1>4. CASE Dispatch(i) \/ Quiescent \/ UNCHANGED vars
    BY <1>4
       DEF Dispatch, Quiescent, vars, dartVars, threadVars, Alone,
           HandlersOnPort, OnePerPort, OthersIdle, CreatesWhenMissing, OneCaller
  <1> QED
    BY <1>1, <1>2, <1>3, <1>4 DEF Next, Step

(* With one isolate, and a VM that runs one handler of a native port at a  *)
(* time, at most one handler runs: the isolate stores one native port and  *)
(* sends all its messages there.  This is all that protects _execRowIndex  *)
(* and _dynpointers[0].                                                    *)
THEOREM OneHandlerAlone ==
    ASSUME NEW i, Isolates = {i}, ~ConcurrentHandlers
    PROVE  Spec => []OneHandler
  <1>1. Init => Alone
    BY AloneInit
  <1>2. Inv /\ Alone /\ [Next]_vars => Alone'
    BY AloneNext
  <1>3. Alone => OneHandler
    BY DEF Alone, HandlersOnPort, OnePerPort, OneHandler
  <1> QED
    BY <1>1, <1>2, <1>3, Invariance, PTL DEF Spec

-----------------------------------------------------------------------------
(***************************************************************************)
(* RowsIntact and NoRowLost, for one isolate with any number of requests,  *)
(* connections, native ports and rows.                                     *)
(*                                                                         *)
(* The rows of a request stand in the inbox one behind the other, since    *)
(* one handler posts at a time (Alone), and each tells its number.  So it  *)
(* is enough to say of each message that it carries the next number to be  *)
(* received, or that the message before it carries the number before; and  *)
(* of the request that is being handled that the last message of the inbox *)
(* is the last row it has posted.                                          *)
(***************************************************************************)

RowMessage(r, k) == Message(r, "string", RowText(r, k))

IsRowOf(m, r, k) == m = RowMessage(r, k)

Mine(m, r) == m.req = r

\* What ends a request: anything but a text, or its own exception.
IsLast(m, r) == Mine(m, r) /\ (m.type = "string" => m.text = ErrorText(r))

\* What ends a stream is null or an exception.
Ends(m, r) == IsLast(m, r) /\ m.type \in {"null", "string"}

\* A row carries its number, what ends the request carries the number end.
Numbered(m, r, k, end) == IsRowOf(m, r, k) \/ (Ends(m, r) /\ k = end)

\* The messages of r in the inbox q go on from the n received, in order.
InLine(q, r, n, end) ==
    \A j \in 1 .. Len(q) : Mine(q[j], r) =>
        \E k \in Nat \ {0} :
            /\ Numbered(q[j], r, k, end)
            /\ \/ k = n + 1 /\ \A l \in 1 .. j - 1 : ~Mine(q[l], r)
               \/ j > 1 /\ k > 1 /\ IsRowOf(q[j - 1], r, k - 1)

None(q, r) == \A j \in 1 .. Len(q) : ~Mine(q[j], r)

\* Of the rows posted all are received, or the last ends the inbox.
LastOf(q, r, n, posted) ==
    \/ n = posted /\ None(q, r)
    \/ q # <<>> /\ posted > 0 /\ IsRowOf(q[Len(q)], r, posted)

OnlyLasts(q, r) == \A j \in 1 .. Len(q) : Mine(q[j], r) => IsLast(q[j], r)

-----------------------------------------------------------------------------
(* The inductive invariant, for the isolate i.                             *)

\* The stages of an exec before its last message is posted.
Streaming == {"create", "send", "queued",
              "exec", "row", "columns", "post", "mount", "reply", "ended"}

Settled(r) == outcome[r] \in {"completed", "error"}

\* The rows the callback has posted, and the number the end would carry.
Posted(r) == IF pc[r] \in {"columns", "post"} THEN produced[r] - 1 ELSE produced[r]
End(r) == IF pc[r] = "replied" THEN produced[r] + 1 ELSE 0

AllRows(f, r, n) == \A k \in 1 .. n : f[k] = RowText(r, k)

\* What each stage tells of the call, its rows and its result.
Staged(r) ==
    /\ pc[r] = "unused" => /\ received[r] = <<>> /\ ~Settled(r)
                           /\ r \notin replyOpen
    /\ pc[r] \in {"unused", "create", "send", "queued", "exec"} => produced[r] = 0
    /\ pc[r] \in {"exec", "row", "columns", "post"} => call[r].op = "exec"
    /\ pc[r] \in {"simple", "table"} => call[r].op # "exec"
    /\ pc[r] # "unused" /\ call[r].op # "exec" => produced[r] = 0
    /\ pc[r] \in {"columns", "post"} => produced[r] > 0
    /\ result[r] = "string" => pc[r] \in {"reply", "replied"}
    /\ pc[r] = "reply" /\ call[r].op = "exec" => result[r] \in {"null", "string"}

\* What has been received of a request that is open, completed or failed.
Told(r) ==
    /\ ~Settled(r) => /\ AllRows(received[r], r, Len(received[r]))
                      /\ pc[r] # "unused" /\ call[r].op # "exec" =>
                             Len(received[r]) = 0
    /\ Settled(r) => /\ call[r].op = "exec" => pc[r] = "replied"
                     /\ AllRows(received[r], r, produced[r])
    /\ outcome[r] = "completed" => Len(received[r]) = produced[r]
    /\ outcome[r] = "error" => /\ Len(received[r]) = produced[r] + 1
                               /\ received[r][produced[r] + 1] = ErrorText(r)

\* What waits in the inbox for a request whose reply port is open.
Line(i, r) ==
    r \in replyOpen =>
        /\ call[r].op = "exec" =>
               /\ InLine(inbox[i], r, Len(received[r]), End(r))
               /\ pc[r] \in Streaming =>
                      LastOf(inbox[i], r, Len(received[r]), Posted(r))
        /\ call[r].op # "exec" => OnlyLasts(inbox[i], r)

\* The buffer and the index belong to the request that is handled.
Buffer(r) ==
    /\ pc[r] \in {"exec", "row"} =>
           execRowIndex = IF produced[r] = 0 THEN IndexSpace - 1 ELSE produced[r] - 1
    /\ pc[r] = "columns" =>
           dynpointer = [head |-> RowHead(produced[r] - 1), cols |-> <<>>]
    /\ pc[r] \in {"columns", "post"} => execRowIndex = produced[r] - 1
    /\ pc[r] = "post" => dynpointer = RowText(r, produced[r])
    /\ pc[r] = "reply" /\ result[r] = "string" => dynpointer = ErrorText(r)

Whole(i, r) == Staged(r) /\ Told(r) /\ Line(i, r) /\ Buffer(r)

\* Nothing is called before the library is loaded.
Started(i) == i \notin loaded => \A r \in Requests : pc[r] = "unused"

\* A message waits once, and only that of a request that is queued.
Waiting ==
    \A p \in Ports : \A k \in 1 .. Len(queue[p]) :
        /\ pc[queue[p][k]] = "queued"
        /\ \A l \in 1 .. Len(queue[p]) : queue[p][k] = queue[p][l] => k = l

Rows(i) == Started(i) /\ Waiting /\ \A r \in Requests : Whole(i, r)

-----------------------------------------------------------------------------
(* Inboxes: taking the first message and adding one.                       *)

\* A row belongs to its request and tells its number.
LEMMA RowsTell ==
    ASSUME NEW m, NEW r, NEW k \in Nat, IsRowOf(m, r, k)
    PROVE  Mine(m, r) /\ \A l \in Nat : IsRowOf(m, r, l) => l = k
  <1>1. m.req = r /\ m.text.head = <<"row", k - 1>>
    BY DEF IsRowOf, RowMessage, Message, RowText, RowHead
  <1>2. ASSUME NEW l \in Nat, IsRowOf(m, r, l) PROVE l = k
    <2>1. m.text.head = <<"row", l - 1>>
      BY <1>2 DEF IsRowOf, RowMessage, Message, RowText, RowHead
    <2>2. k - 1 = l - 1
      BY <1>1, <2>1
    <2> QED
      BY <2>2
  <1> QED
    BY <1>1, <1>2 DEF Mine

\* The message at the head of the inbox carries the next number.
LEMMA HeadNumber ==
    ASSUME NEW S, NEW q \in Seq(S), q # <<>>, NEW r, NEW n \in Nat, NEW end,
           InLine(q, r, n, end), Mine(Head(q), r)
    PROVE  Numbered(Head(q), r, n + 1, end)
  <1>1. 1 \in 1 .. Len(q) /\ Head(q) = q[1]
    OBVIOUS
  <1>2. PICK k \in Nat \ {0} : Numbered(q[1], r, k, end) /\ (k = n + 1 \/ 1 > 1)
    BY <1>1 DEF InLine
  <1> QED
    BY <1>1, <1>2

\* Where the messages of the tail stood.
LEMMA TailPlaces ==
    ASSUME NEW S, NEW q \in Seq(S), q # <<>>
    PROVE  /\ Tail(q) \in Seq(S) /\ Len(Tail(q)) = Len(q) - 1 /\ Len(q) > 0
           /\ \A j \in 1 .. Len(Tail(q)) :
                  Tail(q)[j] = q[j + 1] /\ j + 1 \in 1 .. Len(q)
           /\ Head(q) = q[1] /\ 1 \in 1 .. Len(q)
  OBVIOUS

\* And where those of a longer inbox stand.
LEMMA AppendPlaces ==
    ASSUME NEW S, NEW q \in Seq(S), NEW m \in S
    PROVE  /\ Append(q, m) \in Seq(S) /\ Len(Append(q, m)) = Len(q) + 1
           /\ Append(q, m) # <<>> /\ Len(q) \in Nat
           /\ \A j \in 1 .. Len(q) : Append(q, m)[j] = q[j]
           /\ Append(q, m)[Len(q) + 1] = m
  OBVIOUS

\* The next row is received.
LEMMA TailRow ==
    ASSUME NEW S, NEW q \in Seq(S), q # <<>>, NEW r, NEW n \in Nat, NEW end,
           InLine(q, r, n, end), IsRowOf(Head(q), r, n + 1)
    PROVE  InLine(Tail(q), r, n + 1, end)
  <1> DEFINE t == Tail(q)
  <1>1. /\ t \in Seq(S) /\ Len(t) = Len(q) - 1 /\ Len(t) \in Nat
        /\ \A j \in 1 .. Len(t) : t[j] = q[j + 1] /\ j + 1 \in 1 .. Len(q)
        /\ Head(q) = q[1] /\ 1 \in 1 .. Len(q)
    BY TailPlaces
  <1>2. Mine(q[1], r) /\ \A l \in Nat : IsRowOf(q[1], r, l) => l = n + 1
    BY <1>1, RowsTell
  <1> HIDE DEF t
  <1> SUFFICES ASSUME NEW j \in 1 .. Len(t), Mine(t[j], r)
               PROVE  \E k \in Nat \ {0} :
                          /\ Numbered(t[j], r, k, end)
                          /\ \/ k = n + 1 + 1 /\ \A l \in 1 .. j - 1 : ~Mine(t[l], r)
                             \/ j > 1 /\ k > 1 /\ IsRowOf(t[j - 1], r, k - 1)
    BY DEF InLine, t
  <1>3. PICK k \in Nat \ {0} :
            /\ Numbered(q[j + 1], r, k, end)
            /\ \/ k = n + 1 /\ \A l \in 1 .. j : ~Mine(q[l], r)
               \/ j + 1 > 1 /\ k > 1 /\ IsRowOf(q[j], r, k - 1)
    BY <1>1 DEF InLine
  <1>4. ~(\A l \in 1 .. j : ~Mine(q[l], r))
    BY <1>1, <1>2
  <1>5. IsRowOf(q[j], r, k - 1) /\ k > 1 /\ k - 1 \in Nat
    BY <1>3, <1>4
  <1>6. Numbered(t[j], r, k, end)
    BY <1>1, <1>3
  <1>7. CASE j = 1
    <2>1. k = n + 1 + 1
      BY <1>2, <1>5, <1>7
    <2> QED
      BY <2>1, <1>6, <1>7
  <1>8. CASE j > 1
    <2>1. t[j - 1] = q[j]
      BY <1>1, <1>8
    <2> QED
      BY <2>1, <1>5, <1>6, <1>8
  <1> QED
    BY <1>1, <1>7, <1>8

\* A message of another request is taken.
LEMMA TailOther ==
    ASSUME NEW S, NEW q \in Seq(S), q # <<>>, NEW r, NEW n \in Nat, NEW end,
           InLine(q, r, n, end), ~Mine(Head(q), r)
    PROVE  InLine(Tail(q), r, n, end)
  <1> DEFINE t == Tail(q)
  <1>1. /\ t \in Seq(S) /\ Len(t) = Len(q) - 1 /\ Len(t) \in Nat
        /\ \A j \in 1 .. Len(t) : t[j] = q[j + 1] /\ j + 1 \in 1 .. Len(q)
        /\ Head(q) = q[1] /\ 1 \in 1 .. Len(q)
    BY TailPlaces
  <1> HIDE DEF t
  <1> SUFFICES ASSUME NEW j \in 1 .. Len(t), Mine(t[j], r)
               PROVE  \E k \in Nat \ {0} :
                          /\ Numbered(t[j], r, k, end)
                          /\ \/ k = n + 1 /\ \A l \in 1 .. j - 1 : ~Mine(t[l], r)
                             \/ j > 1 /\ k > 1 /\ IsRowOf(t[j - 1], r, k - 1)
    BY DEF InLine, t
  <1>2. PICK k \in Nat \ {0} :
            /\ Numbered(q[j + 1], r, k, end)
            /\ \/ k = n + 1 /\ \A l \in 1 .. j : ~Mine(q[l], r)
               \/ k > 1 /\ IsRowOf(q[j], r, k - 1)
    BY <1>1 DEF InLine
  <1>3. Numbered(t[j], r, k, end)
    BY <1>1, <1>2
  <1>4. CASE k = n + 1 /\ \A l \in 1 .. j : ~Mine(q[l], r)
    <2>1. ASSUME NEW l \in 1 .. j - 1 PROVE ~Mine(t[l], r)
      BY SMTT(30), <1>1, <1>4
    <2> QED
      BY <2>1, <1>3, <1>4
  <1>5. CASE k > 1 /\ IsRowOf(q[j], r, k - 1)
    <2>1. Mine(q[j], r)
      BY <1>5, RowsTell
    <2>2. j > 1
      BY <2>1, <1>1
    <2>3. t[j - 1] = q[j]
      BY <2>2, <1>1
    <2> QED
      BY <2>2, <2>3, <1>3, <1>5
  <1> QED
    BY <1>2, <1>4, <1>5

\* A message is posted that is not of r, or carries the next number of r.
LEMMA AppendInLine ==
    ASSUME NEW S, NEW q \in Seq(S), NEW m \in S, NEW r, NEW n \in Nat, NEW end,
           NEW posted \in Nat, InLine(q, r, n, end),
           Mine(m, r) => Numbered(m, r, posted + 1, end) /\ LastOf(q, r, n, posted)
    PROVE  InLine(Append(q, m), r, n, end)
  <1> DEFINE t == Append(q, m)
  <1>1. /\ Len(t) = Len(q) + 1 /\ Len(q) \in Nat
        /\ \A j \in 1 .. Len(q) : t[j] = q[j]
        /\ t[Len(q) + 1] = m
    BY AppendPlaces
  <1> HIDE DEF t
  <1> SUFFICES ASSUME NEW j \in 1 .. Len(t), Mine(t[j], r)
               PROVE  \E k \in Nat \ {0} :
                          /\ Numbered(t[j], r, k, end)
                          /\ \/ k = n + 1 /\ \A l \in 1 .. j - 1 : ~Mine(t[l], r)
                             \/ j > 1 /\ k > 1 /\ IsRowOf(t[j - 1], r, k - 1)
    BY DEF InLine, t
  <1>2. CASE j <= Len(q)
    <2>1. PICK k \in Nat \ {0} :
              /\ Numbered(q[j], r, k, end)
              /\ \/ k = n + 1 /\ \A l \in 1 .. j - 1 : ~Mine(q[l], r)
                 \/ j > 1 /\ k > 1 /\ IsRowOf(q[j - 1], r, k - 1)
      BY <1>1, <1>2 DEF InLine
    <2>2. Numbered(t[j], r, k, end)
      BY <1>1, <1>2, <2>1
    <2>3. \A l \in 1 .. j - 1 : t[l] = q[l]
      BY <1>1, <1>2
    <2>4. j > 1 => t[j - 1] = q[j - 1]
      BY <1>1, <1>2
    <2> QED
      BY <2>1, <2>2, <2>3, <2>4
  <1>3. CASE j = Len(q) + 1
    <2>1. Numbered(t[j], r, posted + 1, end) /\ LastOf(q, r, n, posted)
      BY <1>1, <1>3
    <2>2. CASE n = posted /\ None(q, r)
      <3>1. \A l \in 1 .. j - 1 : ~Mine(t[l], r)
        BY <1>1, <1>3, <2>2 DEF None
      <3> QED
        BY <2>1, <2>2, <3>1
    <2>3. CASE q # <<>> /\ posted > 0 /\ IsRowOf(q[Len(q)], r, posted)
      <3>1. Len(q) > 0
        BY <2>3
      <3>2. t[j - 1] = q[Len(q)] /\ j > 1
        BY <1>1, <1>3, <3>1
      <3>3. posted + 1 > 1 /\ posted + 1 - 1 = posted
        BY <2>3
      <3> QED
        BY <2>1, <2>3, <3>2, <3>3
    <2> QED
      BY <2>1, <2>2, <2>3 DEF LastOf
  <1> QED
    BY <1>1, <1>2, <1>3

\* Without a message that ends the request, any number may end it.
LEMMA EndLater ==
    ASSUME NEW S, NEW q \in Seq(S), NEW r, NEW n \in Nat, NEW end, InLine(q, r, n, 0)
    PROVE  InLine(q, r, n, end)
  <1>1. ASSUME NEW m, NEW k \in Nat \ {0}, Numbered(m, r, k, 0) PROVE Numbered(m, r, k, end)
    BY <1>1 DEF Numbered
  <1> QED
    BY <1>1 DEF InLine

\* The last row posted stays the last when others are received.
LEMMA TailLast ==
    ASSUME NEW S, NEW q \in Seq(S), q # <<>>, NEW r, NEW n \in Nat, NEW posted \in Nat,
           LastOf(q, r, n, posted)
    PROVE  /\ ~Mine(Head(q), r) => LastOf(Tail(q), r, n, posted)
           /\ IsRowOf(Head(q), r, n + 1) => LastOf(Tail(q), r, n + 1, posted)
  <1> DEFINE t == Tail(q)
  <1>1. /\ t \in Seq(S) /\ Len(t) = Len(q) - 1 /\ Len(t) \in Nat /\ Len(q) > 0
        /\ \A j \in 1 .. Len(t) : t[j] = q[j + 1] /\ j + 1 \in 1 .. Len(q)
        /\ Head(q) = q[1] /\ 1 \in 1 .. Len(q)
    BY TailPlaces
  <1> HIDE DEF t
  <1>2. CASE n = posted /\ None(q, r)
    <2>1. ~Mine(q[1], r) /\ None(t, r)
      BY <1>1, <1>2 DEF None
    <2>2. ~IsRowOf(q[1], r, n + 1)
      BY <2>1, RowsTell
    <2> QED
      BY <1>1, <1>2, <2>1, <2>2 DEF LastOf, t
  <1>3. CASE posted > 0 /\ IsRowOf(q[Len(q)], r, posted)
    <2>1. Mine(q[Len(q)], r) /\ \A l \in Nat : IsRowOf(q[Len(q)], r, l) => l = posted
      BY <1>3, RowsTell
    <2>2. CASE Len(q) = 1
      <3>1. Mine(Head(q), r) /\ (IsRowOf(Head(q), r, n + 1) => n + 1 = posted)
        BY <1>1, <2>1, <2>2
      <3>2. None(t, r)
        BY <1>1, <2>2 DEF None
      <3> QED
        BY <3>1, <3>2 DEF LastOf, t
    <2>3. CASE Len(q) > 1
      <3>1. t # <<>> /\ t[Len(t)] = q[Len(q)]
        BY <1>1, <2>3
      <3> QED
        BY <1>3, <3>1 DEF LastOf, t
    <2> QED
      BY <1>1, <2>2, <2>3
  <1> QED
    BY <1>2, <1>3 DEF LastOf

\* A row is posted behind the last, or another request posts while nothing
\* of this one waits.
LEMMA AppendLast ==
    ASSUME NEW S, NEW q \in Seq(S), NEW m \in S, NEW r, NEW n \in Nat, NEW posted \in Nat
    PROVE  /\ IsRowOf(m, r, posted + 1) => LastOf(Append(q, m), r, n, posted + 1)
           /\ ~Mine(m, r) /\ n = posted /\ None(q, r) => LastOf(Append(q, m), r, n, posted)
  <1> DEFINE t == Append(q, m)
  <1>1. /\ Len(t) = Len(q) + 1 /\ Len(q) \in Nat /\ t # <<>>
        /\ \A j \in 1 .. Len(q) : t[j] = q[j]
        /\ t[Len(q) + 1] = m
    BY AppendPlaces
  <1> HIDE DEF t
  <1>2. ASSUME IsRowOf(m, r, posted + 1) PROVE LastOf(t, r, n, posted + 1)
    BY <1>1, <1>2 DEF LastOf
  <1>3. ASSUME ~Mine(m, r), n = posted, None(q, r) PROVE LastOf(t, r, n, posted)
    <2>1. ASSUME NEW j \in 1 .. Len(t) PROVE ~Mine(t[j], r)
      <3>1. CASE j <= Len(q)
        BY <1>1, <1>3, <3>1 DEF None
      <3>2. CASE j = Len(q) + 1
        BY <1>1, <1>3, <3>2
      <3> QED
        BY <1>1, <3>1, <3>2
    <2> QED
      BY <1>3, <2>1 DEF LastOf, None
  <1> QED
    BY <1>2, <1>3 DEF t

\* A request that only ends: its messages, taken and added.
LEMMA LastsStay ==
    ASSUME NEW S, NEW q \in Seq(S), NEW r, OnlyLasts(q, r)
    PROVE  /\ q # <<>> => OnlyLasts(Tail(q), r) /\ (Mine(Head(q), r) => IsLast(Head(q), r))
           /\ \A m \in S : (Mine(m, r) => IsLast(m, r)) => OnlyLasts(Append(q, m), r)
  <1>1. ASSUME q # <<>>
        PROVE  OnlyLasts(Tail(q), r) /\ (Mine(Head(q), r) => IsLast(Head(q), r))
    BY <1>1, TailPlaces DEF OnlyLasts
  <1>2. ASSUME NEW m \in S, Mine(m, r) => IsLast(m, r)
        PROVE  OnlyLasts(Append(q, m), r)
    <2> DEFINE t == Append(q, m)
    <2>1. /\ Len(t) = Len(q) + 1 /\ Len(q) \in Nat
          /\ \A j \in 1 .. Len(q) : t[j] = q[j]
          /\ t[Len(q) + 1] = m
      BY AppendPlaces
    <2> HIDE DEF t
    <2>2. ASSUME NEW j \in 1 .. Len(t), Mine(t[j], r) PROVE IsLast(t[j], r)
      <3>1. CASE j <= Len(q)
        BY <2>1, <2>2, <3>1 DEF OnlyLasts
      <3>2. CASE j = Len(q) + 1
        BY <2>1, <2>2, <3>2, <1>2
      <3> QED
        BY <2>1, <3>1, <3>2
    <2> QED
      BY <2>2 DEF OnlyLasts, t
  <1> QED
    BY <1>1, <1>2

-----------------------------------------------------------------------------
(* Requests a step leaves alone.                                           *)

\* Nothing of the request s changes.
Kept(s) ==
    /\ pc'[s] = pc[s] /\ call'[s] = call[s]
    /\ produced'[s] = produced[s] /\ result'[s] = result[s]
    /\ received'[s] = received[s] /\ outcome'[s] = outcome[s]
    /\ s \in replyOpen' <=> s \in replyOpen

\* Its stage and what it received tell what they told.
LEMMA KeptTells ==
    ASSUME NEW s \in Requests, Staged(s), Told(s), Kept(s)
    PROVE  Staged(s)' /\ Told(s)'
  <1>1. Staged(s)'
    BY DEF Staged, Kept, Settled
  <1>2. Told(s)'
    BY DEF Told, Kept, Settled, AllRows
  <1> QED
    BY <1>1, <1>2

\* Its messages wait where they waited.
LEMMA LineSame ==
    ASSUME NEW i \in Isolates, NEW s \in Requests, Line(i, s), Kept(s),
           inbox'[i] = inbox[i]
    PROVE  Line(i, s)'
  BY DEF Line, Kept, Posted, End

\* It is not handled, so it has no row left to post and none waiting: the
\* message of another request stands behind nothing of its own.
LEMMA LineAdded ==
    ASSUME Inv, NEW i \in Isolates, NEW s \in Requests, Staged(s), Line(i, s), Kept(s),
           pc[s] \notin InHandler,
           NEW m \in Messages, ~Mine(m, s), inbox'[i] = Append(inbox[i], m)
    PROVE  Line(i, s)'
  <1> DEFINE q == inbox[i]
             n == Len(received[s])
  <1>1. q \in Seq(Messages) /\ n \in Nat
    BY DEF Inv, TypeOK
  <1>2. produced[s] \in Nat /\ End(s) = End(s)' /\ Posted(s) = Posted(s)'
    BY DEF Inv, TypeOK, End, Posted, Kept
  <1> HIDE DEF q, n
  <1>3. InLine(q, s, n, End(s)) => InLine(Append(q, m), s, n, End(s))
    BY <1>1, <1>2, AppendInLine
  <1>4. pc[s] \in Streaming => produced[s] = 0 /\ Posted(s) = 0
    BY DEF Staged, Streaming, InHandler, Posted
  <1>5. pc[s] \in Streaming /\ LastOf(q, s, n, Posted(s)) =>
            LastOf(Append(q, m), s, n, Posted(s))
    <2> SUFFICES ASSUME pc[s] \in Streaming, LastOf(q, s, n, Posted(s))
                 PROVE  LastOf(Append(q, m), s, n, Posted(s))
      OBVIOUS
    <2>1. Posted(s) = 0 /\ n = 0 /\ None(q, s)
      BY <1>4 DEF LastOf
    <2> QED
      BY <1>1, <2>1, AppendLast
  <1>6. OnlyLasts(q, s) => OnlyLasts(Append(q, m), s)
    BY <1>1, LastsStay
  <1> QED
    BY <1>2, <1>3, <1>5, <1>6 DEF Line, Kept, q, n

\* A message of another request is taken.
LEMMA LineTaken ==
    ASSUME Inv, NEW i \in Isolates, NEW s \in Requests, Staged(s), Line(i, s), Kept(s),
           inbox[i] # <<>>, ~Mine(Head(inbox[i]), s), inbox'[i] = Tail(inbox[i])
    PROVE  Line(i, s)'
  <1> DEFINE q == inbox[i]
             n == Len(received[s])
  <1>1. q \in Seq(Messages) /\ n \in Nat
    BY DEF Inv, TypeOK
  <1>2. produced[s] \in Nat /\ End(s) = End(s)' /\ Posted(s) = Posted(s)'
    BY DEF Inv, TypeOK, End, Posted, Kept
  <1>3. Posted(s) \in Nat
    BY <1>2 DEF Posted, Staged
  <1> HIDE DEF q, n
  <1>4. q # <<>> /\ ~Mine(Head(q), s)
    BY DEF q
  <1>5. InLine(q, s, n, End(s)) => InLine(Tail(q), s, n, End(s))
    BY <1>1, <1>4, TailOther
  <1>6. LastOf(q, s, n, Posted(s)) => LastOf(Tail(q), s, n, Posted(s))
    BY <1>1, <1>3, <1>4, TailLast
  <1>7. OnlyLasts(q, s) => OnlyLasts(Tail(q), s)
    BY <1>1, <1>4, LastsStay
  <1> QED
    BY <1>2, <1>5, <1>6, <1>7 DEF Line, Kept, q, n

\* A step that touches neither the buffer nor the inbox.
LEMMA QuietStep ==
    ASSUME NEW i \in Isolates, NEW s \in Requests, Whole(i, s), Kept(s),
           UNCHANGED <<dynpointer, execRowIndex, inbox>>
    PROVE  Whole(i, s)'
  <1>1. Staged(s)' /\ Told(s)'
    BY KeptTells DEF Whole
  <1>2. Line(i, s)'
    BY LineSame DEF Whole
  <1>3. Buffer(s)'
    BY DEF Whole, Buffer, Kept
  <1> QED
    BY <1>1, <1>2, <1>3 DEF Whole

\* A step of the handler of r, seen from a request that is not handled.
LEMMA OtherHandled ==
    ASSUME Inv, NEW i \in Isolates, NEW s \in Requests, Whole(i, s), Kept(s),
           pc[s] \notin InHandler,
           \/ UNCHANGED inbox
           \/ \E m \in Messages : ~Mine(m, s) /\ inbox'[i] = Append(inbox[i], m)
    PROVE  Whole(i, s)'
  <1>1. Staged(s)' /\ Told(s)'
    BY KeptTells DEF Whole
  <1>2. Line(i, s)'
    BY LineSame, LineAdded DEF Whole
  <1>3. Buffer(s)'
    BY DEF Buffer, Kept, InHandler
  <1> QED
    BY <1>1, <1>2, <1>3 DEF Whole

-----------------------------------------------------------------------------
(* The request a handler serves.                                           *)

\* What it received changes in no step of a handler.
LEMMA ToldOn ==
    ASSUME NEW r \in Requests, Told(r), pc[r] # "unused",
           call[r].op = "exec" => pc[r] # "replied",
           received'[r] = received[r], outcome'[r] = outcome[r], call'[r] = call[r],
           produced'[r] = produced[r] \/ call[r].op = "exec"
    PROVE  Told(r)'
  <1>1. CASE Settled(r)
    <2>1. call[r].op # "exec" /\ produced'[r] = produced[r]
      BY <1>1 DEF Told
    <2> QED
      BY <1>1, <2>1 DEF Told, Settled, AllRows
  <1>2. CASE ~Settled(r)
    BY <1>2 DEF Told, Settled, AllRows
  <1> QED
    BY <1>1, <1>2

\* Nor does its line while it posts nothing.
LEMMA LineOn ==
    ASSUME NEW i \in Isolates, NEW r \in Requests, Line(i, r),
           UNCHANGED <<inbox, replyOpen>>,
           received'[r] = received[r], call'[r] = call[r],
           call[r].op = "exec" =>
               /\ End(r)' = End(r)
               /\ pc[r] \in Streaming /\ Posted(r)' = Posted(r)
    PROVE  Line(i, r)'
  BY DEF Line

\* What a message is made of.
LEMMA MessageTells ==
    ASSUME NEW r, NEW type, NEW t
    PROVE  /\ Mine(Message(r, type, t), r)
           /\ Message(r, type, t).type = type
           /\ type = "string" => Message(r, type, t).text = t
           /\ \A s : Mine(Message(r, type, t), s) => s = r
  BY DEF Message, Mine

\* A handler posts to the one isolate, if the port is open.
LEMMA PostTells ==
    ASSUME Inv, NEW i, Isolates = {i}, NEW r \in Requests, pc[r] # "unused",
           NEW type \in MessageTypes, NEW t \in Texts, Post(r, type, t)
    PROVE  /\ Message(r, type, t) \in Messages
           /\ r \in replyOpen => inbox'[i] = Append(inbox[i], Message(r, type, t))
           /\ r \notin replyOpen => UNCHANGED inbox
  <1>1. Message(r, type, t) \in Messages
    BY FreshTexts DEF Message, Messages
  <1>2. call[r].isolate = i
    BY DEF Inv, TypeOK, Calls
  <1>3. r \in replyOpen => inbox'[i] = Append(inbox[i], Message(r, type, t))
    BY <1>2 DEF Post, Inv, TypeOK
  <1> QED
    BY <1>1, <1>3 DEF Post

-----------------------------------------------------------------------------
(* The steps of a handler.                                                 *)

\* Only the handler of r runs.
Serving(i, r) == /\ \A s \in Requests : Whole(i, s)
                 /\ \A s \in Requests \ {r} : pc[s] \notin InHandler

\* A wrapper that makes its one call leaves the buffer to nobody.
LEMMA SimpleCallRows ==
    ASSUME Inv, NEW i, Isolates = {i}, NEW r \in Requests, Serving(i, r), SimpleCall(r)
    PROVE  \A s \in Requests : Whole(i, s)'
  <1> USE DEF dartVars, replyVars
  <1>1. /\ pc[r] = "simple" /\ pc \in [Requests -> Stages]
        /\ result \in [Requests -> MessageTypes]
        /\ UNCHANGED <<inbox, replyOpen, call, received, outcome, produced>>
        /\ \/ /\ \E type \in {"text", "int"} : result' = [result EXCEPT ![r] = type]
              /\ pc' = [pc EXCEPT ![r] = "reply"]
           \/ result' = result /\ pc' = [pc EXCEPT ![r] = "mount"]
    BY DEF SimpleCall, Goto, Inv, TypeOK
  <1>2. ASSUME NEW s \in Requests \ {r} PROVE Whole(i, s)'
    <2>1. Kept(s)
      BY <1>1 DEF Kept
    <2> QED
      BY <1>1, <2>1, OtherHandled DEF Serving
  <1>3. call[r].op # "exec" /\ Whole(i, r)
    BY <1>1 DEF Serving, Whole, Staged
  <1>4. Staged(r)'
    BY <1>1, <1>3 DEF Whole, Staged
  <1>5. Told(r)'
    BY <1>1, <1>3, ToldOn DEF Whole
  <1>6. Line(i, r)'
    BY <1>1, <1>3, LineOn DEF Whole
  <1>7. Buffer(r)'
    BY <1>1, <1>3 DEF Whole, Staged, Buffer
  <1> QED
    BY <1>2, <1>4, <1>5, <1>6, <1>7 DEF Whole

\* Entering sqlite3_exec keeps the index as it was reset.
LEMMA ExecEnterRows ==
    ASSUME Inv, NEW i, Isolates = {i}, NEW r \in Requests, Serving(i, r), ExecEnter(r)
    PROVE  \A s \in Requests : Whole(i, s)'
  <1> USE DEF dartVars, threadVars, replyVars
  <1>1. /\ pc[r] = "exec" /\ pc \in [Requests -> Stages]
        /\ UNCHANGED <<inbox, replyOpen, call, received, outcome, produced, result,
                       dynpointer, execRowIndex>>
        /\ pc' = [pc EXCEPT ![r] = "row"]
    BY DEF ExecEnter, Goto, Inv, TypeOK
  <1>2. ASSUME NEW s \in Requests \ {r} PROVE Whole(i, s)'
    <2>1. Kept(s)
      BY <1>1 DEF Kept
    <2> QED
      BY <1>1, <2>1, OtherHandled DEF Serving
  <1>3. call[r].op = "exec" /\ Whole(i, r)
    BY <1>1 DEF Serving, Whole, Staged
  <1>4. Staged(r)'
    BY <1>1, <1>3 DEF Whole, Staged
  <1>5. Told(r)'
    BY <1>1, <1>3, ToldOn DEF Whole
  <1>6. Line(i, r)'
    BY <1>1, <1>3, LineOn DEF Whole, End, Posted, Streaming
  <1>7. Buffer(r)'
    BY <1>1, <1>3 DEF Whole, Buffer
  <1> QED
    BY <1>2, <1>4, <1>5, <1>6, <1>7 DEF Whole

\* sqlite3_exec returns after its last row was posted.
LEMMA ExecReturnRows ==
    ASSUME Inv, NEW i, Isolates = {i}, NEW r \in Requests, Serving(i, r), ExecReturn(r)
    PROVE  \A s \in Requests : Whole(i, s)'
  <1> USE DEF dartVars, replyVars
  <1>1. /\ pc[r] = "row" /\ pc \in [Requests -> Stages]
        /\ result \in [Requests -> MessageTypes]
        /\ UNCHANGED <<inbox, replyOpen, call, received, outcome, produced>>
        /\ \/ /\ result' = [result EXCEPT ![r] = "null"]
              /\ pc' = [pc EXCEPT ![r] = "reply"]
           \/ result' = result /\ pc' = [pc EXCEPT ![r] = "mount"]
    BY DEF ExecReturn, Goto, Inv, TypeOK
  <1>2. ASSUME NEW s \in Requests \ {r} PROVE Whole(i, s)'
    <2>1. Kept(s)
      BY <1>1 DEF Kept
    <2> QED
      BY <1>1, <2>1, OtherHandled DEF Serving
  <1>3. call[r].op = "exec" /\ Whole(i, r)
    BY <1>1 DEF Serving, Whole, Staged
  <1>4. Staged(r)'
    BY <1>1, <1>3 DEF Whole, Staged
  <1>5. Told(r)'
    BY <1>1, <1>3, ToldOn DEF Whole
  <1>6. Line(i, r)'
    BY <1>1, <1>3, LineOn DEF Whole, End, Posted, Streaming
  <1>7. Buffer(r)'
    BY <1>1, <1>3 DEF Whole, Staged, Buffer
  <1> QED
    BY <1>2, <1>4, <1>5, <1>6, <1>7 DEF Whole

\* The exception in the buffer is that of the request.
LEMMA MountExceptionRows ==
    ASSUME Inv, NEW i, Isolates = {i}, NEW r \in Requests, Serving(i, r), MountException(r)
    PROVE  \A s \in Requests : Whole(i, s)'
  <1> USE DEF dartVars, replyVars
  <1>1. /\ pc[r] = "mount" /\ pc \in [Requests -> Stages]
        /\ result \in [Requests -> MessageTypes]
        /\ UNCHANGED <<inbox, replyOpen, call, received, outcome, produced>>
        /\ result' = [result EXCEPT ![r] = "string"]
        /\ pc' = [pc EXCEPT ![r] = "reply"]
        /\ dynpointer' = ErrorText(r)
    BY DEF MountException, Goto, Inv, TypeOK
  <1>2. ASSUME NEW s \in Requests \ {r} PROVE Whole(i, s)'
    <2>1. Kept(s)
      BY <1>1 DEF Kept
    <2> QED
      BY <1>1, <2>1, OtherHandled DEF Serving
  <1>3. Whole(i, r)
    BY DEF Serving
  <1>4. Staged(r)'
    BY <1>1, <1>3 DEF Whole, Staged
  <1>5. Told(r)'
    BY <1>1, <1>3, ToldOn DEF Whole
  <1>6. Line(i, r)'
    BY <1>1, <1>3, LineOn DEF Whole, End, Posted, Streaming
  <1>7. Buffer(r)'
    BY <1>1 DEF Buffer
  <1> QED
    BY <1>2, <1>4, <1>5, <1>6, <1>7 DEF Whole

\* The index of the next row: the counter was reset to its largest value and
\* wraps to 0 at the first row.
LEMMA NextIndex ==
    ASSUME NEW n \in Nat, n < MaxRows,
           NEW x \in Nat, x = IF n = 0 THEN IndexSpace - 1 ELSE n - 1
    PROVE  (x + 1) % IndexSpace = n
  <1>1. IndexSpace \in Nat /\ IndexSpace > 0 /\ n < IndexSpace
    BY BridgeAssumption
  <1>2. CASE n = 0
    <2>1. x + 1 = IndexSpace
      BY <1>1, <1>2
    <2>2. IndexSpace % IndexSpace = 0
      BY <1>1
    <2> QED
      BY <1>2, <2>1, <2>2
  <1>3. CASE n # 0
    <2>1. x + 1 = n
      BY <1>3
    <2>2. n % IndexSpace = n
      BY <1>1
    <2> QED
      BY <2>1, <2>2
  <1> QED
    BY <1>2, <1>3

\* The callback starts the buffer with the number of the row.
LEMMA RowIndexRows ==
    ASSUME Inv, NEW i, Isolates = {i}, NEW r \in Requests, Serving(i, r), RowIndex(r)
    PROVE  \A s \in Requests : Whole(i, s)'
  <1> USE DEF dartVars, replyVars
  <1>1. /\ pc[r] = "row" /\ pc \in [Requests -> Stages]
        /\ produced[r] \in Nat /\ produced[r] < MaxRows
        /\ produced \in [Requests -> 0 .. MaxRows] /\ execRowIndex \in Nat
        /\ UNCHANGED <<inbox, replyOpen, call, received, outcome, result>>
        /\ produced' = [produced EXCEPT ![r] = @ + 1]
        /\ execRowIndex' = (execRowIndex + 1) % IndexSpace
        /\ dynpointer' = [head |-> RowHead(execRowIndex'), cols |-> <<>>]
        /\ pc' = [pc EXCEPT ![r] = "columns"]
    BY BridgeAssumption DEF RowIndex, Goto, Inv, TypeOK
  <1>2. ASSUME NEW s \in Requests \ {r} PROVE Whole(i, s)'
    <2>1. Kept(s)
      BY <1>1 DEF Kept
    <2> QED
      BY <1>1, <2>1, OtherHandled DEF Serving
  <1>3. call[r].op = "exec" /\ Whole(i, r)
    BY <1>1 DEF Serving, Whole, Staged
  <1>4. produced'[r] = produced[r] + 1 /\ pc'[r] = "columns"
    BY <1>1
  <1>5. Staged(r)'
    BY <1>1, <1>3, <1>4 DEF Whole, Staged
  <1>6. Told(r)'
    BY <1>1, <1>3, ToldOn DEF Whole
  <1>7. Line(i, r)'
    <2>1. Posted(r)' = Posted(r) /\ End(r)' = End(r) /\ pc[r] \in Streaming
      BY <1>1, <1>4 DEF Posted, End, Streaming
    <2> QED
      BY <1>1, <1>3, <2>1, LineOn DEF Whole
  <1>8. execRowIndex' = produced[r]
    <2>1. execRowIndex = IF produced[r] = 0 THEN IndexSpace - 1 ELSE produced[r] - 1
      BY <1>1, <1>3 DEF Whole, Buffer
    <2> QED
      BY <1>1, <2>1, NextIndex
  <1>9. Buffer(r)'
    <2>1. produced'[r] - 1 = produced[r]
      BY <1>1, <1>4
    <2> QED
      BY <1>1, <1>4, <1>8, <2>1 DEF Buffer
  <1> QED
    BY <1>2, <1>5, <1>6, <1>7, <1>9 DEF Whole

\* The columns of the row follow its number.
LEMMA RowColumnsRows ==
    ASSUME Inv, NEW i, Isolates = {i}, NEW r \in Requests, Serving(i, r), RowColumns(r)
    PROVE  \A s \in Requests : Whole(i, s)'
  <1> USE DEF dartVars, replyVars
  <1>1. /\ pc[r] = "columns" /\ pc \in [Requests -> Stages]
        /\ UNCHANGED <<inbox, replyOpen, call, received, outcome, result, produced,
                       execRowIndex>>
        /\ dynpointer' = [dynpointer EXCEPT !.cols = Append(@, <<r, produced[r]>>)]
        /\ pc' = [pc EXCEPT ![r] = "post"]
    BY DEF RowColumns, Goto, Inv, TypeOK
  <1>2. ASSUME NEW s \in Requests \ {r} PROVE Whole(i, s)'
    <2>1. Kept(s)
      BY <1>1 DEF Kept
    <2> QED
      BY <1>1, <2>1, OtherHandled DEF Serving
  <1>3. call[r].op = "exec" /\ Whole(i, r)
    BY <1>1 DEF Serving, Whole, Staged
  <1>4. Staged(r)'
    BY <1>1, <1>3 DEF Whole, Staged
  <1>5. Told(r)'
    BY <1>1, <1>3, ToldOn DEF Whole
  <1>6. Line(i, r)'
    BY <1>1, <1>3, LineOn DEF Whole, End, Posted, Streaming
  <1>7. dynpointer' = RowText(r, produced[r])
    <2>1. dynpointer = [head |-> RowHead(produced[r] - 1), cols |-> <<>>]
      BY <1>1, <1>3 DEF Whole, Buffer
    <2> QED
      BY <1>1, <2>1 DEF RowText
  <1>8. Buffer(r)'
    BY <1>1, <1>3, <1>7 DEF Whole, Buffer
  <1> QED
    BY <1>2, <1>4, <1>5, <1>6, <1>8 DEF Whole

\* The row is posted behind the row before it.
LEMMA RowPostRows ==
    ASSUME Inv, NEW i, Isolates = {i}, NEW r \in Requests, Serving(i, r), RowPost(r)
    PROVE  \A s \in Requests : Whole(i, s)'
  <1> USE DEF dartVars, threadVars
  <1> DEFINE m == Message(r, "string", dynpointer)
             q == inbox[i]
             n == Len(received[r])
  <1>1. /\ pc[r] = "post" /\ pc \in [Requests -> Stages]
        /\ Post(r, "string", dynpointer) /\ dynpointer \in Texts
        /\ UNCHANGED <<replyOpen, call, received, outcome, result, produced,
                       dynpointer, execRowIndex>>
        /\ pc' = [pc EXCEPT ![r] = "row"]
    BY DEF RowPost, Goto, Inv, TypeOK
  <1>2. /\ m \in Messages
        /\ r \in replyOpen => inbox'[i] = Append(q, m)
        /\ r \notin replyOpen => UNCHANGED inbox
        /\ Mine(m, r) /\ \A s : Mine(m, s) => s = r
    BY <1>1, PostTells, MessageTells DEF MessageTypes
  <1>3. ASSUME NEW s \in Requests \ {r} PROVE Whole(i, s)'
    <2>1. Kept(s)
      BY <1>1 DEF Kept
    <2> QED
      BY <1>2, <2>1, OtherHandled DEF Serving
  <1>4. call[r].op = "exec" /\ Whole(i, r)
    BY <1>1 DEF Serving, Whole, Staged
  <1>5. Staged(r)'
    BY <1>1, <1>4 DEF Whole, Staged
  <1>6. Told(r)'
    BY <1>1, <1>4, ToldOn DEF Whole
  <1>7. /\ produced[r] \in Nat /\ Posted(r) \in Nat /\ produced[r] = Posted(r) + 1
        /\ Posted(r)' = Posted(r) + 1 /\ End(r) = 0 /\ End(r)' = 0
        /\ n \in Nat /\ q \in Seq(Messages)
    BY <1>1, <1>4 DEF Whole, Staged, Posted, End, Inv, TypeOK
  <1>8. IsRowOf(m, r, Posted(r) + 1)
    BY <1>1, <1>4, <1>7 DEF Whole, Buffer, IsRowOf, RowMessage
  <1>9. Line(i, r)'
    <2> SUFFICES ASSUME r \in replyOpen PROVE Line(i, r)'
      BY <1>1 DEF Line
    <2>1. InLine(q, r, n, 0) /\ LastOf(q, r, n, Posted(r))
      BY <1>1, <1>4, <1>7 DEF Whole, Line, Streaming
    <2> HIDE DEF m, q, n
    <2>2. InLine(Append(q, m), r, n, 0)
      BY <1>2, <1>7, <1>8, <2>1, AppendInLine DEF Numbered
    <2>3. LastOf(Append(q, m), r, n, Posted(r) + 1)
      BY <1>2, <1>7, <1>8, <2>1, AppendLast
    <2> QED
      BY <1>1, <1>2, <1>4, <1>7, <2>2, <2>3 DEF Line, n
  <1>10. Buffer(r)'
    BY <1>1, <1>4, <1>7 DEF Whole, Buffer
  <1> QED
    BY <1>3, <1>5, <1>6, <1>9, <1>10 DEF Whole

\* A message that may end a call that is no exec is posted, or none.
LEMMA LineEnds ==
    ASSUME Inv, NEW i \in Isolates, NEW r \in Requests, Line(i, r), call[r].op # "exec",
           UNCHANGED <<replyOpen, call>>,
           \/ UNCHANGED inbox
           \/ r \notin replyOpen
           \/ \E m \in Messages : IsLast(m, r) /\ inbox'[i] = Append(inbox[i], m)
    PROVE  Line(i, r)'
  <1> DEFINE q == inbox[i]
  <1>1. q \in Seq(Messages)
    BY DEF Inv, TypeOK
  <1> HIDE DEF q
  <1>2. ASSUME OnlyLasts(q, r), NEW m \in Messages, IsLast(m, r)
        PROVE  OnlyLasts(Append(q, m), r)
    BY <1>1, <1>2, LastsStay
  <1> QED
    BY <1>2 DEF Line, q

\* The callback of table_exists posts a bool, which ends the call.
LEMMA TableQueryRows ==
    ASSUME Inv, NEW i, Isolates = {i}, NEW r \in Requests, Serving(i, r), TableQuery(r)
    PROVE  \A s \in Requests : Whole(i, s)'
  <1> USE DEF dartVars
  <1> DEFINE m == Message(r, "bool", Zeroed)
  <1>1. /\ pc[r] = "table" /\ pc \in [Requests -> Stages]
        /\ result \in [Requests -> MessageTypes]
        /\ UNCHANGED <<replyOpen, call, received, outcome, produced>>
        /\ UNCHANGED inbox \/ Post(r, "bool", Zeroed)
        /\ \/ /\ result' = [result EXCEPT ![r] = "null"]
              /\ pc' = [pc EXCEPT ![r] = "reply"]
           \/ result' = result /\ pc' = [pc EXCEPT ![r] = "mount"]
    BY DEF TableQuery, Goto, Inv, TypeOK
  <1>2. /\ m \in Messages /\ IsLast(m, r)
        /\ UNCHANGED inbox \/ inbox'[i] = Append(inbox[i], m)
        /\ \A s : Mine(m, s) => s = r
    <2>1. Zeroed \in Texts /\ "bool" \in MessageTypes
      BY FreshTexts DEF MessageTypes
    <2>2. m \in Messages
      BY <2>1 DEF Message, Messages
    <2>3. UNCHANGED inbox \/ inbox'[i] = Append(inbox[i], m)
      BY <1>1, <2>1, PostTells
    <2> QED
      BY <2>2, <2>3, MessageTells DEF IsLast
  <1> HIDE DEF m
  <1>3. ASSUME NEW s \in Requests \ {r} PROVE Whole(i, s)'
    <2>1. Kept(s)
      BY <1>1 DEF Kept
    <2> QED
      BY <1>2, <2>1, OtherHandled DEF Serving
  <1>4. call[r].op # "exec" /\ Whole(i, r)
    BY <1>1 DEF Serving, Whole, Staged
  <1>5. Staged(r)'
    BY <1>1, <1>4 DEF Whole, Staged
  <1>6. Told(r)'
    BY <1>1, <1>4, ToldOn DEF Whole
  <1>7. Line(i, r)'
    BY <1>1, <1>2, <1>4, LineEnds DEF Whole
  <1>8. Buffer(r)'
    BY <1>1, <1>4 DEF Whole, Staged, Buffer
  <1> QED
    BY <1>3, <1>5, <1>6, <1>7, <1>8 DEF Whole

\* The last message of a call carries the number after its last row.
LEMMA ReplyRows ==
    ASSUME Inv, NEW i, Isolates = {i}, NEW r \in Requests, Serving(i, r), Reply(r)
    PROVE  \A s \in Requests : Whole(i, s)'
  <1> USE DEF dartVars
  <1> DEFINE m == Message(r, result[r], dynpointer)
             q == inbox[i]
             n == Len(received[r])
  <1>1. /\ pc[r] = "reply" /\ pc \in [Requests -> Stages]
        /\ Post(r, result[r], dynpointer)
        /\ result[r] \in MessageTypes /\ dynpointer \in Texts
        /\ UNCHANGED <<replyOpen, call, received, outcome, result, produced,
                       dynpointer, execRowIndex>>
        /\ pc' = [pc EXCEPT ![r] = "replied"]
    BY DEF Reply, Goto, Inv, TypeOK
  <1>2. /\ m \in Messages
        /\ r \in replyOpen => inbox'[i] = Append(q, m)
        /\ r \notin replyOpen => UNCHANGED inbox
        /\ Mine(m, r) /\ \A s : Mine(m, s) => s = r
    BY <1>1, PostTells, MessageTells
  <1>3. ASSUME NEW s \in Requests \ {r} PROVE Whole(i, s)'
    <2>1. Kept(s)
      BY <1>1 DEF Kept
    <2> QED
      BY <1>2, <2>1, OtherHandled DEF Serving
  <1>4. Whole(i, r)
    BY DEF Serving
  <1>5. IsLast(m, r) /\ (call[r].op = "exec" => Ends(m, r))
    <2>1. result[r] = "string" => dynpointer = ErrorText(r)
      BY <1>1, <1>4 DEF Whole, Buffer
    <2>2. call[r].op = "exec" => result[r] \in {"null", "string"}
      BY <1>1, <1>4 DEF Whole, Staged
    <2> QED
      BY <2>1, <2>2, MessageTells DEF IsLast, Ends
  <1>6. Staged(r)'
    BY <1>1, <1>4 DEF Whole, Staged
  <1>7. Told(r)'
    BY <1>1, <1>4, ToldOn DEF Whole
  <1>8. Line(i, r)'
    <2>1. CASE call[r].op # "exec"
      <3> HIDE DEF m
      <3> QED
        BY <1>1, <1>2, <1>4, <1>5, <2>1, LineEnds DEF Whole
    <2>2. CASE call[r].op = "exec" /\ r \in replyOpen
      <3>1. /\ produced[r] \in Nat /\ Posted(r) = produced[r]
            /\ End(r) = 0 /\ End(r)' = produced[r] + 1
            /\ n \in Nat /\ q \in Seq(Messages)
        BY <1>1 DEF Posted, End, Inv, TypeOK
      <3>2. InLine(q, r, n, 0) /\ LastOf(q, r, n, produced[r])
        BY <1>1, <1>4, <2>2, <3>1 DEF Whole, Line, Streaming
      <3> HIDE DEF m, q, n
      <3>3. InLine(q, r, n, produced[r] + 1)
        BY <3>1, <3>2, EndLater
      <3>4. Numbered(m, r, produced[r] + 1, produced[r] + 1)
        BY <1>5, <2>2 DEF Numbered
      <3>5. InLine(Append(q, m), r, n, produced[r] + 1)
        BY <1>2, <3>1, <3>2, <3>3, <3>4, AppendInLine
      <3>6. pc'[r] \notin Streaming
        BY <1>1 DEF Streaming
      <3> QED
        BY <1>1, <1>2, <2>2, <3>1, <3>5, <3>6 DEF Line, n
    <2>3. CASE r \notin replyOpen
      BY <1>1, <2>3 DEF Line
    <2> QED
      BY <2>1, <2>2, <2>3
  <1>9. Buffer(r)'
    BY <1>1 DEF Buffer
  <1> QED
    BY <1>3, <1>6, <1>7, <1>8, <1>9 DEF Whole

\* The handler that ends the process leaves its rows where they are.
LEMMA EndProcessRows ==
    ASSUME Inv, NEW i, Isolates = {i}, NEW r \in Requests, Serving(i, r), EndProcess(r)
    PROVE  \A s \in Requests : Whole(i, s)'
  <1> USE DEF dartVars, threadVars, replyVars
  <1>1. /\ pc[r] \in {"mount", "row", "reply"} /\ pc \in [Requests -> Stages]
        /\ pc[r] = "mount" => call[r].op # "exec"
        /\ pc[r] = "reply" => result[r] = "text"
        /\ UNCHANGED <<inbox, replyOpen, call, received, outcome, produced, result,
                       dynpointer, execRowIndex>>
        /\ pc' = [pc EXCEPT ![r] = "ended"]
    BY DEF EndProcess, Goto, Inv, TypeOK
  <1>2. ASSUME NEW s \in Requests \ {r} PROVE Whole(i, s)'
    <2>1. Kept(s)
      BY <1>1 DEF Kept
    <2> QED
      BY <1>1, <2>1, OtherHandled DEF Serving
  <1>3. Whole(i, r) /\ pc'[r] = "ended"
    BY <1>1 DEF Serving
  <1>4. Staged(r)'
    BY <1>1, <1>3 DEF Whole, Staged, Settled
  <1>5. Told(r)'
    BY <1>1, <1>3, ToldOn DEF Whole
  <1>6. Line(i, r)'
    BY <1>1, <1>3, LineOn DEF Whole, Streaming, Posted, End
  <1>7. Buffer(r)'
    BY <1>3 DEF Buffer
  <1> QED
    BY <1>2, <1>4, <1>5, <1>6, <1>7 DEF Whole

\* A handler keeps every call whole: it runs alone.
LEMMA HandleRows ==
    ASSUME Inv, Alone, NEW i, Isolates = {i}, Rows(i), NEW r \in Requests,
           Handle(r) \/ EndProcess(r)
    PROVE  Rows(i)'
  <1> USE DEF dartVars, threadVars, replyVars
  <1>1. /\ pc[r] \in InHandler /\ pc \in [Requests -> Stages]
        /\ UNCHANGED <<loaded, queue>>
        /\ \A s \in Requests \ {r} : pc'[s] = pc[s]
    BY DEF Handle, SimpleCall, ExecEnter, RowIndex, RowColumns, RowPost,
           ExecReturn, TableQuery, MountException, Reply, EndProcess, Goto,
           InHandler, Inv, TypeOK
  <1>2. \A s \in Requests \ {r} : pc[s] \notin InHandler
    BY <1>1 DEF Alone, HandlersOnPort, OnePerPort
  <1>3. Serving(i, r)
    BY <1>2 DEF Serving, Rows
  <1>4. \A s \in Requests : Whole(i, s)'
    BY <1>3, SimpleCallRows, ExecEnterRows, RowIndexRows, RowColumnsRows, RowPostRows,
       ExecReturnRows, TableQueryRows, MountExceptionRows, ReplyRows, EndProcessRows
       DEF Handle
  <1>5. Started(i)'
    BY <1>1 DEF Rows, Started, InHandler
  <1>6. Waiting'
    <2>1. ASSUME NEW p \in Ports, NEW k \in 1 .. Len(queue[p])
          PROVE  pc'[queue[p][k]] = "queued"
      <3>1. pc[queue[p][k]] = "queued" /\ queue[p][k] \in Requests
        BY SMTT(30) DEF Rows, Waiting, Inv, TypeOK
      <3>2. queue[p][k] # r
        BY <1>1, <3>1 DEF InHandler
      <3> QED
        BY <1>1, <3>1, <3>2
    <2> QED
      BY <1>1, <2>1 DEF Rows, Waiting
  <1> QED
    BY <1>4, <1>5, <1>6 DEF Rows

-----------------------------------------------------------------------------
(* The queue of the native port.                                           *)

Distinct(q) == \A k, l \in 1 .. Len(q) : q[k] = q[l] => k = l

\* A message waits once: the head is gone from the tail.
LEMMA TailDistinct ==
    ASSUME NEW S, NEW q \in Seq(S), q # <<>>, Distinct(q)
    PROVE  /\ Distinct(Tail(q))
           /\ \A k \in 1 .. Len(Tail(q)) :
                  Tail(q)[k] # Head(q) /\ \E l \in 1 .. Len(q) : Tail(q)[k] = q[l]
  <1> DEFINE t == Tail(q)
  <1>1. /\ t \in Seq(S) /\ Len(t) = Len(q) - 1 /\ Len(t) \in Nat
        /\ \A j \in 1 .. Len(t) : t[j] = q[j + 1] /\ j + 1 \in 1 .. Len(q)
        /\ Head(q) = q[1] /\ 1 \in 1 .. Len(q)
    BY TailPlaces
  <1> HIDE DEF t
  <1>2. ASSUME NEW k \in 1 .. Len(t), NEW l \in 1 .. Len(t), t[k] = t[l] PROVE k = l
    <2>1. q[k + 1] = q[l + 1] /\ k + 1 \in 1 .. Len(q) /\ l + 1 \in 1 .. Len(q)
      BY <1>1, <1>2
    <2>2. k + 1 = l + 1
      BY <2>1 DEF Distinct
    <2> QED
      BY <2>2, <1>1
  <1>3. ASSUME NEW k \in 1 .. Len(t)
        PROVE  t[k] # Head(q) /\ \E l \in 1 .. Len(q) : t[k] = q[l]
    <2>1. t[k] = q[k + 1] /\ k + 1 \in 1 .. Len(q) /\ k + 1 # 1
      BY <1>1
    <2> QED
      BY <1>1, <2>1 DEF Distinct
  <1> QED
    BY <1>2, <1>3 DEF Distinct, t

\* One that is not waiting may be added.
LEMMA AppendDistinct ==
    ASSUME NEW S, NEW q \in Seq(S), NEW e \in S, Distinct(q),
           \A k \in 1 .. Len(q) : q[k] # e
    PROVE  /\ Distinct(Append(q, e))
           /\ \A k \in 1 .. Len(Append(q, e)) :
                  Append(q, e)[k] = e \/ \E l \in 1 .. Len(q) : Append(q, e)[k] = q[l]
  <1> DEFINE t == Append(q, e)
  <1>1. /\ Len(t) = Len(q) + 1 /\ Len(q) \in Nat
        /\ \A j \in 1 .. Len(q) : t[j] = q[j]
        /\ t[Len(q) + 1] = e
    BY AppendPlaces
  <1> HIDE DEF t
  <1>2. ASSUME NEW k \in 1 .. Len(t) PROVE k \in 1 .. Len(q) \/ k = Len(q) + 1
    BY <1>1
  <1>3. Distinct(t)
    BY <1>1, <1>2 DEF Distinct
  <1>4. ASSUME NEW k \in 1 .. Len(t)
        PROVE  t[k] = e \/ \E l \in 1 .. Len(q) : t[k] = q[l]
    BY <1>1, <1>2
  <1> QED
    BY <1>3, <1>4 DEF t

\* What waits is queued, and waits once.
LEMMA WaitingTells ==
    ASSUME Waiting, NEW p \in Ports
    PROVE  Distinct(queue[p]) /\ \A k \in 1 .. Len(queue[p]) : pc[queue[p][k]] = "queued"
  BY DEF Waiting, Distinct

\* A handler takes the buffer over from nobody, and resets the index.
LEMMA DequeueRows ==
    ASSUME Inv, Alone, ~ConcurrentHandlers, NEW i, Isolates = {i}, Rows(i),
           NEW p \in Ports, Dequeue(p)
    PROVE  Rows(i)'
  <1>1. PICK r \in Requests : r = Head(queue[p])
    <2>1. queue \in [Ports -> Seq(Requests)] /\ queue[p] # <<>>
      BY DEF Dequeue, Inv, TypeOK
    <2> QED
      BY <2>1, TailAt
  <1> DEFINE q == queue[p]
  <1>2. /\ q \in Seq(Requests) /\ q # <<>> /\ busy[p] = {} /\ p = receivePort
        /\ queue' = [queue EXCEPT ![p] = Tail(q)] /\ queue \in [Ports -> Seq(Requests)]
        /\ pc \in [Requests -> Stages] /\ call[r] \in Calls \cup {NoCall}
        /\ UNCHANGED <<loaded, call, inbox, replyOpen, received, outcome, result, produced>>
    BY DEF Dequeue, Inv, TypeOK, Alone, OthersIdle, replyVars
  <1>3. /\ call[r].op = "exec" => /\ pc' = [pc EXCEPT ![r] = "exec"]
                                  /\ execRowIndex' = IndexSpace - 1
        /\ call[r].op # "exec" => \E stage \in {"table", "simple"} :
                                     pc' = [pc EXCEPT ![r] = stage]
    BY <1>1 DEF Dequeue, Goto
  <1>4. \A s \in Requests : pc[s] \notin InHandler
    BY <1>2 DEF Alone, HandlersOnPort
  <1>5. \A s \in Requests : Whole(i, s)
    BY DEF Rows
  <1>6. /\ \A k \in 1 .. Len(q) : pc[q[k]] = "queued"
        /\ Distinct(q) /\ Head(q) = q[1] /\ 1 \in 1 .. Len(q)
    BY <1>2, WaitingTells, TailPlaces DEF Rows
  <1> HIDE DEF q
  <1>7. pc[r] = "queued"
    BY <1>1, <1>6 DEF q
  <1>8. ASSUME NEW s \in Requests \ {r} PROVE Whole(i, s)'
    <2>1. Kept(s)
      BY <1>2, <1>3 DEF Kept
    <2> QED
      BY <1>2, <1>4, <1>5, <2>1, OtherHandled
  <1>9. Whole(i, r)'
    <2>1. Staged(r)'
      BY <1>2, <1>3, <1>5, <1>7 DEF Whole, Staged
    <2>2. Told(r)'
      BY <1>2, <1>5, <1>7, ToldOn DEF Whole
    <2>3. Line(i, r)'
      BY <1>2, <1>3, <1>5, <1>7, LineOn DEF Whole, End, Posted, Streaming
    <2>4. Buffer(r)'
      BY <1>2, <1>3, <1>5, <1>7 DEF Whole, Staged, Buffer
    <2> QED
      BY <2>1, <2>2, <2>3, <2>4 DEF Whole
  <1>10. Started(i)'
    BY <1>2, <1>7 DEF Rows, Started
  <1>11. Waiting'
    <2> SUFFICES ASSUME NEW o \in Ports
                 PROVE  /\ Distinct(queue'[o])
                        /\ \A k \in 1 .. Len(queue'[o]) : pc'[queue'[o][k]] = "queued"
      BY DEF Waiting, Distinct
    <2>1. CASE o = p
      <3> DEFINE t == Tail(q)
      <3>1. queue'[o] = t
        BY <1>2, <2>1
      <3>2. Distinct(t) /\ \A k \in 1 .. Len(t) :
                t[k] # r /\ \E l \in 1 .. Len(q) : t[k] = q[l]
        BY <1>1, <1>2, <1>6, TailDistinct DEF q
      <3> HIDE DEF t
      <3>3. ASSUME NEW k \in 1 .. Len(t) PROVE pc'[t[k]] = "queued"
        <4>1. PICK l \in 1 .. Len(q) : t[k] = q[l] /\ q[l] # r
          BY <3>2
        <4>2. q[l] \in Requests /\ pc[q[l]] = "queued"
          BY <1>2, <1>6
        <4> QED
          BY <1>2, <1>3, <4>1, <4>2
      <3> QED
        BY <3>1, <3>2, <3>3
    <2>2. CASE o # p
      <3>1. queue'[o] = <<>>
        BY <1>2, <2>2 DEF Alone, OthersIdle
      <3> QED
        BY <3>1 DEF Distinct
    <2> QED
      BY <2>1, <2>2
  <1> QED
    BY <1>8, <1>9, <1>10, <1>11 DEF Rows

-----------------------------------------------------------------------------
(* The steps of the isolate that make a call.                              *)

\* The new buffer is filled before the first call.
LEMMA LoadLibraryRows ==
    ASSUME Inv, NEW i \in Isolates, Rows(i), LoadLibrary(i)
    PROVE  Rows(i)'
  <1>1. /\ UNCHANGED <<queue, pc, call, produced, result, inbox, replyOpen, received, outcome>>
        /\ loaded' = loaded \cup {i}
        /\ \A s \in Requests : pc[s] = "unused"
    BY DEF LoadLibrary, replyVars, Rows, Started
  <1>2. ASSUME NEW s \in Requests PROVE Whole(i, s)'
    <2>1. Kept(s) /\ pc[s] \notin InHandler
      BY <1>1 DEF Kept, InHandler
    <2> QED
      BY <1>1, <2>1, OtherHandled DEF Rows
  <1>3. Started(i)' /\ Waiting'
    BY <1>1 DEF Rows, Started, Waiting
  <1> QED
    BY <1>2, <1>3 DEF Rows

\* Nothing waits for a request that was not sent.
LEMMA NothingYet ==
    ASSUME Inv, NEW i \in Isolates, NEW r \in Requests, r \notin Sent
    PROVE  None(inbox[i], r)
  <1>1. inbox[i] \in Seq(SentMessages)
    BY DEF Inv, OnlySent
  <1>2. ASSUME NEW j \in 1 .. Len(inbox[i]) PROVE inbox[i][j].req \in Sent
    <2> HIDE DEF SentMessages
    <2>1. inbox[i][j] \in SentMessages
      BY <1>1
    <2> QED
      BY <2>1 DEF SentMessages
  <1> QED
    BY <1>2 DEF None, Mine

\* A call begins with an empty line.
LEMMA CallRows ==
    ASSUME Inv, NEW i, Isolates = {i}, Rows(i),
           NEW r \in Requests, NEW o \in Ops, NEW c \in Conns, Call(i, r, o, c)
    PROVE  Rows(i)'
  <1> USE DEF threadVars
  <1>1. /\ i \in loaded /\ pc[r] = "unused" /\ pc \in [Requests -> Stages]
        /\ call \in [Requests -> Calls \cup {NoCall}]
        /\ UNCHANGED <<loaded, queue, produced, result, inbox, received, outcome,
                       dynpointer, execRowIndex>>
        /\ call' = [call EXCEPT ![r] = [isolate |-> i, op |-> o, conn |-> c]]
        /\ replyOpen' = replyOpen \cup {r}
        /\ \E stage \in {"create", "send"} : pc' = [pc EXCEPT ![r] = stage]
    BY DEF Call, Goto, Inv, TypeOK
  <1>2. \A s \in Requests : Whole(i, s)
    BY DEF Rows
  <1>3. ASSUME NEW s \in Requests \ {r} PROVE Whole(i, s)'
    <2>1. Kept(s)
      BY <1>1 DEF Kept
    <2> QED
      BY <1>1, <1>2, <2>1, QuietStep
  <1>4. /\ pc'[r] \in {"create", "send"} /\ produced[r] = 0 /\ received[r] = <<>>
        /\ ~Settled(r) /\ result[r] # "string" /\ Len(received[r]) = 0
    BY <1>1, <1>2 DEF Whole, Staged
  <1>5. Staged(r)'
    BY <1>1, <1>4 DEF Staged
  <1>6. Told(r)'
    BY <1>1, <1>4 DEF Told, Settled, AllRows
  <1>7. Line(i, r)'
    <2> DEFINE q == inbox[i]
    <2>1. None(q, r)
      BY <1>1, NothingYet DEF Sent
    <2> HIDE DEF q
    <2>2. OnlyLasts(q, r) /\ InLine(q, r, 0, 0) /\ LastOf(q, r, 0, 0)
      BY <2>1 DEF None, OnlyLasts, InLine, LastOf
    <2>3. End(r)' = 0 /\ Posted(r)' = 0
      BY <1>1, <1>4 DEF End, Posted
    <2> QED
      BY <1>1, <1>4, <2>2, <2>3 DEF Line, q
  <1>8. Buffer(r)'
    BY <1>4 DEF Buffer
  <1>9. Started(i)'
    BY <1>1 DEF Started
  <1>10. Waiting'
    <2>1. ASSUME NEW p \in Ports, NEW k \in 1 .. Len(queue[p])
          PROVE  pc'[queue[p][k]] = "queued"
      BY <1>1 DEF Rows, Waiting
    <2> QED
      BY <1>1, <2>1 DEF Rows, Waiting
  <1> QED
    BY <1>3, <1>5, <1>6, <1>7, <1>8, <1>9, <1>10 DEF Whole, Rows

\* Making a native port changes no call.
LEMMA CreatePortRows ==
    ASSUME Inv, NEW i \in Isolates, Rows(i), CreatePort(i)
    PROVE  Rows(i)'
  <1> USE DEF threadVars, replyVars
  <1>1. PICK r \in Requests : /\ r = calling[i] /\ pc[r] = "create"
                              /\ pc' = [pc EXCEPT ![r] = "send"]
    BY DEF CreatePort, Goto, Inv, TypeOK
  <1>2. /\ pc \in [Requests -> Stages]
        /\ UNCHANGED <<loaded, queue, call, produced, result, inbox, replyOpen,
                       received, outcome, dynpointer, execRowIndex>>
    BY DEF CreatePort, Inv, TypeOK
  <1>3. \A s \in Requests : Whole(i, s)
    BY DEF Rows
  <1>4. ASSUME NEW s \in Requests \ {r} PROVE Whole(i, s)'
    <2>1. Kept(s)
      BY <1>1, <1>2 DEF Kept
    <2> QED
      BY <1>2, <1>3, <2>1, QuietStep
  <1>5. Whole(i, r)'
    <2>1. Staged(r)'
      BY <1>1, <1>2, <1>3 DEF Whole, Staged
    <2>2. Told(r)'
      BY <1>1, <1>2, <1>3, ToldOn DEF Whole
    <2>3. Line(i, r)'
      BY <1>1, <1>2, <1>3, LineOn DEF Whole, End, Posted, Streaming
    <2>4. Buffer(r)'
      BY <1>1, <1>2 DEF Buffer
    <2> QED
      BY <2>1, <2>2, <2>3, <2>4 DEF Whole
  <1>6. Started(i)'
    BY <1>1, <1>2 DEF Rows, Started
  <1>7. Waiting'
    <2>1. ASSUME NEW p \in Ports, NEW k \in 1 .. Len(queue[p])
          PROVE  pc'[queue[p][k]] = "queued"
      BY <1>1, <1>2 DEF Rows, Waiting
    <2> QED
      BY <1>2, <2>1 DEF Rows, Waiting
  <1> QED
    BY <1>4, <1>5, <1>6, <1>7 DEF Rows

\* A message that is sent waits once; a call that throws is not answered.
LEMMA SendRows ==
    ASSUME Inv, NEW i \in Isolates, Rows(i), Send(i)
    PROVE  Rows(i)'
  <1> USE DEF threadVars
  <1>1. PICK r \in Requests : /\ r = calling[i] /\ pc[r] = "send"
    BY DEF Send, Inv, TypeOK
  <1>2. /\ pc \in [Requests -> Stages] /\ queue \in [Ports -> Seq(Requests)]
        /\ outcome \in [Requests -> {"new", "pending", "threw", "completed", "error"}]
        /\ UNCHANGED <<loaded, call, produced, result, inbox, replyOpen, received,
                       dynpointer, execRowIndex>>
        /\ \/ /\ pc' = [pc EXCEPT ![r] = "queued"]
              /\ outcome' = [outcome EXCEPT ![r] = "pending"]
              /\ queue' = [queue EXCEPT ![receivePort] = Append(@, r)]
              /\ receivePort \in Ports
           \/ /\ pc' = [pc EXCEPT ![r] = "replied"]
              /\ outcome' = [outcome EXCEPT ![r] = "threw"]
              /\ queue' = queue
    BY <1>1 DEF Send, Goto, Inv, TypeOK
  <1>3. \A s \in Requests : Whole(i, s)
    BY DEF Rows
  <1>4. ASSUME NEW s \in Requests \ {r} PROVE Whole(i, s)'
    <2>1. Kept(s)
      BY <1>2 DEF Kept
    <2> QED
      BY <1>2, <1>3, <2>1, QuietStep
  <1>5. ~Settled(r) /\ ~Settled(r)' /\ pc'[r] \in {"queued", "replied"}
    BY <1>1, <1>2 DEF Inv, SettledClosed, Sent, Settled
  <1>6. Whole(i, r)'
    <2>1. Staged(r)'
      BY <1>1, <1>2, <1>3, <1>5 DEF Whole, Staged
    <2>2. Told(r)'
      BY <1>1, <1>2, <1>3, <1>5 DEF Whole, Told, AllRows, Settled
    <2>3. Line(i, r)'
      <3> DEFINE q == inbox[i]
                 n == Len(received[r])
      <3>1. q \in Seq(Messages) /\ n \in Nat /\ produced[r] \in Nat
        BY DEF Inv, TypeOK
      <3>2. End(r) = 0 /\ Posted(r)' = Posted(r) /\ pc[r] \in Streaming
        BY <1>1, <1>2, <1>5 DEF End, Posted, Streaming
      <3> HIDE DEF q, n
      <3>3. InLine(q, r, n, 0) => InLine(q, r, n, End(r)')
        BY <3>1, EndLater
      <3> QED
        BY <1>2, <1>3, <3>2, <3>3 DEF Whole, Line, q, n
    <2>4. Buffer(r)'
      BY <1>5 DEF Buffer
    <2> QED
      BY <2>1, <2>2, <2>3, <2>4 DEF Whole
  <1>7. Started(i)'
    BY <1>1, <1>2 DEF Rows, Started
  <1>8. ASSUME NEW p \in Ports
        PROVE  /\ queue[p] \in Seq(Requests) /\ Distinct(queue[p])
               /\ \A k \in 1 .. Len(queue[p]) :
                      queue[p][k] # r /\ pc'[queue[p][k]] = "queued"
    <2>1. queue[p] \in Seq(Requests)
      BY <1>2
    <2>2. Distinct(queue[p]) /\ \A k \in 1 .. Len(queue[p]) : pc[queue[p][k]] = "queued"
      BY WaitingTells DEF Rows
    <2>3. ASSUME NEW k \in 1 .. Len(queue[p])
          PROVE  queue[p][k] # r /\ pc'[queue[p][k]] = "queued"
      <3>1. queue[p][k] # r
        BY <1>1, <2>2
      <3> QED
        BY <1>2, <2>1, <2>2, <3>1
    <2> QED
      BY <2>1, <2>2, <2>3
  <1>9. Waiting'
    <2> SUFFICES ASSUME NEW p \in Ports
                 PROVE  /\ Distinct(queue'[p])
                        /\ \A k \in 1 .. Len(queue'[p]) : pc'[queue'[p][k]] = "queued"
      BY DEF Waiting, Distinct
    <2>1. CASE queue'[p] = queue[p]
      BY <1>8, <2>1
    <2>2. CASE queue'[p] # queue[p]
      <3> DEFINE q == queue[p]
                 t == Append(q, r)
      <3>1. queue'[p] = t /\ pc'[r] = "queued"
        BY <1>2, <2>2
      <3>2. q \in Seq(Requests) /\ Distinct(q)
            /\ \A k \in 1 .. Len(q) : q[k] # r /\ pc'[q[k]] = "queued"
        BY <1>8
      <3> HIDE DEF q
      <3>3. Distinct(t) /\ \A k \in 1 .. Len(t) :
                t[k] = r \/ \E l \in 1 .. Len(q) : t[k] = q[l]
        BY <3>2, AppendDistinct
      <3> HIDE DEF t
      <3> QED
        BY <3>1, <3>2, <3>3
    <2> QED
      BY <2>1, <2>2
  <1> QED
    BY <1>4, <1>6, <1>7, <1>9 DEF Rows

-----------------------------------------------------------------------------
(* The event loop.                                                         *)

\* A text that is accepted goes behind those received.
LEMMA AcceptRow ==
    ASSUME NEW f \in Seq(Texts), NEW t \in Texts, NEW r \in Requests,
           AllRows(f, r, Len(f))
    PROVE  /\ Len(Append(f, t)) = Len(f) + 1 /\ Len(f) \in Nat
           /\ Append(f, t)[Len(f) + 1] = t
           /\ AllRows(Append(f, t), r, Len(f))
           /\ t = RowText(r, Len(f) + 1) => AllRows(Append(f, t), r, Len(f) + 1)
  <1> DEFINE g == Append(f, t)
  <1>1. /\ Len(g) = Len(f) + 1 /\ Len(f) \in Nat
        /\ \A j \in 1 .. Len(f) : g[j] = f[j]
        /\ g[Len(f) + 1] = t
    BY AppendPlaces
  <1> HIDE DEF g
  <1>2. AllRows(g, r, Len(f))
    BY <1>1 DEF AllRows
  <1>3. ASSUME t = RowText(r, Len(f) + 1), NEW k \in 1 .. Len(f) + 1
        PROVE  g[k] = RowText(r, k)
    <2>1. CASE k \in 1 .. Len(f)
      BY <1>2, <2>1 DEF AllRows
    <2>2. CASE k = Len(f) + 1
      BY <1>1, <1>3, <2>2
    <2> QED
      BY <1>1, <2>1, <2>2
  <1> QED
    BY <1>1, <1>2, <1>3 DEF AllRows, g

\* A row is no exception, an exception is no row and not empty.
LEMMA TextsTell ==
    ASSUME NEW r, NEW k
    PROVE  /\ IsRow(RowText(r, k)) /\ ~IsException(RowText(r, k))
           /\ IsException(ErrorText(r)) /\ ~IsRow(ErrorText(r)) /\ ErrorText(r) # Zeroed
  <1>1. /\ IsRow(RowText(r, k)) /\ ~IsException(RowText(r, k))
        /\ IsException(ErrorText(r)) /\ ~IsRow(ErrorText(r))
    BY DEF IsRow, IsException, RowText, RowHead, ErrorText, ErrorHead
  <1>2. ~IsException(Zeroed)
    BY DEF IsException, Zeroed
  <1> QED
    BY <1>1, <1>2

\* What the stream handler does with a row and with what ends the stream.
LEMMA StreamTakes ==
    ASSUME Inv, NEW r \in Requests, NEW m \in Messages, Mine(m, r), StreamHandler(m),
           NEW k
    PROVE  /\ IsRowOf(m, r, k) =>
                  /\ m.text = RowText(r, k)
                  /\ received' = [received EXCEPT ![r] = Append(@, m.text)]
                  /\ UNCHANGED <<replyOpen, outcome>>
           /\ Ends(m, r) =>
                  /\ replyOpen' = replyOpen \ {r}
                  /\ \/ outcome'[r] = "completed" /\ UNCHANGED received
                     \/ /\ outcome'[r] = "error" /\ m.text = ErrorText(r)
                        /\ received' = [received EXCEPT ![r] = Append(@, m.text)]
  <1>1. m.req = r /\ outcome \in [Requests -> {"new", "pending", "threw", "completed", "error"}]
    BY DEF Mine, Inv, TypeOK
  <1>2. ASSUME IsRowOf(m, r, k)
        PROVE  /\ m.text = RowText(r, k)
               /\ received' = [received EXCEPT ![r] = Append(@, m.text)]
               /\ UNCHANGED <<replyOpen, outcome>>
    <2>1. m.type = "string" /\ m.text = RowText(r, k)
      BY <1>2, MessageTells DEF IsRowOf, RowMessage
    <2>2. IsRow(m.text) /\ ~IsException(m.text)
      BY <2>1, TextsTell
    <2> QED
      BY <1>1, <2>1, <2>2 DEF StreamHandler, Accept
  <1>3. ASSUME Ends(m, r), m.type = "string"
        PROVE  /\ replyOpen' = replyOpen \ {r}
               /\ outcome'[r] = "error" /\ m.text = ErrorText(r)
               /\ received' = [received EXCEPT ![r] = Append(@, m.text)]
    <2>1. m.text = ErrorText(r)
      BY <1>3 DEF Ends, IsLast
    <2>2. IsException(m.text) /\ ~IsRow(m.text) /\ m.text # Zeroed
      BY <2>1, TextsTell
    <2> QED
      BY <1>1, <1>3, <2>1, <2>2 DEF StreamHandler, Accept, Settle, ClosePort
  <1>4. ASSUME Ends(m, r), m.type = "null"
        PROVE  /\ replyOpen' = replyOpen \ {r}
               /\ outcome'[r] = "completed" /\ UNCHANGED received
    BY <1>1, <1>4 DEF StreamHandler, Settle, ClosePort
  <1> QED
    BY <1>2, <1>3, <1>4 DEF Ends

\* And what the handler of a Future does.
LEMMA FutureTakes ==
    ASSUME Inv, NEW r \in Requests, NEW m \in Messages, IsLast(m, r), FutureHandler(m)
    PROVE  /\ replyOpen' = replyOpen \ {r}
           /\ \/ outcome'[r] = "completed" /\ UNCHANGED received
              \/ /\ outcome'[r] = "error" /\ m.text = ErrorText(r)
                 /\ received' = [received EXCEPT ![r] = Append(@, m.text)]
  <1>1. m.req = r /\ outcome \in [Requests -> {"new", "pending", "threw", "completed", "error"}]
    BY DEF IsLast, Mine, Inv, TypeOK
  <1>2. m.type = "string" => m.text = ErrorText(r) /\ IsException(m.text)
    BY TextsTell DEF IsLast
  <1> QED
    BY <1>1, <1>2 DEF FutureHandler, Accept, Settle, ClosePort

\* An answer that comes behind all rows leaves the request told.
LEMMA AnswerTells ==
    ASSUME Inv, NEW r \in Requests, Told(r), ~Settled(r), Len(received[r]) = produced[r],
           call[r].op = "exec" => pc[r] = "replied",
           UNCHANGED <<pc, call, produced>>, NEW t \in Texts,
           \/ outcome'[r] = "completed" /\ UNCHANGED received
           \/ /\ outcome'[r] = "error" /\ t = ErrorText(r)
              /\ received' = [received EXCEPT ![r] = Append(@, t)]
    PROVE  Told(r)'
  <1> DEFINE f == received[r]
  <1>1. f \in Seq(Texts) /\ AllRows(f, r, Len(f)) /\ Len(f) = produced[r]
    BY DEF Told, Inv, TypeOK
  <1>2. CASE outcome'[r] = "completed" /\ UNCHANGED received
    BY <1>1, <1>2 DEF Told, Settled
  <1>3. CASE /\ outcome'[r] = "error" /\ t = ErrorText(r)
             /\ received' = [received EXCEPT ![r] = Append(@, t)]
    <2>1. received'[r] = Append(f, t)
      BY <1>3 DEF Inv, TypeOK
    <2> HIDE DEF f
    <2>2. /\ Len(Append(f, t)) = Len(f) + 1
          /\ Append(f, t)[Len(f) + 1] = t /\ AllRows(Append(f, t), r, Len(f))
      BY <1>1, AcceptRow
    <2>3. AllRows(received'[r], r, produced[r]) /\ Len(received'[r]) = produced[r] + 1
          /\ received'[r][produced[r] + 1] = ErrorText(r)
      BY <1>1, <1>3, <2>1, <2>2
    <2> QED
      BY <1>3, <2>3 DEF Told, Settled, AllRows
  <1> QED
    BY <1>2, <1>3

\* The next row of an exec is received.
LEMMA TakeRow ==
    ASSUME Inv, NEW i \in Isolates, NEW r \in Requests, Whole(i, r), ~Settled(r),
           call[r].op = "exec", r \in replyOpen,
           NEW m \in Messages, inbox[i] # <<>>, m = Head(inbox[i]),
           inbox'[i] = Tail(inbox[i]), IsRowOf(m, r, Len(received[r]) + 1),
           m.text = RowText(r, Len(received[r]) + 1),
           received' = [received EXCEPT ![r] = Append(@, m.text)],
           UNCHANGED <<pc, call, produced, replyOpen, outcome>>
    PROVE  Told(r)' /\ Line(i, r)'
  <1> DEFINE f == received[r]
             q == inbox[i]
             n == Len(f)
  <1>1. /\ f \in Seq(Texts) /\ AllRows(f, r, n) /\ n \in Nat /\ m.text \in Texts
        /\ q \in Seq(Messages) /\ q # <<>> /\ received'[r] = Append(f, m.text)
        /\ inbox'[i] = Tail(q) /\ IsRowOf(Head(q), r, n + 1) /\ m.text = RowText(r, n + 1)
    <2>1. received \in [Requests -> Seq(Texts)] /\ inbox \in [Isolates -> Seq(Messages)]
      BY DEF Inv, TypeOK
    <2>2. f \in Seq(Texts) /\ q \in Seq(Messages) /\ n \in Nat
      BY <2>1
    <2>3. m.text \in Texts
      BY DEF Messages
    <2>4. AllRows(f, r, n)
      BY DEF Whole, Told
    <2> QED
      BY <2>1, <2>2, <2>3, <2>4
  <1>2. InLine(q, r, n, End(r)) /\ (pc[r] \in Streaming => LastOf(q, r, n, Posted(r)))
    BY DEF Whole, Line
  <1>3. Posted(r) \in Nat
    BY DEF Posted, Whole, Staged, Inv, TypeOK
  <1> HIDE DEF f, q, n
  <1>4. Len(Append(f, m.text)) = n + 1 /\ AllRows(Append(f, m.text), r, n + 1)
    BY <1>1, AcceptRow DEF n
  <1>5. InLine(Tail(q), r, n + 1, End(r))
    BY <1>1, <1>2, TailRow
  <1>6. pc[r] \in Streaming => LastOf(Tail(q), r, n + 1, Posted(r))
    BY <1>1, <1>2, <1>3, TailLast
  <1>7. End(r)' = End(r) /\ Posted(r)' = Posted(r)
    BY DEF End, Posted
  <1>8. Told(r)'
    BY <1>1, <1>4 DEF Told, Settled
  <1>9. Line(i, r)'
    BY <1>1, <1>4, <1>5, <1>6, <1>7 DEF Line
  <1> QED
    BY <1>8, <1>9

\* The handler of the next message keeps its request told and in line.
LEMMA TakeMessage ==
    ASSUME Inv, NEW i \in Isolates, NEW r \in Requests, Whole(i, r), r \in replyOpen,
           NEW m \in Messages, inbox[i] # <<>>, m = Head(inbox[i]), Mine(m, r),
           inbox'[i] = Tail(inbox[i]), UNCHANGED <<pc, call, produced>>,
           \/ call[r].op = "exec" /\ StreamHandler(m)
           \/ call[r].op # "exec" /\ FutureHandler(m)
    PROVE  Told(r)' /\ Line(i, r)'
  <1> DEFINE q == inbox[i]
             n == Len(received[r])
  <1>1. /\ q \in Seq(Messages) /\ q # <<>> /\ n \in Nat /\ m.text \in Texts
        /\ Mine(Head(q), r) /\ m = Head(q) /\ produced[r] \in Nat
    <2>1. /\ received \in [Requests -> Seq(Texts)] /\ inbox \in [Isolates -> Seq(Messages)]
          /\ produced[r] \in Nat
      BY DEF Inv, TypeOK
    <2>2. q \in Seq(Messages) /\ n \in Nat
      BY <2>1
    <2>3. m.text \in Texts
      BY DEF Messages
    <2> QED
      BY <2>1, <2>2, <2>3
  <1>2. ~Settled(r) /\ pc[r] # "unused" /\ Told(r)
    BY DEF Inv, SettledClosed, Settled, Whole, Staged
  <1>3. CASE call[r].op = "exec" /\ StreamHandler(m)
    <2>1. InLine(q, r, n, End(r))
      BY <1>3 DEF Whole, Line
    <2> HIDE DEF q, n
    <2>2. IsRowOf(m, r, n + 1) \/ (Ends(m, r) /\ n + 1 = End(r))
      BY <1>1, <2>1, HeadNumber DEF Numbered
    <2>3. CASE IsRowOf(m, r, n + 1)
      <3>1. /\ m.text = RowText(r, n + 1)
            /\ received' = [received EXCEPT ![r] = Append(@, m.text)]
            /\ UNCHANGED <<replyOpen, outcome>>
        BY <1>3, <2>3, StreamTakes
      <3> QED
        BY <1>2, <1>3, <2>3, <3>1, TakeRow DEF n
    <2>4. CASE Ends(m, r) /\ n + 1 = End(r)
      <3>1. pc[r] = "replied" /\ n = produced[r]
        BY <1>1, <2>4 DEF End
      <3>2. /\ replyOpen' = replyOpen \ {r}
            /\ \/ outcome'[r] = "completed" /\ UNCHANGED received
               \/ /\ outcome'[r] = "error" /\ m.text = ErrorText(r)
                  /\ received' = [received EXCEPT ![r] = Append(@, m.text)]
        BY <1>3, <2>4, StreamTakes
      <3>3. Told(r)'
        BY <1>1, <1>2, <3>1, <3>2, AnswerTells DEF n
      <3>4. Line(i, r)'
        BY <3>2 DEF Line
      <3> QED
        BY <3>3, <3>4
    <2> QED
      BY <2>2, <2>3, <2>4
  <1>4. CASE call[r].op # "exec" /\ FutureHandler(m)
    <2>1. OnlyLasts(q, r)
      BY <1>4 DEF Whole, Line
    <2>2. n = 0 /\ produced[r] = 0
      BY <1>2, <1>4 DEF Told, Whole, Staged
    <2> HIDE DEF q, n
    <2>3. IsLast(m, r)
      BY <1>1, <2>1, LastsStay
    <2>4. /\ replyOpen' = replyOpen \ {r}
          /\ \/ outcome'[r] = "completed" /\ UNCHANGED received
             \/ /\ outcome'[r] = "error" /\ m.text = ErrorText(r)
                /\ received' = [received EXCEPT ![r] = Append(@, m.text)]
      BY <1>4, <2>3, FutureTakes
    <2>5. Told(r)'
      BY <1>1, <1>2, <1>4, <2>2, <2>4, AnswerTells DEF n
    <2>6. Line(i, r)'
      BY <2>4 DEF Line
    <2> QED
      BY <2>5, <2>6
  <1> QED
    BY <1>3, <1>4

\* Taking the next message leaves the other requests where they are.
LEMMA DispatchRows ==
    ASSUME Inv, NEW i, Isolates = {i}, Rows(i), Dispatch(i)
    PROVE  Rows(i)'
  <1> USE DEF dartVars, threadVars
  <1> DEFINE m == Head(inbox[i])
  <1>1. /\ inbox[i] # <<>> /\ inbox'[i] = Tail(inbox[i])
        /\ UNCHANGED <<loaded, queue, call, produced, result, pc, dynpointer, execRowIndex>>
    BY DEF Dispatch, Inv, TypeOK
  <1>2. m \in SentMessages /\ m \in Messages /\ m.req \in Requests
    <2>1. m \in SentMessages
      BY <1>1, TailAt DEF Inv, OnlySent
    <2> QED
      BY <2>1 DEF SentMessages, Messages, Sent
  <1>3. PICK r \in Requests : r = m.req
    BY <1>2
  <1>4. \/ /\ r \in replyOpen
           /\ \/ call[r].op = "exec" /\ StreamHandler(m)
              \/ call[r].op # "exec" /\ FutureHandler(m)
        \/ r \notin replyOpen /\ UNCHANGED <<replyOpen, received, outcome>>
    BY <1>3 DEF Dispatch
  <1>5. \A s \in Requests : Whole(i, s)
    BY DEF Rows
  <1>6. /\ received \in [Requests -> Seq(Texts)]
        /\ outcome \in [Requests -> {"new", "pending", "threw", "completed", "error"}]
    BY DEF Inv, TypeOK
  <1> HIDE DEF m
  <1>7. \A s \in Requests \ {r} : Kept(s)
    <2>1. CASE StreamHandler(m) \/ FutureHandler(m)
      BY <1>1, <1>2, <1>3, <1>6, <2>1, ReplyHandlers DEF Kept
    <2>2. CASE UNCHANGED <<replyOpen, received, outcome>>
      BY <1>1, <2>2 DEF Kept
    <2> QED
      BY <1>4, <2>1, <2>2
  <1>8. \A s \in Requests : Staged(s)' /\ Buffer(s)'
    <2> SUFFICES ASSUME NEW s \in Requests PROVE Staged(s)' /\ Buffer(s)'
      OBVIOUS
    <2>1. Buffer(s)'
      BY <1>1, <1>5 DEF Whole, Buffer
    <2>2. CASE s # r
      BY <1>5, <1>7, <2>1, <2>2, KeptTells DEF Whole
    <2>3. CASE s = r
      <3>1. pc[s] # "unused"
        BY <1>2, <1>3, <2>3 DEF SentMessages, Sent
      <3> QED
        BY <1>1, <1>5, <2>1, <3>1 DEF Whole, Staged
    <2> QED
      BY <2>2, <2>3
  <1>9. \A s \in Requests \ {r} : Told(s)' /\ Line(i, s)'
    <2> SUFFICES ASSUME NEW s \in Requests \ {r} PROVE Told(s)' /\ Line(i, s)'
      OBVIOUS
    <2>1. ~Mine(Head(inbox[i]), s)
      BY <1>3 DEF Mine, m
    <2> QED
      BY <1>1, <1>5, <1>7, <2>1, KeptTells, LineTaken DEF Whole
  <1>10. Told(r)' /\ Line(i, r)'
    <2>1. CASE r \in replyOpen
      <3>1. Mine(m, r) /\ m = Head(inbox[i])
        BY <1>3 DEF Mine, m
      <3> QED
        BY <1>1, <1>2, <1>4, <1>5, <2>1, <3>1, TakeMessage
    <2>2. CASE r \notin replyOpen
      <3>1. Kept(r) /\ r \notin replyOpen'
        BY <1>1, <1>4, <2>2 DEF Kept
      <3> QED
        BY <1>5, <3>1, KeptTells DEF Whole, Line
    <2> QED
      BY <2>1, <2>2
  <1>11. Started(i)' /\ Waiting'
    BY <1>1 DEF Rows, Started, Waiting
  <1> QED
    BY <1>8, <1>9, <1>10, <1>11 DEF Whole, Rows

-----------------------------------------------------------------------------
(* The theorems.                                                           *)

\* To begin with nothing is called and nothing waits.
LEMMA RowsInit ==
    ASSUME NEW i \in Isolates, Init
    PROVE  Rows(i)
  <1>1. ASSUME NEW r \in Requests PROVE Whole(i, r)
    BY DEF Init, Whole, Staged, Told, Line, Buffer, Settled, AllRows
  <1>2. Started(i) /\ Waiting
    BY DEF Init, Started, Waiting
  <1> QED
    BY <1>1, <1>2 DEF Rows

\* Every step of a system with one isolate keeps every call whole.
LEMMA RowsNext ==
    ASSUME NEW i, Isolates = {i}, ~ConcurrentHandlers
    PROVE  Inv /\ Alone /\ Rows(i) /\ [Next]_vars => Rows(i)'
  <1> SUFFICES ASSUME Inv, Alone, Rows(i), [Next]_vars PROVE Rows(i)'
    OBVIOUS
  <1>1. CASE LoadLibrary(i) \/ CreatePort(i) \/ Send(i) \/ Dispatch(i)
    BY <1>1, LoadLibraryRows, CreatePortRows, SendRows, DispatchRows
  <1>2. ASSUME NEW r \in Requests, NEW o \in Ops, NEW c \in Conns, Call(i, r, o, c)
        PROVE  Rows(i)'
    BY <1>2, CallRows
  <1>3. ASSUME NEW p \in Ports, Dequeue(p) PROVE Rows(i)'
    BY <1>3, DequeueRows
  <1>4. ASSUME NEW r \in Requests, Handle(r) \/ EndProcess(r) PROVE Rows(i)'
    BY <1>4, HandleRows
  <1>5. CASE Quiescent \/ UNCHANGED vars
    <2>1. UNCHANGED <<loaded, queue, pc, call, produced, result, inbox, replyOpen,
                      received, outcome, dynpointer, execRowIndex>>
      BY <1>5 DEF Quiescent, vars, dartVars, threadVars, replyVars
    <2>2. ASSUME NEW s \in Requests PROVE Whole(i, s)'
      <3>1. Kept(s)
        BY <2>1 DEF Kept
      <3> QED
        BY <2>1, <3>1, QuietStep DEF Rows
    <2>3. Started(i)' /\ Waiting'
      BY <2>1 DEF Rows, Started, Waiting
    <2> QED
      BY <2>2, <2>3 DEF Rows
  <1> QED
    BY <1>1, <1>2, <1>3, <1>4, <1>5 DEF Next, Step

\* With one isolate every call is whole in every reachable state.
LEMMA RowsAlways ==
    ASSUME NEW i, Isolates = {i}, ~ConcurrentHandlers
    PROVE  Spec => [](Inv /\ Rows(i))
  <1>1. Init => Alone /\ Rows(i)
    BY AloneInit, RowsInit
  <1>2. Inv /\ Alone /\ Rows(i) /\ [Next]_vars => Alone' /\ Rows(i)'
    BY AloneNext, RowsNext
  <1> QED
    BY <1>1, <1>2, Invariance, PTL DEF Spec

(* With one isolate, and a VM that runs one handler of a native port at a  *)
(* time, a call receives its own rows and no others, whole, in order, the  *)
(* first with index 0, then at most its own exception: the unlocked buffer *)
(* and row index of sqlite3dart_extension.c never leak between calls.      *)
THEOREM RowsStayIntact ==
    ASSUME NEW i, Isolates = {i}, ~ConcurrentHandlers
    PROVE  Spec => []RowsIntact
  <1>1. Inv /\ Rows(i) => RowsIntact
    <2> SUFFICES ASSUME Inv, Rows(i), NEW r \in Requests, NEW k \in 1 .. Len(received[r])
                 PROVE  \/ received[r][k] = RowText(r, k)
                        \/ /\ received[r][k] = ErrorText(r)
                           /\ k = Len(received[r]) /\ outcome[r] = "error"
      BY DEF RowsIntact
    <2>1. Told(r) /\ produced[r] \in Nat
      BY DEF Rows, Whole, Inv, TypeOK
    <2>2. CASE ~Settled(r)
      BY <2>1, <2>2 DEF Told, AllRows
    <2>3. CASE outcome[r] = "completed"
      BY <2>1, <2>3 DEF Told, Settled, AllRows
    <2>4. CASE outcome[r] = "error"
      <3>1. /\ Len(received[r]) = produced[r] + 1
            /\ received[r][produced[r] + 1] = ErrorText(r)
            /\ AllRows(received[r], r, produced[r])
        BY <2>1, <2>4 DEF Told, Settled
      <3>2. k \in 1 .. produced[r] \/ k = produced[r] + 1
        BY <2>1, <3>1
      <3> QED
        BY <2>4, <3>1, <3>2 DEF AllRows
    <2> QED
      BY <2>2, <2>3, <2>4 DEF Settled
  <1> QED
    BY <1>1, RowsAlways, PTL

(* And when it is answered it has received every row SQLite produced for   *)
(* it: the port is closed by the last message, never by an earlier one.    *)
THEOREM NoRowIsLost ==
    ASSUME NEW i, Isolates = {i}, ~ConcurrentHandlers
    PROVE  Spec => []NoRowLost
  <1>1. Rows(i) => NoRowLost
    BY DEF Rows, Whole, Told, NoRowLost
  <1> QED
    BY <1>1, RowsAlways, PTL

-----------------------------------------------------------------------------
(***************************************************************************)
(* The refinement of OrderedService, for one isolate.                      *)
(*                                                                         *)
(* What OrderedService calls pending is the rest of asked from the first   *)
(* call without an answer.  That answers come in the order of the calls    *)
(* takes four things: the queue holds the last calls asked, in order; what *)
(* is not queued any more is answered by its handler, except for one; the  *)
(* replies wait in the order of the calls; and a call without an answer    *)
(* whose handler has returned has its last message in the inbox.           *)
(***************************************************************************)

Asked(r) == \E k \in 1 .. Len(asked) : asked[k] = r

\* How a call stands, by how far it has got.
Stand(r) ==
    /\ outcome[r] = "new" <=> pc[r] \in {"unused", "create", "send"}
    /\ outcome[r] = "threw" => pc[r] = "replied"
    /\ outcome[r] = "pending" \/ pc[r] \in {"create", "send"} => r \in replyOpen
    /\ outcome[r] \notin {"new", "threw"} => Asked(r)

\* A call is asked once; when one leaves the queue those before are replied.
Turns ==
    /\ Distinct(asked)
    /\ \A k, l \in 1 .. Len(asked) :
           k < l => pc[asked[l]] = "queued" \/ pc[asked[k]] = "replied"

\* The first n calls asked have an answer, the others have none.
Split(n) ==
    \A k \in 1 .. Len(asked) :
        /\ k <= n => Settled(asked[k])
        /\ k > n => outcome[asked[k]] = "pending"

Answers == \E n \in 0 .. Len(asked) : Split(n)

\* The queue q holds the last of the calls a.
RestOf(a, q) ==
    /\ Len(q) <= Len(a)
    /\ \A k \in 1 .. Len(a) - Len(q) : pc[a[k]] # "queued"
    /\ \A j \in 1 .. Len(q) : q[j] = a[Len(a) - Len(q) + j]

Rest == /\ asked # <<>> => receivePort \in Ports
        /\ \A p \in Ports : p = receivePort => RestOf(asked, queue[p])

\* The messages of the inbox q are of handled calls, in the order of these.
Arrived(q) ==
    /\ \A b \in 1 .. Len(q) : Asked(q[b].req) /\ pc[q[b].req] # "queued"
    /\ \A b, c \in 1 .. Len(q) : \A k, l \in 1 .. Len(asked) :
           b < c /\ asked[k] = q[b].req /\ asked[l] = q[c].req => k <= l

\* The message settles the call r.
Closes(m, r) == Mine(m, r) /\ (call[r].op = "exec" => Ends(m, r))

\* The last message of a call that was handled waits for it.
Final(q, r) == outcome[r] = "pending" /\ pc[r] = "replied" =>
                   \E b \in 1 .. Len(q) : Closes(q[b], r)

Order(i) == /\ \A r \in Requests : Stand(r)
            /\ Turns
            /\ Answers
            /\ Rest
            /\ Arrived(inbox[i])
            /\ \A r \in Requests : Final(inbox[i], r)

\* To begin with nothing is asked.
LEMMA OrderInit ==
    ASSUME NEW i \in Isolates, Init
    PROVE  Order(i)
  <1>1. /\ asked = <<>> /\ Len(asked) = 0 /\ inbox[i] = <<>> /\ Len(inbox[i]) = 0
        /\ \A p \in Ports : queue[p] = <<>> /\ Len(queue[p]) = 0
    BY DEF Init
  <1>2. \A r \in Requests : Stand(r) /\ Final(inbox[i], r)
    BY DEF Init, Stand, Final
  <1>3. Turns /\ Split(0) /\ Arrived(inbox[i])
    BY <1>1 DEF Turns, Distinct, Split, Arrived
  <1>4. Rest
    BY <1>1 DEF Rest, RestOf
  <1>5. Answers
    BY <1>1, <1>3 DEF Answers
  <1> QED
    BY <1>2, <1>3, <1>4, <1>5 DEF Order

\* A call that was asked has been sent, and is pending or settled.
LEMMA AskedTells ==
    ASSUME Inv, NEW i, Order(i), NEW k \in 1 .. Len(asked)
    PROVE  /\ asked[k] \in Requests
           /\ outcome[asked[k]] = "pending" \/ Settled(asked[k])
           /\ pc[asked[k]] \notin {"unused", "create", "send"}
  <1>1. asked[k] \in Requests
    BY DEF Inv, TypeOK
  <1>2. PICK n \in 0 .. Len(asked) : Split(n)
    BY DEF Order, Answers
  <1>3. Len(asked) \in Nat /\ k \in Nat /\ n \in Nat
    BY DEF Inv, TypeOK
  <1>4. k <= n \/ k > n
    BY <1>3
  <1>5. outcome[asked[k]] = "pending" \/ Settled(asked[k])
    BY <1>2, <1>4 DEF Split
  <1> QED
    BY <1>1, <1>5 DEF Order, Stand, Settled

\* A step that asks, handles and answers nothing.
LEMMA OrderQuiet ==
    ASSUME Inv, NEW i \in Isolates, Order(i),
           UNCHANGED <<asked, queue, outcome, inbox>>,
           receivePort' = receivePort \/
               (asked = <<>> /\ \A p \in Ports : queue[p] = <<>>),
           replyOpen \subseteq replyOpen',
           \A r \in Requests :
               \/ pc'[r] = pc[r] /\ call'[r] = call[r]
               \/ /\ {pc[r], pc'[r]} \subseteq {"unused", "create", "send"}
                  /\ r \in replyOpen'
    PROVE  Order(i)'
  <1>1. \A k \in 1 .. Len(asked) : asked[k] \in Requests /\ pc'[asked[k]] = pc[asked[k]]
    BY AskedTells
  <1>2. ASSUME NEW r \in Requests PROVE Stand(r)' /\ Final(inbox[i], r)'
    <2>1. Stand(r) /\ Final(inbox[i], r)
      BY DEF Order
    <2>2. Stand(r)'
      BY <2>1 DEF Stand, Asked
    <2>3. Final(inbox[i], r)'
      BY <2>1 DEF Final, Closes, Stand
    <2> QED
      BY <2>2, <2>3
  <1>3. Turns' /\ Answers'
    BY <1>1 DEF Order, Turns, Distinct, Answers, Split, Settled
  <1>4. Rest'
    <2>1. CASE receivePort' = receivePort
      <3>1. \A p \in Ports : p = receivePort => RestOf(asked, queue[p])
        BY DEF Order, Rest
      <3>2. ASSUME NEW p \in Ports, RestOf(asked, queue[p]) PROVE RestOf(asked, queue[p])'
        <4>1. \A k \in 1 .. Len(asked) - Len(queue[p]) : k \in 1 .. Len(asked)
          BY DEF Inv, TypeOK
        <4> QED
          BY <1>1, <3>2, <4>1 DEF RestOf
      <3> QED
        BY <2>1, <3>1, <3>2 DEF Order, Rest
    <2>2. CASE asked = <<>> /\ \A p \in Ports : queue[p] = <<>>
      <3>1. Len(asked') = 0 /\ \A p \in Ports : Len(queue'[p]) = 0
        BY <2>2
      <3> QED
        BY <2>2, <3>1 DEF Rest, RestOf
    <2> QED
      BY <2>1, <2>2
  <1>5. Arrived(inbox[i])'
    <2>1. Arrived(inbox[i]) /\ inbox'[i] = inbox[i]
      BY DEF Order
    <2>2. ASSUME NEW b \in 1 .. Len(inbox[i])
          PROVE  Asked(inbox[i][b].req)' /\ pc'[inbox[i][b].req] # "queued"
      <3>1. PICK k \in 1 .. Len(asked) : asked[k] = inbox[i][b].req
        BY <2>1 DEF Arrived, Asked
      <3> QED
        BY <1>1, <2>1, <3>1 DEF Arrived, Asked
    <2> QED
      BY <2>1, <2>2 DEF Arrived
  <1> QED
    BY <1>2, <1>3, <1>4, <1>5 DEF Order

\* A call that cannot be sent was never asked.
LEMMA RefuseOrder ==
    ASSUME Inv, NEW i \in Isolates, Order(i), NEW r \in Requests, pc[r] = "send",
           pc' = [pc EXCEPT ![r] = "replied"], outcome' = [outcome EXCEPT ![r] = "threw"],
           UNCHANGED <<asked, queue, inbox, receivePort, replyOpen, call>>
    PROVE  Order(i)'
  <1>0. /\ pc \in [Requests -> Stages]
        /\ outcome \in [Requests -> {"new", "pending", "threw", "completed", "error"}]
        /\ Len(asked) \in Nat
    BY DEF Inv, TypeOK
  <1>1. \A k \in 1 .. Len(asked) : /\ asked[k] \in Requests /\ asked[k] # r
                                   /\ pc'[asked[k]] = pc[asked[k]]
                                   /\ outcome'[asked[k]] = outcome[asked[k]]
    BY <1>0, AskedTells
  <1>2. ASSUME NEW s \in Requests PROVE Stand(s)' /\ Final(inbox[i], s)'
    <2>1. Stand(s) /\ Final(inbox[i], s)
      BY DEF Order
    <2>2. Stand(s)'
      BY <1>0, <2>1 DEF Stand, Asked
    <2>3. Final(inbox[i], s)'
      BY <1>0, <2>1 DEF Final, Closes
    <2> QED
      BY <2>2, <2>3
  <1>3. Turns' /\ Answers'
    <2>1. PICK n \in 0 .. Len(asked) : Split(n)
      BY DEF Order, Answers
    <2>2. Split(n)'
      BY <1>1, <2>1 DEF Split, Settled
    <2>3. Turns'
      BY <1>1 DEF Order, Turns, Distinct
    <2> QED
      BY <2>2, <2>3 DEF Answers
  <1>4. Rest'
    <2>1. ASSUME NEW p \in Ports, RestOf(asked, queue[p]) PROVE RestOf(asked, queue[p])'
      <3>1. \A k \in 1 .. Len(asked) - Len(queue[p]) : k \in 1 .. Len(asked)
        BY DEF Inv, TypeOK
      <3> QED
        BY ZenonT(60), <1>1, <2>1, <3>1 DEF RestOf
    <2> QED
      BY <2>1 DEF Order, Rest
  <1>5. Arrived(inbox[i])'
    <2>1. Arrived(inbox[i]) /\ inbox'[i] = inbox[i]
      BY DEF Order
    <2>2. ASSUME NEW b \in 1 .. Len(inbox[i])
          PROVE  Asked(inbox[i][b].req)' /\ pc'[inbox[i][b].req] # "queued"
      <3>1. PICK k \in 1 .. Len(asked) : asked[k] = inbox[i][b].req
        BY <2>1 DEF Arrived, Asked
      <3> QED
        BY <1>1, <2>1, <3>1 DEF Arrived, Asked
    <2> QED
      BY <2>1, <2>2 DEF Arrived
  <1> QED
    BY <1>2, <1>3, <1>4, <1>5 DEF Order

\* A call that is sent is the last one asked, and the last in the queue.
LEMMA AskOrder ==
    ASSUME Inv, Alone, NEW i \in Isolates, Order(i), NEW r \in Requests, pc[r] = "send",
           receivePort \in Ports,
           queue' = [queue EXCEPT ![receivePort] = Append(@, r)],
           asked' = Append(asked, r),
           pc' = [pc EXCEPT ![r] = "queued"], outcome' = [outcome EXCEPT ![r] = "pending"],
           UNCHANGED <<inbox, receivePort, replyOpen, call>>
    PROVE  Order(i)'
  <1> DEFINE a == asked
             N == Len(asked)
             q == queue[receivePort]
  <1>0. /\ pc \in [Requests -> Stages]
        /\ outcome \in [Requests -> {"new", "pending", "threw", "completed", "error"}]
        /\ a \in Seq(Requests) /\ q \in Seq(Requests)
    BY DEF Inv, TypeOK
  <1>1. \A k \in 1 .. N : /\ a[k] \in Requests /\ a[k] # r
                          /\ pc'[a[k]] = pc[a[k]] /\ outcome'[a[k]] = outcome[a[k]]
    BY <1>0, AskedTells
  <1>2. /\ N \in Nat /\ Len(asked') = N + 1 /\ asked'[N + 1] = r
        /\ \A k \in 1 .. N : asked'[k] = a[k]
        /\ asked' # <<>>
    BY <1>0, AppendPlaces
  <1>3. \A k \in 1 .. N + 1 : k \in 1 .. N \/ k = N + 1
    BY <1>2
  <1>30. \A k \in 1 .. N : k \in 1 .. N + 1 /\ k < N + 1
    BY <1>2
  <1>31. N + 1 \in 1 .. N + 1
    BY <1>2
  <1>4. /\ queue'[receivePort] = Append(q, r)
        /\ Len(q) \in Nat /\ Len(Append(q, r)) = Len(q) + 1
        /\ Append(q, r)[Len(q) + 1] = r
        /\ \A k \in 1 .. Len(q) : Append(q, r)[k] = q[k]
    <2>1. queue'[receivePort] = Append(q, r)
      BY DEF Inv, TypeOK
    <2> HIDE DEF q
    <2> QED
      BY <1>0, <2>1, AppendPlaces
  <1> HIDE DEF a, N, q
  <1>5. ASSUME NEW s \in Requests PROVE Stand(s)' /\ Final(inbox[i], s)'
    <2>1. Stand(s) /\ Final(inbox[i], s)
      BY DEF Order
    <2>2. Asked(s) => Asked(s)'
      BY <1>2, <1>30 DEF Asked, a, N
    <2>3. Asked(r)'
      BY <1>2, <1>31 DEF Asked
    <2>4. Stand(s)'
      BY <1>0, <2>1, <2>2, <2>3 DEF Stand
    <2>5. Final(inbox[i], s)'
      BY <1>0, <2>1 DEF Final, Closes
    <2> QED
      BY <2>4, <2>5
  <1>6. Turns'
    <2>1. Distinct(asked')
      <3>1. Distinct(a)
        BY DEF Order, Turns, a
      <3> QED
        BY <1>1, <1>2, <1>3, <3>1 DEF Distinct, N, a
    <2>2. ASSUME NEW k \in 1 .. N + 1, NEW l \in 1 .. N + 1, k < l
          PROVE  pc'[asked'[l]] = "queued" \/ pc'[asked'[k]] = "replied"
      <3>1. CASE l = N + 1
        BY <1>0, <1>2, <3>1
      <3>2. CASE l \in 1 .. N
        <4>1. k \in 1 .. N
          BY <1>2, <2>2, <3>2
        <4>2. pc[a[l]] = "queued" \/ pc[a[k]] = "replied"
          BY <2>2, <3>2, <4>1 DEF Order, Turns, a, N
        <4> QED
          BY <1>1, <1>2, <3>2, <4>1, <4>2
      <3> QED
        BY <1>3, <3>1, <3>2
    <2> QED
      BY <1>2, <2>1, <2>2 DEF Turns, Distinct
  <1>7. Answers'
    <2>1. PICK n \in 0 .. N : Split(n)
      BY DEF Order, Answers, N
    <2>2. n \in 0 .. N + 1 /\ ~(N + 1 <= n)
      BY <1>2
    <2>3. ASSUME NEW k \in 1 .. N + 1
          PROVE  /\ k <= n => outcome'[asked'[k]] \in {"completed", "error"}
                 /\ k > n => outcome'[asked'[k]] = "pending"
      <3>1. CASE k = N + 1
        BY <1>0, <1>2, <2>2, <3>1
      <3>2. CASE k \in 1 .. N
        BY <1>1, <1>2, <2>1, <3>2 DEF Split, Settled, a, N
      <3> QED
        BY <1>3, <3>1, <3>2
    <2>4. Split(n)'
      BY <1>2, <2>3 DEF Split, Settled
    <2> QED
      BY <1>2, <2>2, <2>4 DEF Answers
  <1>8. Rest'
    <2>1. RestOf(a, q)
      BY DEF Order, Rest, a, q
    <2>0. N \in Nat /\ Len(q) \in Nat /\ Len(q) <= N
      BY <1>2, <1>4, <2>1 DEF RestOf, N, a
    <2>2. Len(q) + 1 <= N + 1 /\ (N + 1) - (Len(q) + 1) = N - Len(q)
      BY <2>0
    <2>3. ASSUME NEW k \in 1 .. N - Len(q) PROVE pc'[asked'[k]] # "queued"
      <3>1. k \in 1 .. N
        BY <2>0
      <3> QED
        BY <1>1, <1>2, <2>1, <3>1 DEF RestOf, N, a
    <2>4. ASSUME NEW j \in 1 .. Len(q) + 1
          PROVE  Append(q, r)[j] = asked'[N - Len(q) + j]
      <3>1. CASE j = Len(q) + 1
        <4>1. N - Len(q) + j = N + 1
          BY <2>0, <3>1
        <4> QED
          BY <1>2, <1>4, <3>1, <4>1
      <3>2. CASE j \in 1 .. Len(q)
        <4>1. N - Len(q) + j \in 1 .. N
          BY <2>0, <3>2
        <4>2. q[j] = a[N - Len(q) + j]
          BY <2>1, <3>2 DEF RestOf, N, a
        <4> QED
          BY <1>2, <1>4, <3>2, <4>1, <4>2
      <3>3. j \in 1 .. Len(q) \/ j = Len(q) + 1
        BY <2>0
      <3> QED
        BY <3>1, <3>2, <3>3
    <2>5. RestOf(asked, queue[receivePort])'
      <3>1. /\ Len(Append(q, r)) <= Len(asked')
            /\ Len(asked') - Len(Append(q, r)) = N - Len(q)
            /\ Len(Append(q, r)) = Len(q) + 1
        BY <1>2, <1>4, <2>2
      <3>2. queue'[receivePort'] = Append(q, r)
        BY <1>4
      <3> DEFINE w == queue'[receivePort']
                 m == Len(asked')
      <3>3. Len(w) <= m /\ m - Len(w) = N - Len(q) /\ Len(w) = Len(q) + 1 /\ w = Append(q, r)
        BY <3>1, <3>2
      <3>4. \A k \in 1 .. m - Len(w) : pc'[asked'[k]] # "queued"
        <4> HIDE DEF w, m
        <4> QED
          BY <2>3, <3>3
      <3>5. \A j \in 1 .. Len(w) : w[j] = asked'[m - Len(w) + j]
        <4> HIDE DEF w, m, N, q
        <4> QED
          BY <2>4, <3>3
      <3> QED
        BY <3>3, <3>4, <3>5 DEF RestOf
    <2> QED
      BY <1>2, <2>5 DEF Rest, RestOf
  <1>9. Arrived(inbox[i])'
    <2>1. Arrived(inbox[i]) /\ inbox'[i] = inbox[i]
      BY DEF Order
    <2>2. ASSUME NEW b \in 1 .. Len(inbox[i])
          PROVE  /\ Asked(inbox[i][b].req)' /\ pc'[inbox[i][b].req] # "queued"
                 /\ inbox[i][b].req # r
      <3>1. PICK k \in 1 .. N : a[k] = inbox[i][b].req
        BY <2>1 DEF Arrived, Asked, a, N
      <3>2. asked'[k] = inbox[i][b].req /\ k \in 1 .. Len(asked')
        BY <1>2, <1>30, <3>1
      <3> QED
        BY <1>1, <2>1, <3>1, <3>2 DEF Arrived, Asked
    <2>3. ASSUME NEW b \in 1 .. Len(inbox[i]), NEW c \in 1 .. Len(inbox[i]), b < c,
                 NEW k \in 1 .. N + 1, NEW l \in 1 .. N + 1,
                 asked'[k] = inbox[i][b].req, asked'[l] = inbox[i][c].req
          PROVE  k <= l
      <3>1. k # N + 1 /\ l # N + 1
        BY <1>2, <2>2, <2>3
      <3>2. k \in 1 .. N /\ l \in 1 .. N
        BY <1>3, <3>1
      <3>3. a[k] = inbox[i][b].req /\ a[l] = inbox[i][c].req
        BY <1>2, <2>3, <3>2
      <3> QED
        BY <2>1, <2>3, <3>2, <3>3 DEF Arrived, a, N
    <2> QED
      BY <1>2, <2>1, <2>2, <2>3 DEF Arrived
  <1> QED
    BY <1>5, <1>6, <1>7, <1>8, <1>9 DEF Order

\* The call whose handler starts is the first in the queue: those before it
\* have been handled, for no other handler runs.
LEMMA DequeueOrder ==
    ASSUME Inv, Alone, ~ConcurrentHandlers, NEW i \in Isolates, Rows(i), Order(i),
           NEW p \in Ports, Dequeue(p)
    PROVE  Order(i)'
  <1> DEFINE a == asked
             N == Len(asked)
             q == queue[p]
             r == Head(queue[p])
  <1>0. /\ pc \in [Requests -> Stages] /\ N \in Nat
        /\ a \in Seq(Requests) /\ q \in Seq(Requests) /\ q # <<>>
    BY DEF Inv, TypeOK, Dequeue
  <1>1. PICK stage \in {"exec", "table", "simple"} : pc' = [pc EXCEPT ![r] = stage]
    BY DEF Dequeue, Goto
  <1>2. /\ p = receivePort /\ busy[p] = {}
        /\ queue' = [queue EXCEPT ![p] = Tail(@)] /\ queue'[p] = Tail(q)
        /\ UNCHANGED <<receivePort, asked, call, inbox, replyOpen, outcome>>
    BY DEF Dequeue, Alone, OthersIdle, replyVars, Inv, TypeOK
  <1>3. /\ Len(Tail(q)) = Len(q) - 1 /\ Len(q) \in Nat /\ Len(q) > 0
        /\ \A j \in 1 .. Len(Tail(q)) : Tail(q)[j] = q[j + 1] /\ j + 1 \in 1 .. Len(q)
        /\ r = q[1] /\ 1 \in 1 .. Len(q) /\ r \in Requests
    <2> HIDE DEF q
    <2>1. /\ Tail(q) \in Seq(Requests) /\ Len(Tail(q)) = Len(q) - 1 /\ Len(q) > 0
          /\ \A j \in 1 .. Len(Tail(q)) : Tail(q)[j] = q[j + 1] /\ j + 1 \in 1 .. Len(q)
          /\ Head(q) = q[1] /\ 1 \in 1 .. Len(q) /\ Len(q) \in Nat
      BY <1>0, TailPlaces
    <2> QED
      BY <1>0, <2>1 DEF q
  <1>4. pc[r] = "queued"
    BY <1>3, WaitingTells DEF Rows
  <1>5. RestOf(a, q)
    BY <1>2 DEF Order, Rest
  <1> HIDE DEF a, N, q, r
  <1>6. PICK c \in 1 .. N : c = N - Len(q) + 1 /\ a[c] = r
    <2>1. N - Len(q) + 1 \in 1 .. N
      BY <1>0, <1>3, <1>5 DEF RestOf, N, a
    <2>2. q[1] = a[N - Len(q) + 1]
      BY <1>3, <1>5 DEF RestOf, N, a
    <2> QED
      BY <1>3, <2>1, <2>2
  <1>7. /\ Distinct(a)
        /\ \A k, l \in 1 .. N : k < l => pc[a[l]] = "queued" \/ pc[a[k]] = "replied"
    BY DEF Order, Turns, a, N
  <1>8. \A k \in 1 .. N : /\ a[k] \in Requests
                          /\ k # c => a[k] # r /\ pc'[a[k]] = pc[a[k]]
    BY <1>0, <1>1, <1>6, <1>7, AskedTells DEF Distinct, a, N
  <1>9. ASSUME NEW k \in 1 .. N, k < c PROVE pc[a[k]] = "replied"
    <2>1. k \in 1 .. N - Len(q)
      BY <1>0, <1>3, <1>6, <1>9
    <2>2. pc[a[k]] # "queued"
      BY <1>5, <2>1 DEF RestOf, N, a
    <2>3. a[k] \in Requests /\ pc[a[k]] \notin {"unused", "create", "send"}
      BY AskedTells DEF a, N
    <2>4. pc[a[k]] \notin InHandler
      BY <1>2, <2>3 DEF Alone, HandlersOnPort
    <2> QED
      BY <1>0, <2>2, <2>3, <2>4 DEF Stages, InHandler
  <1>10. ASSUME NEW s \in Requests PROVE Stand(s)' /\ Final(inbox[i], s)'
    <2>1. Stand(s) /\ Final(inbox[i], s)
      BY DEF Order
    <2>2. Stand(s)'
      BY <1>0, <1>1, <1>2, <1>4, <2>1 DEF Stand, Asked
    <2>3. Final(inbox[i], s)'
      BY <1>0, <1>1, <1>2, <2>1 DEF Final, Closes
    <2> QED
      BY <2>2, <2>3
  <1>11. Turns'
    <2>1. ASSUME NEW k \in 1 .. N, NEW l \in 1 .. N, k < l
          PROVE  pc'[a[l]] = "queued" \/ pc'[a[k]] = "replied"
      <3>1. CASE l = c
        <4>1. k < c /\ k # c
          BY <2>1, <3>1
        <4> QED
          BY <1>8, <1>9, <4>1
      <3>2. CASE k = c
        <4>1. l # c /\ pc[a[l]] = "queued"
          BY <1>4, <1>6, <1>7, <2>1, <3>2
        <4> QED
          BY <1>8, <4>1
      <3>3. CASE k # c /\ l # c
        BY <1>7, <1>8, <2>1, <3>3
      <3> QED
        BY <3>1, <3>2, <3>3
    <2> QED
      BY <1>2, <1>7, <2>1 DEF Turns, Distinct, a, N
  <1>12. Answers'
    BY <1>2 DEF Order, Answers, Split, Settled
  <1>13. Rest'
    <2>1. Len(q) - 1 <= N /\ N - (Len(q) - 1) = c
      BY <1>0, <1>3, <1>6
    <2>2. ASSUME NEW k \in 1 .. c PROVE pc'[a[k]] # "queued"
      <3>1. CASE k = c
        BY <1>0, <1>1, <1>3, <1>6, <3>1
      <3>2. CASE k # c
        <4>1. k \in 1 .. N /\ k < c
          BY <1>0, <1>6, <3>2
        <4> QED
          BY <1>8, <1>9, <3>2, <4>1
      <3> QED
        BY <3>1, <3>2
    <2>3. ASSUME NEW j \in 1 .. Len(q) - 1 PROVE Tail(q)[j] = a[c + j]
      <3>1. j + 1 \in 1 .. Len(q) /\ Tail(q)[j] = q[j + 1]
        BY <1>3
      <3>2. q[j + 1] = a[N - Len(q) + (j + 1)]
        BY <1>5, <3>1 DEF RestOf, N, a
      <3>3. N - Len(q) + (j + 1) = c + j
        BY <1>0, <1>3, <1>6
      <3> QED
        BY <3>1, <3>2, <3>3
    <2>4. /\ Len(queue'[p]) = Len(q) - 1 /\ Len(asked') = N /\ asked' = a
          /\ queue'[p] = Tail(q)
      BY <1>2, <1>3 DEF N, a
    <2>5. RestOf(asked, queue[p])'
      BY <2>1, <2>2, <2>3, <2>4 DEF RestOf
    <2> QED
      BY <1>2, <2>5 DEF Order, Rest, RestOf
  <1>14. Arrived(inbox[i])'
    <2>1. Arrived(inbox[i]) /\ inbox'[i] = inbox[i]
      BY <1>2 DEF Order
    <2>2. ASSUME NEW b \in 1 .. Len(inbox[i])
          PROVE  Asked(inbox[i][b].req)' /\ pc'[inbox[i][b].req] # "queued"
      <3>1. PICK k \in 1 .. N : a[k] = inbox[i][b].req
        BY <2>1 DEF Arrived, Asked, a, N
      <3>2. pc'[a[k]] # "queued"
        <4>1. CASE k = c
          BY <1>0, <1>1, <1>3, <1>6, <4>1
        <4>2. CASE k # c
          BY <1>8, <2>1, <3>1, <4>2 DEF Arrived
        <4> QED
          BY <4>1, <4>2
      <3> QED
        BY <1>2, <3>1, <3>2 DEF Asked, a, N
    <2> QED
      BY <1>2, <2>1, <2>2 DEF Arrived
  <1> QED
    BY <1>10, <1>11, <1>12, <1>13, <1>14 DEF Order

\* What a step of a handler does to the order: it may post a message of its
\* call, and does so when it returns.
LEMMA HandlerOrder ==
    ASSUME Inv, NEW i \in Isolates, Order(i), NEW r \in Requests, pc[r] \in InHandler,
           NEW stage \in InHandler \cup {"replied"}, pc' = [pc EXCEPT ![r] = stage],
           UNCHANGED <<receivePort, asked, queue, call, replyOpen, outcome>>,
           NEW m \in Messages, Mine(m, r),
           inbox'[i] = inbox[i] \/ inbox'[i] = Append(inbox[i], m),
           stage = "replied" /\ r \in replyOpen =>
               Closes(m, r) /\ inbox'[i] = Append(inbox[i], m)
    PROVE  Order(i)'
  <1> DEFINE a == asked
             N == Len(asked)
             q == inbox[i]
             t == inbox'[i]
  <1>0. /\ pc \in [Requests -> Stages] /\ N \in Nat
        /\ a \in Seq(Requests) /\ q \in Seq(Messages)
        /\ stage \notin {"unused", "create", "send", "queued"}
    BY DEF Inv, TypeOK, InHandler
  <1>1. Stand(r) /\ pc[r] \notin {"unused", "create", "send", "queued", "replied"}
    BY DEF Order, InHandler
  <1>2. PICK c \in 1 .. N : a[c] = r
    BY <1>1 DEF Stand, Asked
  <1> HIDE DEF a, N, q, t
  <1>3. /\ Distinct(a)
        /\ \A k, l \in 1 .. N : k < l => pc[a[l]] = "queued" \/ pc[a[k]] = "replied"
    BY DEF Order, Turns, a, N
  <1>4. \A k \in 1 .. N : /\ a[k] \in Requests
                          /\ k # c => a[k] # r /\ pc'[a[k]] = pc[a[k]]
    BY <1>0, <1>2, <1>3, AskedTells DEF Distinct, a, N
  <1>5. ASSUME NEW k \in 1 .. N
        PROVE  /\ k < c => pc[a[k]] = "replied"
               /\ k > c => pc[a[k]] = "queued"
    BY <1>1, <1>2, <1>3
  <1>6. /\ Len(q) \in Nat
        /\ \A b \in 1 .. Len(q) : b \in 1 .. Len(t) /\ t[b] = q[b]
        /\ \A b \in 1 .. Len(t) : b \in 1 .. Len(q) \/ (b = Len(q) + 1 /\ t[b] = m)
    <2>0. Len(q) \in Nat
      BY <1>0
    <2>1. CASE t = q
      BY <2>0, <2>1
    <2>2. CASE t = Append(q, m)
      <3>1. /\ Len(t) = Len(q) + 1 /\ t[Len(q) + 1] = m
            /\ \A j \in 1 .. Len(q) : t[j] = q[j]
        BY <1>0, <2>2, AppendPlaces
      <3> QED
        BY <2>0, <3>1
    <2> QED
      BY <2>1, <2>2 DEF t, q
  <1>7. m.req = r
    BY DEF Mine
  <1>8. Arrived(q)
    BY DEF Order, q
  <1>9. ASSUME NEW s \in Requests PROVE Stand(s)'
    <2>1. Stand(s)
      BY DEF Order
    <2> QED
      BY <1>0, <1>1, <2>1 DEF Stand, Asked
  <1>10. Turns'
    <2>1. ASSUME NEW k \in 1 .. N, NEW l \in 1 .. N, k < l
          PROVE  pc'[a[l]] = "queued" \/ pc'[a[k]] = "replied"
      <3>1. CASE l = c
        <4>1. k < c /\ k # c
          BY <2>1, <3>1
        <4> QED
          BY <1>4, <1>5, <4>1
      <3>2. CASE k = c
        <4>1. l > c /\ l # c
          BY <2>1, <3>2
        <4> QED
          BY <1>4, <1>5, <4>1
      <3>3. CASE k # c /\ l # c
        BY <1>3, <1>4, <2>1, <3>3
      <3> QED
        BY <3>1, <3>2, <3>3
    <2> QED
      BY <1>3, <2>1 DEF Turns, Distinct, a, N
  <1>11. Answers'
    BY DEF Order, Answers, Split, Settled
  <1>12. Rest'
    <2>1. ASSUME NEW p \in Ports, RestOf(asked, queue[p]) PROVE RestOf(asked, queue[p])'
      <3>1. ASSUME NEW k \in 1 .. Len(asked) - Len(queue[p]) PROVE pc'[asked[k]] # "queued"
        <4>1. k \in 1 .. N
          BY DEF Inv, TypeOK, N
        <4>2. pc[asked[k]] # "queued"
          BY <2>1 DEF RestOf
        <4> QED
          BY <1>0, <1>2, <1>4, <4>1, <4>2 DEF a
      <3> QED
        BY <2>1, <3>1 DEF RestOf
    <2> QED
      BY <2>1 DEF Order, Rest
  <1>13. Arrived(inbox[i])'
    <2>1. ASSUME NEW b \in 1 .. Len(t)
          PROVE  Asked(t[b].req) /\ pc'[t[b].req] # "queued"
      <3>1. CASE b \in 1 .. Len(q)
        <4>1. PICK k \in 1 .. N : a[k] = t[b].req
          BY <1>6, <1>8, <3>1 DEF Arrived, Asked, a, N
        <4>2. pc'[a[k]] # "queued"
          <5>1. CASE k = c
            BY <1>0, <1>2, <5>1
          <5>2. CASE k # c
            BY <1>4, <1>6, <1>8, <3>1, <4>1, <5>2 DEF Arrived
          <5> QED
            BY <5>1, <5>2
        <4> QED
          BY <4>1, <4>2 DEF Asked, a, N
      <3>2. CASE t[b] = m
        BY <1>0, <1>2, <1>7, <3>2 DEF Asked, a, N
      <3> QED
        BY <1>6, <3>1, <3>2
    <2>2. ASSUME NEW b \in 1 .. Len(t), NEW d \in 1 .. Len(t), b < d,
                 NEW k \in 1 .. N, NEW l \in 1 .. N, a[k] = t[b].req, a[l] = t[d].req
          PROVE  k <= l
      <3>1. b \in 1 .. Len(q)
        BY <1>6, <2>2
      <3>2. CASE d \in 1 .. Len(q)
        BY <1>6, <1>8, <2>2, <3>1, <3>2 DEF Arrived, a, N
      <3>3. CASE t[d] = m
        <4>1. l = c
          BY <1>2, <1>3, <1>7, <2>2, <3>3 DEF Distinct, N, a
        <4>2. pc[a[k]] # "queued"
          BY <1>6, <1>8, <2>2, <3>1 DEF Arrived
        <4>3. ~(k > c)
          BY <1>5, <4>2
        <4> QED
          BY <1>0, <4>1, <4>3
      <3> QED
        BY <1>6, <3>2, <3>3
    <2> QED
      BY <2>1, <2>2 DEF Arrived, Asked, a, N, t
  <1>14. ASSUME NEW s \in Requests PROVE Final(inbox[i], s)'
    <2>1. Final(q, s) /\ Stand(s)
      BY DEF Order, q
    <2>2. SUFFICES ASSUME outcome[s] = "pending", pc'[s] = "replied"
                   PROVE  \E b \in 1 .. Len(t) : Closes(t[b], s)
      BY DEF Final, Closes, t
    <2>3. CASE pc[s] = "replied"
      <3>1. PICK b \in 1 .. Len(q) : Closes(q[b], s)
        BY <2>1, <2>2, <2>3 DEF Final
      <3> QED
        BY <1>6, <3>1
    <2>4. CASE s = r /\ stage = "replied"
      <3>1. r \in replyOpen
        BY <2>1, <2>2, <2>4 DEF Stand
      <3>2. t = Append(q, m) /\ Closes(m, r)
        BY <2>4, <3>1 DEF t, q
      <3>3. Len(t) = Len(q) + 1 /\ t[Len(q) + 1] = m
        BY <1>0, <3>2, AppendPlaces
      <3>4. Len(t) \in 1 .. Len(t) /\ t[Len(t)] = m
        BY <1>6, <3>3
      <3> QED
        BY <2>4, <3>2, <3>4
    <2> QED
      BY <1>0, <2>2, <2>3, <2>4
  <1> QED
    BY <1>9, <1>10, <1>11, <1>12, <1>13, <1>14 DEF Order

\* Each step of a handler keeps the order.
LEMMA HandleOrder ==
    ASSUME Inv, NEW i, Isolates = {i}, Rows(i), Order(i), NEW r \in Requests,
           Handle(r) \/ EndProcess(r)
    PROVE  Order(i)'
  <1> USE DEF dartVars, threadVars, replyVars
  <1>0. /\ pc \in [Requests -> Stages] /\ dynpointer \in Texts
        /\ result[r] \in MessageTypes /\ i \in Isolates
        /\ "null" \in MessageTypes /\ "bool" \in MessageTypes /\ "string" \in MessageTypes
    BY DEF Inv, TypeOK, MessageTypes
  <1>1. \A type \in MessageTypes, t \in Texts :
            Message(r, type, t) \in Messages /\ Mine(Message(r, type, t), r)
    BY FreshTexts, MessageTells DEF Message, Messages
  <1>2. Zeroed \in Texts
    BY FreshTexts
  <1>3. ASSUME UNCHANGED <<receivePort, asked, queue, call, replyOpen, outcome, inbox>>,
               pc[r] \in InHandler, NEW stage \in InHandler, pc' = [pc EXCEPT ![r] = stage]
        PROVE  Order(i)'
    <2>1. stage # "replied"
      BY DEF InHandler
    <2>2. PICK m \in Messages : Mine(m, r)
      BY <1>0, <1>1, <1>2
    <2>3. inbox'[i] = inbox[i]
      BY <1>3
    <2>4. stage \in InHandler \cup {"replied"}
      OBVIOUS
    <2> QED
      BY <1>0, <1>3, <2>1, <2>2, <2>3, <2>4, HandlerOrder
  <1>4. ASSUME NEW type \in MessageTypes, NEW t \in Texts, Post(r, type, t),
               UNCHANGED <<receivePort, asked, queue, call, replyOpen, outcome>>,
               pc[r] \in InHandler, NEW stage \in InHandler \cup {"replied"},
               pc' = [pc EXCEPT ![r] = stage],
               stage = "replied" => Closes(Message(r, type, t), r)
        PROVE  Order(i)'
    <2> DEFINE m == Message(r, type, t)
    <2>1. pc[r] # "unused"
      BY <1>4 DEF InHandler
    <2>2. /\ r \in replyOpen => inbox'[i] = Append(inbox[i], m)
          /\ r \notin replyOpen => UNCHANGED inbox
      BY <1>4, <2>1, PostTells
    <2>3. m \in Messages /\ Mine(m, r)
      BY <1>1
    <2> HIDE DEF m
    <2> QED
      BY <1>0, <1>4, <2>2, <2>3, HandlerOrder DEF m
  <1>5. CASE SimpleCall(r)
    <2>1. PICK stage \in {"reply", "mount"} : pc' = [pc EXCEPT ![r] = stage]
      BY <1>5 DEF SimpleCall, Goto
    <2> QED
      BY <1>3, <1>5, <2>1 DEF SimpleCall, InHandler
  <1>6. CASE ExecEnter(r)
    BY <1>3, <1>6 DEF ExecEnter, Goto, InHandler
  <1>7. CASE RowIndex(r)
    BY <1>3, <1>7 DEF RowIndex, Goto, InHandler
  <1>8. CASE RowColumns(r)
    BY <1>3, <1>8 DEF RowColumns, Goto, InHandler
  <1>9. CASE RowPost(r)
    BY <1>0, <1>4, <1>9 DEF RowPost, Goto, InHandler
  <1>10. CASE ExecReturn(r)
    <2>1. PICK stage \in {"reply", "mount"} : pc' = [pc EXCEPT ![r] = stage]
      BY <1>10 DEF ExecReturn, Goto
    <2> QED
      BY <1>3, <1>10, <2>1 DEF ExecReturn, InHandler
  <1>11. CASE TableQuery(r)
    <2>1. PICK stage \in {"reply", "mount"} : pc' = [pc EXCEPT ![r] = stage]
      BY <1>11 DEF TableQuery, Goto
    <2>2. UNCHANGED inbox \/ Post(r, "bool", Zeroed)
      BY <1>11 DEF TableQuery
    <2>3. /\ pc[r] = "table" /\ stage # "replied"
          /\ UNCHANGED <<receivePort, asked, queue, call, replyOpen, outcome>>
      BY <1>11 DEF TableQuery
    <2> QED
      BY <1>0, <1>2, <1>3, <1>4, <2>1, <2>2, <2>3 DEF InHandler
  <1>12. CASE MountException(r)
    BY <1>3, <1>12 DEF MountException, Goto, InHandler
  <1>13. CASE Reply(r)
    <2>1. /\ pc[r] = "reply" /\ pc' = [pc EXCEPT ![r] = "replied"]
          /\ Post(r, result[r], dynpointer)
          /\ UNCHANGED <<receivePort, asked, queue, call, replyOpen, outcome>>
      BY <1>13 DEF Reply, Goto
    <2>2. Whole(i, r)
      BY DEF Rows
    <2>3. result[r] = "string" => dynpointer = ErrorText(r)
      BY <2>1, <2>2 DEF Whole, Buffer
    <2>4. call[r].op = "exec" => result[r] \in {"null", "string"}
      BY <2>1, <2>2 DEF Whole, Staged
    <2>5. Closes(Message(r, result[r], dynpointer), r)
      BY <2>3, <2>4, MessageTells DEF Closes, IsLast, Ends
    <2> QED
      BY <1>0, <1>4, <2>1, <2>5 DEF InHandler
  <1>14. CASE EndProcess(r)
    BY <1>3, <1>14 DEF EndProcess, Goto, InHandler
  <1> QED
    BY <1>5, <1>6, <1>7, <1>8, <1>9, <1>10, <1>11, <1>12, <1>13, <1>14 DEF Handle

\* The isolate makes a call.
LEMMA CallsOrder ==
    ASSUME Inv, Alone, NEW i, Isolates = {i}, Rows(i), Order(i),
           \/ LoadLibrary(i) \/ CreatePort(i) \/ Send(i)
           \/ \E r \in Requests, o \in Ops, c \in Conns : Call(i, r, o, c)
    PROVE  Order(i)'
  <1> USE DEF threadVars, replyVars, Goto
  <1>0. i \in Isolates /\ pc \in [Requests -> Stages]
    BY DEF Inv, TypeOK
  <1>1. CASE LoadLibrary(i)
    BY <1>0, <1>1, OrderQuiet DEF LoadLibrary
  <1>2. ASSUME NEW r \in Requests, NEW o \in Ops, NEW c \in Conns, Call(i, r, o, c)
        PROVE  Order(i)'
    <2>1. \A s \in Requests :
              \/ pc'[s] = pc[s] /\ call'[s] = call[s]
              \/ /\ {pc[s], pc'[s]} \subseteq {"unused", "create", "send"}
                 /\ s \in replyOpen'
      BY <1>0, <1>2 DEF Call, Inv, TypeOK
    <2> QED
      BY <1>0, <1>2, <2>1, OrderQuiet DEF Call
  <1>3. CASE CreatePort(i)
    <2> DEFINE r == calling[i]
    <2>1. r \in Requests /\ pc[r] = "create" /\ pc' = [pc EXCEPT ![r] = "send"]
      BY <1>3 DEF CreatePort, Inv, TypeOK
    <2>2. receivePort = ILLEGAL_PORT
      BY <2>1 DEF Alone, CreatesWhenMissing
    <2>3. asked = <<>> /\ \A p \in Ports : queue[p] = <<>>
      BY <2>2, BridgeAssumption DEF Alone, OthersIdle, Order, Rest
    <2>4. r \in replyOpen
      BY <2>1 DEF Order, Stand
    <2>5. \A s \in Requests :
              \/ pc'[s] = pc[s] /\ call'[s] = call[s]
              \/ /\ {pc[s], pc'[s]} \subseteq {"unused", "create", "send"}
                 /\ s \in replyOpen'
      BY <1>0, <1>3, <2>1, <2>4 DEF CreatePort
    <2> QED
      BY <1>0, <1>3, <2>3, <2>5, OrderQuiet DEF CreatePort
  <1>4. CASE Send(i)
    <2> DEFINE r == calling[i]
    <2>1. r \in Requests /\ pc[r] = "send"
      BY <1>4 DEF Send, Inv, TypeOK
    <2>2. CASE receivePort = ILLEGAL_PORT
      <3>1. /\ pc' = [pc EXCEPT ![r] = "replied"]
            /\ outcome' = [outcome EXCEPT ![r] = "threw"]
            /\ UNCHANGED <<asked, queue, inbox, receivePort, replyOpen, call>>
        BY <1>4, <2>2 DEF Send
      <3> HIDE DEF r
      <3> QED
        BY <1>0, <2>1, <3>1, RefuseOrder
    <2>3. CASE receivePort # ILLEGAL_PORT
      <3>1. /\ pc' = [pc EXCEPT ![r] = "queued"]
            /\ outcome' = [outcome EXCEPT ![r] = "pending"]
            /\ queue' = [queue EXCEPT ![receivePort] = Append(@, r)]
            /\ asked' = Append(asked, r) /\ receivePort \in Ports
            /\ UNCHANGED <<inbox, receivePort, replyOpen, call>>
        BY <1>4, <2>3 DEF Send, Inv, TypeOK
      <3> HIDE DEF r
      <3> QED
        BY <1>0, <2>1, <3>1, AskOrder
    <2> QED
      BY <2>2, <2>3
  <1> QED
    BY <1>1, <1>2, <1>3, <1>4

\* What the next message does to its call: nothing if the port is closed, it
\* gives the next row, or it settles the call.
Given(r, m) == /\ call[r].op = "exec" /\ ~Closes(m, r)
               /\ received' = [received EXCEPT ![r] = Append(@, RowText(r, Len(@) + 1))]
               /\ UNCHANGED <<replyOpen, outcome>>

Finished(r) == /\ replyOpen' = replyOpen \ {r}
                /\ \/ /\ outcome' = [outcome EXCEPT ![r] = "completed"]
                      /\ UNCHANGED received
                   \/ /\ outcome' = [outcome EXCEPT ![r] = "error"]
                      /\ received' = [received EXCEPT ![r] = Append(@, ErrorText(r))]

Missed(r) == r \notin replyOpen /\ UNCHANGED <<replyOpen, received, outcome>>

\* The event loop does one of these.
LEMMA DispatchTells ==
    ASSUME Inv, NEW i, Isolates = {i}, Rows(i), Dispatch(i)
    PROVE  LET m == Head(inbox[i]) IN
           /\ inbox[i] # <<>> /\ inbox[i] \in Seq(Messages) /\ inbox'[i] = Tail(inbox[i])
           /\ m \in Messages /\ m.req \in Requests
           /\ UNCHANGED <<receivePort, asked, queue, call, pc>>
           /\ \/ Missed(m.req)
              \/ m.req \in replyOpen /\ (Given(m.req, m) \/ Finished(m.req))
  <1> DEFINE m == Head(inbox[i])
             q == inbox[i]
  <1>1. /\ inbox[i] # <<>> /\ inbox'[i] = Tail(inbox[i])
        /\ UNCHANGED <<receivePort, asked, queue, call, pc>>
        /\ q \in Seq(Messages)
        /\ outcome \in [Requests -> {"new", "pending", "threw", "completed", "error"}]
        /\ received \in [Requests -> Seq(Texts)]
    BY DEF Dispatch, dartVars, Inv, TypeOK
  <1>2. m \in SentMessages /\ m \in Messages /\ m.req \in Requests
    <2>1. m \in SentMessages
      BY <1>1, TailAt DEF Inv, OnlySent
    <2> QED
      BY <2>1 DEF SentMessages, Messages, Sent
  <1>3. PICK r \in Requests : r = m.req
    BY <1>2
  <1>4. \/ /\ r \in replyOpen
           /\ \/ call[r].op = "exec" /\ StreamHandler(m)
              \/ call[r].op # "exec" /\ FutureHandler(m)
        \/ Missed(r)
    BY <1>3 DEF Dispatch, Missed
  <1>5. Mine(m, r) /\ Whole(i, r) /\ Mine(Head(q), r)
    BY <1>3 DEF Mine, Rows
  <1>6. PICK n \in Nat : n = Len(received[r])
    BY <1>1
  <1> HIDE DEF m, q
  <1>7. ASSUME r \in replyOpen, call[r].op = "exec", StreamHandler(m)
        PROVE  Given(r, m) \/ Finished(r)
    <2>1. InLine(q, r, n, End(r))
      BY <1>5, <1>6, <1>7 DEF Whole, Line, q
    <2>2. IsRowOf(m, r, n + 1) \/ Ends(m, r)
      BY <1>1, <1>5, <1>6, <2>1, HeadNumber DEF Numbered, m, q
    <2>3. CASE IsRowOf(m, r, n + 1)
      <3>1. /\ m.text = RowText(r, n + 1) /\ m.type = "string"
            /\ received' = [received EXCEPT ![r] = Append(@, m.text)]
            /\ UNCHANGED <<replyOpen, outcome>>
        BY <1>2, <1>5, <1>7, <2>3, StreamTakes, MessageTells DEF IsRowOf, RowMessage
      <3>2. RowText(r, n + 1) # ErrorText(r)
        BY DEF RowText, ErrorText, RowHead, ErrorHead
      <3>3. ~Closes(m, r)
        BY <1>7, <3>1, <3>2 DEF Closes, Ends, IsLast
      <3>4. received' = [received EXCEPT ![r] = Append(@, RowText(r, Len(@) + 1))]
        BY <1>6, <3>1
      <3> QED
        BY <1>7, <3>1, <3>3, <3>4 DEF Given
    <2>4. CASE Ends(m, r)
      <3>1. /\ replyOpen' = replyOpen \ {r}
            /\ \/ outcome'[r] = "completed" /\ UNCHANGED received
               \/ /\ outcome'[r] = "error" /\ m.text = ErrorText(r)
                  /\ received' = [received EXCEPT ![r] = Append(@, m.text)]
        BY <1>2, <1>5, <1>6, <1>7, <2>4, StreamTakes
      <3>2. \/ UNCHANGED outcome
            \/ \E how \in {"completed", "error"} :
                   outcome' = [outcome EXCEPT ![r] = how]
        BY <1>2, <1>3, <1>7, ReplyHandlers
      <3>3. outcome[r] \notin {"completed", "error"}
        BY <1>7 DEF Inv, SettledClosed
      <3> QED
        BY <1>1, <3>1, <3>2, <3>3 DEF Finished
    <2> QED
      BY <2>2, <2>3, <2>4
  <1>8. ASSUME r \in replyOpen, call[r].op # "exec", FutureHandler(m)
        PROVE  Finished(r)
    <2>1. OnlyLasts(q, r)
      BY <1>5, <1>8 DEF Whole, Line, q
    <2>2. IsLast(m, r)
      BY <1>1, <1>5, <2>1, LastsStay DEF m, q
    <2> QED
      BY <1>1, <1>2, <1>3, <1>8, <2>2, FutureTakes, ReplyHandlers DEF Finished
  <1> QED
    BY <1>1, <1>2, <1>3, <1>4, <1>7, <1>8 DEF m, q

\* The call that a message is for is the first without an answer, if its port
\* is open: the last message of an earlier one would stand before it.
LEMMA FirstPending ==
    ASSUME Inv, NEW i \in Isolates, Order(i), inbox[i] # <<>>,
           NEW r \in Requests, Mine(Head(inbox[i]), r), r \in replyOpen,
           NEW n \in 0 .. Len(asked), Split(n)
    PROVE  n + 1 \in 1 .. Len(asked) /\ asked[n + 1] = r
  <1> DEFINE q == inbox[i]
             N == Len(asked)
  <1>1. q \in Seq(Messages) /\ N \in Nat
    BY DEF Inv, TypeOK
  <1>2. 1 \in 1 .. Len(q) /\ Head(q) = q[1] /\ Len(q) \in Nat
    BY <1>1
  <1>3. Arrived(q)
    BY DEF Order
  <1> HIDE DEF q, N
  <1>4. q[1].req = r /\ Asked(r) /\ pc[r] # "queued"
    BY <1>2, <1>3 DEF Arrived, Mine, q
  <1>5. PICK l \in 1 .. N : asked[l] = r
    BY <1>4 DEF Asked, N
  <1>6. ~Settled(r)
    BY DEF Inv, SettledClosed, Settled
  <1>7. l > n
    BY <1>1, <1>5, <1>6 DEF Split, N
  <1>8. n + 1 \in 1 .. N /\ n + 1 <= l
    BY <1>1, <1>7 DEF N
  <1>9. ASSUME n + 1 < l PROVE FALSE
    <2>1. PICK s \in Requests : s = asked[n + 1]
      BY <1>8, AskedTells DEF N
    <2>2. outcome[s] = "pending"
      BY <1>1, <1>8, <2>1 DEF Split, N
    <2>3. pc[s] = "replied"
      BY <1>4, <1>5, <1>8, <1>9, <2>1 DEF Order, Turns, N
    <2>4. PICK b \in 1 .. Len(q) : Closes(q[b], s)
      BY <2>2, <2>3 DEF Order, Final, q
    <2>5. q[b].req = s
      BY <2>4 DEF Closes, Mine
    <2>6. s # r
      BY <1>5, <1>8, <1>9, <2>1 DEF Order, Turns, Distinct, N
    <2>7. 1 < b
      BY <1>2, <1>4, <2>5, <2>6
    <2>8. l <= n + 1
      BY <1>2, <1>3, <1>4, <1>5, <1>8, <2>1, <2>5, <2>7 DEF Arrived, N
    <2> QED
      BY <1>1, <1>9, <2>8
  <1>10. n + 1 = l
    BY <1>1, <1>8, <1>9
  <1> QED
    BY <1>5, <1>10 DEF N

\* Taking a message leaves the order of the calls.
LEMMA DispatchOrder ==
    ASSUME Inv, NEW i, Isolates = {i}, Rows(i), Order(i), Dispatch(i)
    PROVE  Order(i)'
  <1> DEFINE q == inbox[i]
             m == Head(inbox[i])
             t == Tail(inbox[i])
  <1>1. /\ q # <<>> /\ q \in Seq(Messages) /\ inbox'[i] = t
        /\ m \in Messages /\ m.req \in Requests /\ i \in Isolates
        /\ UNCHANGED <<receivePort, asked, queue, call, pc>>
        /\ \/ Missed(m.req)
           \/ m.req \in replyOpen /\ (Given(m.req, m) \/ Finished(m.req))
    BY DispatchTells
  <1>2. PICK r \in Requests : m.req = r
    BY <1>1
  <1>3. /\ Len(t) = Len(q) - 1 /\ Len(q) > 0 /\ Len(q) \in Nat
        /\ \A j \in 1 .. Len(t) : t[j] = q[j + 1] /\ j + 1 \in 1 .. Len(q)
        /\ m = q[1] /\ 1 \in 1 .. Len(q)
    BY <1>1, TailPlaces
  <1>4. /\ outcome \in [Requests -> {"new", "pending", "threw", "completed", "error"}]
        /\ Len(asked) \in Nat
    BY DEF Inv, TypeOK
  <1>5. Arrived(q) /\ Stand(r)
    BY DEF Order
  <1>6. PICK n \in 0 .. Len(asked) : Split(n)
    BY DEF Order, Answers
  <1>7. Mine(Head(q), r)
    BY <1>2 DEF Mine
  <1> HIDE DEF q, m, t
  <1>8. r \in replyOpen => n + 1 \in 1 .. Len(asked) /\ asked[n + 1] = r
    BY <1>1, <1>6, <1>7, FirstPending DEF q
  <1>9. outcome[r] = "pending" => r \in replyOpen
    BY <1>5 DEF Stand
  <1>10. \/ UNCHANGED <<replyOpen, outcome>> /\ (outcome[r] = "pending" => ~Closes(m, r))
         \/ /\ r \in replyOpen /\ replyOpen' = replyOpen \ {r}
            /\ \E how \in {"completed", "error"} : outcome' = [outcome EXCEPT ![r] = how]
    BY <1>1, <1>2, <1>9 DEF Missed, Given, Finished
  <1>11. ASSUME NEW s \in Requests PROVE Stand(s)'
    <2>1. Stand(s)
      BY DEF Order
    <2>2. CASE UNCHANGED <<replyOpen, outcome>>
      BY <1>1, <2>1, <2>2 DEF Stand, Asked
    <2>3. CASE /\ r \in replyOpen /\ replyOpen' = replyOpen \ {r}
               /\ \E how \in {"completed", "error"} : outcome' = [outcome EXCEPT ![r] = how]
      <3>1. outcome[r] = "pending"
        BY <1>4, <1>6, <1>8, <2>3 DEF Split
      <3> QED
        BY <1>1, <1>4, <2>1, <2>3, <3>1 DEF Stand, Asked
    <2> QED
      BY <1>10, <2>2, <2>3
  <1>12. Turns' /\ Rest'
    BY <1>1 DEF Order, Turns, Distinct, Rest, RestOf
  <1>13. Answers'
    <2>1. CASE UNCHANGED <<replyOpen, outcome>>
      BY <1>1, <2>1 DEF Order, Answers, Split, Settled
    <2>2. CASE /\ r \in replyOpen /\ replyOpen' = replyOpen \ {r}
               /\ \E how \in {"completed", "error"} : outcome' = [outcome EXCEPT ![r] = how]
      <3>1. n + 1 \in 1 .. Len(asked) /\ asked[n + 1] = r /\ n + 1 \in 0 .. Len(asked)
        BY <1>4, <1>8, <2>2
      <3>2. ASSUME NEW k \in 1 .. Len(asked)
            PROVE  /\ k <= n + 1 => outcome'[asked[k]] \in {"completed", "error"}
                   /\ k > n + 1 => outcome'[asked[k]] = "pending"
        <4>1. asked[k] \in Requests /\ (k # n + 1 => asked[k] # r)
          BY <1>1, <3>1, AskedTells DEF Order, Turns, Distinct
        <4>2. k <= n \/ k = n + 1 \/ k > n + 1
          BY <1>4
        <4>3. CASE k = n + 1
          BY <1>4, <2>2, <3>1, <4>3
        <4>4. CASE k # n + 1
          <5>1. outcome'[asked[k]] = outcome[asked[k]]
            BY <1>4, <2>2, <4>1, <4>4
          <5>2. k <= n => outcome[asked[k]] \in {"completed", "error"}
            BY <1>6 DEF Split, Settled
          <5>3. k > n => outcome[asked[k]] = "pending"
            BY <1>6 DEF Split
          <5>4. (k <= n + 1 => k <= n) /\ (k > n + 1 => k > n)
            BY <1>4, <4>4
          <5> QED
            BY <5>1, <5>2, <5>3, <5>4
        <4> QED
          BY <4>3, <4>4
      <3>3. Split(n + 1)'
        BY <1>1, <3>2 DEF Split, Settled
      <3> QED
        BY <1>1, <3>1, <3>3 DEF Answers
    <2> QED
      BY <1>10, <2>1, <2>2
  <1>14. Arrived(inbox[i])'
    <2>1. ASSUME NEW b \in 1 .. Len(t)
          PROVE  Asked(t[b].req) /\ pc[t[b].req] # "queued"
      BY <1>3, <1>5 DEF Arrived
    <2>2. ASSUME NEW b \in 1 .. Len(t), NEW c \in 1 .. Len(t), b < c,
                 NEW k \in 1 .. Len(asked), NEW l \in 1 .. Len(asked),
                 asked[k] = t[b].req, asked[l] = t[c].req
          PROVE  k <= l
      <3>1. /\ t[b] = q[b + 1] /\ t[c] = q[c + 1] /\ b + 1 < c + 1
            /\ b + 1 \in 1 .. Len(q) /\ c + 1 \in 1 .. Len(q)
        BY <1>3, <2>2
      <3> QED
        BY <1>5, <2>2, <3>1 DEF Arrived
    <2> QED
      BY <1>1, <2>1, <2>2 DEF Arrived, Asked
  <1>15. ASSUME NEW s \in Requests PROVE Final(inbox[i], s)'
    <2>1. Final(q, s)
      BY DEF Order, q
    <2>2. SUFFICES ASSUME outcome'[s] = "pending", pc[s] = "replied"
                   PROVE  \E b \in 1 .. Len(t) : Closes(t[b], s)
      BY <1>1 DEF Final, Closes
    <2>3. outcome[s] = "pending" /\ ~Closes(m, s)
      <3>1. CASE s = r
        BY <1>4, <1>10, <2>2, <3>1
      <3>2. CASE s # r
        BY <1>2, <1>4, <1>10, <2>2, <3>2 DEF Closes, Mine
      <3> QED
        BY <3>1, <3>2
    <2>4. PICK b \in 1 .. Len(q) : Closes(q[b], s)
      BY <2>1, <2>2, <2>3 DEF Final
    <2>5. b # 1
      BY <1>3, <2>3, <2>4
    <2>6. PICK d \in 1 .. Len(t) : d + 1 = b
      <3>1. b - 1 \in 1 .. Len(t) /\ (b - 1) + 1 = b
        BY <1>3, <2>5
      <3> QED
        BY <3>1
    <2> QED
      BY <1>3, <2>4, <2>6
  <1> QED
    BY <1>11, <1>12, <1>13, <1>14, <1>15 DEF Order

\* Every step of a system with one isolate keeps the order.
LEMMA OrderNext ==
    ASSUME NEW i, Isolates = {i}, ~ConcurrentHandlers
    PROVE  Inv /\ Alone /\ Rows(i) /\ Order(i) /\ [Next]_vars => Order(i)'
  <1> SUFFICES ASSUME Inv, Alone, Rows(i), Order(i), [Next]_vars PROVE Order(i)'
    OBVIOUS
  <1>0. i \in Isolates
    OBVIOUS
  <1>1. CASE \/ LoadLibrary(i) \/ CreatePort(i) \/ Send(i)
             \/ \E r \in Requests, o \in Ops, c \in Conns : Call(i, r, o, c)
    BY <1>1, CallsOrder
  <1>2. CASE Dispatch(i)
    BY <1>2, DispatchOrder
  <1>3. ASSUME NEW p \in Ports, Dequeue(p) PROVE Order(i)'
    BY <1>0, <1>3, DequeueOrder
  <1>4. ASSUME NEW r \in Requests, Handle(r) \/ EndProcess(r) PROVE Order(i)'
    BY <1>4, HandleOrder
  <1>5. CASE Quiescent \/ UNCHANGED vars
    <2>1. UNCHANGED <<asked, queue, outcome, inbox, receivePort, replyOpen, pc, call>>
      BY <1>5 DEF Quiescent, vars, dartVars, threadVars, replyVars
    <2> QED
      BY <1>0, <2>1, OrderQuiet
  <1> QED
    BY <1>1, <1>2, <1>3, <1>4, <1>5 DEF Next, Step

-----------------------------------------------------------------------------
(* The steps as steps of OrderedService.                                   *)

\* The number of calls before the first pending one, for calls a that stand
\* as o says.
LEMMA FirstOf ==
    ASSUME NEW a, NEW o, Len(a) \in Nat, NEW n \in 0 .. Len(a),
           \A k \in 1 .. Len(a) : o[a[k]] = "pending" <=> k > n
    PROVE  n = CHOOSE k \in 0 .. Len(a) :
                   /\ \A l \in 1 .. k : o[a[l]] # "pending"
                   /\ k < Len(a) => o[a[k + 1]] = "pending"
  <1> DEFINE P(k) == /\ \A l \in 1 .. k : o[a[l]] # "pending"
                     /\ k < Len(a) => o[a[k + 1]] = "pending"
  <1>1. P(n)
    <2>1. \A l \in 1 .. n : l \in 1 .. Len(a) /\ ~(l > n)
      OBVIOUS
    <2>2. n < Len(a) => n + 1 \in 1 .. Len(a) /\ n + 1 > n
      OBVIOUS
    <2> QED
      BY <2>1, <2>2
  <1>2. ASSUME NEW k \in 0 .. Len(a), P(k) PROVE k = n
    <2>1. CASE k < n
      <3>1. k + 1 \in 1 .. Len(a) /\ ~(k + 1 > n) /\ k < Len(a)
        BY <2>1
      <3> QED
        BY <1>2, <3>1
    <2>2. CASE k > n
      <3>1. n + 1 \in 1 .. Len(a) /\ n + 1 \in 1 .. k /\ n + 1 > n
        BY <2>2
      <3> QED
        BY <1>2, <3>1
    <2> QED
      BY <2>1, <2>2
  <1> HIDE DEF P
  <1>3. n = CHOOSE k \in 0 .. Len(a) : P(k)
    BY <1>1, <1>2
  <1> QED
    BY <1>3 DEF P

\* What is pending is the rest of asked, now and after the step.
LEMMA UnansweredIs ==
    ASSUME Inv, NEW n \in 0 .. Len(asked), Split(n)
    PROVE  Unanswered = SubSeq(asked, n + 1, Len(asked))
  <1>1. Len(asked) \in Nat
    BY DEF Inv, TypeOK
  <1>2. \A l \in 1 .. Len(asked) : outcome[asked[l]] = "pending" <=> l > n
    BY <1>1 DEF Split, Settled
  <1>3. n = Answered
    BY <1>1, <1>2, FirstOf DEF Answered
  <1> QED
    BY <1>3 DEF Unanswered

\* The same after the step.
LEMMA UnansweredLater ==
    ASSUME Inv', NEW n \in 0 .. Len(asked'), Split(n)'
    PROVE  Unanswered' = SubSeq(asked', n + 1, Len(asked'))
  <1>1. Len(asked') \in Nat
    BY DEF Inv, TypeOK
  <1>2. \A l \in 1 .. Len(asked') : outcome'[asked'[l]] = "pending" <=> l > n
    BY <1>1 DEF Split, Settled
  <1>3. n = Answered'
    BY <1>1, <1>2, FirstOf DEF Answered
  <1> QED
    BY <1>3 DEF Unanswered

\* The rest of a longer sequence.
LEMMA SubSeqGrows ==
    ASSUME NEW S, NEW s \in Seq(S), NEW e \in S, NEW n \in 0 .. Len(s)
    PROVE  SubSeq(Append(s, e), n + 1, Len(s) + 1) = Append(SubSeq(s, n + 1, Len(s)), e)
  <1> DEFINE t == Append(s, e)
             u == SubSeq(s, n + 1, Len(s))
             v == SubSeq(t, n + 1, Len(s) + 1)
             N == Len(s)
  <1>1. /\ N \in Nat /\ Len(t) = N + 1 /\ t[N + 1] = e
        /\ \A k \in 1 .. N : t[k] = s[k] /\ s[k] \in S
        /\ \A k \in n + 1 .. N : s[k] \in S
    BY AppendPlaces
  <1>2. \A k \in n + 1 .. N + 1 : t[k] \in S
    <2>1. \A k \in n + 1 .. N + 1 : k \in 1 .. N \/ k = N + 1
      BY <1>1
    <2> HIDE DEF t
    <2> QED
      BY <1>1, <2>1
  <1>3. /\ u \in Seq(S) /\ Len(u) = N - n
        /\ \A k \in 1 .. N - n : u[k] = s[n + k]
    <2>1. /\ u \in Seq(S)
          /\ Len(u) = IF n + 1 <= N THEN N - (n + 1) + 1 ELSE 0
          /\ \A k \in 1 .. N - (n + 1) + 1 : u[k] = s[n + 1 + k - 1]
      BY <1>1, SubSeqProperties
    <2> HIDE DEF u
    <2>2. /\ N - (n + 1) + 1 = N - n /\ (~(n + 1 <= N) => N - n = 0)
          /\ \A k \in 1 .. N - n : n + 1 + k - 1 = n + k
      BY <1>1
    <2> HIDE DEF N
    <2> QED
      BY <2>1, <2>2
  <1>4. /\ v \in Seq(S) /\ Len(v) = N - n + 1
        /\ \A k \in 1 .. N - n + 1 : v[k] = t[n + k]
    <2> HIDE DEF t
    <2>1. /\ v \in Seq(S)
          /\ Len(v) = IF n + 1 <= N + 1 THEN N + 1 - (n + 1) + 1 ELSE 0
          /\ \A k \in 1 .. N + 1 - (n + 1) + 1 : v[k] = t[n + 1 + k - 1]
      BY <1>1, <1>2, SubSeqProperties
    <2> HIDE DEF v
    <2>2. /\ N + 1 - (n + 1) + 1 = N - n + 1 /\ n + 1 <= N + 1
          /\ \A k \in 1 .. N - n + 1 : n + 1 + k - 1 = n + k
      BY <1>1
    <2> HIDE DEF N
    <2> QED
      BY <2>1, <2>2
  <1> HIDE DEF t, u, v
  <1>5. /\ Append(u, e) \in Seq(S) /\ Len(Append(u, e)) = N - n + 1
        /\ Append(u, e)[N - n + 1] = e
        /\ \A k \in 1 .. N - n : Append(u, e)[k] = u[k]
    BY <1>3, AppendPlaces
  <1>6. ASSUME NEW k \in 1 .. N - n + 1 PROVE v[k] = Append(u, e)[k]
    <2>1. CASE k = N - n + 1
      <3>1. n + k = N + 1
        BY <1>1, <2>1
      <3> QED
        BY <1>1, <1>4, <1>5, <2>1, <3>1
    <2>2. CASE k \in 1 .. N - n
      <3>1. n + k \in 1 .. N
        BY <1>1, <2>2
      <3> QED
        BY <1>1, <1>3, <1>4, <1>5, <2>2, <3>1
    <2>3. k \in 1 .. N - n \/ k = N - n + 1
      BY <1>1
    <2> QED
      BY <2>1, <2>2, <2>3
  <1>7. v = Append(u, e)
    BY <1>4, <1>5, <1>6, SeqEqual
  <1> QED
    BY <1>7 DEF t, u, v

\* A step of the service, or none.
Served == Service!Next \/ UNCHANGED Service!vars

\* With no change to the calls and answers the service does nothing.
LEMMA ServedIdle ==
    ASSUME UNCHANGED <<asked, outcome, received>>
    PROVE  Served
  <1>1. Unanswered' = Unanswered
    BY DEF Unanswered, Answered
  <1> QED
    BY <1>1 DEF Served, Service!vars

\* The isolate's call is Ask, or Refuse without a native port.
LEMMA SendServed ==
    ASSUME Inv, Inv', NEW i \in Isolates, Order(i), Order(i)', Send(i)
    PROVE  Served
  <1> DEFINE r == calling[i]
  <1>1. r \in Requests /\ pc[r] = "send" /\ UNCHANGED received
    BY DEF Send, Inv, TypeOK
  <1>2. outcome[r] = "new"
    BY <1>1 DEF Order, Stand
  <1>3. PICK n \in 0 .. Len(asked) : Split(n)
    BY DEF Order, Answers
  <1>4. asked \in Seq(Requests) /\ Len(asked) \in Nat
    BY DEF Inv, TypeOK
  <1>5. Unanswered = SubSeq(asked, n + 1, Len(asked))
    BY <1>3, UnansweredIs
  <1>6. \A k \in 1 .. Len(asked) : asked[k] # r /\ asked[k] \in Requests
    BY <1>1, AskedTells
  <1>7. CASE receivePort = ILLEGAL_PORT
    <2>1. outcome' = [outcome EXCEPT ![r] = "threw"] /\ UNCHANGED asked
      BY <1>7 DEF Send
    <2> HIDE DEF r
    <2>2. \A k \in 1 .. Len(asked) : outcome'[asked[k]] = outcome[asked[k]]
      BY <1>1, <1>6, <2>1 DEF Inv, TypeOK
    <2>3. Split(n)'
      BY <1>3, <2>1, <2>2 DEF Split, Settled
    <2>4. n \in 0 .. Len(asked')
      BY <2>1
    <2>5. Unanswered' = SubSeq(asked', n + 1, Len(asked'))
      BY <2>3, <2>4, UnansweredLater
    <2>6. Service!Refuse(r)
      BY <1>1, <1>2, <1>5, <2>1, <2>5 DEF Service!Refuse
    <2> QED
      BY <1>1, <2>6 DEF Served, Service!Next
  <1>8. CASE receivePort # ILLEGAL_PORT
    <2>1. outcome' = [outcome EXCEPT ![r] = "pending"] /\ asked' = Append(asked, r)
      BY <1>8 DEF Send
    <2> HIDE DEF r
    <2>2. /\ Len(asked') = Len(asked) + 1 /\ asked'[Len(asked) + 1] = r
          /\ \A k \in 1 .. Len(asked) : asked'[k] = asked[k]
      BY <1>1, <1>4, <2>1, AppendPlaces
    <2>3. ASSUME NEW k \in 1 .. Len(asked')
          PROVE  /\ k <= n => outcome'[asked'[k]] \in {"completed", "error"}
                 /\ k > n => outcome'[asked'[k]] = "pending"
      <3>1. CASE k = Len(asked) + 1
        <4>1. outcome'[asked'[k]] = "pending" /\ ~(k <= n)
          BY <1>1, <1>4, <2>1, <2>2, <3>1 DEF Inv, TypeOK
        <4> QED
          BY <4>1
      <3>2. CASE k \in 1 .. Len(asked)
        <4>1. outcome'[asked'[k]] = outcome[asked[k]]
          BY <1>1, <1>6, <2>1, <2>2, <3>2 DEF Inv, TypeOK
        <4> QED
          BY <1>3, <3>2, <4>1 DEF Split, Settled
      <3> QED
        BY <1>4, <2>2, <3>1, <3>2
    <2>4. Split(n)' /\ n \in 0 .. Len(asked')
      BY <1>4, <2>2, <2>3 DEF Split, Settled
    <2>5. Unanswered' = SubSeq(asked', n + 1, Len(asked'))
      BY <2>4, UnansweredLater
    <2>6. SubSeq(asked', n + 1, Len(asked')) = Append(SubSeq(asked, n + 1, Len(asked)), r)
      BY <1>1, <1>4, <2>1, <2>2, SubSeqGrows
    <2>7. Service!Ask(r)
      BY <1>1, <1>2, <1>5, <2>1, <2>5, <2>6 DEF Service!Ask
    <2> QED
      BY <1>1, <2>7 DEF Served, Service!Next
  <1> QED
    BY <1>7, <1>8

\* A message gives the first pending call its next row, or settles it.
LEMMA DispatchServed ==
    ASSUME Inv, Inv', NEW i, Isolates = {i}, Rows(i), Order(i), Order(i)', Dispatch(i)
    PROVE  Served
  <1> DEFINE m == Head(inbox[i])
  <1>1. /\ inbox[i] # <<>> /\ m.req \in Requests /\ i \in Isolates
        /\ UNCHANGED <<asked, pc, call>>
        /\ \/ Missed(m.req)
           \/ m.req \in replyOpen /\ (Given(m.req, m) \/ Finished(m.req))
    BY DispatchTells
  <1>2. PICK r \in Requests : m.req = r
    BY <1>1
  <1>3. PICK n \in 0 .. Len(asked) : Split(n)
    BY DEF Order, Answers
  <1>4. asked \in Seq(Requests) /\ Len(asked) \in Nat
    BY DEF Inv, TypeOK
  <1>5. Mine(m, r)
    BY <1>2 DEF Mine
  <1>6. CASE Missed(r)
    BY <1>1, <1>6, ServedIdle DEF Missed
  <1>7. ASSUME r \in replyOpen
        PROVE  /\ Unanswered # <<>> /\ Head(Unanswered) = r
               /\ Tail(Unanswered) = SubSeq(asked, n + 2, Len(asked))
               /\ n + 1 \in 1 .. Len(asked) /\ asked[n + 1] = r
               /\ Service!Oldest(r)
    <2>1. n + 1 \in 1 .. Len(asked) /\ asked[n + 1] = r
      BY <1>1, <1>3, <1>5, <1>7, FirstPending
    <2>2. Unanswered = SubSeq(asked, n + 1, Len(asked))
      BY <1>3, UnansweredIs
    <2>3. /\ Head(SubSeq(asked, n + 1, Len(asked))) = asked[n + 1]
          /\ Tail(SubSeq(asked, n + 1, Len(asked))) = SubSeq(asked, n + 1 + 1, Len(asked))
      BY <1>4, <2>1, HeadTailOfSubSeq
    <2>4. SubSeq(asked, n + 1, Len(asked)) # <<>>
      <3> DEFINE w == SubSeq(asked, n + 1, Len(asked))
      <3>1. \A k \in n + 1 .. Len(asked) : asked[k] \in Requests
        BY <1>4
      <3>2. Len(w) = IF n + 1 <= Len(asked) THEN Len(asked) - (n + 1) + 1 ELSE 0
        BY <1>4, <2>1, <3>1, SubSeqProperties
      <3> HIDE DEF w
      <3>3. Len(w) # 0
        BY <1>4, <2>1, <3>2
      <3>4. w # <<>>
        BY <3>3
      <3> QED
        BY <3>4 DEF w
    <2>5. n + 1 + 1 = n + 2
      OBVIOUS
    <2> QED
      BY <2>1, <2>2, <2>3, <2>4, <2>5 DEF Service!Oldest
  <1> HIDE DEF m
  <1>8. CASE r \in replyOpen /\ Given(r, m)
    <2>1. /\ received' = [received EXCEPT ![r] = Append(@, RowText(r, Len(@) + 1))]
          /\ UNCHANGED <<asked, outcome>>
      BY <1>1, <1>8 DEF Given
    <2>2. Unanswered' = Unanswered
      BY <2>1 DEF Unanswered, Answered
    <2>3. Service!GiveRow(r)
      BY <1>7, <1>8, <2>1, <2>2 DEF Service!GiveRow
    <2> QED
      BY <2>3 DEF Served, Service!Next
  <1>9. CASE r \in replyOpen /\ Finished(r)
    <2>1. \E how \in {"completed", "error"} : outcome' = [outcome EXCEPT ![r] = how]
      BY <1>9 DEF Finished
    <2>2. n + 1 \in 1 .. Len(asked) /\ asked[n + 1] = r /\ n + 1 \in 0 .. Len(asked)
      BY <1>4, <1>7, <1>9
    <2>3. ASSUME NEW k \in 1 .. Len(asked)
          PROVE  /\ k <= n + 1 => outcome'[asked[k]] \in {"completed", "error"}
                 /\ k > n + 1 => outcome'[asked[k]] = "pending"
      <3>1. asked[k] \in Requests /\ (k # n + 1 => asked[k] # r)
        BY <1>1, <2>2, AskedTells DEF Order, Turns, Distinct
      <3>2. CASE k = n + 1
        <4>1. outcome'[r] \in {"completed", "error"}
          BY <2>1 DEF Inv, TypeOK
        <4>2. asked[k] = r /\ ~(k > n + 1)
          BY <1>4, <2>2, <3>2
        <4> QED
          BY <4>1, <4>2
      <3>3. CASE k # n + 1
        <4>1. outcome'[asked[k]] = outcome[asked[k]]
          BY <2>1, <3>1, <3>3 DEF Inv, TypeOK
        <4>2. (k <= n + 1 => k <= n) /\ (k > n + 1 => k > n)
          BY <1>4, <3>3
        <4>3. /\ k <= n => outcome[asked[k]] \in {"completed", "error"}
              /\ k > n => outcome[asked[k]] = "pending"
          BY <1>3 DEF Split, Settled
        <4> QED
          BY <4>1, <4>2, <4>3
      <3> QED
        BY <3>2, <3>3
    <2>4. Split(n + 1)' /\ n + 1 \in 0 .. Len(asked')
      BY <1>1, <2>2, <2>3 DEF Split, Settled
    <2>5. PICK k : k = n + 1
      OBVIOUS
    <2>6. Unanswered' = SubSeq(asked', k + 1, Len(asked'))
      BY <2>4, <2>5, UnansweredLater
    <2>7. Unanswered' = Tail(Unanswered)
      <3>1. k + 1 = n + 2
        BY <2>5
      <3> QED
        BY <1>1, <1>7, <1>9, <2>6, <3>1
    <2>8. CASE outcome' = [outcome EXCEPT ![r] = "completed"] /\ UNCHANGED received
      <3>1. Service!Complete(r)
        BY <1>7, <1>9, <2>7, <2>8 DEF Service!Complete
      <3> QED
        BY <3>1 DEF Served, Service!Next
    <2>9. CASE /\ outcome' = [outcome EXCEPT ![r] = "error"]
               /\ received' = [received EXCEPT ![r] = Append(@, ErrorText(r))]
      <3>1. Service!Fail(r)
        BY <1>7, <1>9, <2>7, <2>9 DEF Service!Fail
      <3> QED
        BY <3>1 DEF Served, Service!Next
    <2> QED
      BY <1>9, <2>8, <2>9 DEF Finished
  <1> QED
    BY <1>1, <1>2, <1>6, <1>8, <1>9

\* Every other step leaves the calls and their answers alone.
LEMMA StepServed ==
    ASSUME NEW i, Isolates = {i}, Inv, Inv', Rows(i), Order(i), Order(i)', [Next]_vars
    PROVE  Served
  <1> USE DEF dartVars, threadVars, replyVars
  <1>0. i \in Isolates
    OBVIOUS
  <1>1. CASE Send(i)
    BY <1>0, <1>1, SendServed
  <1>2. CASE Dispatch(i)
    BY <1>2, DispatchServed
  <1>3. CASE \/ LoadLibrary(i) \/ CreatePort(i)
             \/ \E r \in Requests, o \in Ops, c \in Conns : Call(i, r, o, c)
    BY <1>3, ServedIdle DEF LoadLibrary, CreatePort, Call
  <1>4. ASSUME NEW p \in Ports, Dequeue(p) PROVE Served
    BY <1>4, ServedIdle DEF Dequeue
  <1>5. ASSUME NEW r \in Requests, Handle(r) \/ EndProcess(r) PROVE Served
    BY <1>5, ServedIdle
       DEF Handle, SimpleCall, ExecEnter, RowIndex, RowColumns, RowPost,
           ExecReturn, TableQuery, MountException, Reply, EndProcess
  <1>6. CASE Quiescent \/ UNCHANGED vars
    BY <1>6, ServedIdle DEF Quiescent, vars
  <1> QED
    BY <1>1, <1>2, <1>3, <1>4, <1>5, <1>6 DEF Next, Step

\* To begin with the service has nothing to answer.
LEMMA ServiceInit ==
    ASSUME Init
    PROVE  Service!Init
  <1>1. asked = <<>> /\ Len(asked) = 0
    BY DEF Init
  <1>2. 0 \in 0 .. Len(asked) /\ Split(0)
    BY <1>1 DEF Split
  <1>3. Unanswered = SubSeq(asked, 0 + 1, Len(asked))
    BY <1>2, InvInit, UnansweredIs
  <1>4. Unanswered = <<>>
    BY <1>1, <1>3, SubSeqEmpty
  <1> QED
    BY <1>4 DEF Init, Service!Init

(* With one isolate, and a VM that runs one handler of a native port at a  *)
(* time, the bridge is the service its callers expect: every call gets one *)
(* answer, the answers come in the order of the calls, and each row is its *)
(* own, although ports, threads, buffer and row index lie between.         *)
THEOREM ServiceImplemented ==
    ASSUME NEW i, Isolates = {i}, ~ConcurrentHandlers
    PROVE  Spec => ServiceSpec
  <1>1. Init => Alone /\ Rows(i) /\ Order(i) /\ Service!Init
    BY AloneInit, RowsInit, OrderInit, ServiceInit
  <1>2. Inv /\ Alone /\ Rows(i) /\ Order(i) /\ [Next]_vars => Alone' /\ Rows(i)' /\ Order(i)'
    BY AloneNext, RowsNext, OrderNext
  <1>3. Inv /\ Inv' /\ Rows(i) /\ Order(i) /\ Order(i)' /\ [Next]_vars
            => [Service!Next]_(Service!vars)
    BY StepServed DEF Served
  <1> QED
    BY <1>1, <1>2, <1>3, Invariance, PTL DEF Spec, ServiceSpec, Service!Spec

-----------------------------------------------------------------------------
(***************************************************************************)
(* OnePortEach, for any finite number of isolates.                         *)
(*                                                                         *)
(* An isolate that found no native port will make one.  While there is     *)
(* none each that called may be about to; once one is stored, and none     *)
(* fails, no other enters, so that the ports made and those about to be    *)
(* made are never more than the isolates that called.                      *)
(***************************************************************************)

Callers == {call[r].isolate : r \in {q \in Requests : pc[q] # "unused"}}

\* The isolates that found no port and have not made theirs yet.
Makers == {j \in Isolates : calling[j] # NoRequest /\ pc[calling[j]] = "create"}

Made ==
    /\ \A j \in Isolates : calling[j] # NoRequest =>
           /\ call[calling[j]].isolate = j
           /\ pc[calling[j]] \in {"create", "send"}
    /\ created # {} => receivePort # ILLEGAL_PORT
    /\ IsFiniteSet(created)
    /\ Cardinality(created) + Cardinality(Makers) <= Cardinality(Callers)

\* To begin with nobody calls and there is no port.
LEMMA MadeInit ==
    ASSUME Init
    PROVE  Made
  <1>1. created = {} /\ Makers = {} /\ Callers = {}
    BY DEF Init, Makers, Callers
  <1>2. IsFiniteSet({}) /\ Cardinality({}) = 0
    BY FS_EmptySet
  <1> QED
    BY <1>1, <1>2 DEF Init, Made

\* Callers and makers are isolates.
LEMMA Isolated ==
    ASSUME Inv, Made, IsFiniteSet(Isolates)
    PROVE  /\ IsFiniteSet(Callers) /\ Callers \subseteq Isolates
           /\ IsFiniteSet(Makers) /\ Makers \subseteq Callers
  <1>1. Callers \subseteq Isolates
    BY DEF Callers, Inv, TypeOK, Calls
  <1>2. Makers \subseteq Callers
    <2> SUFFICES ASSUME NEW j \in Makers PROVE j \in Callers
      OBVIOUS
    <2>1. calling[j] \in Requests /\ call[calling[j]].isolate = j /\ pc[calling[j]] # "unused"
      BY DEF Makers, Made, Inv, TypeOK
    <2> QED
      BY <2>1 DEF Callers
  <1>3. IsFiniteSet(Callers)
    BY <1>1, FS_Subset
  <1>4. IsFiniteSet(Makers)
    BY <1>2, <1>3, FS_Subset
  <1> QED
    BY <1>1, <1>2, <1>3, <1>4

\* A step that begins no call and makes no port.
LEMMA MadeQuiet ==
    ASSUME Made, UNCHANGED <<calling, call, receivePort, created>>,
           \A r \in Requests : pc[r] = "unused" <=> pc'[r] = "unused",
           \A j \in Isolates : calling[j] # NoRequest => pc'[calling[j]] = pc[calling[j]]
    PROVE  Made'
  <1>1. Callers' = Callers
    BY DEF Callers
  <1>2. Makers' = Makers
    BY DEF Makers
  <1> QED
    BY <1>1, <1>2 DEF Made

\* A call begins: while there is no port all callers may be makers.
LEMMA CallMade ==
    ASSUME Inv, Inv', Made, IsFiniteSet(Isolates), NEW i \in Isolates, NEW r \in Requests,
           NEW o \in Ops, NEW c \in Conns, Call(i, r, o, c)
    PROVE  Made'
  <1>1. /\ calling[i] = NoRequest /\ calling' = [calling EXCEPT ![i] = r]
        /\ pc[r] = "unused" /\ receivePort' = receivePort /\ created' = created
        /\ call' = [call EXCEPT ![r] = [isolate |-> i, op |-> o, conn |-> c]]
        /\ pc' = [pc EXCEPT ![r] = IF receivePort = ILLEGAL_PORT THEN "create" ELSE "send"]
        /\ calling \in [Isolates -> Requests \cup {NoRequest}]
        /\ call \in [Requests -> Calls \cup {NoCall}] /\ pc \in [Requests -> Stages]
        /\ NoRequest \notin Requests
    BY BridgeAssumption DEF Call, Goto, Inv, TypeOK
  <1>2. \A j \in Isolates : calling[j] # NoRequest => calling[j] # r
    BY <1>1 DEF Made
  <1>3. \A j \in Isolates : calling'[j] # NoRequest =>
            /\ call'[calling'[j]].isolate = j
            /\ pc'[calling'[j]] \in {"create", "send"}
    <2> SUFFICES ASSUME NEW j \in Isolates, calling'[j] # NoRequest
                 PROVE  /\ call'[calling'[j]].isolate = j
                        /\ pc'[calling'[j]] \in {"create", "send"}
      OBVIOUS
    <2>1. CASE j = i
      BY <1>1, <2>1
    <2>2. CASE j # i
      BY <1>1, <1>2, <2>2 DEF Made
    <2> QED
      BY <2>1, <2>2
  <1>4. Callers \subseteq Callers' /\ i \in Callers' /\ Callers' \subseteq Isolates
    <2>1. \A q \in Requests : pc[q] # "unused" =>
              pc'[q] # "unused" /\ call'[q] = call[q]
      BY <1>1
    <2>2. pc'[r] # "unused" /\ call'[r].isolate = i
      BY <1>1
    <2>3. \A q \in Requests : pc'[q] # "unused" => call'[q].isolate \in Isolates
      BY DEF Inv, TypeOK, Calls
    <2> QED
      BY <2>1, <2>2, <2>3 DEF Callers
  <1>5. IsFiniteSet(Callers') /\ Cardinality(Callers) <= Cardinality(Callers')
    <2>1. IsFiniteSet(Callers')
      BY <1>4, FS_Subset
    <2> QED
      BY <1>4, <2>1, FS_Subset
  <1>6. IsFiniteSet(Callers) /\ IsFiniteSet(Makers) /\ Makers \subseteq Callers
    BY Isolated
  <1>7. /\ Cardinality(Callers) \in Nat /\ Cardinality(Callers') \in Nat
        /\ Cardinality(created) \in Nat
    BY <1>5, <1>6, FS_CardinalityType DEF Made
  <1>8. CASE receivePort = ILLEGAL_PORT
    <2>1. created = {} /\ Cardinality(created) = 0
      BY <1>8, FS_EmptySet DEF Made
    <2>2. Makers' \subseteq Makers \cup {i}
      BY <1>1, <1>2 DEF Makers
    <2>3. Makers' \subseteq Callers'
      BY <1>4, <1>6, <2>2
    <2>4. Cardinality(Makers') <= Cardinality(Callers') /\ Cardinality(Makers') \in Nat
      <3>1. IsFiniteSet(Makers')
        BY <1>5, <2>3, FS_Subset
      <3> QED
        BY <1>5, <2>3, <3>1, FS_Subset, FS_CardinalityType
    <2> QED
      BY <1>1, <1>3, <1>7, <2>1, <2>4 DEF Made
  <1>9. CASE receivePort # ILLEGAL_PORT
    <2>1. Makers' = Makers
      <3>1. ASSUME NEW j \in Isolates PROVE j \in Makers' <=> j \in Makers
        <4>1. CASE j = i
          BY <1>1, <1>9, <4>1 DEF Makers
        <4>2. CASE j # i
          BY <1>1, <1>2, <4>2 DEF Makers
        <4> QED
          BY <4>1, <4>2
      <3> QED
        BY <3>1 DEF Makers
    <2>2. Cardinality(Makers) \in Nat
      BY <1>6, FS_CardinalityType
    <2>3. Cardinality(created) + Cardinality(Makers) <= Cardinality(Callers')
      BY <1>5, <1>7, <2>2 DEF Made
    <2> QED
      BY <1>1, <1>3, <1>9, <2>1, <2>3 DEF Made
  <1> QED
    BY <1>8, <1>9

\* A maker makes its port, and is a maker no more.
LEMMA CreatePortMade ==
    ASSUME Inv, Made, IsFiniteSet(Isolates), ~NativePortMayFail,
           NEW i \in Isolates, CreatePort(i)
    PROVE  Made'
  <1> DEFINE r == calling[i]
  <1>1. /\ r \in Requests /\ pc[r] = "create" /\ pc' = [pc EXCEPT ![r] = "send"]
        /\ UNCHANGED <<calling, call>> /\ pc \in [Requests -> Stages]
        /\ r # NoRequest
    BY DEF CreatePort, Goto, Inv, TypeOK
  <1>2. PICK p \in Ports \ created : receivePort' = p /\ created' = created \cup {p}
    BY DEF CreatePort
  <1>3. \A j \in Isolates : j # i /\ calling[j] # NoRequest => calling[j] # r
    BY DEF Made
  <1> HIDE DEF r
  <1>4. Callers' = Callers
    BY <1>1 DEF Callers
  <1>5. i \in Makers /\ Makers' = Makers \ {i}
    <2>1. i \in Makers
      BY <1>1 DEF Makers, r
    <2>2. ASSUME NEW j \in Isolates PROVE j \in Makers' <=> j \in Makers \ {i}
      <3>1. CASE j = i
        BY <1>1, <3>1 DEF Makers, r
      <3>2. CASE j # i
        BY <1>1, <1>3, <3>2 DEF Makers
      <3> QED
        BY <3>1, <3>2
    <2> QED
      BY <2>1, <2>2 DEF Makers
  <1>6. IsFiniteSet(Makers) /\ IsFiniteSet(created)
    BY Isolated DEF Made
  <1>7. Cardinality(Makers') = Cardinality(Makers) - 1 /\ Cardinality(Makers) \in Nat
    BY <1>5, <1>6, FS_RemoveElement, FS_CardinalityType
  <1>8. /\ IsFiniteSet(created') /\ Cardinality(created') = Cardinality(created) + 1
        /\ Cardinality(created) \in Nat
    BY <1>2, <1>6, FS_AddElement, FS_CardinalityType
  <1>9. Cardinality(created') + Cardinality(Makers') <= Cardinality(Callers')
    <2>1. Cardinality(created') + Cardinality(Makers') = Cardinality(created) + Cardinality(Makers)
      BY <1>7, <1>8
    <2> QED
      BY <1>4, <2>1 DEF Made
  <1>10. receivePort' # ILLEGAL_PORT
    BY <1>2, BridgeAssumption
  <1>11. \A j \in Isolates : calling'[j] # NoRequest =>
            /\ call'[calling'[j]].isolate = j
            /\ pc'[calling'[j]] \in {"create", "send"}
    BY <1>1 DEF Made, Inv, TypeOK
  <1> QED
    BY <1>8, <1>9, <1>10, <1>11 DEF Made

\* A call is sent: its isolate is no maker, and is a caller still.
LEMMA SendMade ==
    ASSUME Inv, Made, NEW i \in Isolates, Send(i)
    PROVE  Made'
  <1> DEFINE r == calling[i]
  <1>1. /\ r \in Requests /\ pc[r] = "send" /\ pc \in [Requests -> Stages]
        /\ pc' = [pc EXCEPT ![r] = "queued"] \/ pc' = [pc EXCEPT ![r] = "replied"]
        /\ calling' = [calling EXCEPT ![i] = NoRequest]
        /\ calling \in [Isolates -> Requests \cup {NoRequest}]
        /\ UNCHANGED <<call, receivePort, created>>
    BY DEF Send, Goto, Inv, TypeOK
  <1>2. \A j \in Isolates : j # i /\ calling[j] # NoRequest => calling[j] # r
    BY DEF Made
  <1> HIDE DEF r
  <1>3. Callers' = Callers
    BY <1>1 DEF Callers
  <1>4. ASSUME NEW j \in Isolates PROVE j \in Makers' <=> j \in Makers
    <2>1. CASE j = i
      BY <1>1, <2>1 DEF Makers, r
    <2>2. CASE j # i
      BY <1>1, <1>2, <2>2 DEF Makers
    <2> QED
      BY <2>1, <2>2
  <1>5. Makers' = Makers
    BY <1>4 DEF Makers
  <1>6. \A j \in Isolates : calling'[j] # NoRequest =>
            /\ call'[calling'[j]].isolate = j
            /\ pc'[calling'[j]] \in {"create", "send"}
    BY <1>1, <1>2 DEF Made
  <1> QED
    BY <1>1, <1>3, <1>5, <1>6 DEF Made

\* Every step keeps the ports and the makers fewer than the callers.
LEMMA MadeNext ==
    ASSUME IsFiniteSet(Isolates), ~NativePortMayFail
    PROVE  Inv /\ Inv' /\ Made /\ [Next]_vars => Made'
  <1> SUFFICES ASSUME Inv, Inv', Made, [Next]_vars PROVE Made'
    OBVIOUS
  <1>1. ASSUME NEW i \in Isolates, CreatePort(i) \/ Send(i) PROVE Made'
    BY <1>1, CreatePortMade, SendMade
  <1>2. ASSUME NEW i \in Isolates, NEW r \in Requests, NEW o \in Ops, NEW c \in Conns,
               Call(i, r, o, c)
        PROVE  Made'
    BY <1>2, CallMade
  <1>3. ASSUME NEW p \in Ports, Dequeue(p) PROVE Made'
    <2> DEFINE r == Head(queue[p])
    <2>0. r \in Sent
      BY <1>3, TailAt DEF Dequeue, Inv, OnlySent
    <2>1. r \in Requests /\ pc[r] # "unused" /\ pc[r] \notin {"create", "send"}
      BY <2>0 DEF Sent
    <2>2. PICK stage \in {"exec", "table", "simple"} : pc' = [pc EXCEPT ![r] = stage]
      BY <1>3 DEF Dequeue, Goto
    <2>3. UNCHANGED <<calling, call, receivePort, created>> /\ pc \in [Requests -> Stages]
      BY <1>3 DEF Dequeue, Inv, TypeOK
    <2> HIDE DEF r
    <2>4. \A j \in Isolates : calling[j] # NoRequest => pc'[calling[j]] = pc[calling[j]]
      BY <2>1, <2>2, <2>3 DEF Made
    <2>5. \A q \in Requests : pc[q] = "unused" <=> pc'[q] = "unused"
      BY <2>1, <2>2, <2>3
    <2> QED
      BY <2>3, <2>4, <2>5, MadeQuiet
  <1>4. ASSUME NEW r \in Requests, Handle(r) \/ EndProcess(r) PROVE Made'
    <2>1. /\ pc[r] \in InHandler
          /\ \E stage \in InHandler \cup {"replied"} : pc' = [pc EXCEPT ![r] = stage]
          /\ UNCHANGED <<calling, call, receivePort, created>> /\ pc \in [Requests -> Stages]
      BY <1>4
         DEF Handle, SimpleCall, ExecEnter, RowIndex, RowColumns, RowPost, ExecReturn,
             TableQuery, MountException, Reply, EndProcess, Goto, InHandler, dartVars,
             Inv, TypeOK
    <2>2. \A j \in Isolates : calling[j] # NoRequest => pc'[calling[j]] = pc[calling[j]]
      BY <2>1 DEF Made, InHandler
    <2>3. \A q \in Requests : pc[q] = "unused" <=> pc'[q] = "unused"
      BY <2>1 DEF InHandler
    <2> QED
      BY <2>1, <2>2, <2>3, MadeQuiet
  <1>5. CASE \/ \E i \in Isolates : LoadLibrary(i) \/ Dispatch(i)
             \/ Quiescent \/ UNCHANGED vars
    <2>1. UNCHANGED <<calling, call, receivePort, created, pc>>
      BY <1>5 DEF LoadLibrary, Dispatch, Quiescent, vars, dartVars, threadVars
    <2> QED
      BY <2>1, MadeQuiet
  <1> QED
    BY <1>1, <1>2, <1>3, <1>4, <1>5 DEF Next, Step

(* However many isolates race through get_receive_port, which looks for    *)
(* the port and makes it without a lock, they make at most one native port *)
(* each, as long as Dart_NewNativePort does not fail: after a failure the  *)
(* missing port is stored over the ones made before.                       *)
THEOREM OnePortForEach ==
    ASSUME IsFiniteSet(Isolates), ~NativePortMayFail
    PROVE  Spec => []OnePortEach
  <1>1. Init => Made
    BY MadeInit
  <1>2. Inv /\ Inv' /\ Made /\ [Next]_vars => Made'
    BY MadeNext
  <1>3. Inv /\ Made => OnePortEach
    <2> SUFFICES ASSUME Inv, Made PROVE OnePortEach
      OBVIOUS
    <2>1. IsFiniteSet(Makers) /\ IsFiniteSet(Callers) /\ IsFiniteSet(created)
      BY Isolated DEF Made
    <2>2. /\ Cardinality(Makers) \in Nat /\ Cardinality(Callers) \in Nat
          /\ Cardinality(created) \in Nat
      BY <2>1, FS_CardinalityType
    <2>3. Cardinality(created) <= Cardinality(Callers)
      BY <2>2 DEF Made
    <2> QED
      BY <2>3 DEF OnePortEach, Callers
  <1> QED
    BY <1>1, <1>2, <1>3, Invariance, PTL DEF Spec
=============================================================================
