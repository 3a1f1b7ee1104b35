------------------------- MODULE TableExists_proofs -------------------------
(***************************************************************************)
(* Theorems about TableExists, for any names and any number of tables.     *)
(*                                                                         *)
(* An answer is a reply that waited in the port, so the invariant says of  *)
(* each waiting reply what the properties say of an answer, and that the   *)
(* reply that tells of the abort waits behind the bool that the callback   *)
(* posted, or finds the port closed by it.                                 *)
(***************************************************************************)
EXTENDS TableExists, TLAPS

\* What a reply says of the database, wherever it is.
Truthful(reply) == /\ reply = "true" => Contains(tables, asked)
                   /\ reply = "null" => tables = <<>>

\* The reply that messageHandler posts because the callback stopped the query.
TellsOfAbort(reply) == reply = "query aborted"

\* The reply port has been closed, or was never opened.
Closed == ~portOpen

\* Nothing waits while the program may change the tables, nor before the
\* callback; after it there is its bool, or a port closed by it.
ByStage == /\ stage \in {"idle", "query"} => posted = <<>>
           /\ stage = "aborted" => Len(posted) <= 1 /\ (posted = <<>> => Closed)

Waiting == \A i \in 1 .. Len(posted) :
              /\ Truthful(posted[i])
              /\ TellsOfAbort(posted[i]) => i > 1 \/ Closed

\* The types of everything but the port.
Types == /\ tables \in Seq(Names)
         /\ asked \in Names
         /\ stage \in Stages
         /\ posted \in Seq(Replies)
         /\ Len(posted) <= 2
         /\ answer \in Replies \cup {"none"}

Port == portOpen \in BOOLEAN

\* The inductive invariant.
IInv == Types /\ Port /\ ByStage /\ Waiting /\ TrueIsTrue /\ AbortHidden

-----------------------------------------------------------------------------
(* A queue with one more reply. *)
LEMMA OneMore ==
    ASSUME NEW S, NEW s \in Seq(S), NEW e \in S, NEW t, t = Append(s, e)
    PROVE  /\ t \in Seq(S) /\ Len(t) = Len(s) + 1
           /\ \A i \in 1 .. Len(s) : t[i] = s[i]
           /\ t[Len(s) + 1] = e
  OBVIOUS

(* A queue of one reply. *)
LEMMA JustOne ==
    ASSUME NEW S, NEW e \in S, NEW t, t = <<e>>
    PROVE  t \in Seq(S) /\ Len(t) = 1 /\ t[1] = e
  OBVIOUS

(* What a reply says of the database is the same after a step that leaves   *)
(* the tables and the question alone.                                       *)
LEMMA SameTables ==
    ASSUME UNCHANGED <<tables, asked>>, NEW reply
    PROVE  (reply = "true" => Contains(tables, asked)')
           <=> (reply = "true" => Contains(tables, asked))
  BY DEF Contains

(* The initial state: nothing is asked and nothing is answered.             *)
LEMMA InitIInv == Init => IInv
  <1> SUFFICES ASSUME Init PROVE IInv
    OBVIOUS
  <1>1. Types
    BY DEF Init, Types, Stages
  <1>2. Port
    BY DEF Init, Port
  <1>3. ByStage /\ Waiting
    BY DEF Init, ByStage, Waiting
  <1> QED
    BY <1>1, <1>2, <1>3 DEF Init, IInv, TrueIsTrue, AbortHidden

(* Statements of the program change the tables between two calls, when no   *)
(* reply waits, and forget the last answer.                                 *)
LEMMA StatementsIInv ==
    ASSUME IInv, NEW n \in Names, CreateTable(n) \/ DropTable(n)
    PROVE  IInv'
  <1>1. tables' \in Seq(Names)
    <2>1. CASE CreateTable(n)
      BY <2>1 DEF CreateTable, IInv, Types
    <2>2. CASE DropTable(n)
      <3>1. PICK i \in 1 .. Len(tables) : tables' = RemoveAt(tables, i)
        BY <2>2 DEF DropTable
      <3> QED
        BY <3>1 DEF RemoveAt, IInv, Types
    <2> QED
      BY <2>1, <2>2
  <1>2. stage = "idle" /\ answer' = "none" /\ UNCHANGED <<asked, stage, posted>>
    BY DEF CreateTable, DropTable
  <1>3. posted = <<>>
    BY <1>2 DEF IInv, ByStage
  <1>4. Port'
    BY DEF CreateTable, DropTable, IInv, Port
  <1>5. Types'
    BY <1>1, <1>2, <1>3 DEF IInv, Types
  <1>6. ByStage' /\ Waiting'
    BY <1>2, <1>3 DEF ByStage, Waiting
  <1> QED
    BY <1>2, <1>4, <1>5, <1>6 DEF IInv, TrueIsTrue, AbortHidden

(* A call opens a port that nothing waits in.                               *)
LEMMA AskIInv == ASSUME IInv, NEW n \in Names, Ask(n) PROVE IInv'
  <1>1. /\ posted' = <<>> /\ stage' = "query" /\ asked' = n /\ answer' = "none"
        /\ tables' = tables
    BY DEF Ask, IInv, ByStage
  <1>2. Port'
    BY DEF Ask, Port
  <1>3. Types'
    BY <1>1 DEF IInv, Types, Stages
  <1>4. ByStage' /\ Waiting'
    BY <1>1 DEF ByStage, Waiting
  <1> QED
    BY <1>1, <1>2, <1>3, <1>4 DEF IInv, TrueIsTrue, AbortHidden

(* The callback's bool is true only of a table it has seen.                 *)
LEMMA CallbackIInv == ASSUME IInv, Callback PROVE IInv'
  <1>1. tables \in Seq(Names) /\ tables # <<>>
    BY DEF IInv, Types, Callback
  <1>2. Head(tables) = asked => Contains(tables, asked)
    BY <1>1 DEF Contains
  <1>3. PICK bool \in Replies :
           /\ posted' = <<bool>>
           /\ bool = "true" => Contains(tables, asked)
           /\ bool # "null" /\ ~TellsOfAbort(bool)
    BY <1>2 DEF Callback, Replies, TellsOfAbort
  <1>4. stage' = "aborted" /\ UNCHANGED <<tables, asked, answer>>
    BY DEF Callback
  <1>5. Port'
    BY DEF Callback, IInv, Port
  <1>6. posted' \in Seq(Replies) /\ Len(posted') = 1 /\ posted'[1] = bool
    <2>1. posted' = <<bool>>
      BY <1>3
    <2> QED
      BY <2>1, JustOne
  <1>7. Types'
    BY <1>4, <1>6 DEF IInv, Types, Stages
  <1>8. ByStage'
    <2>1. stage' \notin {"idle", "query"}
      BY <1>4
    <2>2. posted' # <<>>
      <3>1. <<bool>> # <<>>
        OBVIOUS
      <3> QED
        BY <1>3, <3>1
    <2> QED
      BY <1>6, <2>1, <2>2 DEF ByStage
  <1>9. Waiting'
    <2>1. Truthful(posted[1])' /\ ~TellsOfAbort(posted[1])'
      BY <1>3, <1>4, <1>6, SameTables DEF Truthful, TellsOfAbort
    <2> QED
      BY <1>6, <2>1 DEF Waiting
  <1>10. TrueIsTrue' /\ AbortHidden'
    BY <1>4, SameTables DEF IInv, TrueIsTrue, AbortHidden
  <1> QED
    BY <1>5, <1>7, <1>8, <1>9, <1>10 DEF IInv

(* The result of the query goes behind the bool, if there is one.           *)
LEMMA QueryEndsIInv == ASSUME IInv, QueryEnds PROVE IInv'
  <1>1. PICK reply \in Replies :
           /\ posted' = Append(posted, reply)
           /\ reply # "true"
           /\ reply = "null" => tables = <<>>
           /\ TellsOfAbort(reply) => stage = "aborted"
    BY DEF QueryEnds, Replies, TellsOfAbort
  <1>2. stage \in {"query", "aborted"} /\ stage' = "ended" /\ UNCHANGED <<tables, asked, answer>>
    BY DEF QueryEnds
  <1>3. posted \in Seq(Replies)
    BY DEF IInv, Types
  <1>4. Len(posted) <= 1
    <2>1. CASE stage = "query"
      <3>1. posted = <<>>
        BY <2>1 DEF IInv, ByStage
      <3> QED
        BY <3>1
    <2>2. CASE stage = "aborted"
      BY <2>2 DEF IInv, ByStage
    <2> QED
      BY <1>2, <2>1, <2>2
  <1>5. /\ posted' \in Seq(Replies) /\ Len(posted') = Len(posted) + 1
        /\ \A i \in 1 .. Len(posted) : posted'[i] = posted[i]
        /\ posted'[Len(posted) + 1] = reply
    <2>1. posted' = Append(posted, reply)
      BY <1>1
    <2> QED
      BY <1>3, <2>1, OneMore
  <1>6. Closed' <=> Closed
    BY DEF QueryEnds, Closed
  <1>7. Port'
    BY DEF QueryEnds, IInv, Port
  <1>8. Types'
    BY <1>2, <1>4, <1>5 DEF IInv, Types, Stages
  <1>9. ByStage'
    BY <1>2 DEF ByStage
  <1>10. ASSUME NEW i \in 1 .. Len(posted')
         PROVE  /\ Truthful(posted[i])'
                /\ TellsOfAbort(posted[i])' => i > 1 \/ Closed'
    <2>1. CASE i \in 1 .. Len(posted)
      <3>1. Truthful(posted[i]) /\ (TellsOfAbort(posted[i]) => i > 1 \/ Closed)
        BY <2>1 DEF IInv, Waiting
      <3>2. posted'[i] = posted[i]
        BY <1>5, <2>1
      <3>3. Truthful(posted[i])'
        BY <1>2, <3>1, <3>2, SameTables DEF Truthful
      <3>4. TellsOfAbort(posted[i])' <=> TellsOfAbort(posted[i])
        BY <3>2 DEF TellsOfAbort
      <3> QED
        BY <1>6, <3>4, <3>1, <3>2, <3>3
    <2>2. CASE i = Len(posted) + 1
      <3>1. TellsOfAbort(reply) => i > 1 \/ Closed
        <4>1. CASE posted = <<>>
          BY <1>1, <4>1 DEF IInv, ByStage
        <4>2. CASE posted # <<>>
          BY <1>3, <2>2, <4>2
        <4> QED
          BY <4>1, <4>2
      <3>2. Truthful(posted[i])'
        BY <1>1, <1>2, <1>5, <2>2 DEF Truthful
      <3>3. TellsOfAbort(posted[i])' <=> TellsOfAbort(reply)
        BY <1>5, <2>2 DEF TellsOfAbort
      <3> QED
        BY <1>6, <3>1, <3>2, <3>3
    <2> QED
      BY <1>3, <1>5, <2>1, <2>2
  <1>11. Waiting'
    BY <1>10 DEF Waiting
  <1>12. TrueIsTrue' /\ AbortHidden'
    BY <1>2, SameTables DEF IInv, TrueIsTrue, AbortHidden
  <1> QED
    BY <1>7, <1>8, <1>9, <1>11, <1>12 DEF IInv

(* The first reply answers and closes the port, the second is dropped.      *)
LEMMA DeliverIInv == ASSUME IInv, Deliver PROVE IInv'
  <1>1. posted \in Seq(Replies) /\ posted # <<>> /\ Len(posted) <= 2
    BY DEF IInv, Types, Deliver
  <1>2. posted' = Tail(posted) /\ UNCHANGED <<tables, asked, stage>>
    BY DEF Deliver
  <1>3. /\ posted' \in Seq(Replies) /\ Len(posted') = Len(posted) - 1
        /\ \A i \in 1 .. Len(posted') : posted'[i] = posted[i + 1] /\ i + 1 \in 1 .. Len(posted)
        /\ Head(posted) = posted[1] /\ 1 \in 1 .. Len(posted)
    BY <1>1, <1>2
  <1>4. Closed'
    BY DEF Deliver, Closed
  <1>5. Port'
    BY DEF Deliver, Port
  <1>6. Types'
    <2>1. answer' \in Replies \cup {"none"}
      BY <1>1 DEF Deliver, IInv, Types
    <2> QED
      BY <1>1, <1>2, <1>3, <2>1 DEF IInv, Types
  <1>7. ByStage'
    BY <1>1, <1>2, <1>3, <1>4 DEF IInv, ByStage
  <1>8. Waiting'
    <2>1. ASSUME NEW i \in 1 .. Len(posted') PROVE Truthful(posted[i])'
      <3>1. Truthful(posted[i + 1]) /\ posted'[i] = posted[i + 1]
        BY <1>3, <2>1 DEF IInv, Waiting
      <3> QED
        BY <1>2, <3>1, SameTables DEF Truthful
    <2> QED
      BY <1>4, <2>1 DEF Waiting
  <1>9. TrueIsTrue' /\ AbortHidden'
    <2>1. Truthful(posted[1]) /\ (TellsOfAbort(posted[1]) => Closed)
      BY <1>3 DEF IInv, Waiting
    <2>2. CASE answer' = answer
      BY <1>2, <2>2, SameTables DEF IInv, TrueIsTrue, AbortHidden
    <2>3. CASE answer' = posted[1] /\ ~Closed
      BY <1>2, <2>1, <2>3, SameTables DEF Truthful, TellsOfAbort, TrueIsTrue, AbortHidden
    <2>4. answer' = answer \/ (answer' = Head(posted) /\ ~Closed)
      BY DEF Deliver, Closed
    <2> QED
      BY <1>3, <2>2, <2>3, <2>4
  <1> QED
    BY <1>5, <1>6, <1>7, <1>8, <1>9 DEF IInv

(* A step that leaves everything but the stage alone, and leads to idle only *)
(* when nothing waits, keeps the invariant: the end of a call, stuttering.   *)
LEMMA QuietIInv ==
    ASSUME IInv, UNCHANGED <<tables, asked, posted, portOpen, answer>>,
           stage' = stage \/ (stage' = "idle" /\ posted = <<>>)
    PROVE  IInv'
  <1>1. Port' /\ (Closed' <=> Closed)
    BY DEF IInv, Port, Closed
  <1>2. UNCHANGED <<tables, asked, posted, answer>>
    OBVIOUS
  <1>3. Types'
    BY <1>2 DEF IInv, Types, Stages
  <1>4. ByStage'
    BY <1>1, <1>2 DEF IInv, ByStage
  <1>5. Waiting'
    BY <1>1, <1>2, SameTables DEF IInv, Waiting, Truthful
  <1>6. TrueIsTrue' /\ AbortHidden'
    BY <1>2, SameTables DEF IInv, TrueIsTrue, AbortHidden
  <1> QED
    BY <1>1, <1>3, <1>4, <1>5, <1>6 DEF IInv

(* Every step keeps the invariant.                                          *)
LEMMA NextIInv == IInv /\ [Next]_vars => IInv'
  <1> SUFFICES ASSUME IInv, [Next]_vars PROVE IInv'
    OBVIOUS
  <1>1. CASE NextCall \/ UNCHANGED vars
    BY <1>1, QuietIInv DEF NextCall, vars
  <1>2. CASE \E n \in Names : CreateTable(n) \/ DropTable(n) \/ Ask(n)
    BY <1>2, StatementsIInv, AskIInv
  <1>3. CASE Callback \/ QueryEnds \/ Deliver
    BY <1>3, CallbackIInv, QueryEndsIInv, DeliverIInv
  <1> QED
    BY <1>1, <1>2, <1>3 DEF Next

(* The variables keep their types; at most two replies wait.                *)
THEOREM TypeCorrect == Spec => []TypeOK
  <1>1. IInv => TypeOK
    BY DEF IInv, Types, Port, TypeOK
  <1> QED
    BY InitIInv, NextIInv, <1>1, PTL DEF Spec

(* The answer true is given only for a table that exists: the callback      *)
(* compares with the first table alone, and never invents one.              *)
THEOREM TrueMeansThere == Spec => []TrueIsTrue
  <1>1. IInv => TrueIsTrue
    BY DEF IInv
  <1> QED
    BY InitIInv, NextIInv, <1>1, PTL DEF Spec

(* The abort that the callback provokes never answers the call, and null    *)
(* answers it only where there is no table.                                 *)
THEOREM AbortStaysHidden == Spec => []AbortHidden
  <1>1. IInv => AbortHidden
    BY DEF IInv
  <1> QED
    BY InitIInv, NextIInv, <1>1, PTL DEF Spec
=============================================================================
