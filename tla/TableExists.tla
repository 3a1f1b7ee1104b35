---------------------------- MODULE TableExists ----------------------------
(***************************************************************************)
(* sqlite3_table_exists (sqlite3_convenience.dart and the wrapper of that  *)
(* name): a query over sqlite_master whose callback posts a reply and      *)
(* aborts the query, after which messageHandler posts the result as well.  *)
(* The tables are in the order of sqlite_master.                           *)
(***************************************************************************)
EXTENDS Naturals, Sequences, SequencesExt

CONSTANTS Names,      \* table names
          MaxTables   \* bound: tables in the database

ASSUME TableExistsAssumption == MaxTables \in Nat

VARIABLES tables,   \* the tables, oldest first
          asked,    \* the name the program asks for
          stage,    \* where the call stands
          posted,   \* replies on their way to the reply port, oldest first
          portOpen, \* is the reply port open?
          answer    \* what the Future completed with

vars == <<tables, asked, stage, posted, portOpen, answer>>

Stages == {"idle", "query", "aborted", "ended"}
\* The two exceptions are the message of SQLITE_ABORT and any other.
Replies == {"true", "false", "null", "query aborted", "query failed"}

Init == /\ tables = <<>>
        /\ asked \in Names
        /\ stage = "idle"
        /\ posted = <<>>
        /\ portOpen = FALSE
        /\ answer = "none"

\* Statements the program runs between its calls.
CreateTable(n) ==
    /\ stage = "idle"
    /\ Len(tables) < MaxTables
    /\ ~Contains(tables, n)
    /\ tables' = Append(tables, n)
    /\ answer' = "none"
    /\ UNCHANGED <<asked, stage, posted, portOpen>>

DropTable(n) ==
    /\ stage = "idle"
    /\ \E i \in 1 .. Len(tables) : /\ tables[i] = n
                                  /\ tables' = RemoveAt(tables, i)
    /\ answer' = "none"
    /\ UNCHANGED <<asked, stage, posted, portOpen>>

Ask(n) ==
    /\ stage = "idle"
    /\ asked' = n
    /\ stage' = "query"
    /\ portOpen' = TRUE
    /\ answer' = "none"
    /\ UNCHANGED <<tables, posted>>

\* Mutant: the callback returns 0 and is called for every table.
CallbackGoesOn ==
    /\ stage = "query"
    /\ tables # <<>>
    /\ posted' = [i \in 1 .. Len(tables) |->
                     IF tables[i] = asked THEN "true" ELSE "false"]
    /\ stage' = "aborted"
    /\ UNCHANGED <<tables, asked, portOpen, answer>>

\* Mutant: the comparison is inverted (strcmp taken for a truth value).
CallbackInverted ==
    /\ stage = "query"
    /\ tables # <<>>
    /\ posted' = <<IF Head(tables) = asked THEN "false" ELSE "true">>
    /\ stage' = "aborted"
    /\ UNCHANGED <<tables, asked, portOpen, answer>>

\* Mutant: the callback leaves the answer to the end of the query.
CallbackPostsNothing ==
    /\ stage = "query"
    /\ tables # <<>>
    /\ stage' = "aborted"
    /\ UNCHANGED <<tables, asked, posted, portOpen, answer>>

\* The callback sees the first table, posts whether it is the one and
\* returns 1, which makes sqlite3_exec stop with SQLITE_ABORT.
Callback ==
    /\ stage = "query"
    /\ tables # <<>>
    /\ posted' = <<IF Head(tables) = asked THEN "true" ELSE "false">>
    /\ stage' = "aborted"
    /\ UNCHANGED <<tables, asked, portOpen, answer>>

\* The query ends, aborted, failed, or without a row, and its result is
\* posted too.
QueryEnds ==
    /\ \/ stage = "aborted" /\ posted' = Append(posted, "query aborted")
       \/ stage = "query" /\ tables = <<>> /\ posted' = Append(posted, "null")
       \/ stage = "query" /\ posted' = Append(posted, "query failed")
    /\ stage' = "ended"
    /\ UNCHANGED <<tables, asked, portOpen, answer>>

\* The handler closes its port at the first reply and completes the Future,
\* perhaps while the query is still ending; a later reply is dropped.
Deliver ==
    /\ posted # <<>>
    /\ posted' = Tail(posted)
    /\ answer' = IF portOpen THEN Head(posted) ELSE answer
    /\ portOpen' = FALSE
    /\ UNCHANGED <<tables, asked, stage>>

\* The worker is free for the next call of the program.
NextCall ==
    /\ stage = "ended"
    /\ posted = <<>>
    /\ stage' = "idle"
    /\ UNCHANGED <<tables, asked, posted, portOpen, answer>>

Next == \/ \E n \in Names : CreateTable(n) \/ DropTable(n) \/ Ask(n)
        \/ Callback \/ QueryEnds \/ Deliver \/ NextCall

Spec == Init /\ [][Next]_vars

-----------------------------------------------------------------------------
\* Type invariant; at most two replies are on their way.
TypeOK == /\ tables \in Seq(Names)
          /\ asked \in Names
          /\ stage \in Stages
          /\ posted \in Seq(Replies) /\ Len(posted) <= 2
          /\ portOpen \in BOOLEAN
          /\ answer \in Replies \cup {"none"}

(* An answer true means that the table is there: comparing with the first  *)
(* table alone never invents one.                                          *)
TrueIsTrue == answer = "true" => Contains(tables, asked)

(* The exception that the callback provokes by aborting its own query      *)
(* never reaches the program: the Future completes with the bool that was  *)
(* posted before it, or with null when there is no table at all.           *)
AbortHidden == /\ answer # "query aborted"
               /\ answer = "null" => tables = <<>>

(* A table that exists is found ("Convenient method to check if table      *)
(* exists", sqlite3_convenience.dart).  The code violates it: only the     *)
(* first table is compared.                                                *)
ExistingTableFound ==
    Contains(tables, asked) /\ answer \in {"true", "false", "null"}
        => answer = "true"
=============================================================================
