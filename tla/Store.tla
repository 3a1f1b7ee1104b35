------------------------------- MODULE Store -------------------------------
(***************************************************************************)
(* What a database file is to the programs that share it: one content that *)
(* changes from one committed version to the next, whatever crashes.       *)
(*                                                                         *)
(* A connection sees the committed version, one at a time changes a copy   *)
(* of it, and a commit replaces the version when nobody else looks.  A     *)
(* power loss may take the last commit back, never part of one.            *)
(*                                                                         *)
(* Pager implements this module.                                           *)
(***************************************************************************)
CONSTANTS Conns,
          Pages,
          NoConn,
          NoView     \* what a connection sees that reads nothing

VARIABLES db,        \* the committed version
          fallback,  \* the version a power loss may go back to
          view,      \* what each connection sees
          writer     \* the connection that changes its view

vars == <<db, fallback, view, writer>>

Init == /\ fallback = db
        /\ view = [c \in Conns |-> NoView]
        /\ writer = NoConn

\* A connection begins to read; what it sees is the committed version.
Begin(c) == /\ view[c] = NoView
            /\ view' = [view EXCEPT ![c] = db]
            /\ UNCHANGED <<db, fallback, writer>>

End(c) == /\ writer # c
          /\ view' = [view EXCEPT ![c] = NoView]
          /\ UNCHANGED <<db, fallback, writer>>

Claim(c) == /\ writer = NoConn
            /\ view[c] = db
            /\ writer' = c
            /\ UNCHANGED <<db, fallback, view>>

Change(c) == /\ writer = c
             /\ view'[c] # NoView
             /\ \E p \in Pages :
                    \A q \in Pages \ {p} : view'[c][q] = view[c][q]
             /\ \A d \in Conns \ {c} : view'[d] = view[d]
             /\ UNCHANGED <<db, fallback, writer>>

Commit(c) == /\ writer = c
             /\ \A d \in Conns \ {c} : view[d] = NoView
             /\ db' = view[c]
             /\ fallback' = db
             /\ writer' = NoConn
             /\ UNCHANGED view

GiveUp(c) == /\ writer = c
             /\ writer' = NoConn
             /\ \E seen \in {NoView, db} : view' = [view EXCEPT ![c] = seen]
             /\ UNCHANGED <<db, fallback>>

\* The last commit can no longer be taken back.
Settle == /\ fallback' = db
          /\ UNCHANGED <<db, view, writer>>

\* The process of connection c dies.
Die(c) == /\ view' = [view EXCEPT ![c] = NoView]
          /\ writer' = IF writer = c THEN NoConn ELSE writer
          /\ UNCHANGED <<db, fallback>>

PowerLoss == /\ db' \in {db, fallback}
             /\ fallback' = db'
             /\ view' = [c \in Conns |-> NoView]
             /\ writer' = NoConn

Next == \/ Settle \/ PowerLoss
        \/ \E c \in Conns : \/ Begin(c) \/ End(c) \/ Claim(c) \/ Change(c)
                            \/ Commit(c) \/ GiveUp(c) \/ Die(c)

Spec == Init /\ [][Next]_vars
=============================================================================
