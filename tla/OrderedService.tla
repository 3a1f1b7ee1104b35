--------------------------- MODULE OrderedService ---------------------------
(***************************************************************************)
(* What the asynchronous API promises the isolate that calls it, whatever  *)
(* native threads, ports and buffers lie underneath: a call is answered    *)
(* exactly once, answers come in the order of the calls, and everything a  *)
(* call receives -- its rows, its error -- is its own, each row once and   *)
(* in order.                                                               *)
(*                                                                         *)
(* Bridge implements this module when one isolate uses the library.        *)
(***************************************************************************)
EXTENDS Naturals, Sequences

CONSTANTS Requests,     \* the calls the isolate may make
          Row(_, _),    \* Row(r, k): the k-th row that call r produces
          Error(_)      \* Error(r): what call r fails with

VARIABLES pending,      \* calls made and not answered, oldest first
          received,     \* what each call has been given so far
          outcome       \* how each call stands

vars == <<pending, received, outcome>>

Init == /\ pending = <<>>
        /\ received = [r \in Requests |-> <<>>]
        /\ outcome = [r \in Requests |-> "new"]

\* The isolate makes call r.
Ask(r) == /\ outcome[r] = "new"
          /\ outcome' = [outcome EXCEPT ![r] = "pending"]
          /\ pending' = Append(pending, r)
          /\ UNCHANGED received

\* Call r throws at once and is never answered.
Refuse(r) == /\ outcome[r] = "new"
             /\ outcome' = [outcome EXCEPT ![r] = "threw"]
             /\ UNCHANGED <<pending, received>>

Oldest(r) == pending # <<>> /\ Head(pending) = r

\* The oldest call receives its next row.
GiveRow(r) ==
    /\ Oldest(r)
    /\ received' = [received EXCEPT ![r] = Append(@, Row(r, Len(@) + 1))]
    /\ UNCHANGED <<pending, outcome>>

\* The oldest call is answered, with success or with its own error.
Complete(r) == /\ Oldest(r)
               /\ outcome' = [outcome EXCEPT ![r] = "completed"]
               /\ pending' = Tail(pending)
               /\ UNCHANGED received

Fail(r) == /\ Oldest(r)
           /\ outcome' = [outcome EXCEPT ![r] = "error"]
           /\ received' = [received EXCEPT ![r] = Append(@, Error(r))]
           /\ pending' = Tail(pending)

Next == \E r \in Requests : \/ Ask(r) \/ Refuse(r)
                            \/ GiveRow(r) \/ Complete(r) \/ Fail(r)

Spec == Init /\ [][Next]_vars
=============================================================================
