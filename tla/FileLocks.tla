----------------------------- MODULE FileLocks -----------------------------
(***************************************************************************)
(* What the locks of a database file promise the connections that use it,  *)
(* whatever processes and system calls lie underneath: readers share, one  *)
(* connection at a time may prepare a write, one at a time may keep out    *)
(* new readers, unless they join one that reads, and whoever changes the   *)
(* file is alone.                                                          *)
(*                                                                         *)
(* UnixLocks implements this module; Pager is built on it.                 *)
(***************************************************************************)
EXTENDS LockLevels

CONSTANT Conns   \* connections to one database file

VARIABLES lock,      \* the level each connection holds
          reserved   \* who holds the right to prepare a write

vars == <<lock, reserved>>

Init == /\ lock = [c \in Conns |-> NO_LOCK]
        /\ reserved = {}

Raise(c, level) == lock' = [lock EXCEPT ![c] = level]

\* Nobody keeps new readers out.
Admitting == \A d \in Conns : lock[d] < PENDING_LOCK

Alone(c) == \A d \in Conns \ {c} : lock[d] = NO_LOCK

\* While somebody is PENDING, a reader may still join another reader: two
\* connections of a process share what the process was granted.
Share(c) == /\ lock[c] = NO_LOCK
            /\ \/ Admitting
               \/ /\ \E d \in Conns : lock[d] \in {SHARED_LOCK, RESERVED_LOCK}
                  /\ \A d \in Conns : lock[d] # EXCLUSIVE_LOCK
            /\ Raise(c, SHARED_LOCK)
            /\ UNCHANGED reserved

Reserve(c) == /\ lock[c] = SHARED_LOCK
              /\ reserved = {}
              /\ Raise(c, RESERVED_LOCK)
              /\ reserved' = {c}

\* From SHARED too: a hot journal is rolled back without RESERVED.
Pend(c) == /\ lock[c] \in {SHARED_LOCK, RESERVED_LOCK}
           /\ Admitting
           /\ Raise(c, PENDING_LOCK)
           /\ UNCHANGED reserved

Exclude(c) == /\ lock[c] \in SHARED_LOCK .. PENDING_LOCK
              /\ Alone(c)
              /\ Raise(c, EXCLUSIVE_LOCK)
              /\ UNCHANGED reserved

Lower(c, level) == /\ lock[c] > level
                   /\ lock' = [lock EXCEPT ![c] = level]
                   /\ reserved' = reserved \ {c}

\* A process dies, with all its connections.
Die(dead) == /\ lock' = [c \in Conns |-> IF c \in dead THEN NO_LOCK ELSE lock[c]]
             /\ reserved' = reserved \ dead

Next == \/ \E c \in Conns : \/ Share(c) \/ Reserve(c) \/ Pend(c) \/ Exclude(c)
                            \/ \E level \in {NO_LOCK, SHARED_LOCK} : Lower(c, level)
        \/ \E dead \in SUBSET Conns : Die(dead)

Spec == Init /\ [][Next]_vars

-----------------------------------------------------------------------------
\* Type invariant of levels and of the right to prepare a write.
TypeOK == /\ lock \in [Conns -> Levels]
          /\ reserved \subseteq Conns

(* Whoever may change the file is alone with it, at most one connection    *)
(* keeps new readers out, and at most one prepares a write: the promise of *)
(* the five lock levels of os.h.                                           *)
Exclusion ==
    \A c, d \in Conns : c # d =>
        /\ lock[c] = EXCLUSIVE_LOCK => lock[d] = NO_LOCK
        /\ ~(lock[c] >= PENDING_LOCK /\ lock[d] >= PENDING_LOCK)
        /\ ~(lock[c] = RESERVED_LOCK /\ lock[d] = RESERVED_LOCK)
        /\ ~(c \in reserved /\ d \in reserved)
=============================================================================
