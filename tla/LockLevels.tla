----------------------------- MODULE LockLevels -----------------------------
(***************************************************************************)
(* The five levels of a lock on a database file (os.h in sqlite3.c).       *)
(***************************************************************************)
EXTENDS Naturals

NO_LOCK == 0
SHARED_LOCK == 1
RESERVED_LOCK == 2
PENDING_LOCK == 3
EXCLUSIVE_LOCK == 4

Levels == NO_LOCK .. EXCLUSIVE_LOCK
=============================================================================
