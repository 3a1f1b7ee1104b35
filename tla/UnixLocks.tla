----------------------------- MODULE UnixLocks -----------------------------
(***************************************************************************)
(* Locks on a database file as os_unix.c makes them out of POSIX advisory  *)
(* locks: unixLock, posixUnlock, unixCheckReservedLock, unixClose and the  *)
(* part of unixOpen that shares descriptors.                               *)
(*                                                                         *)
(* POSIX locks belong to a process, not to a descriptor: connections of    *)
(* one process share what the kernel grants through a unixInodeInfo, and   *)
(* closing any descriptor of the file drops every lock of the process.     *)
(* Each action ends with one fcntl or close: other processes come between  *)
(* them although the mutex of the inode is held.  A call that ends with    *)
(* SQLITE_BUSY at its first step changes nothing and is not shown.         *)
(*                                                                         *)
(* The calls of an isolate run one after the other (Bridge, OneHandler).   *)
(***************************************************************************)
EXTENDS LockLevels, FiniteSets

CONSTANTS Conns,      \* connections to one database file
          Isolates,
          Procs,      \* processes
          IsolateOf,  \* the isolate that uses a connection
          ProcOf      \* the process an isolate lives in

ASSUME UnixLocksAssumption ==
    /\ IsFiniteSet(Conns)
    /\ IsolateOf \in [Conns -> Isolates]
    /\ ProcOf \in [Isolates -> Procs]

VARIABLES
    level,     \* unixFile.eFileLock
    pc,        \* how far the call made on each connection has got
    inodeLock, \* unixInodeInfo.eFileLock of each process
    nShared,   \* connections of the process with SHARED or more
    nLock,     \* locks of the process that keep descriptors from closing
    unused,    \* unixInodeInfo.pUnused: descriptors whose close is deferred
    kernel,    \* what the kernel has granted each process
    dropped    \* processes whose locks were dropped by a close

inode == <<inodeLock, nShared, nLock, unused>>
vars == <<level, pc, inode, kernel, dropped>>

\* PENDING_BYTE, RESERVED_BYTE and the 510 bytes from SHARED_FIRST.
Bytes == {"pending", "reserved", "shared"}
Modes == {"none", "read", "write"}
NoGrant == [b \in Bytes |-> "none"]

\* The stages of a call in which it holds the mutex of the inode.
Locking == {"read range", "drop pending", "give up", "write range",
            "downgrade", "release"}
Stages == Locking \cup {"closed", "idle", "close fd"}

Proc(c) == ProcOf[IsolateOf[c]]
Of(p) == {c \in Conns : Proc(c) = p}

Init == /\ level = [c \in Conns |-> NO_LOCK]
        /\ pc = [c \in Conns |-> "closed"]
        /\ inodeLock = [p \in Procs |-> NO_LOCK]
        /\ nShared = [p \in Procs |-> 0]
        /\ nLock = [p \in Procs |-> 0]
        /\ unused = [p \in Procs |-> 0]
        /\ kernel = [p \in Procs |-> NoGrant]
        /\ dropped = {}

At(c, stage) == pc[c] = stage
Goto(c, stage) == pc' = [pc EXCEPT ![c] = stage]

\* fcntl(F_SETLK) would grant process p this lock.
CanLock(p, byte, mode) ==
    \A q \in Procs \ {p} : /\ kernel[q][byte] # "write"
                           /\ mode = "write" => kernel[q][byte] = "none"

Grant(p, byte, mode) == kernel' = [kernel EXCEPT ![p][byte] = mode]

MutexFree(p) == \A d \in Of(p) : pc[d] \notin Locking

\* A call may start: its isolate runs no other, and the mutex is free.
MayCall(c) == /\ MutexFree(Proc(c))
              /\ \A d \in Conns : IsolateOf[d] = IsolateOf[c] =>
                     pc[d] \in {"closed", "idle"}

Starts(c) == At(c, "idle") /\ MayCall(c)

SetLevels(c, l) == /\ level' = [level EXCEPT ![c] = l]
                   /\ inodeLock' = [inodeLock EXCEPT ![Proc(c)] = l]

-----------------------------------------------------------------------------
(* unixLock(SHARED_LOCK).                                                  *)

\* Another connection of the process has the lock already.
JoinShared(c) ==
    LET p == Proc(c) IN
    /\ Starts(c)
    /\ level[c] = NO_LOCK
    /\ inodeLock[p] \in {SHARED_LOCK, RESERVED_LOCK}
    /\ level' = [level EXCEPT ![c] = SHARED_LOCK]
    /\ nShared' = [nShared EXCEPT ![p] = @ + 1]
    /\ nLock' = [nLock EXCEPT ![p] = @ + 1]
    /\ UNCHANGED <<pc, inodeLock, unused, kernel, dropped>>

\* Mutant: the pending byte is not looked at.
ReadPendingUnchecked(c) ==
    /\ Starts(c)
    /\ level[c] = NO_LOCK
    /\ inodeLock[Proc(c)] = NO_LOCK
    /\ Goto(c, "read range")
    /\ UNCHANGED <<level, inode, kernel, dropped>>

ReadPending(c) ==
    LET p == Proc(c) IN
    /\ Starts(c)
    /\ level[c] = NO_LOCK
    /\ inodeLock[p] = NO_LOCK
    /\ CanLock(p, "pending", "read")
    /\ Grant(p, "pending", "read")
    /\ Goto(c, "read range")
    /\ UNCHANGED <<level, inode, dropped>>

ReadRange(c) ==
    LET p == Proc(c) IN
    /\ At(c, "read range")
    /\ \/ /\ CanLock(p, "shared", "read")
          /\ Grant(p, "shared", "read")
          /\ Goto(c, "drop pending")
       \/ /\ ~CanLock(p, "shared", "read")
          /\ Goto(c, "give up")
          /\ UNCHANGED kernel
    /\ UNCHANGED <<level, inode, dropped>>

DropPending(c) ==
    LET p == Proc(c) IN
    /\ Grant(p, "pending", "none")
    /\ Goto(c, "idle")
    /\ \/ /\ At(c, "drop pending")
          /\ SetLevels(c, SHARED_LOCK)
          /\ nShared' = [nShared EXCEPT ![p] = 1]
          /\ nLock' = [nLock EXCEPT ![p] = @ + 1]
       \/ /\ At(c, "give up")
          /\ UNCHANGED <<level, inodeLock, nShared, nLock>>
    /\ UNCHANGED <<unused, dropped>>

-----------------------------------------------------------------------------
(* unixLock(RESERVED_LOCK) and unixLock(EXCLUSIVE_LOCK).  When another     *)
(* connection of the process holds more than this one, the call is busy.   *)

Reserve(c) ==
    LET p == Proc(c) IN
    /\ Starts(c)
    /\ level[c] = SHARED_LOCK
    /\ inodeLock[p] = SHARED_LOCK
    /\ CanLock(p, "reserved", "write")
    /\ Grant(p, "reserved", "write")
    /\ SetLevels(c, RESERVED_LOCK)
    /\ UNCHANGED <<pc, nShared, nLock, unused, dropped>>

\* Mutant: readers of the same process are not counted.
WritePendingAlone(c) ==
    LET p == Proc(c) IN
    /\ Starts(c)
    /\ level[c] \in {SHARED_LOCK, RESERVED_LOCK}
    /\ inodeLock[p] = level[c]
    /\ CanLock(p, "pending", "write")
    /\ Grant(p, "pending", "write")
    /\ Goto(c, "write range")
    /\ UNCHANGED <<level, inode, dropped>>

\* The lock stays PENDING when a reader of the process is in the way.
WritePending(c) ==
    LET p == Proc(c) IN
    /\ Starts(c)
    /\ level[c] \in {SHARED_LOCK, RESERVED_LOCK}
    /\ inodeLock[p] = level[c]
    /\ CanLock(p, "pending", "write")
    /\ Grant(p, "pending", "write")
    /\ \/ /\ nShared[p] > 1
          /\ SetLevels(c, PENDING_LOCK)
          /\ UNCHANGED pc
       \/ /\ nShared[p] <= 1
          /\ Goto(c, "write range")
          /\ UNCHANGED <<level, inodeLock>>
    /\ UNCHANGED <<nShared, nLock, unused, dropped>>

\* The first time after WritePending, later again from PENDING.
WriteRange(c) ==
    LET p == Proc(c) IN
    /\ \/ At(c, "write range")
       \/ Starts(c) /\ level[c] = PENDING_LOCK /\ nShared[p] <= 1
    /\ Goto(c, "idle")
    /\ \/ /\ CanLock(p, "shared", "write")
          /\ Grant(p, "shared", "write")
          /\ SetLevels(c, EXCLUSIVE_LOCK)
       \/ /\ ~CanLock(p, "shared", "write")
          /\ SetLevels(c, PENDING_LOCK)
          /\ UNCHANGED kernel
    /\ UNCHANGED <<nShared, nLock, unused, dropped>>

-----------------------------------------------------------------------------
(* posixUnlock, to SHARED_LOCK or to NO_LOCK.                              *)

\* A read lock on the whole range replaces whatever was granted on it; if
\* the kernel refuses, the call fails and changes nothing.
Downgrade(c) ==
    /\ Starts(c)
    /\ level[c] > SHARED_LOCK
    /\ CanLock(Proc(c), "shared", "read")
    /\ Grant(Proc(c), "shared", "read")
    /\ Goto(c, "downgrade")
    /\ UNCHANGED <<level, inode, dropped>>

\* Mutant: only the pending byte is given back.
DropPendingByte(c) ==
    LET p == Proc(c) IN
    /\ kernel' = [kernel EXCEPT ![p]["pending"] = "none"]
    /\ inodeLock' = [inodeLock EXCEPT ![p] = SHARED_LOCK]
    /\ \/ /\ At(c, "downgrade")
          /\ level' = [level EXCEPT ![c] = SHARED_LOCK]
          /\ Goto(c, "idle")
       \/ /\ Starts(c) /\ level[c] > SHARED_LOCK
          /\ Goto(c, "release")
          /\ UNCHANGED level
    /\ UNCHANGED <<nShared, nLock, unused, dropped>>

\* Both single bytes are given back, on the way to SHARED or to no lock.
DropBytes(c) ==
    LET p == Proc(c) IN
    /\ kernel' = [kernel EXCEPT ![p]["pending"] = "none",
                                ![p]["reserved"] = "none"]
    /\ inodeLock' = [inodeLock EXCEPT ![p] = SHARED_LOCK]
    /\ \/ /\ At(c, "downgrade")
          /\ level' = [level EXCEPT ![c] = SHARED_LOCK]
          /\ Goto(c, "idle")
       \/ /\ Starts(c) /\ level[c] > SHARED_LOCK
          /\ Goto(c, "release")
          /\ UNCHANGED level
    /\ UNCHANGED <<nShared, nLock, unused, dropped>>

\* Mutant: the lock is given back while other connections still read.
ReleaseAll(c) ==
    LET p == Proc(c) IN
    /\ \/ At(c, "release")
       \/ Starts(c) /\ level[c] = SHARED_LOCK
    /\ level' = [level EXCEPT ![c] = NO_LOCK]
    /\ Goto(c, "idle")
    /\ nShared' = [nShared EXCEPT ![p] = @ - 1]
    /\ nLock' = [nLock EXCEPT ![p] = @ - 1]
    /\ unused' = [unused EXCEPT ![p] = 0]
    /\ inodeLock' = [inodeLock EXCEPT ![p] = NO_LOCK]
    /\ kernel' = [kernel EXCEPT ![p] = NoGrant]
    /\ UNCHANGED dropped

\* The last connection of the process to let go unlocks the file and closes
\* the descriptors that waited for it (closePendingFds).
Release(c) ==
    LET p == Proc(c) IN
    /\ \/ At(c, "release")
       \/ Starts(c) /\ level[c] = SHARED_LOCK
    /\ level' = [level EXCEPT ![c] = NO_LOCK]
    /\ Goto(c, "idle")
    /\ nShared' = [nShared EXCEPT ![p] = @ - 1]
    /\ nLock' = [nLock EXCEPT ![p] = @ - 1]
    /\ \/ nLock[p] > 1 /\ UNCHANGED unused
       \/ nLock[p] = 1 /\ unused' = [unused EXCEPT ![p] = 0]
    /\ \/ nShared[p] > 1 /\ UNCHANGED <<inodeLock, kernel>>
       \/ /\ nShared[p] = 1
          /\ inodeLock' = [inodeLock EXCEPT ![p] = NO_LOCK]
          /\ kernel' = [kernel EXCEPT ![p] = NoGrant]
    /\ UNCHANGED dropped

-----------------------------------------------------------------------------
(* Descriptors.  Opening and closing exclude each other in a process       *)
(* (unixEnterMutex); locking does not take that mutex.                     *)

NobodyCloses(p) == \A d \in Of(p) : ~At(d, "close fd")

\* unixOpen: a descriptor that waits to be closed is used again.
Open(c) ==
    LET p == Proc(c) IN
    /\ At(c, "closed")
    /\ MayCall(c)
    /\ NobodyCloses(p)
    /\ Goto(c, "idle")
    /\ \/ unused[p] > 0 /\ unused' = [unused EXCEPT ![p] = @ - 1]
       \/ unused[p] = 0 /\ UNCHANGED unused
    /\ UNCHANGED <<level, inodeLock, nShared, nLock, kernel, dropped>>

\* Mutant: the descriptor is closed whatever other connections hold.
CloseAtOnce(c) ==
    /\ Starts(c)
    /\ level[c] = NO_LOCK
    /\ NobodyCloses(Proc(c))
    /\ Goto(c, "close fd")
    /\ UNCHANGED <<level, inode, kernel, dropped>>

\* unixClose, which sqlite3PagerClose calls without a lock: the close waits
\* while another connection of the process has a lock.
Close(c) ==
    LET p == Proc(c) IN
    /\ Starts(c)
    /\ level[c] = NO_LOCK
    /\ NobodyCloses(p)
    /\ \/ /\ nLock[p] > 0
          /\ unused' = [unused EXCEPT ![p] = @ + 1]
          /\ Goto(c, "closed")
       \/ /\ nLock[p] = 0
          /\ Goto(c, "close fd")
          /\ UNCHANGED unused
    /\ UNCHANGED <<level, inodeLock, nShared, nLock, kernel, dropped>>

\* closeUnixFile, with the mutex of the inode given back: the kernel drops
\* every lock the process has on the file.
CloseFd(c) ==
    LET p == Proc(c) IN
    /\ At(c, "close fd")
    /\ Goto(c, "closed")
    /\ kernel' = [kernel EXCEPT ![p] = NoGrant]
    /\ dropped' = IF kernel[p] = NoGrant THEN dropped ELSE dropped \cup {p}
    /\ UNCHANGED <<level, inode>>

\* The process dies.
Die(p) ==
    /\ pc' = [c \in Conns |-> IF c \in Of(p) THEN "closed" ELSE pc[c]]
    /\ level' = [c \in Conns |-> IF c \in Of(p) THEN NO_LOCK ELSE level[c]]
    /\ inodeLock' = [inodeLock EXCEPT ![p] = NO_LOCK]
    /\ nShared' = [nShared EXCEPT ![p] = 0]
    /\ nLock' = [nLock EXCEPT ![p] = 0]
    /\ unused' = [unused EXCEPT ![p] = 0]
    /\ kernel' = [kernel EXCEPT ![p] = NoGrant]
    /\ UNCHANGED dropped

-----------------------------------------------------------------------------
Next == \/ \E c \in Conns :
               \/ JoinShared(c) \/ ReadPending(c) \/ ReadRange(c) \/ DropPending(c)
               \/ Reserve(c) \/ WritePending(c) \/ WriteRange(c)
               \/ Downgrade(c) \/ DropBytes(c) \/ Release(c)
               \/ Open(c) \/ Close(c) \/ CloseFd(c)
        \/ \E p \in Procs : Die(p)

Spec == Init /\ [][Next]_vars

-----------------------------------------------------------------------------
(* Properties.                                                             *)

\* The connections of p whose descriptor unixClose closed or left on pUnused.
Gone(p) == {c \in Of(p) : At(c, "closed")}

\* No more descriptors wait for their close than connections were closed:
\* unixOpen takes one of them before it opens another.
Waiting == \A p \in Procs : unused[p] <= Cardinality(Gone(p))

\* Type invariant of unixFile, unixInodeInfo and the kernel's grants.
TypeOK == /\ level \in [Conns -> Levels]
          /\ pc \in [Conns -> Stages]
          /\ inodeLock \in [Procs -> Levels]
          /\ nShared \in [Procs -> 0 .. Cardinality(Conns)]
          /\ nLock \in [Procs -> 0 .. Cardinality(Conns)]
          /\ unused \in [Procs -> 0 .. Cardinality(Conns)] /\ Waiting
          /\ kernel \in [Procs -> [Bytes -> Modes]]
          /\ dropped \subseteq Procs

\* What a connection may rely on: in posixUnlock the single bytes are gone
\* before unixFile.eFileLock says so.
Held(c) == IF At(c, "release") THEN SHARED_LOCK ELSE level[c]
Reserving == {c \in Conns : /\ Held(c) >= RESERVED_LOCK
                            /\ kernel[Proc(c)]["reserved"] = "write"}

Locks == INSTANCE FileLocks
             WITH lock <- [c \in Conns |-> Held(c)], reserved <- Reserving

(* As long as no close has dropped locks, every step is one FileLocks      *)
(* allows: POSIX locks of processes, shared through the inode, amount to   *)
(* the five levels between connections.                                    *)
LocksKept == Locks!Init /\ [][dropped' = {} => Locks!Next]_<<Locks!vars, dropped>>

(* A connection that holds EXCLUSIVE is alone, in its process and outside  *)
(* it, as long as no close has dropped locks.                              *)
Exclusion == dropped = {} => Locks!Exclusion

(* sqlite3_close in an isolate never drops the locks of its own other      *)
(* connections: where one isolate uses SQLite, no process loses locks.     *)
OneIsolateKeepsLocks ==
    \A p \in dropped : \E c, d \in Of(p) : IsolateOf[c] # IsolateOf[d]

(* unixCheckReservedLock, on which hasHotJournal decides: it reports a     *)
(* lock exactly when another connection prepares a write or, in the same   *)
(* process, holds more than SHARED.                                        *)
ReservedSeen(c) == \/ inodeLock[Proc(c)] > SHARED_LOCK
                   \/ ~CanLock(Proc(c), "reserved", "write")

ReservedReported ==
    dropped = {} =>
        \A c \in Conns : Starts(c) /\ level[c] <= SHARED_LOCK =>
            (ReservedSeen(c) <=>
                \E d \in Conns \ {c} : \/ d \in Reserving
                                       \/ Proc(d) = Proc(c) /\ level[d] > SHARED_LOCK)

(* "If there are outstanding locks, do not actually close the file just    *)
(* yet because that would clear those locks" (unixClose): closing never    *)
(* drops a lock.  With two isolates in a process the code violates it.     *)
CloseKeepsLocks == dropped = {}
=============================================================================
