-------------------------- MODULE UnixLocks_proofs --------------------------
(***************************************************************************)
(* Theorems about UnixLocks, for any connections, isolates and processes:  *)
(* its type, OneIsolateKeepsLocks, Exclusion, LocksKept (it implements     *)
(* FileLocks) and ReservedReported, each on the invariant of the one       *)
(* before.                                                                 *)
(*                                                                         *)
(* First: a close can drop locks only where two isolates of a process use  *)
(* SQLite.  A process loses locks when it closes a descriptor while the    *)
(* kernel has granted it something.  unixClose looks at nLock first, so    *)
(* the argument is that nLock counts the connections with a lock, that     *)
(* without one and outside any call the kernel has granted nothing, and    *)
(* that nobody gets a lock between the look and the close if all calls are *)
(* of one isolate.  Each is a statement about one process.                 *)
(***************************************************************************)
EXTENDS UnixLocks, FiniteSetTheorems, TLAPS

Readers(p) == {c \in Of(p) : level[c] >= SHARED_LOCK}

\* The stages of unixLock(SHARED_LOCK).
Reading == {"read range", "drop pending", "give up"}

\* What the type invariant says without the bounds of the counters.
TypeInv == /\ level \in [Conns -> Levels]
           /\ pc \in [Conns -> Stages]
           /\ inodeLock \in [Procs -> Levels]
           /\ nShared \in [Procs -> Nat]
           /\ nLock \in [Procs -> Nat]
           /\ unused \in [Procs -> Nat]
           /\ kernel \in [Procs -> [Bytes -> Modes]]
           /\ dropped \subseteq Procs

Byte(p, b) == kernel[p][b]

\* The counters of an inode count its readers.
Counted(p) == /\ nShared[p] = Cardinality(Readers(p))
              /\ nLock[p] = nShared[p]
              /\ inodeLock[p] = NO_LOCK <=> nShared[p] = 0

\* What a connection that is inside a call knows of its process.
Within(p, c) ==
    /\ pc[c] \in Reading => nShared[p] = 0 /\ Byte(p, "reserved") = "none"
    /\ pc[c] \in {"read range", "give up"} => Byte(p, "shared") = "none"
    /\ pc[c] \in {"write range", "downgrade", "release"} => level[c] >= SHARED_LOCK

OneInside(p) ==
    \A c, d \in Of(p) : pc[c] \in Locking /\ pc[d] \in Locking => c = d

\* Nothing is granted without a reason.
Quiet(p) == nShared[p] = 0 /\ MutexFree(p) => \A b \in Bytes : Byte(p, b) = "none"

\* What unixClose saw is still so when the descriptor is closed.
OneIsolate(p) == \A c, d \in Of(p) : IsolateOf[c] = IsolateOf[d]
Closing(p) == OneIsolate(p) => \A c \in Of(p) :
                  At(c, "close fd") => nShared[p] = 0 /\ MutexFree(p)

Local(p) == /\ Counted(p)
            /\ \A c \in Of(p) : Within(p, c)
            /\ OneInside(p) /\ Quiet(p) /\ Closing(p)

Inv == /\ TypeInv
       /\ \A p \in Procs : Local(p)
       /\ OneIsolateKeepsLocks

-----------------------------------------------------------------------------
\* The isolate of a connection lives in a process of the model.
LEMMA ProcType == ASSUME NEW c \in Conns PROVE Proc(c) \in Procs /\ c \in Of(Proc(c))
  BY UnixLocksAssumption DEF Proc, Of

\* The readers of a process are finitely many.
LEMMA ReadersFinite == ASSUME NEW p PROVE IsFiniteSet(Readers(p))
  <1>1. Readers(p) \subseteq Conns
    BY DEF Of, Readers
  <1> QED
    BY <1>1, UnixLocksAssumption, FS_Subset

\* A process with a reader counts at least one.
LEMMA Counting ==
    ASSUME NEW p \in Procs, Counted(p), NEW c \in Of(p), level[c] >= SHARED_LOCK
    PROVE  nShared[p] # 0
  <1> DEFINE R == Readers(p)
  <1>1. nShared[p] = Cardinality(R) /\ IsFiniteSet(R)
    BY ReadersFinite DEF Counted
  <1>2. Cardinality(R) \in Nat /\ (R = {} <=> Cardinality(R) = 0)
    BY <1>1, FS_EmptySet, FS_CardinalityType
  <1>3. c \in R
    BY DEF Readers
  <1> QED
    BY <1>1, <1>2, <1>3

-----------------------------------------------------------------------------
(* A step of one connection leaves the other connections and the other     *)
(* processes alone.                                                        *)
Frame(c) == /\ \A d \in Conns : d # c => level'[d] = level[d] /\ pc'[d] = pc[d]
            /\ \A q \in Procs : q # Proc(c) =>
                   /\ inodeLock'[q] = inodeLock[q]
                   /\ nShared'[q] = nShared[q]
                   /\ nLock'[q] = nLock[q]
                   /\ \A b \in Bytes : Byte(q, b)' = Byte(q, b)

\* What is said of a process depends on its own connections and its inode.
LEMMA Elsewhere ==
    ASSUME NEW q \in Procs, Local(q),
           \A d \in Of(q) : level'[d] = level[d] /\ pc'[d] = pc[d],
           inodeLock'[q] = inodeLock[q], nShared'[q] = nShared[q], nLock'[q] = nLock[q],
           \A b \in Bytes : Byte(q, b)' = Byte(q, b)
    PROVE  Local(q)'
  <1>1. Of(q)' = Of(q)
    BY DEF Of
  <1>2. Readers(q)' = Readers(q)
    BY <1>1 DEF Readers
  <1>3. Counted(q)'
    BY <1>2 DEF Local, Counted
  <1>4. ASSUME NEW d \in Of(q) PROVE Within(q, d)'
    <2>1. Within(q, d) /\ level'[d] = level[d] /\ pc'[d] = pc[d]
      BY <1>4 DEF Local
    <2> QED
      BY <2>1 DEF Within, Bytes
  <1>5. OneInside(q)'
    BY <1>1 DEF Local, OneInside
  <1>6. MutexFree(q)' <=> MutexFree(q)
    BY <1>1 DEF MutexFree
  <1>7. Quiet(q)'
    BY <1>6 DEF Local, Quiet
  <1>8. Closing(q)'
    BY <1>1, <1>6 DEF Local, Closing, OneIsolate, At
  <1> QED
    BY <1>1, <1>3, <1>4, <1>5, <1>7, <1>8 DEF Local

\* Counters follow the level of the connection that makes the step.
LEMMA CountStep ==
    ASSUME NEW c \in Conns, Frame(c), Counted(Proc(c)),
           nLock'[Proc(c)] = nShared'[Proc(c)],
           inodeLock'[Proc(c)] = NO_LOCK <=> nShared'[Proc(c)] = 0,
           \/ /\ level[c] >= SHARED_LOCK <=> level'[c] >= SHARED_LOCK
              /\ nShared'[Proc(c)] = nShared[Proc(c)]
           \/ /\ level[c] = NO_LOCK /\ level'[c] >= SHARED_LOCK
              /\ nShared'[Proc(c)] = nShared[Proc(c)] + 1
           \/ /\ level[c] >= SHARED_LOCK /\ level'[c] = NO_LOCK
              /\ nShared'[Proc(c)] = nShared[Proc(c)] - 1
    PROVE  Counted(Proc(c))'
  <1> DEFINE p == Proc(c)
             R == Readers(p)
  <1>1. nShared[p] = Cardinality(R) /\ IsFiniteSet(R) /\ Cardinality(R) \in Nat
    BY ReadersFinite, FS_CardinalityType DEF Counted
  <1>2. \A d \in Conns : d # c => level'[d] = level[d]
    BY DEF Frame
  <1>3. c \in Of(p) /\ (c \in R <=> level[c] >= SHARED_LOCK)
    BY DEF Readers, Of
  <1>4. ~(NO_LOCK >= SHARED_LOCK)
    BY DEF NO_LOCK, SHARED_LOCK
  <1>5. CASE /\ level[c] >= SHARED_LOCK <=> level'[c] >= SHARED_LOCK
             /\ nShared'[p] = nShared[p]
    <2>1. Readers(p)' = R
      BY <1>2, <1>5 DEF Readers, Of
    <2> QED
      BY <2>1, <1>1, <1>5 DEF Counted
  <1>6. CASE /\ level[c] = NO_LOCK /\ level'[c] >= SHARED_LOCK
             /\ nShared'[p] = nShared[p] + 1
    <2>1. Readers(p)' = R \cup {c}
      BY <1>2, <1>3, <1>6 DEF Readers, Of
    <2>2. Cardinality(R \cup {c}) = Cardinality(R) + 1
      BY <1>1, <1>3, <1>4, <1>6, FS_AddElement
    <2> QED
      BY <2>1, <2>2, <1>1, <1>6 DEF Counted
  <1>7. CASE /\ level[c] >= SHARED_LOCK /\ level'[c] = NO_LOCK
             /\ nShared'[p] = nShared[p] - 1
    <2>1. Readers(p)' = R \ {c}
      BY <1>2, <1>3, <1>4, <1>7 DEF Readers, Of
    <2>2. Cardinality(R \ {c}) = Cardinality(R) - 1
      BY <1>1, <1>3, <1>7, FS_RemoveElement
    <2> QED
      BY <2>1, <2>2, <1>1, <1>7 DEF Counted
  <1> QED
    BY <1>5, <1>6, <1>7

\* A call that starts finds none of its isolate about to close, and one that
\* holds the mutex finds none about to close that relies on it.
LEMMA CloserAbsent ==
    ASSUME NEW c \in Conns, Local(Proc(c)), OneIsolate(Proc(c)),
           MayCall(c) \/ pc[c] \in Locking,
           NEW d \in Of(Proc(c))
    PROVE  pc[d] # "close fd"
  <1>1. CASE MayCall(c)
    <2>1. IsolateOf[d] = IsolateOf[c] /\ d \in Conns
      BY ProcType DEF OneIsolate, Of
    <2> QED
      BY <1>1, <2>1 DEF MayCall
  <1>2. CASE pc[c] \in Locking
    <2>1. ~MutexFree(Proc(c))
      BY <1>2, ProcType DEF MutexFree
    <2> QED
      BY <2>1 DEF Local, Closing, At
  <1> QED
    BY <1>1, <1>2

\* While a call goes on, no other connection of the process is inside one.
LEMMA OthersOutside ==
    ASSUME NEW c \in Conns, Local(Proc(c)), MayCall(c) \/ pc[c] \in Locking,
           NEW d \in Of(Proc(c)), d # c
    PROVE  pc[d] \notin Locking
  BY ProcType DEF MayCall, MutexFree, Local, OneInside

(* A step keeps the invariant when it keeps what is said of its process    *)
(* and its connection.                                                     *)
LEMMA StepKeeps ==
    ASSUME Inv, NEW c \in Conns, Frame(c), TypeInv', dropped' = dropped,
           MayCall(c) \/ pc[c] \in Locking,
           Counted(Proc(c))', Within(Proc(c), c)',
           nShared'[Proc(c)] = 0 /\ pc'[c] \notin Locking =>
               \A b \in Bytes : Byte(Proc(c), b)' = "none",
           pc'[c] = "close fd" => nShared'[Proc(c)] = 0
    PROVE  Inv'
  <1> DEFINE p == Proc(c)
  <1>1. p \in Procs /\ c \in Of(p) /\ Local(p) /\ Of(p)' = Of(p)
    BY ProcType DEF Inv, Of
  <1>2. \A d \in Of(p) : d # c => /\ level'[d] = level[d] /\ pc'[d] = pc[d]
                                  /\ pc[d] \notin Locking
    BY <1>1, OthersOutside DEF Frame, Of
  <1>3. ASSUME NEW d \in Of(p), d # c PROVE Within(p, d)'
    <2>1. pc'[d] \notin Locking
      BY <1>2, <1>3
    <2> QED
      BY <2>1 DEF Within, Locking, Reading
  <1>4. OneInside(p)'
    BY <1>1, <1>2 DEF OneInside
  <1>5. MutexFree(p)' <=> pc'[c] \notin Locking
    BY <1>1, <1>2 DEF MutexFree
  <1>6. Quiet(p)'
    BY <1>5 DEF Quiet
  <1>7. Closing(p)'
    <2> SUFFICES ASSUME OneIsolate(p), NEW d \in Of(p), pc'[d] = "close fd"
                 PROVE  nShared'[p] = 0 /\ MutexFree(p)'
      BY <1>1 DEF Closing, OneIsolate, At
    <2>1. d = c
      BY <1>1, <1>2, CloserAbsent
    <2>2. pc'[c] \notin Locking
      BY <2>1 DEF Locking
    <2> QED
      BY <2>1, <2>2, <1>5
  <1>8. Local(p)'
    BY <1>1, <1>3, <1>4, <1>6, <1>7 DEF Local
  <1>9. ASSUME NEW q \in Procs, q # p PROVE Local(q)'
    <2>1. \A d \in Of(q) : level'[d] = level[d] /\ pc'[d] = pc[d]
      BY <1>9 DEF Frame, Of
    <2>2. /\ inodeLock'[q] = inodeLock[q] /\ nShared'[q] = nShared[q]
          /\ nLock'[q] = nLock[q] /\ \A b \in Bytes : Byte(q, b)' = Byte(q, b)
      BY <1>9 DEF Frame
    <2> QED
      BY <2>1, <2>2, Elsewhere DEF Inv
  <1>10. OneIsolateKeepsLocks'
    BY DEF Inv, OneIsolateKeepsLocks, Of
  <1> QED
    BY <1>8, <1>9, <1>10 DEF Inv

-----------------------------------------------------------------------------
\* One value of a function replaced.
LEMMA Replaced ==
    ASSUME NEW S, NEW T, NEW f \in [S -> T], NEW x \in S, NEW y \in T
    PROVE  LET g == [f EXCEPT ![x] = y]
           IN  g \in [S -> T] /\ g[x] = y /\ \A z \in S : z # x => g[z] = f[z]
  OBVIOUS

\* What a grant changes.
LEMMA Granting ==
    ASSUME TypeInv, NEW p \in Procs, NEW b \in Bytes, NEW m \in Modes, Grant(p, b, m)
    PROVE  /\ kernel' \in [Procs -> [Bytes -> Modes]]
           /\ Byte(p, b)' = m
           /\ \A a \in Bytes : a # b => Byte(p, a)' = Byte(p, a)
           /\ \A q \in Procs : q # p => \A a \in Bytes : Byte(q, a)' = Byte(q, a)
  BY DEF TypeInv, Grant, Byte

\* What giving back everything changes.
LEMMA Freeing ==
    ASSUME TypeInv, NEW p \in Procs, kernel' = [kernel EXCEPT ![p] = NoGrant]
    PROVE  /\ kernel' \in [Procs -> [Bytes -> Modes]]
           /\ \A a \in Bytes : Byte(p, a)' = "none"
           /\ \A q \in Procs : q # p => \A a \in Bytes : Byte(q, a)' = Byte(q, a)
  BY DEF TypeInv, NoGrant, Byte, Modes

\* What giving back the single bytes changes.
LEMMA SingleBytes ==
    ASSUME TypeInv, NEW p \in Procs,
           kernel' = [kernel EXCEPT ![p]["pending"] = "none", ![p]["reserved"] = "none"]
    PROVE  /\ kernel' \in [Procs -> [Bytes -> Modes]]
           /\ Byte(p, "shared")' = Byte(p, "shared")
           /\ \A q \in Procs : q # p => \A a \in Bytes : Byte(q, a)' = Byte(q, a)
  BY DEF TypeInv, Byte, Bytes, Modes

\* Where a call starts in a process without a lock, nothing is granted.
LEMMA QuietCall ==
    ASSUME NEW c \in Conns, MayCall(c), Quiet(Proc(c)), nShared[Proc(c)] = 0
    PROVE  \A b \in Bytes : Byte(Proc(c), b) = "none"
  BY DEF MayCall, Quiet

\* What setting the levels of a connection and its inode changes.
LEMMA Setting ==
    ASSUME TypeInv, NEW c \in Conns, NEW l \in Levels, SetLevels(c, l)
    PROVE  /\ level' \in [Conns -> Levels] /\ inodeLock' \in [Procs -> Levels]
           /\ level'[c] = l /\ inodeLock'[Proc(c)] = l
           /\ \A d \in Conns : d # c => level'[d] = level[d]
           /\ \A q \in Procs : q # Proc(c) => inodeLock'[q] = inodeLock[q]
  BY ProcType DEF TypeInv, SetLevels

\* What the next stage of a call changes.
LEMMA Going ==
    ASSUME TypeInv, NEW c \in Conns, NEW s \in Stages, Goto(c, s)
    PROVE  /\ pc' \in [Conns -> Stages]
           /\ pc'[c] = s
           /\ \A d \in Conns : d # c => pc'[d] = pc[d]
  BY DEF TypeInv, Goto

\* The levels and stages that occur.
LEMMA Kinds ==
    /\ {NO_LOCK, SHARED_LOCK, RESERVED_LOCK, PENDING_LOCK, EXCLUSIVE_LOCK} \subseteq Levels
    /\ \A l \in Levels : (l >= SHARED_LOCK) <=> (l # NO_LOCK)
    /\ \A l \in Levels : l > SHARED_LOCK => l >= SHARED_LOCK
    /\ SHARED_LOCK >= SHARED_LOCK /\ PENDING_LOCK >= SHARED_LOCK
    /\ EXCLUSIVE_LOCK >= SHARED_LOCK
    /\ PENDING_LOCK # NO_LOCK /\ EXCLUSIVE_LOCK # NO_LOCK /\ SHARED_LOCK # NO_LOCK
    /\ {"idle", "write range", "release"} \subseteq Stages
    /\ "idle" \notin Locking
  BY DEF Levels, NO_LOCK, SHARED_LOCK, RESERVED_LOCK, PENDING_LOCK, EXCLUSIVE_LOCK,
         Stages, Locking

\* What the counters say to the connection that makes a call.
LEMMA CallerCounts ==
    ASSUME Inv, NEW c \in Conns
    PROVE  LET p == Proc(c) IN
           /\ level[c] \in Levels /\ pc[c] \in Stages /\ inodeLock[p] \in Levels
           /\ nShared[p] \in Nat /\ nLock[p] = nShared[p]
           /\ inodeLock[p] = NO_LOCK <=> nShared[p] = 0
           /\ level[c] >= SHARED_LOCK => nShared[p] # 0
  BY ProcType, Counting DEF Inv, Local, TypeInv, Counted

\* A connection in the middle of changing its lock has one.
LEMMA Inside ==
    ASSUME NEW p, NEW c, Within(p, c), NEW s \in {"write range", "downgrade", "release"}, At(c, s)
    PROVE  pc[c] \in Locking /\ level[c] >= SHARED_LOCK
  BY DEF Within, Locking, At

-----------------------------------------------------------------------------

\* A reader joins a reader of its process.
LEMMA JoinSharedStep ==
    ASSUME Inv, NEW c \in Conns, JoinShared(c)
    PROVE  LET p == Proc(c) IN
           /\ dropped' = dropped /\ MayCall(c)
           /\ pc'[c] = "idle"
           /\ level[c] = NO_LOCK /\ level'[c] = SHARED_LOCK
           /\ inodeLock'[p] = inodeLock[p] /\ inodeLock[p] # NO_LOCK
           /\ nShared'[p] = nShared[p] + 1 /\ nLock'[p] = nLock[p] + 1
           /\ \A q \in Procs, a \in Bytes : Byte(q, a)' = Byte(q, a)
           /\ Frame(c) /\ TypeInv'
  <1> DEFINE p == Proc(c)
  <1>1. /\ p \in Procs /\ c \in Of(p) /\ TypeInv
        /\ Counted(p) /\ Within(p, c) /\ Quiet(p)
    BY ProcType DEF Inv, Local
  <1>2. /\ level[c] \in Levels /\ pc[c] \in Stages /\ inodeLock[p] \in Levels
        /\ nShared[p] \in Nat /\ nLock[p] = nShared[p]
        /\ inodeLock[p] = NO_LOCK <=> nShared[p] = 0
        /\ level[c] >= SHARED_LOCK => nShared[p] # 0
    BY <1>1, CallerCounts
  <1>3. /\ kernel' \in [Procs -> [Bytes -> Modes]]
        /\ \A q \in Procs, a \in Bytes : Byte(q, a)' = Byte(q, a)
    BY <1>1 DEF JoinShared, TypeInv, Byte
  <1>4. /\ dropped' = dropped /\ MayCall(c)
        /\ pc'[c] = "idle"
        /\ level[c] = NO_LOCK /\ level'[c] = SHARED_LOCK
        /\ inodeLock'[p] = inodeLock[p] /\ inodeLock[p] # NO_LOCK
        /\ nShared'[p] = nShared[p] + 1 /\ nLock'[p] = nLock[p] + 1
    BY <1>1, <1>2 DEF JoinShared, Starts, At, Goto, NO_LOCK, SHARED_LOCK, RESERVED_LOCK, TypeInv
  <1>5. Frame(c)
    BY <1>1, <1>3 DEF JoinShared, Frame, TypeInv, Goto, SetLevels, inode
  <1>6. TypeInv'
    <2>1. level' \in [Conns -> Levels]
      BY <1>1 DEF JoinShared, TypeInv, SetLevels, Levels, NO_LOCK, SHARED_LOCK, RESERVED_LOCK, PENDING_LOCK, EXCLUSIVE_LOCK
    <2>2. pc' \in [Conns -> Stages]
      BY <1>1 DEF JoinShared, TypeInv, Goto, Stages, Locking
    <2>3. inodeLock' \in [Procs -> Levels]
      BY <1>1 DEF JoinShared, TypeInv, SetLevels, inode, Levels, NO_LOCK, SHARED_LOCK, RESERVED_LOCK, PENDING_LOCK, EXCLUSIVE_LOCK
    <2>4. nShared' \in [Procs -> Nat] /\ nLock' \in [Procs -> Nat]
      BY <1>1, <1>2, <1>4 DEF JoinShared, TypeInv, inode
    <2>5. unused' \in [Procs -> Nat] /\ dropped' \subseteq Procs
      BY <1>1 DEF JoinShared, TypeInv, inode
    <2> QED
      BY <2>1, <2>2, <2>3, <2>4, <2>5, <1>3 DEF TypeInv
  <1> QED
    BY <1>3, <1>4, <1>5, <1>6

\* It keeps the invariant.
LEMMA JoinSharedKeeps == ASSUME Inv, NEW c \in Conns, JoinShared(c) PROVE Inv'
  <1> DEFINE p == Proc(c)
  <1>1. /\ p \in Procs /\ c \in Of(p) /\ Counted(p) /\ Within(p, c) /\ Quiet(p)
    BY ProcType DEF Inv, Local
  <1>2. /\ level[c] \in Levels /\ pc[c] \in Stages /\ inodeLock[p] \in Levels
        /\ nShared[p] \in Nat /\ nLock[p] = nShared[p]
        /\ inodeLock[p] = NO_LOCK <=> nShared[p] = 0
        /\ level[c] >= SHARED_LOCK => nShared[p] # 0
    BY <1>1, CallerCounts
  <1>3. /\ dropped' = dropped /\ MayCall(c)
        /\ pc'[c] = "idle"
        /\ level[c] = NO_LOCK /\ level'[c] = SHARED_LOCK
        /\ inodeLock'[p] = inodeLock[p] /\ inodeLock[p] # NO_LOCK
        /\ nShared'[p] = nShared[p] + 1 /\ nLock'[p] = nLock[p] + 1
        /\ \A q \in Procs, a \in Bytes : Byte(q, a)' = Byte(q, a)
        /\ Frame(c) /\ TypeInv'
    BY JoinSharedStep
  <1>4. Counted(p)'
    BY <1>1, <1>2, <1>3, CountStep DEF Levels, NO_LOCK, SHARED_LOCK, RESERVED_LOCK, PENDING_LOCK, EXCLUSIVE_LOCK
  <1>5. Within(p, c)'
    BY <1>1, <1>2, <1>3 DEF Within, Reading, Levels, NO_LOCK, SHARED_LOCK, RESERVED_LOCK, PENDING_LOCK, EXCLUSIVE_LOCK
  <1>6. nShared'[p] = 0 /\ pc'[c] \notin Locking => \A b \in Bytes : Byte(p, b)' = "none"
    BY <1>2, <1>3 DEF Locking, Levels, NO_LOCK, SHARED_LOCK
  <1> QED
    BY <1>3, <1>4, <1>5, <1>6, StepKeeps

\* A reader asks for the pending byte.
LEMMA ReadPendingStep ==
    ASSUME Inv, NEW c \in Conns, ReadPending(c)
    PROVE  LET p == Proc(c) IN
           /\ dropped' = dropped /\ MayCall(c)
           /\ pc'[c] = "read range"
           /\ level'[c] = level[c]
           /\ inodeLock'[p] = inodeLock[p]
           /\ nShared'[p] = nShared[p] /\ nLock'[p] = nLock[p] /\ nShared[p] = 0
           /\ \A a \in Bytes : Byte(p, a) = "none"
           /\ \A q \in Procs : q # p => \A a \in Bytes : Byte(q, a)' = Byte(q, a)
           /\ \A a \in Bytes : a # "pending" => Byte(p, a)' = Byte(p, a)
           /\ Frame(c) /\ TypeInv'
  <1> DEFINE p == Proc(c)
  <1>1. /\ p \in Procs /\ c \in Of(p) /\ TypeInv
        /\ Counted(p) /\ Within(p, c) /\ Quiet(p)
    BY ProcType DEF Inv, Local
  <1>2. /\ level[c] \in Levels /\ pc[c] \in Stages /\ inodeLock[p] \in Levels
        /\ nShared[p] \in Nat /\ nLock[p] = nShared[p]
        /\ inodeLock[p] = NO_LOCK <=> nShared[p] = 0
        /\ level[c] >= SHARED_LOCK => nShared[p] # 0
    BY <1>1, CallerCounts
  <1>3. /\ kernel' \in [Procs -> [Bytes -> Modes]]
        /\ \A q \in Procs : q # p => \A a \in Bytes : Byte(q, a)' = Byte(q, a)
        /\ \A a \in Bytes : a # "pending" => Byte(p, a)' = Byte(p, a)
    BY <1>1, Granting DEF ReadPending, Bytes, Modes
  <1>4. /\ dropped' = dropped /\ MayCall(c)
        /\ pc'[c] = "read range"
        /\ level'[c] = level[c]
        /\ inodeLock'[p] = inodeLock[p]
        /\ nShared'[p] = nShared[p] /\ nLock'[p] = nLock[p] /\ nShared[p] = 0
        /\ \A a \in Bytes : Byte(p, a) = "none"
    BY <1>1, <1>2 DEF ReadPending, Starts, At, Goto, MayCall, Quiet, inode, TypeInv
  <1>5. Frame(c)
    BY <1>1, <1>3 DEF ReadPending, Frame, TypeInv, Goto, SetLevels, inode
  <1>6. TypeInv'
    <2>1. level' \in [Conns -> Levels]
      BY <1>1 DEF ReadPending, TypeInv, SetLevels, Levels, NO_LOCK, SHARED_LOCK, RESERVED_LOCK, PENDING_LOCK, EXCLUSIVE_LOCK
    <2>2. pc' \in [Conns -> Stages]
      BY <1>1 DEF ReadPending, TypeInv, Goto, Stages, Locking
    <2>3. inodeLock' \in [Procs -> Levels]
      BY <1>1 DEF ReadPending, TypeInv, SetLevels, inode, Levels, NO_LOCK, SHARED_LOCK, RESERVED_LOCK, PENDING_LOCK, EXCLUSIVE_LOCK
    <2>4. nShared' \in [Procs -> Nat] /\ nLock' \in [Procs -> Nat]
      BY <1>1, <1>2, <1>4 DEF ReadPending, TypeInv, inode
    <2>5. unused' \in [Procs -> Nat] /\ dropped' \subseteq Procs
      BY <1>1 DEF ReadPending, TypeInv, inode
    <2> QED
      BY <2>1, <2>2, <2>3, <2>4, <2>5, <1>3 DEF TypeInv
  <1> QED
    BY <1>3, <1>4, <1>5, <1>6

\* It keeps the invariant.
LEMMA ReadPendingKeeps == ASSUME Inv, NEW c \in Conns, ReadPending(c) PROVE Inv'
  <1> DEFINE p == Proc(c)
  <1>1. /\ p \in Procs /\ c \in Of(p) /\ Counted(p) /\ Within(p, c) /\ Quiet(p)
    BY ProcType DEF Inv, Local
  <1>2. /\ level[c] \in Levels /\ pc[c] \in Stages /\ inodeLock[p] \in Levels
        /\ nShared[p] \in Nat /\ nLock[p] = nShared[p]
        /\ inodeLock[p] = NO_LOCK <=> nShared[p] = 0
        /\ level[c] >= SHARED_LOCK => nShared[p] # 0
    BY <1>1, CallerCounts
  <1>3. /\ dropped' = dropped /\ MayCall(c)
        /\ pc'[c] = "read range"
        /\ level'[c] = level[c]
        /\ inodeLock'[p] = inodeLock[p]
        /\ nShared'[p] = nShared[p] /\ nLock'[p] = nLock[p] /\ nShared[p] = 0
        /\ \A a \in Bytes : Byte(p, a) = "none"
        /\ \A q \in Procs : q # p => \A a \in Bytes : Byte(q, a)' = Byte(q, a)
        /\ \A a \in Bytes : a # "pending" => Byte(p, a)' = Byte(p, a)
        /\ Frame(c) /\ TypeInv'
    BY ReadPendingStep
  <1>4. Counted(p)'
    BY <1>1, <1>2, <1>3, CountStep DEF Levels, NO_LOCK, SHARED_LOCK, RESERVED_LOCK, PENDING_LOCK, EXCLUSIVE_LOCK
  <1>5. Within(p, c)'
    BY <1>3 DEF Within, Reading, Bytes
  <1>6. nShared'[p] = 0 /\ pc'[c] \notin Locking => \A b \in Bytes : Byte(p, b)' = "none"
    BY <1>3 DEF Locking
  <1> QED
    BY <1>3, <1>4, <1>5, <1>6, StepKeeps

\* A reader asks for the shared range, or gives up.
LEMMA ReadRangeStep ==
    ASSUME Inv, NEW c \in Conns, ReadRange(c)
    PROVE  LET p == Proc(c) IN
           /\ dropped' = dropped /\ Byte(p, "shared") = "none" /\ Byte(p, "reserved") = "none"
           /\ pc[c] = "read range" /\ pc[c] \in Locking /\ pc'[c] \in {"drop pending", "give up"}
           /\ level'[c] = level[c]
           /\ inodeLock'[p] = inodeLock[p]
           /\ nShared'[p] = nShared[p] /\ nLock'[p] = nLock[p] /\ nShared[p] = 0
           /\ \A q \in Procs : q # p => \A a \in Bytes : Byte(q, a)' = Byte(q, a)
           /\ \A a \in Bytes : a # "shared" => Byte(p, a)' = Byte(p, a)
           /\ pc'[c] = "give up" => Byte(p, "shared")' = Byte(p, "shared")
           /\ Frame(c) /\ TypeInv'
  <1> DEFINE p == Proc(c)
  <1>1. /\ p \in Procs /\ c \in Of(p) /\ TypeInv
        /\ Counted(p) /\ Within(p, c) /\ Quiet(p)
    BY ProcType DEF Inv, Local
  <1>2. /\ level[c] \in Levels /\ pc[c] \in Stages /\ inodeLock[p] \in Levels
        /\ nShared[p] \in Nat /\ nLock[p] = nShared[p]
        /\ inodeLock[p] = NO_LOCK <=> nShared[p] = 0
        /\ level[c] >= SHARED_LOCK => nShared[p] # 0
    BY <1>1, CallerCounts
  <1>3. /\ kernel' \in [Procs -> [Bytes -> Modes]]
        /\ \A q \in Procs : q # p => \A a \in Bytes : Byte(q, a)' = Byte(q, a)
        /\ \A a \in Bytes : a # "shared" => Byte(p, a)' = Byte(p, a)
        /\ pc'[c] = "give up" => Byte(p, "shared")' = Byte(p, "shared")
    <2>1. CASE Grant(p, "shared", "read")
      <3>1. Grant(p, "shared", "read") => pc'[c] # "give up" \/ kernel' = kernel
        BY <1>1 DEF ReadRange, Goto, TypeInv
      <3> QED
        BY <2>1, <3>1, <1>1, Granting DEF Bytes, Modes, Byte
    <2>2. CASE kernel' = kernel
      BY <2>2, <1>1 DEF TypeInv, Byte
    <2> QED
      BY <2>1, <2>2 DEF ReadRange
  <1>4. /\ dropped' = dropped /\ Byte(p, "shared") = "none" /\ Byte(p, "reserved") = "none"
        /\ pc[c] = "read range" /\ pc[c] \in Locking /\ pc'[c] \in {"drop pending", "give up"}
        /\ level'[c] = level[c]
        /\ inodeLock'[p] = inodeLock[p]
        /\ nShared'[p] = nShared[p] /\ nLock'[p] = nLock[p] /\ nShared[p] = 0
    BY <1>1, <1>2 DEF ReadRange, Starts, At, Goto, Within, Reading, Locking, inode, TypeInv
  <1>5. Frame(c)
    BY <1>1, <1>3 DEF ReadRange, Frame, TypeInv, Goto, SetLevels, inode
  <1>6. TypeInv'
    <2>1. level' \in [Conns -> Levels]
      BY <1>1 DEF ReadRange, TypeInv, SetLevels, Levels, NO_LOCK, SHARED_LOCK, RESERVED_LOCK, PENDING_LOCK, EXCLUSIVE_LOCK
    <2>2. pc' \in [Conns -> Stages]
      BY <1>1 DEF ReadRange, TypeInv, Goto, Stages, Locking
    <2>3. inodeLock' \in [Procs -> Levels]
      BY <1>1 DEF ReadRange, TypeInv, SetLevels, inode, Levels, NO_LOCK, SHARED_LOCK, RESERVED_LOCK, PENDING_LOCK, EXCLUSIVE_LOCK
    <2>4. nShared' \in [Procs -> Nat] /\ nLock' \in [Procs -> Nat]
      BY <1>1, <1>2, <1>4 DEF ReadRange, TypeInv, inode
    <2>5. unused' \in [Procs -> Nat] /\ dropped' \subseteq Procs
      BY <1>1 DEF ReadRange, TypeInv, inode
    <2> QED
      BY <2>1, <2>2, <2>3, <2>4, <2>5, <1>3 DEF TypeInv
  <1> QED
    BY <1>3, <1>4, <1>5, <1>6

\* It keeps the invariant.
LEMMA ReadRangeKeeps == ASSUME Inv, NEW c \in Conns, ReadRange(c) PROVE Inv'
  <1> DEFINE p == Proc(c)
  <1>1. /\ p \in Procs /\ c \in Of(p) /\ Counted(p) /\ Within(p, c) /\ Quiet(p)
    BY ProcType DEF Inv, Local
  <1>2. /\ level[c] \in Levels /\ pc[c] \in Stages /\ inodeLock[p] \in Levels
        /\ nShared[p] \in Nat /\ nLock[p] = nShared[p]
        /\ inodeLock[p] = NO_LOCK <=> nShared[p] = 0
        /\ level[c] >= SHARED_LOCK => nShared[p] # 0
    BY <1>1, CallerCounts
  <1>3. /\ dropped' = dropped /\ Byte(p, "shared") = "none" /\ Byte(p, "reserved") = "none"
        /\ pc[c] = "read range" /\ pc[c] \in Locking /\ pc'[c] \in {"drop pending", "give up"}
        /\ level'[c] = level[c]
        /\ inodeLock'[p] = inodeLock[p]
        /\ nShared'[p] = nShared[p] /\ nLock'[p] = nLock[p] /\ nShared[p] = 0
        /\ \A q \in Procs : q # p => \A a \in Bytes : Byte(q, a)' = Byte(q, a)
        /\ \A a \in Bytes : a # "shared" => Byte(p, a)' = Byte(p, a)
        /\ pc'[c] = "give up" => Byte(p, "shared")' = Byte(p, "shared")
        /\ Frame(c) /\ TypeInv'
    BY ReadRangeStep
  <1>4. Counted(p)'
    BY <1>1, <1>2, <1>3, CountStep DEF Levels, NO_LOCK, SHARED_LOCK, RESERVED_LOCK, PENDING_LOCK, EXCLUSIVE_LOCK
  <1>5. Within(p, c)'
    BY <1>1, <1>2, <1>3 DEF Within, Reading, Bytes, NO_LOCK, SHARED_LOCK
  <1>6. nShared'[p] = 0 /\ pc'[c] \notin Locking => \A b \in Bytes : Byte(p, b)' = "none"
    BY <1>3 DEF Locking
  <1> QED
    BY <1>3, <1>4, <1>5, <1>6, StepKeeps

\* A reader has its lock, or has given up.
LEMMA DropPendingStep ==
    ASSUME Inv, NEW c \in Conns, DropPending(c)
    PROVE  LET p == Proc(c) IN
           /\ dropped' = dropped /\ pc[c] \in Locking
           /\ pc'[c] = "idle"
           /\ \/ /\ level'[c] = level[c] /\ inodeLock'[p] = inodeLock[p]
                 /\ nShared'[p] = nShared[p] /\ nLock'[p] = nLock[p]
                 /\ Byte(p, "shared") = "none"
              \/ /\ level'[c] = SHARED_LOCK /\ inodeLock'[p] = SHARED_LOCK
                 /\ nShared'[p] = 1 /\ nLock'[p] = nLock[p] + 1
           /\ nShared[p] = 0 /\ level[c] = NO_LOCK
           /\ Byte(p, "reserved") = "none"
           /\ \A q \in Procs : q # p => \A a \in Bytes : Byte(q, a)' = Byte(q, a)
           /\ Byte(p, "pending")' = "none"
           /\ \A a \in Bytes : a # "pending" => Byte(p, a)' = Byte(p, a)
           /\ Frame(c) /\ TypeInv'
  <1> DEFINE p == Proc(c)
  <1>1. /\ p \in Procs /\ c \in Of(p) /\ TypeInv
        /\ Counted(p) /\ Within(p, c) /\ Quiet(p)
    BY ProcType DEF Inv, Local
  <1>2. /\ level[c] \in Levels /\ pc[c] \in Stages /\ inodeLock[p] \in Levels
        /\ nShared[p] \in Nat /\ nLock[p] = nShared[p]
        /\ inodeLock[p] = NO_LOCK <=> nShared[p] = 0
        /\ level[c] >= SHARED_LOCK => nShared[p] # 0
    BY <1>1, CallerCounts
  <1>3. /\ kernel' \in [Procs -> [Bytes -> Modes]]
        /\ \A q \in Procs : q # p => \A a \in Bytes : Byte(q, a)' = Byte(q, a)
        /\ Byte(p, "pending")' = "none"
        /\ \A a \in Bytes : a # "pending" => Byte(p, a)' = Byte(p, a)
    BY <1>1, Granting DEF DropPending, Bytes, Modes
  <1>a. /\ Goto(c, "idle") /\ UNCHANGED <<unused, dropped>>
        /\ \/ /\ pc[c] = "drop pending" /\ SetLevels(c, SHARED_LOCK)
              /\ nShared' = [nShared EXCEPT ![p] = 1]
              /\ nLock' = [nLock EXCEPT ![p] = @ + 1]
           \/ pc[c] = "give up" /\ UNCHANGED <<level, inodeLock, nShared, nLock>>
    BY DEF DropPending, At
  <1>b. /\ pc[c] \in Locking /\ pc[c] \in Reading
        /\ nShared[p] = 0 /\ Byte(p, "reserved") = "none"
        /\ pc[c] = "give up" => Byte(p, "shared") = "none"
        /\ level[c] = NO_LOCK
    <2>1. pc[c] \in Locking /\ pc[c] \in Reading
      BY <1>a DEF Locking, Reading
    <2>2. /\ nShared[p] = 0 /\ Byte(p, "reserved") = "none"
          /\ pc[c] = "give up" => Byte(p, "shared") = "none"
      BY <2>1, <1>1 DEF Within
    <2>3. level[c] = NO_LOCK
      BY <2>2, <1>2, Kinds
    <2> QED
      BY <2>1, <2>2, <2>3
  <1>c. /\ level' \in [Conns -> Levels] /\ pc' \in [Conns -> Stages]
        /\ inodeLock' \in [Procs -> Levels]
        /\ \A d \in Conns : d # c => level'[d] = level[d] /\ pc'[d] = pc[d]
        /\ \A q \in Procs : q # p => inodeLock'[q] = inodeLock[q]
        /\ pc'[c] = "idle"
        /\ \/ pc[c] = "drop pending" /\ level'[c] = SHARED_LOCK /\ inodeLock'[p] = SHARED_LOCK
           \/ pc[c] = "give up" /\ level'[c] = level[c] /\ inodeLock'[p] = inodeLock[p]
    <2>3. /\ pc' \in [Conns -> Stages] /\ pc'[c] = "idle"
          /\ \A d \in Conns : d # c => pc'[d] = pc[d]
      <3>1. Goto(c, "idle")
        BY <1>a
      <3> QED
        BY <3>1, <1>1, Going, Kinds
    <2>1. CASE pc[c] = "drop pending" /\ SetLevels(c, SHARED_LOCK)
      BY <2>1, <2>3, <1>1, Setting, Kinds
    <2>2. CASE pc[c] = "give up" /\ UNCHANGED <<level, inodeLock>>
      BY <2>2, <2>3, <1>1 DEF TypeInv
    <2> QED
      BY <2>1, <2>2, <1>a
  <1>d. /\ nShared' \in [Procs -> Nat] /\ nLock' \in [Procs -> Nat]
        /\ \A q \in Procs : q # p => nShared'[q] = nShared[q] /\ nLock'[q] = nLock[q]
        /\ \/ pc[c] = "drop pending" /\ nShared'[p] = 1 /\ nLock'[p] = nLock[p] + 1
           \/ pc[c] = "give up" /\ nShared'[p] = nShared[p] /\ nLock'[p] = nLock[p]
    <2>1. CASE /\ pc[c] = "drop pending" /\ nShared' = [nShared EXCEPT ![p] = 1]
               /\ nLock' = [nLock EXCEPT ![p] = @ + 1]
      <3>1. nLock[p] + 1 \in Nat /\ 1 \in Nat
        BY <1>2
      <3>2. /\ nShared' \in [Procs -> Nat] /\ nShared'[p] = 1
            /\ \A q \in Procs : q # p => nShared'[q] = nShared[q]
        BY <2>1, <3>1, <1>1, Replaced DEF TypeInv
      <3>3. /\ nLock' \in [Procs -> Nat] /\ nLock'[p] = nLock[p] + 1
            /\ \A q \in Procs : q # p => nLock'[q] = nLock[q]
        BY <2>1, <3>1, <1>1, Replaced DEF TypeInv
      <3> QED
        BY <2>1, <3>2, <3>3
    <2>2. CASE pc[c] = "give up" /\ nShared' = nShared /\ nLock' = nLock
      BY <2>2, <1>1 DEF TypeInv
    <2> QED
      BY <2>1, <2>2, <1>a
  <1>4. /\ dropped' = dropped /\ pc[c] \in Locking
        /\ pc'[c] = "idle"
        /\ \/ /\ level'[c] = level[c] /\ inodeLock'[p] = inodeLock[p]
              /\ nShared'[p] = nShared[p] /\ nLock'[p] = nLock[p]
              /\ Byte(p, "shared") = "none"
           \/ /\ level'[c] = SHARED_LOCK /\ inodeLock'[p] = SHARED_LOCK
              /\ nShared'[p] = 1 /\ nLock'[p] = nLock[p] + 1
        /\ nShared[p] = 0 /\ level[c] = NO_LOCK
        /\ Byte(p, "reserved") = "none"
    BY <1>b, <1>c, <1>d, <1>a
  <1>5. Frame(c)
    BY <1>1, <1>3, <1>a, <1>c DEF Frame, TypeInv
  <1>6. TypeInv'
    <2>4. nShared' \in [Procs -> Nat] /\ nLock' \in [Procs -> Nat]
      BY <1>d
    <2>5. unused' \in [Procs -> Nat] /\ dropped' \subseteq Procs
      BY <1>1, <1>a DEF TypeInv, inode
    <2> QED
      BY <1>c, <2>4, <2>5, <1>3 DEF TypeInv
  <1> QED
    BY <1>3, <1>4, <1>5, <1>6

\* It keeps the invariant.
LEMMA DropPendingKeeps == ASSUME Inv, NEW c \in Conns, DropPending(c) PROVE Inv'
  <1> DEFINE p == Proc(c)
  <1>1. /\ p \in Procs /\ c \in Of(p) /\ Counted(p) /\ Within(p, c) /\ Quiet(p)
    BY ProcType DEF Inv, Local
  <1>2. /\ level[c] \in Levels /\ pc[c] \in Stages /\ inodeLock[p] \in Levels
        /\ nShared[p] \in Nat /\ nLock[p] = nShared[p]
        /\ inodeLock[p] = NO_LOCK <=> nShared[p] = 0
        /\ level[c] >= SHARED_LOCK => nShared[p] # 0
    BY <1>1, CallerCounts
  <1>3. /\ dropped' = dropped /\ pc[c] \in Locking
        /\ pc'[c] = "idle"
        /\ \/ /\ level'[c] = level[c] /\ inodeLock'[p] = inodeLock[p]
              /\ nShared'[p] = nShared[p] /\ nLock'[p] = nLock[p]
              /\ Byte(p, "shared") = "none"
           \/ /\ level'[c] = SHARED_LOCK /\ inodeLock'[p] = SHARED_LOCK
              /\ nShared'[p] = 1 /\ nLock'[p] = nLock[p] + 1
        /\ nShared[p] = 0 /\ level[c] = NO_LOCK
        /\ Byte(p, "reserved") = "none"
        /\ \A q \in Procs : q # p => \A a \in Bytes : Byte(q, a)' = Byte(q, a)
        /\ Byte(p, "pending")' = "none"
        /\ \A a \in Bytes : a # "pending" => Byte(p, a)' = Byte(p, a)
        /\ Frame(c) /\ TypeInv'
    BY DropPendingStep
  <1>4. Counted(p)'
    BY <1>1, <1>2, <1>3, CountStep DEF Levels, NO_LOCK, SHARED_LOCK, RESERVED_LOCK, PENDING_LOCK, EXCLUSIVE_LOCK
  <1>5. Within(p, c)'
    BY <1>3 DEF Within, Reading
  <1>6. nShared'[p] = 0 /\ pc'[c] \notin Locking => \A b \in Bytes : Byte(p, b)' = "none"
    BY <1>3 DEF Bytes
  <1> QED
    BY <1>3, <1>4, <1>5, <1>6, StepKeeps

\* A reader prepares to write.
LEMMA ReserveStep ==
    ASSUME Inv, NEW c \in Conns, Reserve(c)
    PROVE  LET p == Proc(c) IN
           /\ dropped' = dropped /\ MayCall(c)
           /\ pc'[c] = pc[c] /\ pc[c] = "idle"
           /\ level[c] = SHARED_LOCK /\ level'[c] = RESERVED_LOCK
           /\ inodeLock[p] = SHARED_LOCK /\ inodeLock'[p] = RESERVED_LOCK
           /\ nShared'[p] = nShared[p] /\ nLock'[p] = nLock[p]
           /\ \A q \in Procs : q # p => \A a \in Bytes : Byte(q, a)' = Byte(q, a)
           /\ \A a \in Bytes : a # "reserved" => Byte(p, a)' = Byte(p, a)
           /\ Frame(c) /\ TypeInv'
  <1> DEFINE p == Proc(c)
  <1>1. /\ p \in Procs /\ c \in Of(p) /\ TypeInv
        /\ Counted(p) /\ Within(p, c) /\ Quiet(p)
    BY ProcType DEF Inv, Local
  <1>2. /\ level[c] \in Levels /\ pc[c] \in Stages /\ inodeLock[p] \in Levels
        /\ nShared[p] \in Nat /\ nLock[p] = nShared[p]
        /\ inodeLock[p] = NO_LOCK <=> nShared[p] = 0
        /\ level[c] >= SHARED_LOCK => nShared[p] # 0
    BY <1>1, CallerCounts
  <1>3. /\ kernel' \in [Procs -> [Bytes -> Modes]]
        /\ \A q \in Procs : q # p => \A a \in Bytes : Byte(q, a)' = Byte(q, a)
        /\ \A a \in Bytes : a # "reserved" => Byte(p, a)' = Byte(p, a)
    BY <1>1, Granting DEF Reserve, Bytes, Modes
  <1>4. /\ dropped' = dropped /\ MayCall(c)
        /\ pc'[c] = pc[c] /\ pc[c] = "idle"
        /\ level[c] = SHARED_LOCK /\ level'[c] = RESERVED_LOCK
        /\ inodeLock[p] = SHARED_LOCK /\ inodeLock'[p] = RESERVED_LOCK
        /\ nShared'[p] = nShared[p] /\ nLock'[p] = nLock[p]
    BY <1>1, <1>2 DEF Reserve, Starts, At, Goto, SetLevels, TypeInv
  <1>5. Frame(c)
    BY <1>1, <1>3 DEF Reserve, Frame, TypeInv, Goto, SetLevels, inode
  <1>6. TypeInv'
    <2>1. level' \in [Conns -> Levels]
      BY <1>1 DEF Reserve, TypeInv, SetLevels, Levels, NO_LOCK, SHARED_LOCK, RESERVED_LOCK, PENDING_LOCK, EXCLUSIVE_LOCK
    <2>2. pc' \in [Conns -> Stages]
      BY <1>1 DEF Reserve, TypeInv, Goto, Stages, Locking
    <2>3. inodeLock' \in [Procs -> Levels]
      BY <1>1 DEF Reserve, TypeInv, SetLevels, inode, Levels, NO_LOCK, SHARED_LOCK, RESERVED_LOCK, PENDING_LOCK, EXCLUSIVE_LOCK
    <2>4. nShared' \in [Procs -> Nat] /\ nLock' \in [Procs -> Nat]
      BY <1>1, <1>2, <1>4 DEF Reserve, TypeInv, inode
    <2>5. unused' \in [Procs -> Nat] /\ dropped' \subseteq Procs
      BY <1>1 DEF Reserve, TypeInv, inode
    <2> QED
      BY <2>1, <2>2, <2>3, <2>4, <2>5, <1>3 DEF TypeInv
  <1> QED
    BY <1>3, <1>4, <1>5, <1>6

\* It keeps the invariant.
LEMMA ReserveKeeps == ASSUME Inv, NEW c \in Conns, Reserve(c) PROVE Inv'
  <1> DEFINE p == Proc(c)
  <1>1. /\ p \in Procs /\ c \in Of(p) /\ Counted(p) /\ Within(p, c) /\ Quiet(p)
    BY ProcType DEF Inv, Local
  <1>2. /\ level[c] \in Levels /\ pc[c] \in Stages /\ inodeLock[p] \in Levels
        /\ nShared[p] \in Nat /\ nLock[p] = nShared[p]
        /\ inodeLock[p] = NO_LOCK <=> nShared[p] = 0
        /\ level[c] >= SHARED_LOCK => nShared[p] # 0
    BY <1>1, CallerCounts
  <1>3. /\ dropped' = dropped /\ MayCall(c)
        /\ pc'[c] = pc[c] /\ pc[c] = "idle"
        /\ level[c] = SHARED_LOCK /\ level'[c] = RESERVED_LOCK
        /\ inodeLock[p] = SHARED_LOCK /\ inodeLock'[p] = RESERVED_LOCK
        /\ nShared'[p] = nShared[p] /\ nLock'[p] = nLock[p]
        /\ \A q \in Procs : q # p => \A a \in Bytes : Byte(q, a)' = Byte(q, a)
        /\ \A a \in Bytes : a # "reserved" => Byte(p, a)' = Byte(p, a)
        /\ Frame(c) /\ TypeInv'
    BY ReserveStep
  <1>4. Counted(p)'
    BY <1>1, <1>2, <1>3, CountStep DEF Levels, NO_LOCK, SHARED_LOCK, RESERVED_LOCK, PENDING_LOCK, EXCLUSIVE_LOCK
  <1>5. Within(p, c)'
    BY <1>3 DEF Within, Reading
  <1>6. nShared'[p] = 0 /\ pc'[c] \notin Locking => \A b \in Bytes : Byte(p, b)' = "none"
    BY <1>2, <1>3 DEF NO_LOCK, SHARED_LOCK
  <1> QED
    BY <1>3, <1>4, <1>5, <1>6, StepKeeps

\* A writer keeps new readers out.
LEMMA WritePendingStep ==
    ASSUME Inv, NEW c \in Conns, WritePending(c)
    PROVE  LET p == Proc(c) IN
           /\ dropped' = dropped /\ MayCall(c)
           /\ pc'[c] \in {"idle", "write range"}
           /\ level[c] >= SHARED_LOCK /\ level'[c] >= SHARED_LOCK
           /\ inodeLock[p] # NO_LOCK /\ inodeLock'[p] # NO_LOCK
           /\ nShared'[p] = nShared[p] /\ nLock'[p] = nLock[p]
           /\ \A q \in Procs : q # p => \A a \in Bytes : Byte(q, a)' = Byte(q, a)
           /\ \A a \in Bytes : a # "pending" => Byte(p, a)' = Byte(p, a)
           /\ Frame(c) /\ TypeInv'
  <1> DEFINE p == Proc(c)
  <1>1. /\ p \in Procs /\ c \in Of(p) /\ TypeInv
        /\ Counted(p) /\ Within(p, c) /\ Quiet(p)
    BY ProcType DEF Inv, Local
  <1>2. /\ level[c] \in Levels /\ pc[c] \in Stages /\ inodeLock[p] \in Levels
        /\ nShared[p] \in Nat /\ nLock[p] = nShared[p]
        /\ inodeLock[p] = NO_LOCK <=> nShared[p] = 0
        /\ level[c] >= SHARED_LOCK => nShared[p] # 0
    BY <1>1, CallerCounts
  <1>3. /\ kernel' \in [Procs -> [Bytes -> Modes]]
        /\ \A q \in Procs : q # p => \A a \in Bytes : Byte(q, a)' = Byte(q, a)
        /\ \A a \in Bytes : a # "pending" => Byte(p, a)' = Byte(p, a)
    BY <1>1, Granting DEF WritePending, Bytes, Modes
  <1>a. /\ UNCHANGED <<nShared, nLock, unused, dropped>>
        /\ \/ SetLevels(c, PENDING_LOCK) /\ UNCHANGED pc
           \/ Goto(c, "write range") /\ UNCHANGED <<level, inodeLock>>
    BY DEF WritePending
  <1>b. /\ MayCall(c) /\ pc[c] = "idle"
        /\ level[c] >= SHARED_LOCK /\ inodeLock[p] # NO_LOCK
    <2>1. MayCall(c) /\ pc[c] = "idle"
      BY DEF WritePending, Starts, At
    <2>2. level[c] \in {SHARED_LOCK, RESERVED_LOCK} /\ inodeLock[p] = level[c]
      BY DEF WritePending
    <2> QED
      BY <2>1, <2>2 DEF NO_LOCK, SHARED_LOCK, RESERVED_LOCK
  <1>c. /\ level' \in [Conns -> Levels] /\ pc' \in [Conns -> Stages]
        /\ inodeLock' \in [Procs -> Levels]
        /\ \A d \in Conns : d # c => level'[d] = level[d] /\ pc'[d] = pc[d]
        /\ \A q \in Procs : q # p => inodeLock'[q] = inodeLock[q]
        /\ pc'[c] \in {"idle", "write range"}
        /\ \/ level'[c] = PENDING_LOCK /\ inodeLock'[p] = PENDING_LOCK
           \/ level'[c] = level[c] /\ inodeLock'[p] = inodeLock[p]
    <2>1. CASE SetLevels(c, PENDING_LOCK) /\ UNCHANGED pc
      BY <2>1, <1>1, <1>b, Setting, Kinds DEF TypeInv
    <2>2. CASE Goto(c, "write range") /\ UNCHANGED <<level, inodeLock>>
      BY <2>2, <1>1, Going, Kinds DEF TypeInv
    <2> QED
      BY <2>1, <2>2, <1>a
  <1>4. /\ dropped' = dropped /\ MayCall(c)
        /\ pc'[c] \in {"idle", "write range"}
        /\ level[c] >= SHARED_LOCK /\ level'[c] >= SHARED_LOCK
        /\ inodeLock[p] # NO_LOCK /\ inodeLock'[p] # NO_LOCK
        /\ nShared'[p] = nShared[p] /\ nLock'[p] = nLock[p]
    BY <1>2, <1>b, <1>c, Kinds, <1>a
  <1>5. Frame(c)
    BY <1>1, <1>3, <1>a, <1>c DEF Frame, TypeInv
  <1>6. TypeInv'
    <2>4. nShared' \in [Procs -> Nat] /\ nLock' \in [Procs -> Nat]
      BY <1>1, <1>2, <1>4, <1>a DEF TypeInv, inode
    <2>5. unused' \in [Procs -> Nat] /\ dropped' \subseteq Procs
      BY <1>1, <1>a DEF TypeInv, inode
    <2> QED
      BY <1>c, <2>4, <2>5, <1>3 DEF TypeInv
  <1> QED
    BY <1>3, <1>4, <1>5, <1>6

\* It keeps the invariant.
LEMMA WritePendingKeeps == ASSUME Inv, NEW c \in Conns, WritePending(c) PROVE Inv'
  <1> DEFINE p == Proc(c)
  <1>1. /\ p \in Procs /\ c \in Of(p) /\ Counted(p) /\ Within(p, c) /\ Quiet(p)
    BY ProcType DEF Inv, Local
  <1>2. /\ level[c] \in Levels /\ pc[c] \in Stages /\ inodeLock[p] \in Levels
        /\ nShared[p] \in Nat /\ nLock[p] = nShared[p]
        /\ inodeLock[p] = NO_LOCK <=> nShared[p] = 0
        /\ level[c] >= SHARED_LOCK => nShared[p] # 0
    BY <1>1, CallerCounts
  <1>3. /\ dropped' = dropped /\ MayCall(c)
        /\ pc'[c] \in {"idle", "write range"}
        /\ level[c] >= SHARED_LOCK /\ level'[c] >= SHARED_LOCK
        /\ inodeLock[p] # NO_LOCK /\ inodeLock'[p] # NO_LOCK
        /\ nShared'[p] = nShared[p] /\ nLock'[p] = nLock[p]
        /\ \A q \in Procs : q # p => \A a \in Bytes : Byte(q, a)' = Byte(q, a)
        /\ \A a \in Bytes : a # "pending" => Byte(p, a)' = Byte(p, a)
        /\ Frame(c) /\ TypeInv'
    BY WritePendingStep
  <1>4. Counted(p)'
    BY <1>1, <1>2, <1>3, CountStep DEF Levels, NO_LOCK, SHARED_LOCK, RESERVED_LOCK, PENDING_LOCK, EXCLUSIVE_LOCK
  <1>5. Within(p, c)'
    BY <1>3 DEF Within, Reading
  <1>6. nShared'[p] = 0 /\ pc'[c] \notin Locking => \A b \in Bytes : Byte(p, b)' = "none"
    BY <1>2, <1>3
  <1> QED
    BY <1>3, <1>4, <1>5, <1>6, StepKeeps

\* A writer asks for the shared range.
LEMMA WriteRangeStep ==
    ASSUME Inv, NEW c \in Conns, WriteRange(c)
    PROVE  LET p == Proc(c) IN
           /\ dropped' = dropped /\ nShared[p] # 0
           /\ pc'[c] = "idle" /\ (MayCall(c) \/ pc[c] \in Locking)
           /\ level[c] >= SHARED_LOCK /\ level'[c] >= SHARED_LOCK
           /\ inodeLock[p] # NO_LOCK /\ inodeLock'[p] # NO_LOCK
           /\ nShared'[p] = nShared[p] /\ nLock'[p] = nLock[p]
           /\ \A q \in Procs : q # p => \A a \in Bytes : Byte(q, a)' = Byte(q, a)
           /\ \A a \in Bytes : a # "shared" => Byte(p, a)' = Byte(p, a)
           /\ Frame(c) /\ TypeInv'
  <1> DEFINE p == Proc(c)
  <1>1. /\ p \in Procs /\ c \in Of(p) /\ TypeInv
        /\ Counted(p) /\ Within(p, c) /\ Quiet(p)
    BY ProcType DEF Inv, Local
  <1>2. /\ level[c] \in Levels /\ pc[c] \in Stages /\ inodeLock[p] \in Levels
        /\ nShared[p] \in Nat /\ nLock[p] = nShared[p]
        /\ inodeLock[p] = NO_LOCK <=> nShared[p] = 0
        /\ level[c] >= SHARED_LOCK => nShared[p] # 0
    BY <1>1, CallerCounts
  <1>3. /\ kernel' \in [Procs -> [Bytes -> Modes]]
        /\ \A q \in Procs : q # p => \A a \in Bytes : Byte(q, a)' = Byte(q, a)
        /\ \A a \in Bytes : a # "shared" => Byte(p, a)' = Byte(p, a)
    <2>1. CASE Grant(p, "shared", "write")
      BY <2>1, <1>1, Granting DEF Bytes, Modes
    <2>2. CASE kernel' = kernel
      BY <2>2, <1>1 DEF TypeInv, Byte
    <2> QED
      BY <2>1, <2>2 DEF WriteRange
  <1>a. /\ Goto(c, "idle") /\ UNCHANGED <<nShared, nLock, unused, dropped>>
        /\ SetLevels(c, EXCLUSIVE_LOCK) \/ SetLevels(c, PENDING_LOCK)
    BY DEF WriteRange
  <1>b. /\ MayCall(c) \/ pc[c] \in Locking
        /\ level[c] >= SHARED_LOCK
    <2>1. CASE At(c, "write range")
      BY <2>1, <1>1, Inside
    <2>2. CASE Starts(c) /\ level[c] = PENDING_LOCK
      BY <2>2 DEF Starts, SHARED_LOCK, PENDING_LOCK
    <2> QED
      BY <2>1, <2>2 DEF WriteRange
  <1>c. /\ level' \in [Conns -> Levels] /\ pc' \in [Conns -> Stages]
        /\ inodeLock' \in [Procs -> Levels]
        /\ \A d \in Conns : d # c => level'[d] = level[d] /\ pc'[d] = pc[d]
        /\ \A q \in Procs : q # p => inodeLock'[q] = inodeLock[q]
        /\ pc'[c] = "idle"
        /\ level'[c] \in {PENDING_LOCK, EXCLUSIVE_LOCK} /\ inodeLock'[p] = level'[c]
    BY ZenonT(60), <1>1, <1>a, Setting, Going, Kinds
  <1>4. /\ dropped' = dropped /\ nShared[p] # 0
        /\ pc'[c] = "idle" /\ (MayCall(c) \/ pc[c] \in Locking)
        /\ level[c] >= SHARED_LOCK /\ level'[c] >= SHARED_LOCK
        /\ inodeLock[p] # NO_LOCK /\ inodeLock'[p] # NO_LOCK
        /\ nShared'[p] = nShared[p] /\ nLock'[p] = nLock[p]
    BY <1>1, <1>2, <1>b, <1>c, <1>a DEF NO_LOCK, SHARED_LOCK, PENDING_LOCK, EXCLUSIVE_LOCK
  <1>5. Frame(c)
    BY <1>1, <1>3, <1>a, <1>c DEF Frame, TypeInv
  <1>6. TypeInv'
    <2>4. nShared' \in [Procs -> Nat] /\ nLock' \in [Procs -> Nat]
      BY <1>1, <1>2, <1>4, <1>a DEF TypeInv, inode
    <2>5. unused' \in [Procs -> Nat] /\ dropped' \subseteq Procs
      BY <1>1, <1>a DEF TypeInv, inode
    <2> QED
      BY <1>c, <2>4, <2>5, <1>3 DEF TypeInv
  <1> QED
    BY <1>3, <1>4, <1>5, <1>6

\* It keeps the invariant.
LEMMA WriteRangeKeeps == ASSUME Inv, NEW c \in Conns, WriteRange(c) PROVE Inv'
  <1> DEFINE p == Proc(c)
  <1>1. /\ p \in Procs /\ c \in Of(p) /\ Counted(p) /\ Within(p, c) /\ Quiet(p)
    BY ProcType DEF Inv, Local
  <1>2. /\ level[c] \in Levels /\ pc[c] \in Stages /\ inodeLock[p] \in Levels
        /\ nShared[p] \in Nat /\ nLock[p] = nShared[p]
        /\ inodeLock[p] = NO_LOCK <=> nShared[p] = 0
        /\ level[c] >= SHARED_LOCK => nShared[p] # 0
    BY <1>1, CallerCounts
  <1>3. /\ dropped' = dropped /\ nShared[p] # 0
        /\ pc'[c] = "idle" /\ (MayCall(c) \/ pc[c] \in Locking)
        /\ level[c] >= SHARED_LOCK /\ level'[c] >= SHARED_LOCK
        /\ inodeLock[p] # NO_LOCK /\ inodeLock'[p] # NO_LOCK
        /\ nShared'[p] = nShared[p] /\ nLock'[p] = nLock[p]
        /\ \A q \in Procs : q # p => \A a \in Bytes : Byte(q, a)' = Byte(q, a)
        /\ \A a \in Bytes : a # "shared" => Byte(p, a)' = Byte(p, a)
        /\ Frame(c) /\ TypeInv'
    BY WriteRangeStep
  <1>4. Counted(p)'
    BY <1>1, <1>2, <1>3, CountStep DEF Levels, NO_LOCK, SHARED_LOCK, RESERVED_LOCK, PENDING_LOCK, EXCLUSIVE_LOCK
  <1>5. Within(p, c)'
    BY <1>3 DEF Within, Reading
  <1>6. nShared'[p] = 0 /\ pc'[c] \notin Locking => \A b \in Bytes : Byte(p, b)' = "none"
    BY <1>3
  <1> QED
    BY <1>3, <1>4, <1>5, <1>6, StepKeeps

\* A writer asks for a read lock on the shared range again.
LEMMA DowngradeStep ==
    ASSUME Inv, NEW c \in Conns, Downgrade(c)
    PROVE  LET p == Proc(c) IN
           /\ dropped' = dropped /\ MayCall(c)
           /\ pc'[c] = "downgrade"
           /\ level[c] >= SHARED_LOCK /\ level'[c] = level[c]
           /\ inodeLock'[p] = inodeLock[p]
           /\ nShared'[p] = nShared[p] /\ nLock'[p] = nLock[p]
           /\ \A q \in Procs : q # p => \A a \in Bytes : Byte(q, a)' = Byte(q, a)
           /\ \A a \in Bytes : a # "shared" => Byte(p, a)' = Byte(p, a)
           /\ Frame(c) /\ TypeInv'
  <1> DEFINE p == Proc(c)
  <1>1. /\ p \in Procs /\ c \in Of(p) /\ TypeInv
        /\ Counted(p) /\ Within(p, c) /\ Quiet(p)
    BY ProcType DEF Inv, Local
  <1>2. /\ level[c] \in Levels /\ pc[c] \in Stages /\ inodeLock[p] \in Levels
        /\ nShared[p] \in Nat /\ nLock[p] = nShared[p]
        /\ inodeLock[p] = NO_LOCK <=> nShared[p] = 0
        /\ level[c] >= SHARED_LOCK => nShared[p] # 0
    BY <1>1, CallerCounts
  <1>3. /\ kernel' \in [Procs -> [Bytes -> Modes]]
        /\ \A q \in Procs : q # p => \A a \in Bytes : Byte(q, a)' = Byte(q, a)
        /\ \A a \in Bytes : a # "shared" => Byte(p, a)' = Byte(p, a)
    BY <1>1, Granting DEF Downgrade, Bytes, Modes
  <1>4. /\ dropped' = dropped /\ MayCall(c)
        /\ pc'[c] = "downgrade"
        /\ level[c] >= SHARED_LOCK /\ level'[c] = level[c]
        /\ inodeLock'[p] = inodeLock[p]
        /\ nShared'[p] = nShared[p] /\ nLock'[p] = nLock[p]
    BY <1>1, <1>2 DEF Downgrade, Starts, At, Goto, inode, Levels, NO_LOCK, SHARED_LOCK, RESERVED_LOCK, PENDING_LOCK, EXCLUSIVE_LOCK, TypeInv
  <1>5. Frame(c)
    BY <1>1, <1>3 DEF Downgrade, Frame, TypeInv, Goto, SetLevels, inode
  <1>6. TypeInv'
    <2>1. level' \in [Conns -> Levels]
      BY <1>1 DEF Downgrade, TypeInv, SetLevels, Levels, NO_LOCK, SHARED_LOCK, RESERVED_LOCK, PENDING_LOCK, EXCLUSIVE_LOCK
    <2>2. pc' \in [Conns -> Stages]
      BY <1>1 DEF Downgrade, TypeInv, Goto, Stages, Locking
    <2>3. inodeLock' \in [Procs -> Levels]
      BY <1>1 DEF Downgrade, TypeInv, SetLevels, inode, Levels, NO_LOCK, SHARED_LOCK, RESERVED_LOCK, PENDING_LOCK, EXCLUSIVE_LOCK
    <2>4. nShared' \in [Procs -> Nat] /\ nLock' \in [Procs -> Nat]
      BY <1>1, <1>2, <1>4 DEF Downgrade, TypeInv, inode
    <2>5. unused' \in [Procs -> Nat] /\ dropped' \subseteq Procs
      BY <1>1 DEF Downgrade, TypeInv, inode
    <2> QED
      BY <2>1, <2>2, <2>3, <2>4, <2>5, <1>3 DEF TypeInv
  <1> QED
    BY <1>3, <1>4, <1>5, <1>6

\* It keeps the invariant.
LEMMA DowngradeKeeps == ASSUME Inv, NEW c \in Conns, Downgrade(c) PROVE Inv'
  <1> DEFINE p == Proc(c)
  <1>1. /\ p \in Procs /\ c \in Of(p) /\ Counted(p) /\ Within(p, c) /\ Quiet(p)
    BY ProcType DEF Inv, Local
  <1>2. /\ level[c] \in Levels /\ pc[c] \in Stages /\ inodeLock[p] \in Levels
        /\ nShared[p] \in Nat /\ nLock[p] = nShared[p]
        /\ inodeLock[p] = NO_LOCK <=> nShared[p] = 0
        /\ level[c] >= SHARED_LOCK => nShared[p] # 0
    BY <1>1, CallerCounts
  <1>3. /\ dropped' = dropped /\ MayCall(c)
        /\ pc'[c] = "downgrade"
        /\ level[c] >= SHARED_LOCK /\ level'[c] = level[c]
        /\ inodeLock'[p] = inodeLock[p]
        /\ nShared'[p] = nShared[p] /\ nLock'[p] = nLock[p]
        /\ \A q \in Procs : q # p => \A a \in Bytes : Byte(q, a)' = Byte(q, a)
        /\ \A a \in Bytes : a # "shared" => Byte(p, a)' = Byte(p, a)
        /\ Frame(c) /\ TypeInv'
    BY DowngradeStep
  <1>4. Counted(p)'
    BY <1>1, <1>2, <1>3, CountStep DEF Levels, NO_LOCK, SHARED_LOCK, RESERVED_LOCK, PENDING_LOCK, EXCLUSIVE_LOCK
  <1>5. Within(p, c)'
    BY <1>3 DEF Within, Reading
  <1>6. nShared'[p] = 0 /\ pc'[c] \notin Locking => \A b \in Bytes : Byte(p, b)' = "none"
    BY <1>3 DEF Locking
  <1> QED
    BY <1>3, <1>4, <1>5, <1>6, StepKeeps

\* A writer gives back the single bytes.
LEMMA DropBytesStep ==
    ASSUME Inv, NEW c \in Conns, DropBytes(c)
    PROVE  LET p == Proc(c) IN
           /\ dropped' = dropped /\ nShared[p] # 0
           /\ pc'[c] \in {"idle", "release"} /\ (MayCall(c) \/ pc[c] \in Locking)
           /\ level[c] >= SHARED_LOCK /\ level'[c] >= SHARED_LOCK
           /\ inodeLock'[p] = SHARED_LOCK
           /\ nShared'[p] = nShared[p] /\ nLock'[p] = nLock[p]
           /\ \A q \in Procs : q # p => \A a \in Bytes : Byte(q, a)' = Byte(q, a)
           /\ \A a \in Bytes : a = "shared" => Byte(p, a)' = Byte(p, a)
           /\ Frame(c) /\ TypeInv'
  <1> DEFINE p == Proc(c)
  <1>1. /\ p \in Procs /\ c \in Of(p) /\ TypeInv
        /\ Counted(p) /\ Within(p, c) /\ Quiet(p)
    BY ProcType DEF Inv, Local
  <1>2. /\ level[c] \in Levels /\ pc[c] \in Stages /\ inodeLock[p] \in Levels
        /\ nShared[p] \in Nat /\ nLock[p] = nShared[p]
        /\ inodeLock[p] = NO_LOCK <=> nShared[p] = 0
        /\ level[c] >= SHARED_LOCK => nShared[p] # 0
    BY <1>1, CallerCounts
  <1>3. /\ kernel' \in [Procs -> [Bytes -> Modes]]
        /\ \A q \in Procs : q # p => \A a \in Bytes : Byte(q, a)' = Byte(q, a)
        /\ \A a \in Bytes : a = "shared" => Byte(p, a)' = Byte(p, a)
    BY <1>1, SingleBytes DEF DropBytes
  <1>a. /\ inodeLock' = [inodeLock EXCEPT ![p] = SHARED_LOCK]
        /\ UNCHANGED <<nShared, nLock, unused, dropped>>
        /\ \/ Goto(c, "idle") /\ level' = [level EXCEPT ![c] = SHARED_LOCK]
           \/ Goto(c, "release") /\ UNCHANGED level
    BY DEF DropBytes
  <1>b. /\ MayCall(c) \/ pc[c] \in Locking
        /\ level[c] >= SHARED_LOCK
    <2>1. CASE At(c, "downgrade")
      BY <2>1, <1>1, Inside
    <2>2. CASE Starts(c) /\ level[c] > SHARED_LOCK
      BY <2>2, <1>2, Kinds DEF Starts
    <2> QED
      BY <2>1, <2>2 DEF DropBytes
  <1>c. /\ level' \in [Conns -> Levels] /\ pc' \in [Conns -> Stages]
        /\ inodeLock' \in [Procs -> Levels]
        /\ \A d \in Conns : d # c => level'[d] = level[d] /\ pc'[d] = pc[d]
        /\ \A q \in Procs : q # p => inodeLock'[q] = inodeLock[q]
        /\ pc'[c] \in {"idle", "release"} /\ inodeLock'[p] = SHARED_LOCK
        /\ level'[c] >= SHARED_LOCK
    <2>1. /\ inodeLock' \in [Procs -> Levels] /\ inodeLock'[p] = SHARED_LOCK
          /\ \A q \in Procs : q # p => inodeLock'[q] = inodeLock[q]
      BY <1>1, <1>a, Kinds, Replaced DEF TypeInv
    <2>2. CASE Goto(c, "idle") /\ level' = [level EXCEPT ![c] = SHARED_LOCK]
      <3>1. /\ level' \in [Conns -> Levels] /\ level'[c] = SHARED_LOCK
            /\ \A d \in Conns : d # c => level'[d] = level[d]
        BY <2>2, <1>1, Kinds, Replaced DEF TypeInv
      <3> QED
        BY <2>1, <2>2, <3>1, <1>1, Going, Kinds
    <2>3. CASE Goto(c, "release") /\ UNCHANGED level
      BY <2>1, <2>3, <1>1, <1>b, Going, Kinds DEF TypeInv
    <2> QED
      BY <2>2, <2>3, <1>a
  <1>4. /\ dropped' = dropped /\ nShared[p] # 0
        /\ pc'[c] \in {"idle", "release"} /\ (MayCall(c) \/ pc[c] \in Locking)
        /\ level[c] >= SHARED_LOCK /\ level'[c] >= SHARED_LOCK
        /\ inodeLock'[p] = SHARED_LOCK
        /\ nShared'[p] = nShared[p] /\ nLock'[p] = nLock[p]
    BY <1>1, <1>2, <1>b, <1>c, <1>a DEF NO_LOCK, SHARED_LOCK
  <1>5. Frame(c)
    BY <1>1, <1>3, <1>a, <1>c DEF Frame, TypeInv
  <1>6. TypeInv'
    <2>4. nShared' \in [Procs -> Nat] /\ nLock' \in [Procs -> Nat]
      BY <1>1, <1>2, <1>4, <1>a DEF TypeInv, inode
    <2>5. unused' \in [Procs -> Nat] /\ dropped' \subseteq Procs
      BY <1>1, <1>a DEF TypeInv, inode
    <2> QED
      BY <1>c, <2>4, <2>5, <1>3 DEF TypeInv
  <1> QED
    BY <1>3, <1>4, <1>5, <1>6

\* It keeps the invariant.
LEMMA DropBytesKeeps == ASSUME Inv, NEW c \in Conns, DropBytes(c) PROVE Inv'
  <1> DEFINE p == Proc(c)
  <1>1. /\ p \in Procs /\ c \in Of(p) /\ Counted(p) /\ Within(p, c) /\ Quiet(p)
    BY ProcType DEF Inv, Local
  <1>2. /\ level[c] \in Levels /\ pc[c] \in Stages /\ inodeLock[p] \in Levels
        /\ nShared[p] \in Nat /\ nLock[p] = nShared[p]
        /\ inodeLock[p] = NO_LOCK <=> nShared[p] = 0
        /\ level[c] >= SHARED_LOCK => nShared[p] # 0
    BY <1>1, CallerCounts
  <1>3. /\ dropped' = dropped /\ nShared[p] # 0
        /\ pc'[c] \in {"idle", "release"} /\ (MayCall(c) \/ pc[c] \in Locking)
        /\ level[c] >= SHARED_LOCK /\ level'[c] >= SHARED_LOCK
        /\ inodeLock'[p] = SHARED_LOCK
        /\ nShared'[p] = nShared[p] /\ nLock'[p] = nLock[p]
        /\ \A q \in Procs : q # p => \A a \in Bytes : Byte(q, a)' = Byte(q, a)
        /\ \A a \in Bytes : a = "shared" => Byte(p, a)' = Byte(p, a)
        /\ Frame(c) /\ TypeInv'
    BY DropBytesStep
  <1>4. Counted(p)'
    BY <1>1, <1>2, <1>3, CountStep DEF Levels, NO_LOCK, SHARED_LOCK, RESERVED_LOCK, PENDING_LOCK, EXCLUSIVE_LOCK
  <1>5. Within(p, c)'
    BY <1>3 DEF Within, Reading
  <1>6. nShared'[p] = 0 /\ pc'[c] \notin Locking => \A b \in Bytes : Byte(p, b)' = "none"
    BY <1>3
  <1> QED
    BY <1>3, <1>4, <1>5, <1>6, StepKeeps

\* A connection gives its lock back, the last one for the process.
LEMMA ReleaseStep ==
    ASSUME Inv, NEW c \in Conns, Release(c)
    PROVE  LET p == Proc(c) IN
           /\ dropped' = dropped /\ nShared[p] # 0
           /\ pc'[c] = "idle" /\ (MayCall(c) \/ pc[c] \in Locking)
           /\ level[c] >= SHARED_LOCK /\ level'[c] = NO_LOCK
           /\ nShared'[p] = nShared[p] - 1 /\ nLock'[p] = nLock[p] - 1
           /\ \/ nShared[p] > 1 /\ inodeLock'[p] = inodeLock[p]
              \/ nShared[p] = 1 /\ inodeLock'[p] = NO_LOCK
           /\ \A q \in Procs : q # p => \A a \in Bytes : Byte(q, a)' = Byte(q, a)
           /\ nShared[p] = 1 => \A a \in Bytes : Byte(p, a)' = "none"
           /\ Frame(c) /\ TypeInv'
  <1> DEFINE p == Proc(c)
  <1>1. /\ p \in Procs /\ c \in Of(p) /\ TypeInv
        /\ Counted(p) /\ Within(p, c) /\ Quiet(p)
    BY ProcType DEF Inv, Local
  <1>2. /\ level[c] \in Levels /\ pc[c] \in Stages /\ inodeLock[p] \in Levels
        /\ nShared[p] \in Nat /\ nLock[p] = nShared[p]
        /\ inodeLock[p] = NO_LOCK <=> nShared[p] = 0
        /\ level[c] >= SHARED_LOCK => nShared[p] # 0
    BY <1>1, CallerCounts
  <1>3. /\ kernel' \in [Procs -> [Bytes -> Modes]]
        /\ \A q \in Procs : q # p => \A a \in Bytes : Byte(q, a)' = Byte(q, a)
        /\ nShared[p] = 1 => \A a \in Bytes : Byte(p, a)' = "none"
    <2>1. CASE nShared[p] > 1 /\ kernel' = kernel
      BY <2>1, <1>1 DEF TypeInv, Byte
    <2>2. CASE kernel' = [kernel EXCEPT ![p] = NoGrant]
      BY <2>2, <1>1, Freeing
    <2> QED
      BY <2>1, <2>2 DEF Release
  <1>a. /\ Goto(c, "idle") /\ UNCHANGED dropped
        /\ level' = [level EXCEPT ![c] = NO_LOCK]
        /\ nShared' = [nShared EXCEPT ![p] = @ - 1]
        /\ nLock' = [nLock EXCEPT ![p] = @ - 1]
        /\ UNCHANGED unused \/ unused' = [unused EXCEPT ![p] = 0]
        /\ \/ nShared[p] > 1 /\ UNCHANGED inodeLock
           \/ nShared[p] = 1 /\ inodeLock' = [inodeLock EXCEPT ![p] = NO_LOCK]
    BY DEF Release
  <1>b. /\ MayCall(c) \/ pc[c] \in Locking
        /\ level[c] >= SHARED_LOCK
    <2>1. CASE At(c, "release")
      BY <2>1, <1>1, Inside
    <2>2. CASE Starts(c) /\ level[c] = SHARED_LOCK
      BY <2>2 DEF Starts, SHARED_LOCK
    <2> QED
      BY <2>1, <2>2 DEF Release
  <1>c. /\ level' \in [Conns -> Levels] /\ pc' \in [Conns -> Stages]
        /\ inodeLock' \in [Procs -> Levels]
        /\ \A d \in Conns : d # c => level'[d] = level[d] /\ pc'[d] = pc[d]
        /\ \A q \in Procs : q # p => inodeLock'[q] = inodeLock[q]
        /\ pc'[c] = "idle" /\ level'[c] = NO_LOCK
    <2>1. /\ level' \in [Conns -> Levels] /\ level'[c] = NO_LOCK
          /\ \A d \in Conns : d # c => level'[d] = level[d]
      BY <1>1, <1>a, Kinds, Replaced DEF TypeInv
    <2>2. /\ inodeLock' \in [Procs -> Levels]
          /\ \A q \in Procs : q # p => inodeLock'[q] = inodeLock[q]
      <3>1. CASE inodeLock' = inodeLock
        BY <3>1, <1>1 DEF TypeInv
      <3>2. CASE inodeLock' = [inodeLock EXCEPT ![p] = NO_LOCK]
        BY <3>2, <1>1, Kinds, Replaced DEF TypeInv
      <3> QED
        BY <3>1, <3>2, <1>a
    <2>3. Goto(c, "idle")
      BY <1>a
    <2> QED
      BY <2>1, <2>2, <2>3, <1>1, Going, Kinds
  <1>4. /\ dropped' = dropped /\ nShared[p] # 0
        /\ pc'[c] = "idle" /\ (MayCall(c) \/ pc[c] \in Locking)
        /\ level[c] >= SHARED_LOCK /\ level'[c] = NO_LOCK
        /\ nShared'[p] = nShared[p] - 1 /\ nLock'[p] = nLock[p] - 1
        /\ \/ nShared[p] > 1 /\ inodeLock'[p] = inodeLock[p]
           \/ nShared[p] = 1 /\ inodeLock'[p] = NO_LOCK
    BY <1>1, <1>2, <1>b, <1>c, <1>a DEF TypeInv
  <1>5. Frame(c)
    BY <1>1, <1>3, <1>a, <1>c DEF Frame, TypeInv
  <1>6. TypeInv'
    <2>4. nShared' \in [Procs -> Nat] /\ nLock' \in [Procs -> Nat]
      BY <1>1, <1>2, <1>4, <1>a DEF TypeInv, inode
    <2>5. unused' \in [Procs -> Nat] /\ dropped' \subseteq Procs
      BY <1>1, <1>a DEF TypeInv, inode
    <2> QED
      BY <1>c, <2>4, <2>5, <1>3 DEF TypeInv
  <1> QED
    BY <1>3, <1>4, <1>5, <1>6

\* It keeps the invariant.
LEMMA ReleaseKeeps == ASSUME Inv, NEW c \in Conns, Release(c) PROVE Inv'
  <1> DEFINE p == Proc(c)
  <1>1. /\ p \in Procs /\ c \in Of(p) /\ Counted(p) /\ Within(p, c) /\ Quiet(p)
    BY ProcType DEF Inv, Local
  <1>2. /\ level[c] \in Levels /\ pc[c] \in Stages /\ inodeLock[p] \in Levels
        /\ nShared[p] \in Nat /\ nLock[p] = nShared[p]
        /\ inodeLock[p] = NO_LOCK <=> nShared[p] = 0
        /\ level[c] >= SHARED_LOCK => nShared[p] # 0
    BY <1>1, CallerCounts
  <1>3. /\ dropped' = dropped /\ nShared[p] # 0
        /\ pc'[c] = "idle" /\ (MayCall(c) \/ pc[c] \in Locking)
        /\ level[c] >= SHARED_LOCK /\ level'[c] = NO_LOCK
        /\ nShared'[p] = nShared[p] - 1 /\ nLock'[p] = nLock[p] - 1
        /\ \/ nShared[p] > 1 /\ inodeLock'[p] = inodeLock[p]
           \/ nShared[p] = 1 /\ inodeLock'[p] = NO_LOCK
        /\ \A q \in Procs : q # p => \A a \in Bytes : Byte(q, a)' = Byte(q, a)
        /\ nShared[p] = 1 => \A a \in Bytes : Byte(p, a)' = "none"
        /\ Frame(c) /\ TypeInv'
    BY ReleaseStep
  <1>4. Counted(p)'
    BY <1>1, <1>2, <1>3, CountStep DEF Levels, NO_LOCK, SHARED_LOCK, RESERVED_LOCK, PENDING_LOCK, EXCLUSIVE_LOCK
  <1>5. Within(p, c)'
    BY <1>3 DEF Within, Reading
  <1>6. nShared'[p] = 0 /\ pc'[c] \notin Locking => \A b \in Bytes : Byte(p, b)' = "none"
    BY <1>2, <1>3
  <1> QED
    BY <1>3, <1>4, <1>5, <1>6, StepKeeps

\* A connection is opened.
LEMMA OpenStep ==
    ASSUME Inv, NEW c \in Conns, Open(c)
    PROVE  LET p == Proc(c) IN
           /\ dropped' = dropped /\ MayCall(c)
           /\ pc[c] \notin Locking /\ pc'[c] = "idle"
           /\ level'[c] = level[c]
           /\ inodeLock'[p] = inodeLock[p]
           /\ nShared'[p] = nShared[p] /\ nLock'[p] = nLock[p]
           /\ \A q \in Procs, a \in Bytes : Byte(q, a)' = Byte(q, a)
           /\ Frame(c) /\ TypeInv'
  <1> DEFINE p == Proc(c)
  <1>1. /\ p \in Procs /\ c \in Of(p) /\ TypeInv
        /\ Counted(p) /\ Within(p, c) /\ Quiet(p)
    BY ProcType DEF Inv, Local
  <1>2. /\ level[c] \in Levels /\ pc[c] \in Stages /\ inodeLock[p] \in Levels
        /\ nShared[p] \in Nat /\ nLock[p] = nShared[p]
        /\ inodeLock[p] = NO_LOCK <=> nShared[p] = 0
        /\ level[c] >= SHARED_LOCK => nShared[p] # 0
    BY <1>1, CallerCounts
  <1>3. /\ kernel' \in [Procs -> [Bytes -> Modes]]
        /\ \A q \in Procs, a \in Bytes : Byte(q, a)' = Byte(q, a)
    BY <1>1 DEF Open, TypeInv, Byte
  <1>4. /\ dropped' = dropped /\ MayCall(c)
        /\ pc[c] \notin Locking /\ pc'[c] = "idle"
        /\ level'[c] = level[c]
        /\ inodeLock'[p] = inodeLock[p]
        /\ nShared'[p] = nShared[p] /\ nLock'[p] = nLock[p]
    BY <1>1, <1>2 DEF Open, Starts, At, Goto, Locking, TypeInv
  <1>5. Frame(c)
    BY <1>1, <1>3 DEF Open, Frame, TypeInv, Goto, SetLevels, inode
  <1>6. TypeInv'
    <2>1. level' \in [Conns -> Levels]
      BY <1>1 DEF Open, TypeInv, SetLevels, Levels, NO_LOCK, SHARED_LOCK, RESERVED_LOCK, PENDING_LOCK, EXCLUSIVE_LOCK
    <2>2. pc' \in [Conns -> Stages]
      BY <1>1 DEF Open, TypeInv, Goto, Stages, Locking
    <2>3. inodeLock' \in [Procs -> Levels]
      BY <1>1 DEF Open, TypeInv, SetLevels, inode, Levels, NO_LOCK, SHARED_LOCK, RESERVED_LOCK, PENDING_LOCK, EXCLUSIVE_LOCK
    <2>4. nShared' \in [Procs -> Nat] /\ nLock' \in [Procs -> Nat]
      BY <1>1, <1>2, <1>4 DEF Open, TypeInv, inode
    <2>5. unused' \in [Procs -> Nat] /\ dropped' \subseteq Procs
      BY <1>1 DEF Open, TypeInv, inode
    <2> QED
      BY <2>1, <2>2, <2>3, <2>4, <2>5, <1>3 DEF TypeInv
  <1> QED
    BY <1>3, <1>4, <1>5, <1>6

\* It keeps the invariant.
LEMMA OpenKeeps == ASSUME Inv, NEW c \in Conns, Open(c) PROVE Inv'
  <1> DEFINE p == Proc(c)
  <1>1. /\ p \in Procs /\ c \in Of(p) /\ Counted(p) /\ Within(p, c) /\ Quiet(p)
    BY ProcType DEF Inv, Local
  <1>2. /\ level[c] \in Levels /\ pc[c] \in Stages /\ inodeLock[p] \in Levels
        /\ nShared[p] \in Nat /\ nLock[p] = nShared[p]
        /\ inodeLock[p] = NO_LOCK <=> nShared[p] = 0
        /\ level[c] >= SHARED_LOCK => nShared[p] # 0
    BY <1>1, CallerCounts
  <1>3. /\ dropped' = dropped /\ MayCall(c)
        /\ pc[c] \notin Locking /\ pc'[c] = "idle"
        /\ level'[c] = level[c]
        /\ inodeLock'[p] = inodeLock[p]
        /\ nShared'[p] = nShared[p] /\ nLock'[p] = nLock[p]
        /\ \A q \in Procs, a \in Bytes : Byte(q, a)' = Byte(q, a)
        /\ Frame(c) /\ TypeInv'
    BY OpenStep
  <1>4. Counted(p)'
    BY <1>1, <1>2, <1>3, CountStep DEF Levels, NO_LOCK, SHARED_LOCK, RESERVED_LOCK, PENDING_LOCK, EXCLUSIVE_LOCK
  <1>5. Within(p, c)'
    BY <1>3 DEF Within, Reading
  <1>6. nShared'[p] = 0 /\ pc'[c] \notin Locking => \A b \in Bytes : Byte(p, b)' = "none"
    BY <1>1, <1>3, QuietCall
  <1> QED
    BY <1>3, <1>4, <1>5, <1>6, StepKeeps

\* A connection looks whether its descriptor may be closed.
LEMMA CloseStep ==
    ASSUME Inv, NEW c \in Conns, Close(c)
    PROVE  LET p == Proc(c) IN
           /\ dropped' = dropped /\ MayCall(c)
           /\ pc'[c] \in {"closed", "close fd"} /\ pc[c] \notin Locking
           /\ level'[c] = level[c]
           /\ inodeLock'[p] = inodeLock[p]
           /\ nShared'[p] = nShared[p] /\ nLock'[p] = nLock[p]
           /\ pc'[c] = "close fd" => nShared'[p] = 0
           /\ \A q \in Procs, a \in Bytes : Byte(q, a)' = Byte(q, a)
           /\ Frame(c) /\ TypeInv'
  <1> DEFINE p == Proc(c)
  <1>1. /\ p \in Procs /\ c \in Of(p) /\ TypeInv
        /\ Counted(p) /\ Within(p, c) /\ Quiet(p)
    BY ProcType DEF Inv, Local
  <1>2. /\ level[c] \in Levels /\ pc[c] \in Stages /\ inodeLock[p] \in Levels
        /\ nShared[p] \in Nat /\ nLock[p] = nShared[p]
        /\ inodeLock[p] = NO_LOCK <=> nShared[p] = 0
        /\ level[c] >= SHARED_LOCK => nShared[p] # 0
    BY <1>1, CallerCounts
  <1>3. /\ kernel' \in [Procs -> [Bytes -> Modes]]
        /\ \A q \in Procs, a \in Bytes : Byte(q, a)' = Byte(q, a)
    BY <1>1 DEF Close, TypeInv, Byte
  <1>4. /\ dropped' = dropped /\ MayCall(c)
        /\ pc'[c] \in {"closed", "close fd"} /\ pc[c] \notin Locking
        /\ level'[c] = level[c]
        /\ inodeLock'[p] = inodeLock[p]
        /\ nShared'[p] = nShared[p] /\ nLock'[p] = nLock[p]
        /\ pc'[c] = "close fd" => nShared'[p] = 0
    BY <1>1, <1>2 DEF Close, Starts, At, Goto, Locking, TypeInv
  <1>5. Frame(c)
    BY <1>1, <1>3 DEF Close, Frame, TypeInv, Goto, SetLevels, inode
  <1>6. TypeInv'
    <2>1. level' \in [Conns -> Levels]
      BY <1>1 DEF Close, TypeInv, SetLevels, Levels, NO_LOCK, SHARED_LOCK, RESERVED_LOCK, PENDING_LOCK, EXCLUSIVE_LOCK
    <2>2. pc' \in [Conns -> Stages]
      BY <1>1 DEF Close, TypeInv, Goto, Stages, Locking
    <2>3. inodeLock' \in [Procs -> Levels]
      BY <1>1 DEF Close, TypeInv, SetLevels, inode, Levels, NO_LOCK, SHARED_LOCK, RESERVED_LOCK, PENDING_LOCK, EXCLUSIVE_LOCK
    <2>4. nShared' \in [Procs -> Nat] /\ nLock' \in [Procs -> Nat]
      <3>1. UNCHANGED <<nShared, nLock>>
        BY DEF Close
      <3> QED
        BY <3>1, <1>1 DEF TypeInv
    <2>5. unused' \in [Procs -> Nat] /\ dropped' \subseteq Procs
      <3>1. UNCHANGED dropped /\ (unused' = [unused EXCEPT ![p] = @ + 1] \/ UNCHANGED unused)
        BY DEF Close
      <3> QED
        BY <3>1, <1>1 DEF TypeInv
    <2> QED
      BY <2>1, <2>2, <2>3, <2>4, <2>5, <1>3 DEF TypeInv
  <1> QED
    BY <1>3, <1>4, <1>5, <1>6

\* It keeps the invariant.
LEMMA CloseKeeps == ASSUME Inv, NEW c \in Conns, Close(c) PROVE Inv'
  <1> DEFINE p == Proc(c)
  <1>1. /\ p \in Procs /\ c \in Of(p) /\ Counted(p) /\ Within(p, c) /\ Quiet(p)
    BY ProcType DEF Inv, Local
  <1>2. /\ level[c] \in Levels /\ pc[c] \in Stages /\ inodeLock[p] \in Levels
        /\ nShared[p] \in Nat /\ nLock[p] = nShared[p]
        /\ inodeLock[p] = NO_LOCK <=> nShared[p] = 0
        /\ level[c] >= SHARED_LOCK => nShared[p] # 0
    BY <1>1, CallerCounts
  <1>3. /\ dropped' = dropped /\ MayCall(c)
        /\ pc'[c] \in {"closed", "close fd"} /\ pc[c] \notin Locking
        /\ level'[c] = level[c]
        /\ inodeLock'[p] = inodeLock[p]
        /\ nShared'[p] = nShared[p] /\ nLock'[p] = nLock[p]
        /\ pc'[c] = "close fd" => nShared'[p] = 0
        /\ \A q \in Procs, a \in Bytes : Byte(q, a)' = Byte(q, a)
        /\ Frame(c) /\ TypeInv'
    BY CloseStep
  <1>4. Counted(p)'
    BY <1>1, <1>2, <1>3, CountStep DEF Levels, NO_LOCK, SHARED_LOCK, RESERVED_LOCK, PENDING_LOCK, EXCLUSIVE_LOCK
  <1>5. Within(p, c)'
    BY <1>3 DEF Within, Reading
  <1>6. nShared'[p] = 0 /\ pc'[c] \notin Locking => \A b \in Bytes : Byte(p, b)' = "none"
    BY <1>1, <1>3, QuietCall
  <1> QED
    BY <1>3, <1>4, <1>5, <1>6, StepKeeps

\* A descriptor is closed: the locks of the process go with it.
LEMMA CloseFdKeeps == ASSUME Inv, NEW c \in Conns, CloseFd(c) PROVE Inv'
  <1> DEFINE p == Proc(c)
  <1>1. p \in Procs /\ c \in Of(p) /\ TypeInv /\ Local(p) /\ Of(p)' = Of(p)
    BY ProcType DEF Inv, Of
  <1>2. /\ pc[c] = "close fd" /\ Goto(c, "closed")
        /\ kernel' = [kernel EXCEPT ![p] = NoGrant]
        /\ level' = level /\ inodeLock' = inodeLock
        /\ nShared' = nShared /\ nLock' = nLock /\ unused' = unused
        /\ dropped' = IF kernel[p] = NoGrant THEN dropped ELSE dropped \cup {p}
    BY DEF CloseFd, At, inode
  <1>3. /\ kernel' \in [Procs -> [Bytes -> Modes]]
        /\ \A b \in Bytes : Byte(p, b)' = "none"
        /\ \A q \in Procs : q # p => \A b \in Bytes : Byte(q, b)' = Byte(q, b)
    BY <1>1, <1>2, Freeing
  <1>4. /\ pc' \in [Conns -> Stages] /\ pc'[c] = "closed"
        /\ \A d \in Conns : d # c => pc'[d] = pc[d]
    BY <1>1, <1>2, Going DEF Stages
  <1>5. "closed" \notin Locking \cup Reading /\ "close fd" \notin Locking
    BY DEF Locking, Reading
  <1>6. \A d \in Of(p) : pc'[d] \in Locking <=> pc[d] \in Locking
    BY <1>2, <1>4, <1>5 DEF Of
  <1>7. TypeInv'
    BY <1>1, <1>2, <1>3, <1>4 DEF TypeInv
  <1>8. Local(p)'
    <2>1. Counted(p)'
      <3>1. Readers(p)' = Readers(p)
        BY <1>1, <1>2 DEF Readers
      <3> QED
        BY <3>1, <1>1, <1>2 DEF Local, Counted
    <2>2. ASSUME NEW d \in Of(p) PROVE Within(p, d)'
      <3>1. Within(p, d) /\ d \in Conns
        BY <1>1 DEF Local, Of
      <3>2. CASE d = c
        BY <3>2, <1>4 DEF Within, Reading
      <3>3. CASE d # c
        BY <3>1, <3>3, <1>2, <1>3, <1>4 DEF Within, Bytes
      <3> QED
        BY <3>2, <3>3
    <2>3. OneInside(p)'
      BY <1>1, <1>6 DEF Local, OneInside
    <2>4. Quiet(p)'
      BY <1>3 DEF Quiet
    <2>5. MutexFree(p)' <=> MutexFree(p)
      BY <1>1, <1>6 DEF MutexFree
    <2>6. Closing(p)'
      <3>1. \A d \in Of(p) : pc'[d] = "close fd" => pc[d] = "close fd"
        BY <1>4 DEF Of
      <3> QED
        BY <3>1, <2>5, <1>1, <1>2 DEF Local, Closing, OneIsolate, At
    <2> QED
      BY <1>1, <2>1, <2>2, <2>3, <2>4, <2>6 DEF Local
  <1>9. ASSUME NEW q \in Procs, q # p PROVE Local(q)'
    <2>1. \A d \in Of(q) : level'[d] = level[d] /\ pc'[d] = pc[d]
      BY <1>2, <1>4, <1>9 DEF Of
    <2>2. inodeLock'[q] = inodeLock[q] /\ nShared'[q] = nShared[q] /\ nLock'[q] = nLock[q]
      BY <1>2
    <2> QED
      BY <2>1, <2>2, <1>3, <1>9, Elsewhere DEF Inv
  <1>10. OneIsolateKeepsLocks'
    <2>1. CASE kernel[p] = NoGrant
      BY <2>1, <1>2 DEF Inv, OneIsolateKeepsLocks, Of
    <2>2. CASE kernel[p] # NoGrant
      <3>1. \E b \in Bytes : Byte(p, b) # "none"
        BY <2>2, <1>1 DEF TypeInv, NoGrant, Byte
      <3>2. ~OneIsolate(p)
        BY <3>1, <1>1, <1>2 DEF Local, Quiet, Closing, At
      <3>3. \E d, e \in Of(p) : IsolateOf[d] # IsolateOf[e]
        BY <3>2 DEF OneIsolate
      <3>4. dropped' \subseteq dropped \cup {p}
        BY <1>2
      <3> QED
        BY <3>3, <3>4 DEF Inv, OneIsolateKeepsLocks, Of
    <2> QED
      BY <2>1, <2>2
  <1> QED
    BY <1>7, <1>8, <1>9, <1>10 DEF Inv

\* A process dies: nothing of it is left.
LEMMA DieKeeps == ASSUME Inv, NEW p \in Procs, Die(p) PROVE Inv'
  <1>1. TypeInv /\ Local(p) /\ Of(p)' = Of(p)
    BY DEF Inv, Of
  <1>2. /\ pc' = [d \in Conns |-> IF d \in Of(p) THEN "closed" ELSE pc[d]]
        /\ level' = [d \in Conns |-> IF d \in Of(p) THEN NO_LOCK ELSE level[d]]
        /\ inodeLock' = [inodeLock EXCEPT ![p] = NO_LOCK]
        /\ nShared' = [nShared EXCEPT ![p] = 0]
        /\ nLock' = [nLock EXCEPT ![p] = 0]
        /\ unused' = [unused EXCEPT ![p] = 0]
        /\ kernel' = [kernel EXCEPT ![p] = NoGrant]
        /\ dropped' = dropped
    BY DEF Die
  <1>3. /\ kernel' \in [Procs -> [Bytes -> Modes]]
        /\ \A b \in Bytes : Byte(p, b)' = "none"
        /\ \A q \in Procs : q # p => \A b \in Bytes : Byte(q, b)' = Byte(q, b)
    BY <1>1, <1>2, Freeing
  <1>4. /\ inodeLock' \in [Procs -> Levels] /\ inodeLock'[p] = NO_LOCK
        /\ \A q \in Procs : q # p => inodeLock'[q] = inodeLock[q]
    BY <1>1, <1>2, Kinds, Replaced DEF TypeInv
  <1>5. /\ nShared' \in [Procs -> Nat] /\ nShared'[p] = 0
        /\ \A q \in Procs : q # p => nShared'[q] = nShared[q]
    BY <1>1, <1>2, Replaced DEF TypeInv
  <1>6. /\ nLock' \in [Procs -> Nat] /\ nLock'[p] = 0
        /\ \A q \in Procs : q # p => nLock'[q] = nLock[q]
    BY <1>1, <1>2, Replaced DEF TypeInv
  <1>7. unused' \in [Procs -> Nat]
    BY <1>1, <1>2, Replaced DEF TypeInv
  <1>8. /\ pc' \in [Conns -> Stages]
        /\ \A d \in Of(p) : pc'[d] = "closed"
        /\ \A d \in Conns : d \notin Of(p) => pc'[d] = pc[d]
    BY <1>1, <1>2 DEF TypeInv, Stages, Of
  <1>9. /\ level' \in [Conns -> Levels]
        /\ \A d \in Of(p) : level'[d] = NO_LOCK
        /\ \A d \in Conns : d \notin Of(p) => level'[d] = level[d]
    BY <1>1, <1>2, Kinds DEF TypeInv, Of
  <1>10. TypeInv'
    BY <1>1, <1>2, <1>3, <1>4, <1>5, <1>6, <1>7, <1>8, <1>9 DEF TypeInv
  <1>11. "closed" \notin Locking /\ "closed" \notin Reading
    BY DEF Locking, Reading
  <1>12. Local(p)'
    <2>1. Counted(p)'
      <3>1. Readers(p)' = {}
        BY <1>1, <1>9 DEF Readers, NO_LOCK, SHARED_LOCK
      <3> QED
        BY <3>1, <1>4, <1>5, <1>6, FS_EmptySet DEF Counted
    <2>2. \A d \in Of(p) : Within(p, d)'
      BY <1>8, <1>11 DEF Within
    <2>3. OneInside(p)'
      BY <1>1, <1>8, <1>11 DEF OneInside
    <2>4. Quiet(p)'
      BY <1>3 DEF Quiet
    <2>5. Closing(p)'
      BY <1>1, <1>8 DEF Closing, At
    <2> QED
      BY <1>1, <2>1, <2>2, <2>3, <2>4, <2>5 DEF Local
  <1>13. ASSUME NEW q \in Procs, q # p PROVE Local(q)'
    <2>1. \A d \in Of(q) : d \in Conns /\ d \notin Of(p)
      BY <1>13 DEF Of
    <2>2. \A d \in Of(q) : level'[d] = level[d] /\ pc'[d] = pc[d]
      BY <2>1, <1>8, <1>9
    <2> QED
      BY <2>2, <1>3, <1>4, <1>5, <1>6, <1>13, Elsewhere DEF Inv
  <1>14. OneIsolateKeepsLocks'
    BY <1>2 DEF Inv, OneIsolateKeepsLocks, Of
  <1> QED
    BY <1>10, <1>12, <1>13, <1>14 DEF Inv

\* Nothing happens to the file.
LEMMA StutterKeeps == ASSUME Inv, UNCHANGED vars PROVE Inv'
  <1>1. /\ level' = level /\ pc' = pc /\ inodeLock' = inodeLock /\ nShared' = nShared
        /\ nLock' = nLock /\ unused' = unused /\ kernel' = kernel /\ dropped' = dropped
    BY DEF vars, inode
  <1>2. TypeInv' /\ OneIsolateKeepsLocks'
    BY <1>1 DEF Inv, TypeInv, OneIsolateKeepsLocks, Of
  <1>3. ASSUME NEW q \in Procs PROVE Local(q)'
    <2>1. \A b \in Bytes : Byte(q, b)' = Byte(q, b)
      BY <1>1 DEF Byte
    <2> QED
      BY <2>1, <1>1, Elsewhere DEF Inv
  <1> QED
    BY <1>2, <1>3 DEF Inv

\* The invariant holds where no process has opened the file.
LEMMA InvInit == Init => Inv
  <1> SUFFICES ASSUME Init PROVE Inv
    OBVIOUS
  <1>1. TypeInv
    BY Kinds DEF Init, TypeInv, Stages, NoGrant, Modes
  <1>2. ASSUME NEW p \in Procs PROVE Local(p)
    <2>1. \A c \in Of(p) : level[c] = NO_LOCK /\ pc[c] = "closed"
      BY DEF Init, Of
    <2>2. Counted(p)
      <3>1. Readers(p) = {}
        BY <2>1 DEF Readers, NO_LOCK, SHARED_LOCK
      <3> QED
        BY <3>1, FS_EmptySet DEF Counted, Init
    <2>3. "closed" \notin Locking /\ "closed" \notin Reading
      BY DEF Locking, Reading
    <2>4. \A c \in Of(p) : Within(p, c)
      BY <2>1, <2>3 DEF Within
    <2>5. OneInside(p)
      BY <2>1, <2>3 DEF OneInside
    <2>6. Quiet(p)
      BY DEF Quiet, Byte, Init, NoGrant
    <2>7. Closing(p)
      BY <2>1 DEF Closing, At
    <2> QED
      BY <2>2, <2>4, <2>5, <2>6, <2>7 DEF Local
  <1>3. OneIsolateKeepsLocks
    BY DEF Init, OneIsolateKeepsLocks
  <1> QED
    BY <1>1, <1>2, <1>3 DEF Inv

\* Every step keeps it.
LEMMA InvNext == Inv /\ [Next]_vars => Inv'
  <1> SUFFICES ASSUME Inv, [Next]_vars PROVE Inv'
    OBVIOUS
  <1>1. ASSUME NEW c \in Conns, JoinShared(c) \/ ReadPending(c) \/ ReadRange(c) \/ DropPending(c)
        PROVE  Inv'
    BY <1>1, JoinSharedKeeps, ReadPendingKeeps, ReadRangeKeeps, DropPendingKeeps
  <1>2. ASSUME NEW c \in Conns, Reserve(c) \/ WritePending(c) \/ WriteRange(c)
        PROVE  Inv'
    BY <1>2, ReserveKeeps, WritePendingKeeps, WriteRangeKeeps
  <1>3. ASSUME NEW c \in Conns, Downgrade(c) \/ DropBytes(c) \/ Release(c)
        PROVE  Inv'
    BY <1>3, DowngradeKeeps, DropBytesKeeps, ReleaseKeeps
  <1>4. ASSUME NEW c \in Conns, Open(c) \/ Close(c) \/ CloseFd(c)
        PROVE  Inv'
    BY <1>4, OpenKeeps, CloseKeeps, CloseFdKeeps
  <1>5. ASSUME NEW p \in Procs, Die(p) PROVE Inv'
    BY <1>5, DieKeeps
  <1>6. CASE UNCHANGED vars
    BY <1>6, StutterKeeps
  <1> QED
    BY <1>1, <1>2, <1>3, <1>4, <1>5, <1>6 DEF Next

-----------------------------------------------------------------------------
\* Where one isolate of a process uses SQLite, sqlite3_close never drops the
\* locks of the process (unixClose, closeUnixFile).
THEOREM LocksSurviveClose == Spec => []OneIsolateKeepsLocks
  <1>1. Inv => OneIsolateKeepsLocks
    BY DEF Inv
  <1> QED
    BY <1>1, InvInit, InvNext, PTL DEF Spec

\* nShared and nLock of a unixInodeInfo count the connections with a lock.
THEOREM CountersExact == Spec => [](\A p \in Procs : Counted(p))
  <1>1. Inv => \A p \in Procs : Counted(p)
    BY DEF Inv, Local
  <1> QED
    BY <1>1, InvInit, InvNext, PTL DEF Spec

-----------------------------------------------------------------------------
(* The counters stay within the number of connections.  What unixClose     *)
(* leaves on pUnused are descriptors of connections that are closed, and   *)
(* unixOpen takes one of them before it opens another.                     *)

CountInv == Inv /\ Waiting

\* The closed connections of a process are finitely many.
LEMMA GoneFinite ==
    ASSUME NEW p
    PROVE  /\ IsFiniteSet(Gone(p)) /\ Cardinality(Gone(p)) \in Nat
           /\ Cardinality(Gone(p)) <= Cardinality(Conns)
  <1>1. Gone(p) \subseteq Conns
    BY DEF Gone, Of
  <1> QED
    BY <1>1, UnixLocksAssumption, FS_Subset, FS_CardinalityType

\* A step of one connection, which closes it, opens it or neither.
LEMMA WaitingStep ==
    ASSUME TypeInv, Waiting, NEW c \in Conns,
           \A d \in Conns \ {c} : pc'[d] = pc[d],
           \A q \in Procs \ {Proc(c)} : unused'[q] = unused[q],
           \/ /\ pc[c] # "closed" /\ pc'[c] # "closed"
              /\ unused'[Proc(c)] \in {0, unused[Proc(c)]}
           \/ /\ pc[c] # "closed" /\ pc'[c] = "closed"
              /\ unused'[Proc(c)] \in {unused[Proc(c)], unused[Proc(c)] + 1}
           \/ /\ pc[c] = "closed" /\ pc'[c] # "closed"
              /\ \/ unused[Proc(c)] > 0 /\ unused'[Proc(c)] = unused[Proc(c)] - 1
                 \/ unused[Proc(c)] = 0 /\ unused'[Proc(c)] = 0
    PROVE  Waiting'
  <1> DEFINE p == Proc(c)
             G == Gone(p)
             n == Cardinality(G)
             u == unused[p]
  <1>1. p \in Procs /\ c \in Of(p)
    BY ProcType
  <1>2. IsFiniteSet(G) /\ n \in Nat /\ u \in Nat /\ u <= n
    BY <1>1, GoneFinite DEF Waiting, TypeInv
  <1>3. ASSUME NEW q \in Procs, q # p PROVE (unused[q] <= Cardinality(Gone(q)))'
    <2>1. Gone(q)' = Gone(q)
      BY <1>3 DEF Gone, Of, At
    <2> QED
      BY <1>3, <2>1 DEF Waiting
  <1>4. unused'[p] <= Cardinality(Gone(p)')
    <2>1. CASE /\ pc[c] # "closed" /\ pc'[c] # "closed"
               /\ unused'[p] \in {0, u}
      <3>1. Gone(p)' = G
        BY <1>1, <2>1 DEF Gone, Of, At
      <3> QED
        BY <1>2, <2>1, <3>1
    <2>2. CASE /\ pc[c] # "closed" /\ pc'[c] = "closed"
               /\ unused'[p] \in {u, u + 1}
      <3>1. Gone(p)' = G \cup {c} /\ c \notin G
        BY <1>1, <2>2 DEF Gone, Of, At
      <3>2. Cardinality(Gone(p)') = n + 1
        BY <1>2, <3>1, FS_AddElement
      <3> QED
        BY <1>2, <2>2, <3>2
    <2>3. CASE /\ pc[c] = "closed" /\ pc'[c] # "closed"
               /\ \/ u > 0 /\ unused'[p] = u - 1
                  \/ u = 0 /\ unused'[p] = 0
      <3>1. Gone(p)' = G \ {c} /\ c \in G
        BY <1>1, <2>3 DEF Gone, Of, At
      <3>2. Cardinality(G \ {c}) = n - 1 /\ IsFiniteSet(G \ {c})
        BY <1>2, <3>1, FS_RemoveElement
      <3>3. Cardinality(Gone(p)') = n - 1 /\ Cardinality(Gone(p)') \in Nat
        BY <3>1, <3>2, FS_CardinalityType
      <3> HIDE DEF n, u, G
      <3> QED
        BY <1>2, <2>3, <3>3
    <2> QED
      BY <2>1, <2>2, <2>3
  <1> QED
    BY <1>3, <1>4 DEF Waiting

\* The steps that open or close no connection and take no descriptor.
LEMMA WaitingRemains ==
    ASSUME CountInv, NEW c \in Conns,
           \/ JoinShared(c) \/ ReadPending(c) \/ ReadRange(c)
           \/ Reserve(c) \/ WritePending(c) \/ Downgrade(c)
    PROVE  Waiting'
  <1>1. TypeInv /\ Waiting /\ Proc(c) \in Procs
    BY ProcType DEF CountInv, Inv
  <1>2. pc \in [Conns -> Stages] /\ unused' = unused
    BY <1>1 DEF TypeInv, JoinShared, ReadPending, ReadRange, Reserve, WritePending, Downgrade, inode
  <1>3. pc[c] # "closed" /\ pc'[c] # "closed" /\ \A d \in Conns \ {c} : pc'[d] = pc[d]
    <2>1. CASE JoinShared(c) \/ Reserve(c)
      BY <2>1 DEF JoinShared, Reserve, Starts, At
    <2>2. CASE ReadPending(c) \/ Downgrade(c)
      BY <1>2, <2>2 DEF ReadPending, Downgrade, Starts, Goto, At
    <2>3. CASE ReadRange(c)
      BY <1>2, <2>3 DEF ReadRange, Goto, At
    <2>4. CASE WritePending(c)
      BY <1>2, <2>4 DEF WritePending, Starts, Goto, At
    <2> QED
      BY <2>1, <2>2, <2>3, <2>4
  <1> QED
    BY <1>1, <1>2, <1>3, WaitingStep

\* The steps that end a call.
LEMMA WaitingEnds ==
    ASSUME CountInv, NEW c \in Conns,
           DropPending(c) \/ WriteRange(c) \/ DropBytes(c) \/ Release(c)
    PROVE  Waiting'
  <1>1. TypeInv /\ Waiting /\ Proc(c) \in Procs
    BY ProcType DEF CountInv, Inv
  <1>2. pc \in [Conns -> Stages] /\ unused \in [Procs -> Nat]
    BY <1>1 DEF TypeInv
  <1>3. pc[c] # "closed" /\ pc'[c] # "closed" /\ \A d \in Conns \ {c} : pc'[d] = pc[d]
    <2>1. CASE DropPending(c)
      BY <1>2, <2>1 DEF DropPending, Goto, At
    <2>2. CASE WriteRange(c)
      BY <1>2, <2>2 DEF WriteRange, Starts, Goto, At
    <2>3. CASE DropBytes(c)
      BY <1>2, <2>3 DEF DropBytes, Starts, Goto, At
    <2>4. CASE Release(c)
      BY <1>2, <2>4 DEF Release, Starts, Goto, At
    <2> QED
      BY <2>1, <2>2, <2>3, <2>4
  <1>4. /\ unused'[Proc(c)] \in {0, unused[Proc(c)]}
        /\ \A q \in Procs \ {Proc(c)} : unused'[q] = unused[q]
    <2>1. CASE DropPending(c) \/ WriteRange(c) \/ DropBytes(c)
      BY <2>1 DEF DropPending, WriteRange, DropBytes
    <2>2. CASE Release(c)
      BY <1>1, <1>2, <2>2 DEF Release
    <2> QED
      BY <2>1, <2>2
  <1> QED
    BY <1>1, <1>3, <1>4, WaitingStep

\* The steps that open and close.
LEMMA WaitingCloses ==
    ASSUME CountInv, NEW c \in Conns, Open(c) \/ Close(c) \/ CloseFd(c)
    PROVE  Waiting'
  <1>1. TypeInv /\ Waiting /\ Proc(c) \in Procs
    BY ProcType DEF CountInv, Inv
  <1>2. pc \in [Conns -> Stages] /\ unused \in [Procs -> Nat] /\ unused[Proc(c)] \in Nat
    BY <1>1 DEF TypeInv
  <1>3. CASE Open(c)
    <2>1. /\ pc[c] = "closed" /\ pc'[c] = "idle" /\ \A d \in Conns \ {c} : pc'[d] = pc[d]
          /\ \/ unused[Proc(c)] > 0 /\ unused' = [unused EXCEPT ![Proc(c)] = @ - 1]
             \/ unused[Proc(c)] = 0 /\ unused' = unused
      BY <1>2, <1>3 DEF Open, Goto, At
    <2> QED
      BY <1>1, <1>2, <2>1, WaitingStep
  <1>4. CASE Close(c)
    <2>1. /\ pc[c] # "closed" /\ \A d \in Conns \ {c} : pc'[d] = pc[d]
          /\ \/ pc'[c] = "closed" /\ unused' = [unused EXCEPT ![Proc(c)] = @ + 1]
             \/ pc'[c] # "closed" /\ unused' = unused
      BY <1>2, <1>4 DEF Close, Starts, Goto, At
    <2> QED
      BY <1>1, <1>2, <2>1, WaitingStep
  <1>5. CASE CloseFd(c)
    <2>1. /\ pc[c] # "closed" /\ pc'[c] = "closed" /\ \A d \in Conns \ {c} : pc'[d] = pc[d]
          /\ unused' = unused
      BY <1>2, <1>5 DEF CloseFd, Goto, At, inode
    <2> QED
      BY <1>1, <1>2, <2>1, WaitingStep
  <1> QED
    BY <1>3, <1>4, <1>5

\* The death of a process closes what it had.
LEMMA WaitingDies == ASSUME CountInv, NEW p \in Procs, Die(p) PROVE Waiting'
  <1>1. TypeInv /\ Waiting
    BY DEF CountInv, Inv
  <1>2. ASSUME NEW q \in Procs PROVE (unused[q] <= Cardinality(Gone(q)))'
    <2>1. CASE q = p
      <3>1. unused'[q] = 0
        BY <1>1, <2>1 DEF TypeInv, Die
      <3>2. Gone(q)' \subseteq Conns
        BY DEF Gone, Of
      <3>3. Cardinality(Gone(q)') \in Nat
        BY <3>2, UnixLocksAssumption, FS_Subset, FS_CardinalityType
      <3> QED
        BY <3>1, <3>3
    <2>2. CASE q # p
      <3>1. \A d \in Of(q) : d \in Conns /\ d \notin Of(p)
        BY <2>2 DEF Of
      <3>2. Gone(q)' = Gone(q)
        BY <3>1 DEF Die, Gone, At, Of
      <3>3. unused'[q] = unused[q]
        BY <1>1, <2>2 DEF TypeInv, Die
      <3> QED
        BY <1>1, <3>2, <3>3 DEF Waiting
    <2> QED
      BY <2>1, <2>2
  <1> QED
    BY <1>2 DEF Waiting

(* Counters and levels keep their type, no counter of a unixInodeInfo      *)
(* outgrows the number of connections, and no more descriptors wait for a  *)
(* close than connections were closed, for any connections, isolates and   *)
(* processes.                                                              *)
THEOREM TypeCorrect == Spec => []TypeOK
  <1>1. Init => CountInv
    <2>1. Init => Waiting
      <3> SUFFICES ASSUME Init, NEW p \in Procs PROVE unused[p] <= Cardinality(Gone(p))
        BY DEF Waiting
      <3>1. unused[p] = 0 /\ Cardinality(Gone(p)) \in Nat
        BY GoneFinite DEF Init
      <3> QED
        BY <3>1
    <2> QED
      BY <2>1, InvInit DEF CountInv
  <1>2. CountInv /\ [Next]_vars => CountInv'
    <2> SUFFICES ASSUME CountInv, [Next]_vars PROVE Waiting'
      BY InvNext DEF CountInv
    <2>1. CASE UNCHANGED vars
      BY <2>1 DEF CountInv, Waiting, Gone, Of, At, vars, inode
    <2> QED
      BY <2>1, WaitingRemains, WaitingEnds, WaitingCloses, WaitingDies DEF Next
  <1>3. CountInv => TypeOK
    <2> SUFFICES ASSUME CountInv PROVE TypeOK
      OBVIOUS
    <2>1. TypeInv
      BY DEF CountInv, Inv
    <2> DEFINE most == Cardinality(Conns)
    <2>2. most \in Nat
      BY UnixLocksAssumption, FS_CardinalityType
    <2>3. ASSUME NEW p \in Procs
          PROVE  nShared[p] \in 0 .. most /\ nLock[p] \in 0 .. most /\ unused[p] \in 0 .. most
      <3>1. Readers(p) \subseteq Conns
        BY DEF Readers, Of
      <3>2. Cardinality(Readers(p)) <= most
        BY <3>1, UnixLocksAssumption, FS_Subset
      <3>3. nShared[p] = Cardinality(Readers(p)) /\ nLock[p] = nShared[p]
        BY DEF CountInv, Inv, Local, Counted
      <3>4. unused[p] <= Cardinality(Gone(p))
        BY DEF CountInv, Waiting
      <3>5. Cardinality(Gone(p)) \in Nat /\ Cardinality(Gone(p)) <= most
        BY GoneFinite
      <3>6. nShared[p] \in Nat /\ unused[p] \in Nat
        BY <2>1 DEF TypeInv
      <3> HIDE DEF most
      <3> QED
        BY <2>2, <3>2, <3>3, <3>4, <3>5, <3>6
    <2> HIDE DEF most
    <2>4. /\ nShared \in [Procs -> 0 .. most] /\ nLock \in [Procs -> 0 .. most]
          /\ unused \in [Procs -> 0 .. most]
      BY <2>1, <2>3 DEF TypeInv
    <2>5. Waiting
      BY DEF CountInv
    <2> QED
      BY <2>1, <2>4, <2>5 DEF TypeInv, TypeOK, most
  <1> QED
    BY <1>1, <1>2, <1>3, PTL DEF Spec

-----------------------------------------------------------------------------
(***************************************************************************)
(* Exclusion, for any connections, isolates and processes: until a close   *)
(* drops locks, a connection that holds EXCLUSIVE is alone, one at a time  *)
(* keeps out new readers, and one prepares a write.                        *)
(*                                                                         *)
(* Between processes it is the kernel that excludes, so the invariant says *)
(* what the kernel has granted for the level a connection holds, stage by  *)
(* stage.  Within a process the kernel never refuses: there it is the      *)
(* level of the inode and the number of its readers.                       *)
(***************************************************************************)

\* What goes with the level and the stage of a connection.
Exact(p, c) ==
    /\ Held(c) > SHARED_LOCK => inodeLock[p] = Held(c)
    /\ Held(c) = EXCLUSIVE_LOCK => nShared[p] = 1
    /\ pc[c] = "write range" => inodeLock[p] = level[c] /\ nShared[p] = 1
    /\ pc[c] \in {"downgrade", "release"} => level[c] > SHARED_LOCK
    /\ pc[c] \in Reading => Byte(p, "pending") = "read"
    /\ pc[c] = "drop pending" \/ level[c] >= SHARED_LOCK => Byte(p, "shared") # "none"
    /\ pc[c] = "write range" \/ Held(c) >= PENDING_LOCK => Byte(p, "pending") = "write"
    /\ Held(c) = RESERVED_LOCK => Byte(p, "reserved") = "write"

\* One connection of a process holds more than SHARED.
Upper(p) == \A c, d \in Of(p) : Held(c) > SHARED_LOCK /\ Held(d) > SHARED_LOCK => c = d

\* POSIX write locks exclude other processes.
Kernel == \A p, q \in Procs, b \in Bytes :
              p # q /\ Byte(p, b) = "write" => Byte(q, b) = "none"

\* Outside the process of an exclusive connection nobody reads.
Alone == \A c \in Conns : Held(c) = EXCLUSIVE_LOCK =>
             \A q \in Procs : q # Proc(c) => Byte(q, "shared") = "none"

Agreed == /\ \A p \in Procs : Upper(p) /\ \A c \in Of(p) : Exact(p, c)
          /\ Alone

LockInv == Inv /\ Kernel /\ (dropped = {} => Agreed)

-----------------------------------------------------------------------------
\* What a connection holds is its level but for one stage.
LEMMA HeldLevel ==
    ASSUME NEW c
    PROVE  /\ pc[c] # "release" => Held(c) = level[c]
           /\ pc[c] = "release" => Held(c) = SHARED_LOCK
  BY DEF Held, At

\* And after a step.
LEMMA HeldNext ==
    ASSUME NEW c
    PROVE  /\ pc'[c] # "release" => Held(c)' = level'[c]
           /\ pc'[c] = "release" => Held(c)' = SHARED_LOCK
  BY DEF Held, At

\* More than one level of arithmetic about levels.
LEMMA Order ==
    /\ \A l \in Levels : l > SHARED_LOCK => l >= SHARED_LOCK /\ l # NO_LOCK /\ l # SHARED_LOCK
    /\ \A l \in Levels : l >= PENDING_LOCK => l > SHARED_LOCK
    /\ \A l \in Levels : ~(l > SHARED_LOCK) => l # RESERVED_LOCK /\ l # EXCLUSIVE_LOCK
    /\ \A l \in Levels : ~(l > SHARED_LOCK) => l \in {NO_LOCK, SHARED_LOCK}
    /\ RESERVED_LOCK > SHARED_LOCK /\ PENDING_LOCK > SHARED_LOCK /\ EXCLUSIVE_LOCK > SHARED_LOCK
    /\ ~(RESERVED_LOCK >= PENDING_LOCK)
    /\ ~(SHARED_LOCK > SHARED_LOCK) /\ ~(NO_LOCK > SHARED_LOCK) /\ ~(NO_LOCK >= SHARED_LOCK)
    /\ ~(SHARED_LOCK >= PENDING_LOCK) /\ ~(NO_LOCK >= PENDING_LOCK)
    /\ SHARED_LOCK # EXCLUSIVE_LOCK /\ NO_LOCK # EXCLUSIVE_LOCK
    /\ SHARED_LOCK # RESERVED_LOCK /\ NO_LOCK # RESERVED_LOCK
    /\ PENDING_LOCK # EXCLUSIVE_LOCK /\ PENDING_LOCK # RESERVED_LOCK
    /\ EXCLUSIVE_LOCK # RESERVED_LOCK
  BY DEF Levels, NO_LOCK, SHARED_LOCK, RESERVED_LOCK, PENDING_LOCK, EXCLUSIVE_LOCK

\* One reader at most, and one at least.
LEMMA OneLeft == ASSUME NEW n \in Nat, n # 0, n <= 1 PROVE n = 1
  OBVIOUS

\* Levels of what is held.
LEMMA HeldType == ASSUME TypeInv, NEW c \in Conns PROVE Held(c) \in Levels /\ level[c] \in Levels
  BY Kinds DEF TypeInv, Held

\* The only reader of a process knows there is no other.
LEMMA OnlyReader ==
    ASSUME TypeInv, NEW p \in Procs, Counted(p), NEW c \in Of(p)
    PROVE  /\ level[c] >= SHARED_LOCK /\ nShared[p] = 1 =>
                  \A d \in Of(p) : d # c => level[d] = NO_LOCK
           /\ nShared[p] = 0 => \A d \in Of(p) : level[d] = NO_LOCK
           /\ nShared[p] # 0 => \E d \in Of(p) : level[d] >= SHARED_LOCK
  <1> DEFINE R == Readers(p)
  <1>1. nShared[p] = Cardinality(R) /\ IsFiniteSet(R)
    BY ReadersFinite DEF Counted
  <1>2. Cardinality(R) \in Nat /\ (R = {} <=> Cardinality(R) = 0)
    BY <1>1, FS_EmptySet, FS_CardinalityType
  <1>3. \A d \in Of(p) : (d \in R <=> level[d] >= SHARED_LOCK) /\ (d \in R <=> level[d] # NO_LOCK)
    BY Kinds DEF Readers, TypeInv, Of
  <1>4. /\ IsFiniteSet(R \ {c})
        /\ Cardinality(R \ {c}) = IF c \in R THEN Cardinality(R) - 1 ELSE Cardinality(R)
    BY <1>1, FS_RemoveElement
  <1>5. R \ {c} = {} <=> Cardinality(R \ {c}) = 0
    BY <1>4, FS_EmptySet
  <1>6. ASSUME level[c] >= SHARED_LOCK, nShared[p] = 1
        PROVE  \A d \in Of(p) : d # c => level[d] = NO_LOCK
    <2>1. R \ {c} = {}
      BY <1>6, <1>1, <1>3, <1>4, <1>5
    <2> QED
      BY <2>1, <1>3
  <1>7. ASSUME nShared[p] = 0 PROVE \A d \in Of(p) : level[d] = NO_LOCK
    BY <1>7, <1>1, <1>2, <1>3
  <1>8. ASSUME nShared[p] # 0 PROVE \E d \in Of(p) : level[d] >= SHARED_LOCK
    <2>1. PICK d : d \in R
      BY <1>8, <1>1, <1>2
    <2> QED
      BY <2>1 DEF Readers
  <1> QED
    BY <1>6, <1>7, <1>8

-----------------------------------------------------------------------------
\* What is said of a connection depends on itself and on its inode.
LEMMA ExactSame ==
    ASSUME NEW p, NEW d, Exact(p, d), level'[d] = level[d], pc'[d] = pc[d],
           inodeLock'[p] = inodeLock[p], nShared'[p] = nShared[p],
           \A b \in Bytes : Byte(p, b)' = Byte(p, b)
    PROVE  Exact(p, d)'
  <1>1. Held(d)' = Held(d)
    BY DEF Held, At
  <1> QED
    BY <1>1 DEF Exact, Bytes

(* A connection that is inside no call: what it holds is undisturbed, or   *)
(* is no more than SHARED.                                                 *)
LEMMA ExactBeside ==
    ASSUME TypeInv, TypeInv', NEW p \in Procs, NEW d \in Conns, Exact(p, d),
           pc[d] \notin Locking, level'[d] = level[d], pc'[d] = pc[d],
           \/ ~(level[d] > SHARED_LOCK)
           \/ /\ inodeLock'[p] = inodeLock[p]
              /\ nShared'[p] = nShared[p] \/ level[d] # EXCLUSIVE_LOCK
              /\ \A b \in Bytes : b # "shared" => Byte(p, b)' = Byte(p, b),
           \/ Byte(p, "shared")' # "none"
           \/ Byte(p, "shared")' = Byte(p, "shared")
           \/ level[d] = NO_LOCK
    PROVE  Exact(p, d)'
  <1>1. /\ pc[d] # "release" /\ pc'[d] \notin Reading /\ pc'[d] # "write range"
        /\ pc'[d] # "downgrade" /\ pc'[d] # "release" /\ pc'[d] # "drop pending"
    BY DEF Locking, Reading
  <1>2. Held(d) = level[d] /\ Held(d)' = level[d]
    BY <1>1, HeldLevel, HeldNext
  <1>3. level[d] \in Levels
    BY DEF TypeInv
  <1>4. Held(d)' > SHARED_LOCK => inodeLock'[p] = Held(d)'
    BY <1>2 DEF Exact
  <1>5. Held(d)' = EXCLUSIVE_LOCK => nShared'[p] = 1
    BY <1>2, Order DEF Exact
  <1>6. level'[d] >= SHARED_LOCK => Byte(p, "shared")' # "none"
    BY Order DEF Exact
  <1>7. Held(d)' >= PENDING_LOCK => Byte(p, "pending")' = "write"
    BY <1>2, <1>3, Order DEF Exact, Bytes
  <1>8. Held(d)' = RESERVED_LOCK => Byte(p, "reserved")' = "write"
    BY <1>2, <1>3, Order DEF Exact, Bytes
  <1> QED
    BY <1>1, <1>4, <1>5, <1>6, <1>7, <1>8 DEF Exact

(* A step of a call keeps the invariant when its connection has what goes  *)
(* with its level, and the others of the process lose nothing.             *)
LEMMA AgreedKeeps ==
    ASSUME LockInv, dropped = {}, NEW c \in Conns, Frame(c), TypeInv',
           \A q \in Procs : q # Proc(c) => \A a \in Bytes : Byte(q, a)' = Byte(q, a),
           MayCall(c) \/ pc[c] \in Locking,
           Exact(Proc(c), c)',
           \A d \in Of(Proc(c)) : d # c =>
               /\ \/ ~(level[d] > SHARED_LOCK)
                  \/ /\ inodeLock'[Proc(c)] = inodeLock[Proc(c)]
                     /\ nShared'[Proc(c)] = nShared[Proc(c)] \/ level[d] # EXCLUSIVE_LOCK
                     /\ \A b \in Bytes : b # "shared" => Byte(Proc(c), b)' = Byte(Proc(c), b)
                     /\ ~(Held(c)' > SHARED_LOCK)
               /\ \/ Byte(Proc(c), "shared")' # "none"
                  \/ Byte(Proc(c), "shared")' = Byte(Proc(c), "shared")
                  \/ level[d] = NO_LOCK,
           Alone'
    PROVE  Agreed'
  <1> DEFINE p == Proc(c)
  <1>1. /\ p \in Procs /\ c \in Of(p) /\ Local(p) /\ Of(p)' = Of(p) /\ TypeInv
        /\ Upper(p) /\ \A d \in Of(p) : Exact(p, d) /\ d \in Conns
    BY ProcType DEF LockInv, Agreed, Inv, Of
  <1>2. \A d \in Of(p) : d # c => /\ level'[d] = level[d] /\ pc'[d] = pc[d]
                                  /\ pc[d] \notin Locking
    BY <1>1, OthersOutside DEF Frame
  <1>3. ASSUME NEW d \in Of(p), d # c PROVE Exact(p, d)'
    BY <1>1, <1>2, <1>3, ExactBeside
  <1>4. \A d \in Of(p) : d # c => Held(d) = level[d] /\ Held(d)' = level[d]
    <2>1. "release" \in Locking
      BY DEF Locking
    <2> QED
      BY <2>1, <1>2, HeldLevel, HeldNext
  <1>5. Upper(p)'
    <2> SUFFICES ASSUME NEW d \in Of(p), NEW e \in Of(p),
                        Held(d)' > SHARED_LOCK, Held(e)' > SHARED_LOCK, d # e
                 PROVE  FALSE
      BY <1>1 DEF Upper
    <2>1. CASE d # c /\ e # c
      BY <2>1, <1>1, <1>4 DEF Upper
    <2>2. CASE d = c \/ e = c
      BY <2>2, <1>1, <1>4
    <2> QED
      BY <2>1, <2>2
  <1>6. ASSUME NEW q \in Procs, q # p PROVE Upper(q)' /\ \A d \in Of(q) : Exact(q, d)'
    <2>1. Upper(q) /\ \A d \in Of(q) : Exact(q, d)
      BY DEF LockInv, Agreed
    <2>2. \A d \in Of(q) : level'[d] = level[d] /\ pc'[d] = pc[d]
      BY <1>6 DEF Frame, Of
    <2>3. \A d \in Of(q) : Exact(q, d)'
      BY <2>1, <2>2, <1>6, ExactSame DEF Frame
    <2>4. \A d \in Of(q) : Held(d)' = Held(d)
      BY <2>2 DEF Held, At
    <2>5. Of(q)' = Of(q)
      BY DEF Of
    <2> QED
      BY <2>1, <2>3, <2>4, <2>5 DEF Upper
  <1>7. \A q \in Procs : Of(q)' = Of(q)
    BY DEF Of
  <1> QED
    BY <1>1, <1>3, <1>5, <1>6, <1>7 DEF Agreed

\* What a call may assume of another connection of its process.
LEMMA Beside ==
    ASSUME LockInv, dropped = {}, NEW c \in Conns, MayCall(c) \/ pc[c] \in Locking,
           NEW d \in Of(Proc(c)), d # c
    PROVE  /\ level[d] \in Levels
           /\ level[d] > SHARED_LOCK => inodeLock[Proc(c)] = level[d]
           /\ level[d] = EXCLUSIVE_LOCK => nShared[Proc(c)] = 1
           /\ level[d] >= SHARED_LOCK => Byte(Proc(c), "shared") # "none"
           /\ Held(c) > SHARED_LOCK => ~(level[d] > SHARED_LOCK)
  <1> DEFINE p == Proc(c)
  <1>1. /\ p \in Procs /\ c \in Of(p) /\ Local(p) /\ d \in Conns /\ TypeInv
        /\ Upper(p) /\ Exact(p, d)
    BY ProcType DEF LockInv, Agreed, Inv, Of
  <1>2. pc[d] \notin Locking
    BY <1>1, OthersOutside
  <1>3. Held(d) = level[d]
    BY <1>2, HeldLevel DEF Locking
  <1>4. level[d] \in Levels
    BY <1>1 DEF TypeInv
  <1> QED
    BY <1>1, <1>3, <1>4 DEF Exact, Upper

-----------------------------------------------------------------------------
\* The kernel grants what excludes nobody.
LEMMA GrantExcludes ==
    ASSUME TypeInv, Kernel, NEW p \in Procs, NEW b \in Bytes, NEW m \in Modes,
           Grant(p, b, m), CanLock(p, b, m)
    PROVE  Kernel'
  <1> SUFFICES ASSUME NEW q \in Procs, NEW r \in Procs, NEW a \in Bytes,
                      q # r, Byte(q, a)' = "write"
               PROVE  Byte(r, a)' = "none"
    BY DEF Kernel
  <1>1. \A s \in Procs \ {p} : Byte(s, b) # "write" /\ (m = "write" => Byte(s, b) = "none")
    BY DEF CanLock, Byte
  <1>2. Byte(r, a) \in Modes /\ Byte(q, a) \in Modes
    BY DEF TypeInv, Byte
  <1>3. /\ Byte(p, b)' = m
        /\ \A x \in Bytes : x # b => Byte(p, x)' = Byte(p, x)
        /\ \A s \in Procs : s # p => \A x \in Bytes : Byte(s, x)' = Byte(s, x)
    BY Granting
  <1>4. CASE r = p /\ a = b
    <2>1. Byte(q, a)' = Byte(q, a)
      BY <1>3, <1>4
    <2> QED
      BY <2>1, <1>1, <1>4
  <1>5. CASE r = p /\ a # b
    BY <1>3, <1>5 DEF Kernel
  <1>6. CASE r # p /\ q = p /\ a = b
    BY <1>1, <1>3, <1>6
  <1>7. CASE r # p /\ ~(q = p /\ a = b)
    BY <1>3, <1>7 DEF Kernel
  <1> QED
    BY <1>4, <1>5, <1>6, <1>7

\* Giving back never excludes anybody.
LEMMA LessExcludes ==
    ASSUME Kernel, NEW p \in Procs,
           \A q \in Procs : q # p => \A b \in Bytes : Byte(q, b)' = Byte(q, b),
           \A b \in Bytes : Byte(p, b)' = Byte(p, b) \/ Byte(p, b)' = "none"
    PROVE  Kernel'
  <1> SUFFICES ASSUME NEW q \in Procs, NEW r \in Procs, NEW b \in Bytes,
                      q # r, Byte(q, b)' = "write"
               PROVE  Byte(r, b)' = "none"
    BY DEF Kernel
  <1>1. Byte(q, b) = "write"
    OBVIOUS
  <1>2. Byte(r, b) = "none"
    BY <1>1 DEF Kernel
  <1> QED
    BY <1>2

\* Who is alone stays alone while nobody is granted the shared range.
LEMMA AloneStays ==
    ASSUME Alone, NEW c \in Conns, Frame(c), Held(c)' # EXCLUSIVE_LOCK,
           \A q \in Procs : q # Proc(c) => \A b \in Bytes : Byte(q, b)' = Byte(q, b),
           \/ Byte(Proc(c), "shared")' = Byte(Proc(c), "shared")
           \/ Byte(Proc(c), "shared")' = "none"
    PROVE  Alone'
  <1>1. \A d \in Conns : d # c => Held(d)' = Held(d)
    BY DEF Frame, Held, At
  <1>2. \A q \in Procs : Byte(q, "shared") = "none" => Byte(q, "shared")' = "none"
    BY DEF Bytes
  <1> QED
    BY <1>1, <1>2 DEF Alone, Proc

\* Where a process reads, nobody of another process is exclusive.
LEMMA ReadersKeepOut ==
    ASSUME Alone, NEW p \in Procs, Byte(p, "shared") # "none", NEW e \in Conns, Proc(e) # p
    PROVE  Held(e) # EXCLUSIVE_LOCK
  BY DEF Alone

\* And where it asks whether it may read.
LEMMA AskersKeepOut ==
    ASSUME Agreed, Kernel, NEW p \in Procs, Byte(p, "pending") = "read", NEW e \in Conns, Proc(e) # p
    PROVE  Held(e) # EXCLUSIVE_LOCK
  <1>1. Exact(Proc(e), e) /\ Proc(e) \in Procs
    BY ProcType DEF Agreed
  <1>2. EXCLUSIVE_LOCK >= PENDING_LOCK
    BY DEF EXCLUSIVE_LOCK, PENDING_LOCK
  <1>3. Held(e) = EXCLUSIVE_LOCK => Byte(Proc(e), "pending") = "write"
    BY <1>1, <1>2 DEF Exact
  <1> QED
    BY <1>1, <1>3 DEF Kernel, Bytes

\* A step after which nobody is exclusive, in its process or outside.
LEMMA NobodyAlone ==
    ASSUME NEW c \in Conns, Frame(c), Held(c)' # EXCLUSIVE_LOCK,
           \A d \in Conns : d # c => Held(d) # EXCLUSIVE_LOCK
    PROVE  Alone'
  <1>1. \A d \in Conns : d # c => Held(d)' = Held(d)
    BY DEF Frame, Held, At
  <1> QED
    BY <1>1 DEF Alone

-----------------------------------------------------------------------------

\* A reader joins a reader of its process.
LEMMA JoinSharedAgrees == ASSUME LockInv, NEW c \in Conns, JoinShared(c) PROVE LockInv'
  <1> DEFINE p == Proc(c)
  <1>1. /\ p \in Procs /\ c \in Of(p) /\ Inv /\ TypeInv /\ Counted(p) /\ Kernel /\ Inv'
    BY ProcType, JoinSharedKeeps DEF LockInv, Inv, Local
  <1>2. /\ level[c] \in Levels /\ pc[c] \in Stages /\ inodeLock[p] \in Levels
        /\ nShared[p] \in Nat /\ nLock[p] = nShared[p]
        /\ inodeLock[p] = NO_LOCK <=> nShared[p] = 0
        /\ level[c] >= SHARED_LOCK => nShared[p] # 0
    BY <1>1, CallerCounts
  <1>3. /\ dropped' = dropped /\ MayCall(c)
        /\ pc'[c] = "idle"
        /\ level[c] = NO_LOCK /\ level'[c] = SHARED_LOCK
        /\ inodeLock'[p] = inodeLock[p] /\ inodeLock[p] # NO_LOCK
        /\ nShared'[p] = nShared[p] + 1 /\ nLock'[p] = nLock[p] + 1
        /\ \A q \in Procs, a \in Bytes : Byte(q, a)' = Byte(q, a)
        /\ Frame(c) /\ TypeInv'
    BY <1>1, JoinSharedStep
  <1>4. /\ pc'[c] = "idle" /\ inodeLock[p] \in {SHARED_LOCK, RESERVED_LOCK}
        /\ Held(c)' = SHARED_LOCK
    <2>1. inodeLock[p] \in {SHARED_LOCK, RESERVED_LOCK}
      BY DEF JoinShared
    <2> QED
      BY <2>1, <1>3, HeldNext
  <1>7. /\ Frame(c) /\ TypeInv' /\ (MayCall(c) \/ pc[c] \in Locking)
        /\ \A q \in Procs : q # p => \A a \in Bytes : Byte(q, a)' = Byte(q, a)
    <2>1. TypeInv'
      BY <1>3
    <2>4. Frame(c)
      BY <1>3
    <2>2. MayCall(c) \/ pc[c] \in Locking
      BY <1>3
    <2>3. \A q \in Procs : q # p => \A a \in Bytes : Byte(q, a)' = Byte(q, a)
      BY <1>3
    <2> QED
      BY <2>1, <2>2, <2>3, <2>4
  <1>5. Kernel'
    BY <1>1, <1>3, LessExcludes
  <1>6. ASSUME dropped = {} PROVE Agreed'
    <2>1. Alone /\ Upper(p) /\ \A d \in Of(p) : Exact(p, d)
      BY <1>1, <1>6 DEF LockInv, Agreed
    <2>2. Exact(p, c)'
      <3>1. PICK d \in Of(p) : level[d] >= SHARED_LOCK
        BY <1>1, <1>2, <1>3, OnlyReader
      <3>2. Byte(p, "shared")' # "none"
        BY <3>1, <2>1, <1>1, <1>3 DEF Exact, Bytes
      <3> QED
        BY <3>2, <1>3, <1>4, Order DEF Exact, Reading
    <2>3. \A d \in Of(p) : d # c =>
              /\ \/ ~(level[d] > SHARED_LOCK)
                 \/ /\ inodeLock'[p] = inodeLock[p]
                    /\ nShared'[p] = nShared[p] \/ level[d] # EXCLUSIVE_LOCK
                    /\ \A b \in Bytes : b # "shared" => Byte(p, b)' = Byte(p, b)
                    /\ ~(Held(c)' > SHARED_LOCK)
              /\ \/ Byte(p, "shared")' # "none"
                 \/ Byte(p, "shared")' = Byte(p, "shared")
                 \/ level[d] = NO_LOCK
      <3>1. ASSUME NEW d \in Of(p), d # c PROVE level[d] # EXCLUSIVE_LOCK
        <4>1. level[d] > SHARED_LOCK => inodeLock[p] = level[d]
          BY <1>6, <1>7, <3>1, Beside
        <4> QED
          BY <4>1, <1>4, Order
      <3>2. /\ inodeLock'[p] = inodeLock[p] /\ ~(Held(c)' > SHARED_LOCK)
            /\ \A b \in Bytes : Byte(p, b)' = Byte(p, b)
        BY <1>1, <1>3, <1>4, Order
      <3> QED
        BY <3>1, <3>2 DEF Bytes
    <2>4. Alone'
      <3>1. Held(c)' # EXCLUSIVE_LOCK /\ Byte(p, "shared")' = Byte(p, "shared")
        BY <1>1, <1>3, <1>4, Order DEF Bytes
      <3> QED
        BY <3>1, <1>7, <2>1, AloneStays
    <2> QED
      BY <1>7, <1>6, <2>2, <2>3, <2>4, AgreedKeeps
  <1> QED
    BY <1>1, <1>3, <1>5, <1>6 DEF LockInv

\* A reader asks for the pending byte.
LEMMA ReadPendingAgrees == ASSUME LockInv, NEW c \in Conns, ReadPending(c) PROVE LockInv'
  <1> DEFINE p == Proc(c)
  <1>1. /\ p \in Procs /\ c \in Of(p) /\ Inv /\ TypeInv /\ Counted(p) /\ Kernel /\ Inv'
    BY ProcType, ReadPendingKeeps DEF LockInv, Inv, Local
  <1>2. /\ level[c] \in Levels /\ pc[c] \in Stages /\ inodeLock[p] \in Levels
        /\ nShared[p] \in Nat /\ nLock[p] = nShared[p]
        /\ inodeLock[p] = NO_LOCK <=> nShared[p] = 0
        /\ level[c] >= SHARED_LOCK => nShared[p] # 0
    BY <1>1, CallerCounts
  <1>3. /\ dropped' = dropped /\ MayCall(c)
        /\ pc'[c] = "read range"
        /\ level'[c] = level[c]
        /\ inodeLock'[p] = inodeLock[p]
        /\ nShared'[p] = nShared[p] /\ nLock'[p] = nLock[p] /\ nShared[p] = 0
        /\ \A a \in Bytes : Byte(p, a) = "none"
        /\ \A q \in Procs : q # p => \A a \in Bytes : Byte(q, a)' = Byte(q, a)
        /\ \A a \in Bytes : a # "pending" => Byte(p, a)' = Byte(p, a)
        /\ Frame(c) /\ TypeInv'
    BY <1>1, ReadPendingStep
  <1>4. /\ Grant(p, "pending", "read") /\ CanLock(p, "pending", "read")
        /\ Byte(p, "pending")' = "read" /\ Byte(p, "shared")' = Byte(p, "shared")
        /\ pc'[c] = "read range" /\ level'[c] = NO_LOCK
        /\ Held(c)' = NO_LOCK /\ Held(c)' # EXCLUSIVE_LOCK
    <2>1. Grant(p, "pending", "read") /\ CanLock(p, "pending", "read")
      BY DEF ReadPending
    <2>2. pc'[c] = "read range" /\ level'[c] = NO_LOCK
      BY <1>2, <1>3, Kinds
    <2>3. Held(c)' = NO_LOCK /\ Held(c)' # EXCLUSIVE_LOCK
      BY <2>2, HeldNext, Order
    <2>4. Byte(p, "pending")' = "read" /\ Byte(p, "shared")' = Byte(p, "shared")
      BY <2>1, <1>1, Granting DEF Bytes, Modes
    <2> QED
      BY <2>1, <2>2, <2>3, <2>4
  <1>7. /\ Frame(c) /\ TypeInv' /\ (MayCall(c) \/ pc[c] \in Locking)
        /\ \A q \in Procs : q # p => \A a \in Bytes : Byte(q, a)' = Byte(q, a)
    <2>1. TypeInv'
      BY <1>3
    <2>4. Frame(c)
      BY <1>3
    <2>2. MayCall(c) \/ pc[c] \in Locking
      BY <1>3
    <2>3. \A q \in Procs : q # p => \A a \in Bytes : Byte(q, a)' = Byte(q, a)
      BY <1>3
    <2> QED
      BY <2>1, <2>2, <2>3, <2>4
  <1>5. Kernel'
    BY <1>1, <1>4, GrantExcludes DEF Bytes, Modes
  <1>6. ASSUME dropped = {} PROVE Agreed'
    <2>1. Alone /\ Upper(p) /\ \A d \in Of(p) : Exact(p, d)
      BY <1>1, <1>6 DEF LockInv, Agreed
    <2>2. Exact(p, c)'
      BY <1>4, Order DEF Exact, Reading
    <2>3. \A d \in Of(p) : d # c =>
              /\ \/ ~(level[d] > SHARED_LOCK)
                 \/ /\ inodeLock'[p] = inodeLock[p]
                    /\ nShared'[p] = nShared[p] \/ level[d] # EXCLUSIVE_LOCK
                    /\ \A b \in Bytes : b # "shared" => Byte(p, b)' = Byte(p, b)
                    /\ ~(Held(c)' > SHARED_LOCK)
              /\ \/ Byte(p, "shared")' # "none"
                 \/ Byte(p, "shared")' = Byte(p, "shared")
                 \/ level[d] = NO_LOCK
      <3>1. \A d \in Of(p) : level[d] = NO_LOCK
        BY <1>1, <1>3, OnlyReader
      <3> QED
        BY <3>1, Order
    <2>4. Alone'
      BY <1>4, <1>7, <2>1, AloneStays
    <2> QED
      BY <1>7, <1>6, <2>2, <2>3, <2>4, AgreedKeeps
  <1> QED
    BY <1>1, <1>3, <1>5, <1>6 DEF LockInv

\* A reader asks for the shared range, or gives up.
LEMMA ReadRangeAgrees == ASSUME LockInv, NEW c \in Conns, ReadRange(c) PROVE LockInv'
  <1> DEFINE p == Proc(c)
  <1>1. /\ p \in Procs /\ c \in Of(p) /\ Inv /\ TypeInv /\ Counted(p) /\ Kernel /\ Inv'
    BY ProcType, ReadRangeKeeps DEF LockInv, Inv, Local
  <1>2. /\ level[c] \in Levels /\ pc[c] \in Stages /\ inodeLock[p] \in Levels
        /\ nShared[p] \in Nat /\ nLock[p] = nShared[p]
        /\ inodeLock[p] = NO_LOCK <=> nShared[p] = 0
        /\ level[c] >= SHARED_LOCK => nShared[p] # 0
    BY <1>1, CallerCounts
  <1>3. /\ dropped' = dropped /\ Byte(p, "shared") = "none" /\ Byte(p, "reserved") = "none"
        /\ pc[c] = "read range" /\ pc[c] \in Locking /\ pc'[c] \in {"drop pending", "give up"}
        /\ level'[c] = level[c]
        /\ inodeLock'[p] = inodeLock[p]
        /\ nShared'[p] = nShared[p] /\ nLock'[p] = nLock[p] /\ nShared[p] = 0
        /\ \A q \in Procs : q # p => \A a \in Bytes : Byte(q, a)' = Byte(q, a)
        /\ \A a \in Bytes : a # "shared" => Byte(p, a)' = Byte(p, a)
        /\ pc'[c] = "give up" => Byte(p, "shared")' = Byte(p, "shared")
        /\ Frame(c) /\ TypeInv'
    BY <1>1, ReadRangeStep
  <1>4. /\ level'[c] = NO_LOCK /\ Held(c)' = NO_LOCK /\ Held(c)' # EXCLUSIVE_LOCK
        /\ Byte(p, "pending")' = Byte(p, "pending")
        /\ pc[c] \in Reading /\ pc'[c] \in Reading
        /\ \/ /\ pc'[c] = "drop pending" /\ Byte(p, "shared")' = "read"
              /\ Grant(p, "shared", "read") /\ CanLock(p, "shared", "read")
           \/ pc'[c] = "give up" /\ \A b \in Bytes : Byte(p, b)' = Byte(p, b)
    <2>1. level'[c] = NO_LOCK /\ pc'[c] # "release"
      BY <1>2, <1>3, Kinds
    <2>2. Held(c)' = NO_LOCK /\ Held(c)' # EXCLUSIVE_LOCK
      BY <2>1, HeldNext, Order
    <2>3. pc[c] \in Reading /\ pc'[c] \in Reading
      BY <1>3 DEF Reading
    <2>4. Byte(p, "pending")' = Byte(p, "pending")
      BY <1>3 DEF Bytes
    <2>5. CASE /\ Grant(p, "shared", "read") /\ CanLock(p, "shared", "read")
               /\ Goto(c, "drop pending")
      <3>1. pc'[c] = "drop pending" /\ Byte(p, "shared")' = "read"
        BY <2>5, <1>1, Granting, Going DEF Bytes, Modes, Stages, Locking
      <3> QED
        BY <2>1, <2>2, <2>3, <2>4, <2>5, <3>1
    <2>6. CASE Goto(c, "give up") /\ UNCHANGED kernel
      <3>1. pc'[c] = "give up" /\ \A b \in Bytes : Byte(p, b)' = Byte(p, b)
        BY <2>6, <1>1, Going DEF Stages, Locking, Byte
      <3> QED
        BY <2>1, <2>2, <2>3, <2>4, <3>1
    <2> QED
      BY <2>5, <2>6 DEF ReadRange
  <1>7. /\ Frame(c) /\ TypeInv' /\ (MayCall(c) \/ pc[c] \in Locking)
        /\ \A q \in Procs : q # p => \A a \in Bytes : Byte(q, a)' = Byte(q, a)
    <2>1. TypeInv'
      BY <1>3
    <2>4. Frame(c)
      BY <1>3
    <2>2. MayCall(c) \/ pc[c] \in Locking
      BY <1>3
    <2>3. \A q \in Procs : q # p => \A a \in Bytes : Byte(q, a)' = Byte(q, a)
      BY <1>3
    <2> QED
      BY <2>1, <2>2, <2>3, <2>4
  <1>5. Kernel'
    <2>1. CASE Grant(p, "shared", "read") /\ CanLock(p, "shared", "read")
      BY <2>1, <1>1, GrantExcludes DEF Bytes, Modes
    <2>2. CASE \A b \in Bytes : Byte(p, b)' = Byte(p, b)
      BY <2>2, <1>1, <1>7, LessExcludes
    <2> QED
      BY <2>1, <2>2, <1>4
  <1>6. ASSUME dropped = {} PROVE Agreed'
    <2>1. Alone /\ Upper(p) /\ \A d \in Of(p) : Exact(p, d)
      BY <1>1, <1>6 DEF LockInv, Agreed
    <2>2. Exact(p, c)'
      <3>1. Byte(p, "pending") = "read"
        BY <2>1, <1>1, <1>4 DEF Exact
      <3> QED
        BY <3>1, <1>4, Order DEF Exact
    <2>3. \A d \in Of(p) : d # c =>
              /\ \/ ~(level[d] > SHARED_LOCK)
                 \/ /\ inodeLock'[p] = inodeLock[p]
                    /\ nShared'[p] = nShared[p] \/ level[d] # EXCLUSIVE_LOCK
                    /\ \A b \in Bytes : b # "shared" => Byte(p, b)' = Byte(p, b)
                    /\ ~(Held(c)' > SHARED_LOCK)
              /\ \/ Byte(p, "shared")' # "none"
                 \/ Byte(p, "shared")' = Byte(p, "shared")
                 \/ level[d] = NO_LOCK
      <3>1. \A d \in Of(p) : level[d] = NO_LOCK
        BY <1>1, <1>3, OnlyReader
      <3> QED
        BY <3>1, Order
    <2>4. Alone'
      <3>1. Byte(p, "pending") = "read"
        BY <2>1, <1>1, <1>4 DEF Exact
      <3>2. \A d \in Conns : Proc(d) # p => Held(d) # EXCLUSIVE_LOCK
        BY <3>1, <1>1, <1>6, AskersKeepOut DEF LockInv
      <3>3. ASSUME NEW d \in Of(p) PROVE Held(d) # EXCLUSIVE_LOCK
        <4>1. level[d] = NO_LOCK
          BY <1>1, <1>3, OnlyReader
        <4> QED
          BY <4>1, HeldLevel, Order
      <3> QED
        BY <3>2, <3>3, <1>4, <1>7, NobodyAlone DEF Of
    <2> QED
      BY <1>7, <1>6, <2>2, <2>3, <2>4, AgreedKeeps
  <1> QED
    BY <1>1, <1>3, <1>5, <1>6 DEF LockInv

\* A reader has its lock, or has given up.
LEMMA DropPendingAgrees == ASSUME LockInv, NEW c \in Conns, DropPending(c) PROVE LockInv'
  <1> DEFINE p == Proc(c)
  <1>1. /\ p \in Procs /\ c \in Of(p) /\ Inv /\ TypeInv /\ Counted(p) /\ Kernel /\ Inv'
    BY ProcType, DropPendingKeeps DEF LockInv, Inv, Local
  <1>2. /\ level[c] \in Levels /\ pc[c] \in Stages /\ inodeLock[p] \in Levels
        /\ nShared[p] \in Nat /\ nLock[p] = nShared[p]
        /\ inodeLock[p] = NO_LOCK <=> nShared[p] = 0
        /\ level[c] >= SHARED_LOCK => nShared[p] # 0
    BY <1>1, CallerCounts
  <1>3. /\ dropped' = dropped /\ pc[c] \in Locking
        /\ pc'[c] = "idle"
        /\ \/ /\ level'[c] = level[c] /\ inodeLock'[p] = inodeLock[p]
              /\ nShared'[p] = nShared[p] /\ nLock'[p] = nLock[p]
              /\ Byte(p, "shared") = "none"
           \/ /\ level'[c] = SHARED_LOCK /\ inodeLock'[p] = SHARED_LOCK
              /\ nShared'[p] = 1 /\ nLock'[p] = nLock[p] + 1
        /\ nShared[p] = 0 /\ level[c] = NO_LOCK
        /\ Byte(p, "reserved") = "none"
        /\ \A q \in Procs : q # p => \A a \in Bytes : Byte(q, a)' = Byte(q, a)
        /\ Byte(p, "pending")' = "none"
        /\ \A a \in Bytes : a # "pending" => Byte(p, a)' = Byte(p, a)
        /\ Frame(c) /\ TypeInv'
    BY <1>1, DropPendingStep
  <1>4. /\ pc[c] \in Locking /\ pc'[c] = "idle" /\ Held(c)' = level'[c]
        /\ Byte(p, "shared")' = Byte(p, "shared")
        /\ \/ level'[c] = NO_LOCK
           \/ level'[c] = SHARED_LOCK /\ pc[c] = "drop pending"
        /\ Held(c)' # EXCLUSIVE_LOCK
    <2>1. pc[c] \in Locking /\ pc'[c] = "idle"
      BY <1>3
    <2>2. Held(c)' = level'[c]
      BY <2>1, HeldNext
    <2>3. Byte(p, "shared")' = Byte(p, "shared")
      BY <1>3 DEF Bytes
    <2>4. CASE At(c, "drop pending") /\ SetLevels(c, SHARED_LOCK)
      <3>1. level'[c] = SHARED_LOCK
        BY <2>4, <1>1, Setting, Kinds
      <3> QED
        BY <2>1, <2>2, <2>3, <2>4, <3>1, Order DEF At
    <2>5. CASE level' = level
      <3>1. level'[c] = NO_LOCK
        BY <2>5, <1>3
      <3> QED
        BY <2>1, <2>2, <2>3, <3>1, Order
    <2> QED
      BY <2>4, <2>5 DEF DropPending
  <1>7. /\ Frame(c) /\ TypeInv' /\ (MayCall(c) \/ pc[c] \in Locking)
        /\ \A q \in Procs : q # p => \A a \in Bytes : Byte(q, a)' = Byte(q, a)
    <2>1. TypeInv'
      BY <1>3
    <2>4. Frame(c)
      BY <1>3
    <2>2. MayCall(c) \/ pc[c] \in Locking
      BY <1>3
    <2>3. \A q \in Procs : q # p => \A a \in Bytes : Byte(q, a)' = Byte(q, a)
      BY <1>3
    <2> QED
      BY <2>1, <2>2, <2>3, <2>4
  <1>5. Kernel'
    <2>1. \A b \in Bytes : Byte(p, b)' = Byte(p, b) \/ Byte(p, b)' = "none"
      BY <1>3
    <2> QED
      BY <2>1, <1>1, <1>7, LessExcludes
  <1>6. ASSUME dropped = {} PROVE Agreed'
    <2>1. Alone /\ Upper(p) /\ \A d \in Of(p) : Exact(p, d)
      BY <1>1, <1>6 DEF LockInv, Agreed
    <2>2. Exact(p, c)'
      <3>1. pc[c] = "drop pending" => Byte(p, "shared") # "none"
        BY <2>1, <1>1 DEF Exact
      <3> QED
        BY <3>1, <1>4, Order DEF Exact, Reading
    <2>3. \A d \in Of(p) : d # c =>
              /\ \/ ~(level[d] > SHARED_LOCK)
                 \/ /\ inodeLock'[p] = inodeLock[p]
                    /\ nShared'[p] = nShared[p] \/ level[d] # EXCLUSIVE_LOCK
                    /\ \A b \in Bytes : b # "shared" => Byte(p, b)' = Byte(p, b)
                    /\ ~(Held(c)' > SHARED_LOCK)
              /\ \/ Byte(p, "shared")' # "none"
                 \/ Byte(p, "shared")' = Byte(p, "shared")
                 \/ level[d] = NO_LOCK
      <3>1. \A d \in Of(p) : level[d] = NO_LOCK
        BY <1>1, <1>3, OnlyReader
      <3> QED
        BY <3>1, Order
    <2>4. Alone'
      BY <1>4, <1>7, <2>1, AloneStays
    <2> QED
      BY <1>7, <1>6, <2>2, <2>3, <2>4, AgreedKeeps
  <1> QED
    BY <1>1, <1>3, <1>5, <1>6 DEF LockInv

\* A reader prepares to write.
LEMMA ReserveAgrees == ASSUME LockInv, NEW c \in Conns, Reserve(c) PROVE LockInv'
  <1> DEFINE p == Proc(c)
  <1>1. /\ p \in Procs /\ c \in Of(p) /\ Inv /\ TypeInv /\ Counted(p) /\ Kernel /\ Inv'
    BY ProcType, ReserveKeeps DEF LockInv, Inv, Local
  <1>2. /\ level[c] \in Levels /\ pc[c] \in Stages /\ inodeLock[p] \in Levels
        /\ nShared[p] \in Nat /\ nLock[p] = nShared[p]
        /\ inodeLock[p] = NO_LOCK <=> nShared[p] = 0
        /\ level[c] >= SHARED_LOCK => nShared[p] # 0
    BY <1>1, CallerCounts
  <1>3. /\ dropped' = dropped /\ MayCall(c)
        /\ pc'[c] = pc[c] /\ pc[c] = "idle"
        /\ level[c] = SHARED_LOCK /\ level'[c] = RESERVED_LOCK
        /\ inodeLock[p] = SHARED_LOCK /\ inodeLock'[p] = RESERVED_LOCK
        /\ nShared'[p] = nShared[p] /\ nLock'[p] = nLock[p]
        /\ \A q \in Procs : q # p => \A a \in Bytes : Byte(q, a)' = Byte(q, a)
        /\ \A a \in Bytes : a # "reserved" => Byte(p, a)' = Byte(p, a)
        /\ Frame(c) /\ TypeInv'
    BY <1>1, ReserveStep
  <1>4. /\ Grant(p, "reserved", "write") /\ CanLock(p, "reserved", "write")
        /\ Byte(p, "reserved")' = "write" /\ Byte(p, "shared")' = Byte(p, "shared")
        /\ pc'[c] = "idle" /\ Held(c)' = RESERVED_LOCK /\ Held(c)' # EXCLUSIVE_LOCK
    <2>1. Grant(p, "reserved", "write") /\ CanLock(p, "reserved", "write")
      BY DEF Reserve
    <2>2. pc'[c] = "idle"
      BY <1>3
    <2>3. Held(c)' = RESERVED_LOCK /\ Held(c)' # EXCLUSIVE_LOCK
      BY <2>2, <1>3, HeldNext, Order
    <2>4. Byte(p, "reserved")' = "write" /\ Byte(p, "shared")' = Byte(p, "shared")
      BY <2>1, <1>1, Granting DEF Bytes, Modes
    <2> QED
      BY <2>1, <2>2, <2>3, <2>4
  <1>7. /\ Frame(c) /\ TypeInv' /\ (MayCall(c) \/ pc[c] \in Locking)
        /\ \A q \in Procs : q # p => \A a \in Bytes : Byte(q, a)' = Byte(q, a)
    <2>1. TypeInv'
      BY <1>3
    <2>4. Frame(c)
      BY <1>3
    <2>2. MayCall(c) \/ pc[c] \in Locking
      BY <1>3
    <2>3. \A q \in Procs : q # p => \A a \in Bytes : Byte(q, a)' = Byte(q, a)
      BY <1>3
    <2> QED
      BY <2>1, <2>2, <2>3, <2>4
  <1>5. Kernel'
    BY <1>1, <1>4, GrantExcludes DEF Bytes, Modes
  <1>6. ASSUME dropped = {} PROVE Agreed'
    <2>1. Alone /\ Upper(p) /\ \A d \in Of(p) : Exact(p, d)
      BY <1>1, <1>6 DEF LockInv, Agreed
    <2>2. Exact(p, c)'
      <3>1. Byte(p, "shared") # "none"
        BY <2>1, <1>1, <1>3, Kinds DEF Exact
      <3>2. Held(c)' = inodeLock'[p]
        BY <1>3, <1>4
      <3> QED
        BY <3>1, <3>2, <1>4, Order DEF Exact, Reading
    <2>3. \A d \in Of(p) : d # c =>
              /\ \/ ~(level[d] > SHARED_LOCK)
                 \/ /\ inodeLock'[p] = inodeLock[p]
                    /\ nShared'[p] = nShared[p] \/ level[d] # EXCLUSIVE_LOCK
                    /\ \A b \in Bytes : b # "shared" => Byte(p, b)' = Byte(p, b)
                    /\ ~(Held(c)' > SHARED_LOCK)
              /\ \/ Byte(p, "shared")' # "none"
                 \/ Byte(p, "shared")' = Byte(p, "shared")
                 \/ level[d] = NO_LOCK
      <3>1. ASSUME NEW d \in Of(p), d # c PROVE ~(level[d] > SHARED_LOCK)
        BY <3>1, <1>3, <1>6, <1>7, Beside, Order
      <3> QED
        BY <3>1, <1>4
    <2>4. Alone'
      BY <1>4, <1>7, <2>1, AloneStays
    <2> QED
      BY <1>7, <1>6, <2>2, <2>3, <2>4, AgreedKeeps
  <1> QED
    BY <1>1, <1>3, <1>5, <1>6 DEF LockInv

\* A writer keeps new readers out.
LEMMA WritePendingAgrees == ASSUME LockInv, NEW c \in Conns, WritePending(c) PROVE LockInv'
  <1> DEFINE p == Proc(c)
  <1>1. /\ p \in Procs /\ c \in Of(p) /\ Inv /\ TypeInv /\ Counted(p) /\ Kernel /\ Inv'
    BY ProcType, WritePendingKeeps DEF LockInv, Inv, Local
  <1>2. /\ level[c] \in Levels /\ pc[c] \in Stages /\ inodeLock[p] \in Levels
        /\ nShared[p] \in Nat /\ nLock[p] = nShared[p]
        /\ inodeLock[p] = NO_LOCK <=> nShared[p] = 0
        /\ level[c] >= SHARED_LOCK => nShared[p] # 0
    BY <1>1, CallerCounts
  <1>3. /\ dropped' = dropped /\ MayCall(c)
        /\ pc'[c] \in {"idle", "write range"}
        /\ level[c] >= SHARED_LOCK /\ level'[c] >= SHARED_LOCK
        /\ inodeLock[p] # NO_LOCK /\ inodeLock'[p] # NO_LOCK
        /\ nShared'[p] = nShared[p] /\ nLock'[p] = nLock[p]
        /\ \A q \in Procs : q # p => \A a \in Bytes : Byte(q, a)' = Byte(q, a)
        /\ \A a \in Bytes : a # "pending" => Byte(p, a)' = Byte(p, a)
        /\ Frame(c) /\ TypeInv'
    BY <1>1, WritePendingStep
  <1>4. /\ Grant(p, "pending", "write") /\ CanLock(p, "pending", "write")
        /\ Byte(p, "pending")' = "write" /\ Byte(p, "shared")' = Byte(p, "shared")
        /\ Byte(p, "reserved")' = Byte(p, "reserved")
        /\ level[c] \in {SHARED_LOCK, RESERVED_LOCK} /\ Held(c) = level[c]
        /\ inodeLock[p] = level[c] /\ Held(c)' = level'[c] /\ Held(c)' = inodeLock'[p]
        /\ \/ pc'[c] = "idle" /\ level'[c] = PENDING_LOCK
           \/ pc'[c] = "write range" /\ level'[c] = level[c] /\ nShared'[p] = 1
        /\ Held(c)' # EXCLUSIVE_LOCK
    <2>1. Grant(p, "pending", "write") /\ CanLock(p, "pending", "write")
      BY DEF WritePending
    <2>2. /\ Byte(p, "pending")' = "write" /\ Byte(p, "shared")' = Byte(p, "shared")
          /\ Byte(p, "reserved")' = Byte(p, "reserved")
      BY <2>1, <1>1, Granting DEF Bytes, Modes
    <2>3. level[c] \in {SHARED_LOCK, RESERVED_LOCK} /\ inodeLock[p] = level[c] /\ pc[c] = "idle"
      BY DEF WritePending, Starts, At
    <2>4. Held(c) = level[c]
      BY <2>3, HeldLevel
    <2>5. CASE SetLevels(c, PENDING_LOCK) /\ UNCHANGED pc
      <3>1. level'[c] = PENDING_LOCK /\ inodeLock'[p] = PENDING_LOCK
        BY <2>5, <1>1, Setting, Kinds
      <3>2. pc'[c] = "idle"
        BY <2>3, <2>5
      <3>3. Held(c)' = level'[c]
        BY <3>2, HeldNext
      <3> QED
        BY <2>1, <2>2, <2>3, <2>4, <3>1, <3>2, <3>3, Order
    <2>6. CASE nShared[p] <= 1 /\ Goto(c, "write range") /\ UNCHANGED <<level, inodeLock>>
      <3>1. pc'[c] = "write range"
        BY <2>6, <1>1, Going, Kinds
      <3>2. Held(c)' = level'[c]
        BY <3>1, HeldNext
      <3>3. nShared'[p] = 1
        <4>1. nShared[p] # 0 /\ nShared'[p] = nShared[p] /\ nShared[p] \in Nat
          BY <1>2, <1>3
        <4>2. nShared[p] <= 1
          BY <2>6
        <4>3. nShared[p] = 1
          BY <4>1, <4>2, OneLeft
        <4> QED
          BY <4>1, <4>3
      <3>4. level'[c] = level[c] /\ inodeLock'[p] = inodeLock[p]
        BY <2>6
      <3>5. Held(c)' # EXCLUSIVE_LOCK
        BY <3>2, <3>4, <2>3, Order
      <3> QED
        BY <2>1, <2>2, <2>3, <2>4, <3>1, <3>2, <3>3, <3>4, <3>5
    <2> QED
      BY <2>5, <2>6 DEF WritePending
  <1>7. /\ Frame(c) /\ TypeInv' /\ (MayCall(c) \/ pc[c] \in Locking)
        /\ \A q \in Procs : q # p => \A a \in Bytes : Byte(q, a)' = Byte(q, a)
    <2>1. TypeInv'
      BY <1>3
    <2>4. Frame(c)
      BY <1>3
    <2>2. MayCall(c) \/ pc[c] \in Locking
      BY <1>3
    <2>3. \A q \in Procs : q # p => \A a \in Bytes : Byte(q, a)' = Byte(q, a)
      BY <1>3
    <2> QED
      BY <2>1, <2>2, <2>3, <2>4
  <1>5. Kernel'
    BY <1>1, <1>4, GrantExcludes DEF Bytes, Modes
  <1>6. ASSUME dropped = {} PROVE Agreed'
    <2>1. Alone /\ Upper(p) /\ \A d \in Of(p) : Exact(p, d)
      BY <1>1, <1>6 DEF LockInv, Agreed
    <2>2. Exact(p, c)'
      <3>1. Byte(p, "shared") # "none"
        BY <2>1, <1>1, <1>3 DEF Exact
      <3>2. Held(c) = RESERVED_LOCK => Byte(p, "reserved") = "write"
        BY <2>1, <1>1 DEF Exact
      <3> QED
        BY <3>1, <3>2, <1>4, Order DEF Exact, Reading
    <2>3. \A d \in Of(p) : d # c =>
              /\ \/ ~(level[d] > SHARED_LOCK)
                 \/ /\ inodeLock'[p] = inodeLock[p]
                    /\ nShared'[p] = nShared[p] \/ level[d] # EXCLUSIVE_LOCK
                    /\ \A b \in Bytes : b # "shared" => Byte(p, b)' = Byte(p, b)
                    /\ ~(Held(c)' > SHARED_LOCK)
              /\ \/ Byte(p, "shared")' # "none"
                 \/ Byte(p, "shared")' = Byte(p, "shared")
                 \/ level[d] = NO_LOCK
      <3>1. ASSUME NEW d \in Of(p), d # c PROVE ~(level[d] > SHARED_LOCK)
        <4>1. CASE level[c] = SHARED_LOCK
          BY <4>1, <3>1, <1>4, <1>6, <1>7, Beside, Order
        <4>2. CASE level[c] = RESERVED_LOCK
          BY <4>2, <3>1, <1>4, <1>6, <1>7, Beside, Order
        <4> QED
          BY <4>1, <4>2, <1>4
      <3> QED
        BY <3>1, <1>4
    <2>4. Alone'
      BY <1>4, <1>7, <2>1, AloneStays
    <2> QED
      BY <1>7, <1>6, <2>2, <2>3, <2>4, AgreedKeeps
  <1> QED
    BY <1>1, <1>3, <1>5, <1>6 DEF LockInv

\* A writer asks for the shared range.
LEMMA WriteRangeAgrees == ASSUME LockInv, NEW c \in Conns, WriteRange(c) PROVE LockInv'
  <1> DEFINE p == Proc(c)
  <1>1. /\ p \in Procs /\ c \in Of(p) /\ Inv /\ TypeInv /\ Counted(p) /\ Kernel /\ Inv'
    BY ProcType, WriteRangeKeeps DEF LockInv, Inv, Local
  <1>2. /\ level[c] \in Levels /\ pc[c] \in Stages /\ inodeLock[p] \in Levels
        /\ nShared[p] \in Nat /\ nLock[p] = nShared[p]
        /\ inodeLock[p] = NO_LOCK <=> nShared[p] = 0
        /\ level[c] >= SHARED_LOCK => nShared[p] # 0
    BY <1>1, CallerCounts
  <1>3. /\ dropped' = dropped /\ nShared[p] # 0
        /\ pc'[c] = "idle" /\ (MayCall(c) \/ pc[c] \in Locking)
        /\ level[c] >= SHARED_LOCK /\ level'[c] >= SHARED_LOCK
        /\ inodeLock[p] # NO_LOCK /\ inodeLock'[p] # NO_LOCK
        /\ nShared'[p] = nShared[p] /\ nLock'[p] = nLock[p]
        /\ \A q \in Procs : q # p => \A a \in Bytes : Byte(q, a)' = Byte(q, a)
        /\ \A a \in Bytes : a # "shared" => Byte(p, a)' = Byte(p, a)
        /\ Frame(c) /\ TypeInv'
    BY <1>1, WriteRangeStep
  <1>4. /\ level[c] >= SHARED_LOCK /\ (nShared[p] = 1 \/ dropped # {})
        /\ dropped = {} => Byte(p, "pending") = "write" /\ Byte(p, "shared") # "none"
        /\ Byte(p, "pending")' = Byte(p, "pending")
        /\ pc'[c] = "idle" /\ Held(c)' = level'[c] /\ inodeLock'[p] = level'[c]
        /\ \/ /\ level'[c] = EXCLUSIVE_LOCK
              /\ Grant(p, "shared", "write") /\ CanLock(p, "shared", "write")
              /\ Byte(p, "shared")' = "write"
           \/ level'[c] = PENDING_LOCK /\ \A b \in Bytes : Byte(p, b)' = Byte(p, b)
    <2>1. level[c] >= SHARED_LOCK /\ pc'[c] = "idle" /\ Byte(p, "pending")' = Byte(p, "pending")
      BY <1>3 DEF Bytes
    <2>2. Held(c)' = level'[c]
      BY <2>1, HeldNext
    <2>3. ASSUME dropped = {}
          PROVE  nShared[p] = 1 /\ Byte(p, "pending") = "write" /\ Byte(p, "shared") # "none"
      <3>1. Exact(p, c)
        BY <2>3, <1>1 DEF LockInv, Agreed
      <3>2. CASE pc[c] = "write range"
        BY <3>1, <3>2, <2>1 DEF Exact
      <3>3. CASE pc[c] = "idle" /\ level[c] = PENDING_LOCK /\ nShared[p] <= 1
        <4>1. Held(c) = PENDING_LOCK
          BY <3>3, HeldLevel
        <4>2. nShared[p] = 1
          BY <3>3, <2>1, <1>2
        <4>3. PENDING_LOCK >= PENDING_LOCK
          BY DEF PENDING_LOCK
        <4> QED
          BY <4>1, <4>2, <4>3, <3>1, <2>1 DEF Exact
      <3> QED
        BY <3>2, <3>3 DEF WriteRange, Starts, At
    <2>4. CASE /\ Grant(p, "shared", "write") /\ CanLock(p, "shared", "write")
               /\ SetLevels(c, EXCLUSIVE_LOCK)
      <3>1. level'[c] = EXCLUSIVE_LOCK /\ inodeLock'[p] = level'[c]
        BY <2>4, <1>1, Setting, Kinds
      <3>2. Byte(p, "shared")' = "write"
        BY <2>4, <1>1, Granting DEF Bytes, Modes
      <3> QED
        BY <2>1, <2>2, <2>3, <2>4, <3>1, <3>2
    <2>5. CASE SetLevels(c, PENDING_LOCK) /\ UNCHANGED kernel
      <3>1. level'[c] = PENDING_LOCK /\ inodeLock'[p] = level'[c]
        BY <2>5, <1>1, Setting, Kinds
      <3>2. \A b \in Bytes : Byte(p, b)' = Byte(p, b)
        BY <2>5 DEF Byte
      <3> QED
        BY <2>1, <2>2, <2>3, <3>1, <3>2
    <2> QED
      BY <2>4, <2>5 DEF WriteRange
  <1>7. /\ Frame(c) /\ TypeInv' /\ (MayCall(c) \/ pc[c] \in Locking)
        /\ \A q \in Procs : q # p => \A a \in Bytes : Byte(q, a)' = Byte(q, a)
    <2>1. TypeInv'
      BY <1>3
    <2>4. Frame(c)
      BY <1>3
    <2>2. MayCall(c) \/ pc[c] \in Locking
      BY <1>3
    <2>3. \A q \in Procs : q # p => \A a \in Bytes : Byte(q, a)' = Byte(q, a)
      BY <1>3
    <2> QED
      BY <2>1, <2>2, <2>3, <2>4
  <1>5. Kernel'
    <2>1. CASE Grant(p, "shared", "write") /\ CanLock(p, "shared", "write")
      BY <2>1, <1>1, GrantExcludes DEF Bytes, Modes
    <2>2. CASE \A b \in Bytes : Byte(p, b)' = Byte(p, b)
      BY <2>2, <1>1, <1>7, LessExcludes
    <2> QED
      BY <2>1, <2>2, <1>4
  <1>6. ASSUME dropped = {} PROVE Agreed'
    <2>1. Alone /\ Upper(p) /\ \A d \in Of(p) : Exact(p, d)
      BY <1>1, <1>6 DEF LockInv, Agreed
    <2>2. Exact(p, c)'
      <3>1. Byte(p, "shared")' # "none"
        BY <1>4, <1>6 DEF Bytes
      <3>2. nShared'[p] = 1 /\ Byte(p, "pending")' = "write"
        BY <1>3, <1>4, <1>6
      <3>3. Held(c)' # RESERVED_LOCK
        BY <1>4, Order
      <3> QED
        BY <3>1, <3>2, <3>3, <1>4 DEF Exact, Reading
    <2>3. \A d \in Of(p) : d # c =>
              /\ \/ ~(level[d] > SHARED_LOCK)
                 \/ /\ inodeLock'[p] = inodeLock[p]
                    /\ nShared'[p] = nShared[p] \/ level[d] # EXCLUSIVE_LOCK
                    /\ \A b \in Bytes : b # "shared" => Byte(p, b)' = Byte(p, b)
                    /\ ~(Held(c)' > SHARED_LOCK)
              /\ \/ Byte(p, "shared")' # "none"
                 \/ Byte(p, "shared")' = Byte(p, "shared")
                 \/ level[d] = NO_LOCK
      <3>1. \A d \in Of(p) : d # c => level[d] = NO_LOCK
        BY <1>1, <1>4, <1>6, OnlyReader
      <3> QED
        BY <3>1, Order
    <2>4. Alone'
      <3>1. CASE Held(c)' # EXCLUSIVE_LOCK
        <4>1. Byte(p, "shared")' = Byte(p, "shared")
          BY <3>1, <1>4 DEF Bytes
        <4> QED
          BY <4>1, <3>1, <1>7, <2>1, AloneStays
      <3>2. CASE Byte(p, "shared")' = "write"
        <4>1. \A q \in Procs : q # p => Byte(q, "shared")' = "none"
          BY <3>2, <1>1, <1>5 DEF Kernel, Bytes
        <4>2. \A d \in Conns : Proc(d) # p => Held(d) # EXCLUSIVE_LOCK
          BY <1>1, <1>4, <1>6, <2>1, ReadersKeepOut
        <4>3. \A d \in Conns : d # c => Held(d)' = Held(d)
          BY <1>7 DEF Frame, Held, At
        <4>4. \A d \in Conns : Held(d)' = EXCLUSIVE_LOCK => Proc(d) = p
          BY <4>2, <4>3
        <4> QED
          BY <4>1, <4>4 DEF Alone, Proc
      <3> QED
        BY <3>1, <3>2, <1>4, Order
    <2> QED
      BY <1>7, <1>6, <2>2, <2>3, <2>4, AgreedKeeps
  <1> QED
    BY <1>1, <1>3, <1>5, <1>6 DEF LockInv

\* A writer asks for a read lock on the shared range again.
LEMMA DowngradeAgrees == ASSUME LockInv, NEW c \in Conns, Downgrade(c) PROVE LockInv'
  <1> DEFINE p == Proc(c)
  <1>1. /\ p \in Procs /\ c \in Of(p) /\ Inv /\ TypeInv /\ Counted(p) /\ Kernel /\ Inv'
    BY ProcType, DowngradeKeeps DEF LockInv, Inv, Local
  <1>2. /\ level[c] \in Levels /\ pc[c] \in Stages /\ inodeLock[p] \in Levels
        /\ nShared[p] \in Nat /\ nLock[p] = nShared[p]
        /\ inodeLock[p] = NO_LOCK <=> nShared[p] = 0
        /\ level[c] >= SHARED_LOCK => nShared[p] # 0
    BY <1>1, CallerCounts
  <1>3. /\ dropped' = dropped /\ MayCall(c)
        /\ pc'[c] = "downgrade"
        /\ level[c] >= SHARED_LOCK /\ level'[c] = level[c]
        /\ inodeLock'[p] = inodeLock[p]
        /\ nShared'[p] = nShared[p] /\ nLock'[p] = nLock[p]
        /\ \A q \in Procs : q # p => \A a \in Bytes : Byte(q, a)' = Byte(q, a)
        /\ \A a \in Bytes : a # "shared" => Byte(p, a)' = Byte(p, a)
        /\ Frame(c) /\ TypeInv'
    BY <1>1, DowngradeStep
  <1>4. /\ Grant(p, "shared", "read") /\ CanLock(p, "shared", "read")
        /\ Byte(p, "shared")' = "read" /\ Byte(p, "shared")' # "none"
        /\ \A b \in Bytes : b # "shared" => Byte(p, b)' = Byte(p, b)
        /\ level[c] > SHARED_LOCK /\ Held(c) > SHARED_LOCK
        /\ pc'[c] = "downgrade" /\ level'[c] = level[c] /\ Held(c)' = Held(c)
    <2>1. Grant(p, "shared", "read") /\ CanLock(p, "shared", "read") /\ level[c] > SHARED_LOCK
      BY DEF Downgrade
    <2>2. pc[c] = "idle"
      BY DEF Downgrade, Starts, At
    <2>3. pc'[c] = "downgrade" /\ level'[c] = level[c]
      BY <1>3
    <2>4. Held(c) = level[c] /\ Held(c)' = level[c]
      BY <2>2, <2>3, HeldLevel, HeldNext
    <2>5. /\ Byte(p, "shared")' = "read"
          /\ \A b \in Bytes : b # "shared" => Byte(p, b)' = Byte(p, b)
      BY <2>1, <1>1, Granting DEF Bytes, Modes
    <2> QED
      BY <2>1, <2>3, <2>4, <2>5
  <1>7. /\ Frame(c) /\ TypeInv' /\ (MayCall(c) \/ pc[c] \in Locking)
        /\ \A q \in Procs : q # p => \A a \in Bytes : Byte(q, a)' = Byte(q, a)
    <2>1. TypeInv'
      BY <1>3
    <2>4. Frame(c)
      BY <1>3
    <2>2. MayCall(c) \/ pc[c] \in Locking
      BY <1>3
    <2>3. \A q \in Procs : q # p => \A a \in Bytes : Byte(q, a)' = Byte(q, a)
      BY <1>3
    <2> QED
      BY <2>1, <2>2, <2>3, <2>4
  <1>5. Kernel'
    BY <1>1, <1>4, GrantExcludes DEF Bytes, Modes
  <1>6. ASSUME dropped = {} PROVE Agreed'
    <2>1. Alone /\ Upper(p) /\ \A d \in Of(p) : Exact(p, d)
      BY <1>1, <1>6 DEF LockInv, Agreed
    <2>2. Exact(p, c)'
      <3>1. Exact(p, c) /\ inodeLock'[p] = inodeLock[p] /\ nShared'[p] = nShared[p]
        BY <2>1, <1>1, <1>3
      <3>2. Byte(p, "pending")' = Byte(p, "pending") /\ Byte(p, "reserved")' = Byte(p, "reserved")
        BY <1>4 DEF Bytes
      <3> QED
        BY <3>1, <3>2, <1>4 DEF Exact, Reading
    <2>3. \A d \in Of(p) : d # c =>
              /\ \/ ~(level[d] > SHARED_LOCK)
                 \/ /\ inodeLock'[p] = inodeLock[p]
                    /\ nShared'[p] = nShared[p] \/ level[d] # EXCLUSIVE_LOCK
                    /\ \A b \in Bytes : b # "shared" => Byte(p, b)' = Byte(p, b)
                    /\ ~(Held(c)' > SHARED_LOCK)
              /\ \/ Byte(p, "shared")' # "none"
                 \/ Byte(p, "shared")' = Byte(p, "shared")
                 \/ level[d] = NO_LOCK
      <3>1. Held(c) > SHARED_LOCK
        BY <1>4
      <3>2. ASSUME NEW d \in Of(p), d # c PROVE ~(level[d] > SHARED_LOCK)
        BY <3>1, <3>2, <1>6, <1>7, Beside
      <3> QED
        BY <3>2, <1>4
    <2>4. Alone'
      <3>1. Byte(p, "shared") # "none"
        <4>1. level[c] \in Levels /\ Exact(p, c)
          BY <2>1, <1>1, <1>2
        <4> QED
          BY <4>1, <1>4, Order DEF Exact
      <3>2. \A d \in Conns : Proc(d) # p => Held(d) # EXCLUSIVE_LOCK
        BY <3>1, <1>1, <2>1, ReadersKeepOut
      <3>3. \A d \in Conns : Held(d)' = Held(d)
        <4>1. \A d \in Conns : d # c => Held(d)' = Held(d)
          BY <1>7 DEF Frame, Held, At
        <4> QED
          BY <4>1, <1>4
      <3>4. \A q \in Procs : q # p => Byte(q, "shared")' = Byte(q, "shared")
        BY <1>7 DEF Bytes
      <3> QED
        BY <2>1, <3>2, <3>3, <3>4 DEF Alone, Proc
    <2> QED
      BY <1>7, <1>6, <2>2, <2>3, <2>4, AgreedKeeps
  <1> QED
    BY <1>1, <1>3, <1>5, <1>6 DEF LockInv

\* A writer gives back the single bytes.
LEMMA DropBytesAgrees == ASSUME LockInv, NEW c \in Conns, DropBytes(c) PROVE LockInv'
  <1> DEFINE p == Proc(c)
  <1>1. /\ p \in Procs /\ c \in Of(p) /\ Inv /\ TypeInv /\ Counted(p) /\ Kernel /\ Inv'
    BY ProcType, DropBytesKeeps DEF LockInv, Inv, Local
  <1>2. /\ level[c] \in Levels /\ pc[c] \in Stages /\ inodeLock[p] \in Levels
        /\ nShared[p] \in Nat /\ nLock[p] = nShared[p]
        /\ inodeLock[p] = NO_LOCK <=> nShared[p] = 0
        /\ level[c] >= SHARED_LOCK => nShared[p] # 0
    BY <1>1, CallerCounts
  <1>3. /\ dropped' = dropped /\ nShared[p] # 0
        /\ pc'[c] \in {"idle", "release"} /\ (MayCall(c) \/ pc[c] \in Locking)
        /\ level[c] >= SHARED_LOCK /\ level'[c] >= SHARED_LOCK
        /\ inodeLock'[p] = SHARED_LOCK
        /\ nShared'[p] = nShared[p] /\ nLock'[p] = nLock[p]
        /\ \A q \in Procs : q # p => \A a \in Bytes : Byte(q, a)' = Byte(q, a)
        /\ \A a \in Bytes : a = "shared" => Byte(p, a)' = Byte(p, a)
        /\ Frame(c) /\ TypeInv'
    BY <1>1, DropBytesStep
  <1>4. /\ Byte(p, "shared")' = Byte(p, "shared")
        /\ \A b \in Bytes : Byte(p, b)' = Byte(p, b) \/ Byte(p, b)' = "none"
        /\ dropped = {} => level[c] > SHARED_LOCK /\ Held(c) > SHARED_LOCK
        /\ inodeLock'[p] = SHARED_LOCK
        /\ \/ pc'[c] = "idle" /\ level'[c] = SHARED_LOCK
           \/ pc'[c] = "release" /\ level'[c] = level[c]
        /\ Held(c)' = SHARED_LOCK /\ Held(c)' # EXCLUSIVE_LOCK
    <2>1. Byte(p, "shared")' = Byte(p, "shared")
      BY <1>3 DEF Bytes
    <2>2. \A b \in Bytes : Byte(p, b)' = Byte(p, b) \/ Byte(p, b)' = "none"
      <3>1. kernel' = [kernel EXCEPT ![p]["pending"] = "none", ![p]["reserved"] = "none"]
        BY DEF DropBytes
      <3> QED
        BY <3>1, <1>1 DEF TypeInv, Byte, Bytes, Modes
    <2>3. inodeLock'[p] = SHARED_LOCK
      BY <1>3
    <2>4. CASE pc[c] = "downgrade" /\ level' = [level EXCEPT ![c] = SHARED_LOCK] /\ Goto(c, "idle")
      <3>1. level'[c] = SHARED_LOCK /\ pc'[c] = "idle"
        BY <2>4, <1>1, Going, Kinds DEF TypeInv
      <3>2. Held(c)' = SHARED_LOCK
        BY <3>1, HeldNext
      <3>3. dropped = {} => level[c] > SHARED_LOCK
        BY <2>4, <1>1 DEF LockInv, Agreed, Exact
      <3>4. Held(c) = level[c]
        BY <2>4, HeldLevel
      <3> QED
        BY <2>1, <2>2, <2>3, <3>1, <3>2, <3>3, <3>4, Order
    <2>5. CASE pc[c] = "idle" /\ level[c] > SHARED_LOCK /\ Goto(c, "release") /\ level' = level
      <3>1. level'[c] = level[c] /\ pc'[c] = "release"
        BY <2>5, <1>1, Going, Kinds
      <3>2. Held(c)' = SHARED_LOCK
        BY <3>1, HeldNext
      <3>3. Held(c) = level[c]
        BY <2>5, HeldLevel
      <3> QED
        BY <2>1, <2>2, <2>3, <2>5, <3>1, <3>2, <3>3, Order
    <2> QED
      BY <2>4, <2>5 DEF DropBytes, Starts, At
  <1>7. /\ Frame(c) /\ TypeInv' /\ (MayCall(c) \/ pc[c] \in Locking)
        /\ \A q \in Procs : q # p => \A a \in Bytes : Byte(q, a)' = Byte(q, a)
    <2>1. TypeInv'
      BY <1>3
    <2>4. Frame(c)
      BY <1>3
    <2>2. MayCall(c) \/ pc[c] \in Locking
      BY <1>3
    <2>3. \A q \in Procs : q # p => \A a \in Bytes : Byte(q, a)' = Byte(q, a)
      BY <1>3
    <2> QED
      BY <2>1, <2>2, <2>3, <2>4
  <1>5. Kernel'
    BY <1>1, <1>4, <1>7, LessExcludes
  <1>6. ASSUME dropped = {} PROVE Agreed'
    <2>1. Alone /\ Upper(p) /\ \A d \in Of(p) : Exact(p, d)
      BY <1>1, <1>6 DEF LockInv, Agreed
    <2>2. Exact(p, c)'
      <3>1. Byte(p, "shared") # "none"
        <4>1. level[c] \in Levels /\ Exact(p, c)
          BY <2>1, <1>1, <1>2
        <4> QED
          BY <4>1, <1>4, <1>6, Order DEF Exact
      <3>2. Byte(p, "shared")' # "none"
        BY <3>1, <1>4
      <3>3. pc'[c] = "release" => level'[c] > SHARED_LOCK
        BY <1>4, <1>6
      <3> QED
        BY <3>2, <3>3, <1>4, Order DEF Exact, Reading
    <2>3. \A d \in Of(p) : d # c =>
              /\ \/ ~(level[d] > SHARED_LOCK)
                 \/ /\ inodeLock'[p] = inodeLock[p]
                    /\ nShared'[p] = nShared[p] \/ level[d] # EXCLUSIVE_LOCK
                    /\ \A b \in Bytes : b # "shared" => Byte(p, b)' = Byte(p, b)
                    /\ ~(Held(c)' > SHARED_LOCK)
              /\ \/ Byte(p, "shared")' # "none"
                 \/ Byte(p, "shared")' = Byte(p, "shared")
                 \/ level[d] = NO_LOCK
      <3>1. Held(c) > SHARED_LOCK
        BY <1>4, <1>6
      <3>2. ASSUME NEW d \in Of(p), d # c PROVE ~(level[d] > SHARED_LOCK)
        BY <3>1, <3>2, <1>6, <1>7, Beside
      <3> QED
        BY <3>2, <1>4
    <2>4. Alone'
      BY <1>4, <1>7, <2>1, AloneStays
    <2> QED
      BY <1>7, <1>6, <2>2, <2>3, <2>4, AgreedKeeps
  <1> QED
    BY <1>1, <1>3, <1>5, <1>6 DEF LockInv

\* A connection gives its lock back, the last one for the process.
LEMMA ReleaseAgrees == ASSUME LockInv, NEW c \in Conns, Release(c) PROVE LockInv'
  <1> DEFINE p == Proc(c)
  <1>1. /\ p \in Procs /\ c \in Of(p) /\ Inv /\ TypeInv /\ Counted(p) /\ Kernel /\ Inv'
    BY ProcType, ReleaseKeeps DEF LockInv, Inv, Local
  <1>2. /\ level[c] \in Levels /\ pc[c] \in Stages /\ inodeLock[p] \in Levels
        /\ nShared[p] \in Nat /\ nLock[p] = nShared[p]
        /\ inodeLock[p] = NO_LOCK <=> nShared[p] = 0
        /\ level[c] >= SHARED_LOCK => nShared[p] # 0
    BY <1>1, CallerCounts
  <1>3. /\ dropped' = dropped /\ nShared[p] # 0
        /\ pc'[c] = "idle" /\ (MayCall(c) \/ pc[c] \in Locking)
        /\ level[c] >= SHARED_LOCK /\ level'[c] = NO_LOCK
        /\ nShared'[p] = nShared[p] - 1 /\ nLock'[p] = nLock[p] - 1
        /\ \/ nShared[p] > 1 /\ inodeLock'[p] = inodeLock[p]
           \/ nShared[p] = 1 /\ inodeLock'[p] = NO_LOCK
        /\ \A q \in Procs : q # p => \A a \in Bytes : Byte(q, a)' = Byte(q, a)
        /\ nShared[p] = 1 => \A a \in Bytes : Byte(p, a)' = "none"
        /\ Frame(c) /\ TypeInv'
    BY <1>1, ReleaseStep
  <1>4. /\ pc'[c] = "idle" /\ level'[c] = NO_LOCK
        /\ Held(c)' = NO_LOCK /\ Held(c)' # EXCLUSIVE_LOCK
        /\ level[c] >= SHARED_LOCK
        /\ \/ /\ nShared[p] # 1 /\ inodeLock'[p] = inodeLock[p]
              /\ \A b \in Bytes : Byte(p, b)' = Byte(p, b)
           \/ nShared[p] = 1 /\ \A b \in Bytes : Byte(p, b)' = "none"
    <2>1. pc'[c] = "idle" /\ level'[c] = NO_LOCK /\ level[c] >= SHARED_LOCK
      BY <1>3
    <2>2. Held(c)' = NO_LOCK /\ Held(c)' # EXCLUSIVE_LOCK
      BY <2>1, HeldNext, Order
    <2>3. CASE nShared[p] > 1 /\ inodeLock' = inodeLock /\ kernel' = kernel
      <3>1. nShared[p] # 1
        BY <2>3
      <3>2. \A b \in Bytes : Byte(p, b)' = Byte(p, b)
        BY <2>3 DEF Byte
      <3> QED
        BY <2>1, <2>2, <2>3, <3>1, <3>2
    <2>4. CASE nShared[p] = 1
      BY <2>1, <2>2, <2>4, <1>3
    <2> QED
      BY <2>3, <2>4 DEF Release
  <1>7. /\ Frame(c) /\ TypeInv' /\ (MayCall(c) \/ pc[c] \in Locking)
        /\ \A q \in Procs : q # p => \A a \in Bytes : Byte(q, a)' = Byte(q, a)
    <2>1. TypeInv'
      BY <1>3
    <2>4. Frame(c)
      BY <1>3
    <2>2. MayCall(c) \/ pc[c] \in Locking
      BY <1>3
    <2>3. \A q \in Procs : q # p => \A a \in Bytes : Byte(q, a)' = Byte(q, a)
      BY <1>3
    <2> QED
      BY <2>1, <2>2, <2>3, <2>4
  <1>5. Kernel'
    <2>1. \A b \in Bytes : Byte(p, b)' = Byte(p, b) \/ Byte(p, b)' = "none"
      BY <1>4
    <2> QED
      BY <2>1, <1>1, <1>7, LessExcludes
  <1>6. ASSUME dropped = {} PROVE Agreed'
    <2>1. Alone /\ Upper(p) /\ \A d \in Of(p) : Exact(p, d)
      BY <1>1, <1>6 DEF LockInv, Agreed
    <2>2. Exact(p, c)'
      BY <1>4, Order DEF Exact, Reading
    <2>3. \A d \in Of(p) : d # c =>
              /\ \/ ~(level[d] > SHARED_LOCK)
                 \/ /\ inodeLock'[p] = inodeLock[p]
                    /\ nShared'[p] = nShared[p] \/ level[d] # EXCLUSIVE_LOCK
                    /\ \A b \in Bytes : b # "shared" => Byte(p, b)' = Byte(p, b)
                    /\ ~(Held(c)' > SHARED_LOCK)
              /\ \/ Byte(p, "shared")' # "none"
                 \/ Byte(p, "shared")' = Byte(p, "shared")
                 \/ level[d] = NO_LOCK
      <3>1. CASE nShared[p] # 1 /\ inodeLock'[p] = inodeLock[p] /\ \A b \in Bytes : Byte(p, b)' = Byte(p, b)
        <4>1. ASSUME NEW d \in Of(p), d # c PROVE level[d] # EXCLUSIVE_LOCK
          BY <3>1, <4>1, <1>6, <1>7, Beside
        <4> QED
          BY <3>1, <4>1, <1>4, Order DEF Bytes
      <3>2. CASE nShared[p] = 1
        <4>1. \A d \in Of(p) : d # c => level[d] = NO_LOCK
          BY <3>2, <1>1, <1>4, OnlyReader
        <4> QED
          BY <4>1, Order
      <3> QED
        BY <3>1, <3>2, <1>4
    <2>4. Alone'
      <3>1. Byte(p, "shared")' = Byte(p, "shared") \/ Byte(p, "shared")' = "none"
        BY <1>4 DEF Bytes
      <3> QED
        BY <3>1, <1>4, <1>7, <2>1, AloneStays
    <2> QED
      BY <1>7, <1>6, <2>2, <2>3, <2>4, AgreedKeeps
  <1> QED
    BY <1>1, <1>3, <1>5, <1>6 DEF LockInv

\* A connection is opened.
LEMMA OpenAgrees == ASSUME LockInv, NEW c \in Conns, Open(c) PROVE LockInv'
  <1> DEFINE p == Proc(c)
  <1>1. /\ p \in Procs /\ c \in Of(p) /\ Inv /\ TypeInv /\ Counted(p) /\ Kernel /\ Inv'
    BY ProcType, OpenKeeps DEF LockInv, Inv, Local
  <1>2. /\ level[c] \in Levels /\ pc[c] \in Stages /\ inodeLock[p] \in Levels
        /\ nShared[p] \in Nat /\ nLock[p] = nShared[p]
        /\ inodeLock[p] = NO_LOCK <=> nShared[p] = 0
        /\ level[c] >= SHARED_LOCK => nShared[p] # 0
    BY <1>1, CallerCounts
  <1>3. /\ dropped' = dropped /\ MayCall(c)
        /\ pc[c] \notin Locking /\ pc'[c] = "idle"
        /\ level'[c] = level[c]
        /\ inodeLock'[p] = inodeLock[p]
        /\ nShared'[p] = nShared[p] /\ nLock'[p] = nLock[p]
        /\ \A q \in Procs, a \in Bytes : Byte(q, a)' = Byte(q, a)
        /\ Frame(c) /\ TypeInv'
    BY <1>1, OpenStep
  <1>4. /\ pc[c] \notin Locking /\ pc'[c] \notin Locking /\ level'[c] = level[c]
        /\ Held(c)' = Held(c) /\ inodeLock'[p] = inodeLock[p] /\ nShared'[p] = nShared[p]
        /\ \A b \in Bytes : Byte(p, b)' = Byte(p, b)
    <2>1. pc[c] \notin Locking /\ pc'[c] \notin Locking
      BY <1>3 DEF Locking
    <2>2. level'[c] = level[c] /\ inodeLock'[p] = inodeLock[p] /\ nShared'[p] = nShared[p]
      BY <1>3
    <2>3. "release" \in Locking
      BY DEF Locking
    <2>4. Held(c) = level[c] /\ Held(c)' = level'[c]
      BY <2>1, <2>3, HeldLevel, HeldNext
    <2>5. \A b \in Bytes : Byte(p, b)' = Byte(p, b)
      BY <1>1, <1>3
    <2> QED
      BY <2>1, <2>2, <2>4, <2>5
  <1>7. /\ Frame(c) /\ TypeInv' /\ (MayCall(c) \/ pc[c] \in Locking)
        /\ \A q \in Procs : q # p => \A a \in Bytes : Byte(q, a)' = Byte(q, a)
    <2>1. TypeInv'
      BY <1>3
    <2>4. Frame(c)
      BY <1>3
    <2>2. MayCall(c) \/ pc[c] \in Locking
      BY <1>3
    <2>3. \A q \in Procs : q # p => \A a \in Bytes : Byte(q, a)' = Byte(q, a)
      BY <1>3
    <2> QED
      BY <2>1, <2>2, <2>3, <2>4
  <1>5. Kernel'
    BY <1>1, <1>4, <1>7, LessExcludes
  <1>6. ASSUME dropped = {} PROVE Agreed'
    <2>1. Alone /\ Upper(p) /\ \A d \in Of(p) : Exact(p, d)
      BY <1>1, <1>6 DEF LockInv, Agreed
    <2>2. Exact(p, c)'
      <3>1. /\ pc'[c] \notin Reading /\ pc'[c] # "drop pending"
            /\ pc'[c] # "write range" /\ pc'[c] \notin {"downgrade", "release"}
        BY <1>4 DEF Locking, Reading
      <3>2. Exact(p, c)
        BY <2>1, <1>1
      <3> QED
        BY <3>1, <3>2, <1>4 DEF Exact, Bytes
    <2>3. \A d \in Of(p) : d # c =>
              /\ \/ ~(level[d] > SHARED_LOCK)
                 \/ /\ inodeLock'[p] = inodeLock[p]
                    /\ nShared'[p] = nShared[p] \/ level[d] # EXCLUSIVE_LOCK
                    /\ \A b \in Bytes : b # "shared" => Byte(p, b)' = Byte(p, b)
                    /\ ~(Held(c)' > SHARED_LOCK)
              /\ \/ Byte(p, "shared")' # "none"
                 \/ Byte(p, "shared")' = Byte(p, "shared")
                 \/ level[d] = NO_LOCK
      <3>1. ASSUME NEW d \in Of(p), d # c, level[d] > SHARED_LOCK
            PROVE  ~(Held(c)' > SHARED_LOCK)
        BY <3>1, <1>4, <1>6, <1>7, Beside
      <3> QED
        BY <3>1, <1>4 DEF Bytes
    <2>4. Alone'
      <3>1. \A d \in Conns : Held(d)' = Held(d)
        <4>1. \A d \in Conns : d # c => Held(d)' = Held(d)
          BY <1>7 DEF Frame, Held, At
        <4> QED
          BY <4>1, <1>4
      <3>2. \A q \in Procs : Byte(q, "shared")' = Byte(q, "shared")
        BY <1>4, <1>7 DEF Bytes
      <3> QED
        BY <2>1, <3>1, <3>2 DEF Alone, Proc
    <2> QED
      BY <1>7, <1>6, <2>2, <2>3, <2>4, AgreedKeeps
  <1> QED
    BY <1>1, <1>3, <1>5, <1>6 DEF LockInv

\* A connection looks whether its descriptor may be closed.
LEMMA CloseAgrees == ASSUME LockInv, NEW c \in Conns, Close(c) PROVE LockInv'
  <1> DEFINE p == Proc(c)
  <1>1. /\ p \in Procs /\ c \in Of(p) /\ Inv /\ TypeInv /\ Counted(p) /\ Kernel /\ Inv'
    BY ProcType, CloseKeeps DEF LockInv, Inv, Local
  <1>2. /\ level[c] \in Levels /\ pc[c] \in Stages /\ inodeLock[p] \in Levels
        /\ nShared[p] \in Nat /\ nLock[p] = nShared[p]
        /\ inodeLock[p] = NO_LOCK <=> nShared[p] = 0
        /\ level[c] >= SHARED_LOCK => nShared[p] # 0
    BY <1>1, CallerCounts
  <1>3. /\ dropped' = dropped /\ MayCall(c)
        /\ pc'[c] \in {"closed", "close fd"} /\ pc[c] \notin Locking
        /\ level'[c] = level[c]
        /\ inodeLock'[p] = inodeLock[p]
        /\ nShared'[p] = nShared[p] /\ nLock'[p] = nLock[p]
        /\ pc'[c] = "close fd" => nShared'[p] = 0
        /\ \A q \in Procs, a \in Bytes : Byte(q, a)' = Byte(q, a)
        /\ Frame(c) /\ TypeInv'
    BY <1>1, CloseStep
  <1>4. /\ pc[c] \notin Locking /\ pc'[c] \notin Locking /\ level'[c] = level[c]
        /\ Held(c)' = Held(c) /\ inodeLock'[p] = inodeLock[p] /\ nShared'[p] = nShared[p]
        /\ \A b \in Bytes : Byte(p, b)' = Byte(p, b)
    <2>1. pc[c] \notin Locking /\ pc'[c] \notin Locking
      BY <1>3 DEF Locking
    <2>2. level'[c] = level[c] /\ inodeLock'[p] = inodeLock[p] /\ nShared'[p] = nShared[p]
      BY <1>3
    <2>3. "release" \in Locking
      BY DEF Locking
    <2>4. Held(c) = level[c] /\ Held(c)' = level'[c]
      BY <2>1, <2>3, HeldLevel, HeldNext
    <2>5. \A b \in Bytes : Byte(p, b)' = Byte(p, b)
      BY <1>1, <1>3
    <2> QED
      BY <2>1, <2>2, <2>4, <2>5
  <1>7. /\ Frame(c) /\ TypeInv' /\ (MayCall(c) \/ pc[c] \in Locking)
        /\ \A q \in Procs : q # p => \A a \in Bytes : Byte(q, a)' = Byte(q, a)
    <2>1. TypeInv'
      BY <1>3
    <2>4. Frame(c)
      BY <1>3
    <2>2. MayCall(c) \/ pc[c] \in Locking
      BY <1>3
    <2>3. \A q \in Procs : q # p => \A a \in Bytes : Byte(q, a)' = Byte(q, a)
      BY <1>3
    <2> QED
      BY <2>1, <2>2, <2>3, <2>4
  <1>5. Kernel'
    BY <1>1, <1>4, <1>7, LessExcludes
  <1>6. ASSUME dropped = {} PROVE Agreed'
    <2>1. Alone /\ Upper(p) /\ \A d \in Of(p) : Exact(p, d)
      BY <1>1, <1>6 DEF LockInv, Agreed
    <2>2. Exact(p, c)'
      <3>1. /\ pc'[c] \notin Reading /\ pc'[c] # "drop pending"
            /\ pc'[c] # "write range" /\ pc'[c] \notin {"downgrade", "release"}
        BY <1>4 DEF Locking, Reading
      <3>2. Exact(p, c)
        BY <2>1, <1>1
      <3> QED
        BY <3>1, <3>2, <1>4 DEF Exact, Bytes
    <2>3. \A d \in Of(p) : d # c =>
              /\ \/ ~(level[d] > SHARED_LOCK)
                 \/ /\ inodeLock'[p] = inodeLock[p]
                    /\ nShared'[p] = nShared[p] \/ level[d] # EXCLUSIVE_LOCK
                    /\ \A b \in Bytes : b # "shared" => Byte(p, b)' = Byte(p, b)
                    /\ ~(Held(c)' > SHARED_LOCK)
              /\ \/ Byte(p, "shared")' # "none"
                 \/ Byte(p, "shared")' = Byte(p, "shared")
                 \/ level[d] = NO_LOCK
      <3>1. ASSUME NEW d \in Of(p), d # c, level[d] > SHARED_LOCK
            PROVE  ~(Held(c)' > SHARED_LOCK)
        BY <3>1, <1>4, <1>6, <1>7, Beside
      <3> QED
        BY <3>1, <1>4 DEF Bytes
    <2>4. Alone'
      <3>1. \A d \in Conns : Held(d)' = Held(d)
        <4>1. \A d \in Conns : d # c => Held(d)' = Held(d)
          BY <1>7 DEF Frame, Held, At
        <4> QED
          BY <4>1, <1>4
      <3>2. \A q \in Procs : Byte(q, "shared")' = Byte(q, "shared")
        BY <1>4, <1>7 DEF Bytes
      <3> QED
        BY <2>1, <3>1, <3>2 DEF Alone, Proc
    <2> QED
      BY <1>7, <1>6, <2>2, <2>3, <2>4, AgreedKeeps
  <1> QED
    BY <1>1, <1>3, <1>5, <1>6 DEF LockInv

\* A descriptor is closed: unless locks are dropped, nothing changes.
LEMMA CloseFdAgrees == ASSUME LockInv, NEW c \in Conns, CloseFd(c) PROVE LockInv'
  <1> DEFINE p == Proc(c)
  <1>1. p \in Procs /\ c \in Of(p) /\ Inv /\ TypeInv /\ Kernel /\ Inv'
    BY ProcType, CloseFdKeeps DEF LockInv, Inv
  <1>2. /\ pc[c] = "close fd" /\ Goto(c, "closed")
        /\ kernel' = [kernel EXCEPT ![p] = NoGrant]
        /\ level' = level /\ inodeLock' = inodeLock /\ nShared' = nShared
        /\ dropped' = IF kernel[p] = NoGrant THEN dropped ELSE dropped \cup {p}
    BY DEF CloseFd, At, inode
  <1>3. /\ \A b \in Bytes : Byte(p, b)' = "none"
        /\ \A q \in Procs : q # p => \A b \in Bytes : Byte(q, b)' = Byte(q, b)
    BY <1>1, <1>2, Freeing
  <1>4. Kernel'
    BY <1>1, <1>3, LessExcludes
  <1>5. pc'[c] = "closed" /\ \A d \in Conns : d # c => pc'[d] = pc[d]
    BY <1>1, <1>2, Going DEF Stages
  <1>6. \A d \in Conns : Held(d)' = Held(d)
    <2>1. ASSUME NEW d \in Conns, d # c PROVE Held(d)' = Held(d)
      BY <1>2, <1>5, <2>1 DEF Held, At
    <2>2. Held(c)' = level'[c] /\ Held(c) = level[c]
      BY <1>2, <1>5, HeldLevel, HeldNext
    <2> QED
      BY <2>1, <2>2, <1>2
  <1>7. ASSUME dropped' = {} PROVE Agreed'
    <2>1. dropped = {} /\ kernel[p] = NoGrant
      BY <1>2, <1>7
    <2>2. \A q \in Procs : \A b \in Bytes : Byte(q, b)' = Byte(q, b)
      <3>1. \A b \in Bytes : Byte(p, b) = "none"
        BY <2>1 DEF NoGrant, Byte
      <3> QED
        BY <3>1, <1>3
    <2>3. Agreed
      BY <2>1 DEF LockInv
    <2>4. ASSUME NEW q \in Procs, NEW d \in Of(q) PROVE Exact(q, d)'
      <3>1. Exact(q, d) /\ d \in Conns
        BY <2>3 DEF Agreed, Of
      <3>2. CASE d # c
        <4>1. pc'[d] = pc[d] /\ level'[d] = level[d]
          BY <3>1, <3>2, <1>2, <1>5
        <4> QED
          BY <4>1, <3>1, <1>2, <2>2, ExactSame
      <3>3. CASE d = c
        <4>1. /\ pc'[d] \notin Reading /\ pc'[d] # "drop pending"
              /\ pc'[d] # "write range" /\ pc'[d] \notin {"downgrade", "release"}
          BY <3>3, <1>5 DEF Reading
        <4>2. /\ Held(d)' = Held(d) /\ level'[d] = level[d]
              /\ inodeLock'[q] = inodeLock[q] /\ nShared'[q] = nShared[q]
              /\ \A b \in Bytes : Byte(q, b)' = Byte(q, b)
          BY <3>1, <1>2, <1>6, <2>2
        <4> QED
          BY <3>1, <4>1, <4>2 DEF Exact, Bytes
      <3> QED
        BY <3>2, <3>3
    <2>5. \A q \in Procs : Of(q)' = Of(q)
      BY DEF Of
    <2>6. ASSUME NEW q \in Procs PROVE Upper(q)'
      BY <2>3, <2>5, <1>6 DEF Agreed, Upper, Of
    <2>7. Alone'
      BY <2>3, <2>2, <1>6 DEF Agreed, Alone, Proc, Bytes
    <2> QED
      BY <2>4, <2>5, <2>6, <2>7 DEF Agreed
  <1> QED
    BY <1>1, <1>4, <1>7 DEF LockInv

\* A process dies: what the others hold is undisturbed.
LEMMA DieAgrees == ASSUME LockInv, NEW p \in Procs, Die(p) PROVE LockInv'
  <1>1. Inv /\ TypeInv /\ Kernel /\ Inv'
    BY DieKeeps DEF LockInv, Inv
  <1>2. /\ pc' = [d \in Conns |-> IF d \in Of(p) THEN "closed" ELSE pc[d]]
        /\ level' = [d \in Conns |-> IF d \in Of(p) THEN NO_LOCK ELSE level[d]]
        /\ inodeLock' = [inodeLock EXCEPT ![p] = NO_LOCK]
        /\ nShared' = [nShared EXCEPT ![p] = 0]
        /\ kernel' = [kernel EXCEPT ![p] = NoGrant]
        /\ dropped' = dropped
    BY DEF Die
  <1>3. /\ \A b \in Bytes : Byte(p, b)' = "none"
        /\ \A q \in Procs : q # p => \A b \in Bytes : Byte(q, b)' = Byte(q, b)
    BY <1>1, <1>2, Freeing
  <1>4. \A q \in Procs : q # p => inodeLock'[q] = inodeLock[q] /\ nShared'[q] = nShared[q]
    BY <1>1, <1>2 DEF TypeInv
  <1>5. Kernel'
    BY <1>1, <1>3, LessExcludes
  <1>6. ASSUME NEW d \in Of(p) PROVE Held(d)' = NO_LOCK /\ Exact(p, d)'
    <2>1. d \in Conns /\ pc'[d] = "closed" /\ level'[d] = NO_LOCK
      BY <1>2 DEF Of
    <2>2. Held(d)' = NO_LOCK
      BY <2>1, HeldNext
    <2> QED
      BY <2>1, <2>2, Order DEF Exact, Reading
  <1>7. \A d \in Conns : d \notin Of(p) => pc'[d] = pc[d] /\ level'[d] = level[d]
    BY <1>2
  <1>8. \A d \in Conns : d \notin Of(p) => Held(d)' = Held(d)
    BY <1>7 DEF Held, At
  <1>9. ASSUME dropped = {} PROVE Agreed'
    <2>1. Agreed
      BY <1>9 DEF LockInv
    <2>2. \A q \in Procs : Of(q)' = Of(q)
      BY DEF Of
    <2>3. ASSUME NEW q \in Procs, q # p PROVE Upper(q)' /\ \A d \in Of(q) : Exact(q, d)'
      <3>1. \A d \in Of(q) : d \in Conns /\ d \notin Of(p)
        BY <2>3 DEF Of
      <3>2. \A d \in Of(q) : Exact(q, d)'
        BY <3>1, <2>1, <2>3, <1>3, <1>4, <1>7, ExactSame DEF Agreed
      <3>3. Upper(q)'
        BY <3>1, <2>1, <2>2, <1>8 DEF Agreed, Upper
      <3> QED
        BY <3>2, <3>3
    <2>4. Upper(p)'
      BY <1>6, <2>2, Order DEF Upper
    <2>5. Alone'
      <3>1. \A d \in Conns : Held(d)' = EXCLUSIVE_LOCK => Held(d) = EXCLUSIVE_LOCK
        BY <1>6, <1>8, Order
      <3>2. \A q \in Procs : Byte(q, "shared") = "none" => Byte(q, "shared")' = "none"
        BY <1>3 DEF Bytes
      <3> QED
        BY <3>1, <3>2, <2>1 DEF Agreed, Alone, Proc
    <2> QED
      BY <1>6, <2>2, <2>3, <2>4, <2>5 DEF Agreed
  <1> QED
    BY <1>1, <1>2, <1>5, <1>9 DEF LockInv

\* Nothing happens to the file.
LEMMA StutterAgrees == ASSUME LockInv, UNCHANGED vars PROVE LockInv'
  <1>1. /\ level' = level /\ pc' = pc /\ inodeLock' = inodeLock /\ nShared' = nShared
        /\ kernel' = kernel /\ dropped' = dropped
    BY DEF vars, inode
  <1>2. \A q, b : Byte(q, b)' = Byte(q, b)
    BY <1>1 DEF Byte
  <1>3. \A d : Held(d)' = Held(d)
    BY <1>1 DEF Held, At
  <1>4. Kernel'
    BY <1>2 DEF LockInv, Kernel
  <1>5. ASSUME Agreed PROVE Agreed'
    <2>1. Alone'
      BY <1>2, <1>3, <1>5 DEF Agreed, Alone, Proc
    <2>2. ASSUME NEW q \in Procs PROVE Upper(q)'
      BY <1>3, <1>5 DEF Agreed, Upper, Of
    <2>3. ASSUME NEW q \in Procs, NEW d \in Of(q) PROVE Exact(q, d)'
      BY <1>1, <1>2, <1>5, ExactSame DEF Agreed
    <2>4. \A q \in Procs : Of(q)' = Of(q)
      BY DEF Of
    <2> QED
      BY <2>1, <2>2, <2>3, <2>4 DEF Agreed
  <1> QED
    BY <1>1, <1>4, <1>5, StutterKeeps DEF LockInv

\* The invariant holds where no process has opened the file.
LEMMA LockInvInit == Init => LockInv
  <1> SUFFICES ASSUME Init PROVE LockInv
    OBVIOUS
  <1>1. \A q \in Procs, b \in Bytes : Byte(q, b) = "none"
    BY DEF Init, NoGrant, Byte
  <1>2. \A d \in Conns : level[d] = NO_LOCK /\ pc[d] = "closed"
    BY DEF Init
  <1>3. \A d \in Conns : Held(d) = NO_LOCK
    BY <1>2, HeldLevel
  <1>4. Kernel
    BY <1>1 DEF Kernel
  <1>5. ASSUME NEW q \in Procs PROVE Upper(q)
    BY <1>3, Order DEF Upper, Of
  <1>6. ASSUME NEW q \in Procs, NEW d \in Of(q) PROVE Exact(q, d)
    BY <1>2, <1>3, Order DEF Exact, Of, Reading
  <1>7. Alone
    BY <1>3, Order DEF Alone
  <1> QED
    BY <1>4, <1>5, <1>6, <1>7, InvInit DEF LockInv, Agreed

\* Every step keeps it.
LEMMA LockInvNext == LockInv /\ [Next]_vars => LockInv'
  <1> SUFFICES ASSUME LockInv, [Next]_vars PROVE LockInv'
    OBVIOUS
  <1>1. ASSUME NEW c \in Conns, JoinShared(c) \/ ReadPending(c) \/ ReadRange(c) \/ DropPending(c)
        PROVE  LockInv'
    BY <1>1, JoinSharedAgrees, ReadPendingAgrees, ReadRangeAgrees, DropPendingAgrees
  <1>2. ASSUME NEW c \in Conns, Reserve(c) \/ WritePending(c) \/ WriteRange(c)
        PROVE  LockInv'
    BY <1>2, ReserveAgrees, WritePendingAgrees, WriteRangeAgrees
  <1>3. ASSUME NEW c \in Conns, Downgrade(c) \/ DropBytes(c) \/ Release(c)
        PROVE  LockInv'
    BY <1>3, DowngradeAgrees, DropBytesAgrees, ReleaseAgrees
  <1>4. ASSUME NEW c \in Conns, Open(c) \/ Close(c) \/ CloseFd(c)
        PROVE  LockInv'
    BY <1>4, OpenAgrees, CloseAgrees, CloseFdAgrees
  <1>5. ASSUME NEW p \in Procs, Die(p) PROVE LockInv'
    BY <1>5, DieAgrees
  <1>6. CASE UNCHANGED vars
    BY <1>6, StutterAgrees
  <1> QED
    BY <1>1, <1>2, <1>3, <1>4, <1>5, <1>6 DEF Next

-----------------------------------------------------------------------------
\* What the invariant says of two connections.
LEMMA Apart ==
    ASSUME LockInv, dropped = {}, NEW c \in Conns, NEW d \in Conns, c # d
    PROVE  /\ Held(c) = EXCLUSIVE_LOCK => Held(d) = NO_LOCK
           /\ ~(Held(c) >= PENDING_LOCK /\ Held(d) >= PENDING_LOCK)
           /\ ~(Held(c) = RESERVED_LOCK /\ Held(d) = RESERVED_LOCK)
           /\ ~(c \in Reserving /\ d \in Reserving)
  <1> DEFINE p == Proc(c)
             q == Proc(d)
  <1>1. /\ p \in Procs /\ c \in Of(p) /\ q \in Procs /\ d \in Of(q) /\ TypeInv
        /\ Counted(p) /\ Kernel /\ Alone /\ Upper(p) /\ Exact(p, c) /\ Exact(q, d)
    BY ProcType DEF LockInv, Agreed, Inv, Local
  <1>2. /\ Held(c) \in Levels /\ Held(d) \in Levels
        /\ level[c] \in Levels /\ level[d] \in Levels
    BY <1>1, HeldType
  <1>3. /\ Held(c) # NO_LOCK => level[c] >= SHARED_LOCK
        /\ Held(d) # NO_LOCK => level[d] >= SHARED_LOCK
    <2>1. ASSUME NEW x \in Conns, NEW r, Exact(r, x), level[x] \in Levels, Held(x) # NO_LOCK
          PROVE  level[x] >= SHARED_LOCK
      <3>1. CASE pc[x] = "release"
        BY <2>1, <3>1, Order DEF Exact
      <3>2. CASE pc[x] # "release"
        BY <2>1, <3>2, HeldLevel, Kinds
      <3> QED
        BY <3>1, <3>2
    <2> QED
      BY <2>1, <1>1, <1>2
  <1>4. /\ c \in Reserving => Byte(p, "reserved") = "write" /\ Held(c) > SHARED_LOCK
        /\ d \in Reserving => Byte(q, "reserved") = "write" /\ Held(d) > SHARED_LOCK
    BY <1>2 DEF Reserving, Byte, Levels, NO_LOCK, SHARED_LOCK, RESERVED_LOCK, EXCLUSIVE_LOCK
  <1>5. CASE p = q
    <2>1. ~(Held(c) > SHARED_LOCK /\ Held(d) > SHARED_LOCK)
      BY <1>1, <1>5 DEF Upper
    <2>2. ASSUME Held(c) = EXCLUSIVE_LOCK PROVE Held(d) = NO_LOCK
      <3>1. nShared[p] = 1 /\ level[c] >= SHARED_LOCK
        BY <2>2, <1>1, <1>3, Order DEF Exact
      <3>2. level[d] = NO_LOCK
        BY <3>1, <1>1, <1>5, OnlyReader
      <3> QED
        BY <3>2, <1>3, Order
    <2> QED
      BY <2>1, <2>2, <1>2, <1>4, Order
  <1>6. CASE p # q
    <2>1. ASSUME NEW b \in Bytes PROVE ~(Byte(p, b) = "write" /\ Byte(q, b) = "write")
      BY <1>1, <1>6 DEF Kernel
    <2>2. ASSUME Held(c) = EXCLUSIVE_LOCK PROVE Held(d) = NO_LOCK
      <3>1. Byte(q, "shared") = "none"
        BY <2>2, <1>1, <1>6 DEF Alone
      <3>2. ~(level[d] >= SHARED_LOCK)
        BY <3>1, <1>1 DEF Exact
      <3> QED
        BY <3>2, <1>3
    <2>3. ~(Held(c) >= PENDING_LOCK /\ Held(d) >= PENDING_LOCK)
      BY <2>1, <1>1 DEF Exact, Bytes
    <2>4. ~(Held(c) = RESERVED_LOCK /\ Held(d) = RESERVED_LOCK)
      BY <2>1, <1>1 DEF Exact, Bytes
    <2>5. ~(c \in Reserving /\ d \in Reserving)
      BY <2>1, <1>4 DEF Bytes
    <2> QED
      BY <2>2, <2>3, <2>4, <2>5
  <1> QED
    BY <1>5, <1>6

\* Until a close drops locks, unixLock and posixUnlock keep the promise of the
\* five lock levels between all connections, in one process or in several.
THEOREM ExclusionHolds == Spec => []Exclusion
  <1>1. LockInv => Exclusion
    <2> SUFFICES ASSUME LockInv, dropped = {} PROVE Locks!Exclusion
      BY DEF Exclusion
    <2> DEFINE held == [x \in Conns |-> Held(x)]
    <2>1. \A c, d \in Conns : c # d =>
              /\ held[c] = EXCLUSIVE_LOCK => held[d] = NO_LOCK
              /\ ~(held[c] >= PENDING_LOCK /\ held[d] >= PENDING_LOCK)
              /\ ~(held[c] = RESERVED_LOCK /\ held[d] = RESERVED_LOCK)
              /\ ~(c \in Reserving /\ d \in Reserving)
      BY Apart
    <2>2. /\ Locks!EXCLUSIVE_LOCK = EXCLUSIVE_LOCK /\ Locks!NO_LOCK = NO_LOCK
          /\ Locks!PENDING_LOCK = PENDING_LOCK /\ Locks!RESERVED_LOCK = RESERVED_LOCK
      BY DEF Locks!EXCLUSIVE_LOCK, Locks!NO_LOCK, Locks!PENDING_LOCK, Locks!RESERVED_LOCK,
             EXCLUSIVE_LOCK, NO_LOCK, PENDING_LOCK, RESERVED_LOCK
    <2> QED
      BY <2>1, <2>2 DEF Locks!Exclusion
  <1> QED
    BY <1>1, LockInvInit, LockInvNext, PTL DEF Spec

-----------------------------------------------------------------------------
(***************************************************************************)
(* LocksKept, for any connections, isolates and processes: until a close   *)
(* drops locks, POSIX locks shared through the inode are the five levels   *)
(* of FileLocks.  Every system call is a step of FileLocks or none.        *)
(* And ReservedReported, which builds on the same invariant.               *)
(***************************************************************************)

\* The reserved byte is granted to nobody whose inode says less.
Warranted == \A p \in Procs : Byte(p, "reserved") = "write" => inodeLock[p] > SHARED_LOCK

MapInv == LockInv /\ Warranted

IsReserving(c) == Held(c) >= RESERVED_LOCK /\ Byte(Proc(c), "reserved") = "write"

\* What a step is for FileLocks.
Simulates == UNCHANGED Locks!vars \/ Locks!Next

-----------------------------------------------------------------------------
\* The levels are those of FileLocks.
LEMMA SameLevels ==
    /\ Locks!NO_LOCK = NO_LOCK /\ Locks!SHARED_LOCK = SHARED_LOCK
    /\ Locks!RESERVED_LOCK = RESERVED_LOCK /\ Locks!PENDING_LOCK = PENDING_LOCK
    /\ Locks!EXCLUSIVE_LOCK = EXCLUSIVE_LOCK
  BY DEF Locks!NO_LOCK, Locks!SHARED_LOCK, Locks!RESERVED_LOCK, Locks!PENDING_LOCK,
         Locks!EXCLUSIVE_LOCK, NO_LOCK, SHARED_LOCK, RESERVED_LOCK, PENDING_LOCK,
         EXCLUSIVE_LOCK

\* The order of the levels, one by one.
LEMMA LevelCases ==
    /\ \A l \in Levels : l < PENDING_LOCK <=> ~(l >= PENDING_LOCK)
    /\ \A l \in Levels : l >= RESERVED_LOCK <=> l > SHARED_LOCK
    /\ \A l \in Levels : l >= PENDING_LOCK <=> l \in {PENDING_LOCK, EXCLUSIVE_LOCK}
    /\ \A l \in Levels : l >= SHARED_LOCK =>
           l \in {SHARED_LOCK, RESERVED_LOCK, PENDING_LOCK, EXCLUSIVE_LOCK}
    /\ \A l \in Levels : l > SHARED_LOCK => l > NO_LOCK
    /\ \A l \in Levels : l \in SHARED_LOCK .. PENDING_LOCK <=>
           l \in {SHARED_LOCK, RESERVED_LOCK, PENDING_LOCK}
    /\ SHARED_LOCK > NO_LOCK
    /\ ~(NO_LOCK >= RESERVED_LOCK) /\ ~(SHARED_LOCK >= RESERVED_LOCK)
    /\ RESERVED_LOCK >= RESERVED_LOCK
  BY DEF Levels, NO_LOCK, SHARED_LOCK, RESERVED_LOCK, PENDING_LOCK, EXCLUSIVE_LOCK

\* Who is reserving.
LEMMA WhoReserves == Reserving = {c \in Conns : IsReserving(c)}
  BY DEF Reserving, IsReserving, Byte

\* And after a step.
LEMMA WhoReservesNext == Reserving' = {c \in Conns : IsReserving(c)'}
  BY DEF Reserving, IsReserving, Byte

\* A step of one connection raises or lowers what it holds and no other.
LEMMA OneMoves ==
    ASSUME NEW c \in Conns, Frame(c)
    PROVE  [d \in Conns |-> Held(d)]' = [[d \in Conns |-> Held(d)] EXCEPT ![c] = Held(c)']
  <1>1. \A d \in Conns : d # c => Held(d)' = Held(d)
    BY DEF Frame, Held, At
  <1> QED
    BY <1>1

\* Or what nobody holds.
LEMMA NobodyMoves ==
    ASSUME NEW c \in Conns, Frame(c), Held(c)' = Held(c)
    PROVE  [d \in Conns |-> Held(d)]' = [d \in Conns |-> Held(d)]
  <1>1. \A d \in Conns : Held(d)' = Held(d)
    BY DEF Frame, Held, At
  <1> QED
    BY <1>1

\* The others go on reserving while the reserved byte of the process stays.
LEMMA OthersReserve ==
    ASSUME NEW c \in Conns, Frame(c), Byte(Proc(c), "reserved")' = Byte(Proc(c), "reserved")
    PROVE  \A d \in Conns : d # c => (IsReserving(d)' <=> IsReserving(d))
  <1> SUFFICES ASSUME NEW d \in Conns, d # c PROVE IsReserving(d)' <=> IsReserving(d)
    OBVIOUS
  <1>1. Held(d)' = Held(d)
    BY DEF Frame, Held, At
  <1>2. Byte(Proc(d), "reserved")' = Byte(Proc(d), "reserved")
    <2>1. CASE Proc(d) = Proc(c)
      <3>1. Proc(d)' = Proc(d) /\ Proc(c)' = Proc(c)
        BY DEF Proc
      <3> QED
        BY <2>1, <3>1 DEF Byte
    <2>2. CASE Proc(d) # Proc(c)
      BY <2>2, ProcType DEF Frame, Bytes, Proc
    <2> QED
      BY <2>1, <2>2
  <1> QED
    BY <1>1, <1>2 DEF IsReserving

\* Nobody begins or ends to reserve.
LEMMA SameReserve ==
    ASSUME NEW c \in Conns, Frame(c), Byte(Proc(c), "reserved")' = Byte(Proc(c), "reserved"),
           IsReserving(c)' <=> IsReserving(c)
    PROVE  Reserving' = Reserving
  BY OthersReserve, WhoReserves, WhoReservesNext

\* A call that changes neither what is held nor the reserved byte.
LEMMA NoStep ==
    ASSUME NEW c \in Conns, Frame(c), Held(c)' = Held(c),
           Byte(Proc(c), "reserved")' = Byte(Proc(c), "reserved")
    PROVE  Simulates
  <1>1. IsReserving(c)' <=> IsReserving(c)
    BY DEF IsReserving, Proc
  <1>2. Reserving' = Reserving
    BY <1>1, SameReserve
  <1> QED
    BY <1>2, NobodyMoves DEF Simulates, Locks!vars

-----------------------------------------------------------------------------
(* What a call may rely on.                                                *)

\* The invariants, for the connection that makes the call.
LEMMA Known ==
    ASSUME MapInv, dropped = {}, NEW c \in Conns
    PROVE  LET p == Proc(c) IN
           /\ p \in Procs /\ c \in Of(p) /\ Inv /\ LockInv /\ TypeInv
           /\ Counted(p) /\ Within(p, c) /\ Quiet(p)
           /\ Kernel /\ Alone /\ Upper(p) /\ Agreed
           /\ \A d \in Of(p) : d \in Conns /\ Proc(d) = p /\ Exact(p, d)
           /\ level[c] \in Levels /\ pc[c] \in Stages /\ inodeLock[p] \in Levels
           /\ nShared[p] \in Nat /\ (inodeLock[p] = NO_LOCK <=> nShared[p] = 0)
           /\ Byte(p, "reserved") = "write" => inodeLock[p] > SHARED_LOCK
  <1>1. Proc(c) \in Procs /\ c \in Of(Proc(c)) /\ LockInv /\ Inv /\ Agreed /\ Kernel /\ Warranted
    BY ProcType DEF MapInv, LockInv
  <1>2. Local(Proc(c)) /\ TypeInv
    BY <1>1 DEF Inv
  <1>3. \A d \in Of(Proc(c)) : d \in Conns /\ Proc(d) = Proc(c)
    BY DEF Of
  <1> QED
    BY <1>1, <1>2, <1>3, CallerCounts DEF Local, Agreed, Warranted

\* The others of the process are inside no call.
LEMMA OthersHold ==
    ASSUME MapInv, dropped = {}, NEW c \in Conns, MayCall(c) \/ pc[c] \in Locking,
           NEW d \in Of(Proc(c)), d # c
    PROVE  Held(d) = level[d] /\ level[d] \in Levels
  <1>1. Local(Proc(c)) /\ TypeInv /\ d \in Conns
    BY ProcType DEF MapInv, LockInv, Inv, Of
  <1>2. pc[d] \notin Locking
    BY <1>1, OthersOutside
  <1> QED
    BY <1>1, <1>2, HeldLevel DEF Locking, TypeInv

\* Nobody keeps new readers out.
LEMMA Admitted ==
    ASSUME MapInv, dropped = {}, NEW p \in Procs,
           \A q \in Procs : q # p => Byte(q, "pending") # "write",
           \A d \in Of(p) : ~(Held(d) >= PENDING_LOCK)
    PROVE  Locks!Admitting
  <1> SUFFICES ASSUME NEW d \in Conns PROVE Held(d) < PENDING_LOCK
    BY SameLevels DEF Locks!Admitting
  <1>1. Proc(d) \in Procs /\ d \in Of(Proc(d)) /\ Held(d) \in Levels /\ Exact(Proc(d), d)
    BY Known, HeldType
  <1>2. ~(Held(d) >= PENDING_LOCK)
    BY <1>1 DEF Exact
  <1> QED
    BY <1>1, <1>2, LevelCases

\* Who may not have a lock on a byte knows that nobody else writes it.
LEMMA Refused ==
    ASSUME NEW p \in Procs, NEW b \in Bytes, NEW m \in Modes, CanLock(p, b, m)
    PROVE  /\ \A q \in Procs : q # p => Byte(q, b) # "write"
           /\ m = "write" => \A q \in Procs : q # p => Byte(q, b) = "none"
  BY DEF CanLock, Byte

-----------------------------------------------------------------------------
(* The reserved byte stays warranted.                                      *)

\* A call keeps what it keeps for its process.
LEMMA WarrantedKeeps ==
    ASSUME Warranted, NEW c \in Conns, Frame(c),
           Byte(Proc(c), "reserved")' = "write" => inodeLock'[Proc(c)] > SHARED_LOCK
    PROVE  Warranted'
  <1> SUFFICES ASSUME NEW q \in Procs, Byte(q, "reserved")' = "write"
               PROVE  inodeLock'[q] > SHARED_LOCK
    BY DEF Warranted
  <1>1. CASE q = Proc(c)
    <2>1. Proc(c)' = Proc(c)
      BY DEF Proc
    <2> QED
      BY <1>1, <2>1 DEF Byte
  <1>2. CASE q # Proc(c)
    <2>1. Byte(q, "reserved") = "write" /\ inodeLock'[q] = inodeLock[q]
      BY <1>2 DEF Frame, Bytes
    <2> QED
      BY <2>1 DEF Warranted
  <1> QED
    BY <1>1, <1>2

\* Calls that change neither the reserved byte nor the level of the inode.
LEMMA WarrantedSame ==
    ASSUME Warranted, NEW c \in Conns, Frame(c),
           Byte(Proc(c), "reserved")' = Byte(Proc(c), "reserved"),
           inodeLock'[Proc(c)] = inodeLock[Proc(c)]
    PROVE  Warranted'
  <1>1. Byte(Proc(c), "reserved") = "write" => inodeLock[Proc(c)] > SHARED_LOCK
    BY ProcType DEF Warranted
  <1> QED
    BY <1>1, WarrantedKeeps

\* Reading.
LEMMA ReadersWarranted ==
    ASSUME Inv, Warranted, NEW c \in Conns,
           JoinShared(c) \/ ReadPending(c) \/ ReadRange(c) \/ DropPending(c)
    PROVE  Warranted'
  <1>1. CASE JoinShared(c)
    BY <1>1, ProcType, JoinSharedStep, WarrantedSame DEF Bytes
  <1>2. CASE ReadPending(c)
    BY <1>2, ProcType, ReadPendingStep, WarrantedSame DEF Bytes
  <1>3. CASE ReadRange(c)
    BY <1>3, ProcType, ReadRangeStep, WarrantedSame DEF Bytes
  <1>4. CASE DropPending(c)
    <2>1. /\ Byte(Proc(c), "reserved") = "none" /\ Frame(c)
          /\ Byte(Proc(c), "reserved")' = Byte(Proc(c), "reserved")
      BY <1>4, DropPendingStep DEF Bytes
    <2> QED
      BY <2>1, WarrantedKeeps
  <1> QED
    BY <1>1, <1>2, <1>3, <1>4

\* Writing.
LEMMA WritersWarranted ==
    ASSUME Inv, Warranted, NEW c \in Conns, Reserve(c) \/ WritePending(c) \/ WriteRange(c)
    PROVE  Warranted'
  <1>1. CASE Reserve(c)
    <2>1. Frame(c) /\ inodeLock'[Proc(c)] = RESERVED_LOCK
      BY <1>1, ReserveStep
    <2> QED
      BY <2>1, Order, WarrantedKeeps
  <1>2. CASE WritePending(c)
    <2>1. Frame(c) /\ Byte(Proc(c), "reserved")' = Byte(Proc(c), "reserved")
      BY <1>2, WritePendingStep DEF Bytes
    <2>2. CASE SetLevels(c, PENDING_LOCK)
      <3>1. inodeLock'[Proc(c)] = PENDING_LOCK
        BY <2>2, Setting, Kinds DEF Inv
      <3> QED
        BY <3>1, <2>1, Order, WarrantedKeeps
    <2>3. CASE UNCHANGED inodeLock
      BY <2>3, <2>1, WarrantedSame
    <2> QED
      BY <2>2, <2>3, <1>2 DEF WritePending
  <1>3. CASE WriteRange(c)
    <2>1. Frame(c)
      BY <1>3, WriteRangeStep
    <2>2. inodeLock'[Proc(c)] \in {PENDING_LOCK, EXCLUSIVE_LOCK}
      <3>1. SetLevels(c, EXCLUSIVE_LOCK) \/ SetLevels(c, PENDING_LOCK)
        BY <1>3 DEF WriteRange
      <3> QED
        BY <3>1, Setting, Kinds DEF Inv
    <2> QED
      BY <2>1, <2>2, Order, WarrantedKeeps
  <1> QED
    BY <1>1, <1>2, <1>3

\* Unlocking.
LEMMA UnlockersWarranted ==
    ASSUME Inv, Warranted, NEW c \in Conns, Downgrade(c) \/ DropBytes(c) \/ Release(c)
    PROVE  Warranted'
  <1> DEFINE p == Proc(c)
  <1>0. p \in Procs /\ TypeInv
    BY ProcType DEF Inv
  <1>1. CASE Downgrade(c)
    BY <1>1, DowngradeStep, WarrantedSame DEF Bytes
  <1>2. CASE DropBytes(c)
    <2>1. Frame(c)
      BY <1>2, DropBytesStep
    <2>2. kernel' = [kernel EXCEPT ![p]["pending"] = "none", ![p]["reserved"] = "none"]
      BY <1>2 DEF DropBytes
    <2>3. Byte(p, "reserved")' = "none"
      BY <2>2, <1>0 DEF Byte, TypeInv, Bytes
    <2> QED
      BY <2>1, <2>3, WarrantedKeeps
  <1>3. CASE Release(c)
    <2>1. Frame(c)
      BY <1>3, ReleaseStep
    <2>2. CASE UNCHANGED <<inodeLock, kernel>>
      <3>1. Byte(p, "reserved")' = Byte(p, "reserved") /\ inodeLock'[p] = inodeLock[p]
        BY <2>2 DEF Byte, Proc
      <3> QED
        BY <3>1, <2>1, WarrantedSame
    <2>3. CASE kernel' = [kernel EXCEPT ![p] = NoGrant]
      <3>1. Byte(p, "reserved")' = "none"
        BY <2>3, <1>0, Freeing DEF Bytes
      <3> QED
        BY <3>1, <2>1, WarrantedKeeps
    <2> QED
      BY <2>2, <2>3, <1>3 DEF Release
  <1> QED
    BY <1>1, <1>2, <1>3

\* Opening and closing.
LEMMA OpenersWarranted ==
    ASSUME Inv, Warranted, NEW c \in Conns, Open(c) \/ Close(c) \/ CloseFd(c)
    PROVE  Warranted'
  <1>1. CASE Open(c)
    BY <1>1, ProcType, OpenStep, WarrantedSame DEF Bytes
  <1>2. CASE Close(c)
    BY <1>2, ProcType, CloseStep, WarrantedSame DEF Bytes
  <1>3. CASE CloseFd(c)
    <2>1. kernel' = [kernel EXCEPT ![Proc(c)] = NoGrant] /\ inodeLock' = inodeLock
      BY <1>3 DEF CloseFd, inode
    <2>2. /\ \A b \in Bytes : Byte(Proc(c), b)' = "none"
          /\ \A q \in Procs : q # Proc(c) => \A b \in Bytes : Byte(q, b)' = Byte(q, b)
      BY <2>1, ProcType, Freeing DEF Inv
    <2>3. ASSUME NEW q \in Procs, Byte(q, "reserved")' = "write"
          PROVE  inodeLock'[q] > SHARED_LOCK
      <3>1. q # Proc(c)
        <4>1. Proc(c)' = Proc(c)
          BY DEF Proc
        <4> QED
          BY <2>2, <2>3, <4>1 DEF Byte, Bytes
      <3>2. Byte(q, "reserved") = "write"
        BY <2>2, <2>3, <3>1 DEF Bytes
      <3> QED
        BY <3>2, <2>1 DEF Warranted
    <2> QED
      BY <2>3 DEF Warranted
  <1> QED
    BY <1>1, <1>2, <1>3

\* The death of a process.
LEMMA DeathWarranted == ASSUME Inv, Warranted, NEW p \in Procs, Die(p) PROVE Warranted'
  <1>1. /\ kernel' = [kernel EXCEPT ![p] = NoGrant]
        /\ inodeLock' = [inodeLock EXCEPT ![p] = NO_LOCK]
    BY DEF Die
  <1>2. /\ \A b \in Bytes : Byte(p, b)' = "none"
        /\ \A q \in Procs : q # p => \A b \in Bytes : Byte(q, b)' = Byte(q, b)
    BY <1>1, Freeing DEF Inv
  <1>3. ASSUME NEW q \in Procs, Byte(q, "reserved")' = "write"
        PROVE  inodeLock'[q] > SHARED_LOCK
    <2>1. q # p
      BY <1>2, <1>3 DEF Bytes
    <2>2. Byte(q, "reserved") = "write" /\ inodeLock'[q] = inodeLock[q]
      BY <1>1, <1>2, <1>3, <2>1 DEF Bytes, Inv, TypeInv
    <2> QED
      BY <2>2 DEF Warranted
  <1> QED
    BY <1>3 DEF Warranted

\* A step that changes nothing.
LEMMA StutterWarranted == ASSUME Warranted, UNCHANGED vars PROVE Warranted'
  <1>1. inodeLock' = inodeLock /\ kernel' = kernel
    BY DEF vars, inode
  <1>2. \A q \in Procs : Byte(q, "reserved")' = Byte(q, "reserved")
    BY <1>1 DEF Byte
  <1>3. \A q \in Procs : inodeLock'[q] = inodeLock[q]
    BY <1>1
  <1> QED
    BY <1>2, <1>3 DEF Warranted

\* At the start nothing is granted.
LEMMA MapInvInit == Init => MapInv
  <1> SUFFICES ASSUME Init PROVE MapInv
    OBVIOUS
  <1>1. Warranted
    BY DEF Init, Warranted, Byte, NoGrant, Bytes
  <1> QED
    BY <1>1, LockInvInit DEF MapInv

\* Every step keeps the invariant.
LEMMA MapInvNext == MapInv /\ [Next]_vars => MapInv'
  <1> SUFFICES ASSUME MapInv, [Next]_vars PROVE MapInv'
    OBVIOUS
  <1>1. LockInv /\ Inv /\ Warranted /\ LockInv'
    BY LockInvNext DEF MapInv, LockInv
  <1>2. ASSUME NEW c \in Conns,
               \/ JoinShared(c) \/ ReadPending(c) \/ ReadRange(c) \/ DropPending(c)
               \/ Reserve(c) \/ WritePending(c) \/ WriteRange(c)
               \/ Downgrade(c) \/ DropBytes(c) \/ Release(c)
               \/ Open(c) \/ Close(c) \/ CloseFd(c)
        PROVE  Warranted'
    BY <1>1, <1>2, ReadersWarranted, WritersWarranted, UnlockersWarranted, OpenersWarranted
  <1>3. ASSUME NEW p \in Procs, Die(p) PROVE Warranted'
    BY <1>1, <1>3, DeathWarranted
  <1>4. CASE UNCHANGED vars
    BY <1>1, <1>4, StutterWarranted DEF MapInv
  <1> QED
    BY <1>1, <1>2, <1>3, <1>4 DEF Next, MapInv

-----------------------------------------------------------------------------
(* Reading.                                                                *)

\* A reader joins a reader of its process: FileLocks lets it, although a
\* writer of another process may be PENDING.
LEMMA JoinSharedMaps ==
    ASSUME MapInv, dropped = {}, NEW c \in Conns, JoinShared(c) PROVE Simulates
  <1> DEFINE p == Proc(c)
  <1>1. /\ p \in Procs /\ c \in Of(p) /\ Inv /\ LockInv /\ TypeInv /\ Counted(p)
        /\ Alone /\ \A d \in Of(p) : d \in Conns /\ Proc(d) = p /\ Exact(p, d)
        /\ (inodeLock[p] = NO_LOCK <=> nShared[p] = 0)
    BY Known
  <1>2. /\ MayCall(c) /\ pc'[c] = "idle" /\ level[c] = NO_LOCK /\ level'[c] = SHARED_LOCK
        /\ inodeLock[p] # NO_LOCK /\ \A q \in Procs, a \in Bytes : Byte(q, a)' = Byte(q, a)
        /\ Frame(c)
    BY <1>1, JoinSharedStep
  <1>3. pc[c] = "idle" /\ inodeLock[p] \in {SHARED_LOCK, RESERVED_LOCK}
    BY DEF JoinShared, Starts, At
  <1>4. Held(c) = NO_LOCK /\ Held(c)' = SHARED_LOCK
    BY <1>2, <1>3, HeldLevel, HeldNext
  <1>5. PICK d \in Of(p) : level[d] >= SHARED_LOCK
    BY <1>1, <1>2, OnlyReader
  <1>6. d # c
    BY <1>2, <1>5, Order
  <1>7. Held(d) = level[d] /\ level[d] \in Levels
    BY <1>2, <1>5, <1>6, OthersHold
  <1>8. Held(d) \in {SHARED_LOCK, RESERVED_LOCK}
    <2>1. Held(d) > SHARED_LOCK => inodeLock[p] = Held(d)
      BY <1>1, <1>5 DEF Exact
    <2>2. ~(Held(d) > SHARED_LOCK) => Held(d) = SHARED_LOCK
      BY <1>5, <1>7, Order
    <2> QED
      BY <2>1, <2>2, <1>3, Order
  <1>9. \A e \in Conns : Held(e) # EXCLUSIVE_LOCK
    <2> SUFFICES ASSUME NEW e \in Conns PROVE Held(e) # EXCLUSIVE_LOCK
      OBVIOUS
    <2>1. CASE Proc(e) = p
      <3>1. Exact(p, e)
        BY <2>1, <1>1, ProcType
      <3> QED
        BY <3>1, <1>3, Order DEF Exact
    <2>2. CASE Proc(e) # p
      <3>1. Byte(p, "shared") # "none"
        BY <1>1, <1>5 DEF Exact
      <3> QED
        BY <3>1, <2>2, <1>1, ReadersKeepOut
    <2> QED
      BY <2>1, <2>2
  <1>10. Reserving' = Reserving
    <2>1. ~IsReserving(c) /\ ~IsReserving(c)'
      BY <1>4, LevelCases DEF IsReserving
    <2> QED
      BY <2>1, <1>1, <1>2, SameReserve DEF Bytes
  <1>11. Locks!Raise(c, SHARED_LOCK)
    BY <1>2, <1>4, OneMoves DEF Locks!Raise
  <1>12. Locks!Share(c)
    BY <1>1, <1>4, <1>5, <1>8, <1>9, <1>10, <1>11, SameLevels DEF Locks!Share
  <1> QED
    BY <1>12 DEF Simulates, Locks!Next

\* Asking for the pending byte is no step.
LEMMA ReadPendingMaps ==
    ASSUME MapInv, dropped = {}, NEW c \in Conns, ReadPending(c) PROVE Simulates
  <1>1. Inv /\ Proc(c) \in Procs
    BY Known
  <1>2. /\ pc'[c] = "read range" /\ level'[c] = level[c] /\ Frame(c)
        /\ \A a \in Bytes : a # "pending" => Byte(Proc(c), a)' = Byte(Proc(c), a)
    BY <1>1, ReadPendingStep
  <1>3. pc[c] = "idle"
    BY DEF ReadPending, Starts, At
  <1>4. Held(c)' = Held(c)
    BY <1>2, <1>3, HeldLevel, HeldNext
  <1> QED
    BY <1>2, <1>4, NoStep DEF Bytes

\* Nor is asking for the range.
LEMMA ReadRangeMaps ==
    ASSUME MapInv, dropped = {}, NEW c \in Conns, ReadRange(c) PROVE Simulates
  <1>1. Inv /\ Proc(c) \in Procs
    BY Known
  <1>2. /\ pc[c] = "read range" /\ pc'[c] \in {"drop pending", "give up"}
        /\ level'[c] = level[c] /\ Frame(c)
        /\ \A a \in Bytes : a # "shared" => Byte(Proc(c), a)' = Byte(Proc(c), a)
    BY <1>1, ReadRangeStep
  <1>3. Held(c)' = Held(c)
    BY <1>2, HeldLevel, HeldNext
  <1> QED
    BY <1>2, <1>3, NoStep DEF Bytes

\* Giving the pending byte back makes a reader, or nothing.
LEMMA DropPendingMaps ==
    ASSUME MapInv, dropped = {}, NEW c \in Conns, DropPending(c) PROVE Simulates
  <1> DEFINE p == Proc(c)
  <1>1. /\ p \in Procs /\ c \in Of(p) /\ Inv /\ TypeInv /\ Counted(p) /\ Kernel
        /\ \A d \in Of(p) : d \in Conns /\ Exact(p, d)
    BY Known
  <1>2. /\ pc[c] \in Locking /\ pc'[c] = "idle" /\ nShared[p] = 0 /\ level[c] = NO_LOCK
        /\ \A a \in Bytes : a # "pending" => Byte(p, a)' = Byte(p, a)
        /\ Frame(c)
    BY <1>1, DropPendingStep
  <1>3. pc[c] \in Reading
    BY DEF DropPending, At, Reading
  <1>4. Held(c) = NO_LOCK /\ Held(c)' = level'[c]
    BY <1>2, <1>3, HeldLevel, HeldNext DEF Reading
  <1>5. level'[c] = level[c] \/ level'[c] = SHARED_LOCK
    BY <1>1, DropPendingStep
  <1>6. CASE level'[c] = level[c]
    BY <1>6, <1>2, <1>4, NoStep DEF Bytes
  <1>7. CASE level'[c] = SHARED_LOCK
    <2>1. Byte(p, "pending") = "read"
      BY <1>1, <1>3 DEF Exact
    <2>2. \A d \in Of(p) : ~(Held(d) >= PENDING_LOCK)
      BY <2>1, <1>1 DEF Exact
    <2>3. \A q \in Procs : q # p => Byte(q, "pending") # "write"
      BY <2>1, <1>1 DEF Kernel, Bytes
    <2>4. Locks!Admitting
      BY <2>2, <2>3, <1>1, Admitted
    <2>5. Reserving' = Reserving
      <3>1. ~IsReserving(c) /\ ~IsReserving(c)'
        BY <1>4, <1>7, LevelCases DEF IsReserving
      <3> QED
        BY <3>1, <1>2, SameReserve DEF Bytes
    <2>6. Locks!Raise(c, SHARED_LOCK)
      BY <1>2, <1>4, <1>7, OneMoves DEF Locks!Raise
    <2>7. Locks!Share(c)
      BY <1>4, <2>4, <2>5, <2>6, SameLevels DEF Locks!Share
    <2> QED
      BY <2>7 DEF Simulates, Locks!Next
  <1> QED
    BY <1>5, <1>6, <1>7

-----------------------------------------------------------------------------
(* Writing.                                                                *)

\* RESERVED goes to one connection, in the process and outside.
LEMMA ReserveMaps ==
    ASSUME MapInv, dropped = {}, NEW c \in Conns, Reserve(c) PROVE Simulates
  <1> DEFINE p == Proc(c)
  <1>1. /\ p \in Procs /\ c \in Of(p) /\ Inv /\ TypeInv
        /\ \A d \in Of(p) : d \in Conns /\ Proc(d) = p /\ Exact(p, d)
        /\ Byte(p, "reserved") = "write" => inodeLock[p] > SHARED_LOCK
    BY Known
  <1>2. /\ pc'[c] = pc[c] /\ pc[c] = "idle" /\ level[c] = SHARED_LOCK
        /\ level'[c] = RESERVED_LOCK /\ inodeLock[p] = SHARED_LOCK
        /\ \A q \in Procs : q # p => \A a \in Bytes : Byte(q, a)' = Byte(q, a)
        /\ Frame(c)
    BY <1>1, ReserveStep
  <1>3. Held(c) = SHARED_LOCK /\ Held(c)' = RESERVED_LOCK
    BY <1>2, HeldLevel, HeldNext
  <1>4. /\ CanLock(p, "reserved", "write") /\ Grant(p, "reserved", "write")
    BY DEF Reserve
  <1>5. \A q \in Procs : q # p => Byte(q, "reserved") # "write"
    BY <1>1, <1>4, Refused DEF Bytes, Modes
  <1>6. Byte(p, "reserved") # "write" /\ Byte(p, "reserved")' = "write"
    <2>1. Byte(p, "reserved")' = "write"
      BY <1>1, <1>4, Granting DEF Bytes, Modes
    <2> QED
      BY <2>1, <1>1, <1>2, Order
  <1>7. \A d \in Conns : ~IsReserving(d)
    BY <1>5, <1>6, ProcType DEF IsReserving
  <1>8. IsReserving(c)'
    <2>1. p' = p
      BY DEF Proc
    <2> QED
      BY <2>1, <1>3, <1>6, LevelCases DEF IsReserving, Byte
  <1>9. ASSUME NEW d \in Conns, d # c PROVE ~IsReserving(d)'
    <2>1. Held(d)' = Held(d) /\ Proc(d)' = Proc(d) /\ Proc(d) \in Procs
      BY <1>2, <1>9, ProcType DEF Frame, Held, At, Proc
    <2>2. CASE Proc(d) = p
      <3>1. d \in Of(p)
        BY <2>2 DEF Of
      <3>2. Held(d) \in Levels
        BY <1>1, HeldType
      <3>3. ~(Held(d) > SHARED_LOCK)
        BY <3>1, <1>1, <1>2, Order DEF Exact
      <3> QED
        BY <3>2, <3>3, <2>1, LevelCases DEF IsReserving
    <2>3. CASE Proc(d) # p
      <3>1. Byte(Proc(d), "reserved")' # "write"
        BY <2>1, <2>3, <1>2, <1>5 DEF Bytes, Byte
      <3> QED
        BY <3>1 DEF IsReserving
    <2> QED
      BY <2>2, <2>3
  <1>10. Reserving = {} /\ Reserving' = {c}
    BY <1>7, <1>8, <1>9, WhoReserves, WhoReservesNext
  <1>11. Locks!Raise(c, RESERVED_LOCK)
    BY <1>2, <1>3, OneMoves DEF Locks!Raise
  <1>12. Locks!Reserve(c)
    BY <1>3, <1>10, <1>11, SameLevels DEF Locks!Reserve
  <1> QED
    BY <1>12 DEF Simulates, Locks!Next

\* A reader of the process in the way makes PENDING, else it is no step yet.
LEMMA WritePendingMaps ==
    ASSUME MapInv, dropped = {}, NEW c \in Conns, WritePending(c) PROVE Simulates
  <1> DEFINE p == Proc(c)
  <1>1. /\ p \in Procs /\ c \in Of(p) /\ Inv /\ TypeInv
        /\ \A d \in Of(p) : d \in Conns /\ Proc(d) = p /\ Exact(p, d)
        /\ Byte(p, "reserved") = "write" => inodeLock[p] > SHARED_LOCK
    BY Known
  <1>2. /\ \A a \in Bytes : a # "pending" => Byte(p, a)' = Byte(p, a)
        /\ Frame(c)
    BY <1>1, WritePendingStep
  <1>3. /\ pc[c] = "idle" /\ level[c] \in {SHARED_LOCK, RESERVED_LOCK}
        /\ inodeLock[p] = level[c] /\ CanLock(p, "pending", "write")
    BY DEF WritePending, Starts, At
  <1>4. Held(c) = level[c]
    BY <1>3, HeldLevel
  <1>5. CASE SetLevels(c, PENDING_LOCK) /\ UNCHANGED pc
    <2>1. level'[c] = PENDING_LOCK /\ pc'[c] = "idle"
      BY <1>1, <1>3, <1>5, Setting, Kinds
    <2>2. Held(c)' = PENDING_LOCK
      BY <2>1, HeldNext
    <2>3. \A d \in Of(p) : ~(Held(d) >= PENDING_LOCK)
      <3> SUFFICES ASSUME NEW d \in Of(p) PROVE ~(Held(d) >= PENDING_LOCK)
        OBVIOUS
      <3>1. Held(d) \in Levels /\ Exact(p, d)
        BY <1>1, HeldType
      <3>2. Held(d) > SHARED_LOCK => Held(d) \in {SHARED_LOCK, RESERVED_LOCK}
        BY <3>1, <1>3 DEF Exact
      <3> QED
        BY <3>1, <3>2, Order
    <2>4. \A q \in Procs : q # p => Byte(q, "pending") # "write"
      BY <1>1, <1>3, Refused DEF Bytes, Modes
    <2>5. Locks!Admitting
      BY <2>3, <2>4, <1>1, Admitted
    <2>6. Reserving' = Reserving
      <3>1. Byte(p, "reserved")' = Byte(p, "reserved")
        BY <1>2 DEF Bytes
      <3>2. IsReserving(c)' <=> Byte(p, "reserved")' = "write"
        <4>1. Held(c)' >= RESERVED_LOCK /\ p' = p
          BY <2>2, LevelCases, Order, Kinds DEF Proc
        <4> QED
          BY <4>1 DEF IsReserving, Byte
      <3>3. IsReserving(c) <=> Byte(p, "reserved") = "write"
        <4>1. inodeLock[p] > SHARED_LOCK => Held(c) >= RESERVED_LOCK
          BY <1>3, <1>4, LevelCases, Order
        <4> QED
          BY <4>1, <1>1 DEF IsReserving
      <3> QED
        BY <3>1, <3>2, <3>3, <1>2, SameReserve
    <2>7. Locks!Raise(c, PENDING_LOCK)
      BY <1>2, <2>2, OneMoves DEF Locks!Raise
    <2>8. Locks!Pend(c)
      BY <1>3, <1>4, <2>5, <2>6, <2>7, SameLevels DEF Locks!Pend
    <2> QED
      BY <2>8 DEF Simulates, Locks!Next
  <1>6. CASE Goto(c, "write range") /\ UNCHANGED <<level, inodeLock>>
    <2>1. pc'[c] = "write range" /\ level'[c] = level[c]
      BY <1>1, <1>6, Going, Kinds
    <2>2. Held(c)' = Held(c)
      BY <2>1, <1>4, HeldNext
    <2> QED
      BY <2>2, <1>2, NoStep DEF Bytes
  <1> QED
    BY <1>5, <1>6 DEF WritePending

\* What the one writer of a process holds before it asks for the range.
LEMMA WriterAlone ==
    ASSUME MapInv, dropped = {}, NEW c \in Conns, WriteRange(c)
    PROVE  LET p == Proc(c) IN
           /\ Held(c) = level[c] /\ level[c] \in SHARED_LOCK .. EXCLUSIVE_LOCK
           /\ inodeLock[p] = level[c] /\ nShared[p] = 1
           /\ Byte(p, "pending") = "write"
           /\ \A d \in Of(p) : d # c => Held(d) = NO_LOCK
  <1> DEFINE p == Proc(c)
  <1>1. /\ p \in Procs /\ c \in Of(p) /\ Inv /\ TypeInv /\ Counted(p)
        /\ \A d \in Of(p) : d \in Conns /\ Proc(d) = p /\ Exact(p, d)
        /\ level[c] \in Levels /\ nShared[p] \in Nat
    BY Known
  <1>2. /\ nShared[p] # 0 /\ level[c] >= SHARED_LOCK /\ (MayCall(c) \/ pc[c] \in Locking)
    BY <1>1, WriteRangeStep
  <1>3. \/ pc[c] = "write range"
        \/ pc[c] = "idle" /\ level[c] = PENDING_LOCK /\ nShared[p] <= 1
    BY DEF WriteRange, At, Starts
  <1>4. Held(c) = level[c]
    BY <1>3, HeldLevel
  <1>5. inodeLock[p] = level[c] /\ nShared[p] = 1 /\ Byte(p, "pending") = "write"
    <2>1. CASE pc[c] = "write range"
      BY <2>1, <1>1 DEF Exact
    <2>2. CASE level[c] = PENDING_LOCK /\ nShared[p] <= 1
      <3>1. nShared[p] = 1
        BY <2>2, <1>1, <1>2, OneLeft
      <3>2. Held(c) >= PENDING_LOCK /\ Held(c) > SHARED_LOCK
        BY <2>2, <1>4, Order, Kinds, LevelCases
      <3> QED
        BY <3>1, <3>2, <1>1, <1>4 DEF Exact
    <2> QED
      BY <1>3, <2>1, <2>2
  <1>6. \A d \in Of(p) : d # c => level[d] = NO_LOCK
    BY <1>1, <1>2, <1>5, OnlyReader
  <1>7. \A d \in Of(p) : d # c => Held(d) = level[d]
    BY <1>1, <1>2, OthersHold
  <1>8. level[c] \in SHARED_LOCK .. EXCLUSIVE_LOCK
    BY <1>1, <1>2 DEF Levels, SHARED_LOCK, EXCLUSIVE_LOCK, NO_LOCK
  <1> QED
    BY <1>4, <1>5, <1>6, <1>7, <1>8

\* The range makes the writer EXCLUSIVE, or leaves it PENDING.
LEMMA WriteRangeMaps ==
    ASSUME MapInv, dropped = {}, NEW c \in Conns, WriteRange(c) PROVE Simulates
  <1> DEFINE p == Proc(c)
  <1>1. /\ p \in Procs /\ c \in Of(p) /\ Inv /\ TypeInv /\ Kernel /\ Alone
        /\ \A d \in Of(p) : d \in Conns /\ Proc(d) = p /\ Exact(p, d)
        /\ Byte(p, "reserved") = "write" => inodeLock[p] > SHARED_LOCK
        /\ level[c] \in Levels
    BY Known
  <1>2. /\ pc'[c] = "idle" /\ Frame(c) /\ level[c] >= SHARED_LOCK
        /\ \A a \in Bytes : a # "shared" => Byte(p, a)' = Byte(p, a)
    BY <1>1, WriteRangeStep
  <1>3. /\ Held(c) = level[c] /\ inodeLock[p] = level[c]
        /\ Byte(p, "pending") = "write"
        /\ \A d \in Of(p) : d # c => Held(d) = NO_LOCK
    BY WriterAlone
  <1>4. level[c] \in {SHARED_LOCK, RESERVED_LOCK, PENDING_LOCK, EXCLUSIVE_LOCK}
    BY <1>1, <1>2, LevelCases
  <1>5. Held(c)' = level'[c]
    BY <1>2, HeldNext
  <1>6. ASSUME level'[c] \in {PENDING_LOCK, EXCLUSIVE_LOCK} PROVE Reserving' = Reserving
    <2>1. Byte(p, "reserved")' = Byte(p, "reserved")
      BY <1>2 DEF Bytes
    <2>2. IsReserving(c)' <=> Byte(p, "reserved")' = "write"
      <3>1. Held(c)' >= RESERVED_LOCK /\ p' = p
        BY <1>5, <1>6, LevelCases, Order, Kinds DEF Proc
      <3> QED
        BY <3>1 DEF IsReserving, Byte
    <2>3. IsReserving(c) <=> Byte(p, "reserved") = "write"
      <3>1. inodeLock[p] > SHARED_LOCK => Held(c) >= RESERVED_LOCK
        BY <1>1, <1>3, LevelCases
      <3> QED
        BY <3>1, <1>1 DEF IsReserving
    <2> QED
      BY <2>1, <2>2, <2>3, <1>2, SameReserve
  <1>7. CASE CanLock(p, "shared", "write") /\ SetLevels(c, EXCLUSIVE_LOCK)
    <2>1. level'[c] = EXCLUSIVE_LOCK
      BY <1>1, <1>7, Setting, Kinds
    <2>2. \A q \in Procs : q # p => Byte(q, "shared") = "none"
      BY <1>1, <1>7, Refused DEF Bytes, Modes
    <2>3. ASSUME NEW d \in Conns \ {c} PROVE Held(d) = NO_LOCK
      <3>1. CASE Proc(d) = p
        BY <3>1, <1>3 DEF Of
      <3>2. CASE Proc(d) # p
        <4>1. /\ Proc(d) \in Procs /\ Exact(Proc(d), d) /\ level[d] \in Levels
              /\ Within(Proc(d), d)
          BY Known
        <4>2. ~(level[d] >= SHARED_LOCK)
          BY <4>1, <3>2, <2>2 DEF Exact
        <4>3. level[d] = NO_LOCK /\ pc[d] # "release"
          BY <4>1, <4>2, Kinds DEF Within
        <4> QED
          BY <4>3, HeldLevel
      <3> QED
        BY <3>1, <3>2
    <2>4. Locks!Alone(c)
      BY <2>3, SameLevels DEF Locks!Alone
    <2>5. Locks!Raise(c, EXCLUSIVE_LOCK)
      BY <1>2, <1>5, <2>1, OneMoves DEF Locks!Raise
    <2>6. CASE level[c] = EXCLUSIVE_LOCK
      <3>1. Held(c)' = Held(c)
        BY <2>1, <2>6, <1>3, <1>5
      <3> QED
        BY <3>1, <1>2, NoStep DEF Bytes
    <2>7. CASE level[c] # EXCLUSIVE_LOCK
      <3>1. Held(c) \in SHARED_LOCK .. PENDING_LOCK
        BY <2>7, <1>1, <1>3, <1>4, LevelCases
      <3>2. Locks!Exclude(c)
        BY <3>1, <2>1, <2>4, <2>5, <1>6, SameLevels DEF Locks!Exclude
      <3> QED
        BY <3>2 DEF Simulates, Locks!Next
    <2> QED
      BY <2>6, <2>7
  <1>8. CASE ~CanLock(p, "shared", "write") /\ SetLevels(c, PENDING_LOCK)
    <2>1. level'[c] = PENDING_LOCK
      BY <1>1, <1>8, Setting, Kinds
    <2>2. PICK q \in Procs \ {p} : Byte(q, "shared") # "none"
      BY <1>8 DEF CanLock, Byte
    <2>3. level[c] # EXCLUSIVE_LOCK
      BY <2>2, <1>1, <1>3 DEF Alone
    <2>4. CASE level[c] = PENDING_LOCK
      <3>1. Held(c)' = Held(c)
        BY <2>1, <2>4, <1>3, <1>5
      <3> QED
        BY <3>1, <1>2, NoStep DEF Bytes
    <2>5. CASE level[c] \in {SHARED_LOCK, RESERVED_LOCK}
      <3>1. \A d \in Of(p) : ~(Held(d) >= PENDING_LOCK)
        BY <2>5, <1>3, Order
      <3>2. \A r \in Procs : r # p => Byte(r, "pending") # "write"
        BY <1>1, <1>3 DEF Kernel, Bytes
      <3>3. Locks!Admitting
        BY <3>1, <3>2, <1>1, Admitted
      <3>4. Locks!Raise(c, PENDING_LOCK)
        BY <1>2, <1>5, <2>1, OneMoves DEF Locks!Raise
      <3>5. Locks!Pend(c)
        BY <2>1, <2>5, <3>3, <3>4, <1>3, <1>6, SameLevels DEF Locks!Pend
      <3> QED
        BY <3>5 DEF Simulates, Locks!Next
    <2> QED
      BY <2>3, <2>4, <2>5, <1>4
  <1> QED
    BY <1>7, <1>8 DEF WriteRange

-----------------------------------------------------------------------------
(* Unlocking.                                                              *)

\* The read lock that replaces what was granted is no step.
LEMMA DowngradeMaps ==
    ASSUME MapInv, dropped = {}, NEW c \in Conns, Downgrade(c) PROVE Simulates
  <1>1. Inv /\ Proc(c) \in Procs
    BY Known
  <1>2. /\ pc'[c] = "downgrade" /\ level'[c] = level[c] /\ Frame(c)
        /\ \A a \in Bytes : a # "shared" => Byte(Proc(c), a)' = Byte(Proc(c), a)
    BY <1>1, DowngradeStep
  <1>3. pc[c] = "idle"
    BY DEF Downgrade, Starts, At
  <1>4. Held(c)' = Held(c)
    BY <1>2, <1>3, HeldLevel, HeldNext
  <1> QED
    BY <1>2, <1>4, NoStep DEF Bytes

\* When the single bytes are given back the connection is a reader, whatever
\* unixFile.eFileLock says meanwhile.
LEMMA DropBytesMaps ==
    ASSUME MapInv, dropped = {}, NEW c \in Conns, DropBytes(c) PROVE Simulates
  <1> DEFINE p == Proc(c)
  <1>1. /\ p \in Procs /\ c \in Of(p) /\ Inv /\ TypeInv /\ Upper(p)
        /\ \A d \in Of(p) : d \in Conns /\ Proc(d) = p /\ Exact(p, d)
    BY Known
  <1>2. Frame(c) /\ \A q \in Procs : q # p => \A a \in Bytes : Byte(q, a)' = Byte(q, a)
    BY <1>1, DropBytesStep
  <1>3. level[c] > SHARED_LOCK /\ pc[c] \in {"idle", "downgrade"}
    <2>1. CASE pc[c] = "downgrade"
      BY <2>1, <1>1 DEF Exact
    <2>2. CASE pc[c] = "idle" /\ level[c] > SHARED_LOCK
      BY <2>2
    <2> QED
      BY <2>1, <2>2 DEF DropBytes, At, Starts
  <1>4. Held(c) > SHARED_LOCK
    BY <1>3, HeldLevel
  <1>5. Held(c)' = SHARED_LOCK
    <2>1. CASE At(c, "downgrade") /\ level' = [level EXCEPT ![c] = SHARED_LOCK] /\ Goto(c, "idle")
      <3>1. level'[c] = SHARED_LOCK /\ pc'[c] = "idle"
        BY <2>1, <1>1, Going, Kinds DEF TypeInv
      <3> QED
        BY <3>1, HeldNext
    <2>2. CASE Goto(c, "release")
      <3>1. pc'[c] = "release"
        BY <2>2, <1>1, Going, Kinds
      <3> QED
        BY <3>1, HeldNext
    <2> QED
      BY <2>1, <2>2 DEF DropBytes
  <1>6. kernel' = [kernel EXCEPT ![p]["pending"] = "none", ![p]["reserved"] = "none"]
    BY DEF DropBytes
  <1>7. ASSUME NEW d \in Conns PROVE IsReserving(d)' <=> IsReserving(d) /\ d # c
    <2>1. CASE d = c
      <3>1. ~(Held(d)' >= RESERVED_LOCK)
        BY <2>1, <1>5, LevelCases
      <3> QED
        BY <3>1, <2>1 DEF IsReserving
    <2>2. CASE d # c /\ Proc(d) = p
      <3>1. d \in Of(p) /\ Held(d)' = Held(d) /\ Held(d) \in Levels
        BY <2>2, <1>1, <1>2, HeldType DEF Of, Frame, Held, At
      <3>2. ~(Held(d) > SHARED_LOCK)
        BY <3>1, <2>2, <1>1, <1>4 DEF Upper
      <3>3. ~(Held(d) >= RESERVED_LOCK) /\ ~(Held(d)' >= RESERVED_LOCK)
        BY <3>1, <3>2, LevelCases
      <3> QED
        BY <3>3 DEF IsReserving
    <2>3. CASE d # c /\ Proc(d) # p
      <3>1. Held(d)' = Held(d) /\ Proc(d)' = Proc(d) /\ Proc(d) \in Procs
        BY <2>3, <1>2, ProcType DEF Frame, Held, At, Proc
      <3>2. Byte(Proc(d), "reserved")' = Byte(Proc(d), "reserved")
        BY <3>1, <2>3, <1>2 DEF Bytes
      <3> QED
        BY <3>1, <3>2, <2>3 DEF IsReserving
    <2> QED
      BY <2>1, <2>2, <2>3
  <1>8. Reserving' = Reserving \ {c}
    BY <1>7, WhoReserves, WhoReservesNext
  <1>9. [d \in Conns |-> Held(d)]' = [[d \in Conns |-> Held(d)] EXCEPT ![c] = SHARED_LOCK]
    BY <1>2, <1>5, OneMoves
  <1>10. Locks!Lower(c, SHARED_LOCK)
    BY <1>4, <1>8, <1>9 DEF Locks!Lower
  <1> QED
    BY <1>10, SameLevels DEF Simulates, Locks!Next

\* The lock goes, and with the last one what the kernel has granted.
LEMMA ReleaseMaps ==
    ASSUME MapInv, dropped = {}, NEW c \in Conns, Release(c) PROVE Simulates
  <1> DEFINE p == Proc(c)
  <1>1. /\ p \in Procs /\ c \in Of(p) /\ Inv /\ TypeInv /\ Counted(p) /\ Within(p, c)
        /\ \A d \in Of(p) : d \in Conns /\ Proc(d) = p
    BY Known
  <1>2. /\ Frame(c) /\ pc'[c] = "idle" /\ level'[c] = NO_LOCK /\ level[c] >= SHARED_LOCK
        /\ (MayCall(c) \/ pc[c] \in Locking)
        /\ \A q \in Procs : q # p => \A a \in Bytes : Byte(q, a)' = Byte(q, a)
    BY <1>1, ReleaseStep
  <1>3. pc[c] = "release" \/ (pc[c] = "idle" /\ level[c] = SHARED_LOCK)
    BY DEF Release, At, Starts
  <1>4. Held(c) = SHARED_LOCK /\ Held(c)' = NO_LOCK
    BY <1>2, <1>3, HeldLevel, HeldNext
  <1>5. ~IsReserving(c) /\ ~IsReserving(c)'
    BY <1>4, LevelCases DEF IsReserving
  <1>6. ASSUME NEW d \in Conns, d # c PROVE IsReserving(d)' <=> IsReserving(d)
    <2>1. CASE UNCHANGED kernel
      <3>1. Byte(p, "reserved")' = Byte(p, "reserved")
        BY <2>1 DEF Byte, Proc
      <3> QED
        BY <3>1, <1>2, <1>6, OthersReserve
    <2>2. CASE nShared[p] = 1 /\ Proc(d) = p
      <3>1. level[d] = NO_LOCK /\ d \in Of(p)
        BY <2>2, <1>1, <1>2, <1>6, OnlyReader DEF Of
      <3>2. Held(d) = NO_LOCK
        BY <3>1, <1>2, <1>6, OthersHold
      <3>3. Held(d)' = Held(d)
        BY <1>2, <1>6 DEF Frame, Held, At
      <3> QED
        BY <3>2, <3>3, LevelCases DEF IsReserving
    <2>3. CASE Proc(d) # p
      <3>1. Held(d)' = Held(d) /\ Proc(d)' = Proc(d) /\ Proc(d) \in Procs
        BY <1>2, <1>6, ProcType DEF Frame, Held, At, Proc
      <3>2. Byte(Proc(d), "reserved")' = Byte(Proc(d), "reserved")
        BY <3>1, <2>3, <1>2 DEF Bytes
      <3> QED
        BY <3>1, <3>2 DEF IsReserving
    <2>4. UNCHANGED kernel \/ nShared[p] = 1
      BY DEF Release
    <2> QED
      BY <2>1, <2>2, <2>3, <2>4
  <1>7. Reserving' = Reserving \ {c}
    BY <1>5, <1>6, WhoReserves, WhoReservesNext
  <1>8. [d \in Conns |-> Held(d)]' = [[d \in Conns |-> Held(d)] EXCEPT ![c] = NO_LOCK]
    BY <1>2, <1>4, OneMoves
  <1>9. Locks!Lower(c, NO_LOCK)
    BY <1>4, <1>7, <1>8, LevelCases DEF Locks!Lower
  <1> QED
    BY <1>9, SameLevels DEF Simulates, Locks!Next

-----------------------------------------------------------------------------
(* Descriptors, deaths and the theorem.                                    *)

\* Opening and closing are no steps, as long as no lock is dropped.
LEMMA OpenMaps ==
    ASSUME MapInv, dropped = {}, dropped' = {}, NEW c \in Conns,
           Open(c) \/ Close(c) \/ CloseFd(c)
    PROVE  Simulates
  <1> DEFINE p == Proc(c)
  <1>1. Inv /\ TypeInv /\ p \in Procs
    BY Known
  <1>2. Frame(c) /\ level'[c] = level[c] /\ kernel' = kernel
        /\ pc[c] # "release" /\ pc'[c] # "release"
    <2>1. CASE Open(c)
      <3>1. kernel' = kernel /\ pc[c] = "closed"
        BY <2>1 DEF Open, At
      <3> QED
        BY <3>1, <2>1, <1>1, OpenStep
    <2>2. CASE Close(c)
      <3>1. kernel' = kernel /\ pc[c] = "idle"
        BY <2>2 DEF Close, Starts, At
      <3> QED
        BY <3>1, <2>2, <1>1, CloseStep
    <2>3. CASE CloseFd(c)
      <3>1. kernel[p] = NoGrant
        BY <2>3 DEF CloseFd
      <3>2. kernel' = kernel
        BY <3>1, <2>3, <1>1 DEF CloseFd, TypeInv
      <3>3. pc[c] = "close fd" /\ pc' = [pc EXCEPT ![c] = "closed"]
        BY <2>3 DEF CloseFd, At, Goto
      <3>4. pc'[c] = "closed" /\ \A d \in Conns : d # c => pc'[d] = pc[d]
        BY <3>3, <1>1 DEF TypeInv
      <3>5. level' = level /\ inodeLock' = inodeLock /\ nShared' = nShared /\ nLock' = nLock
        BY <2>3 DEF CloseFd, inode
      <3>6. Frame(c)
        BY <3>2, <3>4, <3>5 DEF Frame, Byte
      <3> QED
        BY <3>2, <3>3, <3>4, <3>5, <3>6
    <2> QED
      BY <2>1, <2>2, <2>3
  <1>3. Held(c)' = Held(c)
    BY <1>2, HeldLevel, HeldNext
  <1>4. Byte(p, "reserved")' = Byte(p, "reserved")
    BY <1>2 DEF Byte, Proc
  <1> QED
    BY <1>2, <1>3, <1>4, NoStep

\* A process dies with its connections.
LEMMA DieMaps == ASSUME MapInv, dropped = {}, NEW p \in Procs, Die(p) PROVE Simulates
  <1> DEFINE dead == Of(p)
  <1>1. dead \in SUBSET Conns /\ TypeInv
    BY DEF Of, MapInv, LockInv, Inv
  <1>2. \A d \in Conns : IF d \in dead THEN level'[d] = NO_LOCK /\ pc'[d] = "closed"
                                       ELSE level'[d] = level[d] /\ pc'[d] = pc[d]
    BY DEF Die
  <1>3. \A d \in Conns : Held(d)' = IF d \in dead THEN NO_LOCK ELSE Held(d)
    <2> SUFFICES ASSUME NEW d \in Conns
                 PROVE  Held(d)' = IF d \in dead THEN NO_LOCK ELSE Held(d)
      OBVIOUS
    <2>1. CASE d \in dead
      BY <2>1, <1>2, HeldNext
    <2>2. CASE d \notin dead
      BY <2>2, <1>2 DEF Held, At
    <2> QED
      BY <2>1, <2>2
  <1>4. ASSUME NEW d \in Conns PROVE IsReserving(d)' <=> IsReserving(d) /\ d \notin dead
    <2>1. CASE d \in dead
      <3>1. Held(d)' = NO_LOCK
        BY <2>1, <1>3
      <3> QED
        BY <3>1, <2>1, LevelCases DEF IsReserving
    <2>2. CASE d \notin dead
      <3>1. Proc(d) # p /\ Proc(d) \in Procs /\ Proc(d)' = Proc(d)
        BY <2>2, ProcType DEF Of, Proc
      <3>2. kernel' = [kernel EXCEPT ![p] = NoGrant]
        BY DEF Die
      <3>3. Byte(Proc(d), "reserved")' = Byte(Proc(d), "reserved")
        BY <3>1, <3>2, <1>1, Freeing DEF Bytes
      <3>4. Held(d)' = Held(d)
        BY <2>2, <1>3
      <3> QED
        BY <3>1, <3>3, <3>4, <2>2 DEF IsReserving
    <2> QED
      BY <2>1, <2>2
  <1>5. Reserving' = Reserving \ dead
    BY <1>4, WhoReserves, WhoReservesNext
  <1>6. [d \in Conns |-> Held(d)]' = [d \in Conns |-> IF d \in dead THEN NO_LOCK ELSE Held(d)]
    BY <1>3
  <1>7. Locks!Die(dead)
    BY <1>5, <1>6, SameLevels DEF Locks!Die
  <1> QED
    BY <1>1, <1>7 DEF Simulates, Locks!Next

\* At the start no connection holds a lock.
LEMMA InitMaps == Init => Locks!Init
  <1> SUFFICES ASSUME Init PROVE Locks!Init
    OBVIOUS
  <1>1. \A c \in Conns : level[c] = NO_LOCK /\ pc[c] = "closed"
    BY DEF Init
  <1>2. \A c \in Conns : Held(c) = NO_LOCK
    BY <1>1, HeldLevel
  <1>3. Reserving = {}
    BY <1>2, LevelCases, WhoReserves DEF IsReserving
  <1> QED
    BY <1>2, <1>3, SameLevels DEF Locks!Init

\* Every step that drops no lock is one FileLocks allows, or none.
LEMMA NextMaps ==
    ASSUME MapInv, [Next]_vars
    PROVE  [dropped' = {} => Locks!Next]_<<Locks!vars, dropped>>
  <1>1. dropped' = {} => dropped = {}
    <2>1. CASE UNCHANGED vars
      BY <2>1 DEF vars
    <2>2. ASSUME NEW c \in Conns, CloseFd(c) PROVE dropped \subseteq dropped'
      BY <2>2 DEF CloseFd
    <2>3. ASSUME NEW c \in Conns,
                 \/ JoinShared(c) \/ ReadPending(c) \/ ReadRange(c) \/ DropPending(c)
                 \/ Reserve(c) \/ WritePending(c) \/ WriteRange(c)
                 \/ Downgrade(c) \/ DropBytes(c) \/ Release(c) \/ Open(c) \/ Close(c)
          PROVE  dropped' = dropped
      BY <2>3 DEF JoinShared, ReadPending, ReadRange, DropPending, Reserve, WritePending,
                  WriteRange, Downgrade, DropBytes, Release, Open, Close
    <2>4. ASSUME NEW p \in Procs, Die(p) PROVE dropped' = dropped
      BY <2>4 DEF Die
    <2> QED
      BY <2>1, <2>2, <2>3, <2>4 DEF Next
  <1>2. CASE dropped' # {}
    BY <1>2
  <1>3. CASE dropped' = {} /\ UNCHANGED vars
    <2>1. UNCHANGED <<level, pc, kernel, dropped>>
      BY <1>3 DEF vars
    <2> QED
      BY <2>1 DEF Locks!vars, Held, At, Reserving
  <1>4. CASE dropped' = {} /\ Next
    <2>1. ASSUME NEW c \in Conns,
                 \/ JoinShared(c) \/ ReadPending(c) \/ ReadRange(c) \/ DropPending(c)
                 \/ Reserve(c) \/ WritePending(c) \/ WriteRange(c)
                 \/ Downgrade(c) \/ DropBytes(c) \/ Release(c)
                 \/ Open(c) \/ Close(c) \/ CloseFd(c)
          PROVE  Simulates
      BY <1>1, <1>4, <2>1, JoinSharedMaps, ReadPendingMaps, ReadRangeMaps, DropPendingMaps,
         ReserveMaps, WritePendingMaps, WriteRangeMaps, DowngradeMaps, DropBytesMaps,
         ReleaseMaps, OpenMaps
    <2>2. ASSUME NEW p \in Procs, Die(p) PROVE Simulates
      BY <1>1, <1>4, <2>2, DieMaps
    <2>3. Simulates
      BY <1>4, <2>1, <2>2 DEF Next
    <2> QED
      BY <2>3, <1>1, <1>4 DEF Simulates
  <1> QED
    BY <1>2, <1>3, <1>4

(* Until a close drops locks, what os_unix.c does with POSIX locks of      *)
(* processes is what FileLocks says of connections: unixLock, posixUnlock, *)
(* opening, closing and the death of a process map to its steps.           *)
THEOREM LocksImplemented == Spec => LocksKept
  <1>1. Init => Locks!Init
    BY InitMaps
  <1>2. MapInv /\ [Next]_vars => [dropped' = {} => Locks!Next]_<<Locks!vars, dropped>>
    BY NextMaps
  <1> QED
    BY <1>1, <1>2, MapInvInit, MapInvNext, PTL DEF Spec, LocksKept

-----------------------------------------------------------------------------
(* ReservedReported: what unixCheckReservedLock says of the inode and of   *)
(* the reserved byte is what the connections hold.                         *)
(*                                                                         *)
(* That a writer is seen follows from the invariants above; that what is   *)
(* seen is a writer needs that a level of the inode above SHARED is always *)
(* the level of one of its connections.                                    *)

Writes(c) == Held(c) > SHARED_LOCK

\* The inode says more than SHARED only because a connection holds more.
Backed == \A p \in Procs : inodeLock[p] > SHARED_LOCK => \E d \in Of(p) : Writes(d)

\* Nobody asks for a read lock on the reserved byte.
NeverRead == \A p \in Procs : Byte(p, "reserved") # "read"

SeenInv == MapInv /\ Backed /\ NeverRead

-----------------------------------------------------------------------------
(* The level of the inode stays backed.                                    *)

\* A step leaves the level of the inode to a writer, lowers it, or leaves it
\* alone and is not made by the writer.
LEMMA BackedKeeps ==
    ASSUME Backed, NEW c \in Conns, Frame(c),
           \/ Writes(c)'
           \/ ~(inodeLock'[Proc(c)] > SHARED_LOCK)
           \/ inodeLock'[Proc(c)] = inodeLock[Proc(c)] /\ (Writes(c) => Writes(c)')
    PROVE  Backed'
  <1> SUFFICES ASSUME NEW q \in Procs, inodeLock'[q] > SHARED_LOCK
               PROVE  \E d \in Of(q) : Writes(d)'
    BY DEF Backed, Of, Proc
  <1>1. \A d \in Conns : d # c => (Writes(d)' <=> Writes(d))
    BY DEF Frame, Writes, Held, At
  <1>2. ASSUME inodeLock[q] > SHARED_LOCK, Writes(c) /\ c \in Of(q) => Writes(c)'
        PROVE  \E d \in Of(q) : Writes(d)'
    <2>1. PICK d \in Of(q) : Writes(d)
      BY <1>2 DEF Backed
    <2> QED
      BY <2>1, <1>1, <1>2 DEF Of
  <1>3. CASE q = Proc(c)
    <2>1. CASE Writes(c)'
      BY <2>1, <1>3, ProcType
    <2>2. CASE inodeLock'[q] = inodeLock[q] /\ (Writes(c) => Writes(c)')
      BY <2>2, <1>2
    <2> QED
      BY <2>1, <2>2, <1>3
  <1>4. CASE q # Proc(c)
    <2>1. inodeLock'[q] = inodeLock[q] /\ c \notin Of(q)
      BY <1>4 DEF Frame, Of
    <2> QED
      BY <2>1, <1>2
  <1> QED
    BY <1>3, <1>4

\* Reading.
LEMMA ReadersBacked ==
    ASSUME Inv, Backed, NEW c \in Conns,
           JoinShared(c) \/ ReadPending(c) \/ ReadRange(c) \/ DropPending(c)
    PROVE  Backed'
  <1>1. CASE JoinShared(c)
    <2>1. /\ Frame(c) /\ inodeLock'[Proc(c)] = inodeLock[Proc(c)] /\ level[c] = NO_LOCK
          /\ pc[c] = "idle"
      BY <1>1, JoinSharedStep DEF JoinShared, Starts, At
    <2>2. ~Writes(c)
      BY <2>1, HeldLevel, Order DEF Writes
    <2> QED
      BY <2>1, <2>2, BackedKeeps
  <1>2. CASE ReadPending(c)
    <2>1. /\ Frame(c) /\ inodeLock'[Proc(c)] = inodeLock[Proc(c)] /\ level'[c] = level[c]
          /\ pc[c] = "idle" /\ pc'[c] = "read range"
      BY <1>2, ReadPendingStep DEF ReadPending, Starts, At
    <2>2. Writes(c)' <=> Writes(c)
      BY <2>1, HeldLevel, HeldNext DEF Writes
    <2> QED
      BY <2>1, <2>2, BackedKeeps
  <1>3. CASE ReadRange(c)
    <2>1. /\ Frame(c) /\ inodeLock'[Proc(c)] = inodeLock[Proc(c)] /\ level'[c] = level[c]
          /\ pc[c] = "read range" /\ pc'[c] \in {"drop pending", "give up"}
      BY <1>3, ReadRangeStep
    <2>2. Writes(c)' <=> Writes(c)
      BY <2>1, HeldLevel, HeldNext DEF Writes
    <2> QED
      BY <2>1, <2>2, BackedKeeps
  <1>4. CASE DropPending(c)
    <2>1. /\ Frame(c) /\ level[c] = NO_LOCK /\ pc[c] \in {"drop pending", "give up"}
          /\ \/ inodeLock'[Proc(c)] = inodeLock[Proc(c)]
             \/ inodeLock'[Proc(c)] = SHARED_LOCK
      BY <1>4, DropPendingStep DEF DropPending, At
    <2>2. ~Writes(c)
      BY <2>1, HeldLevel, Order DEF Writes
    <2> QED
      BY <2>1, <2>2, Order, BackedKeeps
  <1> QED
    BY <1>1, <1>2, <1>3, <1>4

\* Writing.
LEMMA WritersBacked ==
    ASSUME Inv, Backed, NEW c \in Conns, Reserve(c) \/ WritePending(c) \/ WriteRange(c)
    PROVE  Backed'
  <1>1. CASE Reserve(c)
    <2>1. Frame(c) /\ level'[c] = RESERVED_LOCK /\ pc'[c] = "idle"
      BY <1>1, ReserveStep
    <2>2. Writes(c)'
      BY <2>1, HeldNext, Order DEF Writes
    <2> QED
      BY <2>1, <2>2, BackedKeeps
  <1>2. CASE WritePending(c)
    <2>1. Frame(c) /\ pc'[c] \in {"idle", "write range"} /\ pc[c] = "idle"
      BY <1>2, WritePendingStep DEF WritePending, Starts, At
    <2>2. CASE SetLevels(c, PENDING_LOCK)
      <3>1. level'[c] = PENDING_LOCK
        BY <2>2, Setting, Kinds DEF Inv
      <3>2. Writes(c)'
        BY <2>1, <3>1, HeldNext, Order DEF Writes
      <3> QED
        BY <3>2, <2>1, BackedKeeps
    <2>3. CASE UNCHANGED <<level, inodeLock>>
      <3>1. Writes(c)' <=> Writes(c)
        BY <2>1, <2>3, HeldLevel, HeldNext DEF Writes
      <3> QED
        BY <3>1, <2>1, <2>3, BackedKeeps
    <2> QED
      BY <2>2, <2>3, <1>2 DEF WritePending
  <1>3. CASE WriteRange(c)
    <2>1. Frame(c) /\ pc'[c] = "idle"
      BY <1>3, WriteRangeStep
    <2>2. level'[c] \in {PENDING_LOCK, EXCLUSIVE_LOCK}
      <3>1. SetLevels(c, EXCLUSIVE_LOCK) \/ SetLevels(c, PENDING_LOCK)
        BY <1>3 DEF WriteRange
      <3> QED
        BY <3>1, Setting, Kinds DEF Inv
    <2>3. Writes(c)'
      BY <2>1, <2>2, HeldNext, Order DEF Writes
    <2> QED
      BY <2>1, <2>3, BackedKeeps
  <1> QED
    BY <1>1, <1>2, <1>3

\* Unlocking.
LEMMA UnlockersBacked ==
    ASSUME Inv, Backed, NEW c \in Conns, Downgrade(c) \/ DropBytes(c) \/ Release(c)
    PROVE  Backed'
  <1>1. CASE Downgrade(c)
    <2>1. Frame(c) /\ level'[c] = level[c] /\ level[c] > SHARED_LOCK /\ pc'[c] = "downgrade"
      BY <1>1, DowngradeStep DEF Downgrade
    <2>2. Writes(c)'
      BY <2>1, HeldNext DEF Writes
    <2> QED
      BY <2>1, <2>2, BackedKeeps
  <1>2. CASE DropBytes(c)
    <2>1. Frame(c) /\ inodeLock'[Proc(c)] = SHARED_LOCK
      BY <1>2, DropBytesStep
    <2> QED
      BY <2>1, Order, BackedKeeps
  <1>3. CASE Release(c)
    <2>1. /\ Frame(c)
          /\ inodeLock'[Proc(c)] = inodeLock[Proc(c)] \/ inodeLock'[Proc(c)] = NO_LOCK
      BY <1>3, ReleaseStep
    <2>2. pc[c] = "release" \/ (pc[c] = "idle" /\ level[c] = SHARED_LOCK)
      BY <1>3 DEF Release, Starts, At
    <2>3. ~Writes(c)
      BY <2>2, HeldLevel, Order DEF Writes
    <2> QED
      BY <2>1, <2>3, Order, BackedKeeps
  <1> QED
    BY <1>1, <1>2, <1>3

\* Opening, closing, dying, or nothing: who lives holds what it held.
LEMMA OthersBacked ==
    ASSUME Inv, Backed,
           \/ \E c \in Conns : Open(c) \/ Close(c) \/ CloseFd(c)
           \/ \E p \in Procs : Die(p)
           \/ UNCHANGED vars
    PROVE  Backed'
  <1> SUFFICES ASSUME NEW q \in Procs, inodeLock'[q] > SHARED_LOCK
               PROVE  \E d \in Of(q) : Writes(d)'
    BY DEF Backed, Of, Proc
  <1>1. ASSUME NEW c \in Conns, Open(c) \/ Close(c) \/ CloseFd(c)
        PROVE  /\ level' = level /\ inodeLock' = inodeLock
               /\ \A d \in Conns : pc'[d] = "release" <=> pc[d] = "release"
    <2>1. \E stage \in {"idle", "closed", "close fd"} : Goto(c, stage)
      BY <1>1 DEF Open, Close, CloseFd
    <2>2. pc[c] \in {"closed", "idle", "close fd"}
      BY <1>1 DEF Open, Close, CloseFd, Starts, At
    <2>3. \A d \in Conns : pc'[d] = "release" <=> pc[d] = "release"
      BY <2>1, <2>2 DEF Goto, Inv, TypeInv
    <2>4. level' = level /\ inodeLock' = inodeLock
      BY <1>1 DEF Open, Close, CloseFd, inode
    <2> QED
      BY <2>3, <2>4
  <1>2. CASE \/ \E c \in Conns : Open(c) \/ Close(c) \/ CloseFd(c)
             \/ UNCHANGED vars
    <2>1. /\ level' = level /\ inodeLock' = inodeLock
          /\ \A d \in Conns : pc'[d] = "release" <=> pc[d] = "release"
      BY <1>1, <1>2 DEF vars, inode
    <2>2. \A d \in Conns : Writes(d)' <=> Writes(d)
      BY <2>1 DEF Writes, Held, At
    <2> QED
      BY <2>1, <2>2 DEF Backed, Of
  <1>3. ASSUME NEW p \in Procs, Die(p) PROVE \E d \in Of(q) : Writes(d)'
    <2>1. inodeLock' = [inodeLock EXCEPT ![p] = NO_LOCK]
      BY <1>3 DEF Die
    <2>2. q # p
      BY <2>1, Order DEF Inv, TypeInv
    <2>3. PICK d \in Of(q) : Writes(d)
      BY <2>1, <2>2 DEF Backed, Inv, TypeInv
    <2>4. d \in Conns /\ d \notin Of(p)
      BY <2>2 DEF Of
    <2>5. level'[d] = level[d] /\ pc'[d] = pc[d]
      BY <1>3, <2>4 DEF Die
    <2> QED
      BY <2>3, <2>5 DEF Writes, Held, At
  <1> QED
    BY <1>2, <1>3

\* The reserved byte stays as it is, is given back, or is locked for writing.
LEMMA ReservedByte ==
    ASSUME Inv, [Next]_vars, NEW q \in Procs
    PROVE  Byte(q, "reserved")' \in {Byte(q, "reserved"), "none", "write"}
  <1>1. CASE UNCHANGED kernel
    BY <1>1 DEF Byte
  <1>2. ASSUME NEW c \in Conns, NEW b \in {"pending", "shared"}, NEW m, Grant(Proc(c), b, m)
        PROVE  Byte(q, "reserved")' = Byte(q, "reserved")
    BY <1>2, ProcType DEF Grant, Byte, Inv, TypeInv, Bytes
  <1>3. ASSUME NEW c \in Conns, Grant(Proc(c), "reserved", "write")
        PROVE  Byte(q, "reserved")' \in {Byte(q, "reserved"), "write"}
    BY <1>3, ProcType DEF Grant, Byte, Inv, TypeInv, Bytes
  <1>4. ASSUME NEW p \in Procs, kernel' = [kernel EXCEPT ![p] = NoGrant]
        PROVE  Byte(q, "reserved")' \in {Byte(q, "reserved"), "none"}
    BY <1>4 DEF Byte, Inv, TypeInv, NoGrant, Bytes
  <1>5. ASSUME NEW c \in Conns,
               kernel' = [kernel EXCEPT ![Proc(c)]["pending"] = "none",
                                        ![Proc(c)]["reserved"] = "none"]
        PROVE  Byte(q, "reserved")' \in {Byte(q, "reserved"), "none"}
    BY <1>5, ProcType DEF Byte, Inv, TypeInv, Bytes
  <1>6. ASSUME NEW c \in Conns,
               ReadPending(c) \/ ReadRange(c) \/ DropPending(c) \/ WritePending(c)
               \/ WriteRange(c) \/ Downgrade(c)
        PROVE  Byte(q, "reserved")' = Byte(q, "reserved")
    <2>1. UNCHANGED kernel \/ \E b \in {"pending", "shared"}, m \in Modes : Grant(Proc(c), b, m)
      BY <1>6 DEF ReadPending, ReadRange, DropPending, WritePending, WriteRange, Downgrade, Modes
    <2> QED
      BY <2>1, <1>2 DEF Byte
  <1>7. ASSUME NEW c \in Conns, JoinShared(c) \/ Open(c) \/ Close(c) PROVE UNCHANGED kernel
    BY <1>7 DEF JoinShared, Open, Close
  <1>8. ASSUME NEW c \in Conns, Reserve(c) PROVE Grant(Proc(c), "reserved", "write")
    BY <1>8 DEF Reserve
  <1>9. ASSUME NEW c \in Conns, Release(c) \/ CloseFd(c)
        PROVE  UNCHANGED kernel \/ kernel' = [kernel EXCEPT ![Proc(c)] = NoGrant]
    BY <1>9 DEF Release, CloseFd
  <1>10. ASSUME NEW c \in Conns, DropBytes(c)
         PROVE  kernel' = [kernel EXCEPT ![Proc(c)]["pending"] = "none",
                                         ![Proc(c)]["reserved"] = "none"]
    BY <1>10 DEF DropBytes
  <1>11. ASSUME NEW p \in Procs, Die(p) PROVE kernel' = [kernel EXCEPT ![p] = NoGrant]
    BY <1>11 DEF Die
  <1>12. ASSUME NEW c \in Conns, Release(c) \/ CloseFd(c) \/ DropBytes(c) \/ Reserve(c)
         PROVE  Byte(q, "reserved")' \in {Byte(q, "reserved"), "none", "write"}
    <2>1. CASE Release(c) \/ CloseFd(c)
      BY <2>1, <1>1, <1>4, <1>9, ProcType
    <2>2. CASE DropBytes(c)
      BY <2>2, <1>5, <1>10
    <2>3. CASE Reserve(c)
      BY <2>3, <1>3, <1>8
    <2> QED
      BY <2>1, <2>2, <2>3, <1>12
  <1>13. ASSUME NEW p \in Procs, Die(p)
         PROVE  Byte(q, "reserved")' \in {Byte(q, "reserved"), "none", "write"}
    BY <1>4, <1>11, <1>13
  <1>14. CASE UNCHANGED vars
    BY <1>1, <1>14 DEF vars
  <1> QED
    BY <1>1, <1>6, <1>7, <1>12, <1>13, <1>14 DEF Next

\* The invariant holds at the start, where every inode is unlocked.
LEMMA SeenInvInit == Init => SeenInv
  <1> SUFFICES ASSUME Init PROVE SeenInv
    OBVIOUS
  <1>1. Backed
    BY Order DEF Init, Backed
  <1>2. NeverRead
    BY DEF Init, NeverRead, Byte, NoGrant, Bytes
  <1> QED
    BY <1>1, <1>2, MapInvInit DEF SeenInv

\* Every step keeps the invariant.
LEMMA SeenInvNext == SeenInv /\ [Next]_vars => SeenInv'
  <1> SUFFICES ASSUME SeenInv, [Next]_vars PROVE SeenInv'
    OBVIOUS
  <1>1. MapInv' /\ Inv /\ Backed
    BY MapInvNext DEF SeenInv, MapInv, LockInv
  <1>2. Backed'
    BY <1>1, ReadersBacked, WritersBacked, UnlockersBacked, OthersBacked DEF Next
  <1>3. NeverRead'
    BY <1>1, ReservedByte DEF SeenInv, NeverRead
  <1> QED
    BY <1>1, <1>2, <1>3 DEF SeenInv

-----------------------------------------------------------------------------
(* What is seen and what is there.                                         *)

\* A reserved byte that keeps another process out is that of a connection.
LEMMA ForeignByte ==
    ASSUME MapInv, Backed, NEW q \in Procs, Byte(q, "reserved") = "write"
    PROVE  \E d \in Of(q) : IsReserving(d)
  <1>1. PICK d \in Of(q) : Writes(d)
    BY DEF MapInv, Warranted, Backed
  <1>2. d \in Conns /\ Proc(d) = q /\ Held(d) \in Levels
    BY HeldType DEF Of, MapInv, LockInv, Inv
  <1>3. Held(d) >= RESERVED_LOCK
    BY <1>1, <1>2, LevelCases DEF Writes
  <1> QED
    BY <1>2, <1>3 DEF IsReserving

\* While the mutex of its process is free a connection holds its level.
LEMMA FreeLevels ==
    ASSUME TypeInv, NEW c \in Conns, MutexFree(Proc(c)), NEW d \in Of(Proc(c))
    PROVE  Held(d) = level[d]
  <1>1. pc[d] # "release"
    BY DEF MutexFree, Locking
  <1> QED
    BY <1>1, HeldLevel

\* The report of the inode: a connection of the process holds more.
LEMMA InodeReports ==
    ASSUME SeenInv, dropped = {}, NEW c \in Conns, MutexFree(Proc(c)), ~Writes(c)
    PROVE  inodeLock[Proc(c)] > SHARED_LOCK
           <=> \E d \in Conns \ {c} : Proc(d) = Proc(c) /\ level[d] > SHARED_LOCK
  <1> DEFINE p == Proc(c)
  <1>1. TypeInv /\ p \in Procs /\ MapInv /\ Backed
    BY ProcType DEF SeenInv, MapInv, LockInv, Inv
  <1>2. \A d \in Of(p) : d \in Conns /\ Proc(d) = p /\ Held(d) = level[d] /\ Exact(p, d)
    BY <1>1, FreeLevels, Known
  <1>3. ASSUME inodeLock[p] > SHARED_LOCK
        PROVE  \E d \in Conns \ {c} : Proc(d) = Proc(c) /\ level[d] > SHARED_LOCK
    <2>1. PICK d \in Of(p) : Writes(d)
      BY <1>1, <1>3 DEF Backed
    <2>2. d # c /\ level[d] > SHARED_LOCK
      BY <2>1, <1>2 DEF Writes
    <2> QED
      BY <2>1, <2>2, <1>2
  <1>4. ASSUME NEW d \in Conns, Proc(d) = p, level[d] > SHARED_LOCK
        PROVE  inodeLock[p] > SHARED_LOCK
    <2>1. d \in Of(p)
      BY <1>4 DEF Of
    <2> QED
      BY <2>1, <1>2, <1>4 DEF Exact
  <1> QED
    BY <1>3, <1>4

\* The report of the kernel: a connection of another process reserves.
LEMMA KernelReports ==
    ASSUME SeenInv, NEW c \in Conns
    PROVE  ~CanLock(Proc(c), "reserved", "write")
           <=> \E d \in Conns : d \in Reserving /\ Proc(d) # Proc(c)
  <1>1. MapInv /\ Backed /\ NeverRead /\ TypeInv
    BY DEF SeenInv, MapInv, LockInv, Inv
  <1>2. \A q \in Procs : Byte(q, "reserved") # "none" <=> Byte(q, "reserved") = "write"
    BY <1>1 DEF NeverRead, TypeInv, Byte, Bytes, Modes
  <1>3. ~CanLock(Proc(c), "reserved", "write")
        <=> \E q \in Procs \ {Proc(c)} : Byte(q, "reserved") = "write"
    BY <1>2 DEF CanLock, Byte
  <1>4. ASSUME NEW q \in Procs \ {Proc(c)}, Byte(q, "reserved") = "write"
        PROVE  \E d \in Conns : d \in Reserving /\ Proc(d) # Proc(c)
    <2>1. PICK d \in Of(q) : IsReserving(d)
      BY <1>1, <1>4, ForeignByte
    <2> QED
      BY <2>1, WhoReserves DEF Of
  <1>5. ASSUME NEW d \in Conns, d \in Reserving, Proc(d) # Proc(c)
        PROVE  \E q \in Procs \ {Proc(c)} : Byte(q, "reserved") = "write"
    BY <1>5, ProcType, WhoReserves DEF IsReserving
  <1> QED
    BY <1>3, <1>4, <1>5

\* In the process itself who reserves holds more than SHARED.
LEMMA ReservingWrites ==
    ASSUME TypeInv, NEW c \in Conns, MutexFree(Proc(c)),
           NEW d \in Reserving, Proc(d) = Proc(c)
    PROVE  level[d] > SHARED_LOCK
  <1>1. d \in Conns /\ Held(d) >= RESERVED_LOCK
    BY WhoReserves DEF IsReserving
  <1>2. d \in Of(Proc(c)) /\ Held(d) \in Levels
    BY <1>1, HeldType DEF Of
  <1> QED
    BY <1>1, <1>2, FreeLevels, LevelCases

(* unixCheckReservedLock, asked by hasHotJournal, reports a lock exactly    *)
(* when another connection prepares a write or, in the same process, holds  *)
(* more than SHARED, for any connections, isolates and processes.           *)
THEOREM ReservedIsReported == Spec => []ReservedReported
  <1>1. SeenInv => ReservedReported
    <2> SUFFICES ASSUME SeenInv, dropped = {}, NEW c \in Conns, Starts(c),
                        level[c] <= SHARED_LOCK
                 PROVE  ReservedSeen(c) <=>
                            \E d \in Conns \ {c} :
                                \/ d \in Reserving
                                \/ Proc(d) = Proc(c) /\ level[d] > SHARED_LOCK
      BY DEF ReservedReported
    <2>1. TypeInv /\ MutexFree(Proc(c)) /\ pc[c] = "idle"
      BY DEF SeenInv, MapInv, LockInv, Inv, Starts, MayCall, At
    <2>2. ~Writes(c)
      <3>1. Held(c) = level[c] /\ level[c] \in Levels
        BY <2>1, HeldLevel, HeldType
      <3> QED
        BY <3>1 DEF Writes, Levels, SHARED_LOCK
    <2>3. inodeLock[Proc(c)] > SHARED_LOCK
          <=> \E d \in Conns \ {c} : Proc(d) = Proc(c) /\ level[d] > SHARED_LOCK
      BY <2>1, <2>2, InodeReports
    <2>4. ~CanLock(Proc(c), "reserved", "write")
          <=> \E d \in Conns : d \in Reserving /\ Proc(d) # Proc(c)
      BY KernelReports
    <2>5. \A d \in Reserving : Proc(d) = Proc(c) => level[d] > SHARED_LOCK
      BY <2>1, ReservingWrites
    <2> QED
      BY <2>3, <2>4, <2>5 DEF ReservedSeen
  <1> QED
    BY SeenInvInit, SeenInvNext, <1>1, PTL DEF Spec
=============================================================================
