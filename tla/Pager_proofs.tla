---------------------------- MODULE Pager_proofs ----------------------------
(***************************************************************************)
(* WriteAhead and CacheTrusted, that Pager implements Store, the type of   *)
(* Pager with its bounds, and the locks it runs on: for any connections,   *)
(* pages, caches and transactions, through every death and power loss.     *)
(*                                                                         *)
(* The invariant speaks of Recovered, what a recovery would make of the    *)
(* file.  It is what every reader sees, every cache is of its version or   *)
(* of an older one, and it changes only when a commit deletes its journal. *)
(***************************************************************************)
EXTENDS Pager, TLAPS

Record == [page : Pages, old : Int]

\* One of the first n records is of page p.
Journaled(p, n) == \E k \in 1 .. n : recs[k].page = p

\* The file says of page p what a recovery would say.
AsRecovered == \A p \in Pages : file[p] = Recovered[p]

Clean == unsynced = {} /\ AsRecovered

-----------------------------------------------------------------------------
(* The inductive invariant.                                                *)

FileStages == {"play back", "sync file", "delete journal", "end"}
JournalStages == {"sync records", "write header", "sync header"}
ReadStages == {"exists", "check reserved", "first byte", "hot lock", "check counter"}
Stages == {"idle", "look again", "sync hot", "lock", "write pages"}
              \cup ReadStages \cup JournalStages \cup FileStages

Types ==
    /\ lock \in [Conns -> Levels] /\ reserved \subseteq Conns
    /\ eState \in [Conns -> {"OPEN", "READER", "LOCKED", "CACHEMOD", "DBMOD"}]
    /\ pc \in [Conns -> Stages]
    /\ goal \in [Conns -> Goals]
    /\ dirty \in [Conns -> SUBSET Pages]
    /\ vers \in [Conns -> Int]
    /\ held \in [Conns -> BOOLEAN]
    /\ next \in [Conns -> Nat]
    /\ DOMAIN cache = Conns
    /\ file \in [Pages -> Int] /\ disk \in [Pages -> Int]
    /\ unsynced \subseteq Pages
    /\ there \in BOOLEAN /\ linked \in BOOLEAN
    /\ recs \in Seq(Record) /\ undead \in Seq(Record)
    /\ nRec \in Nat /\ safe \in Nat /\ safeRec \in Nat
    /\ tx \in Nat

CacheType(pages) == DOMAIN pages \subseteq Pages /\ \A p \in DOMAIN pages : pages[p] \in Int

OncePerPage(q) == \A k, l \in 1 .. Len(q) : q[k].page = q[l].page => k = l

\* What the journal counts is there, and a page has one record.
JournalOK ==
    /\ safeRec <= nRec /\ nRec <= safe /\ safe <= Len(recs)
    /\ OncePerPage(recs) /\ OncePerPage(undead)
    /\ ~there => nRec = 0
    /\ nRec > 0 => linked

\* WriteAhead, by the numbers of the records.
Ahead == \A p \in Pages : p \in unsynced \/ file[p] # Recovered[p] =>
                              linked /\ Journaled(p, safeRec)

Writer(c) == eState[c] \in {"LOCKED", "CACHEMOD", "DBMOD"}

\* The lock that goes with the state and the stage of a connection.
Locked(c) ==
    /\ pc[c] \in ReadStages => eState[c] = "OPEN" /\ lock[c] = SHARED_LOCK
    /\ pc[c] \in {"look again", "sync hot"} => eState[c] = "OPEN" /\ lock[c] = EXCLUSIVE_LOCK
    /\ At(c, "idle") /\ eState[c] = "OPEN" => lock[c] = NO_LOCK
    /\ eState[c] = "OPEN" /\ pc[c] \in FileStages => lock[c] = EXCLUSIVE_LOCK
    /\ eState[c] = "OPEN" => pc[c] \notin {"lock", "write pages"} \cup JournalStages
    /\ eState[c] = "READER" => At(c, "idle") /\ lock[c] = SHARED_LOCK
    /\ eState[c] = "LOCKED" => At(c, "idle") /\ lock[c] = RESERVED_LOCK
    /\ eState[c] = "CACHEMOD" => /\ lock[c] >= RESERVED_LOCK
                                 /\ pc[c] \in {"idle", "lock", "delete journal", "end"}
                                                  \cup JournalStages
    /\ eState[c] = "DBMOD" => lock[c] = EXCLUSIVE_LOCK
    /\ pc[c] \in JournalStages => lock[c] = EXCLUSIVE_LOCK
    /\ c \in reserved <=> Writer(c)

\* What the call in progress is for.
Aimed(c) ==
    /\ Undoing(c) => Writer(c) /\ pc[c] \in FileStages
    /\ goal[c] \in Pages => /\ goal[c] \in dirty[c]
                            /\ pc[c] \in {"lock", "write pages"} \cup JournalStages
    /\ goal[c] # 1
    /\ eState[c] = "CACHEMOD" /\ pc[c] \in {"delete journal", "end"} => Undoing(c)
    /\ Writer(c) /\ At(c, "play back") => Undoing(c)

Ending(c) == pc[c] \in {"sync file", "delete journal", "end"}

Undo(c) == eState[c] = "OPEN" \/ Undoing(c)

\* Who reads, or has not written to the file, finds it as recovered.
Reads(c) ==
    /\ eState[c] \in {"READER", "LOCKED", "CACHEMOD"} \/ At(c, "check counter") => Clean
    /\ At(c, "delete journal") => unsynced = {}
    /\ pc[c] \in {"sync file", "delete journal"} /\ Undo(c) => AsRecovered
    /\ At(c, "end") => nRec = 0

\* Records are durable before their count, the count before any page.
Synced(c) ==
    /\ eState[c] \in {"CACHEMOD", "DBMOD"} /\ ~At(c, "end") => there
    /\ At(c, "write header") => safe = Len(recs) /\ linked
    /\ At(c, "sync header") => nRec = Len(recs) /\ linked
    /\ eState[c] = "DBMOD" /\ ~At(c, "end") => linked
    /\ eState[c] = "DBMOD" /\ pc[c] \notin {"sync header", "end"} => nRec = safeRec
    /\ At(c, "write pages") =>
           /\ eState[c] = "DBMOD"
           /\ goal[c] = ToCommit => safeRec = Len(recs)
           /\ goal[c] # ToCommit => goal[c] \in dirty[c] /\ Journaled(goal[c], safeRec)
    /\ At(c, "play back") =>
           /\ nRec = safeRec /\ next[c] <= nRec
           /\ \A k \in 1 .. next[c] : file[recs[k].page] = recs[k].old
    /\ ~At(c, "play back") => next[c] = 0

\* A transaction under way: what is not durable is not in the file, what is
\* changed in memory is journaled, what is not changed is as in the file.
Changes(c) ==
    eState[c] \in {"CACHEMOD", "DBMOD"} /\ ~Undoing(c) /\ ~At(c, "end") =>
        /\ \A k \in 1 .. Len(recs) : k > safeRec => file[recs[k].page] = recs[k].old
        /\ \A p \in dirty[c] : Journaled(p, Len(recs))
        /\ \A p \in DOMAIN cache[c] \ dirty[c] : cache[c][p] = file[p]

\* The cache is of the version of the file.
Fresh(c, pages) ==
    \A p \in DOMAIN cache[c] : cache[c][p] = pages[p]

\* The version a cache is of, through reading, writing, commit and rollback.
Version(c) ==
    /\ ~held[c] => DOMAIN cache[c] = {}
    /\ eState[c] # "OPEN" => 1 \in DOMAIN cache[c]
    /\ dirty[c] \subseteq DOMAIN cache[c]
    /\ eState[c] \in {"OPEN", "READER", "LOCKED"} \/ Undoing(c) \/ Ending(c) => dirty[c] = {}
    /\ eState[c] = "OPEN" /\ DOMAIN cache[c] # {} =>
           /\ vers[c] <= Recovered[1]
           /\ vers[c] = Recovered[1] => Fresh(c, Recovered)
    /\ eState[c] \in {"READER", "LOCKED"} \/ Undoing(c) =>
           vers[c] = Recovered[1] /\ Fresh(c, Recovered)
    /\ eState[c] \in {"CACHEMOD", "DBMOD"} /\ ~Ending(c) =>
           vers[c] = Recovered[1] \/ (At(c, "write pages") /\ 1 \notin dirty[c])
    /\ pc[c] \in {"lock", "write pages"} \cup JournalStages /\ goal[c] = ToCommit =>
           IF 1 \in dirty[c] THEN cache[c][1] = Recovered[1] + 1
           ELSE At(c, "write pages") /\ file[1] = Recovered[1] + 1 /\ vers[c] = file[1]
    /\ At(c, "write pages") /\ goal[c] # ToCommit => vers[c] = Recovered[1]
    /\ Ending(c) /\ ~Undo(c) =>
           /\ vers[c] = file[1] /\ Fresh(c, file)
           /\ ~At(c, "end") => file[1] = Recovered[1] + 1

Whole(c) == /\ CacheType(cache[c])
            /\ Locked(c) /\ Aimed(c) /\ Reads(c) /\ Synced(c) /\ Changes(c) /\ Version(c)

Inv == /\ Types /\ JournalOK /\ Ahead /\ Locks!Exclusion
       /\ \A c \in Conns : Whole(c)

-----------------------------------------------------------------------------
(* What a recovery makes of a file.                                        *)

\* R is what the first n records of q make of f.
IsRecovery(R, q, n, f) ==
    /\ R \in [Pages -> Int]
    /\ \A k \in 1 .. n : R[q[k].page] = q[k].old
    /\ \A p \in Pages : (\A k \in 1 .. n : q[k].page # p) => R[p] = f[p]

\* A record restores its page, the other pages stay.
LEMMA RestoreIs ==
    ASSUME NEW q \in Seq(Record), OncePerPage(q), NEW f
    PROVE  /\ DOMAIN Restore(q, f) = DOMAIN f
           /\ \A k \in 1 .. Len(q) :
                  q[k].page \in DOMAIN f => Restore(q, f)[q[k].page] = q[k].old
           /\ \A p \in DOMAIN f :
                  (\A k \in 1 .. Len(q) : q[k].page # p) => Restore(q, f)[p] = f[p]
  <1>1. DOMAIN q = 1 .. Len(q)
    OBVIOUS
  <1>2. ASSUME NEW k \in 1 .. Len(q), q[k].page \in DOMAIN f
        PROVE  Restore(q, f)[q[k].page] = q[k].old
    <2> DEFINE i == CHOOSE j \in DOMAIN q : q[j].page = q[k].page
    <2>1. i \in 1 .. Len(q) /\ q[i].page = q[k].page
      BY <1>1
    <2>2. i = k
      BY <2>1 DEF OncePerPage
    <2>3. q[k].page \in PagesOf(q)
      BY <1>1 DEF PagesOf
    <2>4. Restore(q, f)[q[k].page] = q[i].old
      BY <1>2, <2>3 DEF Restore
    <2> QED
      BY <2>2, <2>4
  <1>3. ASSUME NEW p \in DOMAIN f, \A k \in 1 .. Len(q) : q[k].page # p
        PROVE  Restore(q, f)[p] = f[p]
    <2>1. p \notin PagesOf(q)
      BY <1>1, <1>3 DEF PagesOf
    <2> QED
      BY <2>1 DEF Restore
  <1> QED
    BY <1>2, <1>3 DEF Restore

\* The counted records of a journal.
LEMMA CountedAre ==
    ASSUME NEW q \in Seq(Record), OncePerPage(q), NEW n \in Nat, n <= Len(q)
    PROVE  LET s == SubSeq(q, 1, Least(n, Len(q)))
           IN  /\ s \in Seq(Record) /\ OncePerPage(s) /\ Len(s) = n
               /\ \A k \in 1 .. n : s[k] = q[k]
  <1> DEFINE s == SubSeq(q, 1, n)
  <1>1. Least(n, Len(q)) = n
    BY DEF Least
  <1>2. s \in Seq(Record) /\ Len(s) = n /\ \A k \in 1 .. n : s[k] = q[k] /\ k \in 1 .. Len(q)
    OBVIOUS
  <1> HIDE DEF s
  <1>3. OncePerPage(s)
    BY <1>2 DEF OncePerPage
  <1> QED
    BY <1>1, <1>2, <1>3 DEF s

\* So a recovery is what it should be.
LEMMA RecoveryIs ==
    ASSUME NEW q \in Seq(Record), OncePerPage(q), NEW n \in Nat, n <= Len(q),
           NEW f \in [Pages -> Int]
    PROVE  IsRecovery(Restore(SubSeq(q, 1, Least(n, Len(q))), f), q, n, f)
  <1> DEFINE s == SubSeq(q, 1, Least(n, Len(q)))
             R == Restore(s, f)
  <1>1. s \in Seq(Record) /\ OncePerPage(s) /\ Len(s) = n /\ \A k \in 1 .. n : s[k] = q[k]
    BY CountedAre
  <1> HIDE DEF s
  <1>2. ASSUME NEW k \in 1 .. n PROVE s[k].page \in Pages /\ s[k].old \in Int
    <2>1. s[k] \in Record
      BY <1>1
    <2> QED
      BY <2>1 DEF Record
  <1>3. /\ DOMAIN R = Pages
        /\ \A k \in 1 .. n : R[s[k].page] = s[k].old
        /\ \A p \in Pages : (\A k \in 1 .. n : s[k].page # p) => R[p] = f[p]
    <2>1. DOMAIN f = Pages
      OBVIOUS
    <2>2. /\ DOMAIN R = DOMAIN f
          /\ \A k \in 1 .. Len(s) :
                 s[k].page \in DOMAIN f => R[s[k].page] = s[k].old
          /\ \A p \in DOMAIN f :
                 (\A k \in 1 .. Len(s) : s[k].page # p) => R[p] = f[p]
      BY <1>1, RestoreIs
    <2> HIDE DEF R
    <2> QED
      BY <1>1, <1>2, <2>1, <2>2
  <1>4. ASSUME NEW p \in Pages PROVE R[p] \in Int
    BY <1>2, <1>3
  <1>5. R = [p \in Pages |-> R[p]]
    BY <1>3 DEF R, Restore
  <1> HIDE DEF R
  <1>6. R \in [Pages -> Int]
    BY <1>4, <1>5
  <1> QED
    BY <1>1, <1>3, <1>6 DEF IsRecovery, s, R

\* There is one.
LEMMA OneRecovery ==
    ASSUME NEW R, NEW S, NEW q, NEW n, NEW f,
           IsRecovery(R, q, n, f), IsRecovery(S, q, n, f)
    PROVE  R = S
  BY DEF IsRecovery

\* Recovered is the recovery of the file from the journal.
LEMMA Recovery ==
    ASSUME Types, JournalOK
    PROVE  IsRecovery(Recovered, recs, nRec, file)
  <1>1. recs \in Seq(Record) /\ nRec \in Nat /\ nRec <= Len(recs) /\ file \in [Pages -> Int]
    BY DEF Types, JournalOK
  <1> QED
    BY <1>1, RecoveryIs DEF JournalOK, Recovered, Counted

\* What is a recovery after a step is Recovered then.
LEMMA RecoveredNext ==
    ASSUME Types', JournalOK', NEW R, IsRecovery(R, recs', nRec', file')
    PROVE  Recovered' = R
  <1>1. /\ recs' \in Seq(Record) /\ nRec' \in Nat /\ nRec' <= Len(recs')
        /\ file' \in [Pages -> Int] /\ OncePerPage(recs')
    BY DEF Types, JournalOK
  <1> DEFINE S == Restore(SubSeq(recs', 1, Least(nRec', Len(recs'))), file')
  <1>2. Recovered' = S
    BY DEF Recovered, Counted
  <1>3. IsRecovery(S, recs', nRec', file')
    BY <1>1, RecoveryIs
  <1> HIDE DEF S
  <1> QED
    BY <1>2, <1>3, OneRecovery

\* Nothing counted: the file as it is.
LEMMA NothingCounted ==
    ASSUME NEW q, NEW f \in [Pages -> Int]
    PROVE  IsRecovery(f, q, 0, f)
  BY DEF IsRecovery

\* Recovered holds numbers.
LEMMA RecoveredType ==
    ASSUME Types, JournalOK
    PROVE  Recovered \in [Pages -> Int] /\ 1 \in Pages
  BY Recovery, PagerAssumption DEF IsRecovery, Pages

-----------------------------------------------------------------------------
(* The other connections.                                                  *)

\* A step leaves this connection as it is.
Kept(d) ==
    /\ lock'[d] = lock[d] /\ (d \in reserved' <=> d \in reserved)
    /\ eState'[d] = eState[d] /\ pc'[d] = pc[d] /\ goal'[d] = goal[d]
    /\ cache'[d] = cache[d] /\ dirty'[d] = dirty[d] /\ vers'[d] = vers[d]
    /\ held'[d] = held[d] /\ next'[d] = next[d]

\* A lock of c changes, no other, and the levels still exclude each other.
Moved(c) ==
    /\ lock' \in [Conns -> Levels] /\ reserved' \subseteq Conns
    /\ Locks!Exclusion'
    /\ \A d \in Conns \ {c} : lock'[d] = lock[d] /\ (d \in reserved' <=> d \in reserved)

\* The order of the levels, as far as it matters here.
LEMMA LevelsDiffer ==
    /\ NO_LOCK # SHARED_LOCK /\ NO_LOCK # RESERVED_LOCK /\ NO_LOCK # EXCLUSIVE_LOCK
    /\ SHARED_LOCK # RESERVED_LOCK /\ SHARED_LOCK # EXCLUSIVE_LOCK
    /\ RESERVED_LOCK # EXCLUSIVE_LOCK
    /\ ~(NO_LOCK >= RESERVED_LOCK) /\ ~(SHARED_LOCK >= RESERVED_LOCK)
    /\ EXCLUSIVE_LOCK >= RESERVED_LOCK /\ RESERVED_LOCK >= RESERVED_LOCK
    /\ PENDING_LOCK >= RESERVED_LOCK
  BY DEF NO_LOCK, SHARED_LOCK, RESERVED_LOCK, PENDING_LOCK, EXCLUSIVE_LOCK

\* A connection that is OPEN is at no level between SHARED and EXCLUSIVE, and
\* at none when it is idle.
LEMMA StageOfLevel ==
    ASSUME NEW d \in Conns, Locked(d), pc[d] \in Stages, eState[d] = "OPEN"
    PROVE  /\ lock[d] \in {NO_LOCK, SHARED_LOCK, EXCLUSIVE_LOCK}
           /\ lock[d] = NO_LOCK => pc[d] = "idle"
  <1>1. CASE pc[d] = "idle"
    BY <1>1 DEF Locked, At
  <1>2. CASE pc[d] \in ReadStages
    BY <1>2, LevelsDiffer DEF Locked
  <1>3. CASE pc[d] \in {"look again", "sync hot"} \cup FileStages
    BY <1>3, LevelsDiffer DEF Locked
  <1>4. CASE pc[d] \in {"lock", "write pages"} \cup JournalStages
    BY <1>4 DEF Locked
  <1> QED
    BY <1>1, <1>2, <1>3, <1>4 DEF Stages

\* Every step of c's lock moves it and no other.
LEMMA Moves ==
    ASSUME Inv, NEW c \in Conns,
           \/ Locks!Share(c) \/ Locks!Reserve(c) \/ Locks!Pend(c) \/ Locks!Exclude(c)
           \/ Locks!Lower(c, NO_LOCK) \/ Locks!Lower(c, SHARED_LOCK)
           \/ UNCHANGED locks
    PROVE  Moved(c)
  <1>1. lock \in [Conns -> Levels] /\ reserved \subseteq Conns /\ Locks!Exclusion
    BY DEF Inv, Types
  <1>2. ASSUME NEW d \in Conns, lock[d] = RESERVED_LOCK
        PROVE  d \in reserved
    <2>1. Locked(d) /\ pc[d] \in Stages /\ lock[d] \in Levels
          /\ eState[d] \in {"OPEN", "READER", "LOCKED", "CACHEMOD", "DBMOD"}
      BY DEF Inv, Whole, Types
    <2>2. eState[d] # "OPEN"
      BY <1>2, <2>1, StageOfLevel, LevelsDiffer
    <2>3. eState[d] # "READER"
      BY <1>2, <2>1, LevelsDiffer DEF Locked
    <2> QED
      BY <2>1, <2>2, <2>3 DEF Locked, Writer
  <1> USE DEF Moved, Locks!Exclusion, Levels, NO_LOCK, SHARED_LOCK,
              RESERVED_LOCK, PENDING_LOCK, EXCLUSIVE_LOCK, Locks!NO_LOCK, Locks!SHARED_LOCK,
              Locks!RESERVED_LOCK, Locks!PENDING_LOCK, Locks!EXCLUSIVE_LOCK
  <1>3. CASE Locks!Share(c)
    BY <1>1, <1>3 DEF Locks!Share, Locks!Admitting, Locks!Raise
  <1>4. CASE Locks!Reserve(c)
    BY <1>1, <1>2, <1>4 DEF Locks!Reserve, Locks!Raise
  <1>5. CASE Locks!Pend(c)
    BY <1>1, <1>5 DEF Locks!Pend, Locks!Admitting, Locks!Raise
  <1>6. CASE Locks!Exclude(c)
    BY <1>1, <1>6 DEF Locks!Exclude, Locks!Alone, Locks!Raise
  <1>7. CASE Locks!Lower(c, NO_LOCK) \/ Locks!Lower(c, SHARED_LOCK)
    BY <1>1, <1>7 DEF Locks!Lower
  <1>8. CASE UNCHANGED locks
    BY <1>1, <1>8 DEF locks
  <1> QED
    BY <1>3, <1>4, <1>5, <1>6, <1>7, <1>8

\* A step of c that keeps the invariant.
StepOf(c) == Inv' /\ \A d \in Conns \ {c} : Kept(d)

\* What a connection knows holds as long as its own and the files stay.
LEMMA KeptWhole ==
    ASSUME NEW d \in Conns, Whole(d), Kept(d),
           UNCHANGED <<file, unsynced, there, recs, nRec, safe, safeRec, linked>>
    PROVE  Whole(d)'
  <1>1. Recovered' = Recovered /\ (Clean' <=> Clean) /\ (AsRecovered' <=> AsRecovered)
    BY DEF Recovered, Counted, Clean, AsRecovered
  <1> USE DEF Kept, Whole
  <1>2. CacheType(cache[d])' /\ Locked(d)' /\ Aimed(d)'
    BY DEF CacheType, Locked, Aimed, At, Writer, Undoing
  <1>3. Reads(d)'
    BY <1>1 DEF Reads, At, Undo, Undoing
  <1>4. Synced(d)'
    BY DEF Synced, At, Journaled
  <1>5. Changes(d)'
    BY DEF Changes, At, Undoing, Journaled
  <1>6. Version(d)'
    BY ZenonT(60), <1>1 DEF Version, At, Undo, Undoing, Ending, Fresh
  <1> QED
    BY <1>2, <1>3, <1>4, <1>5, <1>6

\* A connection that cannot write takes no notice of the journal.
LEMMA ReaderKept ==
    ASSUME Types, NEW d \in Conns, Whole(d), Kept(d),
           ~Writer(d), lock[d] # EXCLUSIVE_LOCK,
           UNCHANGED <<file, unsynced>>, Recovered' = Recovered
    PROVE  Whole(d)'
  <1>1. (Clean' <=> Clean) /\ (AsRecovered' <=> AsRecovered)
    BY DEF Clean, AsRecovered
  <1>2. /\ pc[d] \in Stages
        /\ eState[d] \in {"OPEN", "READER", "LOCKED", "CACHEMOD", "DBMOD"}
    BY DEF Types
  <1> USE DEF Kept, Whole
  <1>3. CacheType(cache[d])' /\ Locked(d)' /\ Aimed(d)'
    BY DEF CacheType, Locked, Aimed, At, Writer, Undoing
  <1>4. pc[d] \in {"idle"} \cup ReadStages /\ eState[d] \in {"OPEN", "READER"}
    BY <1>2 DEF Locked, At, Writer, Stages, FileStages, JournalStages, ReadStages
  <1>5. Reads(d)'
    BY <1>1, <1>4 DEF Reads, At, Undo, Undoing, ReadStages
  <1>6. Synced(d)'
    BY <1>4 DEF Synced, At, Journaled, ReadStages
  <1>7. Changes(d)'
    BY <1>4 DEF Changes
  <1>8. Version(d)'
    BY ZenonT(60) DEF Version, At, Undo, Undoing, Ending, Fresh
  <1> QED
    BY <1>3, <1>5, <1>6, <1>7, <1>8

\* Who holds no lock waits outside.
LEMMA Outside ==
    ASSUME Types, NEW d \in Conns, Whole(d), lock[d] = NO_LOCK
    PROVE  eState[d] = "OPEN" /\ pc[d] = "idle" /\ ~Undoing(d) /\ ~Writer(d)
  <1>1. /\ pc[d] \in Stages /\ lock[d] \in Levels
        /\ eState[d] \in {"OPEN", "READER", "LOCKED", "CACHEMOD", "DBMOD"}
    BY DEF Types
  <1>2. Locked(d) /\ Aimed(d)
    BY DEF Whole
  <1>3. eState[d] = "OPEN"
    BY <1>1, <1>2, LevelsDiffer DEF Locked
  <1>4. pc[d] = "idle"
    BY <1>1, <1>2, <1>3, StageOfLevel
  <1> QED
    BY <1>2, <1>3, <1>4 DEF Aimed, Writer

\* Who holds no lock finds the file as it was, or of a later version.
LEMMA OutsideKept ==
    ASSUME Types, NEW d \in Conns, Whole(d), Kept(d), lock[d] = NO_LOCK,
           Recovered[1] \in Int, Recovered'[1] \in Int,
           Recovered' = Recovered \/ Recovered'[1] > Recovered[1]
    PROVE  Whole(d)'
  <1>1. eState[d] = "OPEN" /\ pc[d] = "idle" /\ ~Undoing(d) /\ ~Writer(d) /\ vers[d] \in Int
    BY Outside DEF Types
  <1> USE DEF Kept, Whole
  <1>2. CacheType(cache[d])' /\ Locked(d)' /\ Aimed(d)'
    BY DEF CacheType, Locked, Aimed, At, Writer, Undoing
  <1>3. Reads(d)' /\ Changes(d)'
    BY <1>1 DEF Reads, Changes, At, Undo
  <1>4. Synced(d)'
    BY <1>1 DEF Synced, At
  <1>5. Version(d)'
    BY <1>1 DEF Version, At, Undo, Undoing, Ending, Fresh, JournalStages
  <1> QED
    BY <1>2, <1>3, <1>4, <1>5

\* A connection that begins again knows nothing.
LEMMA NewWhole ==
    ASSUME NEW d \in Conns,
           lock'[d] = NO_LOCK, d \notin reserved', eState'[d] = "OPEN", pc'[d] = "idle",
           goal'[d] = ToCommit, cache'[d] = <<>>, dirty'[d] = {}, held'[d] = FALSE,
           next'[d] = 0
    PROVE  Whole(d)'
  <1>1. DOMAIN cache'[d] = {}
    OBVIOUS
  <1>2. goal'[d] # ToRollBack /\ goal'[d] \notin Pages
    BY DEF ToCommit, ToRollBack, Pages
  <1>3. CacheType(cache[d])'
    BY <1>1 DEF CacheType
  <1>4. Locked(d)' /\ Aimed(d)'
    BY <1>2 DEF Locked, Aimed, At, Writer, Undoing, ReadStages, FileStages, JournalStages, ToCommit
  <1>5. Reads(d)' /\ Changes(d)' /\ Synced(d)'
    BY DEF Reads, Changes, Synced, At
  <1>6. Version(d)'
    BY <1>1, <1>2 DEF Version, At, Undo, Undoing, Ending, JournalStages
  <1> QED
    BY <1>3, <1>4, <1>5, <1>6 DEF Whole

-----------------------------------------------------------------------------
(* The steps that leave the files alone.                                   *)

\* FileLocks has the levels of LockLevels.
LEMMA LevelNames ==
    /\ Locks!NO_LOCK = NO_LOCK /\ Locks!SHARED_LOCK = SHARED_LOCK
    /\ Locks!RESERVED_LOCK = RESERVED_LOCK /\ Locks!PENDING_LOCK = PENDING_LOCK
    /\ Locks!EXCLUSIVE_LOCK = EXCLUSIVE_LOCK
  BY DEF NO_LOCK, SHARED_LOCK, RESERVED_LOCK, PENDING_LOCK, EXCLUSIVE_LOCK,
         Locks!NO_LOCK, Locks!SHARED_LOCK, Locks!RESERVED_LOCK, Locks!PENDING_LOCK,
         Locks!EXCLUSIVE_LOCK

\* Where a step of a lock leads.
LEMMA MovesTo ==
    ASSUME Types, NEW c \in Conns
    PROVE  /\ Locks!Share(c) => lock'[c] = SHARED_LOCK /\ reserved' = reserved
           /\ Locks!Reserve(c) => lock'[c] = RESERVED_LOCK /\ c \in reserved'
           /\ Locks!Pend(c) => /\ lock[c] \in {SHARED_LOCK, RESERVED_LOCK}
                               /\ lock'[c] = PENDING_LOCK /\ reserved' = reserved
           /\ Locks!Exclude(c) => lock'[c] = EXCLUSIVE_LOCK /\ reserved' = reserved
           /\ \A level : Locks!Lower(c, level) => lock'[c] = level /\ c \notin reserved'
  BY LevelNames DEF Types, Locks!Share, Locks!Reserve, Locks!Pend, Locks!Exclude, Locks!Lower,
                    Locks!Raise

\* A recovery of the same files is the same.
LEMMA SameFiles ==
    ASSUME UNCHANGED <<file, unsynced, recs, nRec>>
    PROVE  Recovered' = Recovered /\ (Clean' <=> Clean) /\ (AsRecovered' <=> AsRecovered)
  BY DEF Recovered, Counted, Clean, AsRecovered

\* Such a step keeps the invariant if it does so for its own connection.
LEMMA Quiet ==
    ASSUME Inv, NEW c \in Conns, Types', Moved(c), Whole(c)',
           \A d \in Conns \ {c} : Kept(d),
           UNCHANGED <<files, journal>>
    PROVE  StepOf(c) /\ Recovered' = Recovered
  <1>1. UNCHANGED <<file, disk, unsynced, there, recs, nRec, safe, safeRec, linked, undead>>
    BY DEF files, journal
  <1>2. JournalOK' /\ Ahead'
    BY <1>1, SameFiles DEF Inv, JournalOK, Ahead, Journaled
  <1>3. ASSUME NEW d \in Conns PROVE Whole(d)'
    BY <1>1, KeptWhole DEF Inv
  <1> QED
    BY <1>1, <1>2, <1>3, SameFiles DEF Inv, Moved, StepOf

\* Without a counted record the file is as recovered, and durable.
LEMMA NothingToRecover ==
    ASSUME Inv, nRec = 0
    PROVE  Clean
  <1>1. safeRec <= nRec /\ safeRec \in Nat
    BY DEF Inv, JournalOK, Types
  <1>2. \A p \in Pages : ~Journaled(p, safeRec)
    BY <1>1 DEF Journaled
  <1>3. unsynced \subseteq Pages
    BY DEF Inv, Types
  <1> QED
    BY <1>2, <1>3 DEF Inv, Ahead, Clean, AsRecovered

\* A new reader knows nothing of the file yet.
LEMMA SharedLockKeeps ==
    ASSUME Inv, NEW c \in Conns, SharedLock(c)
    PROVE  StepOf(c) /\ Recovered' = Recovered
  <1> USE DEF SharedLock, Idle, Goto, At, memory, files, journal
  <1>1. Moved(c)
    BY Moves
  <1>2. lock'[c] = SHARED_LOCK /\ reserved' = reserved
    BY MovesTo DEF Inv
  <1>3. Types' /\ \A d \in Conns \ {c} : Kept(d)
    BY <1>1 DEF Moved, Kept, Inv, Types, Stages, ReadStages
  <1>4. Whole(c) /\ pc'[c] = "exists" /\ pc \in [Conns -> Stages]
    BY DEF Inv, Types
  <1>5. CacheType(cache[c])' /\ Locked(c)' /\ Aimed(c)'
    BY <1>2, <1>4, LevelsDiffer DEF Whole, CacheType, Locked, Aimed, Undoing, Writer, ReadStages,
       FileStages, JournalStages
  <1>6. Reads(c)' /\ Synced(c)' /\ Changes(c)' /\ Version(c)'
    BY <1>4, SameFiles DEF Whole, Reads, Synced, Changes, Version, Fresh, Undo, Undoing,
       Ending, JournalStages
  <1> QED
    BY <1>1, <1>3, <1>5, <1>6, Quiet DEF Whole

\* Without a journal nothing is to be recovered.
LEMMA JournalExistsKeeps ==
    ASSUME Inv, NEW c \in Conns, JournalExists(c)
    PROVE  StepOf(c) /\ Recovered' = Recovered
  <1> USE DEF JournalExists, Idle, Goto, At, memory, files, journal, locks
  <1>1. Moved(c)
    BY Moves
  <1>2. pc[c] = "exists" /\ (~there => nRec = 0)
    BY DEF Inv, JournalOK
  <1>3. Types' /\ \A d \in Conns \ {c} : Kept(d)
    BY <1>1 DEF Moved, Kept, Inv, Types, Stages, ReadStages
  <1>4. Whole(c) /\ pc \in [Conns -> Stages] /\ pc'[c] = IF there THEN "check reserved" ELSE "check counter"
    BY <1>2 DEF Inv, Types
  <1>5. CacheType(cache[c])' /\ Locked(c)' /\ Aimed(c)'
    BY <1>2, <1>4, LevelsDiffer DEF Whole, CacheType, Locked, Aimed, Undoing, Writer,
       ReadStages, FileStages, JournalStages
  <1>6. Reads(c)' /\ Synced(c)' /\ Changes(c)'
    BY <1>2, <1>4, SameFiles, NothingToRecover DEF Whole, Locked, Aimed, Reads, Synced, Changes, Undo, Undoing,
       ReadStages, JournalStages
  <1>7. Version(c)'
    BY <1>2, <1>4, SameFiles DEF Whole, Version, Fresh, Undo, Undoing, Ending, JournalStages
  <1> QED
    BY <1>1, <1>3, <1>5, <1>6, <1>7, Quiet DEF Whole

\* Who holds RESERVED while others read has not written to the file.
LEMMA ReservedIsClean ==
    ASSUME Inv, NEW c \in Conns, lock[c] = SHARED_LOCK, ~Writer(c), reserved # {}
    PROVE  Clean
  <1>1. PICK w \in Conns : w \in reserved
    BY DEF Inv, Types
  <1>2. Whole(w) /\ Whole(c) /\ Types /\ Locks!Exclusion
    BY DEF Inv
  <1>3. Writer(w) /\ w # c
    BY <1>1, <1>2 DEF Whole, Locked
  <1>4. lock[w] # EXCLUSIVE_LOCK
    BY <1>2, <1>3, LevelNames, LevelsDiffer DEF Locks!Exclusion
  <1>5. eState[w] \in {"LOCKED", "CACHEMOD"}
    BY <1>2, <1>3, <1>4 DEF Writer, Whole, Locked
  <1> QED
    BY <1>2, <1>5 DEF Whole, Reads

\* A journal that somebody is writing is not hot.
LEMMA CheckReservedKeeps ==
    ASSUME Inv, NEW c \in Conns, CheckReserved(c)
    PROVE  StepOf(c) /\ Recovered' = Recovered
  <1> USE DEF CheckReserved, Idle, Goto, At, memory, files, journal, locks
  <1>1. Moved(c)
    BY Moves
  <1>2. /\ pc[c] = "check reserved" /\ eState[c] = "OPEN" /\ lock[c] = SHARED_LOCK /\ ~Writer(c)
        /\ reserved # {} => Clean
    BY ReservedIsClean DEF Inv, Whole, Locked, ReadStages, Writer
  <1>3. Types' /\ \A d \in Conns \ {c} : Kept(d)
    BY <1>1 DEF Moved, Kept, Inv, Types, Stages, ReadStages
  <1>4. Whole(c) /\ pc \in [Conns -> Stages] /\ pc'[c] = IF reserved = {} THEN "first byte" ELSE "check counter"
    BY <1>2 DEF Inv, Types
  <1>5. CacheType(cache[c])' /\ Locked(c)' /\ Aimed(c)'
    BY <1>2, <1>4, LevelsDiffer DEF Whole, CacheType, Locked, Aimed, Undoing, Writer,
       ReadStages, FileStages, JournalStages
  <1>6. Reads(c)' /\ Synced(c)' /\ Changes(c)'
    BY <1>2, <1>4, SameFiles DEF Whole, Locked, Aimed, Reads, Synced, Changes, Undo, Undoing,
       ReadStages, JournalStages
  <1>7. Version(c)'
    BY <1>2, <1>4, SameFiles DEF Whole, Version, Fresh, Undo, Undoing, Ending, JournalStages
  <1> QED
    BY <1>1, <1>3, <1>5, <1>6, <1>7, Quiet DEF Whole

\* A journal whose first header is zero undoes nothing.
LEMMA FirstByteKeeps ==
    ASSUME Inv, NEW c \in Conns, FirstByte(c)
    PROVE  StepOf(c) /\ Recovered' = Recovered
  <1> USE DEF FirstByte, Idle, Goto, At, memory, files, journal, locks
  <1>1. Moved(c)
    BY Moves
  <1>2. /\ pc[c] = "first byte"
        /\ there /\ nRec = 0 => Clean
    BY NothingToRecover
  <1>3. Types' /\ \A d \in Conns \ {c} : Kept(d)
    BY <1>1 DEF Moved, Kept, Inv, Types, Stages, ReadStages
  <1>4. Whole(c) /\ pc \in [Conns -> Stages] /\ pc'[c] = IF there /\ nRec = 0 THEN "check counter" ELSE "hot lock"
    BY <1>2 DEF Inv, Types
  <1>5. CacheType(cache[c])' /\ Locked(c)' /\ Aimed(c)'
    BY <1>2, <1>4, LevelsDiffer DEF Whole, CacheType, Locked, Aimed, Undoing, Writer,
       ReadStages, FileStages, JournalStages
  <1>6. Reads(c)' /\ Synced(c)' /\ Changes(c)'
    BY <1>2, <1>4, SameFiles DEF Whole, Locked, Aimed, Reads, Synced, Changes, Undo, Undoing,
       ReadStages, JournalStages
  <1>7. Version(c)'
    BY <1>2, <1>4, SameFiles DEF Whole, Version, Fresh, Undo, Undoing, Ending, JournalStages
  <1> QED
    BY <1>1, <1>3, <1>5, <1>6, <1>7, Quiet DEF Whole

\* The exclusive lock for a rollback, or none.
LEMMA HotLockKeeps ==
    ASSUME Inv, NEW c \in Conns, HotLock(c)
    PROVE  StepOf(c) /\ Recovered' = Recovered
  <1> USE DEF HotLock, Idle, Goto, At, memory, files, journal
  <1>1. Moved(c)
    BY Moves
  <1>2. /\ pc[c] = "hot lock" /\ c \notin reserved /\ eState[c] = "OPEN"
        /\ c \notin reserved'
        /\ \/ pc'[c] = "look again" /\ lock'[c] = EXCLUSIVE_LOCK
           \/ pc'[c] = "idle" /\ lock'[c] = NO_LOCK
    BY MovesTo DEF Inv, Types, Whole, Locked, ReadStages, Writer
  <1>3. Types' /\ \A d \in Conns \ {c} : Kept(d)
    BY <1>1 DEF Moved, Kept, Inv, Types, Stages, ReadStages
  <1>4. Whole(c) /\ pc \in [Conns -> Stages] /\ pc'[c] \in {"look again", "idle"}
    BY <1>2 DEF Inv, Types
  <1>5. CacheType(cache[c])' /\ Locked(c)' /\ Aimed(c)'
    BY <1>2, <1>4, LevelsDiffer DEF Whole, CacheType, Locked, Aimed, Undoing, Writer,
       ReadStages, FileStages, JournalStages
  <1>6. Reads(c)' /\ Synced(c)' /\ Changes(c)'
    BY <1>2, <1>4, SameFiles DEF Whole, Locked, Aimed, Reads, Synced, Changes, Undo, Undoing,
       ReadStages, JournalStages
  <1>7. Version(c)'
    BY <1>2, <1>4, SameFiles DEF Whole, Version, Fresh, Undo, Undoing, Ending, JournalStages
  <1> QED
    BY <1>1, <1>3, <1>5, <1>6, <1>7, Quiet DEF Whole

\* The journal is there, or a rollback has been made meanwhile.
LEMMA LookAgainKeeps ==
    ASSUME Inv, NEW c \in Conns, LookAgain(c)
    PROVE  StepOf(c) /\ Recovered' = Recovered
  <1> USE DEF LookAgain, Idle, Goto, At, memory, files, journal, locks
  <1>1. Moved(c)
    BY Moves
  <1>2. /\ pc[c] = "look again" /\ c \notin reserved /\ eState[c] = "OPEN"
        /\ c \notin reserved' /\ (~there => Clean)
        /\ \/ pc'[c] = "sync hot" /\ lock'[c] = EXCLUSIVE_LOCK
           \/ ~there /\ pc'[c] = "check counter" /\ lock'[c] = SHARED_LOCK
    BY ZenonT(60), MovesTo, NothingToRecover DEF Inv, JournalOK, Types, Whole, Locked, ReadStages, Writer
  <1>3. Types' /\ \A d \in Conns \ {c} : Kept(d)
    BY <1>1 DEF Moved, Kept, Inv, Types, Stages, ReadStages
  <1>4. Whole(c) /\ pc \in [Conns -> Stages] /\ pc'[c] \in {"sync hot", "check counter"}
    BY <1>2 DEF Inv, Types
  <1>5. CacheType(cache[c])' /\ Locked(c)' /\ Aimed(c)'
    BY <1>2, <1>4, LevelsDiffer DEF Whole, CacheType, Locked, Aimed, Undoing, Writer,
       ReadStages, FileStages, JournalStages
  <1>6. Reads(c)' /\ Synced(c)' /\ Changes(c)'
    BY <1>2, <1>4, SameFiles DEF Whole, Locked, Aimed, Reads, Synced, Changes, Undo, Undoing,
       ReadStages, JournalStages
  <1>7. Version(c)'
    BY <1>2, <1>4, SameFiles DEF Whole, Version, Fresh, Undo, Undoing, Ending, JournalStages
  <1> QED
    BY <1>1, <1>3, <1>5, <1>6, <1>7, Quiet DEF Whole

\* The pages a reader has are those of the file.
LEMMA CheckCounterKeeps ==
    ASSUME Inv, NEW c \in Conns, CheckCounter(c)
    PROVE  StepOf(c) /\ Recovered' = Recovered
  <1> DEFINE kept == IF held[c] /\ vers[c] # file[1] THEN <<>> ELSE cache[c]
  <1> USE DEF Goto, Become, Cache, At, memory, files, journal, locks
  <1>1. Moved(c)
    BY Moves DEF CheckCounter
  <1>2. Whole(c) /\ pc[c] = "check counter" /\ pc \in [Conns -> Stages] /\ c \in DOMAIN cache
        /\ vers \in [Conns -> Int] /\ held \in [Conns -> BOOLEAN] /\ file \in [Pages -> Int]
        /\ 1 \in Pages
    BY RecoveredType DEF CheckCounter, Inv, Types
  <1>3. eState[c] = "OPEN" /\ Clean /\ dirty[c] = {} /\ ~Undoing(c)
    BY <1>2 DEF Whole, Locked, Reads, Version, Aimed, ReadStages, Writer
  <1>4. /\ cache' = [cache EXCEPT ![c] = FromFile(kept, {1})]
        /\ vers' = [vers EXCEPT ![c] = IF 1 \in DOMAIN kept THEN @ ELSE file[1]]
        /\ held' = [held EXCEPT ![c] = TRUE] /\ eState' = [eState EXCEPT ![c] = "READER"]
        /\ pc' = [pc EXCEPT ![c] = "idle"]
        /\ UNCHANGED <<lock, reserved, dirty, goal, next, files, journal, tx>>
    BY DEF CheckCounter
  <1>5. \A p \in Pages : file[p] = Recovered[p]
    BY <1>3 DEF Clean, AsRecovered
  <1>6. /\ DOMAIN kept \subseteq Pages
        /\ \A p \in DOMAIN kept : kept[p] = file[p]
        /\ 1 \in DOMAIN kept => vers[c] = file[1]
    <2>1. CASE held[c] /\ vers[c] # file[1]
      <3>1. DOMAIN kept = {}
        BY <2>1
      <3> QED
        BY <3>1
    <2>2. CASE held[c] /\ vers[c] = file[1]
      BY <1>2, <1>3, <1>5, <2>2 DEF Whole, CacheType, Version, Fresh
    <2>3. CASE ~held[c]
      BY <1>2, <2>3 DEF Whole, Version
    <2> QED
      BY <1>2, <2>1, <2>2, <2>3
  <1> HIDE DEF kept
  <1>7. /\ DOMAIN cache'[c] = DOMAIN kept \cup {1}
        /\ \A p \in DOMAIN cache'[c] : cache'[c][p] = file[p]
        /\ vers'[c] = file[1]
    BY <1>2, <1>4, <1>6 DEF FromFile
  <1>8. Types' /\ \A d \in Conns \ {c} : Kept(d)
    BY <1>1, <1>2, <1>4 DEF Moved, Kept, Inv, Types, Stages
  <1>9. Recovered' = Recovered /\ Clean'
    BY <1>3, <1>4, SameFiles
  <1>10. /\ eState'[c] = "READER" /\ pc'[c] = "idle" /\ dirty'[c] = {} /\ goal'[c] = goal[c]
         /\ next'[c] = next[c] /\ lock'[c] = SHARED_LOCK /\ c \notin reserved' /\ held'[c] = TRUE
    BY <1>2, <1>3, <1>4 DEF Inv, Types, Whole, Locked, ReadStages, Writer
  <1>11. CacheType(cache[c])'
    BY <1>2, <1>6, <1>7 DEF CacheType
  <1>12. Locked(c)' /\ Aimed(c)'
    BY <1>2, <1>3, <1>10 DEF Whole, Locked, Aimed, Writer, Undoing, ReadStages, FileStages,
       JournalStages
  <1>13. Reads(c)' /\ Synced(c)' /\ Changes(c)'
    BY <1>2, <1>9, <1>10 DEF Whole, Reads, Synced, Changes
  <1>14. Version(c)'
    BY ZenonT(60), <1>2, <1>3, <1>5, <1>6, <1>7, <1>9, <1>10
       DEF Version, Fresh, Undoing, Ending, JournalStages
  <1> QED
    BY <1>1, <1>4, <1>8, <1>11, <1>12, <1>13, <1>14, Quiet DEF Whole

\* A page that is read from the file joins pages of the same version.
LEMMA GetKeeps ==
    ASSUME Inv, NEW c \in Conns, NEW p \in Pages, Get(c, p)
    PROVE  StepOf(c) /\ Recovered' = Recovered
  <1> USE DEF Cache, At, call, files, journal, locks
  <1>1. Moved(c)
    BY Moves DEF Get
  <1>2. Whole(c) /\ pc[c] = "idle" /\ eState[c] # "OPEN" /\ c \in DOMAIN cache
        /\ file \in [Pages -> Int] /\ ~Undoing(c) /\ p \notin DOMAIN cache[c]
        /\ goal[c] \notin Pages
    BY DEF Get, Inv, Types, Whole, Aimed, FileStages, JournalStages
  <1>3. /\ cache' = [cache EXCEPT ![c] = FromFile(cache[c], {p})]
        /\ UNCHANGED <<lock, reserved, dirty, vers, held, eState, pc, goal, next, files, journal, tx>>
    BY DEF Get
  <1>4. /\ DOMAIN cache'[c] = DOMAIN cache[c] \cup {p} /\ cache'[c][p] = file[p]
        /\ \A q \in DOMAIN cache[c] : cache'[c][q] = cache[c][q]
    BY <1>2, <1>3 DEF FromFile
  <1>5. Types' /\ \A d \in Conns \ {c} : Kept(d)
    BY <1>1, <1>2, <1>3 DEF Moved, Kept, Inv, Types
  <1>6. Recovered' = Recovered /\ (Clean' <=> Clean) /\ (AsRecovered' <=> AsRecovered)
    BY <1>3, SameFiles
  <1>7. CacheType(cache[c])'
    BY <1>2, <1>4 DEF CacheType, Whole
  <1>8. Locked(c)' /\ Aimed(c)'
    BY <1>2, <1>3 DEF Whole, Locked, Aimed, Writer, Undoing
  <1>9. Reads(c)' /\ Synced(c)'
    BY <1>2, <1>3, <1>6 DEF Whole, Reads, Synced, Undo, Undoing, Journaled
  <1>10. Changes(c)'
    BY <1>2, <1>3, <1>4 DEF Whole, Changes, Undoing, Journaled
  <1>11. Version(c)'
    <2>1. eState[c] \in {"READER", "LOCKED"} => file[p] = Recovered[p]
      BY <1>2 DEF Whole, Reads, Clean, AsRecovered
    <2> QED
      BY ZenonT(60), <1>2, <1>3, <1>4, <1>6, <2>1 DEF Whole, Version, Fresh, Undoing, Undo, Ending, JournalStages
  <1> QED
    BY <1>1, <1>3, <1>5, <1>7, <1>8, <1>9, <1>10, <1>11, Quiet DEF Whole

\* A page that is taken back was not changed.
LEMMA RecycleKeeps ==
    ASSUME Inv, NEW c \in Conns, NEW p \in Pages, Recycle(c, p)
    PROVE  StepOf(c) /\ Recovered' = Recovered
  <1> USE DEF Cache, At, call, files, journal, locks
  <1>1. Moved(c)
    BY Moves DEF Recycle
  <1>2. Whole(c) /\ pc[c] = "idle" /\ eState[c] # "OPEN" /\ c \in DOMAIN cache
        /\ ~Undoing(c) /\ p \notin dirty[c] /\ p # 1 /\ goal[c] \notin Pages
    BY DEF Recycle, Inv, Types, Whole, Aimed, FileStages, JournalStages
  <1>3. /\ cache' = [cache EXCEPT ![c] = [q \in DOMAIN cache[c] \ {p} |-> cache[c][q]]]
        /\ UNCHANGED <<lock, reserved, dirty, vers, held, eState, pc, goal, next, files, journal, tx>>
    BY DEF Recycle
  <1>4. /\ DOMAIN cache'[c] = DOMAIN cache[c] \ {p}
        /\ \A q \in DOMAIN cache'[c] : cache'[c][q] = cache[c][q]
    BY <1>2, <1>3
  <1>5. Types' /\ \A d \in Conns \ {c} : Kept(d)
    BY <1>1, <1>2, <1>3 DEF Moved, Kept, Inv, Types
  <1>6. Recovered' = Recovered /\ (Clean' <=> Clean) /\ (AsRecovered' <=> AsRecovered)
    BY <1>3, SameFiles
  <1>7. CacheType(cache[c])'
    BY <1>2, <1>4 DEF CacheType, Whole
  <1>8. Locked(c)' /\ Aimed(c)'
    BY <1>2, <1>3 DEF Whole, Locked, Aimed, Writer, Undoing
  <1>9. Reads(c)' /\ Synced(c)'
    BY <1>2, <1>3, <1>6 DEF Whole, Reads, Synced, Undo, Undoing, Journaled
  <1>10. Changes(c)'
    BY <1>2, <1>3, <1>4 DEF Whole, Changes, Undoing, Journaled
  <1>11. Version(c)'
    BY <1>2, <1>3, <1>4, <1>6 DEF Whole, Version, Fresh, Undoing, Undo, Ending, JournalStages
  <1> QED
    BY <1>1, <1>3, <1>5, <1>7, <1>8, <1>9, <1>10, <1>11, Quiet DEF Whole

\* The cache stays, of the version of the file.
LEMMA UnlockKeeps ==
    ASSUME Inv, NEW c \in Conns, Unlock(c)
    PROVE  StepOf(c) /\ Recovered' = Recovered
  <1> USE DEF Unlock, Idle, Goto, At, memory, files, journal, Become
  <1>1. Moved(c)
    BY Moves
  <1>2. /\ pc[c] = "idle" /\ eState[c] = "READER" /\ eState'[c] = "OPEN"
        /\ lock'[c] = NO_LOCK /\ c \notin reserved'
    BY MovesTo DEF Inv, Types
  <1>3. Types' /\ \A d \in Conns \ {c} : Kept(d)
    BY <1>1 DEF Moved, Kept, Inv, Types, Stages, ReadStages
  <1>4. Whole(c) /\ pc \in [Conns -> Stages] /\ vers[c] \in Int
    BY <1>2 DEF Inv, Types
  <1>5. CacheType(cache[c])' /\ Locked(c)' /\ Aimed(c)'
    BY <1>2, <1>4, LevelsDiffer DEF Whole, CacheType, Locked, Aimed, Undoing, Writer,
       ReadStages, FileStages, JournalStages
  <1>6. Reads(c)' /\ Synced(c)' /\ Changes(c)'
    BY <1>2, <1>4, SameFiles DEF Whole, Locked, Aimed, Reads, Synced, Changes, Undo, Undoing,
       ReadStages, JournalStages
  <1>7. Version(c)'
    BY <1>2, <1>4, SameFiles DEF Whole, Version, Fresh, Undo, Undoing, Ending, JournalStages
  <1> QED
    BY <1>1, <1>3, <1>5, <1>6, <1>7, Quiet DEF Whole

\* The right to write, before anything is written.
LEMMA BeginKeeps ==
    ASSUME Inv, NEW c \in Conns, Begin(c)
    PROVE  StepOf(c) /\ Recovered' = Recovered
  <1> USE DEF Begin, Idle, Goto, At, memory, files, journal, Become
  <1>1. Moved(c)
    BY Moves
  <1>2. /\ pc[c] = "idle" /\ eState[c] = "READER" /\ eState'[c] = "LOCKED"
        /\ lock'[c] = RESERVED_LOCK /\ c \in reserved' /\ tx' \in Nat
    BY MovesTo DEF Inv, Types
  <1>3. Types' /\ \A d \in Conns \ {c} : Kept(d)
    BY <1>1, <1>2 DEF Moved, Kept, Inv, Types, Stages, ReadStages
  <1>4. Whole(c) /\ pc \in [Conns -> Stages] /\ Types
    BY <1>2 DEF Inv, Types
  <1>5. CacheType(cache[c])' /\ Locked(c)' /\ Aimed(c)'
    BY <1>2, <1>4, LevelsDiffer DEF Whole, CacheType, Locked, Aimed, Undoing, Writer,
       ReadStages, FileStages, JournalStages
  <1>6. Reads(c)' /\ Synced(c)' /\ Changes(c)'
    BY <1>2, <1>4, SameFiles DEF Whole, Locked, Aimed, Reads, Synced, Changes, Undo, Undoing,
       ReadStages, JournalStages
  <1>7. Version(c)'
    BY <1>2, <1>4, SameFiles DEF Whole, Version, Fresh, Undo, Undoing, Ending, JournalStages
  <1> QED
    BY <1>1, <1>3, <1>5, <1>6, <1>7, Quiet DEF Whole

\* Nothing was written.
LEMMA CommitUnchangedKeeps ==
    ASSUME Inv, NEW c \in Conns, CommitUnchanged(c)
    PROVE  StepOf(c) /\ Recovered' = Recovered
  <1> USE DEF CommitUnchanged, Idle, Goto, At, memory, files, journal, Become
  <1>1. Moved(c)
    BY Moves
  <1>2. /\ pc[c] = "idle" /\ eState[c] = "LOCKED" /\ eState'[c] = "READER"
        /\ lock'[c] = SHARED_LOCK /\ c \notin reserved'
    BY MovesTo DEF Inv, Types
  <1>3. Types' /\ \A d \in Conns \ {c} : Kept(d)
    BY <1>1 DEF Moved, Kept, Inv, Types, Stages, ReadStages
  <1>4. Whole(c) /\ pc \in [Conns -> Stages] /\ Types
    BY <1>2 DEF Inv, Types
  <1>5. CacheType(cache[c])' /\ Locked(c)' /\ Aimed(c)'
    BY <1>2, <1>4, LevelsDiffer DEF Whole, CacheType, Locked, Aimed, Undoing, Writer,
       ReadStages, FileStages, JournalStages
  <1>6. Reads(c)' /\ Synced(c)' /\ Changes(c)'
    BY <1>2, <1>4, SameFiles DEF Whole, Locked, Aimed, Reads, Synced, Changes, Undo, Undoing,
       ReadStages, JournalStages
  <1>7. Version(c)'
    BY <1>2, <1>4, SameFiles DEF Whole, Version, Fresh, Undo, Undoing, Ending, JournalStages
  <1> QED
    BY <1>1, <1>3, <1>5, <1>6, <1>7, Quiet DEF Whole

\* The pages whose records are counted.
LEMMA CountedPages ==
    ASSUME Types, JournalOK
    PROVE  /\ Len(Counted) = nRec
           /\ \A p \in Pages : p \in PagesOf(Counted) <=> Journaled(p, nRec)
  <1>1. recs \in Seq(Record) /\ OncePerPage(recs) /\ nRec \in Nat /\ nRec <= Len(recs)
    BY DEF Types, JournalOK
  <1> DEFINE s == SubSeq(recs, 1, Least(nRec, Len(recs)))
  <1>2. s \in Seq(Record) /\ Len(s) = nRec /\ \A k \in 1 .. nRec : s[k] = recs[k]
    BY <1>1, CountedAre
  <1> HIDE DEF s
  <1>3. DOMAIN s = 1 .. nRec
    BY <1>2
  <1>4. PagesOf(s) = {recs[k].page : k \in 1 .. nRec}
    BY <1>2, <1>3 DEF PagesOf
  <1> QED
    BY <1>2, <1>4 DEF s, Counted, Journaled

\* The goals of a call are apart.
LEMMA GoalsDiffer ==
    /\ ToCommit # ToRollBack /\ ToCommit \in Goals /\ ToRollBack \in Goals /\ Pages \subseteq Goals
    /\ ToCommit \notin Pages /\ ToRollBack \notin Pages /\ 1 \in Pages
    /\ \A g \in Goals : g \in Pages \/ g = ToCommit \/ g = ToRollBack
  BY PagerAssumption DEF Goals, Pages, ToCommit, ToRollBack

\* A page to be spilled is changed, and not page 1.
LEMMA SpillKeeps ==
    ASSUME Inv, NEW c \in Conns, NEW p \in Pages, Spill(c, p)
    PROVE  StepOf(c) /\ Recovered' = Recovered
  <1>1. Moved(c)
    BY Moves DEF Spill
  <1>2. /\ pc[c] = "idle" /\ eState[c] \in {"CACHEMOD", "DBMOD"} /\ p \in dirty[c] /\ p # 1
        /\ goal' = [goal EXCEPT ![c] = p]
        /\ pc' = [pc EXCEPT ![c] = IF eState[c] = "DBMOD" /\ p \in PagesOf(Counted)
                                   THEN "write pages" ELSE "lock"]
        /\ UNCHANGED <<lock, reserved, memory, eState, next, files, journal, tx>>
    BY DEF Spill, At, Goto, locks
  <1> USE DEF memory, files, journal
  <1>3. Types' /\ \A d \in Conns \ {c} : Kept(d)
    BY <1>1, <1>2, GoalsDiffer DEF Moved, Kept, Inv, Types, Stages
  <1>4. Whole(c) /\ goal'[c] = p /\ ~Undoing(c) /\ ~Undoing(c)'
    BY <1>2, GoalsDiffer DEF Inv, Types, Whole, Aimed, Undoing, FileStages
  <1>5. \/ pc'[c] = "lock"
        \/ pc'[c] = "write pages" /\ eState[c] = "DBMOD" /\ Journaled(p, nRec)
    BY <1>2, CountedPages DEF Inv, Types
  <1>6. CacheType(cache[c])' /\ Locked(c)'
    BY <1>2, <1>4, <1>5, LevelsDiffer DEF Whole, CacheType, Locked, At, Writer,
       ReadStages, FileStages, JournalStages
  <1>7. Aimed(c)'
    BY <1>2, <1>4, <1>5 DEF Aimed, At, Writer
  <1>8. Reads(c)' /\ Changes(c)'
    BY <1>2, <1>4, <1>5, SameFiles DEF Whole, Reads, Changes, Undo, At, Journaled
  <1>9. Synced(c)'
    BY <1>2, <1>4, <1>5, GoalsDiffer DEF Whole, Synced, At, Journaled
  <1>10. Version(c)'
    BY <1>2, <1>4, <1>5, SameFiles, GoalsDiffer DEF Whole, Version, Fresh, Undo, Ending, At, JournalStages
  <1> QED
    BY <1>1, <1>2, <1>3, <1>6, <1>7, <1>8, <1>9, <1>10, Quiet DEF Whole

\* Nothing is written without the exclusive lock.
LEMMA ExclusiveLockKeeps ==
    ASSUME Inv, NEW c \in Conns, ExclusiveLock(c)
    PROVE  StepOf(c) /\ Recovered' = Recovered
  <1>1. Moved(c)
    BY Moves DEF ExclusiveLock
  <1>2. Types /\ Whole(c) /\ pc[c] = "lock"
    BY DEF Inv, ExclusiveLock, At
  <1>3. /\ eState[c] \in {"CACHEMOD", "DBMOD"} /\ ~Undoing(c)
        /\ c \in reserved /\ lock[c] >= RESERVED_LOCK
    BY <1>2, LevelsDiffer DEF Whole, Locked, At, Types, Aimed, FileStages, Writer
  <1>4. UNCHANGED <<memory, eState, next, files, journal, tx>>
    BY DEF ExclusiveLock
  <1>5. reserved' = reserved
    BY MovesTo, <1>2 DEF ExclusiveLock, locks
  <1>6. \/ /\ lock'[c] = EXCLUSIVE_LOCK
           /\ pc' = [pc EXCEPT ![c] = "sync records"]
           /\ goal' = goal
        \/ /\ lock'[c] = lock[c] \/ (lock'[c] = PENDING_LOCK /\ lock[c] # EXCLUSIVE_LOCK)
           /\ pc' = [pc EXCEPT ![c] = "idle"]
           /\ goal' = [goal EXCEPT ![c] = ToCommit]
    <2>1. CASE /\ IF lock[c] = EXCLUSIVE_LOCK THEN UNCHANGED locks ELSE Locks!Exclude(c)
               /\ Goto(c, "sync records")
               /\ UNCHANGED goal
      BY <1>2, <2>1, MovesTo DEF Goto, locks
    <2>2. CASE (Locks!Pend(c) \/ UNCHANGED locks) /\ EndCall(c)
      BY <1>2, <2>2, MovesTo, LevelsDiffer DEF EndCall, Goto, locks
    <2> QED
      BY <2>1, <2>2 DEF ExclusiveLock
  <1> USE DEF memory, files, journal
  <1>7. \A d \in Conns \ {c} : Kept(d)
    BY <1>1, <1>2, <1>4, <1>6 DEF Moved, Kept, Types
  <1>8. Types'
    <2>1. pc' \in [Conns -> Stages] /\ goal' \in [Conns -> Goals]
      <3>1. "idle" \in Stages /\ "sync records" \in Stages
        BY DEF Stages, JournalStages
      <3>2. pc \in [Conns -> Stages] /\ goal \in [Conns -> Goals]
        BY <1>2 DEF Types
      <3> QED
        BY <1>6, <3>1, <3>2, GoalsDiffer
    <2> QED
      BY <1>1, <1>2, <1>4, <2>1 DEF Moved, Types
  <1>9. \/ pc'[c] = "sync records" /\ goal'[c] = goal[c] /\ lock'[c] = EXCLUSIVE_LOCK
        \/ /\ pc'[c] = "idle" /\ goal'[c] = ToCommit /\ lock'[c] >= RESERVED_LOCK
           /\ lock[c] = EXCLUSIVE_LOCK => lock'[c] = EXCLUSIVE_LOCK
    BY <1>2, <1>3, <1>6, LevelsDiffer DEF Types
  <1>10. CacheType(cache[c])'
    BY <1>2, <1>4 DEF Whole, CacheType
  <1>11. ~Undoing(c)' /\ pc'[c] \notin FileStages
    BY <1>2, <1>3, <1>9, GoalsDiffer DEF Undoing, FileStages
  <1>12. Locked(c)'
    BY <1>2, <1>3, <1>4, <1>5, <1>9, LevelsDiffer DEF Whole, Locked, At, Writer,
       ReadStages, FileStages, JournalStages
  <1>13. Aimed(c)'
    BY <1>2, <1>3, <1>4, <1>9, <1>11, GoalsDiffer DEF Whole, Aimed, At, Writer, FileStages, JournalStages
  <1>14. Reads(c)' /\ Changes(c)'
    BY <1>2, <1>3, <1>4, <1>9, <1>11, SameFiles DEF Whole, Reads, Changes, Undo, At, Journaled
  <1>15. Synced(c)'
    BY <1>2, <1>3, <1>4, <1>9 DEF Whole, Synced, At
  <1>16. Version(c)'
    BY <1>2, <1>3, <1>4, <1>9, <1>11, SameFiles DEF Whole, Version, Fresh, Undo, Ending, At, JournalStages
  <1> QED
    BY <1>1, <1>4, <1>7, <1>8, <1>10, <1>12, <1>13, <1>14, <1>15, <1>16, Quiet DEF Whole

\* The journal is gone: the transaction reads on, or the hot rollback begins
\* its reading.
LEMMA EndTransactionKeeps ==
    ASSUME Inv, NEW c \in Conns, EndTransaction(c)
    PROVE  StepOf(c) /\ Recovered' = Recovered
  <1>1. Moved(c)
    BY Moves DEF EndTransaction
  <1>2. Types /\ Whole(c) /\ pc[c] = "end" /\ nRec = 0 /\ dirty[c] = {}
    BY DEF Inv, EndTransaction, At, Whole, Reads, Version, Ending
  <1>3. Clean
    BY <1>2, NothingToRecover
  <1>4. UNCHANGED <<memory, next, files, journal, tx>>
    BY DEF EndTransaction
  <1>5. lock'[c] = SHARED_LOCK /\ c \notin reserved'
    BY MovesTo, <1>2 DEF EndTransaction
  <1>6. \/ /\ eState[c] = "OPEN" /\ eState' = eState /\ goal' = goal
           /\ pc' = [pc EXCEPT ![c] = "check counter"]
        \/ /\ eState[c] # "OPEN" /\ eState' = [eState EXCEPT ![c] = "READER"]
           /\ pc' = [pc EXCEPT ![c] = "idle"]
           /\ goal' = [goal EXCEPT ![c] = ToCommit]
    BY DEF EndTransaction, Become, EndCall, Goto
  <1> USE DEF memory, files, journal
  <1>7. \A d \in Conns \ {c} : Kept(d)
    BY <1>1, <1>2, <1>4, <1>6 DEF Moved, Kept, Types
  <1>8. Types'
    <2>1. pc' \in [Conns -> Stages] /\ goal' \in [Conns -> Goals]
          /\ eState' \in [Conns -> {"OPEN", "READER", "LOCKED", "CACHEMOD", "DBMOD"}]
      <3>1. "idle" \in Stages /\ "check counter" \in Stages
        BY DEF Stages, ReadStages
      <3>2. /\ pc \in [Conns -> Stages] /\ goal \in [Conns -> Goals]
            /\ eState \in [Conns -> {"OPEN", "READER", "LOCKED", "CACHEMOD", "DBMOD"}]
        BY <1>2 DEF Types
      <3> QED
        BY ZenonT(60), <1>6, <3>1, <3>2, GoalsDiffer
    <2> QED
      BY <1>1, <1>2, <1>4, <2>1 DEF Moved, Types
  <1>9. \/ /\ eState[c] = "OPEN" /\ eState'[c] = "OPEN" /\ goal'[c] = goal[c]
           /\ pc'[c] = "check counter"
        \/ /\ eState[c] # "OPEN" /\ eState'[c] = "READER" /\ pc'[c] = "idle" /\ goal'[c] = ToCommit
    BY <1>2, <1>6 DEF Types
  <1>10. Recovered' = Recovered /\ Clean'
    BY <1>3, <1>4, SameFiles
  <1>11. CacheType(cache[c])'
    BY <1>2, <1>4 DEF Whole, CacheType
  <1>12. ~Undoing(c)' /\ goal'[c] \notin Pages /\ goal'[c] # 1
    <2>1. eState[c] = "OPEN" => ~Undoing(c) /\ goal[c] \notin Pages
      BY <1>2 DEF Whole, Aimed, Writer, JournalStages
    <2> QED
      BY <1>9, <2>1, GoalsDiffer DEF Undoing
  <1>13. Locked(c)' /\ Aimed(c)'
    BY <1>5, <1>9, <1>12 DEF Locked, Aimed, At, Writer, ReadStages, FileStages, JournalStages
  <1>14. Reads(c)' /\ Changes(c)'
    BY <1>9, <1>10 DEF Reads, Changes, At
  <1>15. Synced(c)'
    BY <1>2, <1>4, <1>9 DEF Whole, Synced, At
  <1>16. \A p \in Pages : file[p] = Recovered[p]
    BY <1>3 DEF Clean, AsRecovered
  <1>17. eState[c] # "OPEN" => vers[c] = Recovered[1] /\ Fresh(c, Recovered) /\ 1 \in DOMAIN cache[c]
    <2>1. CASE eState[c] # "OPEN" /\ ~Undoing(c)
      <3>1. vers[c] = file[1] /\ Fresh(c, file) /\ 1 \in DOMAIN cache[c]
        BY <1>2, <2>1 DEF Whole, Version, Ending, Undo
      <3>2. DOMAIN cache[c] \subseteq Pages
        BY <1>2 DEF Whole, CacheType
      <3> QED
        BY <1>16, <3>1, <3>2 DEF Fresh
    <2>2. CASE eState[c] # "OPEN" /\ Undoing(c)
      BY <1>2, <2>2 DEF Whole, Version
    <2> QED
      BY <2>1, <2>2
  <1>18. Version(c)'
    BY <1>2, <1>4, <1>9, <1>10, <1>12, <1>17 DEF Whole, Version, Fresh, Undo, Ending, At, JournalStages
  <1> QED
    BY <1>1, <1>4, <1>7, <1>8, <1>11, <1>13, <1>14, <1>15, <1>18, Quiet DEF Whole

\* What is in memory goes back to what a recovery would say.
LEMMA RollbackKeeps ==
    ASSUME Inv, NEW c \in Conns, Rollback(c)
    PROVE  StepOf(c) /\ Recovered' = Recovered
  <1> DEFINE back == Restore(recs, cache[c])
  <1>1. Moved(c)
    BY Moves DEF Rollback
  <1>2. /\ Types /\ JournalOK /\ Whole(c) /\ pc[c] = "idle"
        /\ eState[c] \in {"CACHEMOD", "DBMOD"} /\ ~Undoing(c)
    BY DEF Inv, Rollback, At, Whole, Aimed, FileStages
  <1>3. /\ cache' = [cache EXCEPT ![c] = back]
        /\ dirty' = [dirty EXCEPT ![c] = {}]
        /\ vers' = [vers EXCEPT ![c] = back[1]]
        /\ goal' = [goal EXCEPT ![c] = ToRollBack]
        /\ pc' = [pc EXCEPT ![c] = IF eState[c] = "DBMOD" THEN "play back" ELSE "delete journal"]
        /\ UNCHANGED <<lock, reserved, held, eState, next, files, journal, tx>>
    BY DEF Rollback, Cache, Goto, locks
  <1>4. /\ recs \in Seq(Record) /\ OncePerPage(recs) /\ nRec \in Nat /\ safeRec \in Nat
        /\ nRec <= Len(recs) /\ safeRec <= nRec
    BY <1>2 DEF Types, JournalOK
  <1>5. IsRecovery(Recovered, recs, nRec, file) /\ Recovered \in [Pages -> Int]
    BY <1>2, Recovery, RecoveredType
  <1>6. DOMAIN cache[c] \subseteq Pages /\ 1 \in DOMAIN cache[c] /\ CacheType(cache[c])
    BY <1>2 DEF Whole, CacheType, Version
  <1>7. /\ DOMAIN back = DOMAIN cache[c]
        /\ \A k \in 1 .. Len(recs) : recs[k].page \in DOMAIN cache[c] => back[recs[k].page] = recs[k].old
        /\ \A p \in DOMAIN cache[c] :
               (\A k \in 1 .. Len(recs) : recs[k].page # p) => back[p] = cache[c][p]
    BY <1>4, RestoreIs
  <1> HIDE DEF back
  <1>8. ASSUME NEW p \in DOMAIN cache[c]
        PROVE  back[p] = Recovered[p]
    <2>1. Changes(c) /\ ~At(c, "end")
      BY <1>2 DEF Whole, At
    <2>2. CASE \E k \in 1 .. Len(recs) : recs[k].page = p
      <3>1. PICK k \in 1 .. Len(recs) : recs[k].page = p
        BY <2>2
      <3>2. back[p] = recs[k].old
        BY <1>7, <3>1
      <3>3. CASE k <= nRec
        <4>1. k \in 1 .. nRec
          BY <3>3, <1>4
        <4> QED
          BY <1>5, <3>1, <3>2, <4>1 DEF IsRecovery
      <3>4. CASE k > nRec
        <4>1. file[p] = recs[k].old
          BY <1>2, <1>4, <2>1, <3>1, <3>4 DEF Changes
        <4>2. \A l \in 1 .. nRec : recs[l].page # p
          BY <1>4, <3>1, <3>4 DEF OncePerPage
        <4> QED
          BY <1>5, <1>6, <3>2, <4>1, <4>2 DEF IsRecovery
      <3> QED
        BY <1>4, <3>3, <3>4
    <2>3. CASE \A k \in 1 .. Len(recs) : recs[k].page # p
      <3>1. ~Journaled(p, Len(recs))
        BY <2>3 DEF Journaled
      <3>2. p \notin dirty[c] /\ back[p] = cache[c][p]
        BY <1>2, <1>7, <2>1, <2>3, <3>1 DEF Changes
      <3>3. cache[c][p] = file[p]
        BY <1>2, <2>1, <3>2 DEF Changes
      <3>4. \A l \in 1 .. nRec : recs[l].page # p
        BY <1>4, <2>3
      <3> QED
        BY <1>5, <1>6, <3>2, <3>3, <3>4 DEF IsRecovery
    <2> QED
      BY <2>2, <2>3
  <1> USE DEF files, journal
  <1>9. \A d \in Conns \ {c} : Kept(d)
    BY <1>1, <1>2, <1>3 DEF Moved, Kept, Types
  <1>10. "play back" \in Stages /\ "delete journal" \in Stages /\ back[1] \in Int
    BY <1>5, <1>6, <1>8 DEF Stages, FileStages
  <1>11. Types'
    <2>1. pc' \in [Conns -> Stages] /\ goal' \in [Conns -> Goals]
      BY <1>2, <1>3, <1>10, GoalsDiffer DEF Types
    <2> QED
      BY <1>1, <1>2, <1>3, <1>10, <2>1 DEF Moved, Types
  <1>12. /\ cache'[c] = back /\ dirty'[c] = {} /\ vers'[c] = Recovered[1] /\ goal'[c] = ToRollBack
         /\ \/ eState[c] = "DBMOD" /\ pc'[c] = "play back"
            \/ eState[c] = "CACHEMOD" /\ pc'[c] = "delete journal"
    BY <1>2, <1>3, <1>6, <1>8 DEF Types
  <1>13. Recovered' = Recovered /\ (Clean' <=> Clean) /\ (AsRecovered' <=> AsRecovered)
    BY <1>3, SameFiles
  <1>14. CacheType(cache[c])'
    BY <1>5, <1>6, <1>7, <1>8, <1>12 DEF CacheType
  <1>15. Locked(c)'
    BY <1>2, <1>3, <1>12, LevelsDiffer DEF Whole, Locked, At, Writer, ReadStages, FileStages, JournalStages
  <1>16. Aimed(c)'
    BY <1>2, <1>3, <1>12, GoalsDiffer DEF Aimed, At, Writer, Undoing, FileStages
  <1>17. Reads(c)' /\ Changes(c)'
    BY <1>2, <1>3, <1>12, <1>13 DEF Whole, Reads, Changes, Undoing, Clean, At
  <1>18. Synced(c)'
    <2>1. next'[c] = 0 /\ 0 <= nRec /\ 1 .. 0 = {}
      <3>1. next[c] = 0 /\ next' = next
        BY <1>2, <1>3 DEF Whole, Synced, At
      <3> QED
        BY <1>4, <3>1
    <2>2. eState[c] = "DBMOD" => nRec = safeRec /\ linked
      BY <1>2 DEF Whole, Synced, At
    <2>3. there
      BY <1>2 DEF Whole, Synced, At
    <2> QED
      BY <1>2, <1>3, <1>12, <2>1, <2>2, <2>3 DEF Synced, At
  <1>19. Version(c)'
    <2>1. Fresh(c, Recovered)'
      BY <1>7, <1>8, <1>12, <1>13 DEF Fresh
    <2> QED
      BY <1>2, <1>3, <1>6, <1>7, <1>12, <1>13, <2>1, GoalsDiffer
         DEF Whole, Version, Undo, Undoing, Ending, At, JournalStages
  <1> QED
    BY <1>1, <1>3, <1>9, <1>11, <1>14, <1>15, <1>16, <1>17, <1>18, <1>19, Quiet DEF Whole

-----------------------------------------------------------------------------
(* The steps that change the files.                                        *)

\* Around a connection that holds the exclusive lock all wait outside.
LEMMA AloneKept ==
    ASSUME Inv, NEW c \in Conns, lock[c] = EXCLUSIVE_LOCK, NEW d \in Conns \ {c}, Kept(d),
           Types', JournalOK', Recovered' = Recovered \/ Recovered'[1] > Recovered[1]
    PROVE  Whole(d)'
  <1>1. Types /\ JournalOK /\ Locks!Exclusion /\ Whole(d)
    BY DEF Inv
  <1>2. lock[d] = NO_LOCK
    BY <1>1, LevelNames DEF Locks!Exclusion
  <1>3. Recovered[1] \in Int
    BY <1>1, RecoveredType
  <1>4. Recovered'[1] \in Int
    <2> DEFINE S == Restore(SubSeq(recs', 1, Least(nRec', Len(recs'))), file')
    <2>1. IsRecovery(S, recs', nRec', file')
      BY RecoveryIs DEF Types, JournalOK
    <2>2. Recovered' = S
      BY DEF Recovered, Counted
    <2> QED
      BY <2>1, <2>2, GoalsDiffer DEF IsRecovery
  <1> QED
    BY <1>1, <1>2, <1>3, <1>4, OutsideKept

\* Around a connection that may write no other may, and none is exclusive.
LEMMA WriterKept ==
    ASSUME Inv, NEW c \in Conns, Writer(c), NEW d \in Conns \ {c}, Kept(d),
           UNCHANGED <<file, unsynced>>, Recovered' = Recovered
    PROVE  Whole(d)'
  <1>1. Types /\ Locks!Exclusion /\ Whole(d) /\ Whole(c)
    BY DEF Inv
  <1>2. c \in reserved /\ lock[c] >= RESERVED_LOCK
    BY <1>1, LevelsDiffer DEF Whole, Locked, Writer
  <1>3. lock[d] # EXCLUSIVE_LOCK /\ d \notin reserved
    BY <1>1, <1>2, LevelNames, LevelsDiffer DEF Locks!Exclusion
  <1>4. ~Writer(d)
    BY <1>1, <1>3 DEF Whole, Locked
  <1> QED
    BY <1>1, <1>3, <1>4, ReaderKept

\* So a step of such a connection keeps the invariant if it does so for its
\* own and the files.
LEMMA AloneStep ==
    ASSUME Inv, NEW c \in Conns, lock[c] = EXCLUSIVE_LOCK, Moved(c),
           \A d \in Conns \ {c} : Kept(d),
           Types', JournalOK', Ahead', Whole(c)',
           Recovered' = Recovered \/ Recovered'[1] > Recovered[1]
    PROVE  StepOf(c)
  <1>1. ASSUME NEW d \in Conns PROVE Whole(d)'
    BY AloneKept
  <1> QED
    BY <1>1 DEF Inv, Moved, StepOf

\* The counts, in their order.
LEMMA Counts ==
    ASSUME Types, JournalOK
    PROVE  /\ recs \in Seq(Record) /\ Len(recs) \in Nat
           /\ nRec \in Nat /\ safe \in Nat /\ safeRec \in Nat
           /\ safeRec <= nRec /\ nRec <= safe /\ safe <= Len(recs)
           /\ safeRec <= safe /\ safeRec <= Len(recs) /\ nRec <= Len(recs)
  <1>1. /\ recs \in Seq(Record) /\ nRec \in Nat /\ safe \in Nat /\ safeRec \in Nat
        /\ safeRec <= nRec /\ nRec <= safe /\ safe <= Len(recs)
    BY DEF Types, JournalOK
  <1>2. Len(recs) \in Nat
    BY <1>1
  <1> QED
    BY <1>1, <1>2

\* A hot journal is made durable before it is used.
LEMMA SyncHotJournalKeeps ==
    ASSUME Inv, NEW c \in Conns, SyncHotJournal(c)
    PROVE  StepOf(c) /\ Recovered' = Recovered
  <1>1. Moved(c)
    BY Moves DEF SyncHotJournal
  <1>2. Types /\ JournalOK /\ Ahead /\ Whole(c) /\ pc[c] = "sync hot"
    BY DEF Inv, SyncHotJournal, At
  <1>3. /\ safe' = Len(recs) /\ safeRec' = nRec
        /\ pc' = [pc EXCEPT ![c] = "play back"]
        /\ UNCHANGED <<lock, reserved, memory, eState, goal, next, files, there, recs, nRec, linked,
                       undead, tx>>
    BY DEF SyncHotJournal, Goto, locks
  <1>4. eState[c] = "OPEN" /\ lock[c] = EXCLUSIVE_LOCK /\ ~Undoing(c)
    BY <1>2 DEF Whole, Locked, Aimed, Writer, FileStages
  <1> USE DEF memory, files
  <1>5. Recovered' = Recovered /\ (Clean' <=> Clean) /\ (AsRecovered' <=> AsRecovered)
    BY <1>3, SameFiles
  <1>6. /\ Len(recs) \in Nat /\ nRec \in Nat /\ safeRec \in Nat
        /\ safeRec <= nRec /\ nRec <= Len(recs)
    BY <1>2, Counts
  <1>7. \A d \in Conns \ {c} : Kept(d)
    BY <1>2, <1>3 DEF Kept, Types
  <1>8. Types'
    <2>1. "play back" \in Stages
      BY DEF Stages, FileStages
    <2>2. pc' \in [Conns -> Stages]
      BY <1>2, <1>3, <2>1 DEF Types
    <2>3. safe' \in Nat /\ safeRec' \in Nat
      BY <1>3, <1>6
    <2> QED
      BY <1>2, <1>3, <2>2, <2>3 DEF Types
  <1>9. JournalOK'
    <2>1. safe' = Len(recs) /\ safeRec' = nRec
      BY <1>3
    <2>2. safeRec' <= nRec /\ nRec <= safe' /\ safe' <= Len(recs)
      BY <1>6, <2>1
    <2> QED
      BY <1>2, <1>3, <2>2 DEF JournalOK
  <1>10. Ahead'
    <2>1. ASSUME NEW p \in Pages, Journaled(p, safeRec) PROVE Journaled(p, nRec)
      BY <2>1, <1>6 DEF Journaled
    <2> QED
      BY <1>2, <1>3, <1>5, <2>1 DEF Ahead, Journaled
  <1>11. pc'[c] = "play back" /\ next'[c] = 0
    BY <1>2, <1>3 DEF Types, Whole, Synced, At
  <1>12. CacheType(cache[c])' /\ Locked(c)'
    BY <1>2, <1>3, <1>4, <1>11 DEF Whole, CacheType, Locked, At, Writer, ReadStages, FileStages, JournalStages
  <1>13. Aimed(c)' /\ Reads(c)' /\ Changes(c)'
    BY <1>2, <1>3, <1>4, <1>11 DEF Whole, Aimed, Reads, Changes, Undo, Undoing, At, Writer, FileStages,
       JournalStages
  <1>14. Synced(c)'
    <2>1. 0 <= nRec /\ 1 .. 0 = {}
      BY <1>6
    <2> QED
      BY <1>3, <1>4, <1>11, <2>1 DEF Synced, At
  <1>15. Version(c)'
    BY <1>2, <1>3, <1>4, <1>5, <1>11 DEF Whole, Version, Fresh, Undo, Undoing, Ending, At, JournalStages
  <1> QED
    BY <1>1, <1>4, <1>5, <1>7, <1>8, <1>9, <1>10, <1>12, <1>13, <1>14, <1>15, AloneStep DEF Whole

\* The records are durable, and the name of the journal.
LEMMA SyncRecordsKeeps ==
    ASSUME Inv, NEW c \in Conns, SyncRecords(c)
    PROVE  StepOf(c) /\ Recovered' = Recovered
  <1>1. Moved(c)
    BY Moves DEF SyncRecords
  <1>2. Types /\ JournalOK /\ Ahead /\ Whole(c) /\ pc[c] = "sync records"
    BY DEF Inv, SyncRecords, At
  <1>3. /\ safe' = Len(recs) /\ linked' = TRUE /\ undead' = <<>>
        /\ pc' = [pc EXCEPT ![c] = "write header"]
        /\ UNCHANGED <<lock, reserved, memory, eState, goal, next, files, there, recs, nRec, safeRec, tx>>
    BY DEF SyncRecords, Goto, locks
  <1>4. lock[c] = EXCLUSIVE_LOCK /\ eState[c] \in {"CACHEMOD", "DBMOD"} /\ ~Undoing(c)
    BY <1>2 DEF Whole, Locked, Aimed, Types, At, FileStages, JournalStages
  <1> USE DEF memory, files
  <1>5. Recovered' = Recovered /\ (Clean' <=> Clean) /\ (AsRecovered' <=> AsRecovered)
    BY <1>3, SameFiles
  <1>6. safe' \in Nat /\ nRec <= safe' /\ safe' <= Len(recs)
    <2>1. safe' = Len(recs)
      BY <1>3
    <2>2. Len(recs) \in Nat /\ nRec <= Len(recs)
      BY <1>2, Counts
    <2> QED
      BY <2>1, <2>2
  <1>7. \A d \in Conns \ {c} : Kept(d)
    BY <1>2, <1>3 DEF Kept, Types
  <1>8. undead' \in Seq(Record) /\ OncePerPage(undead')
    <2>1. undead' = <<>>
      BY <1>3
    <2> QED
      BY <2>1 DEF OncePerPage
  <1>9. Types'
    <2>1. "write header" \in Stages
      BY DEF Stages, JournalStages
    <2>2. pc' \in [Conns -> Stages]
      BY <1>2, <1>3, <2>1 DEF Types
    <2> QED
      BY <1>2, <1>3, <1>6, <1>8, <2>2 DEF Types
  <1>10. JournalOK'
    BY <1>2, <1>3, <1>6, <1>8 DEF JournalOK
  <1>11. Ahead'
    BY <1>2, <1>3, <1>5 DEF Ahead, Journaled
  <1>12. pc'[c] = "write header"
    BY <1>2, <1>3 DEF Types
  <1>13. CacheType(cache[c])' /\ Locked(c)'
    BY <1>2, <1>3, <1>4, <1>12 DEF Whole, CacheType, Locked, At, Writer, ReadStages, FileStages, JournalStages
  <1>14. Aimed(c)' /\ Reads(c)' /\ Changes(c)'
    BY <1>2, <1>3, <1>4, <1>5, <1>12 DEF Whole, Aimed, Reads, Changes, Undo, Undoing, At, Writer, FileStages,
       JournalStages, Journaled
  <1>15. Synced(c)'
    BY <1>2, <1>3, <1>4, <1>12 DEF Whole, Synced, At
  <1>16. Version(c)'
    BY <1>2, <1>3, <1>4, <1>5, <1>12 DEF Whole, Version, Fresh, Undo, Undoing, Ending, At, JournalStages
  <1> QED
    BY <1>1, <1>4, <1>5, <1>7, <1>9, <1>10, <1>11, <1>13, <1>14, <1>15, <1>16, AloneStep DEF Whole

\* More records are counted: of pages that are still as they say.
LEMMA WriteHeaderKeeps ==
    ASSUME Inv, NEW c \in Conns, WriteHeader(c)
    PROVE  StepOf(c) /\ Recovered' = Recovered
  <1>1. Moved(c)
    BY Moves DEF WriteHeader
  <1>2. Types /\ JournalOK /\ Ahead /\ Whole(c) /\ pc[c] = "write header"
    BY DEF Inv, WriteHeader, At
  <1>3. /\ nRec' = Len(recs)
        /\ pc' = [pc EXCEPT ![c] = "sync header"]
        /\ UNCHANGED <<lock, reserved, memory, eState, goal, next, files, there, recs, safe, safeRec,
                       linked, undead, tx>>
    BY DEF WriteHeader, Goto, locks
  <1>4. /\ lock[c] = EXCLUSIVE_LOCK /\ eState[c] \in {"CACHEMOD", "DBMOD"} /\ ~Undoing(c)
        /\ safe = Len(recs) /\ linked /\ there
    BY <1>2 DEF Whole, Locked, Aimed, Synced, Types, At, FileStages, JournalStages
  <1> USE DEF memory, files
  <1>5. /\ recs \in Seq(Record) /\ nRec \in Nat /\ safeRec \in Nat /\ Len(recs) \in Nat
        /\ OncePerPage(recs) /\ safeRec <= nRec /\ nRec <= Len(recs) /\ safeRec <= Len(recs)
        /\ Len(recs) <= Len(recs)
    <2>1. OncePerPage(recs)
      BY <1>2 DEF JournalOK
    <2>2. /\ recs \in Seq(Record) /\ nRec \in Nat /\ safeRec \in Nat /\ Len(recs) \in Nat
          /\ safeRec <= nRec /\ nRec <= Len(recs) /\ safeRec <= Len(recs)
      BY <1>2, Counts
    <2> QED
      BY <2>1, <2>2
  <1>6. \A d \in Conns \ {c} : Kept(d)
    BY <1>2, <1>3 DEF Kept, Types
  <1>7. Types'
    <2>1. "sync header" \in Stages
      BY DEF Stages, JournalStages
    <2>2. pc' \in [Conns -> Stages]
      BY <1>2, <1>3, <2>1 DEF Types
    <2>3. nRec' \in Nat
      BY <1>3, <1>5
    <2> QED
      BY <1>2, <1>3, <2>2, <2>3 DEF Types
  <1>8. JournalOK'
    <2>1. nRec' = Len(recs)
      BY <1>3
    <2>2. safeRec <= nRec' /\ nRec' <= safe /\ safe <= Len(recs)
      BY <1>4, <1>5, <2>1
    <2> QED
      BY <1>2, <1>3, <1>4, <2>2 DEF JournalOK
  <1>9. Recovered' = Recovered
    <2>1. IsRecovery(Recovered, recs, nRec, file)
      BY <1>2, Recovery
    <2>2. Changes(c) /\ ~At(c, "end")
      BY <1>2 DEF Whole, At
    <2>3. ASSUME NEW k \in 1 .. Len(recs) PROVE Recovered[recs[k].page] = recs[k].old
      <3>1. CASE k <= nRec
        <4>1. k \in 1 .. nRec
          BY <3>1, <1>5
        <4> QED
          BY <2>1, <4>1 DEF IsRecovery
      <3>2. CASE k > nRec
        <4>1. file[recs[k].page] = recs[k].old
          BY <1>4, <1>5, <2>2, <3>2 DEF Changes
        <4>2. \A l \in 1 .. nRec : recs[l].page # recs[k].page
          BY <1>5, <3>2 DEF OncePerPage
        <4>3. recs[k] \in Record
          BY <1>5
        <4>4. recs[k].page \in Pages
          BY <4>3 DEF Record
        <4> QED
          BY <2>1, <4>1, <4>2, <4>4 DEF IsRecovery
      <3> QED
        BY <1>5, <3>1, <3>2
    <2>4. ASSUME NEW p \in Pages, \A k \in 1 .. Len(recs) : recs[k].page # p
          PROVE  Recovered[p] = file[p]
      <3>1. \A k \in 1 .. nRec : recs[k].page # p
        BY <1>5, <2>4
      <3> QED
        BY <2>1, <3>1 DEF IsRecovery
    <2>5. IsRecovery(Recovered, recs, Len(recs), file)
      BY <2>1, <2>3, <2>4 DEF IsRecovery
    <2> QED
      BY <1>3, <1>7, <1>8, <2>5, RecoveredNext
  <1>10. (Clean' <=> Clean) /\ (AsRecovered' <=> AsRecovered) /\ Ahead'
    BY <1>2, <1>3, <1>9 DEF Clean, AsRecovered, Ahead, Journaled
  <1>11. pc'[c] = "sync header"
    BY <1>2, <1>3 DEF Types
  <1>12. CacheType(cache[c])' /\ Locked(c)'
    BY <1>2, <1>3, <1>4, <1>11 DEF Whole, CacheType, Locked, At, Writer, ReadStages, FileStages, JournalStages
  <1>13. Aimed(c)' /\ Reads(c)' /\ Changes(c)'
    BY <1>2, <1>3, <1>4, <1>10, <1>11 DEF Whole, Aimed, Reads, Changes, Undo, Undoing, At, Writer, FileStages,
       JournalStages, Journaled
  <1>14. Synced(c)'
    BY <1>2, <1>3, <1>4, <1>11 DEF Whole, Synced, At
  <1>15. Version(c)'
    BY <1>2, <1>3, <1>4, <1>9, <1>11 DEF Whole, Version, Fresh, Undo, Undoing, Ending, At, JournalStages
  <1> QED
    BY <1>1, <1>4, <1>6, <1>7, <1>8, <1>9, <1>10, <1>12, <1>13, <1>14, <1>15, AloneStep DEF Whole

\* The count is durable: pages may be written.
LEMMA SyncHeaderKeeps ==
    ASSUME Inv, NEW c \in Conns, SyncHeader(c)
    PROVE  StepOf(c) /\ Recovered' = Recovered
  <1>1. Moved(c)
    BY Moves DEF SyncHeader
  <1>2. Types /\ JournalOK /\ Ahead /\ Whole(c) /\ pc[c] = "sync header"
    BY DEF Inv, SyncHeader, At
  <1>3. /\ safeRec' = nRec
        /\ eState' = [eState EXCEPT ![c] = "DBMOD"]
        /\ pc' = [pc EXCEPT ![c] = "write pages"]
        /\ UNCHANGED <<lock, reserved, memory, goal, next, files, there, recs, nRec, safe,
                       linked, undead, tx>>
    BY DEF SyncHeader, Goto, Become, locks
  <1>4. /\ lock[c] = EXCLUSIVE_LOCK /\ eState[c] \in {"CACHEMOD", "DBMOD"} /\ ~Undoing(c)
        /\ nRec = Len(recs) /\ linked /\ there /\ c \in reserved /\ next[c] = 0
    BY <1>2 DEF Whole, Locked, Aimed, Synced, Types, At, Writer, FileStages, JournalStages
  <1> USE DEF memory, files
  <1>5. nRec \in Nat /\ safeRec \in Nat /\ safeRec <= nRec /\ nRec <= nRec
    <2>1. nRec \in Nat /\ safeRec \in Nat /\ safeRec <= nRec
      BY <1>2, Counts
    <2> QED
      BY <2>1
  <1>6. \A d \in Conns \ {c} : Kept(d)
    BY <1>2, <1>3 DEF Kept, Types
  <1>7. Types'
    <2>1. "write pages" \in Stages
      BY DEF Stages
    <2>2. pc' \in [Conns -> Stages]
          /\ eState' \in [Conns -> {"OPEN", "READER", "LOCKED", "CACHEMOD", "DBMOD"}]
      BY <1>2, <1>3, <2>1 DEF Types
    <2>3. safeRec' \in Nat
      BY <1>3, <1>5
    <2> QED
      BY <1>2, <1>3, <2>2, <2>3 DEF Types
  <1>8. JournalOK'
    BY <1>2, <1>3, <1>5 DEF JournalOK
  <1>9. Recovered' = Recovered /\ (Clean' <=> Clean) /\ (AsRecovered' <=> AsRecovered)
    BY <1>3, SameFiles
  <1>10. ASSUME NEW p \in Pages, Journaled(p, safeRec) PROVE Journaled(p, nRec)
    BY <1>10, <1>5 DEF Journaled
  <1>11. Ahead'
    BY <1>2, <1>3, <1>9, <1>10 DEF Ahead, Journaled
  <1>12. pc'[c] = "write pages" /\ eState'[c] = "DBMOD"
    BY <1>2, <1>3 DEF Types
  <1>13. CacheType(cache[c])' /\ Locked(c)'
    BY <1>2, <1>3, <1>4, <1>12 DEF Whole, CacheType, Locked, At, Writer, ReadStages, FileStages, JournalStages
  <1>14. Aimed(c)' /\ Reads(c)'
    BY <1>2, <1>3, <1>4, <1>9, <1>12 DEF Whole, Aimed, Reads, Undo, Undoing, At, Writer, FileStages,
       JournalStages
  <1>15. Changes(c)'
    <2>1. Changes(c) /\ ~At(c, "end")
      BY <1>2 DEF Whole, At
    <2>2. \A k \in 1 .. Len(recs) : ~(k > nRec)
      BY <1>4, <1>5
    <2> QED
      BY <1>3, <1>4, <2>1, <2>2 DEF Changes, Journaled
  <1>16. Synced(c)'
    <2>1. \A p \in dirty[c] : Journaled(p, nRec)
      BY <1>2, <1>4 DEF Whole, Changes, At
    <2>2. goal[c] # ToCommit => goal[c] \in dirty[c]
      BY <1>2, <1>4, GoalsDiffer DEF Types, Whole, Aimed, Undoing
    <2> QED
      BY <1>3, <1>4, <1>12, <2>1, <2>2 DEF Synced, At, Journaled
  <1>17. Version(c)'
    BY <1>2, <1>3, <1>4, <1>9, <1>12 DEF Whole, Version, Fresh, Undo, Undoing, Ending, At, JournalStages
  <1> QED
    BY <1>1, <1>4, <1>6, <1>7, <1>8, <1>9, <1>11, <1>13, <1>14, <1>15, <1>16, <1>17, AloneStep DEF Whole

\* The file is durable as it is.
LEMMA SyncFileKeeps ==
    ASSUME Inv, NEW c \in Conns, SyncFile(c)
    PROVE  StepOf(c) /\ Recovered' = Recovered
  <1>1. Moved(c)
    BY Moves DEF SyncFile
  <1>2. Types /\ JournalOK /\ Ahead /\ Whole(c) /\ pc[c] = "sync file"
    BY DEF Inv, SyncFile, At
  <1>3. /\ disk' = file /\ unsynced' = {}
        /\ pc' = [pc EXCEPT ![c] = "delete journal"]
        /\ UNCHANGED <<lock, reserved, memory, eState, goal, next, file, journal, tx>>
    BY DEF SyncFile, Goto, locks
  <1>4. lock[c] = EXCLUSIVE_LOCK /\ eState[c] \in {"OPEN", "DBMOD"} /\ next[c] = 0
    BY <1>2 DEF Whole, Locked, Synced, Types, At, FileStages, JournalStages
  <1> USE DEF memory, journal
  <1>5. Recovered' = Recovered /\ (AsRecovered' <=> AsRecovered)
    BY <1>3 DEF Recovered, Counted, AsRecovered
  <1>6. \A d \in Conns \ {c} : Kept(d)
    BY <1>2, <1>3 DEF Kept, Types
  <1>7. Types'
    <2>1. "delete journal" \in Stages
      BY DEF Stages, FileStages
    <2>2. pc' \in [Conns -> Stages]
      BY <1>2, <1>3, <2>1 DEF Types
    <2> QED
      BY <1>2, <1>3, <2>2 DEF Types
  <1>8. JournalOK' /\ Ahead'
    BY <1>2, <1>3, <1>5 DEF JournalOK, Ahead, Journaled
  <1>9. pc'[c] = "delete journal"
    BY <1>2, <1>3 DEF Types
  <1>10. CacheType(cache[c])' /\ Locked(c)'
    BY <1>2, <1>3, <1>4, <1>9 DEF Whole, CacheType, Locked, At, Writer, ReadStages, FileStages, JournalStages
  <1>11. Aimed(c)' /\ Changes(c)'
    BY <1>2, <1>3, <1>4, <1>9 DEF Whole, Aimed, Changes, Undoing, At, Writer, FileStages, JournalStages,
       Journaled
  <1>12. Reads(c)'
    BY <1>2, <1>3, <1>4, <1>5, <1>9 DEF Whole, Reads, Undo, Undoing, At
  <1>13. Synced(c)'
    BY <1>2, <1>3, <1>4, <1>9 DEF Whole, Synced, At
  <1>14. Version(c)'
    BY <1>2, <1>3, <1>4, <1>5, <1>9 DEF Whole, Version, Fresh, Undo, Undoing, Ending, At, JournalStages
  <1> QED
    BY <1>1, <1>4, <1>5, <1>6, <1>7, <1>8, <1>10, <1>11, <1>12, <1>13, <1>14, AloneStep DEF Whole

\* The first records of a journal are a journal.
LEMMA PrefixIs ==
    ASSUME NEW q \in Seq(Record), OncePerPage(q), NEW n \in Nat, n <= Len(q)
    PROVE  SubSeq(q, 1, n) \in Seq(Record) /\ OncePerPage(SubSeq(q, 1, n))
  <1>1. Least(n, Len(q)) = n
    BY DEF Least
  <1> QED
    BY <1>1, CountedAre

\* Here a transaction ends.  A rollback leaves the version as it was, a commit
\* makes one with a greater counter.
LEMMA DeleteJournalKeeps ==
    ASSUME Inv, NEW c \in Conns, DeleteJournal(c)
    PROVE  StepOf(c)
  <1>1. Moved(c)
    BY Moves DEF DeleteJournal
  <1>2. Types /\ JournalOK /\ Whole(c) /\ pc[c] = "delete journal" /\ unsynced = {}
        /\ file \in [Pages -> Int] /\ Recovered \in [Pages -> Int]
    BY RecoveredType DEF Inv, DeleteJournal, At, Whole, Reads, Types
  <1>3. /\ there' = FALSE /\ recs' = <<>> /\ nRec' = 0 /\ safe' = 0 /\ safeRec' = 0
        /\ linked' = FALSE
        /\ undead' = IF linked /\ safeRec > 0 THEN SubSeq(recs, 1, safeRec) ELSE undead
        /\ pc' = [pc EXCEPT ![c] = "end"]
        /\ UNCHANGED <<lock, reserved, memory, eState, goal, next, files, tx>>
    BY DEF DeleteJournal, Goto, locks
  <1>4. /\ eState[c] \in {"OPEN", "CACHEMOD", "DBMOD"} /\ next[c] = 0
        /\ eState[c] # "CACHEMOD" => lock[c] = EXCLUSIVE_LOCK
        /\ Undo(c) => eState[c] = "OPEN" \/ Undoing(c)
        /\ ~Undo(c) => eState[c] = "DBMOD" /\ ~Undoing(c)
    BY <1>2 DEF Whole, Locked, Aimed, Synced, Types, At, Undo, FileStages, JournalStages
  <1> USE DEF memory, files
  <1>5. undead' \in Seq(Record) /\ OncePerPage(undead')
    <2>1. /\ safeRec \in Nat /\ safeRec <= Len(recs) /\ recs \in Seq(Record)
      BY <1>2, Counts
    <2>2. OncePerPage(recs) /\ OncePerPage(undead) /\ undead \in Seq(Record)
      BY <1>2 DEF JournalOK, Types
    <2> QED
      BY <1>3, <2>1, <2>2, PrefixIs
  <1>6. recs' \in Seq(Record) /\ OncePerPage(recs') /\ Len(recs') = 0
    <2>1. recs' = <<>>
      BY <1>3
    <2> QED
      BY <2>1 DEF OncePerPage
  <1>7. Types'
    <2>1. "end" \in Stages
      BY DEF Stages, FileStages
    <2>2. pc' \in [Conns -> Stages]
      BY <1>2, <1>3, <2>1 DEF Types
    <2> QED
      BY <1>2, <1>3, <1>5, <1>6, <2>2 DEF Types
  <1>8. JournalOK'
    BY <1>3, <1>5, <1>6 DEF JournalOK
  <1>9. Recovered' = file
    BY <1>2, <1>3, <1>7, <1>8, NothingCounted, RecoveredNext
  <1>10. Ahead' /\ Clean'
    BY <1>2, <1>3, <1>9 DEF Ahead, Clean, AsRecovered
  <1>11. Undo(c) => Recovered' = Recovered
    <2>1. ASSUME Undo(c) PROVE \A p \in Pages : file[p] = Recovered[p]
      BY <1>2, <2>1 DEF Whole, Reads, AsRecovered
    <2>2. ASSUME NEW f \in [Pages -> Int], NEW g \in [Pages -> Int], \A p \in Pages : f[p] = g[p]
          PROVE  f = g
      BY <2>2
    <2>3. Undo(c) => file = Recovered
      BY <1>2, <2>1, <2>2
    <2> QED
      BY <1>9, <2>3
  <1>12. ~Undo(c) => Recovered'[1] > Recovered[1]
    <2>1. ~Undo(c) => file[1] = Recovered[1] + 1
      BY <1>2 DEF Whole, Version, Ending, At
    <2>2. Recovered[1] \in Int
      BY <1>2, GoalsDiffer
    <2> QED
      BY <1>9, <2>1, <2>2
  <1>13. \A d \in Conns \ {c} : Kept(d)
    BY <1>2, <1>3 DEF Kept, Types
  <1>14. pc'[c] = "end"
    BY <1>2, <1>3 DEF Types
  <1>15. CacheType(cache[c])' /\ Locked(c)'
    BY <1>2, <1>3, <1>4, <1>14 DEF Whole, CacheType, Locked, At, Writer, ReadStages, FileStages, JournalStages
  <1>16. Aimed(c)' /\ Changes(c)'
    BY <1>2, <1>3, <1>4, <1>14 DEF Whole, Aimed, Changes, Undoing, At, Writer, FileStages, JournalStages
  <1>17. Reads(c)' /\ Synced(c)'
    BY <1>2, <1>3, <1>4, <1>10, <1>14 DEF Whole, Reads, Synced, Undo, Undoing, At
  <1>18. Version(c)'
    <2>1. Version(c) /\ DOMAIN cache[c] \subseteq Pages
      BY <1>2 DEF Whole, CacheType
    <2>2. CASE Undo(c)
      BY <1>2, <1>3, <1>4, <1>11, <1>14, <2>1, <2>2
         DEF Version, Fresh, Undo, Undoing, Ending, At, JournalStages
    <2>3. CASE ~Undo(c)
      BY <1>2, <1>3, <1>4, <1>14, <2>1, <2>3
         DEF Version, Fresh, Undo, Undoing, Ending, At, JournalStages
    <2> QED
      BY <2>2, <2>3
  <1>19. Whole(c)'
    BY <1>15, <1>16, <1>17, <1>18 DEF Whole
  <1>20. CASE lock[c] = EXCLUSIVE_LOCK
    BY <1>1, <1>7, <1>8, <1>10, <1>11, <1>12, <1>13, <1>19, <1>20, AloneStep
  <1>21. CASE lock[c] # EXCLUSIVE_LOCK
    <2>1. Writer(c) /\ Recovered' = Recovered
      BY <1>4, <1>11, <1>21 DEF Writer
    <2>2. UNCHANGED <<file, unsynced>>
      BY <1>3
    <2>3. ASSUME NEW d \in Conns PROVE Whole(d)'
      BY <1>13, <1>19, <2>1, <2>2, WriterKept
    <2> QED
      BY <1>1, <1>7, <1>8, <1>10, <1>13, <2>3 DEF Inv, Moved, StepOf
  <1> QED
    BY <1>20, <1>21

\* The empty cache has no page.
LEMMA NoPages ==
    ASSUME NEW pages, pages = <<>>
    PROVE  DOMAIN pages = {}
  OBVIOUS

\* A page is restored that the journal counts, so a recovery finds what it
\* found before.
LEMMA PlayBackKeeps ==
    ASSUME Inv, NEW c \in Conns, PlayBack(c)
    PROVE  StepOf(c) /\ Recovered' = Recovered
  <1>1. Moved(c)
    BY Moves DEF PlayBack
  <1>2. /\ Types /\ JournalOK /\ Ahead /\ Whole(c) /\ pc[c] = "play back" /\ Len(Counted) = nRec
        /\ file \in [Pages -> Int]
    BY CountedPages DEF Inv, PlayBack, At, Types
  <1>3. /\ eState[c] \in {"OPEN", "DBMOD"} /\ lock[c] = EXCLUSIVE_LOCK
        /\ eState[c] = "DBMOD" => Undoing(c) /\ c \in reserved /\ linked
        /\ nRec = safeRec
    BY <1>2 DEF Whole, Locked, Aimed, Synced, Types, At, Writer, FileStages, JournalStages
  <1>4. UNCHANGED <<lock, reserved, dirty, vers, held, eState, goal, journal, tx>>
    BY DEF PlayBack, locks
  <1>5. /\ recs \in Seq(Record) /\ OncePerPage(recs) /\ nRec \in Nat /\ nRec <= Len(recs)
        /\ next[c] \in Nat /\ next[c] <= nRec
        /\ \A k \in 1 .. next[c] : file[recs[k].page] = recs[k].old
    <2>1. recs \in Seq(Record) /\ nRec \in Nat /\ nRec <= Len(recs)
      BY <1>2, Counts
    <2>2. OncePerPage(recs) /\ next[c] \in Nat
      BY <1>2 DEF JournalOK, Types
    <2>3. next[c] <= nRec /\ \A k \in 1 .. next[c] : file[recs[k].page] = recs[k].old
      BY <1>2 DEF Whole, Synced, At
    <2> QED
      BY <2>1, <2>2, <2>3
  <1>6. IsRecovery(Recovered, recs, nRec, file)
    BY <1>2, Recovery
  <1> USE DEF journal
  <1>7. CASE /\ next[c] < nRec
             /\ next' = [next EXCEPT ![c] = next[c] + 1]
             /\ PutPage(recs[next[c] + 1].page, recs[next[c] + 1].old)
             /\ IF eState[c] = "OPEN" THEN Cache(c, <<>>) ELSE UNCHANGED cache
             /\ UNCHANGED pc
    <2>1. PICK k \in 1 .. nRec : k = next[c] + 1
      BY <1>5, <1>7
    <2>2. PICK p, v : p = recs[k].page /\ v = recs[k].old
      OBVIOUS
    <2>3. k \in 1 .. Len(recs) /\ p \in Pages /\ v \in Int
      <3>1. k \in 1 .. Len(recs)
        BY <1>5
      <3>2. recs[k] \in Record
        BY <1>5, <3>1
      <3> QED
        BY <2>2, <3>1, <3>2 DEF Record
    <2>4. /\ file' = [file EXCEPT ![p] = v] /\ unsynced' = unsynced \cup {p} /\ disk' = disk
          /\ next' = [next EXCEPT ![c] = k] /\ pc' = pc
          /\ eState[c] = "OPEN" => cache' = [cache EXCEPT ![c] = <<>>]
          /\ eState[c] = "DBMOD" => cache' = cache
      BY <1>3, <1>7, <2>1, <2>2 DEF PutPage, Cache
    <2>5. file' \in [Pages -> Int] /\ file'[p] = v /\ \A q \in Pages \ {p} : file'[q] = file[q]
      BY <1>2, <2>3, <2>4
    <2>6. Types'
      <3>1. next' \in [Conns -> Nat] /\ DOMAIN cache' = Conns /\ unsynced' \subseteq Pages
        <4>1. next \in [Conns -> Nat] /\ DOMAIN cache = Conns /\ unsynced \subseteq Pages
          BY <1>2 DEF Types
        <4>2. k \in Nat
          OBVIOUS
        <4>3. next' \in [Conns -> Nat] /\ unsynced' \subseteq Pages
          BY <2>3, <2>4, <4>1, <4>2
        <4>4. DOMAIN cache' = Conns
          BY <1>3, <2>4, <4>1
        <4> QED
          BY <4>3, <4>4
      <3> QED
        BY <1>2, <1>4, <2>4, <2>5, <3>1 DEF Types
    <2>7. JournalOK'
      BY <1>2, <1>4 DEF JournalOK
    <2>8. Recovered' = Recovered
      <3>1. IsRecovery(Recovered, recs, nRec, file')
        <4>1. ASSUME NEW q \in Pages, \A l \in 1 .. nRec : recs[l].page # q
              PROVE  Recovered[q] = file'[q]
          <5>1. q # p
            BY <2>1, <2>2, <4>1
          <5> QED
            BY <1>6, <2>5, <4>1, <5>1 DEF IsRecovery
        <4> QED
          BY <1>6, <4>1 DEF IsRecovery
      <3> QED
        BY <1>4, <2>6, <2>7, <3>1, RecoveredNext
    <2>9. Ahead'
      <3>1. Journaled(p, safeRec)
        BY <1>3, <2>1, <2>2 DEF Journaled
      <3>2. linked
        <4>1. nRec > 0
          BY <1>5, <2>1
        <4> QED
          BY <1>2, <4>1 DEF JournalOK
      <3>3. ASSUME NEW q \in Pages, q \in unsynced' \/ file'[q] # Recovered[q]
            PROVE  linked /\ Journaled(q, safeRec)
        <4>1. CASE q = p
          BY <3>1, <3>2, <4>1
        <4>2. CASE q # p
          BY <1>2, <2>4, <2>5, <3>3, <4>2 DEF Ahead
        <4> QED
          BY <4>1, <4>2
      <3> QED
        BY <1>4, <2>8, <3>3 DEF Ahead, Journaled
    <2>10. \A d \in Conns \ {c} : Kept(d)
      BY <1>2, <1>3, <1>4, <2>4 DEF Kept, Types
    <2>11. /\ next'[c] = k /\ pc'[c] = "play back"
           /\ eState[c] = "OPEN" => cache'[c] = <<>>
           /\ eState[c] = "DBMOD" => cache'[c] = cache[c]
      BY <1>2, <2>4 DEF Types
    <2>12. CacheType(cache[c])'
      <3>1. CASE eState[c] = "OPEN"
        <4>1. DOMAIN cache'[c] = {}
          <5>1. cache'[c] = <<>>
            BY <2>11, <3>1
          <5> QED
            BY <5>1, NoPages
        <4> QED
          BY <4>1 DEF CacheType
      <3>2. CASE eState[c] = "DBMOD"
        BY <1>2, <2>11, <3>2 DEF Whole, CacheType
      <3> QED
        BY <1>3, <3>1, <3>2
    <2>13. Locked(c)' /\ Aimed(c)'
      BY <1>2, <1>3, <1>4, <2>11 DEF Whole, Locked, Aimed, At, Writer, Undoing, ReadStages, FileStages,
         JournalStages
    <2>14. Reads(c)' /\ Changes(c)'
      BY <1>3, <1>4, <2>11 DEF Reads, Changes, Undoing, At
    <2>15. Synced(c)'
      <3>1. \A l \in 1 .. k : file'[recs[l].page] = recs[l].old
        <4>1. ASSUME NEW l \in 1 .. k, l # k
              PROVE  file'[recs[l].page] = recs[l].old
          <5>1. l \in 1 .. next[c] /\ l \in 1 .. Len(recs)
            BY <1>5, <2>1, <2>3, <4>1
          <5>2. recs[l] \in Record
            BY <1>5, <5>1
          <5>3. recs[l].page \in Pages /\ recs[l].page # p
            BY <1>5, <2>2, <2>3, <4>1, <5>1, <5>2 DEF Record, OncePerPage
          <5> QED
            BY <1>5, <2>5, <5>1, <5>3
        <4> QED
          BY <2>2, <2>5, <4>1
      <3>2. k <= nRec
        BY <1>5
      <3>3. eState[c] = "DBMOD" => there
        BY <1>2 DEF Whole, Synced, At
      <3> QED
        BY <1>3, <1>4, <2>11, <3>1, <3>2, <3>3 DEF Synced, At
    <2>16. Version(c)'
      <3>1. CASE eState[c] = "OPEN"
        <4>1. DOMAIN cache'[c] = {} /\ dirty'[c] = {} /\ ~Undoing(c)'
          <5>1. cache'[c] = <<>>
            BY <2>11, <3>1
          <5>2. dirty'[c] = {} /\ ~Undoing(c)'
            BY <1>2, <1>3, <1>4, <2>11, <3>1 DEF Whole, Version, Aimed, Undoing, Writer
          <5> QED
            BY <5>1, <5>2, NoPages
        <4> QED
          BY <1>4, <2>11, <3>1, <4>1 DEF Version, Undo, Undoing, Ending, At, JournalStages
      <3>2. CASE eState[c] = "DBMOD"
        BY <1>2, <1>3, <1>4, <2>8, <2>11, <3>2
           DEF Whole, Version, Fresh, Undo, Undoing, Ending, At, JournalStages
      <3> QED
        BY <1>3, <3>1, <3>2
    <2> QED
      BY <1>1, <1>3, <2>6, <2>7, <2>8, <2>9, <2>10, <2>12, <2>13, <2>14, <2>15, <2>16, AloneStep
         DEF Whole
  <1>8. CASE /\ next[c] = nRec
             /\ next' = [next EXCEPT ![c] = 0]
             /\ Goto(c, "sync file")
             /\ UNCHANGED <<cache, files>>
    <2>1. /\ next' = [next EXCEPT ![c] = 0]
          /\ pc' = [pc EXCEPT ![c] = "sync file"]
          /\ UNCHANGED <<cache, file, disk, unsynced>>
      BY <1>8 DEF Goto, files
    <2>2. Types'
      <3>1. "sync file" \in Stages
        BY DEF Stages, FileStages
      <3>2. pc' \in [Conns -> Stages] /\ next' \in [Conns -> Nat]
        BY <1>2, <2>1, <3>1 DEF Types
      <3> QED
        BY <1>2, <1>4, <2>1, <3>2 DEF Types
    <2>3. Recovered' = Recovered /\ (Clean' <=> Clean) /\ (AsRecovered' <=> AsRecovered)
      BY <1>4, <2>1, SameFiles
    <2>4. JournalOK' /\ Ahead'
      BY <1>2, <1>4, <2>1, <2>3 DEF JournalOK, Ahead, Journaled
    <2>5. AsRecovered
      <3>1. ASSUME NEW p \in Pages PROVE file[p] = Recovered[p]
        <4>1. CASE \E l \in 1 .. nRec : recs[l].page = p
          BY ZenonT(60), <1>5, <1>6, <1>8, <4>1 DEF IsRecovery
        <4>2. CASE \A l \in 1 .. nRec : recs[l].page # p
          BY <1>6, <4>2 DEF IsRecovery
        <4> QED
          BY <4>1, <4>2
      <3> QED
        BY <3>1 DEF AsRecovered
    <2>6. \A d \in Conns \ {c} : Kept(d)
      BY <1>2, <1>4, <2>1 DEF Kept, Types
    <2>7. next'[c] = 0 /\ pc'[c] = "sync file"
      BY <1>2, <2>1 DEF Types
    <2>8. CacheType(cache[c])' /\ Locked(c)' /\ Aimed(c)'
      BY <1>2, <1>3, <1>4, <2>1, <2>7 DEF Whole, CacheType, Locked, Aimed, At, Writer, Undoing, ReadStages,
         FileStages, JournalStages
    <2>9. Reads(c)' /\ Changes(c)'
      BY <1>3, <1>4, <2>3, <2>5, <2>7 DEF Reads, Changes, Undoing, At
    <2>10. Synced(c)'
      <3>1. eState[c] = "DBMOD" => there
        BY <1>2 DEF Whole, Synced, At
      <3> QED
        BY <1>3, <1>4, <2>7, <3>1 DEF Synced, At
    <2>11. Version(c)'
      BY <1>2, <1>3, <1>4, <2>1, <2>3, <2>7
         DEF Whole, Version, Fresh, Undo, Undoing, Ending, At, JournalStages
    <2> QED
      BY <1>1, <1>3, <2>2, <2>3, <2>4, <2>6, <2>8, <2>9, <2>10, <2>11, AloneStep DEF Whole
  <1> QED
    BY <1>2, <1>7, <1>8 DEF PlayBack, Goto

\* A page is written whose record is counted, durably.
LEMMA WritePageKeeps ==
    ASSUME Inv, NEW c \in Conns, WritePage(c)
    PROVE  StepOf(c) /\ Recovered' = Recovered
  <1>1. Moved(c)
    BY Moves DEF WritePage
  <1>2. /\ Types /\ JournalOK /\ Ahead /\ Whole(c) /\ pc[c] = "write pages" /\ eState[c] = "DBMOD"
        /\ file \in [Pages -> Int] /\ goal[c] \in Goals /\ dirty[c] \subseteq Pages
    BY DEF Inv, WritePage, At, Types, Whole, Synced
  <1>3. /\ lock[c] = EXCLUSIVE_LOCK /\ ~Undoing(c) /\ linked /\ there /\ c \in reserved
        /\ nRec = safeRec /\ next[c] = 0
        /\ goal[c] = ToCommit => safeRec = Len(recs)
        /\ goal[c] # ToCommit => goal[c] \in dirty[c] /\ Journaled(goal[c], safeRec)
        /\ goal[c] # 1
    BY <1>2 DEF Whole, Locked, Aimed, Synced, At, Writer, FileStages
  <1>4. PICK p \in Pages :
           /\ p \in dirty[c] /\ (goal[c] # ToCommit => p = goal[c])
           /\ PutPage(p, cache[c][p])
           /\ dirty' = [dirty EXCEPT ![c] = @ \ {p}]
           /\ IF goal[c] = ToCommit
              THEN /\ vers' = [vers EXCEPT ![c] = IF p = 1 THEN cache[c][1] ELSE @]
                   /\ Goto(c, IF dirty[c] = {p} THEN "sync file" ELSE "write pages")
                   /\ UNCHANGED <<cache, goal>>
              ELSE /\ Cache(c, [q \in DOMAIN cache[c] \ {p} |-> cache[c][q]])
                   /\ EndCall(c)
                   /\ UNCHANGED vers
    <2>1. CASE goal[c] = ToCommit
      BY <1>2, <2>1 DEF WritePage
    <2>2. CASE goal[c] # ToCommit
      BY <1>2, <1>3, <2>2 DEF WritePage
    <2> QED
      BY <2>1, <2>2
  <1>5. UNCHANGED <<lock, reserved, held, eState, next, journal, tx>>
    BY DEF WritePage, locks
  <1>6. Journaled(p, safeRec)
    <2>1. Journaled(p, Len(recs))
      BY <1>2, <1>3, <1>4 DEF Whole, Changes, At
    <2> QED
      BY <1>3, <1>4, <2>1
  <1>7. PICK v \in Int : v = cache[c][p]
    BY <1>2, <1>4 DEF Whole, CacheType, Version
  <1>8. /\ file' = [file EXCEPT ![p] = v] /\ unsynced' = unsynced \cup {p} /\ disk' = disk
    BY <1>4, <1>7 DEF PutPage
  <1>9. file' \in [Pages -> Int] /\ file'[p] = v /\ \A q \in Pages \ {p} : file'[q] = file[q]
    BY <1>2, <1>4, <1>8
  <1>10. /\ DOMAIN cache = Conns /\ dirty \in [Conns -> SUBSET Pages] /\ vers \in [Conns -> Int]
         /\ pc \in [Conns -> Stages] /\ goal \in [Conns -> Goals] /\ unsynced \subseteq Pages
    BY <1>2 DEF Types
  <1>11. p = 1 => cache[c][1] \in Int
    BY <1>7
  <1>12. /\ vers' \in [Conns -> Int] /\ pc' \in [Conns -> Stages] /\ goal' \in [Conns -> Goals]
         /\ DOMAIN cache' = Conns
    <2>1. "sync file" \in Stages /\ "write pages" \in Stages /\ "idle" \in Stages
      BY DEF Stages, FileStages
    <2>2. CASE goal[c] = ToCommit
      BY <1>4, <1>10, <1>11, <2>1, <2>2 DEF Goto
    <2>3. CASE goal[c] # ToCommit
      BY <1>4, <1>10, <2>1, <2>3, GoalsDiffer DEF Goto, EndCall, Cache
    <2> QED
      BY <2>2, <2>3
  <1>13. dirty' \in [Conns -> SUBSET Pages] /\ unsynced' \subseteq Pages
    BY <1>4, <1>8, <1>10
  <1> USE DEF journal
  <1>14. Types'
    BY <1>2, <1>5, <1>8, <1>9, <1>12, <1>13 DEF Types
  <1>15. JournalOK'
    BY <1>2, <1>5 DEF JournalOK
  <1>16. Recovered' = Recovered
    <2>1. IsRecovery(Recovered, recs, nRec, file)
      BY <1>2, Recovery
    <2>2. ASSUME NEW q \in Pages, \A l \in 1 .. nRec : recs[l].page # q
          PROVE  Recovered[q] = file'[q]
      <3>1. q # p
        BY <1>3, <1>6, <2>2 DEF Journaled
      <3> QED
        BY <1>9, <2>1, <2>2, <3>1 DEF IsRecovery
    <2>3. IsRecovery(Recovered, recs, nRec, file')
      BY <2>1, <2>2 DEF IsRecovery
    <2> QED
      BY <1>5, <1>14, <1>15, <2>3, RecoveredNext
  <1>17. Ahead'
    <2>1. ASSUME NEW q \in Pages, q \in unsynced' \/ file'[q] # Recovered[q]
          PROVE  linked /\ Journaled(q, safeRec)
      <3>1. CASE q = p
        BY <1>3, <1>6, <3>1
      <3>2. CASE q # p
        BY <1>2, <1>8, <1>9, <2>1, <3>2 DEF Ahead
      <3> QED
        BY <3>1, <3>2
    <2> QED
      BY <1>5, <1>16, <2>1 DEF Ahead, Journaled
  <1>18. \A d \in Conns \ {c} : Kept(d)
    <2>1. CASE goal[c] = ToCommit
      BY <1>4, <1>5, <1>10, <2>1 DEF Kept, Goto
    <2>2. CASE goal[c] # ToCommit
      BY <1>4, <1>5, <1>10, <2>2 DEF Kept, Goto, EndCall, Cache
    <2> QED
      BY <2>1, <2>2
  <1>19. dirty'[c] = dirty[c] \ {p}
    BY <1>4, <1>10
  <1>20. \/ /\ goal[c] = ToCommit /\ goal'[c] = ToCommit /\ cache'[c] = cache[c]
            /\ vers'[c] = IF p = 1 THEN cache[c][1] ELSE vers[c]
            /\ \/ pc'[c] = "sync file" /\ dirty'[c] = {}
               \/ pc'[c] = "write pages"
         \/ /\ goal[c] # ToCommit /\ goal'[c] = ToCommit /\ pc'[c] = "idle" /\ p # 1
            /\ vers'[c] = vers[c]
            /\ cache'[c] = [q \in DOMAIN cache[c] \ {p} |-> cache[c][q]]
    <2>1. CASE goal[c] = ToCommit
      BY <1>4, <1>10, <1>19, <2>1 DEF Goto
    <2>2. CASE goal[c] # ToCommit
      BY <1>3, <1>4, <1>10, <2>2 DEF Goto, EndCall, Cache
    <2> QED
      BY <2>1, <2>2
  <1>21. /\ DOMAIN cache'[c] = IF goal[c] = ToCommit THEN DOMAIN cache[c] ELSE DOMAIN cache[c] \ {p}
         /\ \A q \in DOMAIN cache'[c] : cache'[c][q] = cache[c][q]
    BY <1>20
  <1>22. DOMAIN cache[c] \subseteq Pages /\ CacheType(cache[c])
         /\ \A q \in DOMAIN cache[c] \ dirty[c] : cache[c][q] = file[q]
    BY <1>2, <1>3 DEF Whole, CacheType, Changes, At
  <1>23. \A q \in DOMAIN cache'[c] \ dirty'[c] : cache'[c][q] = file'[q]
    <2>1. ASSUME NEW q \in DOMAIN cache'[c] \ dirty'[c]
          PROVE  cache'[c][q] = file'[q]
      <3>1. q \in DOMAIN cache[c] /\ q \in Pages
        BY <1>21, <1>22
      <3>2. CASE q = p
        BY <1>7, <1>9, <1>21, <3>2
      <3>3. CASE q # p
        BY <1>9, <1>19, <1>21, <1>22, <3>1, <3>3
      <3> QED
        BY <3>2, <3>3
    <2> QED
      BY <2>1
  <1>24. CacheType(cache[c])'
    BY <1>21, <1>22 DEF CacheType
  <1>25. ~Undoing(c)' /\ pc'[c] \in {"idle", "sync file", "write pages"}
    BY <1>20, GoalsDiffer DEF Undoing
  <1>26. Locked(c)'
    BY <1>2, <1>3, <1>5, <1>25, LevelsDiffer DEF Locked, At, Writer, ReadStages, FileStages, JournalStages
  <1>27. Aimed(c)'
    BY <1>2, <1>5, <1>20, <1>25, GoalsDiffer DEF Aimed, At, Writer, FileStages, JournalStages
  <1>28. Reads(c)'
    BY <1>2, <1>5, <1>25 DEF Reads, Undo, At
  <1>29. Changes(c)'
    <2>1. \A k \in 1 .. Len(recs) : k > safeRec => file'[recs[k].page] = recs[k].old
      <3>1. ASSUME NEW k \in 1 .. Len(recs), k > safeRec
            PROVE  file'[recs[k].page] = recs[k].old
        <4>1. PICK l \in 1 .. safeRec : recs[l].page = p
          BY <1>6 DEF Journaled
        <4>2. /\ safeRec \in Nat /\ Len(recs) \in Nat /\ safeRec <= Len(recs) /\ recs \in Seq(Record)
          BY <1>2, Counts
        <4>3. l \in 1 .. Len(recs) /\ l # k
          BY <3>1, <4>2
        <4>4. recs[k].page # p
          BY <1>2, <4>1, <4>3 DEF JournalOK, OncePerPage
        <4>5. recs[k] \in Record
          BY <4>2
        <4>6. recs[k].page \in Pages
          BY <4>5 DEF Record
        <4>7. file[recs[k].page] = recs[k].old
          BY <1>2, <1>3, <3>1 DEF Whole, Changes, At
        <4> QED
          BY <1>9, <4>4, <4>6, <4>7
      <3> QED
        BY <3>1
    <2>2. \A q \in dirty'[c] : Journaled(q, Len(recs))
      BY <1>2, <1>3, <1>19 DEF Whole, Changes, At
    <2> QED
      BY <1>5, <1>23, <2>1, <2>2 DEF Changes, Journaled
  <1>30. Synced(c)'
    BY <1>2, <1>3, <1>5, <1>20, <1>25 DEF Synced, At
  <1>31. goal[c] = ToCommit /\ 1 \notin dirty'[c] =>
             vers'[c] = file'[1] /\ file'[1] = Recovered[1] + 1
    <2>1. ASSUME goal[c] = ToCommit, 1 \notin dirty'[c]
          PROVE  vers'[c] = file'[1] /\ file'[1] = Recovered[1] + 1
      <3>1. IF 1 \in dirty[c] THEN cache[c][1] = Recovered[1] + 1
            ELSE file[1] = Recovered[1] + 1 /\ vers[c] = file[1]
        BY <1>2, <2>1 DEF Whole, Version, At
      <3>2. CASE p = 1
        BY <1>4, <1>7, <1>9, <1>20, <2>1, <3>1, <3>2
      <3>3. CASE p # 1
        BY <1>9, <1>19, <1>20, <2>1, <3>1, <3>3, GoalsDiffer
      <3> QED
        BY <3>2, <3>3
    <2> QED
      BY <2>1
  <1>32. Version(c)'
    <2>1. /\ Version(c) /\ 1 \in DOMAIN cache[c] /\ dirty[c] \subseteq DOMAIN cache[c]
          /\ (~held[c] => DOMAIN cache[c] = {})
          /\ (vers[c] = Recovered[1] \/ 1 \notin dirty[c])
          /\ (goal[c] # ToCommit => vers[c] = Recovered[1])
          /\ (goal[c] = ToCommit /\ 1 \in dirty[c] => cache[c][1] = Recovered[1] + 1)
      BY <1>2 DEF Whole, Version, Ending, At
    <2>2. /\ (~held'[c] => DOMAIN cache'[c] = {}) /\ 1 \in DOMAIN cache'[c]
          /\ dirty'[c] \subseteq DOMAIN cache'[c]
      BY <1>5, <1>19, <1>20, <1>21, <2>1
    <2>3. CASE pc'[c] = "sync file"
      <3>1. goal[c] = ToCommit /\ dirty'[c] = {}
        BY <1>20, <2>3
      <3>2. Fresh(c, file)'
        BY <1>23, <3>1 DEF Fresh
      <3> QED
        BY <1>2, <1>5, <1>16, <1>25, <1>31, <2>2, <2>3, <3>1, <3>2
           DEF Version, Undo, Ending, At, JournalStages
    <2>4. CASE pc'[c] = "write pages"
      <3>1. goal[c] = ToCommit /\ goal'[c] = ToCommit /\ cache'[c] = cache[c]
        BY <1>20, <2>4
      <3>2. CASE 1 \in dirty'[c]
        <4>1. 1 \in dirty[c] /\ vers'[c] = vers[c]
          BY <1>19, <1>20, <3>1, <3>2
        <4> QED
          BY <1>2, <1>5, <1>16, <1>25, <2>1, <2>2, <2>4, <3>1, <3>2, <4>1
             DEF Version, Undo, Ending, At, JournalStages
      <3>3. CASE 1 \notin dirty'[c]
        BY <1>2, <1>5, <1>16, <1>25, <1>31, <2>2, <2>4, <3>1, <3>3
           DEF Version, Undo, Ending, At, JournalStages
      <3> QED
        BY <3>2, <3>3
    <2>5. CASE pc'[c] = "idle"
      <3>1. goal[c] # ToCommit /\ vers'[c] = vers[c]
        BY <1>20, <2>5
      <3> QED
        BY <1>2, <1>5, <1>16, <1>25, <2>1, <2>2, <2>5, <3>1
           DEF Version, Undo, Ending, At, JournalStages
    <2> QED
      BY <1>25, <2>3, <2>4, <2>5
  <1> QED
    BY <1>1, <1>3, <1>14, <1>15, <1>16, <1>17, <1>18, <1>24, <1>26, <1>27, <1>28, <1>29, <1>30, <1>32,
       AloneStep DEF Whole

-----------------------------------------------------------------------------
(* The steps that change pages in memory.                                  *)

Added(q, p, v) == IF p \in PagesOf(q) THEN q ELSE Append(q, [page |-> p, old |-> v])

\* The records r are those of q, and one of p if there was none.
Extends(r, q, p, v) ==
    /\ r \in Seq(Record) /\ OncePerPage(r) /\ Len(q) <= Len(r)
    /\ \A k \in 1 .. Len(q) : r[k] = q[k]
    /\ \E k \in 1 .. Len(r) : r[k].page = p
    /\ \A k \in 1 .. Len(r) :
           \/ k \in 1 .. Len(q)
           \/ r[k].page = p /\ r[k].old = v /\ \A l \in 1 .. Len(q) : q[l].page # p

\* A page gets a record unless it has one.
LEMMA AddRecord ==
    ASSUME NEW q \in Seq(Record), OncePerPage(q), NEW p \in Pages, NEW v \in Int
    PROVE  Extends(Added(q, p, v), q, p, v)
  <1> DEFINE r == Added(q, p, v)
  <1>1. DOMAIN q = 1 .. Len(q) /\ Len(q) \in Nat
    OBVIOUS
  <1>2. CASE p \in PagesOf(q)
    <2>1. \E k \in 1 .. Len(q) : q[k].page = p
      BY <1>1, <1>2 DEF PagesOf
    <2>2. r = q
      BY <1>2 DEF Added
    <2> HIDE DEF r
    <2>3. Extends(r, q, p, v)
      BY <1>1, <2>1, <2>2 DEF Extends
    <2> QED
      BY <2>3 DEF r
  <1>3. CASE p \notin PagesOf(q)
    <2> DEFINE e == [page |-> p, old |-> v]
    <2>1. e \in Record /\ e.page = p /\ e.old = v
      BY DEF Record
    <2>2. r = Append(q, e)
      BY <1>3 DEF Added
    <2> HIDE DEF e, r
    <2>3. /\ r \in Seq(Record) /\ Len(r) = Len(q) + 1 /\ r[Len(q) + 1] = e
          /\ \A k \in 1 .. Len(q) : r[k] = q[k]
      BY <2>1, <2>2
    <2>4. \A l \in 1 .. Len(q) : q[l].page # p
      BY <1>1, <1>3 DEF PagesOf
    <2>5. OncePerPage(r)
      BY <1>1, <2>1, <2>3, <2>4 DEF OncePerPage
    <2>6. Extends(r, q, p, v)
      BY <1>1, <2>1, <2>3, <2>4, <2>5 DEF Extends
    <2> QED
      BY <2>6 DEF r
  <1> QED
    BY <1>2, <1>3

\* The first change of a transaction opens its journal.
LEMMA WriteFirst ==
    ASSUME Inv, NEW c \in Conns, NEW p \in Pages, Write(c, p), eState[c] = "LOCKED"
    PROVE  StepOf(c) /\ Recovered' = Recovered
  <1>1. Moved(c)
    BY Moves DEF Write
  <1>2. /\ Types /\ JournalOK /\ Ahead /\ Whole(c) /\ pc[c] = "idle" /\ p \in DOMAIN cache[c] /\ p # 1
        /\ file \in [Pages -> Int] /\ tx \in Nat
    BY DEF Inv, Write, At, Types
  <1>3. PICK v : v = cache[c][p]
    OBVIOUS
  <1>4. /\ there' = TRUE /\ nRec' = 0 /\ safe' = 0 /\ safeRec' = 0 /\ linked' = (there /\ linked)
        /\ eState' = [eState EXCEPT ![c] = "CACHEMOD"]
        /\ cache' = [cache EXCEPT ![c] = [cache[c] EXCEPT ![p] = tx]]
        /\ dirty' = [dirty EXCEPT ![c] = dirty[c] \cup {p}]
        /\ UNCHANGED <<lock, reserved, vers, held, pc, goal, next, file, disk, unsynced, undead, tx>>
    BY DEF Write, OpenJournal, Become, Cache, locks, files
  <1>5. recs' = IF p \in PagesOf(<<>>) THEN <<>> ELSE Append(<<>>, [page |-> p, old |-> v])
    BY <1>3 DEF Write, AddToJournal
  <1>6. /\ c \in reserved /\ lock[c] = RESERVED_LOCK /\ Clean /\ dirty[c] = {} /\ 1 \in DOMAIN cache[c]
        /\ vers[c] = Recovered[1] /\ Fresh(c, Recovered) /\ ~Undoing(c) /\ goal[c] = ToCommit
        /\ next[c] = 0 /\ (~held[c] => DOMAIN cache[c] = {})
    <2>1. ~Undoing(c) /\ goal[c] \notin Pages /\ goal[c] \in Goals
      BY <1>2 DEF Whole, Aimed, Types, FileStages, JournalStages
    <2>2. goal[c] = ToCommit
      BY <2>1, GoalsDiffer DEF Undoing
    <2> QED
      BY <1>2, <2>1, <2>2 DEF Whole, Locked, Reads, Synced, Version, At, Writer
  <1>7. DOMAIN cache[c] \subseteq Pages /\ CacheType(cache[c]) /\ v \in Int
    BY <1>2, <1>3 DEF Whole, CacheType
  <1>8. \A q \in Pages : file[q] = Recovered[q]
    BY <1>6 DEF Clean, AsRecovered
  <1>9. v = file[p]
    BY <1>2, <1>3, <1>6, <1>8 DEF Fresh
  <1>10. /\ recs' \in Seq(Record) /\ OncePerPage(recs')
         /\ \A k \in 1 .. Len(recs') : recs'[k].page = p /\ recs'[k].old = v
         /\ \E k \in 1 .. Len(recs') : recs'[k].page = p
    <2>1. <<>> \in Seq(Record) /\ OncePerPage(<<>>) /\ 1 .. Len(<<>>) = {}
      BY DEF OncePerPage
    <2>2. recs' = Added(<<>>, p, v)
      BY <1>5 DEF Added
    <2>3. Extends(recs', <<>>, p, v)
      BY <1>2, <1>7, <2>1, <2>2, AddRecord
    <2> QED
      BY <2>1, <2>3 DEF Extends
  <1>11. Types'
    <2>1. DOMAIN cache = Conns /\ dirty \in [Conns -> SUBSET Pages]
          /\ eState \in [Conns -> {"OPEN", "READER", "LOCKED", "CACHEMOD", "DBMOD"}]
          /\ there \in BOOLEAN /\ linked \in BOOLEAN
      BY <1>2 DEF Types
    <2>2. DOMAIN cache' = Conns /\ dirty' \in [Conns -> SUBSET Pages]
          /\ eState' \in [Conns -> {"OPEN", "READER", "LOCKED", "CACHEMOD", "DBMOD"}]
          /\ there' \in BOOLEAN
      BY <1>2, <1>4, <2>1
    <2>3. linked' \in BOOLEAN
      BY <1>4, <2>1
    <2>4. nRec' \in Nat /\ safe' \in Nat /\ safeRec' \in Nat
      BY <1>4
    <2> QED
      BY <1>2, <1>4, <1>10, <2>2, <2>3, <2>4 DEF Types
  <1>12. JournalOK'
    <2>1. Len(recs') \in Nat
      BY <1>10
    <2>2. safeRec' <= nRec' /\ nRec' <= safe' /\ safe' <= Len(recs') /\ ~(nRec' > 0)
      BY <1>4, <2>1
    <2>3. OncePerPage(undead)
      BY <1>2 DEF JournalOK
    <2> QED
      BY <1>4, <1>10, <2>2, <2>3 DEF JournalOK
  <1>13. Recovered' = Recovered
    <2>1. IsRecovery(file, recs', nRec', file')
      BY <1>2, <1>4, NothingCounted
    <2>2. Recovered' = file
      BY <1>11, <1>12, <2>1, RecoveredNext
    <2>3. Recovered \in [Pages -> Int]
      BY <1>2, RecoveredType
    <2>4. file = Recovered
      BY <1>2, <1>8, <2>3
    <2> QED
      BY <2>2, <2>4
  <1>14. Clean' /\ AsRecovered' /\ Ahead'
    BY <1>4, <1>6, <1>8, <1>13 DEF Clean, AsRecovered, Ahead
  <1>15. \A d \in Conns \ {c} : Kept(d)
    BY <1>2, <1>4 DEF Kept, Types
  <1>16. eState'[c] = "CACHEMOD" /\ dirty'[c] = {p} /\ cache'[c] = [cache[c] EXCEPT ![p] = tx]
    BY <1>2, <1>4, <1>6 DEF Types
  <1>17. /\ DOMAIN cache'[c] = DOMAIN cache[c] /\ cache'[c][p] = tx
         /\ \A q \in DOMAIN cache[c] \ {p} : cache'[c][q] = cache[c][q]
    BY <1>2, <1>16
  <1>18. CacheType(cache[c])'
    BY <1>2, <1>7, <1>17 DEF CacheType
  <1>19. Locked(c)'
    BY <1>2, <1>4, <1>6, <1>16, LevelsDiffer DEF Locked, At, Writer, ReadStages, FileStages, JournalStages
  <1>20. Aimed(c)' /\ Reads(c)'
    BY <1>2, <1>4, <1>6, <1>14, <1>16, GoalsDiffer DEF Aimed, Reads, Undo, Undoing, At, Writer
  <1>21. Synced(c)'
    BY <1>2, <1>4, <1>6, <1>16 DEF Synced, At
  <1>22. Changes(c)'
    <2>1. \A k \in 1 .. Len(recs') : file'[recs'[k].page] = recs'[k].old
      BY <1>4, <1>9, <1>10
    <2>2. \A q \in DOMAIN cache'[c] \ dirty'[c] : cache'[c][q] = file'[q]
      BY <1>4, <1>6, <1>7, <1>8, <1>16, <1>17 DEF Fresh
    <2>3. \A q \in dirty'[c] : Journaled(q, Len(recs))'
      BY <1>10, <1>16 DEF Journaled
    <2> QED
      BY <2>1, <2>2, <2>3 DEF Changes
  <1>23. Version(c)'
    BY <1>2, <1>4, <1>6, <1>13, <1>16, <1>17 DEF Version, Undo, Undoing, Ending, At, JournalStages
  <1>24. Whole(c)'
    BY <1>18, <1>19, <1>20, <1>21, <1>22, <1>23 DEF Whole
  <1>25. ASSUME NEW d \in Conns PROVE Whole(d)'
    <2>1. Writer(c) /\ UNCHANGED <<file, unsynced>>
      BY <1>4 DEF Writer
    <2> QED
      BY <1>13, <1>15, <1>24, <2>1, WriterKept
  <1> QED
    BY <1>1, <1>11, <1>12, <1>13, <1>14, <1>15, <1>25 DEF Inv, Moved, StepOf

\* A change of a page that has a record, or gets one.
LEMMA ChangePage ==
    ASSUME Inv, NEW c \in Conns, NEW p \in DOMAIN cache[c], NEW w \in Int,
           pc[c] = "idle", eState[c] \in {"CACHEMOD", "DBMOD"},
           AddToJournal(c, p),
           cache' = [cache EXCEPT ![c] = [cache[c] EXCEPT ![p] = w]],
           dirty' = [dirty EXCEPT ![c] = dirty[c] \cup {p}],
           UNCHANGED <<lock, reserved, vers, held, eState, next, file, disk, unsynced, there,
                       nRec, safe, safeRec, linked, undead, tx>>,
           pc' \in [Conns -> Stages], goal' \in [Conns -> Goals],
           \A d \in Conns \ {c} : pc'[d] = pc[d] /\ goal'[d] = goal[d],
           goal'[c] = ToCommit,
           \/ pc'[c] = "idle" /\ p # 1
           \/ pc'[c] = "lock" /\ p = 1 /\ w = vers[c] + 1
    PROVE  StepOf(c) /\ Recovered' = Recovered
  <1>1. Moved(c)
    BY Moves DEF locks
  <1>2. /\ Types /\ JournalOK /\ Ahead /\ Whole(c) /\ file \in [Pages -> Int]
    BY DEF Inv, Types
  <1>3. /\ c \in reserved /\ ~Undoing(c) /\ dirty[c] \subseteq DOMAIN cache[c] /\ 1 \in DOMAIN cache[c]
        /\ vers[c] = Recovered[1] /\ next[c] = 0 /\ (~held[c] => DOMAIN cache[c] = {}) /\ there
        /\ (eState[c] = "DBMOD" => linked /\ nRec = safeRec)
        /\ \A k \in 1 .. Len(recs) : k > safeRec => file[recs[k].page] = recs[k].old
        /\ \A q \in dirty[c] : Journaled(q, Len(recs))
        /\ \A q \in DOMAIN cache[c] \ dirty[c] : cache[c][q] = file[q]
    <2>1. c \in reserved /\ ~Undoing(c)
      BY <1>2 DEF Whole, Locked, Aimed, Writer, FileStages
    <2>2. dirty[c] \subseteq DOMAIN cache[c] /\ 1 \in DOMAIN cache[c]
          /\ vers[c] = Recovered[1] /\ (~held[c] => DOMAIN cache[c] = {})
      BY <1>2 DEF Whole, Version, Ending, At
    <2>3. next[c] = 0 /\ there /\ (eState[c] = "DBMOD" => linked /\ nRec = safeRec)
      BY <1>2 DEF Whole, Synced, At
    <2>4. /\ \A k \in 1 .. Len(recs) : k > safeRec => file[recs[k].page] = recs[k].old
          /\ \A q \in dirty[c] : Journaled(q, Len(recs))
          /\ \A q \in DOMAIN cache[c] \ dirty[c] : cache[c][q] = file[q]
      BY <1>2, <2>1 DEF Whole, Changes, At
    <2> QED
      BY <2>1, <2>2, <2>3, <2>4
  <1>4. DOMAIN cache[c] \subseteq Pages /\ CacheType(cache[c]) /\ cache[c][p] \in Int /\ p \in Pages
    BY <1>2 DEF Whole, CacheType
  <1>5. PICK v \in Int : v = cache[c][p]
    BY <1>4
  <1>6. recs' = IF p \in PagesOf(recs) THEN recs ELSE Append(recs, [page |-> p, old |-> v])
    BY <1>5 DEF AddToJournal
  <1>7. recs \in Seq(Record) /\ OncePerPage(recs) /\ Len(recs) \in Nat /\ nRec \in Nat /\ safeRec \in Nat
        /\ nRec <= Len(recs) /\ safeRec <= Len(recs) /\ safe \in Nat /\ safe <= Len(recs)
    <2>1. OncePerPage(recs)
      BY <1>2 DEF JournalOK
    <2> QED
      BY <1>2, <2>1, Counts
  <1>8. /\ recs' \in Seq(Record) /\ OncePerPage(recs') /\ Len(recs) <= Len(recs') /\ Len(recs') \in Nat
        /\ \A k \in 1 .. Len(recs) : recs'[k] = recs[k]
        /\ \E k \in 1 .. Len(recs') : recs'[k].page = p
        /\ \A k \in 1 .. Len(recs') :
               \/ k \in 1 .. Len(recs)
               \/ recs'[k].page = p /\ recs'[k].old = v /\ \A l \in 1 .. Len(recs) : recs[l].page # p
    <2>1. /\ recs' \in Seq(Record) /\ OncePerPage(recs') /\ Len(recs) <= Len(recs')
          /\ \A k \in 1 .. Len(recs) : recs'[k] = recs[k]
          /\ \E k \in 1 .. Len(recs') : recs'[k].page = p
          /\ \A k \in 1 .. Len(recs') :
                 \/ k \in 1 .. Len(recs)
                 \/ recs'[k].page = p /\ recs'[k].old = v /\ \A l \in 1 .. Len(recs) : recs[l].page # p
      <3>1. recs' = Added(recs, p, v)
        BY <1>6 DEF Added
      <3>2. Extends(recs', recs, p, v)
        BY <1>4, <1>7, <3>1, AddRecord
      <3> QED
        BY <3>2 DEF Extends
    <2>2. Len(recs') \in Nat
      BY <2>1
    <2> QED
      BY <2>1, <2>2
  <1>9. ASSUME NEW q, NEW n \in Nat, n <= Len(recs)
        PROVE  /\ \A k \in 1 .. n : recs'[k] = recs[k]
               /\ (\E k \in 1 .. n : recs'[k].page = q) <=> (\E k \in 1 .. n : recs[k].page = q)
    <2>1. \A k \in 1 .. n : k \in 1 .. Len(recs)
      BY <1>7, <1>9
    <2> QED
      BY <1>8, <2>1
  <1>10. Types'
    <2>1. DOMAIN cache = Conns /\ dirty \in [Conns -> SUBSET Pages]
      BY <1>2 DEF Types
    <2>2. DOMAIN cache' = Conns /\ dirty' \in [Conns -> SUBSET Pages]
      BY <1>4, <2>1
    <2> QED
      BY <1>2, <1>8, <2>2 DEF Types
  <1>11. JournalOK'
    <2>1. safe <= Len(recs')
      BY <1>7, <1>8
    <2> QED
      BY <1>2, <1>8, <2>1 DEF JournalOK
  <1>12. Recovered' = Recovered
    <2>1. IsRecovery(Recovered, recs, nRec, file)
      BY <1>2, Recovery
    <2>2. \A k \in 1 .. nRec : recs'[k] = recs[k]
      BY <1>7, <1>9
    <2>3. IsRecovery(Recovered, recs', nRec, file)
      BY <2>1, <2>2 DEF IsRecovery
    <2> QED
      BY <1>10, <1>11, <2>3, RecoveredNext
  <1>13. Ahead'
    <2>1. \A q \in Pages : Journaled(q, safeRec) => Journaled(q, safeRec)'
      BY <1>7, <1>9 DEF Journaled
    <2> QED
      BY <1>2, <1>12, <2>1 DEF Ahead
  <1>14. (Clean' <=> Clean) /\ (AsRecovered' <=> AsRecovered)
    BY <1>12 DEF Clean, AsRecovered
  <1>15. \A d \in Conns \ {c} : Kept(d)
    BY <1>2 DEF Kept, Types
  <1>16. dirty'[c] = dirty[c] \cup {p} /\ cache'[c] = [cache[c] EXCEPT ![p] = w]
    BY <1>2 DEF Types
  <1>17. /\ DOMAIN cache'[c] = DOMAIN cache[c] /\ cache'[c][p] = w
         /\ \A q \in DOMAIN cache[c] \ {p} : cache'[c][q] = cache[c][q]
    BY <1>16
  <1>18. CacheType(cache[c])'
    BY <1>4, <1>17 DEF CacheType
  <1>19. Locked(c)'
    BY <1>2, <1>3 DEF Whole, Locked, At, Writer, ReadStages, FileStages, JournalStages
  <1>20. Aimed(c)' /\ ~Undoing(c)'
    BY GoalsDiffer DEF Aimed, Undoing, At, Writer
  <1>21. Reads(c)'
    BY <1>2, <1>14 DEF Whole, Reads, At
  <1>22. Synced(c)'
    BY <1>3 DEF Synced, At
  <1>23. Changes(c)'
    <2>1. ASSUME NEW k \in 1 .. Len(recs'), k > safeRec
          PROVE  file[recs'[k].page] = recs'[k].old
      <3>1. CASE k \in 1 .. Len(recs)
        BY <1>3, <1>8, <2>1, <3>1
      <3>2. CASE k \notin 1 .. Len(recs)
        <4>1. recs'[k].page = p /\ recs'[k].old = v /\ \A l \in 1 .. Len(recs) : recs[l].page # p
          BY <1>8, <3>2
        <4>2. p \notin dirty[c]
          BY <1>3, <4>1 DEF Journaled
        <4> QED
          BY <1>3, <1>5, <4>1, <4>2
      <3> QED
        BY <3>1, <3>2
    <2>2. ASSUME NEW q \in dirty'[c] PROVE \E k \in 1 .. Len(recs') : recs'[k].page = q
      <3>1. CASE q = p
        BY <1>8, <3>1
      <3>2. CASE q # p
        <4>1. PICK k \in 1 .. Len(recs) : recs[k].page = q
          BY <1>3, <1>16, <2>2, <3>2 DEF Journaled
        <4>2. k \in 1 .. Len(recs')
          BY <1>7, <1>8
        <4> QED
          BY <1>8, <4>1, <4>2
      <3> QED
        BY <3>1, <3>2
    <2>3. \A q \in DOMAIN cache'[c] \ dirty'[c] : cache'[c][q] = file[q]
      BY <1>3, <1>16, <1>17
    <2> QED
      BY <2>1, <2>2, <2>3 DEF Changes, Journaled
  <1>24. Version(c)'
    <2>1. CASE pc'[c] = "idle"
      BY <1>3, <1>12, <1>16, <1>17, <1>20, <2>1 DEF Version, Undo, Ending, At, JournalStages
    <2>2. CASE pc'[c] = "lock" /\ p = 1 /\ w = vers[c] + 1
      BY <1>3, <1>12, <1>16, <1>17, <1>20, <2>2 DEF Version, Undo, Ending, At, JournalStages
    <2> QED
      BY <2>1, <2>2
  <1>25. Whole(c)'
    BY <1>18, <1>19, <1>20, <1>21, <1>22, <1>23, <1>24 DEF Whole
  <1>26. ASSUME NEW d \in Conns PROVE Whole(d)'
    <2>1. Writer(c)
      BY DEF Writer
    <2> QED
      BY <1>12, <1>15, <1>25, <2>1, WriterKept
  <1> QED
    BY <1>1, <1>10, <1>11, <1>12, <1>13, <1>15, <1>26 DEF Inv, Moved, StepOf

\* A page is changed in memory, and its original journaled first.
LEMMA WriteKeeps ==
    ASSUME Inv, NEW c \in Conns, NEW p \in Pages, Write(c, p)
    PROVE  StepOf(c) /\ Recovered' = Recovered
  <1>1. CASE eState[c] = "LOCKED"
    BY <1>1, WriteFirst
  <1>2. CASE eState[c] # "LOCKED"
    <2>1. /\ pc[c] = "idle" /\ eState[c] \in {"CACHEMOD", "DBMOD"} /\ p \in DOMAIN cache[c] /\ p # 1
          /\ AddToJournal(c, p)
          /\ cache' = [cache EXCEPT ![c] = [cache[c] EXCEPT ![p] = tx]]
          /\ dirty' = [dirty EXCEPT ![c] = dirty[c] \cup {p}]
          /\ UNCHANGED <<lock, reserved, vers, held, eState, pc, goal, next, file, disk, unsynced,
                         there, nRec, safe, safeRec, linked, undead, tx>>
      BY <1>2 DEF Write, OpenJournal, At, Cache, locks, files
    <2>2. Types /\ Whole(c)
      BY DEF Inv
    <2>3. tx \in Int /\ pc \in [Conns -> Stages] /\ goal \in [Conns -> Goals]
      BY <2>2 DEF Types
    <2>4. ~Undoing(c) /\ goal[c] \notin Pages
      BY <2>1, <2>2 DEF Whole, Aimed, FileStages, JournalStages
    <2>5. goal[c] = ToCommit
      BY <2>3, <2>4, GoalsDiffer DEF Undoing
    <2> QED
      BY <2>1, <2>3, <2>5, ChangePage
  <1> QED
    BY <1>1, <1>2

\* A commit begins with the change counter, a page like any other.
LEMMA CommitKeeps ==
    ASSUME Inv, NEW c \in Conns, Commit(c)
    PROVE  StepOf(c) /\ Recovered' = Recovered
  <1>1. /\ pc[c] = "idle" /\ eState[c] \in {"CACHEMOD", "DBMOD"}
        /\ AddToJournal(c, 1)
        /\ cache' = [cache EXCEPT ![c] = [cache[c] EXCEPT ![1] = vers[c] + 1]]
        /\ dirty' = [dirty EXCEPT ![c] = dirty[c] \cup {1}]
        /\ goal' = [goal EXCEPT ![c] = ToCommit]
        /\ pc' = [pc EXCEPT ![c] = "lock"]
        /\ UNCHANGED <<lock, reserved, vers, held, eState, next, file, disk, unsynced,
                       there, nRec, safe, safeRec, linked, undead, tx>>
    BY DEF Commit, At, Goto, Cache, locks, files
  <1>2. Types /\ Whole(c)
    BY DEF Inv
  <1>3. vers \in [Conns -> Int] /\ pc \in [Conns -> Stages] /\ goal \in [Conns -> Goals]
    BY <1>2 DEF Types
  <1>4. "lock" \in Stages
    BY DEF Stages
  <1>5. 1 \in DOMAIN cache[c]
    BY <1>1, <1>2 DEF Whole, Version
  <1>6. PICK w \in Int : w = vers[c] + 1
    BY <1>3
  <1>7. /\ pc' \in [Conns -> Stages] /\ goal' \in [Conns -> Goals]
        /\ \A d \in Conns \ {c} : pc'[d] = pc[d] /\ goal'[d] = goal[d]
        /\ goal'[c] = ToCommit /\ pc'[c] = "lock"
    BY <1>1, <1>3, <1>4, GoalsDiffer
  <1> QED
    BY <1>1, <1>5, <1>6, <1>7, ChangePage

-----------------------------------------------------------------------------
(* Deaths and power losses.                                                *)

\* What Forget does: of the dead nothing is left, of the others everything.
LEMMA Forgotten ==
    ASSUME Types, NEW dead \in SUBSET Conns, Forget(dead)
    PROVE  /\ \A d \in dead :
                  /\ lock'[d] = NO_LOCK /\ d \notin reserved' /\ eState'[d] = "OPEN" /\ pc'[d] = "idle"
                  /\ goal'[d] = ToCommit /\ cache'[d] = <<>> /\ dirty'[d] = {} /\ held'[d] = FALSE
                  /\ next'[d] = 0
           /\ \A d \in Conns \ dead : Kept(d)
           /\ lock' \in [Conns -> Levels] /\ reserved' \subseteq Conns
           /\ eState' \in [Conns -> {"OPEN", "READER", "LOCKED", "CACHEMOD", "DBMOD"}]
           /\ pc' \in [Conns -> Stages] /\ goal' \in [Conns -> Goals]
           /\ dirty' \in [Conns -> SUBSET Pages] /\ vers' \in [Conns -> Int]
           /\ held' \in [Conns -> BOOLEAN] /\ next' \in [Conns -> Nat] /\ DOMAIN cache' = Conns
  <1>1. /\ lock \in [Conns -> Levels] /\ reserved \subseteq Conns
        /\ eState \in [Conns -> {"OPEN", "READER", "LOCKED", "CACHEMOD", "DBMOD"}]
        /\ pc \in [Conns -> Stages] /\ goal \in [Conns -> Goals]
        /\ dirty \in [Conns -> SUBSET Pages] /\ vers \in [Conns -> Int]
        /\ held \in [Conns -> BOOLEAN] /\ next \in [Conns -> Nat]
    BY DEF Types
  <1>2. /\ lock' = [c \in Conns |-> IF c \in dead THEN NO_LOCK ELSE lock[c]]
        /\ reserved' = reserved \ dead
    BY LevelNames DEF Forget, Locks!Die
  <1>3. /\ eState' = [c \in Conns |-> IF c \in dead THEN "OPEN" ELSE eState[c]]
        /\ pc' = [c \in Conns |-> IF c \in dead THEN "idle" ELSE pc[c]]
        /\ goal' = [c \in Conns |-> IF c \in dead THEN ToCommit ELSE goal[c]]
        /\ cache' = [c \in Conns |-> IF c \in dead THEN <<>> ELSE cache[c]]
        /\ dirty' = [c \in Conns |-> IF c \in dead THEN {} ELSE dirty[c]]
        /\ vers' = [c \in Conns |-> IF c \in dead THEN 0 ELSE vers[c]]
        /\ held' = [c \in Conns |-> held[c] /\ c \notin dead]
        /\ next' = [c \in Conns |-> IF c \in dead THEN 0 ELSE next[c]]
    BY DEF Forget
  <1>4. ASSUME NEW d \in dead
        PROVE  /\ lock'[d] = NO_LOCK /\ d \notin reserved' /\ eState'[d] = "OPEN" /\ pc'[d] = "idle"
               /\ goal'[d] = ToCommit /\ cache'[d] = <<>> /\ dirty'[d] = {} /\ held'[d] = FALSE
               /\ next'[d] = 0
    BY <1>2, <1>3
  <1>5. ASSUME NEW d \in Conns \ dead PROVE Kept(d)
    BY <1>1, <1>2, <1>3 DEF Kept
  <1>6. NO_LOCK \in Levels /\ "idle" \in Stages
    BY DEF Levels, Stages, NO_LOCK, EXCLUSIVE_LOCK
  <1>7. /\ lock' \in [Conns -> Levels] /\ reserved' \subseteq Conns
        /\ eState' \in [Conns -> {"OPEN", "READER", "LOCKED", "CACHEMOD", "DBMOD"}]
        /\ pc' \in [Conns -> Stages] /\ goal' \in [Conns -> Goals]
    BY <1>1, <1>2, <1>3, <1>6, GoalsDiffer
  <1>8. /\ dirty' \in [Conns -> SUBSET Pages] /\ vers' \in [Conns -> Int]
        /\ held' \in [Conns -> BOOLEAN] /\ next' \in [Conns -> Nat] /\ DOMAIN cache' = Conns
    BY <1>1, <1>3
  <1> QED
    BY <1>4, <1>5, <1>7, <1>8

\* The levels exclude each other whoever dies.
LEMMA DeathExcludes ==
    ASSUME Types, Locks!Exclusion, NEW dead \in SUBSET Conns, Forget(dead)
    PROVE  Locks!Exclusion'
  <1>1. lock \in [Conns -> Levels] /\ reserved \subseteq Conns
    BY DEF Types
  <1>2. /\ lock' = [c \in Conns |-> IF c \in dead THEN Locks!NO_LOCK ELSE lock[c]]
        /\ reserved' = reserved \ dead
    BY DEF Forget, Locks!Die
  <1> QED
    BY <1>1, <1>2 DEF Locks!Exclusion, Levels, NO_LOCK, EXCLUSIVE_LOCK, Locks!NO_LOCK,
       Locks!RESERVED_LOCK, Locks!PENDING_LOCK, Locks!EXCLUSIVE_LOCK

\* A death leaves the files as they are, for the others to recover.
LEMMA DieKeeps ==
    ASSUME Inv, NEW c \in Conns, Die(c)
    PROVE  Inv'
  <1>1. Forget({c}) /\ UNCHANGED <<file, disk, unsynced, there, recs, nRec, safe, safeRec, linked,
                                   undead, tx>>
    BY DEF Die, files, journal
  <1>2. Types /\ JournalOK /\ Ahead /\ Locks!Exclusion
    BY DEF Inv
  <1>3. Types'
    BY <1>1, <1>2, Forgotten DEF Types
  <1>4. JournalOK' /\ Ahead'
    BY <1>1, <1>2, SameFiles DEF JournalOK, Ahead, Journaled
  <1>5. Locks!Exclusion'
    BY <1>1, <1>2, DeathExcludes
  <1>6. ASSUME NEW d \in Conns PROVE Whole(d)'
    <2> PICK dead \in SUBSET Conns : dead = {c} /\ Forget(dead)
      BY <1>1
    <2>1. CASE d \in dead
      <3>1. /\ lock'[d] = NO_LOCK /\ d \notin reserved' /\ eState'[d] = "OPEN" /\ pc'[d] = "idle"
            /\ goal'[d] = ToCommit /\ cache'[d] = <<>> /\ dirty'[d] = {} /\ held'[d] = FALSE
            /\ next'[d] = 0
        BY <1>2, <2>1, Forgotten
      <3> QED
        BY <3>1, NewWhole
    <2>2. CASE d \notin dead
      <3>1. Kept(d) /\ Whole(d)
        BY <1>2, <2>2, Forgotten DEF Inv
      <3> QED
        BY <1>1, <3>1, KeptWhole
    <2> QED
      BY <2>1, <2>2
  <1> QED
    BY <1>3, <1>4, <1>5, <1>6 DEF Inv

\* After a power loss what is there is durable.
LEMMA PowerLossKeeps ==
    ASSUME Inv, PowerLoss
    PROVE  Inv'
  <1>1. Forget(Conns) /\ disk' = file' /\ unsynced' = {} /\ undead' = <<>> /\ tx' = tx
        /\ file' \in [Pages -> Contents]
    BY DEF PowerLoss
  <1>2. Types /\ JournalOK /\ Locks!Exclusion
    BY DEF Inv
  <1>3. file' \in [Pages -> Int]
    <2>1. \A x \in Contents : x \in Int
      BY DEF Contents
    <2> QED
      BY <1>1, <2>1
  <1>4. /\ recs \in Seq(Record) /\ Len(recs) \in Nat /\ nRec \in Nat /\ safe \in Nat /\ safeRec \in Nat
        /\ safeRec <= nRec /\ nRec <= safe /\ safe <= Len(recs)
    BY <1>2, Counts
  <1>5. OncePerPage(recs) /\ OncePerPage(undead) /\ undead \in Seq(Record)
    BY <1>2 DEF JournalOK, Types
  <1>6. /\ there' \in BOOLEAN /\ linked' \in BOOLEAN
        /\ recs' \in Seq(Record) /\ OncePerPage(recs')
        /\ nRec' \in Nat /\ safe' \in Nat /\ safeRec' \in Nat
        /\ safeRec' <= nRec' /\ nRec' <= safe' /\ safe' <= Len(recs')
        /\ safeRec' = nRec' /\ (~there' => nRec' = 0) /\ (nRec' > 0 => linked')
    <2>1. CASE JournalRemains
      <3>1. there' = TRUE /\ linked' = TRUE /\ nRec' \in {safeRec, nRec} /\ safeRec' = nRec'
        BY <2>1 DEF JournalRemains
      <3>2. PICK n \in safe .. Len(recs) : recs' = SubSeq(recs, 1, n) /\ safe' = n
        BY <2>1 DEF JournalRemains
      <3>3. n \in Nat /\ n <= Len(recs) /\ safe <= n
        BY <1>4, <3>2
      <3>4. recs' \in Seq(Record) /\ OncePerPage(recs')
        BY <1>4, <1>5, <3>2, <3>3, PrefixIs
      <3>5. Len(recs') = n
        BY <1>4, <3>2, <3>3
      <3>6. nRec' \in Nat /\ nRec' <= n
        BY <1>4, <3>1, <3>3
      <3> QED
        BY <3>1, <3>2, <3>3, <3>4, <3>5, <3>6
    <2>2. CASE OldJournalReturns
      <3>1. /\ there' = TRUE /\ linked' = TRUE /\ recs' = undead
            /\ nRec' = Len(undead) /\ safe' = Len(undead) /\ safeRec' = Len(undead)
        BY <2>2 DEF OldJournalReturns
      <3>2. Len(undead) \in Nat /\ Len(undead) <= Len(undead)
        BY <1>5
      <3> QED
        BY <1>5, <3>1, <3>2
    <2>3. CASE NoJournalRemains
      <3>1. /\ there' = FALSE /\ linked' = FALSE /\ recs' = <<>>
            /\ nRec' = 0 /\ safe' = 0 /\ safeRec' = 0
        BY <2>3 DEF NoJournalRemains
      <3>2. recs' \in Seq(Record) /\ Len(recs') = 0
        BY <3>1
      <3>3. OncePerPage(recs')
        BY <3>2 DEF OncePerPage
      <3>4. /\ nRec' \in Nat /\ safe' \in Nat /\ safeRec' \in Nat
            /\ safeRec' <= nRec' /\ nRec' <= safe' /\ safe' <= Len(recs') /\ ~(nRec' > 0)
        BY <3>1, <3>2
      <3> QED
        BY <3>1, <3>2, <3>3, <3>4
    <2> QED
      BY <2>1, <2>2, <2>3 DEF PowerLoss
  <1>7. undead' \in Seq(Record) /\ OncePerPage(undead')
    <2>1. undead' = <<>>
      BY <1>1
    <2> QED
      BY <2>1 DEF OncePerPage
  <1>8. Types'
    BY <1>1, <1>2, <1>3, <1>6, <1>7, Forgotten DEF Types
  <1>9. JournalOK'
    BY <1>6, <1>7 DEF JournalOK
  <1>10. Ahead'
    <2>1. PICK R : R = Recovered'
      OBVIOUS
    <2>2. IsRecovery(R, recs', nRec', file')
      <3>1. Recovered' = Restore(SubSeq(recs', 1, Least(nRec', Len(recs'))), file')
        BY DEF Recovered, Counted
      <3>2. nRec' <= Len(recs')
        <4>1. Len(recs') \in Nat
          BY <1>6
        <4> QED
          BY <1>6, <4>1
      <3> QED
        BY <1>3, <1>6, <2>1, <3>1, <3>2, RecoveryIs
    <2>3. ASSUME NEW p \in Pages, file'[p] # R[p]
          PROVE  linked' /\ \E k \in 1 .. safeRec' : recs'[k].page = p
      <3>1. PICK k \in 1 .. nRec' : recs'[k].page = p
        BY <2>2, <2>3 DEF IsRecovery
      <3>2. nRec' > 0
        BY <1>6, <3>1
      <3> QED
        BY <1>6, <3>1, <3>2
    <2> QED
      BY <1>1, <2>1, <2>3 DEF Ahead, Journaled
  <1>11. Locks!Exclusion'
    BY <1>1, <1>2, DeathExcludes
  <1>12. ASSUME NEW d \in Conns PROVE Whole(d)'
    <2>1. /\ lock'[d] = NO_LOCK /\ d \notin reserved' /\ eState'[d] = "OPEN" /\ pc'[d] = "idle"
          /\ goal'[d] = ToCommit /\ cache'[d] = <<>> /\ dirty'[d] = {} /\ held'[d] = FALSE
          /\ next'[d] = 0
      BY <1>1, <1>2, Forgotten
    <2> QED
      BY <2>1, NewWhole
  <1> QED
    BY <1>8, <1>9, <1>10, <1>11, <1>12 DEF Inv

-----------------------------------------------------------------------------
(* The theorems.                                                           *)

\* A new file: nobody knows anything, nothing is to be recovered.
LEMMA InvInit == Init => Inv
  <1> SUFFICES ASSUME Init PROVE Inv
    OBVIOUS
  <1>1. Types
    <2>1. lock = [c \in Conns |-> NO_LOCK] /\ reserved = {}
      BY LevelNames DEF Init, Locks!Init
    <2>2. NO_LOCK \in Levels /\ "idle" \in Stages
      BY DEF Levels, Stages, NO_LOCK, EXCLUSIVE_LOCK
    <2>3. lock \in [Conns -> Levels] /\ pc \in [Conns -> Stages] /\ goal \in [Conns -> Goals]
      BY <2>1, <2>2, GoalsDiffer DEF Init
    <2>4. /\ eState \in [Conns -> {"OPEN", "READER", "LOCKED", "CACHEMOD", "DBMOD"}]
          /\ dirty \in [Conns -> SUBSET Pages] /\ vers \in [Conns -> Int]
          /\ held \in [Conns -> BOOLEAN] /\ next \in [Conns -> Nat] /\ DOMAIN cache = Conns
      BY DEF Init
    <2>5. file \in [Pages -> Int] /\ disk \in [Pages -> Int]
      BY DEF Init
    <2>6. /\ recs = <<>> /\ undead = <<>>
          /\ nRec = 0 /\ safe = 0 /\ safeRec = 0 /\ tx = 0
          /\ unsynced = {} /\ there = FALSE /\ linked = FALSE
      BY DEF Init
    <2>7. recs \in Seq(Record) /\ undead \in Seq(Record)
      BY <2>6
    <2>8. nRec \in Nat /\ safe \in Nat /\ safeRec \in Nat /\ tx \in Nat
      BY <2>6
    <2> QED
      BY <2>1, <2>3, <2>4, <2>5, <2>6, <2>7, <2>8 DEF Types
  <1>2. /\ recs = <<>> /\ undead = <<>> /\ nRec = 0 /\ safe = 0 /\ safeRec = 0 /\ unsynced = {}
        /\ file \in [Pages -> Int]
    BY DEF Init
  <1>3. OncePerPage(<<>>) /\ Len(<<>>) = 0
    BY DEF OncePerPage
  <1>4. JournalOK
    BY <1>2, <1>3 DEF JournalOK
  <1>5. Recovered = file
    BY <1>1, <1>2, <1>4, Recovery, NothingCounted, OneRecovery
  <1>6. Ahead
    BY <1>2, <1>5 DEF Ahead
  <1>7. Locks!Exclusion
    BY DEF Init, Locks!Init, Locks!Exclusion, Locks!NO_LOCK, Locks!RESERVED_LOCK,
           Locks!PENDING_LOCK, Locks!EXCLUSIVE_LOCK
  <1>8. ASSUME NEW d \in Conns PROVE Whole(d)
    <2>1. /\ lock[d] = NO_LOCK /\ d \notin reserved /\ eState[d] = "OPEN" /\ pc[d] = "idle"
          /\ goal[d] = ToCommit /\ cache[d] = <<>> /\ dirty[d] = {} /\ held[d] = FALSE
          /\ next[d] = 0
      BY LevelNames DEF Init, Locks!Init
    <2>2. DOMAIN cache[d] = {}
      BY <2>1, NoPages
    <2>3. goal[d] # ToRollBack /\ goal[d] \notin Pages /\ goal[d] # 1
      BY <2>1, GoalsDiffer
    <2>4. CacheType(cache[d]) /\ Version(d)
      BY <2>1, <2>2, <2>3 DEF CacheType, Version, At, Undo, Undoing, Ending, JournalStages
    <2>5. Locked(d) /\ Aimed(d)
      BY <2>1, <2>3 DEF Locked, Aimed, At, Writer, Undoing, ReadStages, FileStages, JournalStages
    <2>6. Reads(d) /\ Changes(d) /\ Synced(d)
      BY <2>1 DEF Reads, Changes, Synced, At
    <2> QED
      BY <2>4, <2>5, <2>6 DEF Whole
  <1> QED
    BY <1>1, <1>4, <1>6, <1>7, <1>8 DEF Inv

\* Every step keeps the invariant.
LEMMA InvNext == Inv /\ [Next]_vars => Inv'
  <1> SUFFICES ASSUME Inv, [Next]_vars PROVE Inv'
    OBVIOUS
  <1>1. ASSUME NEW c \in Conns,
               \/ SharedLock(c) \/ JournalExists(c) \/ CheckReserved(c) \/ FirstByte(c)
               \/ HotLock(c) \/ LookAgain(c) \/ SyncHotJournal(c) \/ CheckCounter(c)
               \/ Unlock(c) \/ Begin(c) \/ CommitUnchanged(c) \/ Commit(c)
        PROVE  Inv'
    BY <1>1, SharedLockKeeps, JournalExistsKeeps, CheckReservedKeeps, FirstByteKeeps, HotLockKeeps,
       LookAgainKeeps, SyncHotJournalKeeps, CheckCounterKeeps, UnlockKeeps, BeginKeeps,
       CommitUnchangedKeeps, CommitKeeps DEF StepOf
  <1>2. ASSUME NEW c \in Conns,
               \/ ExclusiveLock(c) \/ SyncRecords(c) \/ WriteHeader(c) \/ SyncHeader(c)
               \/ WritePage(c) \/ SyncFile(c) \/ DeleteJournal(c) \/ EndTransaction(c)
               \/ Rollback(c) \/ PlayBack(c) \/ Die(c)
        PROVE  Inv'
    BY <1>2, ExclusiveLockKeeps, SyncRecordsKeeps, WriteHeaderKeeps, SyncHeaderKeeps, WritePageKeeps,
       SyncFileKeeps, DeleteJournalKeeps, EndTransactionKeeps, RollbackKeeps, PlayBackKeeps, DieKeeps
       DEF StepOf
  <1>3. ASSUME NEW c \in Conns, NEW p \in Pages,
               Get(c, p) \/ Recycle(c, p) \/ Write(c, p) \/ Spill(c, p)
        PROVE  Inv'
    BY <1>3, GetKeeps, RecycleKeeps, WriteKeeps, SpillKeeps DEF StepOf
  <1>4. CASE PowerLoss
    BY <1>4, PowerLossKeeps
  <1>5. CASE UNCHANGED vars
    <2>1. UNCHANGED <<lock, reserved, eState, pc, goal, cache, dirty, vers, held, next, file, disk,
                      unsynced, there, recs, nRec, safe, safeRec, linked, undead, tx>>
      BY <1>5 DEF vars, locks, memory, call, files, journal
    <2>2. Types' /\ JournalOK' /\ Ahead'
      BY <2>1, SameFiles DEF Inv, Types, JournalOK, Ahead, Journaled
    <2>3. Locks!Exclusion'
      BY <2>1 DEF Inv, Locks!Exclusion
    <2>4. ASSUME NEW d \in Conns PROVE Whole(d)'
      BY <2>1, KeptWhole DEF Inv, Kept
    <2> QED
      BY <2>2, <2>3, <2>4 DEF Inv
  <1> QED
    BY <1>1, <1>2, <1>3, <1>4, <1>5 DEF Next

\* The durable records are those of WriteAhead.
LEMMA InvAhead == Inv => WriteAhead
  <1> SUFFICES ASSUME Inv PROVE WriteAhead
    OBVIOUS
  <1>1. Types /\ JournalOK /\ Ahead
    BY DEF Inv
  <1>2. /\ recs \in Seq(Record) /\ safeRec \in Nat /\ safe \in Nat /\ safeRec <= safe
        /\ safeRec <= Len(recs) /\ Len(recs) \in Nat
    BY <1>1, Counts
  <1> DEFINE s == SubSeq(recs, 1, safeRec)
  <1>3. Least(safe, safeRec) = safeRec
    BY <1>2 DEF Least
  <1>4. s \in Seq(Record) /\ Len(s) = safeRec /\ \A k \in 1 .. safeRec : s[k] = recs[k]
    BY <1>2
  <1> HIDE DEF s
  <1>5. DOMAIN s = 1 .. safeRec
    BY <1>4
  <1>6. ASSUME NEW p \in Pages, Journaled(p, safeRec) PROVE p \in PagesOf(s)
    BY <1>4, <1>5, <1>6 DEF Journaled, PagesOf
  <1>7. ASSUME NEW p \in Pages, p \in unsynced \/ file[p] # Recovered[p]
        PROVE  linked /\ p \in PagesOf(s)
    BY <1>1, <1>6, <1>7 DEF Ahead
  <1> QED
    BY <1>3, <1>7 DEF WriteAhead, Recovered, s

\* Who checks the counter reads the file as a recovery would make it.
LEMMA InvTrusted == Inv => CacheTrusted
  <1> SUFFICES ASSUME Inv, NEW c \in Conns, At(c, "check counter"), held[c], vers[c] = file[1],
                      NEW p \in DOMAIN cache[c]
               PROVE  cache[c][p] = file[p]
    BY DEF CacheTrusted
  <1>1. Whole(c) /\ pc[c] = "check counter"
    BY DEF Inv, At
  <1>2. eState[c] = "OPEN" /\ Clean /\ DOMAIN cache[c] \subseteq Pages
    BY <1>1 DEF Whole, Locked, Reads, CacheType, ReadStages, At
  <1>3. \A q \in Pages : file[q] = Recovered[q]
    BY <1>2 DEF Clean, AsRecovered
  <1>4. vers[c] = Recovered[1]
    BY <1>3, GoalsDiffer
  <1>5. cache[c][p] = Recovered[p]
    BY <1>1, <1>2, <1>4 DEF Whole, Version, Fresh
  <1> QED
    BY <1>2, <1>3, <1>5

(* Write-ahead logging holds for any connections, pages and transactions,  *)
(* through every death and power loss: syncJournal and                     *)
(* pager_write_pagelist never leave a page in the file, or on its way to   *)
(* the disk, whose original is not durable in a journal.                   *)
THEOREM WriteAheadHolds == Spec => []WriteAhead
  BY InvInit, InvNext, InvAhead, PTL DEF Spec

(* A cache that sqlite3PagerSharedLock keeps, because the change counter   *)
(* is the one it remembers, is the file's.                                 *)
THEOREM CachesAreTrusted == Spec => []CacheTrusted
  BY InvInit, InvNext, InvTrusted, PTL DEF Spec

-----------------------------------------------------------------------------
(***************************************************************************)
(* Pager implements Store: every step that touches a file is a step of     *)
(* Store or none, and only the deletion of a commit's journal is a Commit. *)
(***************************************************************************)

\* A page that was not written since the last sync is on the disk as in the
\* file, and with its own journal durable no older one comes back.
Lasting == /\ \A p \in Pages \ unsynced : disk[p] = file[p]
           /\ linked => undead = <<>>

StoreInv == Inv /\ Lasting

\* What c sees, if it sees anything, is a database.
Database(pages) == pages = [p \in Pages |-> pages[p]] /\ pages # NoView

Reader(c) == eState[c] # "OPEN" /\ ~Undoing(c)

\* What a connection sees, by its state.
Sees == \A c \in Conns :
    /\ ~Reader(c) => View(c) = NoView
    /\ Reader(c) => /\ Database(View(c))
                    /\ \A p \in Pages : View(c)[p] = IF p \in DOMAIN cache[c] THEN cache[c][p]
                                                     ELSE file[p]
    /\ eState[c] \in {"READER", "LOCKED"} => View(c) = Recovered
    /\ At(c, "delete journal") /\ Reader(c) => View(c) = file

\* There is one writer at most, and it has the RESERVED lock.
OneWriter ==
    /\ Writers \subseteq reserved
    /\ \A c \in Writers : Writers = {c} /\ TheWriter = c
    /\ Writers = {} => TheWriter = NoConn
    /\ TheWriter \in Writers \cup {NoConn}

\* The view of a file and a cache is a database.
LEMMA FromFileIs ==
    ASSUME NEW pages, DOMAIN pages \subseteq Pages
    PROVE  /\ Database(FromFile(pages, Pages))
           /\ \A p \in Pages : FromFile(pages, Pages)[p] = IF p \in DOMAIN pages THEN pages[p]
                                                           ELSE file[p]
  <1>1. DOMAIN pages \cup Pages = Pages
    OBVIOUS
  <1>2. /\ DOMAIN FromFile(pages, Pages) = Pages
        /\ FromFile(pages, Pages) = [p \in Pages |-> FromFile(pages, Pages)[p]]
        /\ \A p \in Pages : FromFile(pages, Pages)[p] = IF p \in DOMAIN pages THEN pages[p]
                                                        ELSE file[p]
    BY <1>1 DEF FromFile
  <1>3. FromFile(pages, Pages) # <<>>
    BY <1>2, NoPages, GoalsDiffer
  <1> QED
    BY <1>2, <1>3 DEF Database, NoView

\* Readers and those who have not changed anything see the committed version.
LEMMA InvSees == Inv => Sees
  <1> SUFFICES ASSUME Inv, NEW c \in Conns
               PROVE  /\ ~Reader(c) => View(c) = NoView
                      /\ Reader(c) =>
                             /\ Database(View(c))
                             /\ \A p \in Pages : View(c)[p] = IF p \in DOMAIN cache[c] THEN cache[c][p]
                                                              ELSE file[p]
                      /\ eState[c] \in {"READER", "LOCKED"} => View(c) = Recovered
                      /\ At(c, "delete journal") /\ Reader(c) => View(c) = file
    BY DEF Sees
  <1>1. Whole(c) /\ DOMAIN cache[c] \subseteq Pages
    BY DEF Inv, Whole, CacheType
  <1>2. ~Reader(c) => View(c) = NoView
    BY DEF Reader, View
  <1>3. Reader(c) => View(c) = FromFile(cache[c], Pages)
    BY DEF Reader, View
  <1> DEFINE v == FromFile(cache[c], Pages)
  <1>4. /\ Database(v)
        /\ \A p \in Pages : v[p] = IF p \in DOMAIN cache[c] THEN cache[c][p] ELSE file[p]
    BY <1>1, FromFileIs
  <1> HIDE DEF v
  <1>5. Recovered \in [Pages -> Int] /\ file \in [Pages -> Int]
    BY RecoveredType DEF Inv, Types
  <1>6. ASSUME eState[c] \in {"READER", "LOCKED"} PROVE View(c) = Recovered
    <2>1. pc[c] = "idle" /\ Clean /\ ~Undoing(c)
      BY <1>1, <1>6 DEF Whole, Locked, Reads, Aimed, FileStages, At
    <2>2. Fresh(c, Recovered)
      BY <1>1, <1>6 DEF Whole, Version
    <2>3. \A p \in Pages : v[p] = Recovered[p]
      BY <1>4, <2>1, <2>2 DEF Clean, AsRecovered, Fresh
    <2>4. Reader(c)
      BY <1>6, <2>1 DEF Reader
    <2> QED
      BY <1>3, <1>4, <1>5, <2>3, <2>4 DEF v, Database
  <1>7. ASSUME At(c, "delete journal"), Reader(c) PROVE View(c) = file
    <2>1. Ending(c) /\ ~Undo(c)
      BY <1>7 DEF Ending, Undo, Reader, At
    <2>2. Fresh(c, file)
      BY <1>1, <2>1 DEF Whole, Version
    <2>3. \A p \in Pages : v[p] = file[p]
      BY <1>4, <2>2 DEF Fresh
    <2> QED
      BY <1>3, <1>4, <1>5, <1>7, <2>3 DEF v, Database
  <1> QED
    BY <1>2, <1>3, <1>4, <1>6, <1>7 DEF v

\* The locks exclude two writers.
LEMMA InvOneWriter == Inv => OneWriter
  <1> SUFFICES ASSUME Inv PROVE OneWriter
    OBVIOUS
  <1>1. ASSUME NEW c \in Writers PROVE c \in Conns /\ c \in reserved
    <2>1. c \in Conns /\ Writer(c)
      BY DEF Writers, Writer
    <2> QED
      BY <2>1 DEF Inv, Whole, Locked
  <1>2. ASSUME NEW c \in Writers, NEW d \in Writers PROVE c = d
    BY <1>1 DEF Inv, Locks!Exclusion
  <1>3. ASSUME NEW c \in Writers PROVE Writers = {c} /\ TheWriter = c
    <2>1. Writers = {c}
      BY <1>2
    <2>2. TheWriter = CHOOSE d \in {c} : TRUE
      BY <2>1 DEF TheWriter
    <2> QED
      BY <2>1, <2>2
  <1>4. Writers = {} => TheWriter = NoConn
    BY DEF TheWriter
  <1> QED
    BY <1>1, <1>3, <1>4 DEF OneWriter

-----------------------------------------------------------------------------
(* What a step of one connection is for Store.                             *)

\* The other connections see and do what they did.
Rest(c) == \A d \in Conns \ {c} : View(d)' = View(d) /\ (d \in Writers' <=> d \in Writers)

Same == UNCHANGED <<Recovered, Fallback>>

Simulates == Abstract!Next \/ UNCHANGED Abstract!vars

\* Others do not look when the file changes.
LEMMA OthersRest ==
    ASSUME Inv, NEW c \in Conns, StepOf(c), file' = file \/ lock[c] = EXCLUSIVE_LOCK
    PROVE  Rest(c)
  <1> SUFFICES ASSUME NEW d \in Conns \ {c}
               PROVE  View(d)' = View(d) /\ (d \in Writers' <=> d \in Writers)
    BY DEF Rest
  <1>1. Kept(d)
    BY DEF StepOf
  <1>2. d \in Writers' <=> d \in Writers
    BY <1>1 DEF Kept, Writers, At, Undoing
  <1>3. CASE file' = file
    <2>1. /\ cache'[d] = cache[d] /\ eState'[d] = eState[d] /\ goal'[d] = goal[d]
      BY <1>1 DEF Kept
    <2>2. FromFile(cache[d], Pages)' = FromFile(cache[d], Pages)
      BY <1>3, <2>1 DEF FromFile
    <2>3. View(d)' = IF eState'[d] = "OPEN" \/ goal'[d] = ToRollBack THEN NoView
                     ELSE FromFile(cache[d], Pages)'
      BY DEF View, Undoing
    <2> QED
      BY <1>2, <2>1, <2>2, <2>3 DEF View, Undoing
  <1>4. CASE lock[c] = EXCLUSIVE_LOCK
    <2>1. lock[d] = NO_LOCK
      BY <1>4, LevelNames DEF Inv, Locks!Exclusion
    <2>2. eState[d] = "OPEN"
      BY <2>1, Outside DEF Inv
    <2> QED
      BY <1>1, <1>2, <2>2 DEF Kept, View
  <1> QED
    BY <1>2, <1>3, <1>4

\* Who is exclusive is alone in seeing anything.
LEMMA AloneSees ==
    ASSUME Inv, NEW c \in Conns, lock[c] = EXCLUSIVE_LOCK, NEW d \in Conns \ {c}
    PROVE  View(d) = NoView
  <1>1. lock[d] = NO_LOCK
    BY LevelNames DEF Inv, Locks!Exclusion
  <1>2. eState[d] = "OPEN"
    BY <1>1, Outside DEF Inv
  <1> QED
    BY <1>2 DEF View

\* The views after it.
LEMMA ViewsAfter ==
    ASSUME NEW c \in Conns, Rest(c)
    PROVE  Views' = [Views EXCEPT ![c] = View(c)']
  BY DEF Views, Rest

\* The writers after it.
LEMMA WritersAfter ==
    ASSUME NEW c \in Conns, Rest(c)
    PROVE  /\ (c \in Writers' <=> c \in Writers) => Writers' = Writers /\ TheWriter' = TheWriter
           /\ c \notin Writers' => Writers' = Writers \ {c}
  <1>1. Writers \subseteq Conns /\ Writers' \subseteq Conns
    BY DEF Writers
  <1>2. (c \in Writers' <=> c \in Writers) => Writers' = Writers
    BY <1>1 DEF Rest
  <1>3. c \notin Writers' => Writers' = Writers \ {c}
    BY <1>1 DEF Rest
  <1>4. Writers' = Writers => TheWriter' = TheWriter
    BY DEF TheWriter
  <1> QED
    BY <1>2, <1>3, <1>4

\* What changes neither what anybody sees nor the committed version is none.
LEMMA IsStutter ==
    ASSUME NEW c \in Conns, Rest(c), Same, View(c)' = View(c), c \in Writers' <=> c \in Writers
    PROVE  Simulates
  <1>1. Views' = [Views EXCEPT ![c] = View(c)]
    BY ViewsAfter
  <1>2. Views' = Views
    BY <1>1 DEF Views
  <1>3. TheWriter' = TheWriter
    BY WritersAfter
  <1> QED
    BY <1>2, <1>3 DEF Same, Simulates, Abstract!vars

\* A connection that saw nothing sees the committed version.
LEMMA IsBegin ==
    ASSUME NEW c \in Conns, Rest(c), Same, View(c) = NoView, View(c)' = Recovered,
           c \in Writers' <=> c \in Writers
    PROVE  Simulates
  <1>1. Views' = [Views EXCEPT ![c] = Recovered]
    BY ViewsAfter
  <1>2. Views[c] = NoView
    BY DEF Views
  <1>3. TheWriter' = TheWriter
    BY WritersAfter
  <1>4. Abstract!Begin(c)
    BY <1>1, <1>2, <1>3 DEF Same, Abstract!Begin
  <1> QED
    BY <1>4 DEF Simulates, Abstract!Next

\* A reader sees nothing any more.
LEMMA IsEnd ==
    ASSUME OneWriter, NEW c \in Conns, Rest(c), Same, View(c)' = NoView,
           c \notin Writers, c \notin Writers'
    PROVE  Simulates
  <1>1. Views' = [Views EXCEPT ![c] = NoView]
    BY ViewsAfter
  <1>2. TheWriter' = TheWriter
    BY WritersAfter
  <1>3. TheWriter # c
    BY PagerAssumption DEF OneWriter
  <1>4. Abstract!End(c)
    BY <1>1, <1>2, <1>3 DEF Same, Abstract!End
  <1> QED
    BY <1>4 DEF Simulates, Abstract!Next

\* A reader becomes the writer.
LEMMA IsClaim ==
    ASSUME OneWriter, OneWriter', NEW c \in Conns, Rest(c), Same, View(c)' = View(c), View(c) = Recovered,
           Writers = {}, c \in Writers'
    PROVE  Simulates
  <1>1. Views' = [Views EXCEPT ![c] = View(c)]
    BY ViewsAfter
  <1>2. Views' = Views /\ Views[c] = Recovered
    BY <1>1 DEF Views
  <1>3. TheWriter = NoConn /\ TheWriter' = c
    BY DEF OneWriter
  <1>4. Abstract!Claim(c)
    BY <1>2, <1>3 DEF Same, Abstract!Claim
  <1> QED
    BY <1>4 DEF Simulates, Abstract!Next

\* The writer changes a page of what it sees.
LEMMA IsChange ==
    ASSUME OneWriter, NEW c \in Conns, Rest(c), Same, c \in Writers, c \in Writers',
           View(c)' # NoView, NEW p \in Pages,
           \A q \in Pages \ {p} : View(c)'[q] = View(c)[q]
    PROVE  Simulates
  <1>1. Views' = [Views EXCEPT ![c] = View(c)']
    BY ViewsAfter
  <1>2. Views'[c] = View(c)' /\ Views[c] = View(c)
    BY <1>1 DEF Views
  <1>3. \A d \in Conns \ {c} : Views'[d] = Views[d]
    BY <1>1 DEF Views
  <1>4. TheWriter = c /\ TheWriter' = TheWriter
    BY WritersAfter DEF OneWriter
  <1>5. \A q \in Pages \ {p} : Views'[c][q] = Views[c][q]
    BY <1>2
  <1>6. Abstract!Change(c)
    BY <1>2, <1>3, <1>4, <1>5 DEF Same, Abstract!Change
  <1> QED
    BY <1>6 DEF Simulates, Abstract!Next

\* The writer gives up.
LEMMA IsGiveUp ==
    ASSUME OneWriter, OneWriter', NEW c \in Conns, Rest(c), Same, c \in Writers, c \notin Writers',
           View(c)' \in {NoView, Recovered}
    PROVE  Simulates
  <1>1. Views' = [Views EXCEPT ![c] = View(c)']
    BY ViewsAfter
  <1>2. TheWriter = c /\ Writers = {c}
    BY DEF OneWriter
  <1>3. TheWriter' = NoConn
    BY <1>2, WritersAfter DEF OneWriter
  <1>4. Abstract!GiveUp(c)
    BY <1>1, <1>2, <1>3 DEF Same, Abstract!GiveUp
  <1> QED
    BY <1>4 DEF Simulates, Abstract!Next

\* The journal that is durable now is the only one.
LEMMA IsSettle ==
    ASSUME NEW c \in Conns, Rest(c), UNCHANGED Recovered, Fallback' = Recovered, View(c)' = View(c),
           c \in Writers' <=> c \in Writers
    PROVE  Simulates
  <1>1. Views' = [Views EXCEPT ![c] = View(c)]
    BY ViewsAfter
  <1>2. Views' = Views
    BY <1>1 DEF Views
  <1>3. TheWriter' = TheWriter
    BY WritersAfter
  <1>4. Abstract!Settle
    BY <1>2, <1>3 DEF Abstract!Settle
  <1> QED
    BY <1>4 DEF Simulates, Abstract!Next

\* What the writer sees becomes the committed version.
LEMMA IsCommit ==
    ASSUME OneWriter, OneWriter', NEW c \in Conns, Rest(c), c \in Writers, c \notin Writers',
           \A d \in Conns \ {c} : View(d) = NoView,
           Recovered' = View(c), Fallback' = Recovered, View(c)' = View(c)
    PROVE  Simulates
  <1>1. Views' = [Views EXCEPT ![c] = View(c)]
    BY ViewsAfter
  <1>2. Views' = Views /\ Views[c] = View(c) /\ \A d \in Conns \ {c} : Views[d] = NoView
    BY <1>1 DEF Views
  <1>3. TheWriter = c /\ Writers = {c}
    BY DEF OneWriter
  <1>4. TheWriter' = NoConn
    BY <1>3, WritersAfter DEF OneWriter
  <1>5. Abstract!Commit(c)
    BY <1>2, <1>3, <1>4 DEF Abstract!Commit
  <1> QED
    BY <1>5 DEF Simulates, Abstract!Next

-----------------------------------------------------------------------------
(* The fallback.                                                           *)

\* It stays when the file and the old journal do, or there is none.
LEMMA FallbackStays ==
    ASSUME Recovered' = Recovered, undead' = undead, file' = file \/ undead = <<>>
    PROVE  Same
  BY DEF Same, Fallback

\* The steps that write to no file but the journal.
FilesStay(c) ==
    \/ SharedLock(c) \/ JournalExists(c) \/ CheckReserved(c) \/ FirstByte(c)
    \/ HotLock(c) \/ LookAgain(c) \/ SyncHotJournal(c) \/ CheckCounter(c)
    \/ Unlock(c) \/ Begin(c) \/ CommitUnchanged(c) \/ Commit(c)
    \/ ExclusiveLock(c) \/ WriteHeader(c) \/ SyncHeader(c) \/ EndTransaction(c)
    \/ Rollback(c) \/ Die(c)
    \/ \E p \in Pages : Get(c, p) \/ Recycle(c, p) \/ Write(c, p) \/ Spill(c, p)

\* A step of FilesStay leaves the files and their past alone; it may only unlink
\* the journal.
LEMMA FilesSame ==
    ASSUME NEW c \in Conns, FilesStay(c)
    PROVE  UNCHANGED <<file, disk, unsynced, undead>> /\ (linked' => linked)
  <1> USE DEF files, journal
  <1>1. CASE SharedLock(c)
    BY <1>1 DEF SharedLock
  <1>2. CASE JournalExists(c)
    BY <1>2 DEF JournalExists
  <1>3. CASE CheckReserved(c)
    BY <1>3 DEF CheckReserved
  <1>4. CASE FirstByte(c)
    BY <1>4 DEF FirstByte
  <1>5. CASE HotLock(c)
    BY <1>5 DEF HotLock
  <1>6. CASE LookAgain(c)
    BY <1>6 DEF LookAgain
  <1>7. CASE SyncHotJournal(c)
    BY <1>7 DEF SyncHotJournal
  <1>8. CASE CheckCounter(c)
    BY <1>8 DEF CheckCounter
  <1>9. CASE Unlock(c)
    BY <1>9 DEF Unlock
  <1>10. CASE Begin(c)
    BY <1>10 DEF Begin
  <1>11. CASE CommitUnchanged(c)
    BY <1>11 DEF CommitUnchanged
  <1>12. CASE Commit(c)
    BY <1>12 DEF Commit
  <1>13. CASE ExclusiveLock(c)
    BY <1>13 DEF ExclusiveLock
  <1>14. CASE WriteHeader(c)
    BY <1>14 DEF WriteHeader
  <1>15. CASE SyncHeader(c)
    BY <1>15 DEF SyncHeader
  <1>16. CASE EndTransaction(c)
    BY <1>16 DEF EndTransaction
  <1>17. CASE Rollback(c)
    BY <1>17 DEF Rollback
  <1>18. CASE Die(c)
    BY <1>18 DEF Die
  <1>19. ASSUME NEW p \in Pages, Get(c, p) PROVE UNCHANGED <<file, disk, unsynced, undead>> /\ (linked' => linked)
    BY <1>19 DEF Get
  <1>20. ASSUME NEW p \in Pages, Recycle(c, p) PROVE UNCHANGED <<file, disk, unsynced, undead>> /\ (linked' => linked)
    BY <1>20 DEF Recycle
  <1>21. ASSUME NEW p \in Pages, Write(c, p) PROVE UNCHANGED <<file, disk, unsynced, undead>> /\ (linked' => linked)
    BY <1>21 DEF Write, OpenJournal
  <1>22. ASSUME NEW p \in Pages, Spill(c, p) PROVE UNCHANGED <<file, disk, unsynced, undead>> /\ (linked' => linked)
    BY <1>22 DEF Spill
  <1> QED
    BY <1>1, <1>2, <1>3, <1>4, <1>5, <1>6, <1>7, <1>8, <1>9, <1>10, <1>11, <1>12, <1>13, <1>14, <1>15, <1>16, <1>17, <1>18, <1>19, <1>20, <1>21, <1>22 DEF FilesStay

\* Lasting, by what a step does to the files.
LEMMA LastingStays ==
    ASSUME Lasting, UNCHANGED <<file, disk, unsynced>>, undead' = undead, linked' => linked
    PROVE  Lasting'
  BY DEF Lasting

\* Lasting is kept by every step.
LEMMA LastingNext == Inv /\ Lasting /\ [Next]_vars => Lasting'
  <1> SUFFICES ASSUME Inv, Lasting, [Next]_vars PROVE Lasting'
    OBVIOUS
  <1>1. ASSUME NEW c \in Conns, FilesStay(c) PROVE Lasting'
    BY <1>1, FilesSame, LastingStays
  <1>3. ASSUME NEW c \in Conns, SyncRecords(c) PROVE Lasting'
    BY <1>3 DEF SyncRecords, Lasting, files
  <1>4. ASSUME NEW c \in Conns, DeleteJournal(c) PROVE Lasting'
    BY <1>4 DEF DeleteJournal, Lasting, files
  <1>5. ASSUME NEW c \in Conns, SyncFile(c) PROVE Lasting'
    BY <1>5 DEF SyncFile, Lasting, journal
  <1>7. ASSUME NEW p, NEW content, PutPage(p, content), UNCHANGED journal
        PROVE  Lasting'
    <2>1. file \in [Pages -> Int]
      BY DEF Inv, Types
    <2> QED
      BY <1>7, <2>1 DEF PutPage, Lasting, journal
  <1>8. ASSUME NEW c \in Conns, WritePage(c) PROVE Lasting'
    <2>1. \E p : PutPage(p, cache[c][p]) /\ UNCHANGED journal
      BY <1>8 DEF WritePage
    <2> QED
      BY <1>7, <2>1
  <1>9. ASSUME NEW c \in Conns, PlayBack(c) PROVE Lasting'
    <2>1. CASE PutPage(recs[next[c] + 1].page, recs[next[c] + 1].old)
      BY <1>7, <1>9, <2>1 DEF PlayBack
    <2>2. CASE UNCHANGED files
      BY <1>9, <2>2, LastingStays DEF PlayBack, files, journal
    <2> QED
      BY <1>9, <2>1, <2>2 DEF PlayBack
  <1>10. CASE PowerLoss
    BY <1>10 DEF PowerLoss, Lasting
  <1>11. CASE UNCHANGED vars
    BY <1>11, LastingStays DEF vars, files, journal
  <1> QED
    BY <1>1, <1>3, <1>4, <1>5, <1>8, <1>9, <1>10, <1>11 DEF Next, FilesStay

\* The invariant, for the refinement.
LEMMA StoreInvAlways == Spec => [](StoreInv /\ Sees /\ OneWriter)
  <1>1. Init => StoreInv
    <2>1. Init => Lasting
      BY DEF Init, Lasting
    <2> QED
      BY <2>1, InvInit DEF StoreInv
  <1>2. StoreInv /\ [Next]_vars => StoreInv'
    BY InvNext, LastingNext DEF StoreInv
  <1>3. StoreInv => StoreInv /\ Sees /\ OneWriter
    BY InvSees, InvOneWriter DEF StoreInv
  <1> QED
    BY <1>1, <1>2, <1>3, PTL DEF Spec

-----------------------------------------------------------------------------
(* The steps, one by one.                                                  *)

\* What is known before and after a step.
Ready == StoreInv /\ Sees /\ OneWriter

\* A step that leaves the file and the old journal.
LEMMA FileStep ==
    ASSUME Ready, NEW c \in Conns, StepOf(c), UNCHANGED <<Recovered, file, undead>>
    PROVE  Rest(c) /\ Same
  BY OthersRest, FallbackStays DEF Ready, StoreInv

\* Who looks at the same file with the same cache sees the same.
LEMMA SameLook ==
    ASSUME Ready, Ready', NEW c \in Conns, Rest(c), Same, file' = file, cache'[c] = cache[c],
           Reader(c)' <=> Reader(c), c \in Writers' <=> c \in Writers
    PROVE  Simulates
  <1>1. CASE Reader(c)
    <2>1. Database(View(c)) /\ Database(View(c)')
      BY <1>1 DEF Ready, Sees
    <2>2. \A p \in Pages : View(c)[p] = IF p \in DOMAIN cache[c] THEN cache[c][p] ELSE file[p]
      BY <1>1 DEF Ready, Sees
    <2>3. \A p \in Pages : View(c)'[p] = IF p \in DOMAIN cache'[c] THEN cache'[c][p] ELSE file'[p]
      BY <1>1 DEF Ready, Sees
    <2>4. \A p \in Pages : View(c)'[p] = View(c)[p]
      BY <2>2, <2>3
    <2>5. View(c)' = View(c)
      BY <2>1, <2>4 DEF Database
    <2> QED
      BY <2>5, IsStutter
  <1>2. CASE ~Reader(c)
    BY <1>2, IsStutter DEF Ready, Sees
  <1> QED
    BY <1>1, <1>2

\* Only a reader is a writer.
LEMMA WritersRead ==
    ASSUME NEW c \in Conns
    PROVE  /\ c \in Writers => Reader(c)
           /\ c \in Writers' => Reader(c)'
  BY DEF Writers, Reader

\* A connection that looks for a hot journal sees nothing.
LEMMA LookingStep ==
    ASSUME Ready, Ready', NEW c \in Conns, Rest(c), Same, eState[c] = "OPEN", eState'[c] = "OPEN"
    PROVE  Simulates
  <1>1. View(c) = NoView /\ View(c)' = NoView /\ c \notin Writers /\ c \notin Writers'
    BY WritersRead DEF Ready, Sees, Reader
  <1> QED
    BY <1>1, IsStutter

\* A writer that is waiting for its journal sees what it saw.
LEMMA JournalStep ==
    ASSUME Ready, Ready', NEW c \in Conns, Rest(c), Same, file' = file, cache'[c] = cache[c],
           c \in Writers, c \in Writers'
    PROVE  Simulates
  BY WritersRead, SameLook

\* In these stages a connection is a writer.
LEMMA StageOfWriter ==
    ASSUME Inv, NEW c \in Conns,
           \/ pc[c] \in {"lock", "write pages"} \cup JournalStages
           \/ pc[c] = "idle" /\ eState[c] \in {"LOCKED", "CACHEMOD", "DBMOD"}
    PROVE  c \in Writers
  <1>1. Whole(c) /\ eState[c] \in {"OPEN", "READER", "LOCKED", "CACHEMOD", "DBMOD"}
    BY DEF Inv, Types
  <1>2. eState[c] \in {"LOCKED", "CACHEMOD", "DBMOD"} /\ pc[c] \notin FileStages
    BY <1>1 DEF Whole, Locked, At, JournalStages, FileStages
  <1>3. ~Undoing(c) /\ ~At(c, "end")
    BY <1>1, <1>2 DEF Whole, Aimed, FileStages, At
  <1> QED
    BY <1>2, <1>3 DEF Writers

\* The steps of a connection that looks for a hot journal.
LEMMA LookingSimulates ==
    ASSUME Ready, Ready', NEW c \in Conns,
           \/ SharedLock(c) \/ JournalExists(c) \/ CheckReserved(c) \/ FirstByte(c)
           \/ HotLock(c) \/ LookAgain(c) \/ SyncHotJournal(c)
    PROVE  Simulates
  <1>1. Inv
    BY DEF Ready, StoreInv
  <1>2. StepOf(c) /\ Recovered' = Recovered
    BY <1>1, SharedLockKeeps, JournalExistsKeeps, CheckReservedKeeps, FirstByteKeeps, HotLockKeeps,
       LookAgainKeeps, SyncHotJournalKeeps
  <1>3. UNCHANGED <<file, undead>>
    BY FilesSame DEF FilesStay
  <1>4. eState[c] = "OPEN"
    <2>1. CASE SharedLock(c)
      BY <2>1 DEF SharedLock, Idle
    <2>2. CASE \/ JournalExists(c) \/ CheckReserved(c) \/ FirstByte(c) \/ HotLock(c)
               \/ LookAgain(c) \/ SyncHotJournal(c)
      <3>1. pc[c] \in ReadStages \cup {"look again", "sync hot"}
        BY <2>2 DEF JournalExists, CheckReserved, FirstByte, HotLock, LookAgain, SyncHotJournal, At,
                    ReadStages
      <3> QED
        BY <1>1, <3>1 DEF Inv, Whole, Locked
    <2> QED
      BY <2>1, <2>2
  <1>5. eState' = eState
    BY DEF SharedLock, JournalExists, CheckReserved, FirstByte, HotLock, LookAgain, SyncHotJournal
  <1> QED
    BY <1>2, <1>3, <1>4, <1>5, FileStep, LookingStep

\* A transaction begins to read.
LEMMA CheckCounterSimulates ==
    ASSUME Ready, Ready', NEW c \in Conns, CheckCounter(c)
    PROVE  Simulates
  <1>1. Inv /\ StepOf(c) /\ Recovered' = Recovered
    BY CheckCounterKeeps DEF Ready, StoreInv
  <1>2. UNCHANGED <<file, undead>>
    BY FilesSame DEF FilesStay
  <1>3. eState[c] = "OPEN"
    BY <1>1 DEF CheckCounter, Inv, Whole, Locked, At, ReadStages
  <1>4. eState'[c] = "READER"
    BY <1>1 DEF CheckCounter, Become, Inv, Types
  <1>5. View(c) = NoView /\ View(c)' = Recovered
    BY <1>1, <1>3, <1>4 DEF Ready, Sees, Reader
  <1>6. c \notin Writers /\ c \notin Writers'
    BY <1>3, <1>4 DEF Writers
  <1> QED
    BY <1>1, <1>2, <1>5, <1>6, FileStep, IsBegin

\* It ends.
LEMMA UnlockSimulates ==
    ASSUME Ready, Ready', NEW c \in Conns, Unlock(c)
    PROVE  Simulates
  <1>1. Inv /\ StepOf(c) /\ Recovered' = Recovered
    BY UnlockKeeps DEF Ready, StoreInv
  <1>2. UNCHANGED <<file, undead>>
    BY FilesSame DEF FilesStay
  <1>3. eState[c] = "READER" /\ eState'[c] = "OPEN"
    BY <1>1 DEF Unlock, Idle, Become, Inv, Types
  <1>4. View(c)' = NoView
    BY <1>3 DEF Ready, Sees, Reader
  <1>5. c \notin Writers /\ c \notin Writers'
    BY <1>3 DEF Writers
  <1> QED
    BY <1>1, <1>2, <1>4, <1>5, FileStep, IsEnd DEF Ready

\* It becomes a writing one.
LEMMA BeginSimulates ==
    ASSUME Ready, Ready', NEW c \in Conns, Begin(c)
    PROVE  Simulates
  <1>1. Inv /\ Inv' /\ StepOf(c) /\ Recovered' = Recovered
    BY BeginKeeps DEF Ready, StoreInv
  <1>2. UNCHANGED <<file, undead>>
    BY FilesSame DEF FilesStay
  <1>3. eState[c] = "READER" /\ eState'[c] = "LOCKED" /\ pc'[c] = "idle" /\ goal' = goal
    BY <1>1 DEF Begin, Idle, Become, At, Inv, Types
  <1>4. View(c) = Recovered /\ View(c)' = Recovered
    BY <1>1, <1>3 DEF Ready, Sees
  <1>5. Writers = {}
    BY DEF Ready, OneWriter, Begin, Locks!Reserve
  <1>6. ~Undoing(c)
    BY <1>1, <1>3 DEF Inv, Whole, Aimed, Writer
  <1>7. c \in Writers'
    BY <1>3, <1>6 DEF Writers, Undoing, At
  <1> QED
    BY <1>1, <1>2, <1>4, <1>5, <1>7, FileStep, IsClaim DEF Ready

\* What a connection sees, page by page.
LEMMA PagesSeen ==
    ASSUME Ready, NEW c \in Conns, Reader(c)
    PROVE  /\ Database(View(c))
           /\ \A p \in Pages : View(c)[p] = IF p \in DOMAIN cache[c] THEN cache[c][p] ELSE file[p]
  BY DEF Ready, Sees

\* And after a step.
LEMMA PagesSeenNext ==
    ASSUME Ready', NEW c \in Conns, Reader(c)'
    PROVE  /\ Database(View(c)')
           /\ \A p \in Pages : View(c)'[p] = IF p \in DOMAIN cache'[c] THEN cache'[c][p] ELSE file'[p]
  BY DEF Ready, Sees

\* The steps of a writer that writes to its journal only, up to the header.
LEMMA JournalSimulates ==
    ASSUME Ready, Ready', NEW c \in Conns,
           ExclusiveLock(c) \/ WriteHeader(c) \/ SyncHeader(c)
    PROVE  Simulates
  <1>1. Inv /\ Inv'
    BY DEF Ready, StoreInv
  <1>2. StepOf(c) /\ Recovered' = Recovered
    BY <1>1, ExclusiveLockKeeps, WriteHeaderKeeps, SyncHeaderKeeps
  <1>3. UNCHANGED <<file, undead>> /\ cache' = cache
    BY FilesSame DEF FilesStay, ExclusiveLock, WriteHeader, SyncHeader, memory
  <1>4. c \in Writers
    BY <1>1, StageOfWriter DEF ExclusiveLock, WriteHeader, SyncHeader, At, JournalStages
  <1>5. pc[c] \in {"lock"} \cup JournalStages
    BY DEF ExclusiveLock, WriteHeader, SyncHeader, At, JournalStages
  <1>6. eState[c] \in {"CACHEMOD", "DBMOD"}
    BY <1>1, <1>4, <1>5 DEF Inv, Whole, Locked, At, Writers, JournalStages
  <1>7. /\ pc'[c] \in {"idle", "sync records", "sync header", "write pages"}
        /\ eState'[c] \in {"CACHEMOD", "DBMOD"}
    BY <1>1, <1>6 DEF ExclusiveLock, WriteHeader, SyncHeader, Inv, Types, Goto, EndCall, Become
  <1>8. c \in Writers'
    <2>1. pc'[c] \notin FileStages
      BY <1>7 DEF FileStages
    <2>2. ~Undoing(c)' /\ ~At(c, "end")'
      BY <1>1, <2>1 DEF Inv, Whole, Aimed, FileStages, At
    <2> QED
      BY <1>7, <2>2 DEF Writers
  <1> QED
    BY <1>2, <1>3, <1>4, <1>8, FileStep, JournalStep

\* A step to spill a page: nothing is written yet.
LEMMA SpillSimulates ==
    ASSUME Ready, Ready', NEW c \in Conns, NEW p \in Pages, Spill(c, p)
    PROVE  Simulates
  <1>1. Inv /\ Inv' /\ StepOf(c) /\ Recovered' = Recovered
    BY SpillKeeps DEF Ready, StoreInv
  <1>2. UNCHANGED <<file, undead>> /\ cache' = cache /\ eState' = eState
    BY FilesSame DEF FilesStay, Spill, memory
  <1>3. eState[c] \in {"CACHEMOD", "DBMOD"} /\ pc[c] = "idle"
    BY DEF Spill, At
  <1>4. c \in Writers
    BY <1>1, <1>3, StageOfWriter
  <1>5. pc'[c] \in {"write pages", "lock"}
    BY <1>1 DEF Spill, Goto, Inv, Types
  <1>6. c \in Writers'
    <2>1. ~Undoing(c)' /\ ~At(c, "end")'
      BY <1>1, <1>5 DEF Inv, Whole, Aimed, FileStages, At
    <2> QED
      BY <1>2, <1>3, <2>1 DEF Writers
  <1> QED
    BY <1>1, <1>2, <1>4, <1>6, FileStep, JournalStep

\* Once the directory is synced no older journal can come back.
LEMMA SyncRecordsSimulates ==
    ASSUME Ready, Ready', NEW c \in Conns, SyncRecords(c)
    PROVE  Simulates
  <1>1. Inv /\ Inv' /\ StepOf(c) /\ Recovered' = Recovered
    BY SyncRecordsKeeps DEF Ready, StoreInv
  <1>2. /\ file' = file /\ cache' = cache /\ eState' = eState /\ goal' = goal /\ undead' = <<>>
        /\ pc[c] = "sync records"
    BY DEF SyncRecords, files, memory, At
  <1>3. Fallback' = Recovered
    BY <1>1, <1>2 DEF Fallback
  <1>4. pc'[c] = "write header"
    BY <1>1 DEF SyncRecords, Goto, Inv, Types
  <1>5. Rest(c)
    BY <1>1, <1>2, OthersRest
  <1>6. c \in Writers' <=> c \in Writers
    BY <1>2, <1>4 DEF Writers, Undoing, At
  <1>7. View(c)' = View(c)
    <2>1. FromFile(cache[c], Pages)' = FromFile(cache[c], Pages)
      BY <1>2 DEF FromFile
    <2> QED
      BY <1>2, <2>1 DEF View, Undoing
  <1> QED
    BY <1>1, <1>3, <1>5, <1>6, <1>7, IsSettle

\* A page is read: it was seen already.
LEMMA GetSimulates ==
    ASSUME Ready, Ready', NEW c \in Conns, NEW p \in Pages, Get(c, p)
    PROVE  Simulates
  <1>1. Inv /\ Inv' /\ StepOf(c) /\ Recovered' = Recovered
    BY GetKeeps DEF Ready, StoreInv
  <1>2. /\ UNCHANGED <<file, undead, eState, pc, goal>> /\ eState[c] # "OPEN" /\ pc[c] = "idle"
        /\ p \notin DOMAIN cache[c]
    BY DEF Get, files, journal, call, At
  <1>3. cache'[c] = FromFile(cache[c], {p})
    BY <1>1 DEF Get, Cache, Inv, Types
  <1>4. /\ DOMAIN cache'[c] = DOMAIN cache[c] \cup {p}
        /\ \A q \in DOMAIN cache[c] \cup {p} : cache'[c][q] = IF q \in DOMAIN cache[c] THEN cache[c][q]
                                                              ELSE file[q]
    BY <1>3 DEF FromFile
  <1>5. Reader(c) /\ Reader(c)'
    BY <1>1, <1>2 DEF Inv, Whole, Aimed, FileStages, Reader, Undoing
  <1>6. \A q \in Pages : View(c)'[q] = View(c)[q]
    BY <1>2, <1>4, <1>5, PagesSeen, PagesSeenNext
  <1>7. View(c)' = View(c)
    BY <1>5, <1>6, PagesSeen, PagesSeenNext DEF Database
  <1>8. c \in Writers' <=> c \in Writers
    BY <1>2 DEF Writers, Undoing, At
  <1> QED
    BY <1>1, <1>2, <1>7, <1>8, FileStep, IsStutter

\* A clean page is taken back: the file says the same.
LEMMA RecycleSimulates ==
    ASSUME Ready, Ready', NEW c \in Conns, NEW p \in Pages, Recycle(c, p)
    PROVE  Simulates
  <1>1. Inv /\ Inv' /\ StepOf(c) /\ Recovered' = Recovered
    BY RecycleKeeps DEF Ready, StoreInv
  <1>2. /\ UNCHANGED <<file, undead, eState, pc, goal>> /\ eState[c] # "OPEN" /\ pc[c] = "idle"
        /\ p \in DOMAIN cache[c] \ dirty[c]
    BY DEF Recycle, files, journal, call, At
  <1>3. cache'[c] = [q \in DOMAIN cache[c] \ {p} |-> cache[c][q]]
    BY <1>1 DEF Recycle, Cache, Inv, Types
  <1>4. Reader(c) /\ Reader(c)' /\ ~Undoing(c)
    BY <1>1, <1>2 DEF Inv, Whole, Aimed, FileStages, Reader, Undoing
  <1>5. cache[c][p] = file[p]
    <2>1. Whole(c) /\ eState[c] \in {"READER", "LOCKED", "CACHEMOD", "DBMOD"}
      BY <1>1, <1>2 DEF Inv, Types
    <2>2. CASE eState[c] \in {"READER", "LOCKED"}
      BY <1>2, <2>1, <2>2 DEF Whole, Reads, Clean, AsRecovered, Version, Fresh
    <2>3. CASE eState[c] \in {"CACHEMOD", "DBMOD"}
      BY <1>2, <1>4, <2>1, <2>3 DEF Whole, Changes, At
    <2> QED
      BY <2>1, <2>2, <2>3
  <1>6. \A q \in Pages : View(c)'[q] = View(c)[q]
    BY <1>2, <1>3, <1>4, <1>5, PagesSeen, PagesSeenNext
  <1>7. View(c)' = View(c)
    BY <1>4, <1>6, PagesSeen, PagesSeenNext DEF Database
  <1>8. c \in Writers' <=> c \in Writers
    BY <1>2 DEF Writers, Undoing, At
  <1> QED
    BY <1>1, <1>2, <1>7, <1>8, FileStep, IsStutter

\* The writer changes a page in memory.
LEMMA WriteSimulates ==
    ASSUME Ready, Ready', NEW c \in Conns, NEW p \in Pages, Write(c, p)
    PROVE  Simulates
  <1>1. Inv /\ Inv' /\ StepOf(c) /\ Recovered' = Recovered
    BY WriteKeeps DEF Ready, StoreInv
  <1>2. /\ UNCHANGED <<file, undead, pc, goal>> /\ pc[c] = "idle"
        /\ eState[c] \in {"LOCKED", "CACHEMOD", "DBMOD"} /\ p \in DOMAIN cache[c]
    BY DEF Write, files, At
  <1>3. cache'[c] = [cache[c] EXCEPT ![p] = tx]
    BY <1>1 DEF Write, Cache, Inv, Types
  <1>4. eState'[c] \in {"CACHEMOD", "DBMOD"}
    BY <1>1, <1>2 DEF Write, OpenJournal, Become, Inv, Types
  <1>5. c \in Writers
    BY <1>1, <1>2, StageOfWriter
  <1>6. c \in Writers'
    BY <1>2, <1>4, <1>5 DEF Writers, Undoing, At
  <1>7. DOMAIN cache'[c] = DOMAIN cache[c] /\ \A q \in DOMAIN cache[c] \ {p} : cache'[c][q] = cache[c][q]
    BY <1>3
  <1>8. Reader(c) /\ Reader(c)'
    BY <1>5, <1>6, WritersRead
  <1>9. View(c)' # NoView
    BY <1>8, PagesSeenNext DEF Database
  <1>10. \A q \in Pages \ {p} : View(c)'[q] = View(c)[q]
    BY <1>2, <1>7, <1>8, PagesSeen, PagesSeenNext
  <1> QED
    BY <1>1, <1>2, <1>5, <1>6, <1>9, <1>10, FileStep, IsChange DEF Ready

\* It counts its transaction.
LEMMA CommitSimulates ==
    ASSUME Ready, Ready', NEW c \in Conns, Commit(c)
    PROVE  Simulates
  <1>1. Inv /\ Inv' /\ StepOf(c) /\ Recovered' = Recovered
    BY CommitKeeps DEF Ready, StoreInv
  <1>2. /\ UNCHANGED <<file, undead, eState>> /\ pc[c] = "idle"
        /\ eState[c] \in {"CACHEMOD", "DBMOD"} /\ goal' = [goal EXCEPT ![c] = ToCommit]
    BY DEF Commit, files, At
  <1>3. cache'[c] = [cache[c] EXCEPT ![1] = vers[c] + 1]
    BY <1>1 DEF Commit, Cache, Inv, Types
  <1>4. pc'[c] = "lock"
    BY <1>1 DEF Commit, Goto, Inv, Types
  <1>5. c \in Writers
    BY <1>1, <1>2, StageOfWriter
  <1>6. c \in Writers'
    <2>1. goal'[c] = ToCommit
      BY <1>1, <1>2 DEF Inv, Types
    <2> QED
      BY <1>2, <1>4, <2>1, GoalsDiffer DEF Writers, Undoing, At
  <1>7. /\ DOMAIN cache'[c] = DOMAIN cache[c]
        /\ \A q \in DOMAIN cache[c] : q # 1 => cache'[c][q] = cache[c][q]
    BY <1>3
  <1>8. Reader(c) /\ Reader(c)'
    BY <1>5, <1>6, WritersRead
  <1>9. View(c)' # NoView
    BY <1>8, PagesSeenNext DEF Database
  <1>10. \A q \in Pages \ {1} : View(c)'[q] = View(c)[q]
    BY <1>2, <1>7, <1>8, PagesSeen, PagesSeenNext
  <1> QED
    BY <1>1, <1>2, <1>5, <1>6, <1>9, <1>10, FileStep, IsChange, GoalsDiffer DEF Ready

\* A transaction that changed nothing ends.
LEMMA CommitUnchangedSimulates ==
    ASSUME Ready, Ready', NEW c \in Conns, CommitUnchanged(c)
    PROVE  Simulates
  <1>1. Inv /\ StepOf(c) /\ Recovered' = Recovered
    BY CommitUnchangedKeeps DEF Ready, StoreInv
  <1>2. UNCHANGED <<file, undead>>
    BY FilesSame DEF FilesStay
  <1>3. eState[c] = "LOCKED" /\ pc[c] = "idle" /\ eState'[c] = "READER"
    BY <1>1 DEF CommitUnchanged, Idle, At, Become, Inv, Types
  <1>4. c \in Writers
    BY <1>1, <1>3, StageOfWriter
  <1>5. c \notin Writers'
    BY <1>3 DEF Writers
  <1>6. View(c)' = Recovered
    BY <1>1, <1>3 DEF Ready, Sees
  <1> QED
    BY <1>1, <1>2, <1>4, <1>5, <1>6, FileStep, IsGiveUp DEF Ready

\* A transaction is given up when its rollback begins.
LEMMA RollbackSimulates ==
    ASSUME Ready, Ready', NEW c \in Conns, Rollback(c)
    PROVE  Simulates
  <1>1. Inv /\ StepOf(c) /\ Recovered' = Recovered
    BY RollbackKeeps DEF Ready, StoreInv
  <1>2. UNCHANGED <<file, undead>>
    BY FilesSame DEF FilesStay
  <1>3. eState[c] \in {"CACHEMOD", "DBMOD"} /\ pc[c] = "idle" /\ goal'[c] = ToRollBack
    BY <1>1 DEF Rollback, At, Inv, Types
  <1>4. c \in Writers
    BY <1>1, <1>3, StageOfWriter
  <1>5. c \notin Writers' /\ ~Reader(c)'
    BY <1>3 DEF Writers, Reader, Undoing
  <1>6. View(c)' = NoView
    BY <1>5 DEF Ready, Sees
  <1> QED
    BY <1>1, <1>2, <1>4, <1>5, <1>6, FileStep, IsGiveUp DEF Ready

\* The file is synced: programs see nothing of it.
LEMMA SyncFileSimulates ==
    ASSUME Ready, Ready', NEW c \in Conns, SyncFile(c)
    PROVE  Simulates
  <1>1. Inv /\ StepOf(c) /\ Recovered' = Recovered
    BY SyncFileKeeps DEF Ready, StoreInv
  <1>2. UNCHANGED <<file, undead, cache, eState, goal>> /\ pc[c] = "sync file"
    BY DEF SyncFile, journal, memory, At
  <1>3. pc'[c] = "delete journal"
    BY <1>1 DEF SyncFile, Goto, Inv, Types
  <1>4. Reader(c)' <=> Reader(c)
    BY <1>2 DEF Reader, Undoing
  <1>5. c \in Writers' <=> c \in Writers
    BY <1>2, <1>3 DEF Writers, Undoing, At
  <1> QED
    BY <1>1, <1>2, <1>4, <1>5, FileStep, SameLook

\* The locks are given back: a hot rollback goes on, a commit was one when its
\* journal was deleted, and whoever has rolled back reads again.
LEMMA EndTransactionSimulates ==
    ASSUME Ready, Ready', NEW c \in Conns, EndTransaction(c)
    PROVE  Simulates
  <1>1. Inv /\ StepOf(c) /\ Recovered' = Recovered
    BY EndTransactionKeeps DEF Ready, StoreInv
  <1>2. UNCHANGED <<file, undead, cache>> /\ pc[c] = "end"
    BY FilesSame DEF FilesStay, EndTransaction, memory, At
  <1>3. c \notin Writers
    BY <1>2 DEF Writers, At
  <1>4. CASE eState[c] = "OPEN"
    <2>1. eState'[c] = "OPEN"
      BY <1>4 DEF EndTransaction
    <2> QED
      BY <1>1, <1>2, <1>4, <2>1, FileStep, LookingStep
  <1>5. CASE eState[c] # "OPEN"
    <2>1. eState'[c] = "READER" /\ goal'[c] = ToCommit
      BY <1>1, <1>5 DEF EndTransaction, Become, EndCall, Inv, Types
    <2>2. c \notin Writers' /\ Reader(c)'
      BY <2>1, GoalsDiffer DEF Writers, Reader, Undoing
    <2>3. CASE Undoing(c)
      <3>1. View(c) = NoView /\ View(c)' = Recovered
        BY <1>1, <2>1, <2>3 DEF Ready, Sees, Reader
      <3> QED
        BY <1>1, <1>2, <1>3, <2>2, <3>1, FileStep, IsBegin
    <2>4. CASE ~Undoing(c)
      BY <1>1, <1>2, <1>3, <1>5, <2>2, <2>4, FileStep, SameLook DEF Reader
    <2> QED
      BY <2>3, <2>4
  <1> QED
    BY <1>4, <1>5

\* A page goes to the file, which nobody else sees; the writer saw it before.
LEMMA WritePageSimulates ==
    ASSUME Ready, Ready', NEW c \in Conns, WritePage(c)
    PROVE  Simulates
  <1>1. Inv /\ Inv' /\ StepOf(c) /\ Recovered' = Recovered
    BY WritePageKeeps DEF Ready, StoreInv
  <1>2. pc[c] = "write pages" /\ UNCHANGED <<undead, eState>>
    BY DEF WritePage, At, journal
  <1>3. Whole(c) /\ goal[c] \in Goals /\ dirty[c] \subseteq Pages /\ dirty[c] \subseteq DOMAIN cache[c]
    BY ZenonT(60), <1>1 DEF Inv, Types, Whole, Version
  <1>4. eState[c] = "DBMOD" /\ linked
    BY <1>2, <1>3 DEF Whole, Synced, At
  <1>5. lock[c] = EXCLUSIVE_LOCK
    BY <1>3, <1>4 DEF Whole, Locked
  <1>6. undead = <<>>
    BY <1>4 DEF Ready, StoreInv, Lasting
  <1>7. Rest(c) /\ Same
    BY <1>1, <1>2, <1>5, <1>6, OthersRest, FallbackStays
  <1>8. PICK p \in IF goal[c] = ToCommit THEN dirty[c] ELSE {goal[c]} :
            /\ PutPage(p, cache[c][p])
            /\ IF goal[c] = ToCommit
               THEN cache' = cache /\ goal' = goal /\ Goto(c, IF dirty[c] = {p} THEN "sync file" ELSE "write pages")
               ELSE Cache(c, [q \in DOMAIN cache[c] \ {p} |-> cache[c][q]]) /\ EndCall(c)
    BY DEF WritePage
  <1>9. p \in dirty[c]
    BY <1>2, <1>3, <1>8 DEF Whole, Synced, At
  <1>10. c \in Writers
    BY <1>1, <1>2, StageOfWriter
  <1>11. pc'[c] \in {"sync file", "write pages", "idle"} /\ (goal'[c] = goal[c] \/ goal'[c] = ToCommit)
    BY ZenonT(60), <1>1, <1>8 DEF Goto, EndCall, Inv, Types
  <1>12. c \in Writers'
    BY <1>2, <1>10, <1>11, GoalsDiffer DEF Writers, Undoing, At
  <1>13. Reader(c) /\ Reader(c)'
    BY <1>10, <1>12, WritersRead
  <1>14. /\ p \in DOMAIN cache[c] /\ p \in Pages
         /\ file'[p] = cache[c][p] /\ \A q \in Pages : q # p => file'[q] = file[q]
    BY <1>1, <1>3, <1>8, <1>9 DEF PutPage, Inv, Types
  <1>15. \/ cache'[c] = cache[c]
         \/ cache'[c] = [q \in DOMAIN cache[c] \ {p} |-> cache[c][q]]
    BY <1>1, <1>8 DEF Cache, Inv, Types
  <1>16. \A q \in Pages : (IF q \in DOMAIN cache'[c] THEN cache'[c][q] ELSE file'[q])
                              = IF q \in DOMAIN cache[c] THEN cache[c][q] ELSE file[q]
    BY <1>14, <1>15
  <1>17. \A q \in Pages : View(c)'[q] = View(c)[q]
    BY <1>13, <1>16, PagesSeen, PagesSeenNext
  <1>18. View(c)' = View(c)
    BY <1>13, <1>17, PagesSeen, PagesSeenNext DEF Database
  <1> QED
    BY <1>7, <1>10, <1>12, <1>18, IsStutter

\* A record goes back to the file: nobody sees it.
LEMMA PlayBackSimulates ==
    ASSUME Ready, Ready', NEW c \in Conns, PlayBack(c)
    PROVE  Simulates
  <1>1. Inv /\ StepOf(c) /\ Recovered' = Recovered
    BY PlayBackKeeps DEF Ready, StoreInv
  <1>2. pc[c] = "play back" /\ UNCHANGED <<undead, eState, goal>>
    BY DEF PlayBack, At, journal
  <1>3. Whole(c) /\ eState[c] \in {"OPEN", "READER", "LOCKED", "CACHEMOD", "DBMOD"}
    BY <1>1 DEF Inv, Types
  <1>4. ~Reader(c) /\ ~Reader(c)'
    <2>1. eState[c] # "READER"
      BY <1>2, <1>3 DEF Whole, Locked, At
    <2> QED
      BY <1>2, <1>3, <2>1 DEF Whole, Aimed, Reader, Undoing, Writer, At
  <1>5. View(c) = NoView /\ View(c)' = NoView
    BY <1>4 DEF Ready, Sees
  <1>6. c \notin Writers /\ c \notin Writers'
    BY <1>4, WritersRead
  <1>7. lock[c] = EXCLUSIVE_LOCK
    <2>1. eState[c] \notin {"READER", "LOCKED", "CACHEMOD"}
      BY <1>2, <1>3 DEF Whole, Locked, At, JournalStages
    <2> QED
      BY <1>2, <1>3, <2>1 DEF Whole, Locked, FileStages
  <1>8. file' = file \/ undead = <<>>
    <2>1. CASE next[c] < Len(Counted)
      <3>1. Len(Counted) = nRec /\ nRec \in Nat /\ next[c] \in Nat
        BY <1>1, CountedPages DEF Inv, Types
      <3>2. nRec > 0
        BY <2>1, <3>1
      <3> QED
        BY <1>1, <3>2 DEF Inv, JournalOK, Ready, StoreInv, Lasting
    <2>2. CASE UNCHANGED files
      BY <2>2 DEF files
    <2> QED
      BY <2>1, <2>2 DEF PlayBack
  <1>9. Rest(c) /\ Same
    BY <1>1, <1>2, <1>7, <1>8, OthersRest, FallbackStays
  <1> QED
    BY <1>5, <1>6, <1>9, IsStutter

\* The journal of a commit is deleted: that is the commit.
LEMMA DeleteForCommit ==
    ASSUME Ready, Ready', NEW c \in Conns, DeleteJournal(c), Reader(c)
    PROVE  Simulates /\ c \in Writers /\ Recovered'[1] = Recovered[1] + 1
  <1>1. Inv /\ StepOf(c)
    BY DeleteJournalKeeps DEF Ready, StoreInv
  <1>2. /\ UNCHANGED <<file, cache, eState, goal>> /\ pc[c] = "delete journal"
        /\ recs' = <<>> /\ nRec' = 0
        /\ undead' = IF linked /\ safeRec > 0 THEN SubSeq(recs, 1, safeRec) ELSE undead
    BY DEF DeleteJournal, files, memory, At
  <1>3. Whole(c) /\ Types /\ JournalOK /\ Ahead
        /\ eState[c] \in {"OPEN", "READER", "LOCKED", "CACHEMOD", "DBMOD"}
    BY <1>1 DEF Inv, Types
  <1>4. eState[c] = "DBMOD" /\ ~Undoing(c)
    BY <1>2, <1>3 DEF Whole, Locked, Aimed, At, Reader
  <1>5. lock[c] = EXCLUSIVE_LOCK
    BY <1>3, <1>4 DEF Whole, Locked
  <1>6. nRec = safeRec /\ linked
    BY <1>2, <1>3, <1>4 DEF Whole, Synced, At
  <1>7. file[1] = Recovered[1] + 1
    BY <1>2, <1>3, <1>4 DEF Whole, Version, Undo, Ending, At
  <1>8. Journaled(1, safeRec)
    <2>1. Recovered[1] \in Int
      BY <1>3, RecoveredType
    <2>2. file[1] # Recovered[1]
      BY <1>7, <2>1
    <2> QED
      BY <1>3, <2>2, GoalsDiffer DEF Ahead
  <1>9. safeRec > 0 /\ safeRec \in Nat /\ safeRec <= Len(recs) /\ recs \in Seq(Record) /\ Len(recs) \in Nat
    BY <1>3, <1>8, Counts DEF Journaled
  <1>10. undead' = SubSeq(recs, 1, safeRec)
    BY <1>2, <1>6, <1>9
  <1>11. undead' # <<>>
    BY <1>9, <1>10
  <1>12. Recovered = Restore(SubSeq(recs, 1, safeRec), file)
    BY <1>6, <1>9 DEF Recovered, Counted, Least
  <1>13. Fallback' = Recovered
    BY <1>2, <1>10, <1>11, <1>12 DEF Fallback
  <1>14. Recovered' = file
    <2>1. Types' /\ JournalOK'
      BY <1>1 DEF StepOf, Inv
    <2>2. IsRecovery(file, recs', nRec', file')
      BY <1>2, <1>3, NothingCounted DEF Types
    <2> QED
      BY <2>1, <2>2, RecoveredNext
  <1>15. View(c) = file
    BY <1>2 DEF Ready, Sees, At
  <1>16. View(c)' = View(c)
    <2>1. FromFile(cache[c], Pages)' = FromFile(cache[c], Pages)
      BY <1>2 DEF FromFile
    <2> QED
      BY <1>2, <2>1 DEF View, Undoing
  <1>17. c \in Writers /\ c \notin Writers'
    <2>1. pc'[c] = "end"
      BY <1>3 DEF DeleteJournal, Goto, Types
    <2> QED
      BY <1>2, <1>4, <2>1 DEF Writers, At
  <1>18. Rest(c) /\ \A d \in Conns \ {c} : View(d) = NoView
    BY <1>1, <1>2, <1>5, OthersRest, AloneSees
  <1> QED
    BY <1>7, <1>13, <1>14, <1>15, <1>16, <1>17, <1>18, IsCommit DEF Ready

\* The journal of a rollback is deleted: the file is as it says.
LEMMA DeleteForRollback ==
    ASSUME Ready, Ready', NEW c \in Conns, DeleteJournal(c), ~Reader(c)
    PROVE  Simulates /\ Recovered' = Recovered
  <1>1. Inv /\ StepOf(c)
    BY DeleteJournalKeeps DEF Ready, StoreInv
  <1>2. /\ UNCHANGED <<file, cache, eState, goal>> /\ pc[c] = "delete journal"
        /\ recs' = <<>> /\ nRec' = 0
        /\ undead' = IF linked /\ safeRec > 0 THEN SubSeq(recs, 1, safeRec) ELSE undead
    BY DEF DeleteJournal, files, memory, At
  <1>3. Whole(c) /\ Types /\ JournalOK
    BY <1>1 DEF Inv
  <1>4. AsRecovered
    BY <1>2, <1>3 DEF Whole, Reads, Undo, Reader, At
  <1>5. Recovered = file
    <2>1. Recovered \in [Pages -> Int] /\ file \in [Pages -> Int]
      BY <1>3, RecoveredType DEF Types
    <2> QED
      BY <1>4, <2>1 DEF AsRecovered
  <1>6. Recovered' = file
    <2>1. Types' /\ JournalOK'
      BY <1>1 DEF StepOf, Inv
    <2>2. IsRecovery(file, recs', nRec', file')
      BY <1>2, <1>3, NothingCounted DEF Types
    <2> QED
      BY <2>1, <2>2, RecoveredNext
  <1>7. Fallback' = Fallback
    <2>1. CASE linked /\ safeRec > 0
      <3>1. undead = <<>>
        BY <2>1 DEF Ready, StoreInv, Lasting
      <3>2. /\ recs \in Seq(Record) /\ OncePerPage(recs) /\ safeRec \in Nat /\ nRec \in Nat
            /\ safeRec <= nRec /\ safeRec <= Len(recs) /\ Len(recs) \in Nat /\ file \in [Pages -> Int]
        BY <1>3, Counts DEF Types, JournalOK
      <3>3. IsRecovery(file, recs, nRec, file)
        BY <1>3, <1>5, Recovery
      <3>4. IsRecovery(file, recs, safeRec, file)
        BY <3>2, <3>3 DEF IsRecovery
      <3>5. IsRecovery(Restore(SubSeq(recs, 1, Least(safeRec, Len(recs))), file), recs, safeRec, file)
        BY <3>2, RecoveryIs
      <3>6. Least(safeRec, Len(recs)) = safeRec
        BY <3>2 DEF Least
      <3>7. Restore(SubSeq(recs, 1, safeRec), file) = file
        BY <3>4, <3>5, <3>6, OneRecovery
      <3>8. undead' = SubSeq(recs, 1, safeRec)
        BY <1>2, <2>1
      <3>9. Fallback' = file
        BY <1>2, <1>6, <3>7, <3>8 DEF Fallback
      <3> QED
        BY <1>5, <3>1, <3>9 DEF Fallback
    <2>2. CASE ~(linked /\ safeRec > 0)
      BY <1>2, <1>5, <1>6, <2>2 DEF Fallback
    <2> QED
      BY <2>1, <2>2
  <1>8. Rest(c)
    BY <1>1, <1>2, OthersRest
  <1>9. ~Reader(c)'
    BY <1>2 DEF Reader, Undoing
  <1>10. c \notin Writers /\ c \notin Writers' /\ View(c)' = View(c)
    BY <1>9, WritersRead DEF Ready, Sees
  <1> QED
    BY <1>5, <1>6, <1>7, <1>8, <1>10, IsStutter DEF Same

\* A death ends what the connection sees.
LEMMA DieSimulates ==
    ASSUME Ready, Ready', NEW c \in Conns, Die(c)
    PROVE  Simulates
  <1>1. Inv /\ Forget({c}) /\ UNCHANGED <<file, undead, recs, nRec>>
    BY DEF Ready, StoreInv, Die, files, journal
  <1>2. PICK dead \in SUBSET Conns : dead = {c}
    OBVIOUS
  <1>3. eState'[c] = "OPEN" /\ \A d \in Conns \ {c} : Kept(d)
    BY <1>1, <1>2, Forgotten DEF Inv
  <1>4. UNCHANGED Recovered
    BY <1>1 DEF Recovered, Counted
  <1>5. Same
    BY <1>1, <1>4, FallbackStays
  <1>6. Rest(c)
    <2>1. StepOf(c)
      BY <1>3 DEF Ready, StoreInv, StepOf
    <2> QED
      BY <1>1, <2>1, OthersRest
  <1>7. View(c)' = NoView /\ c \notin Writers'
    BY <1>3 DEF Ready, Sees, Reader, Writers
  <1>8. Views' = [Views EXCEPT ![c] = NoView]
    BY <1>6, <1>7, ViewsAfter
  <1>9. TheWriter' = IF TheWriter = c THEN NoConn ELSE TheWriter
    <2>1. CASE c \in Writers
      <3>1. TheWriter = c /\ Writers = {c}
        BY <2>1 DEF Ready, OneWriter
      <3>2. Writers' = {}
        BY <1>6, <1>7, <3>1, WritersAfter
      <3> QED
        BY <3>1, <3>2 DEF Ready, OneWriter
    <2>2. CASE c \notin Writers
      <3>1. TheWriter' = TheWriter
        BY <1>6, <1>7, <2>2, WritersAfter
      <3>2. TheWriter # c
        BY <2>2, PagerAssumption DEF Ready, OneWriter
      <3> QED
        BY <3>1, <3>2
    <2> QED
      BY <2>1, <2>2
  <1>10. Abstract!Die(c)
    BY <1>5, <1>8, <1>9 DEF Same, Abstract!Die
  <1> QED
    BY <1>10 DEF Simulates, Abstract!Next

\* After a power loss the journal that counts is the one before, the old one,
\* or none.
LEMMA PowerLossRecovers ==
    ASSUME Ready, Ready', PowerLoss
    PROVE  Recovered' \in {Recovered, Fallback}
  <1>1. /\ Types /\ JournalOK /\ Ahead /\ Types' /\ JournalOK'
        /\ \A p \in Pages \ unsynced : disk[p] = file[p]
    BY DEF Ready, StoreInv, Inv, Lasting
  <1>2. /\ recs \in Seq(Record) /\ OncePerPage(recs) /\ safeRec \in Nat /\ nRec \in Nat /\ safe \in Nat
        /\ safeRec <= nRec /\ nRec <= safe /\ safe <= Len(recs) /\ Len(recs) \in Nat
        /\ undead \in Seq(Record)
        /\ file \in [Pages -> Int] /\ file' \in [Pages -> Int]
    BY <1>1, Counts DEF Types, JournalOK
  <1>3. IsRecovery(Recovered, recs, nRec, file)
    BY <1>1, Recovery
  <1>4. \A p \in Pages : file'[p] \in Remains(p)
    BY DEF PowerLoss
  <1>5. ASSUME NEW p \in Pages, ~(linked /\ Journaled(p, safeRec))
        PROVE  file'[p] = Recovered[p] /\ file'[p] = file[p]
    <2>1. p \notin unsynced /\ file[p] = Recovered[p]
      BY <1>1, <1>5 DEF Ahead
    <2>2. disk[p] = file[p]
      BY <1>1, <2>1
    <2> QED
      BY <1>4, <2>1, <2>2 DEF Remains
  <1>6. Recovered \in [Pages -> Int]
    BY <1>3 DEF IsRecovery
  <1>7. ASSUME ~linked PROVE Recovered = file' /\ file = file'
    BY <1>2, <1>5, <1>6, <1>7
  <1>8. CASE JournalRemains
    <2>1. nRec' \in {safeRec, nRec}
      BY <1>8 DEF JournalRemains
    <2>2. PICK n \in safe .. Len(recs) : recs' = SubSeq(recs, 1, n)
      BY <1>8 DEF JournalRemains
    <2>3. \A k \in 1 .. nRec : recs'[k] = recs[k]
      BY <1>2, <2>2
    <2>4. PICK m \in Nat : m = nRec' /\ safeRec <= m /\ m <= nRec
      BY <1>2, <2>1
    <2>5. \A k \in 1 .. m : Recovered[recs'[k].page] = recs'[k].old
      BY SMTT(30), <1>2, <1>3, <2>3, <2>4 DEF IsRecovery
    <2>6. ASSUME NEW p \in Pages, \A k \in 1 .. m : recs'[k].page # p
          PROVE  Recovered[p] = file'[p]
      <3>1. ~Journaled(p, safeRec)
        <4>1. ASSUME NEW k \in 1 .. safeRec PROVE k \in 1 .. nRec /\ k \in 1 .. m
          BY <1>2, <2>4
        <4>2. ASSUME NEW k \in 1 .. safeRec PROVE recs[k].page # p
          BY <2>3, <2>6, <4>1
        <4> QED
          BY <4>2 DEF Journaled
      <3> QED
        BY <1>5, <3>1
    <2>7. IsRecovery(Recovered, recs', nRec', file')
      BY <1>6, <2>4, <2>5, <2>6 DEF IsRecovery
    <2> QED
      BY <1>1, <2>7, RecoveredNext
  <1>9. CASE OldJournalReturns
    <2>1. ~linked /\ undead # <<>> /\ recs' = undead /\ nRec' = Len(undead)
      BY <1>9 DEF OldJournalReturns
    <2>2. Len(undead) \in Nat /\ SubSeq(undead, 1, Len(undead)) = undead
      BY <1>2
    <2>3. Counted' = undead
      BY <2>1, <2>2 DEF Counted, Least
    <2>4. Recovered' = Restore(undead, file')
      BY <2>3 DEF Recovered
    <2> QED
      BY <1>7, <2>1, <2>4 DEF Fallback
  <1>10. CASE NoJournalRemains
    <2>1. ~linked /\ nRec' = 0
      BY <1>10 DEF NoJournalRemains
    <2>2. IsRecovery(file', recs', nRec', file')
      BY <1>2, <2>1, NothingCounted
    <2>3. Recovered' = file'
      BY <1>1, <2>2, RecoveredNext
    <2> QED
      BY <1>7, <2>1, <2>3
  <1> QED
    BY <1>8, <1>9, <1>10 DEF PowerLoss

\* A power loss is a crash of the store, to the committed version or the one
\* before it.
LEMMA PowerLossSimulates ==
    ASSUME Ready, Ready', PowerLoss
    PROVE  Simulates
  <1>1. Forget(Conns) /\ undead' = <<>>
    BY DEF PowerLoss
  <1>2. Fallback' = Recovered'
    BY <1>1 DEF Fallback
  <1>3. PICK dead \in SUBSET Conns : dead = Conns
    OBVIOUS
  <1>4. \A d \in Conns : eState'[d] = "OPEN"
    BY <1>1, <1>3, Forgotten DEF Ready, StoreInv, Inv
  <1>5. \A d \in Conns : View(d)' = NoView
    BY <1>4 DEF Ready, Sees, Reader
  <1>6. Views' = [d \in Conns |-> NoView]
    BY <1>5 DEF Views
  <1>7. Writers' = {}
    BY <1>4 DEF Writers
  <1>8. TheWriter' = NoConn
    BY <1>7 DEF Ready, OneWriter
  <1>9. Abstract!PowerLoss
    BY <1>2, <1>6, <1>8, PowerLossRecovers DEF Abstract!PowerLoss
  <1> QED
    BY <1>9 DEF Simulates, Abstract!Next

\* A new file is a new store.
LEMMA StoreInit == Init => Abstract!Init
  <1> SUFFICES ASSUME Init PROVE Abstract!Init
    OBVIOUS
  <1>1. undead = <<>> /\ \A c \in Conns : eState[c] = "OPEN"
    BY DEF Init
  <1>2. Fallback = Recovered
    BY <1>1 DEF Fallback
  <1>3. Views = [c \in Conns |-> NoView]
    BY <1>1 DEF Views, View
  <1>4. TheWriter = NoConn
    BY <1>1 DEF TheWriter, Writers
  <1> QED
    BY <1>2, <1>3, <1>4 DEF Abstract!Init

\* Every step is one of Store, or none.
LEMMA StepSimulates == Ready /\ Ready' /\ [Next]_vars => Simulates
  <1> SUFFICES ASSUME Ready, Ready', [Next]_vars PROVE Simulates
    OBVIOUS
  <1>1. ASSUME NEW c \in Conns,
               \/ SharedLock(c) \/ JournalExists(c) \/ CheckReserved(c) \/ FirstByte(c)
               \/ HotLock(c) \/ LookAgain(c) \/ SyncHotJournal(c) \/ CheckCounter(c)
               \/ Unlock(c) \/ Begin(c) \/ CommitUnchanged(c) \/ Commit(c)
        PROVE  Simulates
    BY <1>1, LookingSimulates, CheckCounterSimulates, UnlockSimulates, BeginSimulates,
       CommitUnchangedSimulates, CommitSimulates
  <1>2. ASSUME NEW c \in Conns,
               \/ ExclusiveLock(c) \/ SyncRecords(c) \/ WriteHeader(c) \/ SyncHeader(c)
               \/ WritePage(c) \/ SyncFile(c) \/ DeleteJournal(c) \/ EndTransaction(c)
               \/ Rollback(c) \/ PlayBack(c) \/ Die(c)
        PROVE  Simulates
    BY <1>2, JournalSimulates, SyncRecordsSimulates, WritePageSimulates, SyncFileSimulates,
       DeleteForCommit, DeleteForRollback, EndTransactionSimulates, RollbackSimulates,
       PlayBackSimulates, DieSimulates
  <1>3. ASSUME NEW c \in Conns, NEW p \in Pages,
               Get(c, p) \/ Recycle(c, p) \/ Write(c, p) \/ Spill(c, p)
        PROVE  Simulates
    BY <1>3, GetSimulates, RecycleSimulates, WriteSimulates, SpillSimulates
  <1>4. CASE PowerLoss
    BY <1>4, PowerLossSimulates
  <1>5. CASE UNCHANGED vars
    <2>1. UNCHANGED <<lock, reserved, eState, pc, goal, cache, dirty, vers, held, next, file, disk,
                      unsynced, there, recs, nRec, safe, safeRec, linked, undead, tx>>
      BY <1>5 DEF vars, locks, memory, call, files, journal
    <2>2. UNCHANGED <<Recovered, Fallback>>
      BY <2>1 DEF Recovered, Counted, Fallback
    <2>3. Writers' = Writers
      BY <2>1 DEF Writers, Undoing, At
    <2>4. ASSUME NEW c \in Conns PROVE View(c)' = View(c)
      <3>1. FromFile(cache[c], Pages)' = FromFile(cache[c], Pages)
        BY <2>1 DEF FromFile
      <3> QED
        BY <2>1, <3>1 DEF View, Undoing
    <2>5. Views' = Views /\ TheWriter' = TheWriter
      BY <2>3, <2>4 DEF Views, TheWriter
    <2> QED
      BY <2>2, <2>5 DEF Simulates, Abstract!vars
  <1> QED
    BY <1>1, <1>2, <1>3, <1>4, <1>5 DEF Next

(* Transactions are atomic, isolated and durable through every death and   *)
(* power loss, for any connections, pages, caches and transactions: what   *)
(* pager.c does with cache, journal and file are the steps of Store.       *)
THEOREM StoreImplemented == Spec => StoreSpec
  <1>1. Init => Abstract!Init
    BY StoreInit
  <1>2. Ready /\ Ready' /\ [Next]_vars => [Abstract!Next]_(Abstract!vars)
    BY StepSimulates DEF Simulates
  <1>3. Spec => []Ready
    BY StoreInvAlways, PTL DEF Ready
  <1> QED
    BY <1>1, <1>2, <1>3, PTL DEF Spec, StoreSpec, Abstract!Spec

-----------------------------------------------------------------------------
(***************************************************************************)
(* Pager uses the locks as FileLocks allows, and FileLocks excludes.       *)
(***************************************************************************)

\* Who is RESERVED has the right to prepare a write, which one connection has.
LockInv == /\ Locks!TypeOK /\ Locks!Exclusion
           /\ \A c \in Conns : lock[c] = Locks!RESERVED_LOCK => c \in reserved

(* The five levels exclude what os.h says they exclude, for any set of     *)
(* connections and any deaths: whatever UnixLocks implements.              *)
THEOREM LocksExclude == Locks!Spec => [](Locks!TypeOK /\ Locks!Exclusion)
  <1> USE DEF LockInv, Locks!TypeOK, Locks!Exclusion, Locks!Levels, Locks!NO_LOCK,
              Locks!SHARED_LOCK, Locks!RESERVED_LOCK, Locks!PENDING_LOCK, Locks!EXCLUSIVE_LOCK
  <1>1. Locks!Init => LockInv
    BY DEF Locks!Init
  <1>2. LockInv /\ [Locks!Next]_(Locks!vars) => LockInv'
    <2> SUFFICES ASSUME LockInv, [Locks!Next]_(Locks!vars) PROVE LockInv'
      OBVIOUS
    <2>1. ASSUME NEW c \in Conns, Locks!Share(c) PROVE LockInv'
      BY <2>1 DEF Locks!Share, Locks!Admitting, Locks!Raise
    <2>2. ASSUME NEW c \in Conns, Locks!Reserve(c) PROVE LockInv'
      BY <2>2 DEF Locks!Reserve, Locks!Raise
    <2>3. ASSUME NEW c \in Conns, Locks!Pend(c) PROVE LockInv'
      BY <2>3 DEF Locks!Pend, Locks!Admitting, Locks!Raise
    <2>4. ASSUME NEW c \in Conns, Locks!Exclude(c) PROVE LockInv'
      BY <2>4 DEF Locks!Exclude, Locks!Alone, Locks!Raise
    <2>5. ASSUME NEW c \in Conns, NEW level \in {Locks!NO_LOCK, Locks!SHARED_LOCK},
                 Locks!Lower(c, level)
          PROVE  LockInv'
      BY <2>5 DEF Locks!Lower
    <2>6. ASSUME NEW dead \in SUBSET Conns, Locks!Die(dead) PROVE LockInv'
      BY <2>6 DEF Locks!Die
    <2>7. CASE UNCHANGED Locks!vars
      BY <2>7 DEF Locks!vars
    <2> QED
      BY <2>1, <2>2, <2>3, <2>4, <2>5, <2>6, <2>7 DEF Locks!Next
  <1>3. LockInv => Locks!TypeOK /\ Locks!Exclusion
    OBVIOUS
  <1> QED
    BY <1>1, <1>2, <1>3, PTL DEF Locks!Spec

\* What a step does with the locks is a step of FileLocks or none.
LEMMA LockStep == [Next]_vars => [Locks!Next]_(Locks!vars)
  <1> SUFFICES ASSUME [Next]_vars PROVE Locks!Next \/ UNCHANGED Locks!vars
    OBVIOUS
  <1>1. UNCHANGED locks => UNCHANGED Locks!vars
    BY DEF locks, Locks!vars
  <1>2. ASSUME NEW c \in Conns,
               \/ Locks!Share(c) \/ Locks!Reserve(c) \/ Locks!Pend(c) \/ Locks!Exclude(c)
               \/ Locks!Lower(c, NO_LOCK) \/ Locks!Lower(c, SHARED_LOCK)
        PROVE  Locks!Next
    BY <1>2, LevelNames DEF Locks!Next
  <1>3. ASSUME NEW c \in Conns,
               \/ SharedLock(c) \/ HotLock(c) \/ LookAgain(c) \/ Unlock(c) \/ Begin(c)
               \/ CommitUnchanged(c) \/ ExclusiveLock(c) \/ EndTransaction(c)
        PROVE  \/ UNCHANGED locks
               \/ Locks!Share(c) \/ Locks!Reserve(c) \/ Locks!Pend(c) \/ Locks!Exclude(c)
               \/ Locks!Lower(c, NO_LOCK) \/ Locks!Lower(c, SHARED_LOCK)
    BY <1>3 DEF SharedLock, HotLock, LookAgain, Unlock, Begin, CommitUnchanged, ExclusiveLock,
                EndTransaction
  <1>4. ASSUME NEW c \in Conns,
               \/ JournalExists(c) \/ CheckReserved(c) \/ FirstByte(c) \/ SyncHotJournal(c)
               \/ CheckCounter(c) \/ Commit(c)
               \/ SyncRecords(c) \/ WriteHeader(c) \/ SyncHeader(c) \/ WritePage(c)
               \/ SyncFile(c) \/ DeleteJournal(c) \/ Rollback(c) \/ PlayBack(c)
               \/ \E p \in Pages : Get(c, p) \/ Recycle(c, p) \/ Write(c, p) \/ Spill(c, p)
        PROVE  UNCHANGED locks
    BY <1>4 DEF JournalExists, CheckReserved, FirstByte, SyncHotJournal, CheckCounter, Commit,
                SyncRecords, WriteHeader, SyncHeader, WritePage, SyncFile, DeleteJournal, Rollback,
                PlayBack, Get, Recycle, Write, Spill
  <1>5. ASSUME NEW dead \in SUBSET Conns, Forget(dead) PROVE Locks!Next
    BY <1>5 DEF Forget, Locks!Next
  <1>6. CASE UNCHANGED vars
    BY <1>1, <1>6 DEF vars
  <1>7. CASE PowerLoss
    BY <1>5, <1>7 DEF PowerLoss
  <1>8. ASSUME NEW c \in Conns, Die(c) PROVE Locks!Next
    BY <1>5, <1>8 DEF Die
  <1> QED
    BY <1>1, <1>2, <1>3, <1>4, <1>6, <1>7, <1>8 DEF Next

(* pager.c asks for locks only as FileLocks lets a connection: what        *)
(* FileLocks promises, and UnixLocks implements, is what it gets.          *)
THEOREM LocksUsed == Spec => Locks!Spec
  <1>1. Init => Locks!Init
    BY DEF Init
  <1> QED
    BY <1>1, LockStep, PTL DEF Spec, Locks!Spec

-----------------------------------------------------------------------------
(***************************************************************************)
(* The type of Pager with its bounds.  The change counter grows by one per *)
(* commit and every transaction is counted when it begins, so the counter  *)
(* never overtakes the transactions: MaxTx bounds them and nothing else,   *)
(* in particular not what a power loss may leave of a page.                *)
(***************************************************************************)

InFiles == \A p \in Pages : file[p] \in Contents /\ disk[p] \in Contents

InJournals == /\ \A k \in 1 .. Len(recs) : recs[k].old \in Contents
              /\ \A k \in 1 .. Len(undead) : undead[k].old \in Contents

InMemory == \A c \in Conns : /\ vers[c] \in Contents
                             /\ \A p \in DOMAIN cache[c] : cache[c][p] \in Contents

\* The counters of the committed version and of the one before it.
Counter == /\ tx <= MaxTx
           /\ Recovered[1] <= tx /\ Fallback[1] <= tx
           /\ Writers # {} => Recovered[1] < tx

BoundInv == Ready /\ InFiles /\ InJournals /\ InMemory /\ Counter

\* The committed version and the one before it hold numbers.
LEMMA VersionTypes ==
    ASSUME Inv
    PROVE  Recovered[1] \in Int /\ Fallback[1] \in Int /\ tx \in Nat /\ MaxTx \in Nat
  <1>1. Types /\ JournalOK /\ file \in [Pages -> Int]
    BY DEF Inv, Types
  <1>2. Recovered[1] \in Int /\ 1 \in Pages
    BY <1>1, RecoveredType
  <1>3. undead \in Seq(Record) /\ OncePerPage(undead) /\ Len(undead) \in Nat
    BY <1>1 DEF Types, JournalOK
  <1>4. Least(Len(undead), Len(undead)) = Len(undead) /\ SubSeq(undead, 1, Len(undead)) = undead
    BY <1>3 DEF Least
  <1>5. IsRecovery(Restore(undead, file), undead, Len(undead), file)
    <2> DEFINE n == Len(undead)
    <2>1. n <= Len(undead)
      BY <1>3
    <2>2. IsRecovery(Restore(SubSeq(undead, 1, Least(n, Len(undead))), file), undead, n, file)
      BY <1>1, <1>3, <2>1, RecoveryIs
    <2> QED
      BY <1>4, <2>2
  <1>6. Restore(undead, file)[1] \in Int
    BY <1>2, <1>5 DEF IsRecovery
  <1> QED
    BY <1>1, <1>2, <1>6, PagerAssumption DEF Fallback, Types

-----------------------------------------------------------------------------
(* The counter.                                                            *)

\* The version before is the one it was or the one that was committed, unless
\* a commit or a power loss replaces both.
LEMMA FallbackNext ==
    ASSUME Simulates
    PROVE  Fallback' \in {Fallback, Recovered, Recovered'}
  BY DEF Simulates, Abstract!vars, Abstract!Next, Abstract!Settle, Abstract!PowerLoss,
         Abstract!Begin, Abstract!End, Abstract!Claim, Abstract!Change, Abstract!Commit,
         Abstract!GiveUp, Abstract!Die

\* Who writes after a step of its own wrote before, or began.
LEMMA WriterBefore ==
    ASSUME Inv, NEW c \in Conns, c \in Writers',
           \/ SharedLock(c) \/ JournalExists(c) \/ CheckReserved(c) \/ FirstByte(c)
           \/ HotLock(c) \/ LookAgain(c) \/ SyncHotJournal(c) \/ CheckCounter(c)
           \/ Unlock(c) \/ CommitUnchanged(c) \/ Commit(c)
           \/ ExclusiveLock(c) \/ SyncRecords(c) \/ WriteHeader(c) \/ SyncHeader(c)
           \/ WritePage(c) \/ SyncFile(c) \/ DeleteJournal(c) \/ EndTransaction(c)
           \/ Rollback(c) \/ PlayBack(c)
           \/ \E p \in Pages : Get(c, p) \/ Recycle(c, p) \/ Write(c, p) \/ Spill(c, p)
    PROVE  c \in Writers
  <1>1. /\ Whole(c) /\ pc \in [Conns -> Stages] /\ goal \in [Conns -> Goals]
        /\ eState \in [Conns -> {"OPEN", "READER", "LOCKED", "CACHEMOD", "DBMOD"}]
    BY DEF Inv, Types
  <1>2. /\ eState'[c] \in {"LOCKED", "CACHEMOD", "DBMOD"}
        /\ pc'[c] # "end" /\ goal'[c] # ToRollBack
    BY DEF Writers, At, Undoing
  <1>3. CASE \/ SharedLock(c) \/ JournalExists(c) \/ CheckReserved(c) \/ FirstByte(c)
             \/ HotLock(c) \/ LookAgain(c) \/ SyncHotJournal(c)
             \/ SyncRecords(c) \/ WriteHeader(c) \/ SyncFile(c) \/ DeleteJournal(c)
    <2>1. eState' = eState /\ goal' = goal /\ pc[c] # "end"
      BY <1>3 DEF SharedLock, Idle, JournalExists, CheckReserved, FirstByte, HotLock, LookAgain,
         SyncHotJournal, SyncRecords, WriteHeader, SyncFile, DeleteJournal, At
    <2> QED
      BY <1>2, <2>1 DEF Writers, At, Undoing
  <1>4. CASE CheckCounter(c) \/ Unlock(c) \/ CommitUnchanged(c) \/ EndTransaction(c)
    <2>1. eState'[c] \in {"READER", "OPEN"}
      BY <1>1, <1>4 DEF CheckCounter, Unlock, CommitUnchanged, EndTransaction, Become
    <2> QED
      BY <1>2, <2>1
  <1>5. CASE Commit(c) \/ \E p \in Pages : Spill(c, p)
    <2>1. eState' = eState /\ pc[c] = "idle"
      BY <1>5 DEF Commit, Spill, At
    <2> QED
      BY <1>1, <1>2, <2>1 DEF Writers, Whole, Aimed, FileStages, At
  <1>6. CASE ExclusiveLock(c) \/ WritePage(c)
    <2>1. eState' = eState /\ pc[c] \in {"lock", "write pages"}
      BY <1>6 DEF ExclusiveLock, WritePage, At
    <2> QED
      BY <1>1, <1>2, <2>1 DEF Writers, Whole, Aimed, FileStages, At
  <1>7. CASE SyncHeader(c)
    <2>1. goal' = goal /\ pc[c] = "sync header"
      BY <1>7 DEF SyncHeader, At
    <2>2. eState[c] \in {"CACHEMOD", "DBMOD"}
      BY <1>1, <2>1 DEF Whole, Locked, JournalStages, At
    <2> QED
      BY <1>2, <2>1, <2>2 DEF Writers, At, Undoing
  <1>8. CASE Rollback(c)
    BY <1>1, <1>2, <1>8 DEF Rollback
  <1>9. CASE PlayBack(c)
    <2>1. eState' = eState /\ goal' = goal /\ pc[c] = "play back"
      BY <1>9 DEF PlayBack, At
    <2> QED
      BY <1>2, <2>1 DEF Writers, At, Undoing
  <1>10. CASE \E p \in Pages : Get(c, p) \/ Recycle(c, p)
    <2>1. eState' = eState /\ goal' = goal /\ pc[c] = "idle"
      BY <1>10 DEF Get, Recycle, At, call
    <2> QED
      BY <1>2, <2>1 DEF Writers, At, Undoing
  <1>11. CASE \E p \in Pages : Write(c, p)
    <2>1. eState[c] \in {"LOCKED", "CACHEMOD", "DBMOD"} /\ goal' = goal /\ pc[c] = "idle"
      BY <1>11 DEF Write, At
    <2> QED
      BY <1>2, <2>1 DEF Writers, At, Undoing
  <1> QED
    BY <1>3, <1>4, <1>5, <1>6, <1>7, <1>8, <1>9, <1>10, <1>11

\* A step of one connection that leaves the committed version.
LEMMA CounterStays ==
    ASSUME Ready, Counter, NEW c \in Conns, StepOf(c), Simulates, Recovered' = Recovered, tx' = tx,
           c \in Writers' => c \in Writers
    PROVE  Counter'
  <1>1. Writers' \subseteq Writers
    <2>1. ASSUME NEW d \in Conns \ {c}, d \in Writers' PROVE d \in Writers
      BY <2>1 DEF StepOf, Kept, Writers, At, Undoing
    <2> QED
      BY <2>1 DEF Writers
  <1>2. Fallback' \in {Fallback, Recovered}
    BY FallbackNext
  <1> QED
    BY <1>1, <1>2 DEF Counter

\* The steps that neither begin nor end a transaction in the file.
LEMMA CounterKept ==
    ASSUME Ready, Ready', Counter, NEW c \in Conns,
           \/ SharedLock(c) \/ JournalExists(c) \/ CheckReserved(c) \/ FirstByte(c)
           \/ HotLock(c) \/ LookAgain(c) \/ SyncHotJournal(c) \/ CheckCounter(c)
           \/ Unlock(c) \/ CommitUnchanged(c) \/ Commit(c)
           \/ ExclusiveLock(c) \/ SyncRecords(c) \/ WriteHeader(c) \/ SyncHeader(c)
           \/ WritePage(c) \/ SyncFile(c) \/ EndTransaction(c)
           \/ Rollback(c) \/ PlayBack(c)
           \/ \E p \in Pages : Get(c, p) \/ Recycle(c, p) \/ Write(c, p) \/ Spill(c, p)
    PROVE  Counter'
  <1>1. Inv
    BY DEF Ready, StoreInv
  <1>2. StepOf(c) /\ Recovered' = Recovered
    BY <1>1, SharedLockKeeps, JournalExistsKeeps, CheckReservedKeeps, FirstByteKeeps, HotLockKeeps,
       LookAgainKeeps, SyncHotJournalKeeps, CheckCounterKeeps, UnlockKeeps, CommitUnchangedKeeps,
       CommitKeeps, ExclusiveLockKeeps, SyncRecordsKeeps, WriteHeaderKeeps, SyncHeaderKeeps,
       WritePageKeeps, SyncFileKeeps, EndTransactionKeeps, RollbackKeeps, PlayBackKeeps,
       GetKeeps, RecycleKeeps, WriteKeeps, SpillKeeps
  <1>3. Simulates
    BY StepSimulates DEF Next
  <1>4. tx' = tx
    BY DEF SharedLock, JournalExists, CheckReserved, FirstByte, HotLock, LookAgain, SyncHotJournal,
       CheckCounter, Unlock, CommitUnchanged, Commit, ExclusiveLock, SyncRecords, WriteHeader,
       SyncHeader, WritePage, SyncFile, EndTransaction, Rollback, PlayBack, Get, Recycle, Write,
       Spill
  <1>5. c \in Writers' => c \in Writers
    BY <1>1, WriterBefore
  <1> QED
    BY <1>2, <1>3, <1>4, <1>5, CounterStays

\* A transaction begins: it is counted before it can commit.
LEMMA CounterBegins ==
    ASSUME Ready, Ready', Counter, NEW c \in Conns, Begin(c)
    PROVE  Counter'
  <1>1. Inv /\ Recovered' = Recovered
    BY BeginKeeps DEF Ready, StoreInv
  <1>2. tx < MaxTx /\ tx' = tx + 1
    BY DEF Begin
  <1>3. Fallback' \in {Fallback, Recovered}
    BY <1>1, StepSimulates, FallbackNext DEF Next
  <1>4. Recovered[1] \in Int /\ Fallback[1] \in Int /\ tx \in Nat /\ MaxTx \in Nat
    BY <1>1, VersionTypes
  <1>5. Fallback'[1] <= tx
    BY <1>3 DEF Counter
  <1>6. Fallback'[1] \in Int
    BY <1>3, <1>4
  <1> QED
    BY <1>1, <1>2, <1>4, <1>5, <1>6 DEF Counter

\* A commit adds one, for a transaction that was counted.
LEMMA CounterCommits ==
    ASSUME Ready, Ready', Counter, NEW c \in Conns, DeleteJournal(c)
    PROVE  Counter'
  <1>1. Inv /\ StepOf(c)
    BY DeleteJournalKeeps DEF Ready, StoreInv
  <1>2. Simulates /\ tx' = tx
    BY StepSimulates DEF Next, DeleteJournal
  <1>3. CASE ~Reader(c)
    <2>1. Recovered' = Recovered /\ (c \in Writers' => c \in Writers)
      BY <1>1, <1>3, DeleteForRollback, WriterBefore
    <2> QED
      BY <1>1, <1>2, <2>1, CounterStays
  <1>4. CASE Reader(c)
    <2>1. c \in Writers /\ Recovered'[1] = Recovered[1] + 1
      BY <1>4, DeleteForCommit
    <2>2. Writers = {c}
      BY <2>1 DEF Ready, OneWriter
    <2>3. c \notin Writers'
      <3>1. pc'[c] = "end"
        BY <1>1 DEF DeleteJournal, Goto, Inv, Types
      <3> QED
        BY <3>1 DEF Writers, At
    <2>4. Writers' = {}
      <3>1. ASSUME NEW d \in Conns \ {c}, d \in Writers' PROVE d \in Writers
        BY <1>1, <3>1 DEF StepOf, Kept, Writers, At, Undoing
      <3> QED
        BY <2>2, <2>3, <3>1 DEF Writers
    <2>5. Recovered[1] \in Int /\ tx \in Nat
      BY <1>1, VersionTypes
    <2>6. Recovered'[1] <= tx
      BY <2>1, <2>2, <2>5 DEF Counter
    <2>7. Recovered[1] <= tx /\ Fallback[1] <= tx /\ tx <= MaxTx
      BY DEF Counter
    <2>8. Fallback'[1] <= tx
      BY <1>2, <2>6, <2>7, FallbackNext
    <2> QED
      BY <1>2, <2>4, <2>6, <2>7, <2>8 DEF Counter
  <1> QED
    BY <1>3, <1>4

\* Deaths and power losses take transactions away.
LEMMA CounterFails ==
    ASSUME Ready, Ready', Counter,
           PowerLoss \/ (\E c \in Conns : Die(c)) \/ UNCHANGED vars
    PROVE  Counter'
  <1>1. CASE PowerLoss
    <2>1. Recovered' \in {Recovered, Fallback} /\ Fallback' = Recovered' /\ tx' = tx
      BY <1>1, PowerLossRecovers DEF PowerLoss, Fallback
    <2>2. Writers' = {}
      <3>1. \A c \in Conns : eState'[c] = "OPEN"
        BY <1>1 DEF PowerLoss, Forget
      <3> QED
        BY <3>1 DEF Writers
    <2> QED
      BY <2>1, <2>2 DEF Counter
  <1>2. ASSUME NEW c \in Conns, Die(c) PROVE Counter'
    <2>1. Forget({c}) /\ UNCHANGED <<file, undead, recs, nRec, tx>>
      BY <1>2 DEF Die, files, journal
    <2>2. UNCHANGED <<Recovered, Fallback>>
      BY <2>1 DEF Recovered, Counted, Fallback
    <2>3. Writers' \subseteq Writers
      <3>1. ASSUME NEW d \in Writers' PROVE d \in Writers
        <4>1. d \in Conns /\ eState'[d] # "OPEN"
          BY <3>1 DEF Writers
        <4>2. d # c
          BY <2>1, <4>1 DEF Forget
        <4>3. eState'[d] = eState[d] /\ pc'[d] = pc[d] /\ goal'[d] = goal[d]
          BY <2>1, <4>1, <4>2 DEF Forget
        <4> QED
          BY <4>3 DEF Writers, At, Undoing
      <3> QED
        BY <3>1
    <2> QED
      BY <2>1, <2>2, <2>3 DEF Counter
  <1>3. CASE UNCHANGED vars
    <2>1. UNCHANGED <<eState, pc, goal, file, recs, nRec, undead, tx>>
      BY <1>3 DEF vars, call, files, journal
    <2>2. UNCHANGED <<Recovered, Fallback, Writers>>
      BY <2>1 DEF Recovered, Counted, Fallback, Writers, At, Undoing
    <2> QED
      BY <2>1, <2>2 DEF Counter
  <1> QED
    BY <1>1, <1>2, <1>3

-----------------------------------------------------------------------------
(* The contents.  Every step copies contents from where they were, but for *)
(* the number of a transaction and the next value of the counter.          *)

\* The counter can be counted on while there is a writer, and there is room
\* for what a transaction writes.
LEMMA RoomToWrite ==
    ASSUME BoundInv, NEW c \in Conns
    PROVE  /\ eState[c] \in {"LOCKED", "CACHEMOD", "DBMOD"} => tx \in Contents
           /\ eState[c] \in {"CACHEMOD", "DBMOD"} /\ At(c, "idle") => vers[c] + 1 \in Contents
  <1>1. Inv /\ Whole(c) /\ vers[c] \in Contents
    BY DEF BoundInv, Ready, StoreInv, Inv, InMemory
  <1>2. Recovered[1] \in Int /\ tx \in Nat /\ MaxTx \in Nat /\ tx <= MaxTx
    BY <1>1, VersionTypes DEF BoundInv, Counter
  <1>3. ASSUME eState[c] \in {"CACHEMOD", "DBMOD"}, At(c, "idle")
        PROVE  vers[c] + 1 \in Contents
    <2>1. ~Undoing(c)
      BY <1>1, <1>3 DEF Whole, Aimed, FileStages, At
    <2>2. c \in Writers
      BY <1>3, <2>1 DEF Writers, At
    <2>3. vers[c] = Recovered[1]
      BY <1>1, <1>3 DEF Whole, Version, Ending, At
    <2>4. Recovered[1] < tx
      BY <2>2 DEF BoundInv, Counter
    <2> QED
      BY <1>1, <1>2, <2>3, <2>4 DEF Contents
  <1> QED
    BY <1>2, <1>3 DEF Contents

\* The files.
LEMMA FilesKept == BoundInv /\ Ready' /\ [Next]_vars => InFiles'
  <1> SUFFICES ASSUME BoundInv, [Next]_vars PROVE InFiles'
    OBVIOUS
  <1>1. Types /\ InFiles /\ InJournals /\ InMemory
    BY DEF BoundInv, Ready, StoreInv, Inv
  <1>2. CASE UNCHANGED files
    BY <1>1, <1>2 DEF InFiles, files
  <1>3. ASSUME NEW p \in Pages, NEW content \in Contents, PutPage(p, content) PROVE InFiles'
    BY <1>1, <1>3 DEF InFiles, PutPage, Types
  <1>4. ASSUME NEW c \in Conns, WritePage(c) PROVE InFiles'
    <2>1. PICK p \in IF goal[c] = ToCommit THEN dirty[c] ELSE {goal[c]} : PutPage(p, cache[c][p])
      BY <1>4 DEF WritePage
    <2>2. p \in dirty[c] /\ Whole(c)
      <3>1. Whole(c) /\ pc[c] = "write pages"
        BY <1>4 DEF BoundInv, Ready, StoreInv, Inv, WritePage, At
      <3> QED
        BY <2>1, <3>1 DEF Whole, Synced, At
    <2>3. p \in DOMAIN cache[c] /\ p \in Pages
      BY <1>1, <2>2 DEF Whole, Version, Types
    <2> QED
      BY <1>1, <1>3, <2>1, <2>3 DEF InMemory
  <1>5. ASSUME NEW c \in Conns, SyncFile(c) PROVE InFiles'
    BY <1>1, <1>5 DEF InFiles, SyncFile
  <1>6. ASSUME NEW c \in Conns, PlayBack(c) PROVE InFiles'
    <2>1. CASE UNCHANGED files
      BY <1>2, <2>1
    <2>2. CASE next[c] < Len(Counted) /\ PutPage(recs[next[c] + 1].page, recs[next[c] + 1].old)
      <3>1. next[c] \in Nat /\ nRec \in Nat /\ Len(recs) \in Nat /\ nRec <= Len(recs)
            /\ recs \in Seq(Record)
        BY <1>1, Counts DEF Types, BoundInv, Ready, StoreInv, Inv, JournalOK
      <3>2. Len(Counted) = nRec
        BY <3>1 DEF Counted, Least
      <3>3. next[c] + 1 \in 1 .. Len(recs)
        BY <2>2, <3>1, <3>2
      <3>4. recs[next[c] + 1] \in Record /\ recs[next[c] + 1].old \in Contents
        BY <1>1, <3>1, <3>3 DEF InJournals
      <3> QED
        BY <1>3, <2>2, <3>4 DEF Record
    <2> QED
      BY <1>6, <2>1, <2>2 DEF PlayBack
  <1>7. CASE PowerLoss
    BY <1>7 DEF PowerLoss, InFiles
  <1>8. ASSUME NEW c \in Conns,
               \/ SharedLock(c) \/ JournalExists(c) \/ CheckReserved(c) \/ FirstByte(c)
               \/ HotLock(c) \/ LookAgain(c) \/ SyncHotJournal(c) \/ CheckCounter(c)
               \/ Unlock(c) \/ Begin(c) \/ CommitUnchanged(c) \/ Commit(c)
               \/ ExclusiveLock(c) \/ SyncRecords(c) \/ WriteHeader(c) \/ SyncHeader(c)
               \/ DeleteJournal(c) \/ EndTransaction(c) \/ Rollback(c) \/ Die(c)
               \/ \E p \in Pages : Get(c, p) \/ Recycle(c, p) \/ Write(c, p) \/ Spill(c, p)
        PROVE  UNCHANGED files
    BY <1>8 DEF SharedLock, JournalExists, CheckReserved, FirstByte, HotLock, LookAgain,
       SyncHotJournal, CheckCounter, Unlock, Begin, CommitUnchanged, Commit, ExclusiveLock,
       SyncRecords, WriteHeader, SyncHeader, DeleteJournal, EndTransaction, Rollback, Die, Get,
       Recycle, Write, Spill
  <1>9. UNCHANGED vars => UNCHANGED files
    BY DEF vars
  <1> QED
    BY <1>2, <1>4, <1>5, <1>6, <1>7, <1>8, <1>9 DEF Next

\* The journals.
LEMMA JournalsKept == BoundInv /\ Ready' /\ [Next]_vars => InJournals'
  <1> SUFFICES ASSUME BoundInv, Ready', [Next]_vars PROVE InJournals'
    OBVIOUS
  <1>1. /\ Types /\ InFiles /\ InJournals /\ InMemory
        /\ recs \in Seq(Record) /\ undead \in Seq(Record)
        /\ Len(recs) \in Nat /\ Len(undead) \in Nat
    <2>1. Types /\ InFiles /\ InJournals /\ InMemory
      BY DEF BoundInv, Ready, StoreInv, Inv
    <2>2. recs \in Seq(Record) /\ undead \in Seq(Record)
      BY <2>1 DEF Types
    <2> QED
      BY <2>1, <2>2
  <1>2. CASE UNCHANGED <<recs, undead>>
    BY <1>1, <1>2 DEF InJournals
  <1>3. ASSUME NEW c \in Conns, NEW p \in DOMAIN cache[c], AddToJournal(c, p), undead' = undead
        PROVE  InJournals'
    <2> DEFINE old == IF eState[c] = "LOCKED" THEN <<>> ELSE recs
    <2>1. old \in Seq(Record) /\ Len(old) \in Nat /\ \A k \in 1 .. Len(old) : old[k].old \in Contents
      BY <1>1 DEF InJournals
    <2>2. recs' = old \/ recs' = Append(old, [page |-> p, old |-> cache[c][p]])
      BY <1>3 DEF AddToJournal
    <2>3. cache[c][p] \in Contents
      BY <1>1 DEF InMemory
    <2> HIDE DEF old
    <2>4. ASSUME NEW r, r.old \in Contents, NEW k \in 1 .. Len(Append(old, r))
          PROVE  Append(old, r)[k].old \in Contents
      BY <2>1, <2>4
    <2>5. \A k \in 1 .. Len(recs') : recs'[k].old \in Contents
      BY <2>1, <2>2, <2>3, <2>4
    <2> QED
      BY <1>1, <1>3, <2>5 DEF InJournals
  <1>4. ASSUME NEW n \in Nat, n <= Len(recs)
        PROVE  \A k \in 1 .. Len(SubSeq(recs, 1, n)) : SubSeq(recs, 1, n)[k].old \in Contents
    BY <1>1, <1>4 DEF InJournals
  <1>5. \A k \in 1 .. Len(<<>>) : <<>>[k].old \in Contents
    OBVIOUS
  <1>6. ASSUME NEW c \in Conns, Commit(c) PROVE InJournals'
    <2>1. AddToJournal(c, 1) /\ undead' = undead /\ eState[c] # "OPEN"
      BY <1>6 DEF Commit
    <2>2. 1 \in DOMAIN cache[c]
      BY <2>1 DEF BoundInv, Ready, StoreInv, Inv, Whole, Version
    <2> QED
      BY <1>3, <2>1, <2>2
  <1>7. ASSUME NEW c \in Conns, NEW p \in Pages, Write(c, p) PROVE InJournals'
    BY <1>3, <1>7 DEF Write
  <1>8. ASSUME NEW c \in Conns, SyncRecords(c) PROVE InJournals'
    BY <1>1, <1>5, <1>8 DEF SyncRecords, InJournals
  <1>9. ASSUME NEW c \in Conns, DeleteJournal(c) PROVE InJournals'
    <2>1. recs' = <<>> /\ undead' \in {SubSeq(recs, 1, safeRec), undead}
      BY <1>9 DEF DeleteJournal
    <2>2. safeRec \in Nat /\ safeRec <= Len(recs)
      BY Counts DEF BoundInv, Ready, StoreInv, Inv
    <2> QED
      BY <1>1, <1>4, <1>5, <2>1, <2>2 DEF InJournals
  <1>10. CASE PowerLoss
    <2>1. undead' = <<>>
      BY <1>10 DEF PowerLoss
    <2>2. \A k \in 1 .. Len(recs') : recs'[k].old \in Contents
      <3>1. CASE JournalRemains
        <4>1. safe \in Nat
          BY <1>1 DEF Types
        <4>2. PICK n \in safe .. Len(recs) : recs' = SubSeq(recs, 1, n)
          BY <3>1 DEF JournalRemains
        <4>3. n \in Nat /\ n <= Len(recs)
          BY <1>1, <4>1
        <4> QED
          BY <1>4, <4>2, <4>3
      <3>2. CASE OldJournalReturns
        BY <1>1, <3>2 DEF OldJournalReturns, InJournals
      <3>3. CASE NoJournalRemains
        BY <1>5, <3>3 DEF NoJournalRemains
      <3> QED
        BY <1>10, <3>1, <3>2, <3>3 DEF PowerLoss
    <2> QED
      BY <1>5, <2>1, <2>2 DEF InJournals
  <1>11. ASSUME NEW c \in Conns,
                \/ SharedLock(c) \/ JournalExists(c) \/ CheckReserved(c) \/ FirstByte(c)
                \/ HotLock(c) \/ LookAgain(c) \/ SyncHotJournal(c) \/ CheckCounter(c)
                \/ Unlock(c) \/ Begin(c) \/ CommitUnchanged(c)
                \/ ExclusiveLock(c) \/ WriteHeader(c) \/ SyncHeader(c) \/ WritePage(c)
                \/ SyncFile(c) \/ EndTransaction(c) \/ Rollback(c) \/ PlayBack(c) \/ Die(c)
                \/ \E p \in Pages : Get(c, p) \/ Recycle(c, p) \/ Spill(c, p)
         PROVE  UNCHANGED <<recs, undead>>
    BY <1>11 DEF SharedLock, JournalExists, CheckReserved, FirstByte, HotLock, LookAgain,
       SyncHotJournal, CheckCounter, Unlock, Begin, CommitUnchanged, ExclusiveLock, WriteHeader,
       SyncHeader, WritePage, SyncFile, EndTransaction, Rollback, PlayBack, Die, Get, Recycle,
       Spill, journal
  <1>12. UNCHANGED vars => UNCHANGED <<recs, undead>>
    BY DEF vars, journal
  <1> QED
    BY <1>2, <1>6, <1>7, <1>8, <1>9, <1>10, <1>11, <1>12 DEF Next

\* The memory of a connection after a step of its own.
LEMMA NewMemory ==
    ASSUME InMemory, DOMAIN cache = Conns, vers \in [Conns -> Int], NEW c \in Conns,
           NEW pages, NEW v \in Contents, \A p \in DOMAIN pages : pages[p] \in Contents,
           cache' = [cache EXCEPT ![c] = pages], vers' = [vers EXCEPT ![c] = v]
    PROVE  InMemory'
  <1>1. \A d \in Conns : cache'[d] = (IF d = c THEN pages ELSE cache[d])
                         /\ vers'[d] = (IF d = c THEN v ELSE vers[d])
    OBVIOUS
  <1> QED
    BY <1>1 DEF InMemory

\* The same, when the version stays.
LEMMA NewPages ==
    ASSUME InMemory, DOMAIN cache = Conns, vers \in [Conns -> Int], NEW c \in Conns,
           NEW pages, \A p \in DOMAIN pages : pages[p] \in Contents,
           cache' = [cache EXCEPT ![c] = pages], vers' = vers
    PROVE  InMemory'
  <1>1. vers[c] \in Contents /\ vers' = [vers EXCEPT ![c] = vers[c]]
    BY DEF InMemory
  <1> QED
    BY <1>1, NewMemory

\* Pages read from the file.
LEMMA ReadContents ==
    ASSUME InFiles, NEW pages, \A p \in DOMAIN pages : pages[p] \in Contents,
           NEW more, more \subseteq Pages
    PROVE  \A p \in DOMAIN FromFile(pages, more) : FromFile(pages, more)[p] \in Contents
  BY DEF InFiles, FromFile

\* The memories.
LEMMA MemoryKept == BoundInv /\ Ready' /\ [Next]_vars => InMemory'
  <1> SUFFICES ASSUME BoundInv, Ready', [Next]_vars PROVE InMemory'
    OBVIOUS
  <1>1. Types /\ JournalOK /\ InFiles /\ InJournals /\ InMemory
    BY DEF BoundInv, Ready, StoreInv, Inv
  <1>2. DOMAIN cache = Conns /\ vers \in [Conns -> Int] /\ recs \in Seq(Record) /\ tx \in Nat
    BY <1>1 DEF Types
  <1>3. 0 \in Contents /\ 1 \in Pages /\ DOMAIN <<>> = {}
    BY <1>1, <1>2, RecoveredType, PagerAssumption DEF Contents
  <1>4. CASE UNCHANGED <<cache, vers>>
    BY <1>1, <1>4 DEF InMemory
  <1>5. ASSUME NEW c \in Conns, CheckCounter(c) PROVE InMemory'
    <2> DEFINE kept == IF held[c] /\ vers[c] # file[1] THEN <<>> ELSE cache[c]
    <2>1. \A p \in DOMAIN kept : kept[p] \in Contents
      BY <1>1, <1>3 DEF InMemory
    <2>2. /\ cache' = [cache EXCEPT ![c] = FromFile(kept, {1})]
          /\ vers' = [vers EXCEPT ![c] = IF 1 \in DOMAIN kept THEN vers[c] ELSE file[1]]
      BY <1>5 DEF CheckCounter, Cache
    <2> HIDE DEF kept
    <2>3. (IF 1 \in DOMAIN kept THEN vers[c] ELSE file[1]) \in Contents
      BY <1>1, <1>3 DEF InMemory, InFiles
    <2>4. \A p \in DOMAIN FromFile(kept, {1}) : FromFile(kept, {1})[p] \in Contents
      BY <1>1, <1>3, <2>1, ReadContents
    <2> QED
      BY <1>1, <1>2, <2>2, <2>3, <2>4, NewMemory
  <1>6. ASSUME NEW c \in Conns, NEW p \in Pages, Get(c, p) PROVE InMemory'
    <2>1. cache' = [cache EXCEPT ![c] = FromFile(cache[c], {p})] /\ vers' = vers
      BY <1>6 DEF Get, Cache
    <2>2. \A q \in DOMAIN FromFile(cache[c], {p}) : FromFile(cache[c], {p})[q] \in Contents
      BY <1>1, ReadContents DEF InMemory
    <2> QED
      BY <1>1, <1>2, <2>1, <2>2, NewPages
  <1>7. ASSUME NEW c \in Conns, NEW p \in Pages,
               cache' = [cache EXCEPT ![c] = [q \in DOMAIN cache[c] \ {p} |-> cache[c][q]]],
               vers' = vers
        PROVE  InMemory'
    <2> DEFINE pages == [q \in DOMAIN cache[c] \ {p} |-> cache[c][q]]
    <2>1. \A q \in DOMAIN pages : pages[q] \in Contents
      BY <1>1 DEF InMemory
    <2> QED
      BY <1>1, <1>2, <1>7, <2>1, NewPages
  <1>8. ASSUME NEW c \in Conns, NEW p \in Pages, Recycle(c, p) PROVE InMemory'
    BY <1>7, <1>8 DEF Recycle, Cache
  <1>9. ASSUME NEW c \in Conns, NEW p \in Pages, NEW content \in Contents,
               cache' = [cache EXCEPT ![c] = [cache[c] EXCEPT ![p] = content]], vers' = vers
        PROVE  InMemory'
    <2> DEFINE pages == [cache[c] EXCEPT ![p] = content]
    <2>1. \A q \in DOMAIN pages : pages[q] \in Contents
      BY <1>1, <1>9 DEF InMemory
    <2> QED
      BY <1>1, <1>2, <1>9, <2>1, NewPages
  <1>10. ASSUME NEW c \in Conns, NEW p \in Pages, Write(c, p) PROVE InMemory'
    <2>1. /\ eState[c] \in {"LOCKED", "CACHEMOD", "DBMOD"} /\ vers' = vers
          /\ cache' = [cache EXCEPT ![c] = [cache[c] EXCEPT ![p] = tx]]
      BY <1>10 DEF Write, Cache
    <2>2. tx \in Contents
      BY <2>1, RoomToWrite
    <2> QED
      BY <1>9, <2>1, <2>2
  <1>11. ASSUME NEW c \in Conns, Commit(c) PROVE InMemory'
    <2>1. /\ eState[c] \in {"CACHEMOD", "DBMOD"} /\ At(c, "idle") /\ vers' = vers
          /\ cache' = [cache EXCEPT ![c] = [cache[c] EXCEPT ![1] = vers[c] + 1]]
      BY <1>11 DEF Commit, Cache
    <2>2. vers[c] + 1 \in Contents
      BY <2>1, RoomToWrite
    <2> QED
      BY <1>3, <1>9, <2>1, <2>2
  <1>12. ASSUME NEW c \in Conns, WritePage(c) PROVE InMemory'
    <2>1. PICK p \in IF goal[c] = ToCommit THEN dirty[c] ELSE {goal[c]} :
              IF goal[c] = ToCommit
              THEN /\ vers' = [vers EXCEPT ![c] = IF p = 1 THEN cache[c][1] ELSE @]
                   /\ UNCHANGED cache
              ELSE /\ Cache(c, [q \in DOMAIN cache[c] \ {p} |-> cache[c][q]])
                   /\ UNCHANGED vers
      BY <1>12 DEF WritePage
    <2>2. p \in dirty[c] /\ Whole(c)
      <3>1. Whole(c) /\ pc[c] = "write pages"
        BY <1>12 DEF BoundInv, Ready, StoreInv, Inv, WritePage, At
      <3> QED
        BY <2>1, <3>1 DEF Whole, Synced, At
    <2>3. p \in DOMAIN cache[c] /\ p \in Pages
      BY <1>1, <2>2 DEF Whole, Version, Types
    <2>4. CASE goal[c] = ToCommit
      <3>1. cache' = cache
        BY <2>1, <2>4
      <3>2. vers' = [vers EXCEPT ![c] = IF p = 1 THEN cache[c][1] ELSE vers[c]]
        BY <2>1, <2>4
      <3>3. (IF p = 1 THEN cache[c][1] ELSE vers[c]) \in Contents
        BY <1>1, <2>3 DEF InMemory
      <3>4. \A d \in Conns : vers'[d] \in Contents
        BY <1>1, <1>2, <3>2, <3>3 DEF InMemory
      <3> QED
        BY <1>1, <3>1, <3>4 DEF InMemory
    <2>5. CASE goal[c] # ToCommit
      BY <1>7, <2>1, <2>3, <2>5 DEF Cache
    <2> QED
      BY <2>4, <2>5
  <1>13. ASSUME NEW c \in Conns, Rollback(c) PROVE InMemory'
    <2> DEFINE back == Restore(recs, cache[c])
    <2>1. cache' = [cache EXCEPT ![c] = back] /\ vers' = [vers EXCEPT ![c] = back[1]]
      BY <1>13 DEF Rollback, Cache
    <2>2. DOMAIN back = DOMAIN cache[c] /\ 1 \in DOMAIN cache[c]
      <3>1. eState[c] # "OPEN" /\ Version(c)
        BY <1>13 DEF Rollback, BoundInv, Ready, StoreInv, Inv, Whole
      <3>2. 1 \in DOMAIN cache[c]
        BY <3>1 DEF Version
      <3> QED
        BY <3>2 DEF Restore
    <2>3. /\ \A k \in 1 .. Len(recs) :
                 recs[k].page \in DOMAIN cache[c] => back[recs[k].page] = recs[k].old
          /\ \A p \in DOMAIN cache[c] :
                 (\A k \in 1 .. Len(recs) : recs[k].page # p) => back[p] = cache[c][p]
      BY <1>1, <1>2, RestoreIs DEF JournalOK
    <2> HIDE DEF back
    <2>4. \A p \in DOMAIN back : back[p] \in Contents
      BY <1>1, <2>2, <2>3 DEF InJournals, InMemory
    <2> QED
      BY <1>1, <1>2, <2>1, <2>2, <2>4, NewMemory
  <1>14. ASSUME NEW c \in Conns, PlayBack(c) PROVE InMemory'
    <2>1. vers' = vers /\ (cache' = [cache EXCEPT ![c] = <<>>] \/ cache' = cache)
      BY <1>14 DEF PlayBack, Cache
    <2> QED
      BY <1>1, <1>2, <1>3, <1>4, <2>1, NewPages
  <1>15. ASSUME NEW dead, Forget(dead) PROVE InMemory'
    <2>1. /\ cache' = [c \in Conns |-> IF c \in dead THEN <<>> ELSE cache[c]]
          /\ vers' = [c \in Conns |-> IF c \in dead THEN 0 ELSE vers[c]]
      BY <1>15 DEF Forget
    <2> QED
      BY <1>1, <1>3, <2>1 DEF InMemory
  <1>16. CASE PowerLoss \/ \E c \in Conns : Die(c)
    BY <1>15, <1>16 DEF PowerLoss, Die
  <1>17. ASSUME NEW c \in Conns,
                \/ SharedLock(c) \/ JournalExists(c) \/ CheckReserved(c) \/ FirstByte(c)
                \/ HotLock(c) \/ LookAgain(c) \/ SyncHotJournal(c)
                \/ Unlock(c) \/ Begin(c) \/ CommitUnchanged(c)
                \/ ExclusiveLock(c) \/ SyncRecords(c) \/ WriteHeader(c) \/ SyncHeader(c)
                \/ SyncFile(c) \/ DeleteJournal(c) \/ EndTransaction(c)
                \/ \E p \in Pages : Spill(c, p)
         PROVE  UNCHANGED <<cache, vers>>
    BY <1>17 DEF SharedLock, JournalExists, CheckReserved, FirstByte, HotLock, LookAgain,
       SyncHotJournal, Unlock, Begin, CommitUnchanged, ExclusiveLock, SyncRecords, WriteHeader,
       SyncHeader, SyncFile, DeleteJournal, EndTransaction, Spill, memory
  <1>18. UNCHANGED vars => UNCHANGED <<cache, vers>>
    BY DEF vars, memory
  <1> QED
    BY <1>4, <1>5, <1>6, <1>8, <1>10, <1>11, <1>12, <1>13, <1>14, <1>16, <1>17, <1>18 DEF Next

-----------------------------------------------------------------------------
\* Before anything happens there is nothing but zeros.
LEMMA BoundInit == Init => InFiles /\ InJournals /\ InMemory /\ Counter
  <1> SUFFICES ASSUME Init PROVE InFiles /\ InJournals /\ InMemory /\ Counter
    OBVIOUS
  <1>1. 0 \in Contents /\ MaxTx \in Nat /\ DOMAIN <<>> = {} /\ Len(<<>>) = 0
    BY PagerAssumption DEF Contents
  <1>2. InFiles
    BY <1>1 DEF Init, InFiles
  <1>3. recs = <<>> /\ undead = <<>> /\ nRec = 0 /\ tx = 0 /\ file = [p \in Pages |-> 0]
    BY DEF Init
  <1>4. InJournals
    BY <1>1, <1>3 DEF InJournals
  <1>5. InMemory
    BY <1>1 DEF Init, InMemory
  <1>6. Types /\ JournalOK
    BY InvInit DEF Inv
  <1>7. Recovered = file /\ 1 \in Pages
    BY <1>3, <1>6, Recovery, RecoveredType, NothingCounted, OneRecovery DEF Types
  <1>8. Recovered[1] = 0 /\ Fallback[1] = 0
    BY <1>3, <1>7 DEF Fallback
  <1>9. Writers = {}
    BY DEF Init, Writers
  <1> QED
    BY <1>1, <1>2, <1>3, <1>4, <1>5, <1>8, <1>9 DEF Counter

\* Every step keeps the bounds.
LEMMA BoundNext == BoundInv /\ Ready' /\ [Next]_vars => BoundInv'
  <1> SUFFICES ASSUME BoundInv, Ready', [Next]_vars PROVE BoundInv'
    OBVIOUS
  <1>1. Ready /\ Counter
    BY DEF BoundInv
  <1>2. Counter'
    BY <1>1, CounterKept, CounterBegins, CounterCommits, CounterFails DEF Next
  <1> QED
    BY <1>2, FilesKept, JournalsKept, MemoryKept DEF BoundInv

\* The bounds and the invariant give the type.
LEMMA BoundTypes == BoundInv => TypeOK
  <1> SUFFICES ASSUME BoundInv PROVE TypeOK
    OBVIOUS
  <1>1. Types /\ JournalOK /\ Inv /\ InFiles /\ InMemory /\ tx <= MaxTx
    BY DEF BoundInv, Ready, StoreInv, Inv, Counter
  <1>2. Locks!TypeOK
    BY <1>1 DEF Types, Levels, NO_LOCK, EXCLUSIVE_LOCK, Locks!TypeOK, Locks!Levels,
       Locks!NO_LOCK, Locks!EXCLUSIVE_LOCK
  <1>3. ASSUME NEW c \in Conns
        PROVE  DOMAIN cache[c] \subseteq Pages /\ dirty[c] \subseteq DOMAIN cache[c]
    BY <1>1 DEF Inv, Whole, CacheType, Version
  <1>4. vers \in [Conns -> Contents]
    <2>1. vers = [c \in Conns |-> vers[c]]
      BY <1>1 DEF Types
    <2> QED
      BY <1>1, <2>1 DEF InMemory
  <1>5. file \in [Pages -> Contents] /\ disk \in [Pages -> Contents]
    <2>1. file = [p \in Pages |-> file[p]] /\ disk = [p \in Pages |-> disk[p]]
      BY <1>1 DEF Types
    <2> QED
      BY <1>1, <2>1 DEF InFiles
  <1>6. nRec \in 0 .. Len(recs) /\ safeRec \in 0 .. nRec /\ safe \in 0 .. Len(recs)
    BY <1>1, Counts
  <1>7. tx \in 0 .. MaxTx
    BY <1>1, PagerAssumption DEF Types
  <1>8. /\ eState \in [Conns -> {"OPEN", "READER", "LOCKED", "CACHEMOD", "DBMOD"}]
        /\ goal \in [Conns -> Goals] /\ held \in [Conns -> BOOLEAN]
        /\ unsynced \subseteq Pages /\ there \in BOOLEAN /\ linked \in BOOLEAN
    BY <1>1 DEF Types
  <1> QED
    BY <1>2, <1>3, <1>4, <1>5, <1>6, <1>7, <1>8 DEF TypeOK

\* Every variable of Pager has its type: no counter or content ever exceeds
\* the number of transactions begun, so the bound on them cuts off nothing
\* else, and a torn page is the only content that no transaction wrote.
THEOREM TypeCorrect == Spec => []TypeOK
  <1>1. Spec => []Ready
    BY StoreInvAlways, PTL DEF Ready
  <1>2. Init /\ Ready => BoundInv
    BY BoundInit DEF BoundInv
  <1> QED
    BY <1>1, <1>2, BoundNext, BoundTypes, PTL DEF Spec
=============================================================================
