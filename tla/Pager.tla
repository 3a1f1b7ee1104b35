------------------------------- MODULE Pager -------------------------------
(***************************************************************************)
(* Transactions on one database file, as pager.c makes them with a         *)
(* rollback journal: journal_mode=DELETE and synchronous=FULL, which the   *)
(* library never changes, a file of at least one page that keeps its size, *)
(* and one database per transaction (no master journal).                   *)
(*                                                                         *)
(* The file system keeps what was written and what a sync made durable     *)
(* apart.  A connection may die between any two steps, and the power may   *)
(* fail: then only what is durable is certain, a page that was being       *)
(* written may be torn, and a deleted journal may be there again.          *)
(*                                                                         *)
(* Page 1 holds the change counter and nothing else, the other pages hold  *)
(* the number of the transaction that wrote them.                          *)
(***************************************************************************)
EXTENDS LockLevels, Integers, Sequences, FiniteSets

CONSTANTS Conns,    \* connections to the file, of different processes
          NoConn,
          LastPage,
          CacheSize, \* pages a cache holds before it spills
          MaxTx     \* bound: write transactions in a behaviour

ASSUME PagerAssumption == /\ NoConn \notin Conns
                          /\ LastPage \in Nat \ {0}
                          /\ CacheSize \in Nat \ {0}
                          /\ MaxTx \in Nat

Pages == 1 .. LastPage
Torn == -1

ToCommit == 0
ToRollBack == -1
Goals == {ToCommit, ToRollBack} \cup Pages

Contents == -1 .. MaxTx

VARIABLES
    (* each connection *)
    lock,      \* Pager.eLock
    reserved,  \* who holds RESERVED (FileLocks)
    eState,    \* Pager.eState
    pc,        \* how far the call in progress has got
    goal,      \* what the call is for: a commit, a rollback, a page to spill
    cache,     \* the pages in memory
    dirty,     \* those of them that differ from the file
    vers,      \* Pager.dbFileVers: the counter the cache belongs to
    held,      \* Pager.hasHeldSharedLock
    next,      \* how many records are played back
    (* the files *)
    file,      \* the database as programs see it
    disk,      \* what is durable of it
    unsynced,  \* its pages written since the last sync
    there,     \* the journal exists
    recs,      \* its records: original pages
    nRec,      \* how many its headers count; 0 when the first is still zero
    safe,      \* how many records are durable
    safeRec,   \* the durable count
    linked,    \* the directory entry of the journal is durable
    undead,    \* a deleted journal that a power loss brings back
    tx         \* write transactions so far

locks == <<lock, reserved>>
memory == <<cache, dirty, vers, held>>
call == <<eState, pc, goal, next>>
files == <<file, disk, unsynced>>
journal == <<there, recs, nRec, safe, safeRec, linked, undead>>
vars == <<locks, memory, call, files, journal, tx>>

Locks == INSTANCE FileLocks

Init == /\ Locks!Init
        /\ eState = [c \in Conns |-> "OPEN"]
        /\ pc = [c \in Conns |-> "idle"]
        /\ goal = [c \in Conns |-> ToCommit]
        /\ cache = [c \in Conns |-> <<>>]
        /\ dirty = [c \in Conns |-> {}]
        /\ vers = [c \in Conns |-> 0]
        /\ held = [c \in Conns |-> FALSE]
        /\ next = [c \in Conns |-> 0]
        /\ file = [p \in Pages |-> 0]
        /\ disk = file
        /\ unsynced = {}
        /\ there = FALSE
        /\ recs = <<>>
        /\ nRec = 0 /\ safe = 0 /\ safeRec = 0
        /\ linked = FALSE
        /\ undead = <<>>
        /\ tx = 0

At(c, stage) == pc[c] = stage
Idle(c, state) == eState[c] = state /\ At(c, "idle")
Goto(c, stage) == pc' = [pc EXCEPT ![c] = stage]
EndCall(c) == Goto(c, "idle") /\ goal' = [goal EXCEPT ![c] = ToCommit]
Become(c, state) == eState' = [eState EXCEPT ![c] = state]
Cache(c, pages) == cache' = [cache EXCEPT ![c] = pages]

Least(m, n) == IF m <= n THEN m ELSE n

\* The records a playback applies: those the headers count, up to the first
\* whose checksum is wrong.
Counted == SubSeq(recs, 1, Least(nRec, Len(recs)))

PagesOf(records) == {records[i].page : i \in DOMAIN records}

\* What a playback of these records makes of a database.
Restore(records, pages) ==
    [p \in DOMAIN pages |->
        IF p \in PagesOf(records)
        THEN records[CHOOSE i \in DOMAIN records : records[i].page = p].old
        ELSE pages[p]]

\* These pages and more, read from the file.
FromFile(pages, more) ==
    [p \in DOMAIN pages \cup more |-> IF p \in DOMAIN pages THEN pages[p] ELSE file[p]]

-----------------------------------------------------------------------------
(* Reading: sqlite3PagerSharedLock.  A journal that nobody owns is hot and *)
(* is rolled back first.                                                   *)

SharedLock(c) == /\ Idle(c, "OPEN")
                 /\ Locks!Share(c)
                 /\ Goto(c, "exists")
                 /\ UNCHANGED <<memory, eState, goal, next, files, journal, tx>>

\* hasHotJournal: three looks at the file system, not one.
JournalExists(c) ==
    /\ At(c, "exists")
    /\ Goto(c, IF there THEN "check reserved" ELSE "check counter")
    /\ UNCHANGED <<locks, memory, eState, goal, next, files, journal, tx>>

CheckReserved(c) ==
    /\ At(c, "check reserved")
    /\ Goto(c, IF reserved = {} THEN "first byte" ELSE "check counter")
    /\ UNCHANGED <<locks, memory, eState, goal, next, files, journal, tx>>

\* A journal that has gone meanwhile counts as hot.
FirstByte(c) ==
    /\ At(c, "first byte")
    /\ Goto(c, IF there /\ nRec = 0 THEN "check counter" ELSE "hot lock")
    /\ UNCHANGED <<locks, memory, eState, goal, next, files, journal, tx>>

\* When others read, the call is busy and gives its lock back (pager_unlock).
HotLock(c) ==
    /\ At(c, "hot lock")
    /\ \/ /\ Locks!Exclude(c)
          /\ Goto(c, "look again")
       \/ /\ ~Locks!Alone(c)
          /\ Locks!Lower(c, NO_LOCK)
          /\ Goto(c, "idle")
    /\ UNCHANGED <<memory, eState, goal, next, files, journal, tx>>

\* Somebody else may have rolled the journal back.
LookAgain(c) ==
    /\ At(c, "look again")
    /\ \/ /\ there
          /\ Goto(c, "sync hot")
          /\ UNCHANGED locks
       \/ /\ ~there
          /\ Locks!Lower(c, SHARED_LOCK)
          /\ Goto(c, "check counter")
    /\ UNCHANGED <<memory, eState, goal, next, files, journal, tx>>

\* Mutant: the hot journal is played back unsynced.
SkipHotSync(c) ==
    /\ At(c, "sync hot")
    /\ Goto(c, "play back")
    /\ UNCHANGED <<locks, memory, eState, goal, next, files, journal, tx>>

\* pagerSyncHotJournal
SyncHotJournal(c) ==
    /\ At(c, "sync hot")
    /\ safe' = Len(recs)
    /\ safeRec' = nRec
    /\ Goto(c, "play back")
    /\ UNCHANGED <<locks, memory, eState, goal, next, files, there, recs, nRec, linked,
                   undead, tx>>

\* Mutant: a cache is kept whatever the counter says.
KeepCache(c) ==
    /\ At(c, "check counter")
    /\ Cache(c, FromFile(cache[c], {1}))
    /\ vers' = [vers EXCEPT ![c] = file[1]]
    /\ held' = [held EXCEPT ![c] = TRUE]
    /\ Become(c, "READER")
    /\ Goto(c, "idle")
    /\ UNCHANGED <<locks, dirty, goal, next, files, journal, tx>>

\* A cache of another version is thrown away; then lockBtree reads page 1,
\* from the cache or the file.
CheckCounter(c) ==
    /\ At(c, "check counter")
    /\ LET kept == IF held[c] /\ vers[c] # file[1] THEN <<>> ELSE cache[c] IN
       /\ Cache(c, FromFile(kept, {1}))
       /\ vers' = [vers EXCEPT ![c] = IF 1 \in DOMAIN kept THEN @ ELSE file[1]]
    /\ held' = [held EXCEPT ![c] = TRUE]
    /\ Become(c, "READER")
    /\ Goto(c, "idle")
    /\ UNCHANGED <<locks, dirty, goal, next, files, journal, tx>>

\* The size is no limit when there is nothing to recycle and a spill is busy.
HasRoom(c) == \/ Cardinality(DOMAIN cache[c]) < CacheSize
              \/ DOMAIN cache[c] \ {1} \subseteq dirty[c] /\ ~Locks!Alone(c)

\* sqlite3PagerGet of a page that is not in memory.
Get(c, p) ==
    /\ eState[c] # "OPEN"
    /\ At(c, "idle")
    /\ p \notin DOMAIN cache[c]
    /\ HasRoom(c)
    /\ Cache(c, FromFile(cache[c], {p}))
    /\ UNCHANGED <<locks, dirty, vers, held, call, files, journal, tx>>

\* Mutant: a page is taken back although it was changed.
RecycleAny(c, p) ==
    /\ eState[c] # "OPEN"
    /\ At(c, "idle")
    /\ p \in DOMAIN cache[c] \ {1}
    /\ Cache(c, [q \in DOMAIN cache[c] \ {p} |-> cache[c][q]])
    /\ UNCHANGED <<locks, dirty, vers, held, call, files, journal, tx>>

\* sqlite3PcacheFetchStress and pcache1 take a clean page back when they need
\* its room; page 1 is in use.
Recycle(c, p) ==
    /\ eState[c] # "OPEN"
    /\ At(c, "idle")
    /\ p \in DOMAIN cache[c] \ (dirty[c] \cup {1})
    /\ ~HasRoom(c)
    /\ Cache(c, [q \in DOMAIN cache[c] \ {p} |-> cache[c][q]])
    /\ UNCHANGED <<locks, dirty, vers, held, call, files, journal, tx>>

\* pager_unlock at the end of a reading transaction; the cache stays.
Unlock(c) ==
    /\ Idle(c, "READER")
    /\ Locks!Lower(c, NO_LOCK)
    /\ Become(c, "OPEN")
    /\ UNCHANGED <<memory, pc, goal, next, files, journal, tx>>

-----------------------------------------------------------------------------
(* Writing in memory.                                                      *)

\* sqlite3PagerBegin
Begin(c) ==
    /\ Idle(c, "READER")
    /\ tx < MaxTx
    /\ Locks!Reserve(c)
    /\ tx' = tx + 1
    /\ Become(c, "LOCKED")
    /\ UNCHANGED <<memory, pc, goal, next, files, journal>>

\* pager_open_journal, when the transaction has none yet: the file is created,
\* or a journal whose header is still zero is overwritten.
OpenJournal(c) ==
    IF eState[c] = "LOCKED"
    THEN /\ there' = TRUE
         /\ nRec' = 0 /\ safe' = 0 /\ safeRec' = 0
         /\ linked' = (there /\ linked)
         /\ Become(c, "CACHEMOD")
    ELSE UNCHANGED <<there, nRec, safe, safeRec, linked, eState>>

\* pagerAddPageToRollbackJournal, once per page and transaction.
AddToJournal(c, p) ==
    LET old == IF eState[c] = "LOCKED" THEN <<>> ELSE recs IN
    recs' = IF p \in PagesOf(old) THEN old
            ELSE Append(old, [page |-> p, old |-> cache[c][p]])

\* pager_write, and the b-tree's change to the page.
Write(c, p) ==
    /\ eState[c] \in {"LOCKED", "CACHEMOD", "DBMOD"}
    /\ At(c, "idle")
    /\ p \in DOMAIN cache[c] \ {1}
    /\ OpenJournal(c)
    /\ AddToJournal(c, p)
    /\ Cache(c, [cache[c] EXCEPT ![p] = tx])
    /\ dirty' = [dirty EXCEPT ![c] = @ \cup {p}]
    /\ UNCHANGED <<locks, vers, held, pc, goal, next, files, undead, tx>>

-----------------------------------------------------------------------------
(* Writing to the file: sqlite3PagerCommitPhaseOne for a commit, and       *)
(* pagerStress when the cache is full.                                     *)

\* A transaction that changed nothing only gives its lock back; so does its
\* rollback.
CommitUnchanged(c) ==
    /\ Idle(c, "LOCKED")
    /\ Locks!Lower(c, SHARED_LOCK)
    /\ Become(c, "READER")
    /\ UNCHANGED <<memory, pc, goal, next, files, journal, tx>>

\* Mutant: a commit leaves the change counter alone.
CommitUncounted(c) ==
    /\ eState[c] \in {"CACHEMOD", "DBMOD"}
    /\ At(c, "idle")
    /\ goal' = [goal EXCEPT ![c] = ToCommit]
    /\ Goto(c, "lock")
    /\ UNCHANGED <<locks, memory, eState, next, files, journal, tx>>

\* pager_incr_changecounter
Commit(c) ==
    /\ eState[c] \in {"CACHEMOD", "DBMOD"}
    /\ At(c, "idle")
    /\ AddToJournal(c, 1)
    /\ Cache(c, [cache[c] EXCEPT ![1] = vers[c] + 1])
    /\ dirty' = [dirty EXCEPT ![c] = @ \cup {1}]
    /\ goal' = [goal EXCEPT ![c] = ToCommit]
    /\ Goto(c, "lock")
    /\ UNCHANGED <<locks, vers, held, eState, next, files, there, nRec, safe,
                   safeRec, linked, undead, tx>>

\* Page 1 is in use all the time and never spilled.  A page whose record the
\* header counts already (no PGHDR_NEED_SYNC) needs no sync.
Spill(c, p) ==
    /\ eState[c] \in {"CACHEMOD", "DBMOD"}
    /\ At(c, "idle")
    /\ p \in dirty[c] \ {1}
    /\ Cardinality(DOMAIN cache[c]) >= CacheSize
    /\ goal' = [goal EXCEPT ![c] = p]
    /\ Goto(c, IF eState[c] = "DBMOD" /\ p \in PagesOf(Counted)
               THEN "write pages" ELSE "lock")
    /\ UNCHANGED <<locks, memory, eState, next, files, journal, tx>>

\* syncJournal begins with sqlite3PagerExclusiveLock.  When others read, the
\* call is busy: the lock may stay PENDING and the transaction goes on.
ExclusiveLock(c) ==
    /\ At(c, "lock")
    /\ \/ /\ IF lock[c] = EXCLUSIVE_LOCK THEN UNCHANGED locks
             ELSE Locks!Exclude(c)
          /\ Goto(c, "sync records")
          /\ UNCHANGED goal
       \/ /\ ~Locks!Alone(c)
          /\ Locks!Pend(c) \/ UNCHANGED locks
          /\ EndCall(c)
    /\ UNCHANGED <<memory, eState, next, files, journal, tx>>

\* unixSync of a journal opened with SQLITE_OPEN_CREATE syncs its directory
\* too: this one is sure to be there, its predecessor to be gone.
SyncRecords(c) ==
    /\ At(c, "sync records")
    /\ safe' = Len(recs)
    /\ linked' = TRUE
    /\ undead' = <<>>
    /\ Goto(c, "write header")
    /\ UNCHANGED <<locks, memory, eState, goal, next, files, there, recs, nRec,
                   safeRec, tx>>

WriteHeader(c) ==
    /\ At(c, "write header")
    /\ nRec' = Len(recs)
    /\ Goto(c, "sync header")
    /\ UNCHANGED <<locks, memory, eState, goal, next, files, there, recs, safe,
                   safeRec, linked, undead, tx>>

\* Mutant: the count of records is not synced before pages are written.
SkipHeaderSync(c) ==
    /\ At(c, "sync header")
    /\ Become(c, "DBMOD")
    /\ Goto(c, "write pages")
    /\ UNCHANGED <<locks, memory, goal, next, files, journal, tx>>

SyncHeader(c) ==
    /\ At(c, "sync header")
    /\ safeRec' = nRec
    /\ Become(c, "DBMOD")
    /\ Goto(c, "write pages")
    /\ UNCHANGED <<locks, memory, goal, next, files, there, recs, nRec, safe,
                   linked, undead, tx>>

PutPage(p, content) == /\ file' = [file EXCEPT ![p] = content]
                       /\ unsynced' = unsynced \cup {p}
                       /\ UNCHANGED disk

\* pager_write_pagelist, in the order of the pages.
WritePage(c) ==
    /\ At(c, "write pages")
    /\ \E p \in IF goal[c] = ToCommit THEN dirty[c] ELSE {goal[c]} :
        /\ goal[c] = ToCommit => \A q \in dirty[c] : p <= q
        /\ PutPage(p, cache[c][p])
        /\ dirty' = [dirty EXCEPT ![c] = @ \ {p}]
        /\ IF goal[c] = ToCommit
           THEN /\ vers' = [vers EXCEPT ![c] = IF p = 1 THEN cache[c][1] ELSE @]
                /\ Goto(c, IF dirty[c] = {p} THEN "sync file" ELSE "write pages")
                /\ UNCHANGED <<cache, goal>>
           ELSE /\ Cache(c, [q \in DOMAIN cache[c] \ {p} |-> cache[c][q]])
                /\ EndCall(c)
                /\ UNCHANGED vers
    /\ UNCHANGED <<locks, held, eState, next, journal, tx>>

\* Mutant: the journal is deleted although the file was not synced.
SkipFileSync(c) ==
    /\ At(c, "sync file")
    /\ Goto(c, "delete journal")
    /\ UNCHANGED <<locks, memory, eState, goal, next, files, journal, tx>>

\* sqlite3PagerSync
SyncFile(c) ==
    /\ At(c, "sync file")
    /\ disk' = file
    /\ unsynced' = {}
    /\ Goto(c, "delete journal")
    /\ UNCHANGED <<locks, memory, eState, goal, next, file, journal, tx>>

\* pager_end_transaction: without extraSync the directory is not synced, and
\* a power loss may bring the journal back as it was durable.
DeleteJournal(c) ==
    /\ At(c, "delete journal")
    /\ there' = FALSE
    /\ recs' = <<>>
    /\ nRec' = 0 /\ safe' = 0 /\ safeRec' = 0
    /\ linked' = FALSE
    /\ undead' = IF linked /\ safeRec > 0 THEN SubSeq(recs, 1, safeRec)
                 ELSE undead
    /\ Goto(c, "end")
    /\ UNCHANGED <<locks, memory, eState, goal, next, files, tx>>

\* The journal is gone; a hot rollback goes on with its reading.
EndTransaction(c) ==
    /\ At(c, "end")
    /\ Locks!Lower(c, SHARED_LOCK)
    /\ \/ /\ eState[c] = "OPEN"
          /\ Goto(c, "check counter")
          /\ UNCHANGED <<eState, goal>>
       \/ /\ eState[c] # "OPEN"
          /\ Become(c, "READER")
          /\ EndCall(c)
    /\ UNCHANGED <<memory, next, files, journal, tx>>

-----------------------------------------------------------------------------
(* Rolling back: sqlite3PagerRollback and pager_playback.                  *)

\* What is in memory goes back to what the journal says; the file only if
\* something may have been written to it.
Rollback(c) ==
    /\ eState[c] \in {"CACHEMOD", "DBMOD"}
    /\ At(c, "idle")
    /\ Cache(c, Restore(recs, cache[c]))
    /\ dirty' = [dirty EXCEPT ![c] = {}]
    /\ vers' = [vers EXCEPT ![c] = Restore(recs, cache[c])[1]]
    /\ goal' = [goal EXCEPT ![c] = ToRollBack]
    /\ Goto(c, IF eState[c] = "DBMOD" THEN "play back" ELSE "delete journal")
    /\ UNCHANGED <<locks, held, eState, next, files, journal, tx>>

\* pager_playback_one_page into the file.  A hot rollback begins with an
\* empty cache (pager_reset).
PlayBack(c) ==
    /\ At(c, "play back")
    /\ \/ /\ next[c] < Len(Counted)
          /\ next' = [next EXCEPT ![c] = @ + 1]
          /\ PutPage(recs[next[c] + 1].page, recs[next[c] + 1].old)
          /\ IF eState[c] = "OPEN" THEN Cache(c, <<>>) ELSE UNCHANGED cache
          /\ UNCHANGED pc
       \/ /\ next[c] = Len(Counted)
          /\ next' = [next EXCEPT ![c] = 0]
          /\ Goto(c, "sync file")
          /\ UNCHANGED <<cache, files>>
    /\ UNCHANGED <<locks, dirty, vers, held, eState, goal, journal, tx>>

-----------------------------------------------------------------------------
(* Failures.                                                               *)

\* Nothing of these connections is left in memory.
Forget(dead) ==
    /\ Locks!Die(dead)
    /\ eState' = [c \in Conns |-> IF c \in dead THEN "OPEN" ELSE eState[c]]
    /\ pc' = [c \in Conns |-> IF c \in dead THEN "idle" ELSE pc[c]]
    /\ goal' = [c \in Conns |-> IF c \in dead THEN ToCommit ELSE goal[c]]
    /\ cache' = [c \in Conns |-> IF c \in dead THEN <<>> ELSE cache[c]]
    /\ dirty' = [c \in Conns |-> IF c \in dead THEN {} ELSE dirty[c]]
    /\ vers' = [c \in Conns |-> IF c \in dead THEN 0 ELSE vers[c]]
    /\ held' = [c \in Conns |-> held[c] /\ c \notin dead]
    /\ next' = [c \in Conns |-> IF c \in dead THEN 0 ELSE next[c]]

\* A process ends: so it does when the extension takes the length of a NULL
\* message of a call that was busy (Handles).
Die(c) == /\ Forget({c})
          /\ UNCHANGED <<files, journal, tx>>

\* What may be left of a page.
Remains(p) == {disk[p], file[p]} \cup IF p \in unsynced THEN {Torn} ELSE {}

\* The journal file is there with its records up to a point.
JournalRemains ==
    /\ there
    /\ there' = TRUE
    /\ linked' = TRUE
    /\ \E n \in safe .. Len(recs) : recs' = SubSeq(recs, 1, n) /\ safe' = n
    /\ nRec' \in {safeRec, nRec}
    /\ safeRec' = nRec'

OldJournalReturns ==
    /\ ~linked
    /\ undead # <<>>
    /\ there' = TRUE
    /\ linked' = TRUE
    /\ recs' = undead
    /\ nRec' = Len(undead) /\ safe' = Len(undead) /\ safeRec' = Len(undead)

NoJournalRemains ==
    /\ ~linked
    /\ there' = FALSE
    /\ linked' = FALSE
    /\ recs' = <<>>
    /\ nRec' = 0 /\ safe' = 0 /\ safeRec' = 0

PowerLoss ==
    /\ Forget(Conns)
    /\ file' \in {f \in [Pages -> Contents] : \A p \in Pages : f[p] \in Remains(p)}
    /\ disk' = file'
    /\ unsynced' = {}
    /\ JournalRemains \/ OldJournalReturns \/ NoJournalRemains
    /\ undead' = <<>>
    /\ UNCHANGED tx

Next ==
    \/ \E c \in Conns :
        \/ SharedLock(c) \/ JournalExists(c) \/ CheckReserved(c) \/ FirstByte(c)
        \/ HotLock(c) \/ LookAgain(c) \/ SyncHotJournal(c) \/ CheckCounter(c)
        \/ Unlock(c) \/ Begin(c) \/ CommitUnchanged(c) \/ Commit(c)
        \/ ExclusiveLock(c) \/ SyncRecords(c) \/ WriteHeader(c) \/ SyncHeader(c)
        \/ WritePage(c) \/ SyncFile(c) \/ DeleteJournal(c) \/ EndTransaction(c)
        \/ Rollback(c) \/ PlayBack(c) \/ Die(c)
        \/ \E p \in Pages : Get(c, p) \/ Recycle(c, p) \/ Write(c, p) \/ Spill(c, p)
    \/ PowerLoss

Spec == Init /\ [][Next]_vars

-----------------------------------------------------------------------------
\* Type invariant.
TypeOK ==
    /\ Locks!TypeOK
    /\ eState \in [Conns -> {"OPEN", "READER", "LOCKED", "CACHEMOD", "DBMOD"}]
    /\ goal \in [Conns -> Goals]
    /\ \A c \in Conns : /\ DOMAIN cache[c] \subseteq Pages
                        /\ dirty[c] \subseteq DOMAIN cache[c]
    /\ vers \in [Conns -> Contents]
    /\ held \in [Conns -> BOOLEAN]
    /\ file \in [Pages -> Contents] /\ disk \in [Pages -> Contents]
    /\ unsynced \subseteq Pages
    /\ nRec \in 0 .. Len(recs) /\ safeRec \in 0 .. nRec
    /\ safe \in 0 .. Len(recs)
    /\ there \in BOOLEAN /\ linked \in BOOLEAN
    /\ tx \in 0 .. MaxTx

(* Write-ahead logging: a page of the file that differs from what a        *)
(* recovery would make of it, or that a power loss could tear, has its     *)
(* original in the durable part of a journal whose name is durable.        *)
WriteAhead ==
    \A p \in Pages :
        p \in unsynced \/ file[p] # Restore(Counted, file)[p] =>
            linked /\ p \in PagesOf(SubSeq(recs, 1, Least(safe, safeRec)))

(* A connection trusts its cache if the counter is the one it remembers    *)
(* (sqlite3PagerSharedLock): then no page of it may be of another version, *)
(* whatever was rolled back and written again in between.                  *)
CacheTrusted ==
    \A c \in Conns :
        At(c, "check counter") /\ held[c] /\ vers[c] = file[1] =>
            \A p \in DOMAIN cache[c] : cache[c][p] = file[p]

-----------------------------------------------------------------------------
(* What the connections see, for Store.                                    *)

NoView == <<>>

Recovered == Restore(Counted, file)

\* A rollback under way: its connection looks at nothing.
Undoing(c) == goal[c] = ToRollBack

View(c) == IF eState[c] = "OPEN" \/ Undoing(c) THEN NoView
           ELSE FromFile(cache[c], Pages)

\* A transaction ends with the deletion of its journal.
Writers == {c \in Conns : /\ eState[c] \in {"LOCKED", "CACHEMOD", "DBMOD"}
                          /\ ~At(c, "end")
                          /\ ~Undoing(c)}

Views == [c \in Conns |-> View(c)]

TheWriter == IF Writers = {} THEN NoConn ELSE CHOOSE c \in Writers : TRUE

\* A journal that may come back undoes the last commit.
Fallback == IF undead = <<>> THEN Recovered ELSE Restore(undead, file)

Abstract == INSTANCE Store WITH db <- Recovered, fallback <- Fallback,
                                view <- Views, writer <- TheWriter

(* Transactions are atomic, isolated and durable through every death and   *)
(* power loss: what each connection sees is the last committed version, or *)
(* that version with its own changes, and a power loss undoes at most the  *)
(* last commit, entirely.                                                  *)
StoreSpec == Abstract!Spec
=============================================================================
