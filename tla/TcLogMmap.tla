----------------------------- MODULE TcLogMmap ------------------------------
(***************************************************************************)
(* The transaction coordinator of a server without binary log: a mapped    *)
(* file of pages in which transactions log their XIDs, one page active     *)
(* (new XIDs go there), one syncing, the others in a pool; and the commit  *)
(* checkpoints after which XIDs are deleted.                               *)
(* (class TC_LOG_MMAP, sql/log.cc.)                                        *)
(*                                                                         *)
(* Every session runs one transaction, whose XID is its name.  The mutexes *)
(* LOCK_active, LOCK_sync, LOCK_pool and LOCK_pending_checkpoint are       *)
(* variables where they are held across steps; what is done under the      *)
(* mutex of a page, which never waits, is one step.                        *)
(***************************************************************************)
EXTENDS Integers, Sequences, SequencesExt, FiniteSets, FiniteSetsExt

CONSTANTS
  Trx,
  NoTrx,
  NPages,        \* number of pages
  Size,          \* number of XIDs that fit in each page: in the code all pages are
                 \* alike but the first, with the header; a smaller one stands for a
                 \* page with XIDs whose checkpoint is still to come
  Batch,         \* cookies deleted together; in the code as many as fit in a page
  Checkpoint,    \* engines with commit_checkpoint_request(); they commit durably
                 \* when asked for a checkpoint, the others at once
  Self,          \* the notification that unlog() itself makes
  MaxErrors      \* bound: how often msync() fails

Page == 1 .. NPages
Slot(p) == 1 .. Size[p]
NoPage == 0

ASSUME MmapAssumption ==
  /\ NoTrx \notin Trx /\ Self \notin Checkpoint
  /\ IsFiniteSet(Trx) /\ IsFiniteSet(Checkpoint)
  /\ NPages \in Nat /\ NPages >= 3
  /\ Size \in [Page -> Nat \ {0}] /\ Batch \in Nat \ {0} /\ MaxErrors \in Nat

VARIABLES
  data,         \* the XIDs in each page, as mapped
  disk,         \* the XIDs in each page, as last synced
  page,         \* the control structure of each page
  active, syncing, pool,
  lockActive, lockSync, lockPool,   \* who holds the mutex
  pc,
  cookie,       \* where each transaction has logged its XID
  failed,       \* err of log_one_transaction()
  pending,      \* the cookies of pending_checkpoint, by transaction
  batch,        \* the full buffer that each session has taken over
  notice,       \* how far each notification for each buffer is
  decrement,    \* the notification under LOCK_pending_checkpoint, and what it read
  durable,      \* the transactions that each engine has committed durably
  errors        \* how many errors are left

pageVars == <<data, disk, page, active, syncing, pool>>
locks == <<lockActive, lockSync, lockPool>>
session == <<pc, cookie, failed>>
checkpoint == <<pending, batch, notice, decrement, durable>>
vars == <<pageVars, locks, session, checkpoint, errors>>

Place == {"start", "active_wait", "pool", "overflow", "pool_wait", "store", "lock_sync",
          "register", "check", "asleep", "woken", "clear", "sync", "synced", "pooled",
          "logged", "unlog", "hook", "hooked", "notify", "ended"}

Notices == Trx \X (Checkpoint \union {Self})

TypeOK ==
  /\ DOMAIN data = Page /\ DOMAIN disk = Page /\ DOMAIN page = Page
  /\ \A p \in Page :
       /\ data[p] \in [Slot(p) -> Trx \union {NoTrx}]
       /\ disk[p] \in [Slot(p) -> Trx \union {NoTrx}]
       /\ page[p] \in [free: 0 .. Size[p], ptr: 1 .. Size[p] + 1, waiters: Nat,
                       state: {"POOL", "ERROR", "DIRTY"}]
  /\ active \in Page \union {NoPage} /\ syncing \in Page \union {NoPage}
  /\ pool \in Seq(Page) /\ IsInjective(pool)
  /\ {lockActive, lockSync, lockPool} \subseteq Trx \union {NoTrx}
  /\ pc \in [Trx -> Place]
  /\ cookie \in [Trx -> [page: Page \union {NoPage}, slot: Nat]]
  /\ failed \in [Trx -> BOOLEAN]
  /\ pending \subseteq Trx
  /\ batch \in [Trx -> [of: SUBSET Trx, count: Int, read: Int, asked: SUBSET Checkpoint,
                    deleting: BOOLEAN]]
  /\ notice \in [Notices -> {"none", "asked", "flushed", "done"}]
  /\ decrement \in [of: Notices \union {<<>>}, read: Int]
  /\ durable \in [Checkpoint -> SUBSET Trx]
  /\ errors \in 0 .. MaxErrors

NoDecrement == [of |-> <<>>, read |-> 0]

\* open() of a new log.
Init ==
  /\ data = [p \in Page |-> [s \in Slot(p) |-> NoTrx]] /\ disk = data
  /\ page = [p \in Page |-> [free |-> Size[p], ptr |-> 1, waiters |-> 0, state |-> "POOL"]]
  /\ active = 1 /\ syncing = NoPage /\ pool = [i \in 1 .. NPages - 1 |-> i + 1]
  /\ lockActive = NoTrx /\ lockSync = NoTrx /\ lockPool = NoTrx
  /\ pc = [t \in Trx |-> "start"]
  /\ cookie = [t \in Trx |-> [page |-> NoPage, slot |-> 1]]
  /\ failed = [t \in Trx |-> FALSE]
  /\ pending = {}
  /\ batch = [t \in Trx |-> [of |-> {}, count |-> 0, read |-> 0, asked |-> {},
                          deleting |-> FALSE]]
  /\ notice = [n \in Notices |-> "none"]
  /\ decrement = NoDecrement
  /\ durable = [e \in Checkpoint |-> {}]
  /\ errors = MaxErrors

Goto(t, where) == pc' = [pc EXCEPT ![t] = where]

\* mysql_cond_signal(&COND_pool), with the sessions at places f: the one that waits
\* for a page has LOCK_active, so there is at most one.
SignalPool(f) == [u \in Trx |-> IF f[u] = "pool_wait" THEN "pool" ELSE f[u]]

Sleepers(p) == {u \in Trx : pc[u] = "asleep" /\ cookie[u].page = p}

-----------------------------------------------------------------------------
(***************************************************************************)
(* log_one_transaction().                                                  *)
(***************************************************************************)

\* LOCK_active is taken; while the active page is full, wait on COND_active.
LockActive(t) ==
  /\ pc[t] = "start" /\ lockActive = NoTrx
  /\ IF active # NoPage /\ page[active].free = 0
       THEN Goto(t, "active_wait") /\ UNCHANGED lockActive
       ELSE /\ lockActive' = t
            /\ Goto(t, IF active = NoPage THEN "pool" ELSE "store")
  /\ UNCHANGED <<pageVars, lockSync, lockPool, cookie, failed, checkpoint, errors>>

Usable(p) == page[p].waiters = 0 /\ page[p].free > 0

\* The first page of the pool if it can be used, else the first one of those with
\* the most free slots; an index into the pool, 0 if no page can be used.
BestInPool ==
  LET usable == {i \in DOMAIN pool : Usable(pool[i])}
      best == {i \in usable : \A j \in usable : page[pool[j]].free <= page[pool[i]].free}
  IN IF usable = {} THEN 0 ELSE IF 1 \in usable THEN 1 ELSE Min(best)

\* get_active_from_pool(), with LOCK_active and LOCK_pool; waiters and free are
\* read without the mutex of the page.
GetActiveFromPool(t) ==
  /\ pc[t] = "pool" /\ lockPool = NoTrx
  /\ IF BestInPool # 0
       THEN /\ active' = pool[BestInPool]
            /\ pool' = RemoveAt(pool, BestInPool)
            /\ Goto(t, "store")
            /\ UNCHANGED lockPool
       ELSE /\ lockPool' = t
            /\ Goto(t, "overflow")
            /\ UNCHANGED <<active, pool>>
  /\ UNCHANGED <<data, disk, page, syncing, lockActive, lockSync, cookie, failed, checkpoint,
                 errors>>

\* overflow(): wait on COND_pool; LOCK_active is kept.
Overflow(t) ==
  /\ pc[t] = "overflow"
  /\ lockPool' = NoTrx
  /\ Goto(t, "pool_wait")
  /\ UNCHANGED <<pageVars, lockActive, lockSync, cookie, failed, checkpoint, errors>>

\* The first empty slot of page p, searched from ptr.
FirstEmpty(p) == Min({s \in Slot(p) : s >= page[p].ptr /\ data[p][s] = NoTrx})

Store(t) ==
  LET s == FirstEmpty(active) IN
  /\ pc[t] = "store"
  /\ data' = [data EXCEPT ![active][s] = t]
  /\ page' = [page EXCEPT ![active].ptr = s + 1, ![active].free = @ - 1,
                          ![active].state = "DIRTY"]
  /\ cookie' = [cookie EXCEPT ![t] = [page |-> active, slot |-> s]]
  /\ Goto(t, "lock_sync")
  /\ UNCHANGED <<disk, active, syncing, pool, locks, failed, checkpoint, errors>>

\* Mutant: the syncing slot is taken though it is not vacant.
LockSyncAlways(t) ==
  /\ pc[t] = "lock_sync" /\ lockSync = NoTrx
  /\ syncing' = cookie[t].page
  /\ Goto(t, "clear")
  /\ UNCHANGED <<data, disk, page, active, pool, locks, cookie, failed, checkpoint, errors>>

\* LOCK_sync is taken, with LOCK_active: take the syncing slot if it is vacant,
\* else let go of LOCK_active and wait.
LockSync(t) ==
  /\ pc[t] = "lock_sync" /\ lockSync = NoTrx
  /\ IF syncing = NoPage
       THEN /\ syncing' = cookie[t].page
            /\ Goto(t, "clear")
            /\ UNCHANGED <<lockActive, lockSync>>
       ELSE /\ lockSync' = t /\ lockActive' = NoTrx
            /\ Goto(t, "register")
            /\ UNCHANGED syncing
  /\ UNCHANGED <<data, disk, page, active, pool, lockPool, cookie, failed, checkpoint, errors>>

Register(t) ==
  /\ pc[t] = "register"
  /\ page' = [page EXCEPT ![cookie[t].page].waiters = @ + 1]
  /\ Goto(t, "check")
  /\ UNCHANGED <<data, disk, active, syncing, pool, locks, cookie, failed, checkpoint, errors>>

\* The wait for the page to be synced: sleep while it is dirty and another one is
\* syncing; done when it has been synced; else it is for t to sync it.
Check(t) ==
  LET p == cookie[t].page IN
  /\ pc[t] = "check" /\ lockSync = t
  /\ lockSync' = NoTrx
  /\ IF page[p].state = "DIRTY" /\ syncing # NoPage
       THEN /\ Goto(t, "asleep")
            /\ UNCHANGED <<page, syncing, failed>>
       ELSE /\ page' = [page EXCEPT ![p].waiters = @ - 1]
            /\ failed' = [failed EXCEPT ![t] = page[p].state = "ERROR"]
            /\ IF page[p].state = "DIRTY"
                 THEN syncing' = p /\ Goto(t, "clear")
                 ELSE /\ UNCHANGED syncing
                      /\ IF page[p].waiters = 1 THEN pc' = SignalPool([pc EXCEPT ![t] = "logged"])
                         ELSE Goto(t, "logged")
  /\ UNCHANGED <<data, disk, active, pool, lockActive, lockPool, cookie, checkpoint, errors>>

\* Woken on the condition variable of the page, with LOCK_sync again.
Relock(t) ==
  /\ pc[t] = "woken" /\ lockSync = NoTrx
  /\ lockSync' = t
  /\ Goto(t, "check")
  /\ UNCHANGED <<pageVars, lockActive, lockPool, cookie, failed, checkpoint, errors>>

\* The page is not active any more; broadcast COND_active.
ClearActive(t) ==
  /\ pc[t] = "clear" /\ lockActive \in {t, NoTrx}
  /\ active' = NoPage
  /\ lockActive' = NoTrx
  /\ pc' = [u \in Trx |-> IF u = t THEN "sync" ELSE IF pc[u] = "active_wait" THEN "start"
                          ELSE pc[u]]
  /\ UNCHANGED <<data, disk, page, syncing, pool, lockSync, lockPool, cookie, failed, checkpoint,
                 errors>>

\* sync(): msync() without any mutex; it may fail.
Sync(t) ==
  /\ pc[t] = "sync"
  /\ \/ /\ disk' = [disk EXCEPT ![syncing] = data[syncing]]
        /\ UNCHANGED <<failed, errors>>
     \/ /\ errors > 0 /\ errors' = errors - 1
        /\ failed' = [failed EXCEPT ![t] = TRUE]
        /\ UNCHANGED disk
  /\ Goto(t, "synced")
  /\ UNCHANGED <<data, page, active, syncing, pool, locks, cookie, checkpoint>>

\* The page goes to the end of the pool, under LOCK_pool.
ToPool(t) ==
  /\ pc[t] = "synced" /\ lockPool = NoTrx
  /\ pool' = Append(pool, syncing)
  /\ page' = [page EXCEPT ![syncing].state = IF failed[t] THEN "ERROR" ELSE "POOL"]
  /\ pc' = SignalPool([pc EXCEPT ![t] = "pooled"])
  /\ UNCHANGED <<data, disk, active, syncing, locks, cookie, failed, checkpoint, errors>>

\* Mutant: nobody is told to sync the active page.
FreeSyncingSilently(t) ==
  /\ pc[t] = "pooled" /\ lockSync = NoTrx
  /\ pc' = [u \in Trx |-> IF u = t THEN "logged"
                          ELSE IF u \in Sleepers(syncing) THEN "woken" ELSE pc[u]]
  /\ syncing' = NoPage
  /\ UNCHANGED <<data, disk, page, active, pool, locks, cookie, failed, checkpoint, errors>>

\* Under LOCK_sync: all that wait for the page wake up, and one of those that wait
\* on the active page, which is read without LOCK_active, to become the next syncer.
FreeSyncing(t) ==
  LET next == IF active = NoPage THEN {} ELSE Sleepers(active) \ Sleepers(syncing)
      woken(ts) == [u \in Trx |-> IF u = t THEN "logged" ELSE IF u \in ts THEN "woken"
                                  ELSE pc[u]]
  IN
  /\ pc[t] = "pooled" /\ lockSync = NoTrx
  /\ IF next = {} THEN pc' = woken(Sleepers(syncing))
     ELSE \E u \in next : pc' = woken(Sleepers(syncing) \union {u})
  /\ syncing' = NoPage
  /\ UNCHANGED <<data, disk, page, active, pool, locks, cookie, failed, checkpoint, errors>>

-----------------------------------------------------------------------------
(***************************************************************************)
(* The commit, unlog() and the commit checkpoints.                         *)
(***************************************************************************)

\* log_and_order() returns and ha_commit_trans() commits in the engines, or, on
\* error, rolls back; the XID of a failed sync stays in its slot.
Commit(t) ==
  /\ pc[t] = "logged"
  /\ Goto(t, IF failed[t] THEN "ended" ELSE "unlog")
  /\ UNCHANGED <<pageVars, locks, cookie, failed, checkpoint, errors>>

\* Mutant: the entry is deleted at once.
UnlogAtOnce(t) ==
  /\ pc[t] = "unlog" /\ decrement = NoDecrement
  /\ batch' = [batch EXCEPT ![t].of = {t}, ![t].deleting = TRUE]
  /\ Goto(t, "ended")
  /\ UNCHANGED <<pageVars, locks, cookie, failed, pending, notice, decrement, durable, errors>>

\* unlog() only queues the cookie.  The session that fills the buffer takes it over
\* and counts the notification it will make itself.
Unlog(t) ==
  /\ pc[t] = "unlog" /\ decrement = NoDecrement
  /\ IF Cardinality(pending) + 1 = Batch
       THEN /\ batch' = [batch EXCEPT ![t].of = pending \union {t}, ![t].count = 1]
            /\ pending' = {}
            /\ notice' = [notice EXCEPT ![<<t, Self>>] = "flushed"]
            /\ Goto(t, "hook")
       ELSE /\ pending' = pending \union {t}
            /\ Goto(t, "ended")
            /\ UNCHANGED <<batch, notice>>
  /\ UNCHANGED <<pageVars, locks, cookie, failed, decrement, durable, errors>>

\* ha_commit_checkpoint_request() calls mmap_do_checkpoint_callback() before each
\* engine's commit_checkpoint_request(): ++pending_count without any mutex, here a
\* read ...
HookRead(t) ==
  /\ pc[t] = "hook"
  /\ IF batch[t].asked = Checkpoint
       THEN Goto(t, "notify") /\ UNCHANGED batch
       ELSE Goto(t, "hooked") /\ batch' = [batch EXCEPT ![t].read = batch[t].count]
  /\ UNCHANGED <<pageVars, locks, cookie, failed, pending, notice, decrement, durable, errors>>

\* ... and a write, after which the engine is asked.
HookWrite(t) ==
  /\ pc[t] = "hooked"
  /\ \E e \in Checkpoint \ batch[t].asked :
       /\ batch' = [batch EXCEPT ![t].count = batch[t].read + 1,
                                   ![t].asked = @ \union {e}]
       /\ notice' = [notice EXCEPT ![<<t, e>>] = "asked"]
  /\ Goto(t, "hook")
  /\ UNCHANGED <<pageVars, locks, cookie, failed, pending, decrement, durable, errors>>

\* The engine makes all commits so far durable and will notify.
EngineFlush(t, e) ==
  /\ notice[<<t, e>>] = "asked"
  /\ durable' = [durable EXCEPT ![e] =
       @ \union {u \in Trx : pc[u] \in {"unlog", "hook", "hooked", "notify", "ended"}
                            /\ ~failed[u]}]
  /\ notice' = [notice EXCEPT ![<<t, e>>] = "flushed"]
  /\ UNCHANGED <<pageVars, locks, session, pending, batch, decrement, errors>>

\* commit_checkpoint_notify(), by the engine or at the end of unlog(): --pending_count
\* under LOCK_pending_checkpoint, a read ...
NotifyRead(t, n) ==
  /\ notice[<<t, n>>] = "flushed" /\ decrement = NoDecrement
  /\ n = Self => pc[t] = "notify"
  /\ decrement' = [of |-> <<t, n>>, read |-> batch[t].count]
  /\ UNCHANGED <<pageVars, locks, session, pending, batch, notice, durable, errors>>

\* ... and a write.  The one that brings the count to 0 deletes the entries.
NotifyWrite(t, n) ==
  /\ decrement.of = <<t, n>>
  /\ batch' = [batch EXCEPT ![t].count = decrement.read - 1,
                            ![t].deleting = @ \/ decrement.read = 1]
  /\ notice' = [notice EXCEPT ![<<t, n>>] = "done"]
  /\ decrement' = NoDecrement
  /\ pc' = IF n = Self THEN [pc EXCEPT ![t] = "ended"] ELSE pc
  /\ UNCHANGED <<pageVars, locks, cookie, failed, pending, durable, errors>>

\* Mutant: the search for an empty slot is not set back.
DeleteEntryForward(t, u) ==
  LET p == cookie[u].page IN
  /\ batch[t].deleting /\ u \in batch[t].of
  /\ batch' = [batch EXCEPT ![t].of = @ \ {u}]
  /\ data' = [data EXCEPT ![p][cookie[u].slot] = NoTrx]
  /\ page' = [page EXCEPT ![p].free = @ + 1]
  /\ pc' = IF page[p].waiters = 0 THEN SignalPool(pc) ELSE pc
  /\ UNCHANGED <<disk, active, syncing, pool, locks, cookie, failed, pending, notice,
                 decrement, durable, errors>>

\* delete_entry(), for one cookie of a buffer.
DeleteEntry(t, u) ==
  LET p == cookie[u].page IN
  /\ batch[t].deleting /\ u \in batch[t].of
  /\ batch' = [batch EXCEPT ![t].of = @ \ {u}]
  /\ data' = [data EXCEPT ![p][cookie[u].slot] = NoTrx]
  /\ page' = [page EXCEPT ![p].free = @ + 1, ![p].ptr = Min({@, cookie[u].slot})]
  /\ pc' = IF page[p].waiters = 0 THEN SignalPool(pc) ELSE pc
  /\ UNCHANGED <<disk, active, syncing, pool, locks, cookie, failed, pending, notice,
                 decrement, durable, errors>>

-----------------------------------------------------------------------------
LogOneTransaction(t) ==
  \/ LockActive(t) \/ GetActiveFromPool(t) \/ Overflow(t) \/ Store(t) \/ LockSync(t)
  \/ Register(t) \/ Check(t) \/ Relock(t) \/ ClearActive(t) \/ Sync(t) \/ ToPool(t)
  \/ FreeSyncing(t)

CheckpointStep(t) ==
  \/ HookRead(t) \/ HookWrite(t)
  \/ \E e \in Checkpoint : EngineFlush(t, e)
  \/ \E n \in Checkpoint \union {Self} : NotifyRead(t, n) \/ NotifyWrite(t, n)
  \/ \E u \in Trx : DeleteEntry(t, u)

Step(t) == LogOneTransaction(t) \/ Commit(t) \/ Unlog(t) \/ CheckpointStep(t)

\* Every transaction ended, or one waits for a page, with LOCK_active.
Terminated ==
  /\ \A t \in Trx : pc[t] \in {"ended", "start", "pool_wait", "active_wait"}
  /\ \A t \in Trx : pc[t] = "start" => lockActive # NoTrx
  /\ UNCHANGED vars

Next == (\E t \in Trx : Step(t)) \/ Terminated

Spec == Init /\ [][Next]_vars

-----------------------------------------------------------------------------
(***************************************************************************)
(* Properties.                                                             *)
(***************************************************************************)

\* recover() looks at all slots of all pages.  Of a slot that has changed since its
\* page was synced, the disk may hold the new value or the old one: these are the
\* XIDs it finds in any case.
XidsFound == {t \in Trx : \E p \in Page : \E s \in Slot(p) : data[p][s] = t /\ disk[p][s] = t}

\* Whenever the server crashes, recovery finds the XID of every transaction that was
\* reported committed but is not yet durable in some engine.
FoundByRecovery ==
  \A t \in Trx :
    /\ ~failed[t] /\ pc[t] \in {"logged", "unlog", "hook", "hooked", "notify", "ended"}
    /\ \E e \in Checkpoint : t \notin durable[e]
    => t \in XidsFound

\* The free slots of every page are counted exactly, and none is before ptr, so that
\* the search of log_one_transaction() always finds one.
FreeExact ==
  \A p \in Page :
    LET empty == {s \in Slot(p) : data[p][s] = NoTrx} IN
    /\ page[p].free = Cardinality(empty)
    /\ \A s \in empty : s >= page[p].ptr

\* One session at a time has the syncing slot.  No page is lost and none is in two
\* places: active, being synced, or in the pool, also while the page of a sync that
\* is just ending is taken from the pool again.
OnePlace ==
  LET syncer == {t \in Trx : pc[t] \in {"clear", "sync", "synced", "pooled"}}
      beingSynced == {syncing : t \in {u \in Trx : pc[u] \in {"sync", "synced"}}}
      activePage == {active} \ {NoPage}
  IN
  /\ Cardinality(syncer) = IF syncing = NoPage THEN 0 ELSE 1
  /\ activePage \union beingSynced \union ToSet(pool) = Page
  /\ Len(pool) + Cardinality(activePage) + Cardinality(beingSynced) = NPages

\* No session is left asleep: while one waits for its page, which is dirty, a sync
\* is going on or another session with that page is about to see that none is.
SleepersRemembered ==
  \A p \in Page : Sleepers(p) # {} =>
    \/ syncing # NoPage
    \/ \E u \in Trx : cookie[u].page = p /\ pc[u] \in {"woken", "check", "lock_sync"}

\* A session that waits for a page to become usable finds it when it does.
NoMissedPage ==
  \A t \in Trx : pc[t] = "pool_wait" => BestInPool = 0
=============================================================================
