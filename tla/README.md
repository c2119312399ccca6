# Verification of the MariaDB ColumnStore server

TLA+ models of the concurrent core of this server (`sql/`, `mysys/`), model-checked
with TLC on small instances, with proofs checked by TLAPS. The repository is a
MariaDB 10.2 server with the glue for the ColumnStore engine; the engine itself is
a submodule that is not part of it. The server's own logic that is hard to test is
its concurrency and its recovery. The project models the metadata lock manager, which
every statement goes through, and the way of a transaction from commit to the
slaves: two-phase commit, binary log, group commit, parallel and semi-synchronous replication.

`PROJECT.json` is the index: components, runs, the source lines behind every
definition, mutants, hazards, findings and theorems.

## 1. Inventory

| Component | State | Operations | Talks to | What is hard | What makes it correct |
|---|---|---|---|---|---|
| Metadata locks (`sql/mdl.cc`) | per name: granted and waiting tickets, bitmaps, count of strong locks; per connection: ticket lists by duration, wait slot, wait-for edge | acquire, try, acquire a list, clone, upgrade, downgrade, release, savepoints, change durations, deadlock search | every statement; `MDL_map`; `HANDLER`, `LOCK TABLES`, `ALTER TABLE`, the global read lock | grants by other threads, timeouts against grants, concurrent searches, priorities | matrices hold, no lost wake-up, no undetected deadlock, rollback releases exactly what it should |
| Container of locks (`MDL_map`) | lock-free hash of lock objects, recycled | find or insert, remove, iterate | `mysys/lf_hash.c`, pins | an object found may be gone when it is locked | one lock per name |
| `HANDLER`, `LOCK TABLES`, savepoints | open handlers, locked-tables list | open, close, reopen | MDL, table cache | mixing durations | no ticket of a savepoint is lost |
| Binary log and group commit (`sql/log.cc`) | queue of entries, leader, checkpoint counts | queue, lead, write, sync, commit in order, rotate | engines, parallel replication | leader hand-over, `wait_for_prior_commit`, crash between steps | same order in log and engines, no checkpoint too early |
| Two-phase commit and recovery (`sql/handler.cc`) | prepared XIDs, log | prepare, log, commit, recover | engines, `TC_LOG` | a crash between any two steps | committed iff logged |
| `TC_LOG_MMAP` (`sql/log.cc`) | pages, pool, sync state | log, unlog, sync, recover | engines | pages that fill up while others sync | an XID is durable before it is used |
| Parallel replication (`sql/rpl_parallel.cc`) | worker pool, queues, group commit order | schedule, wait for prior, retry, stop | GTID state, group commit | errors and retries in the middle of a group | commit order is the master's |
| GTID state (`sql/rpl_gtid.cc`) | domains, sub-ids, waiters | update, wait, ignore duplicates | replication threads | two masters delivering the same event | no event is applied twice or skipped |
| Semi-sync (`plugin/semisync`) | active transactions, wait position | report, wait, switch off | dump threads | a late answer against a timeout | a commit acknowledged was received |
| Table locks (`mysys/thr_lock.c`) | four queues per table | lock, multi-lock, abort, downgrade | engines | order of locks, concurrent insert | no deadlock, no starvation beyond the limit |
| Wait-for graph of engines (`mysys/waiting_threads.c`) | resources, owners | will wait for, wait, release | engines | search under concurrent change | deadlocks are found |
| Lock-free hash and allocator, `rw_pr_lock` (`mysys/`) | lists, pins | insert, delete, search; lock | MDL | the ABA problem; writers waiting behind readers | linearizable; readers are never blocked by waiting writers |
| Table definition cache (`sql/table_cache.cc`) | shares, free tables, reference counts | acquire, release, flush, remove | MDL | a flush against an open | a share in use is never freed |
| Event scheduler, thread pool, query cache, key cache, APC | queues, workers, blocks | start, stop, run, invalidate | connections | stopping against starting | every request ends |
| Galera integration, ColumnStore glue | provider state, rewritten statements | - | external libraries | - | out of scope, see section 8 |
| Parser, optimizer, storage engines, clients, vendored code | - | - | - | - | out of scope, see section 8 |

## 2. Plan

Done:

1. `MDLTypes`, `MDL`: the metadata lock manager; `LockNames`, `MDLMap`: what the container of
   locks promises, and the container.
2. `MDLProofs`: types, exact bitmaps, mutual exclusion, exact savepoints, no lost grant, no missed wakeup and sound deadlock searches for all instances.
3. `WaitForCommit`, `GroupCommit`, `EventGroups`: parallel replication on top of the group
   commit queue, shown to implement the abstract `CommitOrder`.
4. `BinlogXa`: two-phase commit, checkpoints, rotation, purge and `RESET MASTER` with crashes.
5. `SemiSync`, `TcLogMmap`, and `PrLock`, on which the read locks of `MDL` rely.
6. `MDLMapProofs`, `PrLockProofs`, `SemiSyncProofs`, `TcLogMmapProofs`: every safety property of these
   modules for all instances, and the refinement of `LockNames`.
7. `BinlogXaProofs`: exact counts, checkpoints in order and crash recovery for all instances.
8. `EventGroupsProofs`: failures, kills and the order of commits in parallel replication, and the refinement of `CommitOrder`.

Left:

9. Proofs about paths in the wait-for graph of `MDL` (`NoUndetectedDeadlock`), see the end of section 6.
10. Components not modelled yet: `GtidState`, `ThrLock`, the table definition cache, the
   lock-free hash behind `MDLMap`, the ordered-commit queue of `TC_LOG_MMAP`.

## 3. The modules and the code

| Module | Models |
|---|---|
| `MDLTypes` | `enum_mdl_type`, durations, the four compatibility matrices, hog types, the upgrades and downgrades callers make |
| `MDL` | `MDL_context`, `MDL_lock`, `MDL_ticket`, `MDL_wait`, `Deadlock_detection_visitor`; `mysql_ha_open()` and savepoints as users of them |
| `LockNames` | abstract: a name has one lock with one mutex |
| `MDLMap` | `MDL_map`, `MDL_lock::lf_hash_initializer()`, `MDL_lock::remove_ticket()`; lf_hash and its pins (`mysys/lf_hash.c`, `lf_alloc-pin.c`) as single steps |
| `WaitForCommit` | `struct wait_for_commit` (`sql_class.cc`): register, wait, wake up, give up, unregister |
| `GroupCommit` | `queue_for_group_commit()`, `write_transaction_to_binlog_events()`, `trx_group_commit_leader()` (`log.cc`) |
| `EventGroups` | workers of parallel replication: `handle_rpl_parallel_thread()`, `retry_event_group()`, `finish_event_group()`, deadlock kills; composes the two above |
| `CommitOrder` | abstract: one log in the order of the domains, engines that follow it |
| `BinlogXa` | `TC_LOG_BINLOG`: XID counts per file, checkpoints, background thread, rotation, purge by command and by the threads that rotate, `RESET MASTER`, crash and `recover()`; prepare and commit of `ha_commit_trans()`, `ha_recover()` |
| `SemiSync` | `ReplSemiSyncMaster` and its hooks; the slave as its replies |
| `PrLock` | `rw_pr_lock_t` (`mysys/thr_rwlock.c`), used as the deadlock search does |
| `TcLogMmap` | `TC_LOG_MMAP`: pages, pool, sync, unlog, deletion after a checkpoint |
| `ListLemmas` | lemmas about sequences |
| `MDLProofs`, `MDLMapProofs`, `PrLockProofs`, `SemiSyncProofs`, `TcLogMmapProofs`, `BinlogXaProofs`, `EventGroupsProofs` | the inductive invariants of the modules they are named after, and the proofs |
| `MCMDL`, `MCMDLMap`, `MCEventGroups`, `MCBinlogXa`, `MCSemiSync`, `MCPrLock`, `MCTcLogMmap` | the requests, symmetry sets and constants of the TLC instances |

### MDL

A state of `MDL` has the lists and bitmaps of every lock (`granted`, `waiting`,
`gbits`, `wbits`, `hog`), the tickets (`tlock`, `ttype`), what every connection
has (`own`: `m_tickets` by duration, newest first; `slot`: `m_wait`; `wfor`:
`m_waiting_for`) and where its thread is (`pc`, `call`, `rel`, `it`, `stack`,
`victim`). `m_granted` is a set because the code never depends on its order;
`m_waiting` is a sequence because grants go from its head.

One action is one critical section:

- `Acquire` is `try_acquire_lock_impl()`, with its outcomes as disjuncts: a ticket
  of the same duration is reused, one of another duration is cloned, the lock is
  granted at once, or the request is queued. `AcquireLock`, `TryAcquireLock`, `AcquireLocks`/`AcquireNext`,
  `UpgradeSharedLock`/`MergeUpgrade` and `HandlerOpen`/`HandlerKeep`/`HandlerFail` are the calls
  made of it. A `try` that fails changes nothing and is no step.
- `WillWaitFor`, `SearchStart`, `SearchFollow`, `SearchLeave`, `TellVictim` are
  `find_deadlock()`, one node per step. A frame on `stack` is a read lock on
  `m_waiting_for` of the node and on the lock it waits for; both are held until the
  frame is left, and writers (`CanWriteLock`, `~WaitingForIsRead`) wait. The victim is the lightest node of
  the path, read-locked until it is told. The two read locks of a node are taken in one step: who
  holds `m_rwlock` of a lock never waits for an `m_LOCK_waiting_for`, so the order between them cannot matter.
- `Interrupt`, `ClientGone`, `WaitGranted`, `WaitAborted`, `AbortWait` end a wait. A timeout or kill sets
  the slot, as `timed_wait()` does; a client that is gone does not.
- `ReleaseLock`, `AbortWait` and `DowngradeLock` end in `RescheduleOrRemove`; the
  loop of `reschedule_waiters()` runs in `GrantNext` steps under `rw`, because wait
  slots are protected by another mutex and may be closed between two grants.
- The `Release...` calls compute what they release (`StoredBefore` up to a savepoint's
  sentinel) and release it ticket by ticket. `usvp` is a savepoint kept by SQL, with
  the tickets that were there when it was taken (a history variable for `SavepointExact`).

The callers are nondeterministic: they issue the requests of `Requests` in any
order through the entry points in `Calls`. Constraints the code asserts are guards:
an exclusive lock is requested only under an intention-exclusive lock on the global name (`MayRequest`).

Left out of `MDL`: Galera's brute-force paths (`wsrep_on` off), out-of-memory
returns, `notify_conflicting_locks()` (it kills or aborts statements through other
subsystems), and waits for a table flush, the other kind of edge in the wait-for graph.
After `ClientGone` a ticket may be in the wrong list (finding 2); the
program's lists are then damaged and the model does not go on with that connection.

### MDLMap

An object is `free`, `new`, `linked` in the hash, `dead` (deleted, perhaps pinned) or
`fixed`. `find_or_insert()` is `Search`, `Alloc`, `Link`, `WrLock`, `Check`;
`MDL_map::remove()` is `RemoveTicket` (which clears `m_strategy` and unlocks) followed by `Delete`.
`Reclaim` recycles an object nobody pins for any name: that is how a name gets the address another had.
The refinement mapping sends all objects of a name to one lock whose users are the union of theirs.

### WaitForCommit, GroupCommit, EventGroups

A transaction of the model is an event group; its number is its `sub_id` and it has a worker thread of its own. `pc` says where that
thread is. `wfc[t]` is its `wait_for_commit` with the list of those that wait for it;
`ent[t]` its `group_commit_entry`; `rgi[t]` and `dom[d]` what `rpl_group_info` and
`rpl_parallel_entry` hold. A worker goes through

- `StartGroup` (the wait for the batch in `do_gco_wait()`, `wait_count`, the decision to skip, and the registration with the prior event group), with
  `KilledInGcoWait` for a kill during that wait, and `Execute`, whose end is `mark_start_commit()`; `RowWait` is a row lock wait on a later group, reported to
  `thd_rpl_deadlock_check()`, which makes `DeadlockKill` follow; `UserKill` is a `KILL`;
- `ExecError` at any event, the one that commits included: permanent (`exec`) or temporary (`temp`), of any group. `Temporary` is `has_temporary_error()`, with
  what `convert_kill_to_deadlock_error()` turns into a deadlock (`ConvertedToDeadlock`); `Error` decides between a retry and a failure;
- `queue_for_group_commit()`: `CheckPrior`, `SetReady`, `PriorCame` or `GiveUp`/`RemoveFromList`, `Enqueue` with those waiters that are ready (`Followers`);
- as leader `CollectGroup`, `WriteGroup`, `LockAfterSync`, `LockCommitOrdered`, `CommitOrdered`
  transaction by transaction, waking up the waiters of each (`WakeOne`), `SignalNext`; or as another
  member of the group `Signalled`, and without `opt_optimize_thread_scheduling` `OwnCommitOrdered`, `SignalOther`; then `Commit`, the end of it in the group's own thread;
- `Retry` ... `RetryWaited`, `Skip`, and at the end `FinishWait`, `Finish`, `FinishWakeOne`.

`wait_for_commit` takes two mutexes in places; a step is what is done under one of them, and the list
of a waitee that is being run through cannot be left (`RemoveSelf` waits until it is, or finds itself woken).
A `wakeup()` from that list is two steps, as the code has two stores: `ClearsWaitee` and `StoresError`. In between (`HalfWoken`) the waiter's `LOCK_wait_commit` is held, which keeps
out everybody who takes it, but the unlocked reads of `queue_for_group_commit()` (`log.cc:7344`, `7433`), `wait_for_prior_commit()` and `unregister_wait_for_prior_commit()` see no waitee and no error
yet. `torn` remembers that a group entered the queue so; it is a history variable for the properties. The `wakeup()` of a group that its waitee queued (`WokenUp`) is one step, since that waiter looks
under its mutex.
`rgi[t].taken` remembers that a retry took a `mark_start_commit()` back.
Left out: the queues between the SQL driver thread and the workers (every group has been scheduled), thread pool changes, `FLUSH TABLES
WITH READ LOCK`, `UNTIL`, duplicates by GTID, the position in the relay log.

### BinlogXa

A file is its number. `xids`, `ckpt` and `index` are on disk and survive `Crash`; `engine[t][e]` is what an
engine knows: `committed` is in memory only, `durable` is on disk. Engines in `Checkpoint` have
`commit_checkpoint_request()` and become durable by `EngineFlush`; the others at once, and their XIDs are
counted (`NeedUnlog`). `th[p]` is where a thread is; `mark_xid_done()` is `MarkXidDone`, `TrimList`, `CheckpointEvent`,
because it gives `LOCK_xid_list` up twice, and whoever calls it goes on at `ret`. The background thread is
`GrabQueue`, `ReadCount`, `ReadNext`: it reads an entry without the mutex. A queue of entries linked by `next_in_queue` is the set
reached from its head (`Reachable`, `Chain`).

The thread that rotated goes on, after `do_checkpoint_request()`, with `purge()` (`PurgeExpired`, pc `purge`): with `ExpireLogs` (`expire_logs_days` is set) it waits for `LOCK_index`, which
`RESET MASTER` and a rotation hold (`IndexFree`), and only then comes to its own `commit()` and `unlog()`. A session rotates (`RotateSession`) as `write()` does (`RotateWrite`) or as `rotate_and_purge()` does (`FlushLogs`), whichever `Rotation` allows; `Purge` is the statement.

Abstractions: `sync_binlog` is 1 and the write of a group is atomic with respect to a crash (a crash in
the middle leaves what a smaller group would have left); `binlog_xid_count_list` is a range of consecutive files; commits by recovery are durable;
rotation does not fail; write and flush errors (`log.cc:7811`, `7839`), after which the thread gives the count back (`7699`) or, told of a failed prior commit at `7677`, ends without `unlog()`, are left out (`GroupCommit` has the errors, without the counts), as are the error exits of `reset_logs()` (`4135`-`4216`) and `purge_logs()`; a crash in the middle of the deletions of `RESET MASTER` is left out (the code says at `log.cc:4125` that it is not safe).

### SemiSync

The number of a transaction is its position in the log. `WriteTranxInBinlog` runs under `LOCK_log`, the dump
threads may send what `UpdateEndPos` published. `commitTrx()` is `CommitTrx` with `WaitLoop`, then `WakeUp` or `TimeIsOver` and `TimeOut`;
between the end of a wait and the mutex other threads run. `reportReplyBinlog()` is one step and its broadcast,
outside of the mutex, another (`Broadcast`). A slave stores what it gets and replies if asked (`ReceiveEvent`), and connects again
at the position it has. The model has `NULL` for the list when semi-sync is disabled: a commit whose time is over then
crashes the server (`alive`, finding 10). Left out: file names (positions are in one file), `resetMaster()`, statistics other than yes and no.

### PrLock and TcLogMmap

`PrLock` has the mutex, the two counts and the flag of `rw_pr_lock_t`. `Visit` takes one more read lock inside those held, `Change`
one write lock; `rw_pr_unlock()` looks at `active_writer` without the mutex (`Unlock`) and then goes one of two ways.
Condition variables may wake up spuriously.

In `TcLogMmap` each session logs one XID. The mutexes of the log are variables, those of a page are inside steps. `active` is
read and cleared as in the code, without its mutex in places. `pending_count` is incremented without a mutex (`HookRead`, `HookWrite`). `disk` holds what was last synced; of a slot
changed since, a crash may leave either value, so `XidsFound` is what recovery finds in any case. Sizes below that of a page stand for pages partly filled with
XIDs that wait for their checkpoint. Left out: the queue of `log_and_order()` for `commit_ordered()`, `close()`, errors other than of `msync()`.

## 4. Runs

| Run | Instance | Checks |
|---|---|---|
| `core` | 3 connections, 1 table, `SR` and `SU`, upgrades, downgrades, timeouts; 2 tickets each | `Compatible`, `BitmapsExact`, `TicketsAccountedFor`, `AbandonedNotGranted`, `NoMissedGrant` |
| `deadlock` | 3 connections, 2 tables, `SR` and `X`, `HANDLER` | `SearchPathIsReal`, `NoUndetectedDeadlock` |
| `durations` | 1 connection, 2 tables and the global lock, all durations and all calls | `TicketsAccountedFor`, `SavepointExact` |
| `lists` | 3 connections, 3 overlapping pairs of tables, kills, clients that go | `OrderedListsNeverVictims`, `ListsAllOrNothing` |
| `names` | 3 threads, 2 names, 3 objects | `OneLockPerName`, `FoundKeepsName`, `NoLeakedLock`, `ImplementsNames` |
| `order` | 3 event groups in 2 batches, all pairs may conflict, permanent and temporary errors, a retry, kills of a worker that applies events, `STOP SLAVE`, with and without optimised scheduling | `RolledBackNotLogged`, `NotAfterFailed`, `CommitsInOrder` (implements `CommitOrder`), `AllFinish` |
| `batches` | 3 event groups, the last two a batch, errors of both kinds before and after `mark_start_commit()`, a retry, kills in `do_gco_wait()`, `STOP SLAVE` | `BatchesApart`, `StopsWithoutGap` |
| `xa` | 1 transaction in an engine of each kind, 2 rotations, a `RESET MASTER`, a purge, a crash, `expire_logs_days` = 0 | `RecoveryAgrees`, `CountsExact`, `KeptWhileCounted`, `CheckpointsInOrder`, `CheckpointAdvances`, `ResetFinishes` |
| `acks` | 2 transactions, 2 slaves, 2 troubles of any kind (timeout, kill, disconnect, disable, out of memory) | `AckedMeansReceived`, `NoneSlipsThrough`, `RemovedWhenDone`, `NoForgottenSleeper`, `AckComes` |
| `rwlock` | 3 threads, 2 locks, searches 2 deep | `Exclusive`, `NoLostWakeup`, `ReadersGetIn`, `WriterWaitsForReaders` |
| `mmap` | 5 transactions, 3 pages of 1, 1 and 2 slots, batches of 2, an engine with checkpoints, an error of `msync()` | `FoundByRecovery`, `FreeExact`, `OnePlace`, `SleepersRemembered` |
| `flush` | 1 transaction, `FLUSH LOGS`, a crash | violation of `RecoveryAgrees`, see section 7 |

Other configurations are kept for runs by hand (`tlc -config <cfg> <module>`): `MCMDL_live` (waits end though deadlocks happen), `MCMDL_starve` (3 connections, `max_write_lock_count` = 1 and an endless
stream of strong requests: every wait ends, `WaitsEnd`), `MCMDLMap_progress` (the retry loop of
`find_or_insert()` ends for someone), `MCEventGroups_kills` (3 event groups, each a batch, kills in all waits outside of the commit: `NotAfterFailed`, `BatchesApart`, `AllFinish`),
`MCBinlogXa_expire` (`expire_logs_days` set, 2 rotations by a leader, `write()` or `FLUSH LOGS`, a crash: `KeptWhileCounted`, `CheckpointAdvances`) and
`MCSemiSync_aftersync` (`AFTER_SYNC`, `wait_no_slave`, three transactions) hold; those that show the findings of section 7 do not.

Bounds, and why they are enough for what the runs ask:

- *Three connections.* A grant race needs a holder, a waiter and a third thread
  that releases or gives up; a starved request needs two that alternate; two of
  three can deadlock while the third searches past them.
- *`MaxTickets`.* An upgrade needs two tickets, savepoint and duration questions
  three. A call starts only if there is room for what it may create.
- *Keys.* Conflicts are per name; two names make a deadlock, three make lists that overlap pairwise.
- *`MaxWriteLockCount`* is 1 where hog counts matter (`MCMDL_starve`, `MCMDL_skipped`, `MCMDL_recycled`) and out of reach (9) elsewhere;
  `HogBound` saturates the counter at 1, which loses nothing as only `>= max` is asked.
- *`MaxSearchDepth` = 5* (32 in the code) is above the length of any simple path of
  three connections, so a path that long runs around a loop.
- *Objects.* One more than names lets a removed object stay pinned while its name lives
  on; `Alloc` waits when none is free, where the real allocator asks malloc.
- *Event groups.* A failure, a retry or a stop needs one group before and one after it: three. In `order` group 3 starts the next batch; group 2 is applied optimistically, group 3 must wait for prior commits, so both
  kinds of speculation meet both neighbours. In `batches` groups 2 and 3 are one batch with `wait_count` 1, so that a `stop_count` of 0 skips one that had not started while the other may have: a gap is possible, and
  the mutant of `StopsWithoutGap` finds it. `KillAt` bounds where a user's kill finds a worker: where it applies events in `order`, in `do_gco_wait()` in `batches`, in every wait outside of the commit in `MCEventGroups_kills`, which
  leaves the order of commits out; for the rest see finding 7. `MaxRetries` bounds the retries of a group, above `SlaveTransRetries` too (a second error after a retry has succeeded starts a new count).
- *Binary log.* Two rotations leave an old, a previous and a current file, and a checkpoint event may skip
  one. One transaction in two engines is enough for a rotation, a checkpoint, a purge or a crash to fall between any two of its steps. `Budget` bounds what happens and so the number of files.
- *Semi-sync.* Two transactions have two orders of waiting and of waking; two slaves, one that lags and one that does not; two
  troubles, such as a timeout that switches off and a disconnect during the catching up.
- *rw locks.* Two searches that hold a lock each and a writer in front of each other's: three threads and two locks.
- *Pages.* Three pages are one active, one syncing and one in the pool, and fill up with four XIDs; the fifth
  transaction waits for the pool. A batch of two makes two sessions depend on one checkpoint.
- *Symmetry* permutes connections (in `names` keys and objects, in `mmap` transactions), which no
  definition tells apart, and is used in safety runs only.

Deadlock checking is on in every run: idle callers can always do something, so a
state without successors would be threads blocked inside the lock manager. In the modules of transactions that run once,
`Terminated` allows exactly the states in which all of them are over.

Every property has a mutant in `PROJECT.json` (definitions marked "Mutant" stand before
the one they replace): a plausible bug in the code that makes the same run fail.

## 5. Fairness

`WaitsEnd` and `SomeoneGetsIn` (both by hand) are checked under

- weak fairness of `Proceed(c)` / `Step(t)`: a thread inside the lock manager runs. It holds mutexes for
  a bounded time and waits for nothing else there, except in the wait itself;
- strong fairness of `ReleaseTransactionalLocks(c)`: a connection between calls ends its transaction at last.
  Without it no wait for a lock could be expected to end;
- weak fairness of `Reclaim(o)`: the real allocator always finds an object.

The others:


- `AllFinish`: weak fairness of each worker and of the background thread that executes deadlock kills, and a killed
  worker notices the kill (it is checked at each event and in each row lock wait);
- `CheckpointAdvances`, `ResetFinishes`: weak fairness of the work begun, as a whole, and of recovery: some thread goes on while one can,
  engines answer checkpoint requests, and a server that crashed is restarted. Rotations and resets are not promised. Fairness of the work as a whole is enough to show that `RESET MASTER` ends
  and enough to refute it when logs expire (`MCBinlogXa_resetpurge`): there no thread can go on;
- `AckComes`: weak fairness of commits and dump threads as a whole; slaves that lost their connection come back, as their I/O thread does.
  Timeouts are not promised, so it says that no wait depends on them;
- `ReadersGetIn`, `WriterWaitsForReaders`: strong fairness of taking a mutex that becomes free again and again, weak fairness of
  ending a search or change. Nothing is assumed of spurious wake-ups.

In `MDL` nothing is assumed of timeouts or callers. Under a stream of timeouts a
thread could be kept off `m_rwlock` for ever by others taking it again and again, which
weak fairness allows; mutexes of the platform decide that, not this code. The
liveness runs therefore have no timeouts, and ask whether waits end without them.

## 6. Proofs

All theorems hold for every value of the constants that satisfies the named assumptions of the module (`MDL`:
`KeyAssumption`, `NullAssumption`, `BoundAssumption`, `CallerAssumption`; `MapAssumption`, `PrLockAssumption`,
`SemiSyncAssumption`, `MmapAssumption`; `BinlogXa`: `ThreadAssumption`, `EngineAssumption`; `EventGroups`: `TrxAssumption`, `ModeAssumption`, `GroupsAssumption`): any number of connections, threads, names, transactions, slaves or pages. Those
assumptions say that null values are not values, that bounds are numbers and where they cannot be zero; in `BinlogXa` also that
there are finitely many transactions, sessions and engines, in `EventGroups` that event groups are finitely many numbers and that a
group waits for row locks of later groups of its domain only (`Conflicts`; others are no business of parallel replication). Every proof
module has an inductive invariant, `IInv` (in `EventGroupsProofs` `AllInv`; in `BinlogXaProofs` two, `CountInv` and `RecoverInv`; for MDL four more on top of it, below), and theorems that follow from it. TLC checked each of them on the
instances of section 4 before it was proved.

| Module | Theorem | States |
|---|---|---|
| `MDLProofs` | `TypeCorrect`, `BitmapsAreExact`, `MutualExclusion`, `SavepointsAreExact` | `[]TypeOK`, `[]BitmapsExact`, `[]Compatible`, `[]SavepointExact` |
| | `NoGrantLost`, `GivenUpNotGranted` | `[]TicketsAccountedFor`, `[]AbandonedNotGranted`, if no client disconnects during a wait |
| | `SearchesAreSound` | `[]SearchPathIsReal` |
| | `NoWakeupMissed` | `[]NoMissedGrant`, if `HogBound < MaxWriteLockCount` (`max_write_lock_count` is not reached) |
| | `NoWeakRequestMissed` | `[]WeakNotMissed`: the same for weak requests, whatever `max_write_lock_count` is |
| `MDLMapProofs` | `NamesAreUnique`, `FoundObjectsKeepTheirName`, `NothingLeaks` | `[]OneLockPerName`, `[]FoundKeepsName`, `[]NoLeakedLock` |
| | `NamesRefined` | `Spec => ImplementsNames`: the container implements `LockNames` |
| `PrLockProofs` | `WritersExclude`, `WakeupsAreNotLost` | `[]Exclusive`, `[]NoLostWakeup` |
| `SemiSyncProofs` | `AcknowledgedIsOnASlave`, `NoTransactionSlipsThrough`, `ReturnedIsNotListed`, `NoSleeperIsForgotten` | `[]AckedMeansReceived`, `[]NoneSlipsThrough`, `[]RemovedWhenDone`, `[]NoForgottenSleeper` |
| `TcLogMmapProofs` | `SlotsAreCounted`, `PagesStayInOnePlace`, `NoSessionIsForgotten` | `[]FreeExact`, `[]OnePlace`, `[]SleepersRemembered` |
| | `RecoveryFindsXids` | `[]FoundByRecovery`, if at most one engine takes part in commit checkpoints |
| `BinlogXaProofs` | `CountsAreExact`, `CheckpointsOrdered` | `[]CountsExact`, `CheckpointsInOrder`, if at most one engine takes part in commit checkpoints |
| | `CountedFilesKept` | `[]KeptWhileCounted`, if at most one engine takes part in commit checkpoints |
| | `RecoveryIsRight` | `[]RecoveryAgrees`, if moreover `need_unlog` is right and sessions rotate as `write()` does |
| `EventGroupsProofs` | `RolledBackStaysOut`, `FailureStopsSuccessor` | `[]RolledBackNotLogged`, `[]NotAfterFailed`, if `Regular` (below) |
| | `CommitOrderRefined` | `Spec => CommitsInOrder`: parallel replication with group commit implements `CommitOrder`, if `Regular` |

### MDL

`Compatible` alone is not inductive. What keeps a grant safe is `can_grant_lock()`,
which looks at the bitmap, so exact bitmaps are needed; those need every ticket to be in
at most one list of the lock it names (`GrantedOK`, `WaitingOK`), and a removal to
find its ticket there (`OwnOK`: what a connection holds is granted; `RelOK`: what it is
about to release it holds, once). A grant by another thread puts a ticket in
`m_granted` that its connection takes over later, when the slot says so (`CurOK`). Clones are granted
without any check: they are safe because the ticket found is at least as strong
(`StrongerIsSafe`). The merge of an upgrade retypes a ticket without a check: it is safe because the
ticket just acquired is at least as strong (`HeldOK`, `UpgOK`). A downgrade is safe
because the pairs callers use go to weaker types (`DowngradeIsWeaker`). `MatrixSymmetric` is the
fact about the two granted matrices on which all of it rests.

The proof has one lemma per action or group of actions (`GrantInv`, `EnqueueInv`, `MergeInv`,
`ReleaseLockInv`, ...), on top of lemmas that say what an action on one
thread leaves alone (`OtherThread`, `LocalInv`, `QuietInv`) and what it does to the lists
(`OwnPush`, `OwnRemove`, `OwnMove`, `MoveFacts`, `RemoveFacts`, `RetypeFacts`; for sequences in `ListLemmas`).

The second half of `MDLProofs` is about what threads do to each other's waits. Its lemmas first show once, action by action, what any step of a thread may touch
(`StepEffect`): lists, types and tickets of at most one lock, of which the thread has the write lock (`Touches`); the slots of others only from empty, and to
`GRANTED` only for the request at hand (`SlotStep`); and a ticket becomes granted only to its own thread, or to a waiter whose slot was empty and says so afterwards (`GrantStep`).
From this effect alone follow three invariants on top of `IInv`:

- `AInv`: `RwOK` (who reschedules a lock across steps has its `m_rwlock`, and nobody else), `AccountOK` (a granted ticket is held, or its thread will see
  `GRANTED`) and `ClosedOK` (a wait that is given up has a closed slot). `ClosedOK` is what a disconnecting client breaks (`mdl.cc:2150`), and with it both
  theorems are false, as `MCMDL_gone` shows (finding 2): hence their hypothesis `~MayDisconnect`. For all other ends of a wait they hold.
- `PInv`: `PathOK`, for each frame of a search: the node waits for a lock that nobody has write-locked, its slot is not `GRANTED`, the edges left to follow are edges still, and
  the next frame is one of them. The read locks are used in one place, `NodeKept`: the lock a step touches is not one of those, since `CanWriteLock` excludes it.
- `QInv`: `QueueOK`, for each lock: every waiter is *settled* (its slot is closed, or a granted ticket or a waiter of higher priority is in its way), except those that
  the iterator of who reschedules the lock has not passed yet. So the loop may stop at its end, and every action that removes what could be in somebody's way has to start
  the loop or to leave nobody free. The merge of an upgrade does neither a loop nor a check (`mdl.cc:2347`): that it frees nobody needs that the ticket it drops is of the type that
  the other ticket gets, or was not new (`HeldOK`), and that the new type is at least as strong as the old one (`UpgOK`, from the pairs that callers upgrade); that a ticket of the
  context itself is never reused as "new" needs that nothing is newer than the savepoint the call has just taken (`NothingSince`). A waiter that is granted stays in the way of those it was in the way of
  because the waiting matrix is contained in the granted one (`PriorityConflicts`).
  A strong request that is skipped because `m_hog_lock_count` reached `max_write_lock_count` may be left waiting (finding 4). `NoWakeupMissed` therefore assumes that
  the count stays below the limit, as it does with the default, the largest `ulong`; `NoWeakRequestMissed` assumes nothing.

`SavepointsAreExact` needs to know where a savepoint's tickets are, and that nobody takes one of them away (`SInv`). `KeptIn`: all tickets that the savepoint protects are held still, with
statement or transactional duration, and in each of the two lists they are the elements from the sentinel on (`Marks`). Tickets are pushed in front, which keeps this; a removal
keeps it if its ticket is not protected. So `SavedIn` says too that no ticket to be released is protected, and that no protected ticket is in front of the sentinel of the savepoint that a call
(`acquire_locks()`, `upgrade_shared_lock()`, HANDLER OPEN) took for itself (`GuardIn`): the roll back of such a call, the merge of an upgrade and the move of a HANDLER's ticket then
touch newer tickets only. `StoredBeforeExact` says what `release_locks_stored_before()` meets. No induction is needed, since it is a prefix and not a filter.

### MDLMap and LockNames

An object may be removed between the moment a thread finds it and the moment the thread locks it. `ThreadOK` says what the thread still
knows then: the object is pinned, hence not recycled and still has the name it was found under, and if it was removed its
`m_strategy` is null. Inside `m_rwlock` nothing removes an object that was seen in use. `HashOK` (one linked object for a name),
`UsersOK` (an object with tickets can be found and is not marked) and `OneOwner` (one thread deletes an object) complete it.

For `NamesRefined` each step is shown to be a step of `LockNames` or none: entering `m_rwlock` of an object in use
(`Check` that finds it in use, `RemoveStart`) is `Enter` of its name; `AddTicket`, `GiveUp` and `RemoveTicket` are `Leave`;
all others, recycling included, leave the mapped state alone.

### PrLock

The lock itself knows only two counts and a flag, so the invariant says what they count: `WaitersOK` (the writers that wait for readers, as a cardinality)
and `HoldsOK`; the rest is what a thread may hold at each step. That no wake-up is lost needs all of it: a writer that sleeps was
counted before the last reader looked at the count.

### SemiSync

The list of active transactions is tied to positions: `LogOK` (at most the last transaction written is not visible to the dump threads yet), `SlavesOK`,
`ReplyOK` (what was acknowledged is on a slave, and nothing up to there is listed), `ListOK` (nothing is listed while semi-sync is off) and
`CommitOK` (the largest commit position while it is enabled). The last is what makes `try_switch_on()` safe: it
compares the reply with that position, and the proof shows that then nothing that is still to be acknowledged goes unlisted.

### TcLogMmap

`SessionOK` says of each session which mutexes it holds where it is (`LocksOK`), that there is no active page while it looks for one
and room in the one it uses (`ActiveOK`), that one session at a time syncs, its own page, which is in no other place meanwhile (`SyncOK`), and
that its XID is in its slot until the entry is queued for deletion (`SlotOK`). `PagesOK` and `DataOK` are the same seen from pages and slots,
`QueuedOK` says that an entry waits for its deletion once, `WaitersOK` counts the sessions that wait for a page. `PagesStayInOnePlace` follows from `PagesOK` and
`SyncOK`; `SlotsAreCounted` needs `DataOK` and `QueuedOK`, because a slot deleted twice would be counted twice.

`RecoveryFindsXids` is about what survives a crash: `DiskOK` (a page that was synced without error is on disk), `LoggedOK` (a logged XID is on disk or its
transaction is durable in every engine with checkpoints), `CountOK` and `DecrementOK` (`pending_count` counts the notifications still to come, also between the
read and the write of a decrement; an engine that answered has the whole batch). The hypothesis `OneEngine` is not for
convenience: with two engines `++pending_count` races with a notification and the property is false (finding 11), so the theorem says exactly when the code is right.

### BinlogXa

The three hypotheses are the three ways in which the code is known to go wrong, and each theorem takes only those it needs.

- `OneCheckpointEngine`: with two engines that have `commit_checkpoint_request()` an entry may be queued again while the background thread
  reads it (finding 9, `MCBinlogXa_notify`). With one, an entry is notified once.
- `UnlogsCounted`: `need_unlog` is set for every transaction with a participant that has no checkpoints. The code looks at the first participant only
  (finding 8, `MCBinlogXa_lazyfirst`).
- `RotatesInOrder`: sessions rotate through `write()`, which takes `LOCK_after_binlog_sync` before it asks for a checkpoint; `FLUSH LOGS` does
  not (finding 1, `MCBinlogXa_flush`).

`CountInv` gives the first three theorems. Its centre is `Exact`: the count of a file is the number of transactions that will call `unlog()`, of threads inside `mark_xid_done()`,
of checkpoint requests made to engines, and of entries in the queue of the background thread. To count a request once it must be in one place
at a time, with the thread that will make it, the engine, or the queue (`RequestsOnce`, `RequestsPast`), and the queue must be a list without a loop
(`QueueShape`; a notification adds an entry that is not in it, and to cut off the head leaves the rest, lemmas about `Reachable`). `Shapes`, `LocksHeld` and `GroupsWait` say where each
thread can be, with which mutexes and which group. `CheckpointsSafe` says that no checkpoint event, written or about to be, names a file after the oldest
one with a count: therefore the events, though written outside of `LOCK_xid_list`, are in order.
For `CountedFilesKept` the files with a count are within the list (`oldest..cur`) and the files of the list are in the index (`CountedListed`): `can_purge_log()` refuses the files of the list, and who trims the list drops files without a count only.

`RecoverInv` adds what a crash would find. `NeededKept`: the file of a transaction that a crash would leave prepared is in the index and is read by recovery.
It is kept because the file has a count as long as it is needed: a transaction still prepared is in a group before `commit_ordered()` or has a `commit()` to come
in an engine without checkpoints (`PreparedWaits`, with `FollowersLed`, `GroupsPrepared`), and one committed in memory only, in an older file, has
a checkpoint request coming that covers it (`CommittedAsked`, `RequestsServed`). The step that is hard is the rotation: `GroupsFile` says that a group whose
file was rotated away is ahead of the one who rotated in the queue for `LOCK_after_binlog_sync`, so the request is made after its `commit_ordered()`.
This is the order that `FLUSH LOGS` breaks.

### EventGroups, GroupCommit and WaitForCommit

The theorems are about any number of event groups in any domains, with any batches (`GcoStarts`), row lock conflicts and speculation, with permanent and temporary errors before and after `mark_start_commit()`, retries, `STOP SLAVE`,
a deadlock kill at any moment after the conflict, and wakeups whose two stores others see one by one. `Regular` names what they assume besides: the leader of a group commits for its members
(`opt_optimize_thread_scheduling`, the default, `log.cc:91`); `slave_trans_retries` is not 0 (the default is 10; with 0 a kill for a deadlock is an error like a user's); no write to the binary log fails; a user's kill finds a worker while it applies events. The first and the last
two are there because the code is wrong without them: failed writes and later kills violate the theorems (finding 7), and without the first the engines leave the order of the log (finding 6).

`RolledBackStaysOut` and `FailureStopsSuccessor` have one exception each, the group that entered the queue between the two stores of its `wakeup()` (`torn`): that is what the code does (finding 12), and the theorems say that it is
the only way past a failure, for a group that was not retried. `CommitOrderRefined` has no exception: the torn wakeup does not change the order.

`AllInv` has five parts.

- `TypeInv`, the types.
- `GroupInv`: which thread has which mutex and which group at each stage (`LockOK`, `LeaderOK`), and the centre of the refinement, `LogOK`: the binary log is what the engines have committed,
  followed by what waits for `commit_ordered()` and what waits to be synced, and with the group being written and the queue behind it no group is there twice and each comes after those it must follow.
  With it `WriteGroup` is `Write` of `CommitOrder` and `CommitOrdered` is `Apply`, and all other steps leave log and engines alone.
- `WaitInv`: who is on a list of waiters waits for its owner, for its direct predecessor and nobody else (`ListOK`, `WaitOK`), and a group that does not wait any more has none before it that is not
  in the queue or through (`ClearedOK`). This is where the kill of a waiter meets the leader that takes the waiter into its group: `wakeup_error`, `unwait` and `queued_by_other` say who was first.
  `DomOK` says that `last_committed_sub_id` is the last group that finished: a group that registers late finds a predecessor that is gone only if all before it are. `KillOK` says where
  a kill for a deadlock may find a group.
- `ErrInv`: a group that still waits has no wakeup error yet, and one that failed is at its end.
- `FailInv`: when a group that failed has finished, `stop_on_error_sub_id` is set and not beyond it (`FailOK`, `StopOK`), and its successor, unless it was retried or entered the queue torn, is not in the queue: it waits for it still, is half woken, or has
  the wakeup error (`AfterFailed`). `FailOK` also says that a group that must wait for prior commits before it runs cannot be a deadlock victim, since all before it are through.

The followers that `Enqueue` takes along are put in a row by increasing `sub_id` (`InSubIdOrder`). That there always is such a row, so
that `Enqueue` is never held up by it, is `SomeSubIdOrder`; it would be an induction, and is proved by a smallest counterexample instead (`LeastNat`, from the library's theorem on minimal elements).

### What is only model-checked

- Liveness (`WaitsEnd`, `AllFinish`, `CheckpointAdvances`, `ResetFinishes`, `AckComes`, `ReadersGetIn`, `WriterWaitsForReaders`): fairness and
  ENABLED are out of reach of the prover used.
- `NoUndetectedDeadlock` and `OrderedListsNeverVictims` of `MDL`: they are about paths of any length in the wait-for graph, and the second about lists of exclusive requests only; `ListsAllOrNothing`:
  true of contexts that hold one list at a time, which the run gets from its bound on tickets.
- `StopsWithoutGap` and `BatchesApart` of `EventGroups`: about counts of groups, for which the inductive invariant is not written. Without their exceptions for a mark taken back they are false (findings 13 and 14).
- `RolledBackNotLogged`, `NotAfterFailed` and the order of the log without `opt_optimize_thread_scheduling` (run `order` has both modes); `NotAfterFailed` with kills in the waits outside of a commit (`MCEventGroups_kills`).

## 7. Findings

The run `flush` shows the first. The others, but for 5 to 7, have a configuration to be run by hand, in which TLC finds the
property named violated; 5 to 7 say which constants to change in `MCEventGroups_torn.cfg` (the invariant or property too, the latter needs no fairness). Each is a case that the passing runs leave out, as said there.

1. `flush`, `RecoveryAgrees`: `rotate_and_purge()` (`FLUSH LOGS`) releases `LOCK_log` and asks for the checkpoint at once
   (`log.cc:6855`), though a group in the old file may not have reached `commit_ordered()`; the comment at `log.cc:6637`
   says that such a group has to be included. The engine answers, the checkpoint event lets recovery skip the old file, and after
   a crash a logged transaction is rolled back. The rotations of group commit, `write()` and `RESET MASTER` are safe (`xa`).
2. `MCMDL_gone`, `AbandonedNotGranted`: when the client of a waiting connection disconnects, `acquire_lock()`
   behaves as after a timeout but leaves the wait slot open (`mdl.cc:2150`). A release in that window
   grants the request; the thread then removes the granted ticket through `m_waiting`.
3. `MCMDL_recycled`, `HogCountReset`: `m_hog_lock_count` is said to be reset when there are no requests left (`mdl.cc:1353`). The
   removal of the last ticket does not go through that reset, and the object is recycled with the count it had.
4. `MCMDL_skipped`, `NoMissedGrant`: the comment at `mdl.cc:1272` says that a round of `reschedule_waiters()` that skips strong
   requests and grants no weak one can only have met weak requests that were cut short. A pending `SU` blocked by the
   `SU` of the connection whose upgrade is being skipped is another case. Then nobody
   is left to reschedule the lock, and no deadlock is seen, until a wait times out. It
   takes a low `max_write_lock_count` and two concurrent `ALTER TABLE`.
5. `NoGap`, with 3 groups: a group that is skipped because an earlier one failed (`rpl_parallel.cc:222`) ends
   without an error itself and wakes up the one after it, which may have started before the failure was known and commits.
6. `SameOrder`, with 4 groups, no faults and `Scheduling` = {FALSE}: without `opt_optimize_thread_scheduling` a leader waits for the previous group to finish
   (`group_commit_queue_busy`, `log.cc:7989`), which releases `LOCK_commit_ordered`; the leader of a later group may take the mutex first, and
   the engines commit in another order than the binary log.
7. `RolledBackNotLogged`, with `WriteErrors`: the write of one transaction of a group fails and that of the next one does not; this one is
   logged and committed in order, learns afterwards that its predecessor failed, and is treated as rolled back.
   With `KillAt` = {"return"}: so is one that is killed in the wait for prior commits that follows the group commit (`log.cc:7676`).
   `CommitsInOrder`, with 3 groups, the speculation of `order` and `KillAt` = {"specwait"}: a worker killed while it waits for the prior commit ends its group without waiting again and raises
   `last_committed_sub_id`; the comment at `rpl_parallel.cc:183` says that then all prior commits are done, but earlier groups may be running, and
   one that starts now does not wait for its predecessor.
8. `MCBinlogXa_lazyfirst`, `RecoveryAgrees`: `need_unlog` is decided by the first participant alone (`break` at `log.cc:7272`), so
   an engine without checkpoints is not counted if one with them is registered after it.
9. `MCBinlogXa_purge`, `RecoveryStarts`: `mark_xid_done()` removes entries before the checkpoint event is written; a purge in between may delete
   the file from which recovery would start, and recovery aborts. `MCBinlogXa_notify`, `TypeOK`: with two engines that have checkpoints the
   background thread follows `next_in_queue` of an entry that was queued again, and a count falls below zero.
10. `MCSemiSync_disable`, `ListWhenSwitchedOff`: a commit whose wait timed out while semi-sync was disabled calls `switch_off()`
    (`semisync_master.cc:721`), which asserts that the list exists and uses it.
11. `MCTcLogMmap_missed`, `NoMissedPage`: `delete_entry()` and the last waiter signal `COND_pool` without `LOCK_pool`
    (`log.cc:9224`, `9388`), so a session that has just found no page may miss it. `MCTcLogMmap_twoengines`, `FoundByRecovery`: `++pending_count` without
    a mutex (`log.cc:9296`) races with `commit_checkpoint_notify()`, and XIDs may go before the second engine is durable.
12. `MCEventGroups_torn`, `NeverLogged`: `wakeup()` clears `waitee` (`sql_class.cc:7152`) before it stores `wakeup_error` (`7153`), and `queue_for_group_commit()` reads both without the mutex (`log.cc:7344`, `7433`), which the comment at `log.cc:7337` calls safe.
    A group that comes in between, after a predecessor that failed, is queued, logged and committed in the engines, and learns of the failure at `log.cc:7677`: it is in the binary log and is reported as failed. The destructor of `wait_for_commit` (`sql_class.cc:7111`)
    guards against this dirty read as far as the memory is concerned, not the error.
13. `MCEventGroups_unmarked`, `LaterStillWaiting`: the comment of `retry_event_group()` (`rpl_parallel.cc:688`) says that when a group has to undo its `mark_start_commit()`, later ones are still waiting, because an earlier transaction waits for this one. That is so for a deadlock with an earlier group. A lock wait timeout, or a deadlock
    with a client's transaction, is retried as well (`slave.cc:3411`), and then the next batch may be running beside the group that is applied again. The test of MDEV-7326 (`mysql-test/extra/rpl_tests/rpl_parallel.inc:1662`) makes this case and checks only that nothing hangs.
14. `MCEventGroups_lateretry`, `StopsConsistently`: by the same retry the count of started groups goes down after a group of the next batch has started on it. `STOP SLAVE` takes the lowered count for `stop_count` (`rpl_parallel.cc:2216`), the comment before it saying that no group with a larger `wait_count` can have started: one group of that batch is skipped
    and a later one, already running, commits. The slave stops with a gap.
15. `MCBinlogXa_resetpurge`, `ResetFinishes`: a leader that rotated runs `checkpoint_and_purge()` (`log.cc:8041`) before its `commit()` and `unlog()`. With `expire_logs_days` set its `purge()` waits for `LOCK_index` (`log.cc:4839`); `RESET MASTER` holds it (`4062`) and waits for that very `unlog()` (`4092`). Neither goes on, and with
    `LOCK_log` held no commit does. With `expire_logs_days` = 0, the default, `RESET MASTER` ends (`xa`).

## 8. Not modelled

Galera (needs the external provider), the ColumnStore glue (rewrites statements for an engine that is
not here), parser and optimizer (large data transformations without protocol state), storage engines
and vendored libraries (third-party), clients and tools. They are most of the lines of the repository. GTID state, table locks, the table
definition cache, the engines' wait-for graph, the lock-free hash itself, event scheduler, thread pool, query cache, key cache and
APC are candidates for later modules. What is left out of a modelled component is said in section 3 and in `PROJECT.json`.
