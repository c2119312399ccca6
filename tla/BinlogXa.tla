------------------------------ MODULE BinlogXa ------------------------------
(***************************************************************************)
(* Two-phase commit with the binary log as transaction coordinator: the    *)
(* counts of pending XIDs kept per binlog file, the commit checkpoints     *)
(* that let crash recovery forget old files, rotation, the purge of old    *)
(* files (PURGE BINARY LOGS, and by the threads that rotate), RESET        *)
(* MASTER, a crash at any point, and recovery.                             *)
(* (class TC_LOG_BINLOG / MYSQL_BIN_LOG in sql/log.cc.)                    *)
(*                                                                         *)
(* A file is its number.  binlog_xid_count_list is always a range of       *)
(* consecutive files, so two variables stand for it: oldest..cur.          *)
(* The lock chain of the group commit (LOCK_log, LOCK_after_binlog_sync,   *)
(* LOCK_commit_ordered) is modelled in full in module GroupCommit; here a  *)
(* group holds LOCK_log, then LOCK_after_binlog_sync, and the step that    *)
(* takes LOCK_commit_ordered runs commit_ordered() of the whole group.     *)
(***************************************************************************)
EXTENDS Integers, FiniteSets, FiniteSetsExt, Sequences

CONSTANTS
  Trx,          \* transactions
  Session,      \* sessions that rotate or purge, other than through a commit
  Background,   \* the binlog background thread
  Resetter,     \* the session that runs RESET MASTER
  NoThread,     \* nobody
  Engine,       \* storage engines with two-phase commit
  Checkpoint,   \* those that have commit_checkpoint_request()
  Binlog,       \* binlog_hton, itself a participant of every transaction
  HaList,       \* the participants of a transaction, the last registered first
  Rotation,     \* where a session goes on after rotate(): "log" (write(), which
                \* takes the locks a group commit takes) or "request" (FLUSH LOGS)
  ExpireLogs,   \* whether expire_logs_days is set
  Budget        \* bounds: how many "rotate", "crash", "reset" and "purge" happen

Thread == Trx \union Session \union {Background, Resetter}
Bounded == {"rotate", "crash", "reset", "purge"}

ASSUME ThreadAssumption ==
  /\ NoThread \notin Thread
  /\ Background \notin Trx \union Session
  /\ Resetter \notin Trx \union Session \union {Background}
  /\ Trx \intersect Session = {}
ASSUME EngineAssumption ==
  /\ Checkpoint \subseteq Engine
  /\ Binlog \notin Engine
  /\ IsFiniteSet(Engine) /\ IsFiniteSet(Trx) /\ IsFiniteSet(Session)
  /\ HaList \in [Trx -> Seq(Engine \union {Binlog})]
  /\ \A t \in Trx : HaList[t] # <<>>
  /\ Rotation \subseteq {"log", "request"}
  /\ ExpireLogs \in BOOLEAN
  /\ Budget \in [Bounded -> Nat]

\* Every rotation, restart and RESET MASTER starts one file.
Files == 1 .. (1 + Budget["rotate"] + Budget["crash"] + Budget["reset"])
None == 0
FileOrNone == Files \union {None}

VARIABLES
  xids,      \* durable: the XIDs of the transactions in each file
  ckpt,      \* durable: the last checkpoint event of each file names this file
  index,     \* durable: the files named in the index
  engine,    \* what each engine knows of each transaction
  cur,       \* current_binlog_id
  oldest,    \* the head of binlog_xid_count_list
  count,     \* xid_count of each entry
  th,        \* where each thread is
  logLock,   \* the holder of LOCK_log
  syncLock,  \* the holder of LOCK_after_binlog_sync
  requests,  \* commit_checkpoint_request()s the engines have not answered
  queue,     \* binlog_background_thread_queue, next_in_queue and notify_count
  bg,        \* local variables of the background thread
  server,    \* "up", "recovering" or "aborted"
  left       \* what is left of the budget

disk == <<xids, ckpt, index>>
list == <<cur, oldest, count>>
locks == <<logLock, syncLock>>
notices == <<requests, queue, bg>>
vars == <<disk, engine, list, th, locks, notices, server, left>>

-----------------------------------------------------------------------------
Participants(t) == {HaList[t][i] : i \in DOMAIN HaList[t]} \ {Binlog}

\* Only the first participant decides whether the XID must be counted.
NeedUnlog(t) ==
  LET first == Head(HaList[t]) IN first # Binlog /\ first \notin Checkpoint

Logged == UNION {xids[f] : f \in Files}
FileOf(t) == CHOOSE f \in Files : t \in xids[f]
LastFile == Max(index)

\* A thread: where it is, the file it works for, the engines it still has to
\* ask for a checkpoint, where mark_xid_done() or rotate() returns to, the group
\* it leads and whether it rotated (check_purge).
PC == {"idle", "log", "link", "sync", "logged", "commit", "end", "request", "done",
       "checkpoint", "event", "purge", "wait", "count", "next", "resetwait", "resetlock",
       "resetorder", "resetidle"}
ThreadState == [pc: PC, id: FileOrNone, todo: SUBSET Engine, ret: PC,
                group: SUBSET Trx, rotated: BOOLEAN]
At(pc) == [pc |-> pc, id |-> None, todo |-> {}, ret |-> "idle", group |-> {},
           rotated |-> FALSE]

Request == [engine: Checkpoint, id: Files, need: SUBSET Trx]

\* Every variable has its type; in particular no count of pending XIDs goes below
\* zero, as mark_xid_done() asserts.
TypeOK ==
  /\ xids \in [Files -> SUBSET Trx]
  /\ ckpt \in [Files -> FileOrNone]
  /\ index \in SUBSET Files
  /\ engine \in [Trx -> [Engine -> {"active", "prepared", "committed", "durable",
                                    "rolledback"}]]
  /\ cur \in Files /\ oldest \in Files
  /\ count \in [Files -> Nat]
  /\ th \in [Thread -> ThreadState]
  /\ logLock \in Thread \union {NoThread} /\ syncLock \in Thread \union {NoThread}
  /\ requests \in SUBSET Request
  /\ queue \in [head: FileOrNone, next: [Files -> FileOrNone], notify: [Files -> Nat]]
  /\ bg \in [entry: FileOrNone, next: FileOrNone, again: Nat]
  /\ server \in {"up", "recovering", "aborted"}
  /\ left \in [Bounded -> Nat]

EmptyQueue == [head |-> None, next |-> [f \in Files |-> None],
               notify |-> [f \in Files |-> 0]]
NoEntry == [entry |-> None, next |-> None, again |-> 0]

Started ==
  [p \in Thread |-> IF p = Background THEN At("wait") ELSE At("idle")]

\* The first start of the server: one file, whose checkpoint event names itself.
Init ==
  /\ xids = [f \in Files |-> {}]
  /\ ckpt = [f \in Files |-> IF f = 1 THEN 1 ELSE None]
  /\ index = {1}
  /\ engine = [t \in Trx |-> [e \in Engine |-> "active"]]
  /\ cur = 1 /\ oldest = 1
  /\ count = [f \in Files |-> 0]
  /\ th = Started
  /\ logLock = NoThread /\ syncLock = NoThread
  /\ requests = {} /\ queue = EmptyQueue /\ bg = NoEntry
  /\ server = "up"
  /\ left = Budget

Goto(p, pc) == [th EXCEPT ![p].pc = pc]
Spend(what) == left[what] > 0 /\ left' = [left EXCEPT ![what] = @ - 1]

\* A thread enters do_checkpoint_request(id) and goes on at ret after it.
Asking(id, ret) == [At(IF Checkpoint = {} THEN "done" ELSE "request") EXCEPT
                      !.id = id, !.todo = Checkpoint, !.ret = ret]

-----------------------------------------------------------------------------
(***************************************************************************)
(* A transaction.                                                          *)
(***************************************************************************)

\* ha_prepare(): each engine makes its part of the transaction durable.
Prepare(t, e) ==
  /\ th[t].pc = "idle"
  /\ e \in Participants(t) /\ engine[t][e] = "active"
  /\ engine' = [engine EXCEPT ![t][e] = "prepared"]
  /\ UNCHANGED <<disk, list, th, locks, notices, server, left>>

Prepared(t) ==
  th[t].pc = "idle" /\ \A e \in Participants(t) : engine[t][e] = "prepared"

\* Mutant: the XIDs are not counted.
WriteGroupUncounted(t, group) ==
  /\ logLock = NoThread
  /\ t \in group /\ \A u \in group : Prepared(u)
  /\ xids' = [xids EXCEPT ![cur] = @ \union group]
  /\ logLock' = t
  /\ th' = [p \in Thread |->
              CASE p = t -> [th[p] EXCEPT !.pc = "log", !.group = group]
                [] p \in group \ {t} -> [th[p] EXCEPT !.pc = "logged"]
                [] OTHER -> th[p]]
  /\ UNCHANGED <<ckpt, index, engine, list, syncLock, notices, server, left>>

\* trx_group_commit_leader(): t writes a group and syncs it; the XIDs that will
\* be unlogged are counted.
WriteGroup(t, group) ==
  /\ logLock = NoThread
  /\ t \in group /\ \A u \in group : Prepared(u)
  /\ xids' = [xids EXCEPT ![cur] = @ \union group]
  /\ count' = [count EXCEPT ![cur] = @ + Cardinality({u \in group : NeedUnlog(u)})]
  /\ logLock' = t
  /\ th' = [p \in Thread |->
              CASE p = t -> [th[p] EXCEPT !.pc = "log", !.group = group]
                [] p \in group \ {t} -> [th[p] EXCEPT !.pc = "logged"]
                [] OTHER -> th[p]]
  /\ UNCHANGED <<ckpt, index, engine, cur, oldest, syncLock, notices, server, left>>

\* LOCK_after_binlog_sync is taken before LOCK_log is released.
LockAfterSync(p) ==
  /\ th[p].pc = "log" /\ logLock = p
  /\ syncLock = NoThread
  /\ syncLock' = p /\ logLock' = NoThread
  /\ th' = Goto(p, "sync")
  /\ UNCHANGED <<disk, engine, list, notices, server, left>>

\* LOCK_commit_ordered is taken, commit_ordered() run for the group in the
\* engines that have it, and the followers are woken.  A thread that rotated
\* goes on to checkpoint_and_purge() before its own commit() and unlog().
CommitOrdered(p) ==
  LET group == th[p].group IN
  /\ th[p].pc = "sync" /\ syncLock = p
  /\ syncLock' = NoThread
  /\ engine' = [t \in Trx |-> [e \in Engine |->
                  IF t \in group /\ e \in Participants(t) \intersect Checkpoint
                    THEN "committed" ELSE engine[t][e]]]
  /\ th' = [q \in Thread |->
              CASE q = p -> IF th[p].rotated THEN Asking(th[p].id, "purge")
                            ELSE At("commit")
                [] q \in group \ {p} -> At("commit")
                [] OTHER -> th[q]]
  /\ UNCHANGED <<disk, list, logLock, notices, server, left>>

\* commit() in an engine without commit_checkpoint_request() is durable.
CommitEngine(t, e) ==
  /\ th[t].pc = "commit"
  /\ e \in Participants(t) \ Checkpoint /\ engine[t][e] = "prepared"
  /\ engine' = [engine EXCEPT ![t][e] = "durable"]
  /\ UNCHANGED <<disk, list, th, locks, notices, server, left>>

\* tc_log->unlog() after the commit in every engine.
Unlog(t) ==
  /\ th[t].pc = "commit"
  /\ \A e \in Participants(t) : engine[t][e] # "prepared"
  /\ th' = [th EXCEPT ![t] = IF NeedUnlog(t)
                               THEN [At("done") EXCEPT !.id = FileOf(t), !.ret = "end"]
                               ELSE At("end")]
  /\ UNCHANGED <<disk, engine, list, locks, notices, server, left>>

-----------------------------------------------------------------------------
(***************************************************************************)
(* Rotation and the request of a commit checkpoint.                        *)
(***************************************************************************)

\* The first file still needed by recovery, else f (open()).
FirstNeeded(f) == Min({i \in oldest .. cur : count[i] # 0} \union {f})

\* Mutant: the first checkpoint event of a file names the file itself.
RotateForgetful(p, after) ==
  LET new == cur + 1 IN
  /\ Spend("rotate")
  /\ count' = [count EXCEPT ![cur] = @ + 1]
  /\ index' = index \union {new}
  /\ ckpt' = [ckpt EXCEPT ![new] = new]
  /\ logLock' = p
  /\ th' = [th EXCEPT ![p] = [th[p] EXCEPT !.pc = "link", !.id = cur, !.ret = after,
                                           !.rotated = TRUE]]
  /\ UNCHANGED <<xids, engine, cur, oldest, syncLock, notices, server>>

\* rotate(): count the checkpoint request to come, create and sync the new file
\* with its first checkpoint event.  LOCK_log is held (by a leader that has
\* written) or taken (by write() and FLUSH LOGS).
Rotate(p, after) ==
  LET new == cur + 1 IN
  /\ Spend("rotate")
  /\ count' = [count EXCEPT ![cur] = @ + 1]
  /\ index' = index \union {new}
  /\ ckpt' = [ckpt EXCEPT ![new] = Min({i \in oldest .. cur : count'[i] # 0})]
  /\ logLock' = p
  /\ th' = [th EXCEPT ![p] = [th[p] EXCEPT !.pc = "link", !.id = cur, !.ret = after,
                                           !.rotated = TRUE]]
  /\ UNCHANGED <<xids, engine, cur, oldest, syncLock, notices, server>>

RotateLeader(t) ==
  /\ th[t].pc = "log" /\ logLock = t /\ ~th[t].rotated
  /\ Rotate(t, "log")

\* write(): a session that has written an event rotates, and asks for the
\* checkpoint after its own pass through the locks of the commit order.
RotateWrite(s) == Rotate(s, "log")

\* rotate_and_purge(), for FLUSH LOGS.
FlushLogs(s) == Rotate(s, "request")

\* A session takes LOCK_log and rotates, in one of the ways of Rotation.
RotateSession(s) ==
  /\ th[s].pc = "idle" /\ logLock = NoThread
  /\ \E after \in Rotation : IF after = "log" THEN RotateWrite(s) ELSE FlushLogs(s)

\* The end of open(): the new entry is linked, leading entries without pending
\* XIDs go.  FLUSH LOGS then releases LOCK_log and asks for the checkpoint.
RotateLink(p) ==
  /\ th[p].pc = "link"
  /\ oldest' = FirstNeeded(cur + 1)
  /\ cur' = cur + 1
  /\ th' = IF th[p].ret = "log" THEN Goto(p, "log")
           ELSE [th EXCEPT ![p] = Asking(th[p].id, "purge")]
  /\ logLock' = IF th[p].ret = "log" THEN p ELSE NoThread
  /\ UNCHANGED <<disk, engine, count, syncLock, notices, server, left>>

\* do_checkpoint_request(): every engine in turn is asked to make durable what
\* has completed commit_ordered(); each request is counted first.  Then the count
\* that rotate() took is given back by mark_xid_done().
RequestCheckpoint(p, e) ==
  LET id == th[p].id IN
  /\ th[p].pc = "request" /\ e \in th[p].todo
  /\ count' = [count EXCEPT ![id] = @ + 1]
  /\ requests' = requests \union
       {[engine |-> e, id |-> id, need |-> {t \in Trx : engine[t][e] = "committed"}]}
  /\ th' = [th EXCEPT ![p] = [th[p] EXCEPT !.todo = th[p].todo \ {e},
                               !.pc = IF th[p].todo = {e} THEN "done" ELSE "request"]]
  /\ UNCHANGED <<disk, engine, cur, oldest, locks, queue, bg, server, left>>

-----------------------------------------------------------------------------
(***************************************************************************)
(* mark_xid_done().                                                        *)
(***************************************************************************)

\* reset_master_pending and mark_xid_done_waiting.
ResetPending == th[Resetter].pc # "idle"
Waiting == {p \in Thread : th[p].pc = "checkpoint"}

\* The background thread repeats mark_xid_done() once per notification counted,
\* then goes to the next entry of the list it grabbed.
Return(p) ==
  IF p # Background THEN /\ th' = [th EXCEPT ![p] = At(th[p].ret)]
                         /\ UNCHANGED bg
  ELSE IF bg.again > 0
    THEN /\ th' = Goto(p, "done")
         /\ bg' = [bg EXCEPT !.again = @ - 1]
    ELSE /\ th' = [th EXCEPT ![p] = At(IF bg.next = None THEN "wait" ELSE "count")]
         /\ bg' = [NoEntry EXCEPT !.entry = bg.next]

\* Mutant: a pending RESET MASTER is not heeded.
MarkXidDoneBlindly(p) ==
  LET id == th[p].id IN
  /\ th[p].pc = "done"
  /\ count' = [count EXCEPT ![id] = @ - 1]
  /\ IF id = cur \/ count'[id] # 0 \/ id # oldest
       THEN Return(p)
       ELSE th' = Goto(p, "checkpoint") /\ UNCHANGED bg
  /\ UNCHANGED <<disk, engine, cur, oldest, locks, requests, queue, server, left>>

\* The count drops.  Only the last XID of the oldest file, when that is not the
\* current one, leads to a checkpoint; during RESET MASTER none is written.
MarkXidDone(p) ==
  LET id == th[p].id IN
  /\ th[p].pc = "done"
  /\ count' = [count EXCEPT ![id] = @ - 1]
  /\ IF ResetPending \/ id = cur \/ count'[id] # 0 \/ id # oldest
       THEN Return(p)
       ELSE th' = Goto(p, "checkpoint") /\ UNCHANGED bg
  /\ UNCHANGED <<disk, engine, cur, oldest, locks, requests, queue, server, left>>

\* Mutant: only one entry is removed.
TrimOne(p) ==
  /\ th[p].pc = "checkpoint" /\ logLock = NoThread
  /\ logLock' = p
  /\ oldest' = IF oldest # cur /\ count[oldest] = 0 THEN oldest + 1 ELSE oldest
  /\ th' = [th EXCEPT ![p].pc = "event"]
  /\ UNCHANGED <<disk, engine, cur, count, syncLock, notices, server, left>>

\* LOCK_xid_list was released; with LOCK_log and LOCK_xid_list held again, the
\* leading entries without pending XIDs are removed.
TrimList(p) ==
  /\ th[p].pc = "checkpoint" /\ logLock = NoThread
  /\ logLock' = p
  /\ oldest' = Min({i \in oldest .. cur : count[i] > 0} \union {cur})
  /\ th' = [th EXCEPT ![p].pc = "event"]
  /\ UNCHANGED <<disk, engine, cur, count, syncLock, notices, server, left>>

\* Mutant: the file after the one whose count dropped is named.
CheckpointEventStale(p) ==
  /\ th[p].pc = "event"
  /\ ckpt' = [ckpt EXCEPT ![cur] = th[p].id + 1]
  /\ logLock' = NoThread
  /\ Return(p)
  /\ UNCHANGED <<xids, index, engine, list, syncLock, requests, queue, server, left>>

\* write_binlog_checkpoint_event_already_locked(): written and synced.
CheckpointEvent(p) ==
  /\ th[p].pc = "event"
  /\ ckpt' = [ckpt EXCEPT ![cur] = oldest]
  /\ logLock' = NoThread
  /\ Return(p)
  /\ UNCHANGED <<xids, index, engine, list, syncLock, requests, queue, server, left>>

-----------------------------------------------------------------------------
(***************************************************************************)
(* The engines and the background thread.                                  *)
(***************************************************************************)

\* An engine flushes what it committed, whenever it likes.
EngineFlush(e) ==
  /\ \E t \in Trx : engine[t][e] = "committed"
  /\ engine' = [t \in Trx |->
       [engine[t] EXCEPT ![e] = IF @ = "committed" THEN "durable" ELSE @]]
  /\ UNCHANGED <<disk, list, th, locks, notices, server, left>>

\* The entries linked through next_in_queue from the first one: those in every
\* set that holds the first entry and the successors of its members.
Reachable(next, first) ==
  {f \in Files : \A S \in SUBSET Files :
     /\ first \in S \union {None}
     /\ \A g \in S : next[g] \in S \union {None}
     => f \in S}
Chain(first) == Reachable(queue.next, first)

\* Those in binlog_background_thread_queue.
Queued == Chain(queue.head)

\* commit_checkpoint_notify(): an engine answers once its transactions are
\* durable.  An entry already queued is counted, another one is put in front.
CheckpointNotify(r) ==
  /\ r \in requests
  /\ requests' = requests \ {r}
  /\ engine' = [t \in Trx |->
       [engine[t] EXCEPT ![r.engine] = IF t \in r.need THEN "durable" ELSE @]]
  /\ queue' = IF r.id \in Queued
                THEN [queue EXCEPT !.notify[r.id] = @ + 1]
                ELSE [queue EXCEPT !.next[r.id] = queue.head, !.head = r.id]
  /\ UNCHANGED <<disk, list, th, locks, bg, server, left>>

\* binlog_background_thread(): grab the queue.
GrabQueue ==
  /\ th[Background].pc = "wait" /\ queue.head # None
  /\ bg' = [bg EXCEPT !.entry = queue.head]
  /\ queue' = [queue EXCEPT !.head = None]
  /\ th' = Goto(Background, "count")
  /\ UNCHANGED <<disk, engine, list, locks, requests, server, left>>

\* Without the mutex: first the notifications of an entry are read ...
ReadCount ==
  /\ th[Background].pc = "count"
  /\ bg' = [bg EXCEPT !.again = queue.notify[bg.entry]]
  /\ th' = Goto(Background, "next")
  /\ UNCHANGED <<disk, engine, list, locks, requests, queue, server, left>>

\* ... then its successor, and the notifications are reset.
ReadNext ==
  /\ th[Background].pc = "next"
  /\ bg' = [bg EXCEPT !.next = queue.next[bg.entry]]
  /\ queue' = [queue EXCEPT !.notify[bg.entry] = 0]
  /\ th' = [th EXCEPT ![Background] = [At("done") EXCEPT !.id = bg.entry]]
  /\ UNCHANGED <<disk, engine, list, locks, requests, server, left>>

-----------------------------------------------------------------------------
(***************************************************************************)
(* Purges and RESET MASTER.                                                *)
(***************************************************************************)

\* LOCK_index is held while a file is created and by RESET MASTER.
IndexFree ==
  /\ \A p \in Thread : th[p].pc # "link"
  /\ logLock # Resetter

\* Mutant: the list of pending XIDs is not looked at.
CanPurgeBlindly(f) == f # LastFile

\* can_purge_log(), for a file before the last one of the index.
CanPurge(f) == f # LastFile /\ f \notin oldest .. cur

\* PURGE BINARY LOGS: the first file of the index goes.  The session holds no lock
\* while it waits for LOCK_index.
Purge(s) ==
  /\ th[s].pc = "idle"
  /\ Spend("purge")
  /\ IndexFree
  /\ CanPurge(Min(index))
  /\ index' = index \ {Min(index)}
  /\ UNCHANGED <<xids, ckpt, engine, list, th, locks, notices, server>>

\* purge(), the end of checkpoint_and_purge(): if logs expire, the thread that
\* rotated waits for LOCK_index and removes the files at the start of the index
\* that are old enough, as far as can_purge_log() lets it.  A leader has its own
\* commit() and unlog() still to come.
PurgeExpired(p) ==
  /\ th[p].pc = "purge"
  /\ IF ExpireLogs
       THEN /\ IndexFree
            /\ \E keep \in index :
                 /\ \A f \in index : f < keep => CanPurge(f)
                 /\ index' = {f \in index : f >= keep}
       ELSE UNCHANGED index
  /\ th' = [th EXCEPT ![p] = At(IF p \in Trx THEN "commit" ELSE "idle")]
  /\ UNCHANGED <<xids, ckpt, engine, list, locks, notices, server, left>>

\* reset_logs(): checkpoints are announced useless ...
ResetStart ==
  /\ th[Resetter].pc = "idle"
  /\ Spend("reset")
  /\ th' = Goto(Resetter, "resetwait")
  /\ UNCHANGED <<disk, engine, list, locks, notices, server>>

\* ... those already under way are let finish ...
ResetWait ==
  /\ th[Resetter].pc = "resetwait" /\ Waiting = {}
  /\ th' = Goto(Resetter, "resetlock")
  /\ UNCHANGED <<disk, engine, list, locks, notices, server, left>>

ResetLock ==
  /\ th[Resetter].pc = "resetlock" /\ logLock = NoThread
  /\ logLock' = Resetter
  /\ th' = Goto(Resetter, "resetorder")
  /\ UNCHANGED <<disk, engine, list, syncLock, notices, server, left>>

\* ... LOCK_after_binlog_sync and LOCK_commit_ordered are taken and released, so
\* that the group commits are through, and a checkpoint is asked for ...
ResetRequest ==
  /\ th[Resetter].pc = "resetorder" /\ syncLock = NoThread
  /\ count' = [count EXCEPT ![cur] = @ + 1]
  /\ th' = [th EXCEPT ![Resetter] = Asking(cur, "resetidle")]
  /\ UNCHANGED <<disk, engine, cur, oldest, locks, notices, server, left>>

\* ... and when no count is left, all files go and a new one is opened.
ResetFiles ==
  /\ th[Resetter].pc = "resetidle"
  /\ \A i \in oldest .. cur : count[i] <= 0
  /\ cur' = cur + 1 /\ oldest' = cur + 1
  /\ index' = {cur + 1}
  /\ ckpt' = [ckpt EXCEPT ![cur + 1] = cur + 1]
  /\ logLock' = NoThread
  /\ th' = [th EXCEPT ![Resetter] = At("idle")]
  /\ UNCHANGED <<xids, engine, count, syncLock, notices, server, left>>

-----------------------------------------------------------------------------
(***************************************************************************)
(* A crash and the recovery from it.                                       *)
(***************************************************************************)

\* Memory is lost.  What an engine committed but did not flush is prepared
\* again, what it did not prepare is rolled back and may be tried again.
Crash ==
  /\ Spend("crash")
  /\ server \in {"up", "recovering"}
  /\ server' = "recovering"
  /\ engine' = [t \in Trx |-> [e \in Engine |->
                  IF engine[t][e] = "committed" THEN "prepared" ELSE engine[t][e]]]
  /\ th' = [p \in Thread |-> IF p \in Trx /\ \E e \in Engine : engine[p][e] # "active"
                               THEN At("end") ELSE Started[p]]
  /\ logLock' = NoThread /\ syncLock' = NoThread
  /\ requests' = {} /\ queue' = EmptyQueue /\ bg' = NoEntry
  /\ count' = [f \in Files |-> 0]
  /\ UNCHANGED <<disk, cur, oldest>>

\* recover(): the last checkpoint event of the last file tells where to start.
ScanFrom == ckpt[LastFile]
Scanned == UNION {xids[f] : f \in {g \in index : g >= ScanFrom} \union {LastFile}}

\* "Binlog file not found in binlog index, needed for recovery. Aborting."
RecoverAborts ==
  /\ server = "recovering" /\ ScanFrom \notin index
  /\ server' = "aborted"
  /\ UNCHANGED <<disk, engine, list, th, locks, notices, left>>

\* ha_recover(), engine by engine: a prepared transaction is committed if its
\* XID was found, else rolled back.
RecoverEngine(e) ==
  /\ server = "recovering" /\ ScanFrom \in index
  /\ \E t \in Trx : engine[t][e] = "prepared"
  /\ engine' = [t \in Trx |-> [engine[t] EXCEPT ![e] =
                  IF @ # "prepared" THEN @
                  ELSE IF t \in Scanned THEN "durable" ELSE "rolledback"]]
  /\ UNCHANGED <<disk, list, th, locks, notices, server, left>>

\* The log is opened with a new file and an empty list.
Restart ==
  LET new == LastFile + 1 IN
  /\ server = "recovering" /\ ScanFrom \in index
  /\ \A t \in Trx, e \in Engine : engine[t][e] # "prepared"
  /\ server' = "up"
  /\ cur' = new /\ oldest' = new
  /\ index' = index \union {new}
  /\ ckpt' = [ckpt EXCEPT ![new] = new]
  /\ UNCHANGED <<xids, engine, count, th, locks, notices, left>>

-----------------------------------------------------------------------------
Transaction(t) ==
  \/ \E e \in Engine : Prepare(t, e)
  \/ \E group \in SUBSET Trx : WriteGroup(t, group)
  \/ RotateLeader(t)

Committing(t) == Unlog(t) \/ \E e \in Engine : CommitEngine(t, e)

\* The steps common to every thread that writes or rotates.
Logging(p) ==
  \/ LockAfterSync(p)
  \/ CommitOrdered(p)
  \/ RotateLink(p)
  \/ \E e \in Checkpoint : RequestCheckpoint(p, e)
  \/ MarkXidDone(p)
  \/ TrimList(p)
  \/ CheckpointEvent(p)
  \/ PurgeExpired(p)

BackgroundThread == GrabQueue \/ ReadCount \/ ReadNext

ResetMaster == ResetWait \/ ResetLock \/ ResetRequest \/ ResetFiles

Notices == \E r \in requests : CheckpointNotify(r)

\* What a running server finishes once begun, and what it may do.
Work ==
  /\ server = "up"
  /\ \/ \E t \in Trx : Committing(t)
     \/ \E p \in Thread : Logging(p)
     \/ Notices \/ BackgroundThread \/ ResetMaster

Optional ==
  /\ server = "up"
  /\ \/ \E t \in Trx : Transaction(t)
     \/ \E s \in Session : RotateSession(s) \/ Purge(s)
     \/ \E e \in Checkpoint : EngineFlush(e)
     \/ ResetStart

Recovery == RecoverAborts \/ Restart \/ \E e \in Engine : RecoverEngine(e)

\* Nothing is left to do.
Terminated ==
  /\ server # "recovering"
  /\ server = "up" => /\ \A t \in Trx : th[t].pc = "end"
                      /\ \A s \in Session : th[s].pc = "idle"
                      /\ th[Resetter].pc = "idle" /\ th[Background].pc = "wait"
                      /\ requests = {} /\ queue.head = None
  /\ UNCHANGED vars

Next == Work \/ Optional \/ Crash \/ Recovery \/ Terminated

Spec == Init /\ [][Next]_vars

\* While something is begun some thread goes on with it, the engines answer, and
\* the server is restarted after a crash.
FairSpec == Spec /\ WF_vars(Work) /\ WF_vars(Recovery)

-----------------------------------------------------------------------------
(***************************************************************************)
(* Properties.                                                             *)
(***************************************************************************)

\* What an engine rolled back is not in the binary log and what it made durable
\* is: crash recovery, wherever the crash fell between writes, checkpoints,
\* rotations, purges and RESET MASTER, finds every XID it needs.
RecoveryAgrees ==
  \A t \in Trx : \A e \in Participants(t) :
    /\ engine[t][e] = "rolledback" => t \notin Logged
    /\ engine[t][e] \in {"committed", "durable"} => t \in Logged

\* A transaction whose unlog() is still to come.
OwesUnlog(t) ==
  /\ NeedUnlog(t)
  /\ \/ th[t].pc \in {"log", "link", "logged", "sync", "request", "commit"}
     \/ th[t].pc = "purge"
     \/ th[t].pc \in {"done", "checkpoint", "event"} /\ th[t].ret = "purge"

\* A thread whose rotation, checkpoint request or unlog() still counts in f.
OwesDone(p, f) ==
  /\ p # Background /\ th[p].id = f
  /\ \/ th[p].pc \in {"link", "request", "done"}
     \/ th[p].pc \in {"log", "sync"} /\ th[p].rotated

\* The notifications for f that the background thread has yet to process.
OwedByBackground(f) ==
  LET pc == th[Background].pc
      grabbed == IF pc \in {"count", "next"} THEN Chain(bg.entry) ELSE Chain(bg.next)
      now == IF bg.entry # f THEN 0
             ELSE IF pc = "done" THEN 1 + bg.again
             ELSE IF pc \in {"checkpoint", "event"} THEN bg.again ELSE 0
  IN  now + (IF f \in grabbed \union Queued THEN 1 + queue.notify[f] ELSE 0)

\* The count of a file is exactly what mark_xid_done() will still take from it:
\* unlog()s, rotations, checkpoint requests and notifications on their way.  One
\* too many keeps the file for ever, one too few gives it up too early.
CountsExact ==
  server = "up" => \A f \in Files :
    count[f] = Cardinality({t \in Trx : t \in xids[f] /\ OwesUnlog(t)})
             + Cardinality({p \in Thread : OwesDone(p, f)})
             + Cardinality({r \in requests : r.id = f})
             + OwedByBackground(f)

\* The place where recovery would start never moves back, though threads leave
\* LOCK_xid_list between finding a file done and writing the checkpoint event.
CheckpointsInOrder == [][ScanFrom' >= ScanFrom]_vars

\* A file with a count of pending XIDs is not purged, though a count drops, a file
\* leaves the list and files are purged under different mutexes.
KeptWhileCounted == server = "up" => \A f \in Files : count[f] > 0 => f \in index

\* Recovery finds the file it has to start from: no purge deletes a file "that XA
\* recovery thinks" is needed.
RecoveryStarts == ScanFrom \in index

\* Once the rotations are over, a checkpoint event is logged that lets recovery
\* read the last file alone.
CheckpointAdvances == []<>(ScanFrom = LastFile \/ server = "aborted")

\* RESET MASTER, which holds LOCK_log and LOCK_index while it waits for every count
\* to drop, always ends.  So it does while no logs expire; if they do, a leader that
\* rotated may wait for LOCK_index in its purge(), before the unlog() waited for.
ResetFinishes == []<>(th[Resetter].pc = "idle")
=============================================================================
