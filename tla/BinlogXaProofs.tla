--------------------------- MODULE BinlogXaProofs ---------------------------
(***************************************************************************)
(* Proofs about module BinlogXa, for any number of transactions, sessions, *)
(* engines, rotations, resets, purges and crashes: every count of pending  *)
(* XIDs is exact, no file with a count is purged and the place where       *)
(* recovery starts never moves back, if at most one engine has             *)
(* commit_checkpoint_request(); and crash recovery agrees with the binary  *)
(* log, if moreover every transaction that needs an unlog() is counted and *)
(* sessions rotate the way write() does.                                   *)
(***************************************************************************)
EXTENDS BinlogXa, FiniteSetTheorems, WellFoundedInduction, TLAPS

-----------------------------------------------------------------------------
(***************************************************************************)
(* The hypotheses.                                                         *)
(***************************************************************************)

\* At most one engine has commit_checkpoint_request(): with two of them the
\* notifications of a file race with the background thread, which reads
\* notify_count and next_in_queue without the mutex.
OneCheckpointEngine == \A d, e \in Checkpoint : d = e

\* need_unlog is set for every transaction with a participant that does not have
\* commit_checkpoint_request().  The code looks at the first participant alone.
UnlogsCounted == \A t \in Trx : Participants(t) \subseteq Checkpoint \/ NeedUnlog(t)

\* A session that rotates does so through write(), and takes
\* LOCK_after_binlog_sync before it asks for a checkpoint; FLUSH LOGS does not.
RotatesInOrder == "request" \notin Rotation

-----------------------------------------------------------------------------
(***************************************************************************)
(* The inductive invariant.                                                *)
(***************************************************************************)
Leading == {"log", "link", "sync"}

\* Where the threads of each kind can be, and where they return to.
TrxShape ==
  \A t \in Trx :
    /\ th[t].pc \in {"idle", "logged", "request", "done", "checkpoint", "event",
                     "purge", "commit", "end"} \union Leading
    /\ th[t].pc = "request" => th[t].ret = "purge"
    /\ th[t].pc \in {"done", "checkpoint", "event"} => th[t].ret \in {"purge", "end"}
    /\ th[t].pc = "link" => th[t].ret = "log" /\ th[t].rotated
    /\ th[t].rotated => th[t].pc \in Leading

SessionShape ==
  \A s \in Session :
    /\ th[s].pc \in {"idle", "request", "done", "checkpoint", "event", "purge"}
                       \union Leading
    /\ th[s].pc \in {"request", "done", "checkpoint", "event"} => th[s].ret = "purge"
    /\ th[s].pc = "link" => th[s].ret \in Rotation
    /\ th[s].rotated <=> th[s].pc \in Leading
    /\ th[s].group = {}

BackgroundShape ==
  /\ th[Background].pc \in {"wait", "count", "next", "done", "checkpoint", "event"}
  /\ th[Background].pc # "wait" => bg.entry \in Files
  /\ th[Background].pc = "done" => th[Background].id = bg.entry
  /\ th[Background].pc = "wait" => bg.next = None
  /\ ~th[Background].rotated

ResetterShape ==
  /\ th[Resetter].pc \in {"idle", "resetwait", "resetlock", "resetorder", "request",
                          "done", "resetidle"}
  /\ th[Resetter].pc \in {"request", "done"} =>
       th[Resetter].ret = "resetidle" /\ th[Resetter].id = cur
  /\ ~th[Resetter].rotated

\* What a thread that still has to ask for a checkpoint knows.
AskShape ==
  \A p \in Thread :
    /\ th[p].pc \in {"link", "request", "done"} \/ th[p].rotated => th[p].id \in Files
    /\ th[p].pc = "request" => th[p].todo = Checkpoint /\ Checkpoint # {}

Shapes == TrxShape /\ SessionShape /\ BackgroundShape /\ ResetterShape /\ AskShape

\* RESET MASTER has asked for its checkpoint.
ResetAsked == th[Resetter].pc \in {"request", "done", "resetidle"}

\* The threads that hold LOCK_log and LOCK_after_binlog_sync.
LocksHeld ==
  /\ \A p \in Thread : /\ th[p].pc \in {"link", "log", "event"} => logLock = p
                       /\ th[p].pc = "sync" => syncLock = p
  /\ ResetAsked \/ th[Resetter].pc = "resetorder" => logLock = Resetter
  /\ ResetAsked => \A p \in Thread : th[p].pc # "sync"

\* A leader is in its group, whose other members wait; no two groups share one.
GroupsWait ==
  \A t \in Trx : th[t].pc \in Leading =>
    /\ t \in th[t].group
    /\ \A u \in th[t].group \ {t} : th[u].pc = "logged"
    /\ \A u \in Trx \ {t} : th[u].pc \in Leading =>
         th[t].group \intersect th[u].group = {}

\* What a crash leaves in memory.
QuietWhenDown ==
  server # "up" =>
    /\ \A p \in Thread : th[p] = At(th[p].pc) /\ th[p].pc \in {"idle", "end", "wait"}
    /\ requests = {} /\ queue = EmptyQueue /\ bg = NoEntry
    /\ \A f \in Files : count[f] = 0

\* The entries the background thread took and has not begun with.
Grabbed ==
  IF th[Background].pc \in {"count", "next"} THEN Chain(bg.entry) ELSE Chain(bg.next)

InQueue == Queued \union Grabbed

\* No entry is linked twice, none was notified twice.
QueueShape ==
  /\ Queued \intersect Grabbed = {}
  /\ \A f \in InQueue : f \notin Chain(queue.next[f])
  /\ \A f \in Files : queue.notify[f] = 0
  /\ bg.again = 0

\* A thread that has counted a checkpoint request and not yet made it.
Asks(p) ==
  /\ p # Background
  /\ th[p].pc \in {"link", "request"} \/ th[p].rotated

\* The checkpoint request of a file is in one place at a time: at the thread that
\* is going to make it, with the engine, or in the queue.
RequestsOnce ==
  /\ \A p, q \in Thread : Asks(p) /\ Asks(q) /\ th[p].id = th[q].id => p = q
  /\ \A p \in Thread : Asks(p) => /\ th[p].id \notin InQueue
                                  /\ \A r \in requests : r.id # th[p].id
  /\ \A r, s \in requests : r.id = s.id => r = s
  /\ \A r \in requests : r.id \notin InQueue

\* It was made for a file before the current one, but while that one is being
\* rotated or reset.
AskedFor(f) ==
  \/ \E p \in Thread : Asks(p) /\ th[p].id = f
  \/ \E r \in requests : r.id = f
  \/ f \in InQueue
RequestsPast ==
  \A f \in Files : AskedFor(f) =>
    \/ f < cur
    \/ f = cur /\ (ResetAsked \/ \E p \in Thread : th[p].pc = "link")

\* The four things a file's count stands for: unlog()s to come, threads that will
\* call mark_xid_done(), requests at the engine and notifications at the
\* background thread.
Unlogs(f) == {t \in Trx : t \in xids[f] /\ OwesUnlog(t)}
Dones(f) == {p \in Thread : OwesDone(p, f)}
Asked(f) == {r \in requests : r.id = f}
Behind(f) ==
  (IF th[Background].pc = "done" /\ bg.entry = f THEN 1 ELSE 0)
  + (IF f \in InQueue THEN 1 ELSE 0)
Exact ==
  \A f \in Files : count[f] = Cardinality(Unlogs(f)) + Cardinality(Dones(f))
                              + Cardinality(Asked(f)) + Behind(f)

\* The last file of the index is the current one or the one being opened.
FilesInOrder ==
  /\ index # {}
  /\ server = "up" =>
       /\ oldest <= cur
       /\ (\A p \in Thread : th[p].pc # "link") => LastFile = cur
       /\ \A p \in Thread : th[p].pc = "link" => LastFile = cur + 1 /\ th[p].id = cur

\* There is a file left for every rotation, restart and RESET MASTER to come.
FilesLeft ==
  LastFile + left["rotate"] + left["crash"] + left["reset"]
    + (IF server = "recovering" THEN 1 ELSE 0) + (IF ResetPending THEN 1 ELSE 0)
  <= 1 + Budget["rotate"] + Budget["crash"] + Budget["reset"]

\* A checkpoint event never names a file after the oldest one with a count.
CheckpointsSafe ==
  /\ ScanFrom \in Files /\ ScanFrom <= LastFile
  /\ server = "up" =>
       /\ (\A p \in Thread : th[p].pc # "link") => ScanFrom <= oldest
       /\ (\E p \in Thread : th[p].pc = "link") =>
            ScanFrom <= cur /\ \A i \in oldest .. cur : i < ScanFrom => count[i] = 0

\* Which transactions are in the log.
LoggedOnce ==
  \A t \in Trx : Participants(t) # {} =>
    /\ \A f, g \in Files : t \in xids[f] /\ t \in xids[g] => f = g
    /\ th[t].pc = "idle" => \A f \in Files : t \notin xids[f]
BusyLogged ==
  \A t \in Trx : th[t].pc \notin {"idle", "end"} => \E f \in Files : t \in xids[f]
LoggedPrepared ==
  \A f \in Files : \A t \in xids[f] : \A e \in Participants(t) : engine[t][e] # "active"

CountInv ==
  /\ TypeOK /\ Shapes /\ LocksHeld /\ GroupsWait /\ QuietWhenDown
  /\ QueueShape /\ RequestsOnce /\ RequestsPast /\ Exact
  /\ FilesInOrder /\ FilesLeft /\ CheckpointsSafe
  /\ LoggedOnce /\ BusyLogged /\ LoggedPrepared

-----------------------------------------------------------------------------
(***************************************************************************)
(* What crash recovery needs.                                              *)
(***************************************************************************)

\* Only an engine with commit_checkpoint_request() holds a commit that is not
\* durable, and a crash takes it.
CommittedUp ==
  \A t \in Trx, e \in Engine :
    engine[t][e] = "committed" => server = "up" /\ e \in Checkpoint

\* A checkpoint was requested for transactions that had completed commit_ordered().
RequestsServed ==
  \A r \in requests : \A t \in r.need : engine[t][r.engine] \in {"committed", "durable"}

\* In its group; and after it, with commit() and unlog() to come.
InGroup(t) == th[t].pc \in {"logged"} \union Leading
ToCommit(t) ==
  \/ th[t].pc \in {"request", "purge", "commit"}
  \/ th[t].pc \in {"done", "checkpoint", "event"} /\ th[t].ret = "purge"

\* A transaction that is logged and still prepared is in its group, or it has a
\* commit() to come in an engine without commit_checkpoint_request().
PreparedWaits ==
  server = "up" => \A f \in Files : \A t \in xids[f] : \A e \in Participants(t) :
    engine[t][e] = "prepared" => InGroup(t) \/ (e \notin Checkpoint /\ ToCommit(t))

\* Every follower has a leader.
FollowersLed ==
  \A u \in Trx : th[u].pc = "logged" =>
    \E t \in Trx : th[t].pc \in Leading /\ u \in th[t].group

\* A group is prepared in every engine.
GroupsPrepared ==
  \A t \in Trx : th[t].pc \in Leading => \A u \in th[t].group :
    \A e \in Participants(u) : engine[u][e] = "prepared"

\* Where a group is logged: a leader that rotated remembers the file; another is in
\* the current file or, once it has left LOCK_log, in one that somebody rotated who
\* is behind it in the queue for LOCK_after_binlog_sync.
GroupsFile ==
  \A t \in Trx : th[t].pc \in Leading => \A u \in th[t].group :
    IF th[t].rotated THEN u \in xids[th[t].id]
    ELSE \/ u \in xids[cur]
         \/ /\ th[t].pc = "sync"
            /\ \E p \in Thread : th[p].pc = "log" /\ th[p].rotated /\ u \in xids[th[p].id]

\* A commit in an older file that is not durable has a checkpoint coming.
CommittedAsked ==
  server = "up" =>
    \A f \in Files : \A t \in xids[f] : \A e \in Participants(t) \intersect Checkpoint :
      engine[t][e] = "committed" /\ (f < cur \/ ResetAsked) =>
        \/ \E p \in Thread : Asks(p) /\ th[p].id = f
        \/ \E r \in requests : r.id = f /\ t \in r.need

\* The file of a transaction that a crash would leave prepared is one that
\* recovery reads.
NeededKept ==
  \A f \in Files : \A t \in xids[f] : \A e \in Participants(t) :
    engine[t][e] \in {"prepared", "committed"} =>
      /\ f \in index /\ ScanFrom <= f
      /\ server = "up" => oldest <= f /\ f <= cur

RecoverInv ==
  /\ RecoveryAgrees /\ CommittedUp /\ RequestsServed /\ PreparedWaits
  /\ FollowersLed /\ GroupsPrepared /\ GroupsFile /\ CommittedAsked /\ NeededKept

-----------------------------------------------------------------------------
(***************************************************************************)
(* Sets of numbers, linked lists and records of threads.                   *)
(***************************************************************************)

\* A set of natural numbers that is not empty has a least element, which is Min.
LEMMA MinNat ==
  ASSUME NEW S \in SUBSET Nat, S # {}
  PROVE  Min(S) \in S /\ \A y \in S : Min(S) <= y
<1> DEFINE less == {pair \in Nat \X Nat : pair[1] < pair[2]}
<1>1. OpToRel(<, Nat) = less
  BY DEF OpToRel
<1>2. IsWellFoundedOn(less, Nat)
  BY <1>1, NatLessThanWellFounded, Zenon
<1>3. PICK m \in S : \A y \in S : <<y, m>> \notin less
  <2> HIDE DEF less
  <2> QED BY <1>2, WFMin
<1>4. ASSUME NEW y \in S PROVE m <= y
  <2>1. <<y, m>> \in Nat \X Nat /\ <<y, m>>[1] = y /\ <<y, m>>[2] = m
    OBVIOUS
  <2> QED BY <1>3, <2>1
<1> QED BY <1>4 DEF Min

\* There are files, and they are numbered from one.
LEMMA FilesNat ==
  /\ Files \subseteq Nat /\ 1 \in Files /\ None \notin Files
  /\ \A f \in Files, g \in Nat : 1 <= g /\ g <= f => g \in Files
BY EngineAssumption DEF Files, None, Bounded

\* A set of files that is not empty has a greatest element, which is Max.
LEMMA MaxFile ==
  ASSUME NEW S \in SUBSET Files, S # {}
  PROVE  Max(S) \in S /\ \A y \in S : y <= Max(S)
<1> DEFINE n == 1 + Budget["rotate"] + Budget["crash"] + Budget["reset"]
           T == {n - x : x \in S}
<1>1. n \in Nat /\ \A x \in S : x \in Nat /\ x <= n
  BY EngineAssumption DEF Files, Bounded
<1>2. T \in SUBSET Nat /\ T # {}
  <2> HIDE DEF n
  <2> QED BY <1>1
<1>3. Min(T) \in T /\ \A y \in T : Min(T) <= y
  <2> HIDE DEF T
  <2> QED BY <1>2, MinNat
<1> HIDE DEF n
<1>4. PICK m \in S : Min(T) = n - m
  BY <1>3
<1>5. \A y \in S : y <= m
  <2>1. \A y \in S : n - y \in T
    OBVIOUS
  <2> HIDE DEF T
  <2> QED BY <1>1, <1>3, <1>4, <2>1
<1>6. \A x \in S : \A y \in S : x >= y <=> y <= x
  BY <1>1
<1> QED BY <1>5, <1>6 DEF Max

\* Max is the only upper bound of a set of files in the set.
LEMMA MaxIs ==
  ASSUME NEW S \in SUBSET Files, NEW m \in S, \A y \in S : y <= m
  PROVE  Max(S) = m
<1>1. Max(S) \in S /\ \A y \in S : y <= Max(S)
  BY MaxFile
<1>2. Max(S) \in Nat /\ m \in Nat
  BY <1>1, FilesNat
<1>3. m <= Max(S) /\ Max(S) <= m
  BY <1>1
<1> QED BY <1>2, <1>3

\* Nothing is reachable from no entry.
LEMMA ReachNone ==
  ASSUME NEW next
  PROVE  Reachable(next, None) = {}
<1>1. {} \in SUBSET Files /\ \A g \in {} : next[g] \in {} \union {None}
  OBVIOUS
<1> QED BY <1>1 DEF Reachable

\* What is reachable are entries, and their successors are reachable too.
LEMMA ReachClosed ==
  ASSUME NEW next, NEW z
  PROVE  /\ Reachable(next, z) \subseteq Files
         /\ \A g \in Reachable(next, z) : next[g] \in Files =>
              next[g] \in Reachable(next, z)
<1>1. Reachable(next, z) \subseteq Files
  BY DEF Reachable
<1>2. ASSUME NEW g \in Reachable(next, z), next[g] \in Files
      PROVE  next[g] \in Reachable(next, z)
  <2> SUFFICES ASSUME NEW S \in SUBSET Files, z \in S \union {None},
                      \A h \in S : next[h] \in S \union {None}
               PROVE  next[g] \in S
    BY <1>2 DEF Reachable
  <2>1. g \in S
    BY DEF Reachable
  <2> QED BY <2>1, <1>2, FilesNat
<1> QED BY <1>1, <1>2

\* A closed set that holds the first entry holds all that are reachable.
LEMMA ReachLeast ==
  ASSUME NEW next, NEW z, NEW S \in SUBSET Files, z \in S \union {None},
         \A h \in S : next[h] \in S \union {None}
  PROVE  Reachable(next, z) \subseteq S
BY DEF Reachable

\* The first entry is reachable.
LEMMA ReachFirst ==
  ASSUME NEW next, NEW z \in Files
  PROVE  z \in Reachable(next, z)
BY FilesNat DEF Reachable

\* The first entry, then those reachable from its successor.
LEMMA ReachStep ==
  ASSUME NEW next \in [Files -> FileOrNone], NEW z \in Files
  PROVE  Reachable(next, z) = {z} \union Reachable(next, next[z])
<1> DEFINE A == Reachable(next, z)
           B == Reachable(next, next[z])
<1>1. A \subseteq Files /\ B \subseteq Files /\ z \in A
  BY ReachClosed, ReachFirst
<1>2. (\A g \in A : next[g] \in A \union {None}) /\ (\A g \in B : next[g] \in B \union {None})
  BY <1>1, ReachClosed DEF FileOrNone
<1>3. next[z] \in B \union {None}
  BY ReachFirst DEF FileOrNone
<1> HIDE DEF A, B
<1>4. B \subseteq A
  <2>1. next[z] \in A \union {None}
    BY <1>1, <1>2
  <2> QED BY <1>1, <1>2, <2>1, ReachLeast DEF B
<1>5. A \subseteq {z} \union B
  <2> DEFINE S == {z} \union B
  <2>1. S \in SUBSET Files /\ z \in S \union {None}
    BY <1>1
  <2>2. \A g \in S : next[g] \in S \union {None}
    BY <1>2, <1>3
  <2> HIDE DEF S
  <2>3. A \subseteq S
    BY <2>1, <2>2, ReachLeast DEF A
  <2> QED BY <2>3 DEF S
<1>6. A = {z} \union B
  BY <1>1, <1>4, <1>5
<1> QED BY <1>6 DEF A, B

\* What is reachable from a reachable entry is reachable.
LEMMA ReachTrans ==
  ASSUME NEW next \in [Files -> FileOrNone], NEW z, NEW g \in Reachable(next, z)
  PROVE  Reachable(next, next[g]) \subseteq Reachable(next, z)
<1> DEFINE A == Reachable(next, z)
<1>1. A \in SUBSET Files /\ g \in Files /\ \A h \in A : next[h] \in A \union {None}
  BY ReachClosed DEF FileOrNone
<1>2. next[g] \in A \union {None}
  BY <1>1
<1> HIDE DEF A
<1>3. Reachable(next, next[g]) \subseteq A
  BY <1>1, <1>2, ReachLeast
<1> QED BY <1>3 DEF A

\* A link from an entry that is not reachable makes no difference.
LEMMA ReachOther ==
  ASSUME NEW next \in [Files -> FileOrNone], NEW z \in FileOrNone, NEW x \in Files,
         NEW y \in FileOrNone, x \notin Reachable(next, z)
  PROVE  Reachable([next EXCEPT ![x] = y], z) = Reachable(next, z)
<1> DEFINE new == [next EXCEPT ![x] = y]
           A == Reachable(next, z)
           B == Reachable(new, z)
<1>1. new \in [Files -> FileOrNone] /\ \A g \in Files : g # x => new[g] = next[g]
  BY DEF FileOrNone
<1>2. A \in SUBSET Files /\ x \notin A /\ \A g \in A : next[g] \in A \union {None}
  BY ReachClosed DEF FileOrNone
<1> HIDE DEF new
<1>3. B \in SUBSET Files /\ \A g \in B : new[g] \in B \union {None}
  BY <1>1, ReachClosed DEF FileOrNone
<1>4. z \in A \union {None} /\ z \in B \union {None}
  BY ReachFirst DEF FileOrNone
<1> HIDE DEF A, B
<1>5. B \subseteq A
  <2>1. \A g \in A : new[g] \in A \union {None}
    BY <1>1, <1>2
  <2> QED BY <1>2, <1>4, <2>1, ReachLeast DEF B
<1>6. A \subseteq B
  <2>1. \A g \in B : next[g] \in B \union {None}
    BY <1>1, <1>2, <1>3, <1>5
  <2> QED BY <1>3, <1>4, <2>1, ReachLeast DEF A
<1>7. A = B
  BY <1>5, <1>6
<1> QED BY <1>7 DEF A, B, new

\* There are finitely many threads.
LEMMA ThreadFinite == IsFiniteSet(Thread)
<1>1. IsFiniteSet({Background, Resetter})
  <2>1. IsFiniteSet({Background}) /\ {Background, Resetter} = {Background} \union {Resetter}
    BY FS_Singleton
  <2> QED BY <2>1, FS_AddElement
<1>2. IsFiniteSet(Trx \union Session)
  BY EngineAssumption, FS_Union
<1> QED BY <1>1, <1>2, FS_Union DEF Thread

\* The fields of a thread that starts again at pc.
LEMMA AtFields ==
  ASSUME NEW pc \in PC
  PROVE  /\ At(pc) \in ThreadState
         /\ At(pc).pc = pc /\ At(pc).id = None /\ At(pc).todo = {} /\ At(pc).ret = "idle"
         /\ At(pc).group = {} /\ At(pc).rotated = FALSE
BY DEF At, ThreadState, FileOrNone, PC

\* The fields of a thread that enters do_checkpoint_request().
LEMMA AskingFields ==
  ASSUME NEW id \in FileOrNone, NEW ret \in PC
  PROVE  /\ Asking(id, ret) \in ThreadState
         /\ Asking(id, ret).pc = IF Checkpoint = {} THEN "done" ELSE "request"
         /\ Asking(id, ret).id = id /\ Asking(id, ret).ret = ret
         /\ Asking(id, ret).todo = Checkpoint
         /\ Asking(id, ret).group = {} /\ Asking(id, ret).rotated = FALSE
BY EngineAssumption DEF Asking, At, ThreadState, FileOrNone, PC

\* One thread goes on, the others stay where they are.
LEMMA Moves ==
  ASSUME TypeOK, NEW p \in Thread, NEW s \in ThreadState, th' = [th EXCEPT ![p] = s]
  PROVE  /\ th' \in [Thread -> ThreadState]
         /\ th'[p] = s /\ \A q \in Thread : q # p => th'[q] = th[q]
BY DEF TypeOK

\* One thread only changes its place.
LEMMA MovesTo ==
  ASSUME TypeOK, NEW p \in Thread, NEW pc \in PC, th' = Goto(p, pc)
  PROVE  /\ th' \in [Thread -> ThreadState]
         /\ \A q \in Thread : q # p => th'[q] = th[q]
         /\ th'[p].pc = pc /\ th'[p].id = th[p].id /\ th'[p].todo = th[p].todo
         /\ th'[p].ret = th[p].ret /\ th'[p].group = th[p].group
         /\ th'[p].rotated = th[p].rotated
<1>1. th \in [Thread -> ThreadState] /\ th[p] \in ThreadState
  BY DEF TypeOK
<1>2. th' = [th EXCEPT ![p] = [th[p] EXCEPT !.pc = pc]]
  BY <1>1 DEF Goto
<1>3. [th[p] EXCEPT !.pc = pc] \in ThreadState
  BY <1>1 DEF ThreadState
<1>4. th'[p] = [th[p] EXCEPT !.pc = pc] /\ \A q \in Thread : q # p => th'[q] = th[q]
  BY <1>1, <1>2
<1>5. th' \in [Thread -> ThreadState]
  BY <1>2, <1>3, Moves
<1> QED BY <1>1, <1>4, <1>5 DEF ThreadState

-----------------------------------------------------------------------------
(***************************************************************************)
(* Every step keeps the counts.                                            *)
(***************************************************************************)

\* Groups stay as they are if no leader joins and no follower leaves.
LEMMA KeepGroups ==
  ASSUME TypeOK, GroupsWait,
         \A t \in Trx : th'[t].pc \in Leading =>
                          th[t].pc \in Leading /\ th'[t].group = th[t].group,
         \A t \in Trx : th[t].pc = "logged" => th'[t].pc = "logged"
  PROVE  GroupsWait'
<1>1. \A t \in Trx : th[t].group \in SUBSET Trx
  BY DEF TypeOK, ThreadState, Thread
<1> QED BY <1>1 DEF GroupsWait

\* What an engine does with a transaction changes no count.
LEMMA EngineOnly ==
  ASSUME CountInv, UNCHANGED <<disk, list, th, locks, notices, server, left>>,
         engine' \in [Trx -> [Engine -> {"active", "prepared", "committed", "durable",
                                        "rolledback"}]],
         \A t \in Trx, e \in Engine : engine[t][e] # "active" => engine'[t][e] # "active"
  PROVE  CountInv'
<1>1. /\ xids' = xids /\ ckpt' = ckpt /\ index' = index /\ cur' = cur /\ oldest' = oldest
      /\ count' = count /\ th' = th /\ logLock' = logLock /\ syncLock' = syncLock
      /\ requests' = requests /\ queue' = queue /\ bg' = bg /\ server' = server
      /\ left' = left
  BY DEF disk, list, locks, notices
<1>2. TypeOK' /\ Shapes'
  BY <1>1 DEF CountInv, TypeOK, Shapes, TrxShape, SessionShape, BackgroundShape,
              ResetterShape, AskShape
<1>3. LocksHeld' /\ GroupsWait' /\ QuietWhenDown'
  BY <1>1 DEF CountInv, LocksHeld, ResetAsked, GroupsWait, QuietWhenDown
<1>4. QueueShape' /\ RequestsOnce' /\ RequestsPast'
  BY <1>1 DEF CountInv, QueueShape, RequestsOnce, RequestsPast, AskedFor, Asks, InQueue,
              Grabbed, Queued, Chain, ResetAsked
<1>5. FilesInOrder' /\ FilesLeft' /\ CheckpointsSafe'
  BY <1>1 DEF CountInv, FilesInOrder, FilesLeft, ResetPending, CheckpointsSafe, ScanFrom,
              LastFile
<1>6. LoggedOnce' /\ BusyLogged' /\ LoggedPrepared'
  <2>1. \A t \in Trx : Participants(t) \subseteq Engine
    BY EngineAssumption DEF Participants
  <2>2. \A f \in Files : xids[f] \in SUBSET Trx
    BY DEF CountInv, TypeOK
  <2> QED BY <1>1, <2>1, <2>2 DEF CountInv, LoggedOnce, BusyLogged, LoggedPrepared
<1>7. Exact'
  BY <1>1 DEF CountInv, Exact, Unlogs, Dones, Asked, Behind, OwesUnlog, OwesDone, InQueue,
              Grabbed, Queued, Chain
<1> QED BY <1>2, <1>3, <1>4, <1>5, <1>6, <1>7 DEF CountInv

\* LOCK_after_binlog_sync is taken.
LEMMA LockAfterSyncCounts ==
  ASSUME CountInv, server = "up", NEW p \in Thread, LockAfterSync(p)
  PROVE  CountInv'
<1>1. /\ th[p].pc = "log" /\ logLock = p /\ syncLock = NoThread
      /\ syncLock' = p /\ logLock' = NoThread
  BY DEF LockAfterSync
<1>2. /\ th' \in [Thread -> ThreadState]
      /\ \A q \in Thread : q # p => th'[q] = th[q]
      /\ th'[p].pc = "sync" /\ th'[p].id = th[p].id /\ th'[p].todo = th[p].todo
      /\ th'[p].ret = th[p].ret /\ th'[p].group = th[p].group
      /\ th'[p].rotated = th[p].rotated
  BY MovesTo DEF LockAfterSync, CountInv, PC
<1>3. /\ xids' = xids /\ ckpt' = ckpt /\ index' = index /\ engine' = engine /\ cur' = cur
      /\ oldest' = oldest /\ count' = count /\ requests' = requests /\ queue' = queue
      /\ bg' = bg /\ server' = server /\ left' = left
  BY DEF LockAfterSync, disk, list, notices
<1>4. p \in Trx \union Session /\ Background # p /\ Resetter # p
  BY <1>1, ThreadAssumption DEF CountInv, Shapes, BackgroundShape, ResetterShape, Thread
<1>5. TypeOK'
  BY <1>1, <1>2, <1>3, <1>4 DEF CountInv, TypeOK
<1>6. TrxShape'
  BY <1>1, <1>2, <1>3, <1>4 DEF CountInv, Shapes, TrxShape, Leading, Thread
<1>7. SessionShape'
  BY <1>1, <1>2, <1>3, <1>4 DEF CountInv, Shapes, SessionShape, Leading, Thread
<1>8. BackgroundShape' /\ ResetterShape' /\ AskShape'
  BY <1>1, <1>2, <1>3, <1>4 DEF CountInv, Shapes, BackgroundShape, ResetterShape, AskShape, Thread
<1>9. LocksHeld'
  <2>1. \A q \in Thread : q # p => th[q].pc \notin {"link", "log", "event", "sync"}
    BY <1>1, <1>2, <1>3, <1>4, ThreadAssumption DEF CountInv, LocksHeld
  <2>2. ~ResetAsked /\ th[Resetter].pc # "resetorder"
    BY <1>1, <1>2, <1>3, <1>4 DEF CountInv, LocksHeld
  <2> QED BY <1>1, <1>2, <1>3, <1>4, <2>1, <2>2 DEF LocksHeld, ResetAsked, Thread
<1>10. GroupsWait'
  BY <1>1, <1>2, <1>3, <1>4, KeepGroups DEF CountInv, Leading, Thread
<1>11. QuietWhenDown'
  BY <1>1, <1>2, <1>3, <1>4 DEF QuietWhenDown
<1>12. QueueShape'
  BY <1>1, <1>2, <1>3, <1>4 DEF CountInv, QueueShape, InQueue, Grabbed, Queued, Chain, Thread
<1>13. RequestsOnce'
  BY <1>1, <1>2, <1>3, <1>4 DEF CountInv, RequestsOnce, Asks, InQueue, Grabbed, Queued, Chain,
         Thread
<1>14. RequestsPast'
  BY <1>1, <1>2, <1>3, <1>4 DEF CountInv, RequestsPast, AskedFor, Asks, InQueue, Grabbed, Queued,
         Chain, ResetAsked, Thread
<1>15. FilesInOrder' /\ FilesLeft'
  BY <1>1, <1>2, <1>3, <1>4 DEF CountInv, FilesInOrder, FilesLeft, ResetPending, LastFile, Thread
<1>16. CheckpointsSafe'
  BY <1>1, <1>2, <1>3, <1>4 DEF CountInv, CheckpointsSafe, ScanFrom, LastFile, Thread
<1>17. LoggedOnce' /\ BusyLogged' /\ LoggedPrepared'
  BY <1>1, <1>2, <1>3, <1>4 DEF CountInv, LoggedOnce, BusyLogged, LoggedPrepared, Thread
<1>18. Exact'
  <2>1. \A f \in Files : Unlogs(f)' = Unlogs(f) /\ Dones(f)' = Dones(f)
    BY <1>1, <1>2, <1>3, <1>4 DEF CountInv, Unlogs, Dones, OwesUnlog, OwesDone, Thread
  <2>2. \A f \in Files : Asked(f)' = Asked(f) /\ Behind(f)' = Behind(f)
    BY <1>1, <1>2, <1>3, <1>4 DEF Asked, Behind, InQueue, Grabbed, Queued, Chain, Thread
  <2> QED BY <1>1, <1>2, <1>3, <1>4, <2>1, <2>2 DEF CountInv, Exact
<1> QED
  BY <1>5, <1>6, <1>7, <1>8, <1>9, <1>10, <1>11,
     <1>12, <1>13, <1>14, <1>15, <1>16, <1>17, <1>18 DEF CountInv, Shapes

\* Leading entries without pending XIDs are removed.
LEMMA TrimListCounts ==
  ASSUME CountInv, server = "up", NEW p \in Thread, TrimList(p)
  PROVE  CountInv'
<1>1. /\ th[p].pc = "checkpoint" /\ logLock = NoThread
      /\ logLock' = p
      /\ oldest' = Min({i \in oldest .. cur : count[i] > 0} \union {cur})
  BY DEF TrimList
<1>2. /\ th' \in [Thread -> ThreadState]
      /\ \A q \in Thread : q # p => th'[q] = th[q]
      /\ th'[p].pc = "event" /\ th'[p].id = th[p].id /\ th'[p].todo = th[p].todo
      /\ th'[p].ret = th[p].ret /\ th'[p].group = th[p].group
      /\ th'[p].rotated = th[p].rotated
  BY MovesTo DEF TrimList, Goto, CountInv, PC
<1>3. /\ xids' = xids /\ ckpt' = ckpt /\ index' = index /\ engine' = engine /\ cur' = cur
      /\ count' = count /\ syncLock' = syncLock /\ requests' = requests /\ queue' = queue
      /\ bg' = bg /\ server' = server /\ left' = left
  BY DEF TrimList, disk, notices
<1>4. p # Resetter
  BY <1>1, ThreadAssumption DEF CountInv, Shapes, ResetterShape
<1>5. oldest' \in Files /\ oldest <= oldest' /\ oldest' <= cur
  <2> DEFINE S == {i \in oldest .. cur : count[i] > 0} \union {cur}
  <2>1. oldest \in Files /\ cur \in Files /\ oldest <= cur /\ oldest \in Nat /\ cur \in Nat
    BY FilesNat DEF CountInv, TypeOK, FilesInOrder
  <2>2. S \in SUBSET Nat /\ S # {} /\ \A i \in S : oldest <= i /\ i <= cur
    BY <2>1
  <2> HIDE DEF S
  <2>3. Min(S) \in S
    BY <2>2, MinNat
  <2>4. oldest' \in S
    BY <1>1, <2>3 DEF S
  <2>5. oldest' \in Nat /\ 1 <= oldest' /\ oldest <= oldest' /\ oldest' <= cur
    BY <2>1, <2>2, <2>4 DEF Files
  <2> QED BY <2>1, <2>5, FilesNat
<1>6. \A q \in Thread : th[q].pc \notin {"link", "log", "event"} /\ NoThread # q
  BY <1>1, ThreadAssumption DEF CountInv, LocksHeld
<1>7. TypeOK'
  BY <1>1, <1>2, <1>3, <1>4, <1>5, <1>6 DEF CountInv, TypeOK
<1>8. TrxShape'
  BY <1>1, <1>2, <1>3, <1>4, <1>5, <1>6 DEF CountInv, Shapes, TrxShape, Leading, Thread
<1>9. SessionShape'
  BY <1>1, <1>2, <1>3, <1>4, <1>5, <1>6 DEF CountInv, Shapes, SessionShape, Leading, Thread
<1>10. BackgroundShape' /\ ResetterShape' /\ AskShape'
  BY <1>1, <1>2, <1>3, <1>4, <1>5, <1>6 DEF CountInv, Shapes, BackgroundShape, ResetterShape, AskShape, Thread
<1>11. LocksHeld'
  <2>2. ~ResetAsked /\ th[Resetter].pc # "resetorder"
    BY <1>1, ThreadAssumption DEF CountInv, LocksHeld, Thread
  <2> QED BY <1>1, <1>2, <1>3, <1>4, <1>5, <1>6, <2>2 DEF CountInv, LocksHeld, ResetAsked, Thread
<1>12. GroupsWait'
  BY <1>1, <1>2, <1>3, <1>4, <1>5, <1>6, KeepGroups DEF CountInv, Leading, Thread
<1>13. QuietWhenDown'
  BY <1>1, <1>2, <1>3, <1>4, <1>5, <1>6 DEF QuietWhenDown
<1>14. QueueShape'
  BY <1>1, <1>2, <1>3, <1>4, <1>5, <1>6 DEF CountInv, QueueShape, InQueue, Grabbed, Queued, Chain, Thread
<1>15. RequestsOnce'
  BY <1>1, <1>2, <1>3, <1>4, <1>5, <1>6 DEF CountInv, RequestsOnce, Asks, InQueue, Grabbed, Queued, Chain,
         Thread
<1>16. RequestsPast'
  BY <1>1, <1>2, <1>3, <1>4, <1>5, <1>6 DEF CountInv, RequestsPast, AskedFor, Asks, InQueue, Grabbed, Queued,
         Chain, ResetAsked, Thread
<1>17. FilesInOrder' /\ FilesLeft'
  BY <1>1, <1>2, <1>3, <1>4, <1>5, <1>6 DEF CountInv, FilesInOrder, FilesLeft, ResetPending, LastFile, Thread
<1>18. CheckpointsSafe'
  <2>1. oldest \in Nat /\ oldest' \in Nat /\ ScanFrom \in Nat /\ ScanFrom <= oldest
    BY <1>1, <1>2, <1>3, <1>4, <1>5, <1>6, FilesNat DEF CountInv, CheckpointsSafe, TypeOK
  <2>2. ScanFrom' = ScanFrom /\ LastFile' = LastFile /\ ScanFrom <= oldest'
    BY <1>1, <1>2, <1>3, <1>4, <1>5, <1>6, <2>1 DEF ScanFrom, LastFile
  <2> QED BY <1>1, <1>2, <1>3, <1>4, <1>5, <1>6, <2>2 DEF CountInv, CheckpointsSafe
<1>19. LoggedOnce' /\ BusyLogged' /\ LoggedPrepared'
  BY <1>1, <1>2, <1>3, <1>4, <1>5, <1>6 DEF CountInv, LoggedOnce, BusyLogged, LoggedPrepared, Thread
<1>20. Exact'
  <2>1. \A f \in Files : Unlogs(f)' = Unlogs(f) /\ Dones(f)' = Dones(f)
    BY <1>1, <1>2, <1>3, <1>4, <1>5, <1>6 DEF CountInv, Unlogs, Dones, OwesUnlog, OwesDone, Thread
  <2>2. \A f \in Files : Asked(f)' = Asked(f) /\ Behind(f)' = Behind(f)
    BY <1>1, <1>2, <1>3, <1>4, <1>5, <1>6 DEF Asked, Behind, InQueue, Grabbed, Queued, Chain, Thread
  <2> QED BY <1>1, <1>2, <1>3, <1>4, <1>5, <1>6, <2>1, <2>2 DEF CountInv, Exact
<1> QED
  BY <1>7, <1>8, <1>9, <1>10, <1>11, <1>12, <1>13,
     <1>14, <1>15, <1>16, <1>17, <1>18, <1>19, <1>20 DEF CountInv, Shapes

\* A file before the oldest counted one leaves the index.
LEMMA PurgeCounts ==
  ASSUME CountInv, server = "up", NEW s \in Session, Purge(s)
  PROVE  /\ CountInv'
         /\ LastFile' = LastFile /\ ckpt' = ckpt
<1>1. /\ left["purge"] > 0
      /\ left' \in [Bounded -> Nat] /\ left'["purge"] = left["purge"] - 1
      /\ \A b \in Bounded : b # "purge" => left'[b] = left[b]
  BY DEF Purge, Spend, Bounded, CountInv, TypeOK
<1>2. /\ \A p \in Thread : th[p].pc # "link"
      /\ Min(index) # LastFile /\ Min(index) \notin oldest .. cur
      /\ index' = index \ {Min(index)}
  BY DEF Purge, CanPurge, IndexFree
<1>3. /\ xids' = xids /\ ckpt' = ckpt /\ engine' = engine /\ cur' = cur
      /\ oldest' = oldest /\ count' = count /\ th' = th /\ logLock' = logLock
      /\ syncLock' = syncLock /\ requests' = requests /\ queue' = queue /\ bg' = bg
      /\ server' = server
  BY DEF Purge, list, locks, notices
<1>4. index' \subseteq index /\ index' # {} /\ LastFile' = LastFile
  <2>1. index \in SUBSET Files /\ index # {}
    BY DEF CountInv, TypeOK, FilesInOrder
  <2>2. LastFile \in index /\ \A y \in index : y <= LastFile
    BY <2>1, MaxFile DEF LastFile
  <2>3. index' \in SUBSET Files /\ LastFile \in index' /\ \A y \in index' : y <= LastFile
    BY <1>2, <2>1, <2>2
  <2>4. Max(index') = LastFile
    BY <2>3, MaxIs
  <2> QED BY <1>2, <2>3, <2>4 DEF LastFile
<1>5. "rotate" \in Bounded /\ "crash" \in Bounded /\ "reset" \in Bounded
  BY DEF Bounded
<1>6. TypeOK'
  BY <1>1, <1>2, <1>3, <1>4, <1>5 DEF CountInv, TypeOK
<1>7. TrxShape'
  BY <1>1, <1>2, <1>3, <1>4, <1>5 DEF CountInv, Shapes, TrxShape, Leading, Thread
<1>8. SessionShape'
  BY <1>1, <1>2, <1>3, <1>4, <1>5 DEF CountInv, Shapes, SessionShape, Leading, Thread
<1>9. BackgroundShape' /\ ResetterShape' /\ AskShape'
  BY <1>1, <1>2, <1>3, <1>4, <1>5 DEF CountInv, Shapes, BackgroundShape, ResetterShape, AskShape, Thread
<1>10. LocksHeld'
  BY <1>1, <1>2, <1>3, <1>4, <1>5 DEF CountInv, LocksHeld, ResetAsked, Thread
<1>11. GroupsWait'
  BY <1>1, <1>2, <1>3, <1>4, <1>5, KeepGroups DEF CountInv, Leading, Thread
<1>12. QuietWhenDown'
  BY <1>1, <1>2, <1>3, <1>4, <1>5 DEF QuietWhenDown
<1>13. QueueShape'
  BY <1>1, <1>2, <1>3, <1>4, <1>5 DEF CountInv, QueueShape, InQueue, Grabbed, Queued, Chain, Thread
<1>14. RequestsOnce'
  BY <1>1, <1>2, <1>3, <1>4, <1>5 DEF CountInv, RequestsOnce, Asks, InQueue, Grabbed, Queued, Chain,
         Thread
<1>15. RequestsPast'
  BY <1>1, <1>2, <1>3, <1>4, <1>5 DEF CountInv, RequestsPast, AskedFor, Asks, InQueue, Grabbed, Queued,
         Chain, ResetAsked, Thread
<1>16. FilesInOrder' /\ FilesLeft'
  BY <1>1, <1>2, <1>3, <1>4, <1>5 DEF CountInv, FilesInOrder, FilesLeft, ResetPending
<1>17. CheckpointsSafe'
  <2>1. ScanFrom' = ScanFrom
    BY <1>1, <1>2, <1>3, <1>4, <1>5 DEF ScanFrom
  <2> QED BY <1>1, <1>2, <1>3, <1>4, <1>5, <2>1 DEF CountInv, CheckpointsSafe
<1>18. LoggedOnce' /\ BusyLogged' /\ LoggedPrepared'
  BY <1>1, <1>2, <1>3, <1>4, <1>5 DEF CountInv, LoggedOnce, BusyLogged, LoggedPrepared, Thread
<1>19. Exact'
  <2>1. \A f \in Files : Unlogs(f)' = Unlogs(f) /\ Dones(f)' = Dones(f)
    BY <1>1, <1>2, <1>3, <1>4, <1>5 DEF CountInv, Unlogs, Dones, OwesUnlog, OwesDone, Thread
  <2>2. \A f \in Files : Asked(f)' = Asked(f) /\ Behind(f)' = Behind(f)
    BY <1>1, <1>2, <1>3, <1>4, <1>5 DEF Asked, Behind, InQueue, Grabbed, Queued, Chain, Thread
  <2> QED BY <1>1, <1>2, <1>3, <1>4, <1>5, <2>1, <2>2 DEF CountInv, Exact
<1> QED
  BY <1>6, <1>7, <1>8, <1>9, <1>10, <1>11, <1>12,
     <1>13, <1>14, <1>15, <1>16, <1>17, <1>18, <1>19, <1>3, <1>4 DEF CountInv, Shapes, CheckpointsSafe

\* Which files a rotating thread removes, and where it goes on.
LEMMA PurgeExpiredFiles ==
  ASSUME CountInv, NEW p \in Thread, PurgeExpired(p)
  PROVE  /\ index' \subseteq index /\ index' # {} /\ LastFile' = LastFile
         /\ \A f \in index : f \in oldest .. cur => f \in index'
         /\ p \in Trx \union Session /\ th[p].pc = "purge"
         /\ th' \in [Thread -> ThreadState] /\ \A q \in Thread : q # p => th'[q] = th[q]
         /\ th'[p].pc = (IF p \in Trx THEN "commit" ELSE "idle")
         /\ th'[p].id = None /\ th'[p].group = {} /\ ~th'[p].rotated /\ ~th[p].rotated
<1>1. index \in SUBSET Files /\ index # {} /\ Files \subseteq Nat
  BY FilesNat DEF CountInv, TypeOK, FilesInOrder
<1>2. LastFile \in index /\ \A y \in index : y <= LastFile
  BY <1>1, MaxFile DEF LastFile
<1>3. /\ index' \subseteq index /\ LastFile \in index'
      /\ \A f \in index : f \in oldest .. cur => f \in index'
  <2>1. CASE ExpireLogs
    <3>1. PICK keep \in index : /\ \A f \in index : f < keep => CanPurge(f)
                                /\ index' = {f \in index : f >= keep}
      BY <2>1 DEF PurgeExpired
    <3>2. \A f \in index : f \in Nat /\ keep \in Nat /\ (f >= keep \/ f < keep)
      BY <1>1
    <3> QED BY <1>2, <3>1, <3>2 DEF CanPurge
  <2>2. CASE ~ExpireLogs
    BY <1>2, <2>2 DEF PurgeExpired
  <2> QED BY <2>1, <2>2
<1>4. Max(index') = LastFile
  <2>1. index' \in SUBSET Files /\ \A y \in index' : y <= LastFile
    BY <1>1, <1>2, <1>3
  <2> QED BY <1>3, <2>1, MaxIs
<1>5. p \in Trx \union Session /\ th[p].pc = "purge" /\ ~th[p].rotated
  <2>1. th[p].pc = "purge"
    BY DEF PurgeExpired
  <2>2. p \in Trx \union Session
    BY <2>1 DEF CountInv, Shapes, BackgroundShape, ResetterShape, Thread
  <2> QED BY <2>1, <2>2 DEF CountInv, Shapes, TrxShape, SessionShape, Leading
<1> DEFINE pc == IF p \in Trx THEN "commit" ELSE "idle"
<1>6. pc \in PC /\ th' = [th EXCEPT ![p] = At(pc)]
  BY DEF PC, PurgeExpired
<1> HIDE DEF pc
<1>7. /\ th' \in [Thread -> ThreadState] /\ th'[p] = At(pc)
      /\ \A q \in Thread : q # p => th'[q] = th[q]
  BY <1>6, AtFields, Moves DEF CountInv
<1>8. th'[p].pc = pc /\ th'[p].id = None /\ th'[p].group = {} /\ ~th'[p].rotated
  BY <1>6, <1>7, AtFields
<1> QED BY <1>3, <1>4, <1>5, <1>7, <1>8 DEF LastFile, pc

\* A thread that rotated has purged, and goes on to its commit().
LEMMA PurgeExpiredCounts ==
  ASSUME CountInv, server = "up", NEW p \in Thread, PurgeExpired(p)
  PROVE  /\ CountInv'
         /\ LastFile' = LastFile /\ ckpt' = ckpt
<1>1. /\ index' \subseteq index /\ index' # {} /\ LastFile' = LastFile
      /\ p \in Trx \union Session /\ th[p].pc = "purge"
      /\ th' \in [Thread -> ThreadState] /\ \A q \in Thread : q # p => th'[q] = th[q]
      /\ th'[p].pc = (IF p \in Trx THEN "commit" ELSE "idle")
      /\ th'[p].id = None /\ th'[p].group = {} /\ ~th'[p].rotated /\ ~th[p].rotated
  BY PurgeExpiredFiles
<1>2. /\ xids' = xids /\ ckpt' = ckpt /\ engine' = engine /\ cur' = cur
      /\ oldest' = oldest /\ count' = count /\ logLock' = logLock
      /\ syncLock' = syncLock /\ requests' = requests /\ queue' = queue /\ bg' = bg
      /\ server' = server /\ left' = left
  BY DEF PurgeExpired, list, locks, notices
<1>3. /\ Trx \subseteq Thread /\ Session \subseteq Thread
      /\ Background \in Thread /\ Resetter \in Thread
      /\ Background \notin Trx \union Session
      /\ Resetter \notin Trx \union Session \union {Background}
      /\ Trx \intersect Session = {} /\ None \notin Files
  BY ThreadAssumption, FilesNat DEF Thread
<1>4. th'[Resetter] = th[Resetter] /\ th'[Background] = th[Background]
  BY <1>1, <1>3
<1>5. TypeOK'
  BY <1>1, <1>2 DEF CountInv, TypeOK
<1>6. TrxShape'
  BY <1>1, <1>3 DEF CountInv, Shapes, TrxShape, Leading
<1>7. SessionShape'
  BY <1>1, <1>3 DEF CountInv, Shapes, SessionShape, Leading
<1>8. BackgroundShape' /\ ResetterShape' /\ AskShape'
  <2>1. BackgroundShape' /\ ResetterShape'
    BY <1>2, <1>4 DEF CountInv, Shapes, BackgroundShape, ResetterShape
  <2>2. AskShape'
    BY <1>1, <1>2 DEF CountInv, Shapes, AskShape
  <2> QED BY <2>1, <2>2
<1>9. LocksHeld'
  BY <1>1, <1>2, <1>4 DEF CountInv, LocksHeld, ResetAsked
<1>10. GroupsWait'
  BY <1>1, <1>3, KeepGroups DEF CountInv, Leading
<1>11. QuietWhenDown'
  BY <1>2 DEF QuietWhenDown
<1>12. Queued' = Queued /\ Grabbed' = Grabbed /\ InQueue' = InQueue
  BY <1>2, <1>4 DEF InQueue, Queued, Grabbed, Chain
<1>13. QueueShape'
  BY <1>2, <1>12 DEF CountInv, QueueShape, Chain
<1>14. \A q \in Thread : (Asks(q)' <=> Asks(q)) /\ (Asks(q) => th'[q].id = th[q].id)
  BY <1>1 DEF Asks
<1>15. RequestsOnce'
  BY <1>2, <1>12, <1>14 DEF CountInv, RequestsOnce
<1>16. \A q \in Thread : /\ th'[q].pc = "link" <=> th[q].pc = "link"
                         /\ th[q].pc = "link" => th'[q].id = th[q].id
  BY <1>1
<1>17. RequestsPast'
  <2>1. \A f \in Files : AskedFor(f)' => AskedFor(f)
    BY <1>2, <1>12, <1>14 DEF AskedFor
  <2>2. ResetAsked' <=> ResetAsked
    BY <1>4 DEF ResetAsked
  <2> QED BY <1>2, <1>16, <2>1, <2>2 DEF CountInv, RequestsPast
<1>18. FilesInOrder' /\ FilesLeft'
  <2>1. ResetPending' <=> ResetPending
    BY <1>4 DEF ResetPending
  <2> QED BY <1>1, <1>2, <1>16, <2>1 DEF CountInv, FilesInOrder, FilesLeft
<1>19. CheckpointsSafe'
  <2>1. ScanFrom' = ScanFrom
    BY <1>1, <1>2 DEF ScanFrom
  <2> QED BY <1>1, <1>2, <1>16, <2>1 DEF CountInv, CheckpointsSafe
<1>20. LoggedOnce' /\ BusyLogged' /\ LoggedPrepared'
  BY <1>1, <1>2, <1>3 DEF CountInv, LoggedOnce, BusyLogged, LoggedPrepared
<1>21. Exact'
  <2>1. \A f \in Files : Unlogs(f)' = Unlogs(f) /\ Dones(f)' = Dones(f)
    <3>1. \A t \in Trx : OwesUnlog(t)' <=> OwesUnlog(t)
      BY <1>1, <1>3 DEF OwesUnlog
    <3>2. \A q \in Thread, f \in Files : OwesDone(q, f)' <=> OwesDone(q, f)
      BY <1>1, <1>3 DEF OwesDone
    <3> QED BY <1>2, <3>1, <3>2 DEF Unlogs, Dones
  <2>2. \A f \in Files : Asked(f)' = Asked(f) /\ Behind(f)' = Behind(f)
    BY <1>2, <1>4, <1>12 DEF Asked, Behind
  <2> QED BY <1>2, <2>1, <2>2 DEF CountInv, Exact
<1> QED
  BY <1>1, <1>2, <1>5, <1>6, <1>7, <1>8, <1>9, <1>10, <1>11, <1>13, <1>15, <1>17, <1>18,
     <1>19, <1>20, <1>21 DEF CountInv, Shapes

\* RESET MASTER begins.
LEMMA ResetStartCounts ==
  ASSUME CountInv, server = "up", ResetStart
  PROVE  CountInv'
<1>1. th[Resetter].pc = "idle"
  BY DEF ResetStart
<1>2. Resetter \in Thread /\ Resetter \notin Trx \union Session /\ Resetter # Background
      /\ Background \in Thread
  BY ThreadAssumption DEF Thread
<1>3. /\ left["reset"] > 0
      /\ left' \in [Bounded -> Nat] /\ left'["reset"] = left["reset"] - 1
      /\ \A b \in Bounded : b # "reset" => left'[b] = left[b]
  BY DEF ResetStart, Spend, Bounded, CountInv, TypeOK
<1>4. /\ th' \in [Thread -> ThreadState]
      /\ \A q \in Thread : q # Resetter => th'[q] = th[q]
      /\ th'[Resetter].pc = "resetwait" /\ th'[Resetter].id = th[Resetter].id /\ th'[Resetter].todo = th[Resetter].todo
      /\ th'[Resetter].ret = th[Resetter].ret /\ th'[Resetter].group = th[Resetter].group
      /\ th'[Resetter].rotated = th[Resetter].rotated
  BY <1>2, MovesTo DEF ResetStart, CountInv, PC
<1>5. /\ xids' = xids /\ ckpt' = ckpt /\ index' = index /\ engine' = engine /\ cur' = cur
      /\ oldest' = oldest /\ count' = count /\ logLock' = logLock /\ syncLock' = syncLock
      /\ requests' = requests /\ queue' = queue /\ bg' = bg /\ server' = server
  BY DEF ResetStart, disk, list, locks, notices
<1>6. "rotate" \in Bounded /\ "crash" \in Bounded /\ "reset" \in Bounded
  BY DEF Bounded
<1>7. TypeOK'
  BY <1>1, <1>2, <1>3, <1>4, <1>5, <1>6 DEF CountInv, TypeOK
<1>8. TrxShape'
  BY <1>1, <1>2, <1>3, <1>4, <1>5, <1>6 DEF CountInv, Shapes, TrxShape, Leading, Thread
<1>9. SessionShape'
  BY <1>1, <1>2, <1>3, <1>4, <1>5, <1>6 DEF CountInv, Shapes, SessionShape, Leading, Thread
<1>10. BackgroundShape' /\ ResetterShape' /\ AskShape'
  BY <1>1, <1>2, <1>3, <1>4, <1>5, <1>6 DEF CountInv, Shapes, BackgroundShape, ResetterShape, AskShape, Thread
<1>11. LocksHeld'
  BY <1>1, <1>2, <1>3, <1>4, <1>5, <1>6 DEF CountInv, LocksHeld, ResetAsked, Thread
<1>12. GroupsWait'
  BY <1>1, <1>2, <1>3, <1>4, <1>5, <1>6, KeepGroups DEF CountInv, Leading, Thread
<1>13. QuietWhenDown'
  BY <1>1, <1>2, <1>3, <1>4, <1>5, <1>6 DEF QuietWhenDown
<1>14. QueueShape'
  BY <1>1, <1>2, <1>3, <1>4, <1>5, <1>6 DEF CountInv, QueueShape, InQueue, Grabbed, Queued, Chain, Thread
<1>15. RequestsOnce'
  BY <1>1, <1>2, <1>3, <1>4, <1>5, <1>6 DEF CountInv, RequestsOnce, Asks, InQueue, Grabbed, Queued, Chain,
         Thread
<1>16. RequestsPast'
  BY <1>1, <1>2, <1>3, <1>4, <1>5, <1>6 DEF CountInv, RequestsPast, AskedFor, Asks, InQueue, Grabbed, Queued,
         Chain, ResetAsked, Thread
<1>17. FilesInOrder' /\ FilesLeft'
  <2>1. FilesInOrder'
    BY <1>1, <1>2, <1>3, <1>4, <1>5, <1>6 DEF CountInv, FilesInOrder, LastFile
  <2>2. LastFile \in Nat /\ LastFile' = LastFile
    <3>1. LastFile \in index /\ index \in SUBSET Files
      BY MaxFile DEF CountInv, TypeOK, FilesInOrder, LastFile
    <3> QED BY <3>1, FilesNat, <1>5 DEF LastFile
  <2>3. ResetPending' /\ ~ResetPending /\ left \in [Bounded -> Nat] /\ Budget \in [Bounded -> Nat]
    BY <1>1, <1>2, <1>3, <1>4, <1>5, <1>6, EngineAssumption DEF ResetPending, CountInv, TypeOK
  <2> QED BY <1>1, <1>2, <1>3, <1>4, <1>5, <1>6, <2>1, <2>2, <2>3 DEF CountInv, FilesLeft
<1>18. CheckpointsSafe'
  BY <1>1, <1>2, <1>3, <1>4, <1>5, <1>6 DEF CountInv, CheckpointsSafe, ScanFrom, LastFile, Thread
<1>19. LoggedOnce' /\ BusyLogged' /\ LoggedPrepared'
  BY <1>1, <1>2, <1>3, <1>4, <1>5, <1>6 DEF CountInv, LoggedOnce, BusyLogged, LoggedPrepared, Thread
<1>20. Exact'
  <2>1. \A f \in Files : Unlogs(f)' = Unlogs(f) /\ Dones(f)' = Dones(f)
    BY <1>1, <1>2, <1>3, <1>4, <1>5, <1>6 DEF CountInv, Unlogs, Dones, OwesUnlog, OwesDone, Thread
  <2>2. \A f \in Files : Asked(f)' = Asked(f) /\ Behind(f)' = Behind(f)
    BY <1>1, <1>2, <1>3, <1>4, <1>5, <1>6 DEF Asked, Behind, InQueue, Grabbed, Queued, Chain, Thread
  <2> QED BY <1>1, <1>2, <1>3, <1>4, <1>5, <1>6, <2>1, <2>2 DEF CountInv, Exact
<1> QED
  BY <1>7, <1>8, <1>9, <1>10, <1>11, <1>12, <1>13,
     <1>14, <1>15, <1>16, <1>17, <1>18, <1>19, <1>20 DEF CountInv, Shapes

\* The checkpoints under way are through.
LEMMA ResetWaitCounts ==
  ASSUME CountInv, server = "up", ResetWait
  PROVE  CountInv'
<1>1. th[Resetter].pc = "resetwait"
  BY DEF ResetWait
<1>2. Resetter \in Thread /\ Resetter \notin Trx \union Session /\ Resetter # Background
      /\ Background \in Thread
  BY ThreadAssumption DEF Thread
<1>3. /\ th' \in [Thread -> ThreadState]
      /\ \A q \in Thread : q # Resetter => th'[q] = th[q]
      /\ th'[Resetter].pc = "resetlock" /\ th'[Resetter].id = th[Resetter].id /\ th'[Resetter].todo = th[Resetter].todo
      /\ th'[Resetter].ret = th[Resetter].ret /\ th'[Resetter].group = th[Resetter].group
      /\ th'[Resetter].rotated = th[Resetter].rotated
  BY <1>2, MovesTo DEF ResetWait, CountInv, PC
<1>4. /\ xids' = xids /\ ckpt' = ckpt /\ index' = index /\ engine' = engine /\ cur' = cur
      /\ oldest' = oldest /\ count' = count /\ logLock' = logLock /\ syncLock' = syncLock
      /\ requests' = requests /\ queue' = queue /\ bg' = bg /\ server' = server
      /\ left' = left
  BY DEF ResetWait, disk, list, locks, notices
<1>5. TypeOK'
  BY <1>1, <1>2, <1>3, <1>4 DEF CountInv, TypeOK
<1>6. TrxShape'
  BY <1>1, <1>2, <1>3, <1>4 DEF CountInv, Shapes, TrxShape, Leading, Thread
<1>7. SessionShape'
  BY <1>1, <1>2, <1>3, <1>4 DEF CountInv, Shapes, SessionShape, Leading, Thread
<1>8. BackgroundShape' /\ ResetterShape' /\ AskShape'
  BY <1>1, <1>2, <1>3, <1>4 DEF CountInv, Shapes, BackgroundShape, ResetterShape, AskShape, Thread
<1>9. LocksHeld'
  BY <1>1, <1>2, <1>3, <1>4 DEF CountInv, LocksHeld, ResetAsked, Thread
<1>10. GroupsWait'
  BY <1>1, <1>2, <1>3, <1>4, KeepGroups DEF CountInv, Leading, Thread
<1>11. QuietWhenDown'
  BY <1>1, <1>2, <1>3, <1>4 DEF QuietWhenDown
<1>12. QueueShape'
  BY <1>1, <1>2, <1>3, <1>4 DEF CountInv, QueueShape, InQueue, Grabbed, Queued, Chain, Thread
<1>13. RequestsOnce'
  BY <1>1, <1>2, <1>3, <1>4 DEF CountInv, RequestsOnce, Asks, InQueue, Grabbed, Queued, Chain,
         Thread
<1>14. RequestsPast'
  BY <1>1, <1>2, <1>3, <1>4 DEF CountInv, RequestsPast, AskedFor, Asks, InQueue, Grabbed, Queued,
         Chain, ResetAsked, Thread
<1>15. FilesInOrder' /\ FilesLeft'
  BY <1>1, <1>2, <1>3, <1>4 DEF CountInv, FilesInOrder, FilesLeft, ResetPending, LastFile, Thread
<1>16. CheckpointsSafe'
  BY <1>1, <1>2, <1>3, <1>4 DEF CountInv, CheckpointsSafe, ScanFrom, LastFile, Thread
<1>17. LoggedOnce' /\ BusyLogged' /\ LoggedPrepared'
  BY <1>1, <1>2, <1>3, <1>4 DEF CountInv, LoggedOnce, BusyLogged, LoggedPrepared, Thread
<1>18. Exact'
  <2>1. \A f \in Files : Unlogs(f)' = Unlogs(f) /\ Dones(f)' = Dones(f)
    BY <1>1, <1>2, <1>3, <1>4 DEF CountInv, Unlogs, Dones, OwesUnlog, OwesDone, Thread
  <2>2. \A f \in Files : Asked(f)' = Asked(f) /\ Behind(f)' = Behind(f)
    BY <1>1, <1>2, <1>3, <1>4 DEF Asked, Behind, InQueue, Grabbed, Queued, Chain, Thread
  <2> QED BY <1>1, <1>2, <1>3, <1>4, <2>1, <2>2 DEF CountInv, Exact
<1> QED
  BY <1>5, <1>6, <1>7, <1>8, <1>9, <1>10, <1>11,
     <1>12, <1>13, <1>14, <1>15, <1>16, <1>17, <1>18 DEF CountInv, Shapes

\* RESET MASTER takes LOCK_log.
LEMMA ResetLockCounts ==
  ASSUME CountInv, server = "up", ResetLock
  PROVE  CountInv'
<1>1. th[Resetter].pc = "resetlock" /\ logLock = NoThread /\ logLock' = Resetter
  BY DEF ResetLock
<1>2. Resetter \in Thread /\ Resetter \notin Trx \union Session /\ Resetter # Background
      /\ Background \in Thread
  BY ThreadAssumption DEF Thread
<1>3. /\ th' \in [Thread -> ThreadState]
      /\ \A q \in Thread : q # Resetter => th'[q] = th[q]
      /\ th'[Resetter].pc = "resetorder" /\ th'[Resetter].id = th[Resetter].id /\ th'[Resetter].todo = th[Resetter].todo
      /\ th'[Resetter].ret = th[Resetter].ret /\ th'[Resetter].group = th[Resetter].group
      /\ th'[Resetter].rotated = th[Resetter].rotated
  BY <1>2, MovesTo DEF ResetLock, CountInv, PC
<1>4. /\ xids' = xids /\ ckpt' = ckpt /\ index' = index /\ engine' = engine /\ cur' = cur
      /\ oldest' = oldest /\ count' = count /\ syncLock' = syncLock
      /\ requests' = requests /\ queue' = queue /\ bg' = bg /\ server' = server
      /\ left' = left
  BY DEF ResetLock, disk, list, locks, notices
<1>5. TypeOK'
  BY <1>1, <1>2, <1>3, <1>4 DEF CountInv, TypeOK
<1>6. TrxShape'
  BY <1>1, <1>2, <1>3, <1>4 DEF CountInv, Shapes, TrxShape, Leading, Thread
<1>7. SessionShape'
  BY <1>1, <1>2, <1>3, <1>4 DEF CountInv, Shapes, SessionShape, Leading, Thread
<1>8. BackgroundShape' /\ ResetterShape' /\ AskShape'
  BY <1>1, <1>2, <1>3, <1>4 DEF CountInv, Shapes, BackgroundShape, ResetterShape, AskShape, Thread
<1>9. LocksHeld'
  <2>1. \A q \in Thread : th[q].pc \notin {"link", "log", "event"}
    BY <1>1, <1>2, <1>3, <1>4, ThreadAssumption DEF CountInv, LocksHeld
  <2> QED BY <1>1, <1>2, <1>3, <1>4, <2>1 DEF CountInv, LocksHeld, ResetAsked
<1>10. GroupsWait'
  BY <1>1, <1>2, <1>3, <1>4, KeepGroups DEF CountInv, Leading, Thread
<1>11. QuietWhenDown'
  BY <1>1, <1>2, <1>3, <1>4 DEF QuietWhenDown
<1>12. QueueShape'
  BY <1>1, <1>2, <1>3, <1>4 DEF CountInv, QueueShape, InQueue, Grabbed, Queued, Chain, Thread
<1>13. RequestsOnce'
  BY <1>1, <1>2, <1>3, <1>4 DEF CountInv, RequestsOnce, Asks, InQueue, Grabbed, Queued, Chain,
         Thread
<1>14. RequestsPast'
  BY <1>1, <1>2, <1>3, <1>4 DEF CountInv, RequestsPast, AskedFor, Asks, InQueue, Grabbed, Queued,
         Chain, ResetAsked, Thread
<1>15. FilesInOrder' /\ FilesLeft'
  BY <1>1, <1>2, <1>3, <1>4 DEF CountInv, FilesInOrder, FilesLeft, ResetPending, LastFile, Thread
<1>16. CheckpointsSafe'
  BY <1>1, <1>2, <1>3, <1>4 DEF CountInv, CheckpointsSafe, ScanFrom, LastFile, Thread
<1>17. LoggedOnce' /\ BusyLogged' /\ LoggedPrepared'
  BY <1>1, <1>2, <1>3, <1>4 DEF CountInv, LoggedOnce, BusyLogged, LoggedPrepared, Thread
<1>18. Exact'
  <2>1. \A f \in Files : Unlogs(f)' = Unlogs(f) /\ Dones(f)' = Dones(f)
    BY <1>1, <1>2, <1>3, <1>4 DEF CountInv, Unlogs, Dones, OwesUnlog, OwesDone, Thread
  <2>2. \A f \in Files : Asked(f)' = Asked(f) /\ Behind(f)' = Behind(f)
    BY <1>1, <1>2, <1>3, <1>4 DEF Asked, Behind, InQueue, Grabbed, Queued, Chain, Thread
  <2> QED BY <1>1, <1>2, <1>3, <1>4, <2>1, <2>2 DEF CountInv, Exact
<1> QED
  BY <1>5, <1>6, <1>7, <1>8, <1>9, <1>10, <1>11,
     <1>12, <1>13, <1>14, <1>15, <1>16, <1>17, <1>18 DEF CountInv, Shapes

\* The background thread takes the queue.
LEMMA GrabQueueCounts ==
  ASSUME CountInv, server = "up", GrabQueue
  PROVE  CountInv'
<1>1. th[Background].pc = "wait" /\ queue.head # None
  BY DEF GrabQueue
<1>2. /\ Background \in Thread /\ Background \notin Trx \union Session
      /\ Resetter # Background /\ Resetter \in Thread
  BY ThreadAssumption DEF Thread
<1>3. /\ queue.head \in FileOrNone /\ queue.next \in [Files -> FileOrNone]
      /\ queue.notify \in [Files -> Nat] /\ bg.entry \in FileOrNone /\ bg.next \in FileOrNone
  BY DEF CountInv, TypeOK
<1>4. /\ bg' \in [entry: FileOrNone, next: FileOrNone, again: Nat]
      /\ bg'.entry = queue.head /\ bg'.next = bg.next /\ bg'.again = bg.again
      /\ queue' \in [head: FileOrNone, next: [Files -> FileOrNone], notify: [Files -> Nat]]
      /\ queue'.head = None /\ queue'.next = queue.next /\ queue'.notify = queue.notify
  BY <1>3 DEF GrabQueue, CountInv, TypeOK, FileOrNone
<1>5. /\ th' \in [Thread -> ThreadState]
      /\ \A q \in Thread : q # Background => th'[q] = th[q]
      /\ th'[Background].pc = "count" /\ th'[Background].id = th[Background].id /\ th'[Background].todo = th[Background].todo
      /\ th'[Background].ret = th[Background].ret /\ th'[Background].group = th[Background].group
      /\ th'[Background].rotated = th[Background].rotated
  BY <1>2, MovesTo DEF GrabQueue, CountInv, PC
<1>6. /\ xids' = xids /\ ckpt' = ckpt /\ index' = index /\ engine' = engine /\ cur' = cur
      /\ oldest' = oldest /\ count' = count /\ logLock' = logLock /\ syncLock' = syncLock
      /\ requests' = requests /\ server' = server /\ left' = left
  BY DEF GrabQueue, disk, list, locks
<1>7. Queued' = {} /\ Grabbed' = Queued /\ Grabbed = {} /\ InQueue' = InQueue
  <2>1. bg.next = None
    BY <1>1 DEF CountInv, Shapes, BackgroundShape
  <2>2. Queued' = {} /\ Grabbed = {}
    BY <1>1, <1>4, <2>1, ReachNone DEF Queued, Grabbed, Chain
  <2>3. Grabbed' = Queued
    BY <1>4, <1>5 DEF Queued, Grabbed, Chain
  <2> QED BY <2>2, <2>3 DEF InQueue
<1>8. TypeOK'
  BY <1>1, <1>2, <1>3, <1>4, <1>5, <1>6, <1>7 DEF CountInv, TypeOK
<1>9. TrxShape'
  BY <1>1, <1>2, <1>3, <1>4, <1>5, <1>6, <1>7 DEF CountInv, Shapes, TrxShape, Leading, Thread
<1>10. SessionShape'
  BY <1>1, <1>2, <1>3, <1>4, <1>5, <1>6, <1>7 DEF CountInv, Shapes, SessionShape, Leading, Thread
<1>11. BackgroundShape' /\ ResetterShape' /\ AskShape'
  <2>1. queue.head \in Files
    BY <1>1, <1>3 DEF FileOrNone
  <2> QED BY <1>1, <1>2, <1>3, <1>4, <1>5, <1>6, <1>7, <2>1 DEF CountInv, Shapes, BackgroundShape, ResetterShape, AskShape
<1>12. LocksHeld'
  BY <1>1, <1>2, <1>3, <1>4, <1>5, <1>6, <1>7 DEF CountInv, LocksHeld, ResetAsked, Thread
<1>13. GroupsWait'
  BY <1>1, <1>2, <1>3, <1>4, <1>5, <1>6, <1>7, KeepGroups DEF CountInv, Leading, Thread
<1>14. QuietWhenDown'
  BY <1>1, <1>2, <1>3, <1>4, <1>5, <1>6, <1>7 DEF QuietWhenDown
<1>15. QueueShape'
  BY <1>1, <1>2, <1>3, <1>4, <1>5, <1>6, <1>7 DEF CountInv, QueueShape, Chain
<1>16. RequestsOnce'
  BY <1>1, <1>2, <1>3, <1>4, <1>5, <1>6, <1>7 DEF CountInv, RequestsOnce, Asks, Thread
<1>17. RequestsPast'
  BY <1>1, <1>2, <1>3, <1>4, <1>5, <1>6, <1>7 DEF CountInv, RequestsPast, AskedFor, Asks, ResetAsked, Thread
<1>18. FilesInOrder' /\ FilesLeft'
  BY <1>1, <1>2, <1>3, <1>4, <1>5, <1>6, <1>7 DEF CountInv, FilesInOrder, FilesLeft, ResetPending, LastFile, Thread
<1>19. CheckpointsSafe'
  BY <1>1, <1>2, <1>3, <1>4, <1>5, <1>6, <1>7 DEF CountInv, CheckpointsSafe, ScanFrom, LastFile, Thread
<1>20. LoggedOnce' /\ BusyLogged' /\ LoggedPrepared'
  BY <1>1, <1>2, <1>3, <1>4, <1>5, <1>6, <1>7 DEF CountInv, LoggedOnce, BusyLogged, LoggedPrepared, Thread
<1>21. Exact'
  <2>1. \A f \in Files : Unlogs(f)' = Unlogs(f) /\ Dones(f)' = Dones(f)
    BY <1>1, <1>2, <1>3, <1>4, <1>5, <1>6, <1>7 DEF CountInv, Unlogs, Dones, OwesUnlog, OwesDone, Thread
  <2>2. \A f \in Files : Asked(f)' = Asked(f) /\ Behind(f)' = Behind(f)
    BY <1>1, <1>2, <1>3, <1>4, <1>5, <1>6, <1>7 DEF Asked, Behind, Thread
  <2> QED BY <1>1, <1>2, <1>3, <1>4, <1>5, <1>6, <1>7, <2>1, <2>2 DEF CountInv, Exact
<1> QED
  BY <1>8, <1>9, <1>10, <1>11, <1>12, <1>13, <1>14,
     <1>15, <1>16, <1>17, <1>18, <1>19, <1>20, <1>21 DEF CountInv, Shapes

\* The background thread reads the notifications of an entry.
LEMMA ReadCountCounts ==
  ASSUME CountInv, server = "up", ReadCount
  PROVE  CountInv'
<1>1. th[Background].pc = "count"
  BY DEF ReadCount
<1>2. /\ Background \in Thread /\ Background \notin Trx \union Session
      /\ Resetter # Background /\ Resetter \in Thread
  BY ThreadAssumption DEF Thread
<1>3. /\ queue.head \in FileOrNone /\ queue.next \in [Files -> FileOrNone]
      /\ queue.notify \in [Files -> Nat] /\ bg.entry \in FileOrNone /\ bg.next \in FileOrNone
  BY DEF CountInv, TypeOK
<1>4. /\ bg.entry \in Files /\ queue.notify[bg.entry] = 0
      /\ bg' \in [entry: FileOrNone, next: FileOrNone, again: Nat]
      /\ bg'.entry = bg.entry /\ bg'.next = bg.next /\ bg'.again = 0
  <2>1. bg.entry \in Files /\ queue.notify[bg.entry] = 0
    BY <1>1 DEF CountInv, Shapes, BackgroundShape, QueueShape
  <2> QED BY <2>1 DEF ReadCount, CountInv, TypeOK
<1>5. /\ th' \in [Thread -> ThreadState]
      /\ \A q \in Thread : q # Background => th'[q] = th[q]
      /\ th'[Background].pc = "next" /\ th'[Background].id = th[Background].id /\ th'[Background].todo = th[Background].todo
      /\ th'[Background].ret = th[Background].ret /\ th'[Background].group = th[Background].group
      /\ th'[Background].rotated = th[Background].rotated
  BY <1>2, MovesTo DEF ReadCount, CountInv, PC
<1>6. /\ xids' = xids /\ ckpt' = ckpt /\ index' = index /\ engine' = engine /\ cur' = cur
      /\ oldest' = oldest /\ count' = count /\ logLock' = logLock /\ syncLock' = syncLock
      /\ requests' = requests /\ queue' = queue /\ server' = server /\ left' = left
  BY DEF ReadCount, disk, list, locks
<1>7. Queued' = Queued /\ Grabbed' = Grabbed /\ InQueue' = InQueue
  BY <1>1, <1>4, <1>5, <1>6 DEF InQueue, Queued, Grabbed, Chain
<1>8. TypeOK'
  BY <1>1, <1>2, <1>3, <1>4, <1>5, <1>6, <1>7 DEF CountInv, TypeOK
<1>9. TrxShape'
  BY <1>1, <1>2, <1>3, <1>4, <1>5, <1>6, <1>7 DEF CountInv, Shapes, TrxShape, Leading, Thread
<1>10. SessionShape'
  BY <1>1, <1>2, <1>3, <1>4, <1>5, <1>6, <1>7 DEF CountInv, Shapes, SessionShape, Leading, Thread
<1>11. BackgroundShape' /\ ResetterShape' /\ AskShape'
  BY <1>1, <1>2, <1>3, <1>4, <1>5, <1>6, <1>7 DEF CountInv, Shapes, BackgroundShape, ResetterShape, AskShape, Thread
<1>12. LocksHeld'
  BY <1>1, <1>2, <1>3, <1>4, <1>5, <1>6, <1>7 DEF CountInv, LocksHeld, ResetAsked, Thread
<1>13. GroupsWait'
  BY <1>1, <1>2, <1>3, <1>4, <1>5, <1>6, <1>7, KeepGroups DEF CountInv, Leading, Thread
<1>14. QuietWhenDown'
  BY <1>1, <1>2, <1>3, <1>4, <1>5, <1>6, <1>7 DEF QuietWhenDown
<1>15. QueueShape'
  BY <1>1, <1>2, <1>3, <1>4, <1>5, <1>6, <1>7 DEF CountInv, QueueShape, Chain
<1>16. RequestsOnce'
  BY <1>1, <1>2, <1>3, <1>4, <1>5, <1>6, <1>7 DEF CountInv, RequestsOnce, Asks, Thread
<1>17. RequestsPast'
  BY <1>1, <1>2, <1>3, <1>4, <1>5, <1>6, <1>7 DEF CountInv, RequestsPast, AskedFor, Asks, ResetAsked, Thread
<1>18. FilesInOrder' /\ FilesLeft'
  BY <1>1, <1>2, <1>3, <1>4, <1>5, <1>6, <1>7 DEF CountInv, FilesInOrder, FilesLeft, ResetPending, LastFile, Thread
<1>19. CheckpointsSafe'
  BY <1>1, <1>2, <1>3, <1>4, <1>5, <1>6, <1>7 DEF CountInv, CheckpointsSafe, ScanFrom, LastFile, Thread
<1>20. LoggedOnce' /\ BusyLogged' /\ LoggedPrepared'
  BY <1>1, <1>2, <1>3, <1>4, <1>5, <1>6, <1>7 DEF CountInv, LoggedOnce, BusyLogged, LoggedPrepared, Thread
<1>21. Exact'
  <2>1. \A f \in Files : Unlogs(f)' = Unlogs(f) /\ Dones(f)' = Dones(f)
    BY <1>1, <1>2, <1>3, <1>4, <1>5, <1>6, <1>7 DEF CountInv, Unlogs, Dones, OwesUnlog, OwesDone, Thread
  <2>2. \A f \in Files : Asked(f)' = Asked(f) /\ Behind(f)' = Behind(f)
    BY <1>1, <1>2, <1>3, <1>4, <1>5, <1>6, <1>7 DEF Asked, Behind, Thread
  <2> QED BY <1>1, <1>2, <1>3, <1>4, <1>5, <1>6, <1>7, <2>1, <2>2 DEF CountInv, Exact
<1> QED
  BY <1>8, <1>9, <1>10, <1>11, <1>12, <1>13, <1>14,
     <1>15, <1>16, <1>17, <1>18, <1>19, <1>20, <1>21 DEF CountInv, Shapes

\* The background thread reads the successor of an entry and begins with the
\* entry.
LEMMA ReadNextCounts ==
  ASSUME CountInv, server = "up", ReadNext
  PROVE  CountInv'
<1>1. th[Background].pc = "next"
  BY DEF ReadNext
<1>2. /\ Background \in Thread /\ Background \notin Trx \union Session
      /\ Resetter # Background /\ Resetter \in Thread
  BY ThreadAssumption DEF Thread
<1>3. /\ queue.head \in FileOrNone /\ queue.next \in [Files -> FileOrNone]
      /\ queue.notify \in [Files -> Nat] /\ bg.entry \in FileOrNone /\ bg.next \in FileOrNone
  BY DEF CountInv, TypeOK
<1>4. /\ bg.entry \in Files /\ queue.next[bg.entry] \in FileOrNone
      /\ bg' \in [entry: FileOrNone, next: FileOrNone, again: Nat]
      /\ bg'.entry = bg.entry /\ bg'.next = queue.next[bg.entry] /\ bg'.again = bg.again
  <2>1. bg.entry \in Files
    BY <1>1 DEF CountInv, Shapes, BackgroundShape, QueueShape
  <2> QED BY <1>3, <2>1 DEF ReadNext, CountInv, TypeOK
<1>5. /\ queue' \in [head: FileOrNone, next: [Files -> FileOrNone], notify: [Files -> Nat]]
      /\ queue'.head = queue.head /\ queue'.next = queue.next
      /\ \A f \in Files : queue'.notify[f] = 0
  BY <1>3, <1>4 DEF ReadNext, CountInv, TypeOK, QueueShape
<1>6. /\ th' \in [Thread -> ThreadState]
      /\ \A q \in Thread : q # Background => th'[q] = th[q]
      /\ th'[Background].pc = "done" /\ th'[Background].id = bg.entry
      /\ th'[Background].rotated = FALSE
  <2>1. [At("done") EXCEPT !.id = bg.entry] \in ThreadState
    BY <1>4 DEF At, ThreadState, FileOrNone, PC
  <2>2. th' = [th EXCEPT ![Background] = [At("done") EXCEPT !.id = bg.entry]]
    BY DEF ReadNext
  <2> QED BY <1>2, <2>1, <2>2, Moves DEF At, CountInv
<1>7. /\ xids' = xids /\ ckpt' = ckpt /\ index' = index /\ engine' = engine /\ cur' = cur
      /\ oldest' = oldest /\ count' = count /\ logLock' = logLock /\ syncLock' = syncLock
      /\ requests' = requests /\ server' = server /\ left' = left
  BY DEF ReadNext, disk, list, locks
<1>8. /\ Queued' = Queued /\ bg.entry \notin Grabbed' /\ Grabbed = {bg.entry} \union Grabbed'
      /\ InQueue = {bg.entry} \union InQueue' /\ bg.entry \notin InQueue'
  <2>1. Grabbed = Chain(bg.entry) /\ Grabbed' = Chain(queue.next[bg.entry])
    BY <1>1, <1>4, <1>5, <1>6 DEF Grabbed, Chain
  <2>2. Chain(bg.entry) = {bg.entry} \union Chain(queue.next[bg.entry])
    BY <1>3, <1>4, ReachStep DEF Chain
  <2>3. bg.entry \in Grabbed /\ bg.entry \notin Chain(queue.next[bg.entry])
    BY <2>1, <2>2 DEF CountInv, QueueShape, InQueue
  <2>4. Queued' = Queued
    BY <1>5 DEF Queued, Chain
  <2>5. bg.entry \notin Queued
    BY <2>3 DEF CountInv, QueueShape
  <2> QED BY <2>1, <2>2, <2>3, <2>4, <2>5 DEF InQueue
<1>9. TypeOK'
  BY <1>1, <1>2, <1>3, <1>4, <1>5, <1>6, <1>7, <1>8 DEF CountInv, TypeOK
<1>10. TrxShape'
  BY <1>1, <1>2, <1>3, <1>4, <1>5, <1>6, <1>7, <1>8 DEF CountInv, Shapes, TrxShape, Leading, Thread
<1>11. SessionShape'
  BY <1>1, <1>2, <1>3, <1>4, <1>5, <1>6, <1>7, <1>8 DEF CountInv, Shapes, SessionShape, Leading, Thread
<1>12. BackgroundShape' /\ ResetterShape' /\ AskShape'
  BY <1>1, <1>2, <1>3, <1>4, <1>5, <1>6, <1>7, <1>8 DEF CountInv, Shapes, BackgroundShape, ResetterShape, AskShape, Thread
<1>13. LocksHeld'
  BY <1>1, <1>2, <1>3, <1>4, <1>5, <1>6, <1>7, <1>8 DEF CountInv, LocksHeld, ResetAsked, Thread
<1>14. GroupsWait'
  BY <1>1, <1>2, <1>3, <1>4, <1>5, <1>6, <1>7, <1>8, KeepGroups DEF CountInv, Leading, Thread
<1>15. QuietWhenDown'
  BY <1>1, <1>2, <1>3, <1>4, <1>5, <1>6, <1>7, <1>8 DEF QuietWhenDown
<1>16. QueueShape'
  BY <1>1, <1>2, <1>3, <1>4, <1>5, <1>6, <1>7, <1>8 DEF CountInv, QueueShape, Chain
<1>17. RequestsOnce'
  BY <1>1, <1>2, <1>3, <1>4, <1>5, <1>6, <1>7, <1>8 DEF CountInv, RequestsOnce, Asks, Thread
<1>18. RequestsPast'
  BY <1>1, <1>2, <1>3, <1>4, <1>5, <1>6, <1>7, <1>8 DEF CountInv, RequestsPast, AskedFor, Asks, ResetAsked, Thread
<1>19. FilesInOrder' /\ FilesLeft'
  BY <1>1, <1>2, <1>3, <1>4, <1>5, <1>6, <1>7, <1>8 DEF CountInv, FilesInOrder, FilesLeft, ResetPending, LastFile, Thread
<1>20. CheckpointsSafe'
  BY <1>1, <1>2, <1>3, <1>4, <1>5, <1>6, <1>7, <1>8 DEF CountInv, CheckpointsSafe, ScanFrom, LastFile, Thread
<1>21. LoggedOnce' /\ BusyLogged' /\ LoggedPrepared'
  BY <1>1, <1>2, <1>3, <1>4, <1>5, <1>6, <1>7, <1>8 DEF CountInv, LoggedOnce, BusyLogged, LoggedPrepared, Thread
<1>22. Exact'
  <2>1. \A f \in Files : Unlogs(f)' = Unlogs(f) /\ Dones(f)' = Dones(f)
    BY <1>1, <1>2, <1>3, <1>4, <1>5, <1>6, <1>7, <1>8 DEF CountInv, Unlogs, Dones, OwesUnlog, OwesDone, Thread
  <2>2. \A f \in Files : Asked(f)' = Asked(f)
    BY <1>1, <1>2, <1>3, <1>4, <1>5, <1>6, <1>7, <1>8 DEF Asked
  <2>3. \A f \in Files : Behind(f)' = Behind(f)
    BY <1>1, <1>2, <1>3, <1>4, <1>5, <1>6, <1>7, <1>8 DEF Behind
  <2> QED BY <1>1, <1>2, <1>3, <1>4, <1>5, <1>6, <1>7, <1>8, <2>1, <2>2, <2>3 DEF CountInv, Exact
<1> QED
  BY <1>9, <1>10, <1>11, <1>12, <1>13, <1>14, <1>15,
     <1>16, <1>17, <1>18, <1>19, <1>20, <1>21, <1>22 DEF CountInv, Shapes

\* What is counted is finite, and a file that something is owed for has a count.
LEMMA OwedCounts ==
  ASSUME CountInv, NEW f \in Files
  PROVE  /\ IsFiniteSet(Unlogs(f)) /\ Cardinality(Unlogs(f)) \in Nat
         /\ IsFiniteSet(Dones(f)) /\ Cardinality(Dones(f)) \in Nat
         /\ IsFiniteSet(Asked(f)) /\ Cardinality(Asked(f)) \in Nat
         /\ Behind(f) \in Nat /\ count[f] \in Nat
         /\ Unlogs(f) # {} \/ Dones(f) # {} \/ Asked(f) # {} \/ Behind(f) > 0 => count[f] > 0
<1>1. IsFiniteSet(Unlogs(f)) /\ Cardinality(Unlogs(f)) \in Nat
  BY EngineAssumption, FS_Subset, FS_CardinalityType DEF Unlogs
<1>2. IsFiniteSet(Dones(f)) /\ Cardinality(Dones(f)) \in Nat
  BY ThreadFinite, FS_Subset, FS_CardinalityType DEF Dones
<1>3. IsFiniteSet(Asked(f))
  <2>1. CASE Asked(f) = {}
    BY <2>1, FS_EmptySet
  <2>2. CASE Asked(f) # {}
    <3>1. PICK r \in Asked(f) : TRUE
      BY <2>2
    <3>2. Asked(f) = {r}
      BY <3>1 DEF Asked, CountInv, RequestsOnce
    <3> QED BY <3>2, FS_Singleton
  <2> QED BY <2>1, <2>2
<1>4. Cardinality(Asked(f)) \in Nat
  BY <1>3, FS_CardinalityType
<1>5. Behind(f) \in Nat /\ count[f] \in Nat
  BY DEF Behind, CountInv, TypeOK
<1>6. /\ Unlogs(f) # {} => Cardinality(Unlogs(f)) # 0
      /\ Dones(f) # {} => Cardinality(Dones(f)) # 0
      /\ Asked(f) # {} => Cardinality(Asked(f)) # 0
  BY <1>1, <1>2, <1>3, FS_EmptySet
<1>7. count[f] = Cardinality(Unlogs(f)) + Cardinality(Dones(f)) + Cardinality(Asked(f))
                 + Behind(f)
  BY DEF CountInv, Exact
<1>8. \A a, b, c, d \in Nat : a # 0 \/ b # 0 \/ c # 0 \/ d > 0 => a + b + c + d > 0
  OBVIOUS
<1>9. Unlogs(f) # {} \/ Dones(f) # {} \/ Asked(f) # {} \/ Behind(f) > 0 => count[f] > 0
  BY <1>1, <1>2, <1>4, <1>5, <1>6, <1>7, <1>8
<1> QED BY <1>1, <1>2, <1>3, <1>4, <1>5, <1>9

\* Where mark_xid_done() returns to.
LEMMA Returns ==
  ASSUME CountInv, NEW p \in Thread, th[p].pc \in {"done", "event"}, Return(p), queue' = queue
  PROVE  /\ th' \in [Thread -> ThreadState]
         /\ \A q \in Thread : q # p => th'[q] = th[q]
         /\ th'[p].id = None /\ th'[p].group = {} /\ th'[p].rotated = FALSE
         /\ p # Background => th'[p].pc = th[p].ret /\ bg' = bg
         /\ p = Background => /\ th'[p].pc = IF bg.next = None THEN "wait" ELSE "count"
                              /\ bg'.entry = bg.next /\ bg'.next = None
         /\ bg' \in [entry: FileOrNone, next: FileOrNone, again: Nat] /\ bg'.again = 0
         /\ Queued' = Queued /\ Grabbed' = Grabbed /\ InQueue' = InQueue
<1>1. /\ th[p].ret \in PC /\ "wait" \in PC /\ "count" \in PC /\ None \in FileOrNone
      /\ bg.next \in FileOrNone /\ bg.again = 0
      /\ bg \in [entry: FileOrNone, next: FileOrNone, again: Nat]
  BY DEF CountInv, TypeOK, ThreadState, PC, QueueShape, FileOrNone
<1>2. Queued' = Queued
  BY DEF Queued, Chain
<1>3. CASE p # Background
  <2>1. th' = [th EXCEPT ![p] = At(th[p].ret)] /\ bg' = bg
    BY <1>3 DEF Return
  <2>2. /\ th' \in [Thread -> ThreadState] /\ th'[p] = At(th[p].ret)
        /\ \A q \in Thread : q # p => th'[q] = th[q]
    BY <1>1, <2>1, AtFields, Moves DEF CountInv
  <2>3. th'[Background] = th[Background]
    BY <1>3, <2>2 DEF Thread
  <2>4. Grabbed' = Grabbed
    BY <2>1, <2>3 DEF Grabbed, Chain
  <2> QED BY <1>1, <1>2, <1>3, <2>1, <2>2, <2>4, AtFields DEF InQueue
<1>4. CASE p = Background
  <2> DEFINE pc == IF bg.next = None THEN "wait" ELSE "count"
  <2>1. pc \in PC
    BY <1>1
  <2>2. th' = [th EXCEPT ![p] = At(pc)] /\ bg' = [NoEntry EXCEPT !.entry = bg.next]
    BY <1>1, <1>4 DEF Return
  <2> HIDE DEF pc
  <2>3. /\ th' \in [Thread -> ThreadState] /\ th'[p] = At(pc)
        /\ \A q \in Thread : q # p => th'[q] = th[q]
    BY <2>1, <2>2, AtFields, Moves DEF CountInv
  <2>4. /\ bg'.entry = bg.next /\ bg'.next = None /\ bg'.again = 0
        /\ bg' \in [entry: FileOrNone, next: FileOrNone, again: Nat]
    BY <1>1, <2>2 DEF NoEntry
  <2>5. th'[p].pc = pc
    BY <2>1, <2>3, AtFields
  <2>6. Grabbed = Chain(bg.next)
    BY <1>4 DEF Grabbed
  <2>7. Grabbed' = Chain(bg.next)
    <3>1. CASE bg.next = None
      BY <1>4, <2>4, <2>5, <3>1 DEF Grabbed, Chain, pc
    <3>2. CASE bg.next # None
      BY <1>4, <2>4, <2>5, <3>2 DEF Grabbed, Chain, pc
    <3> QED BY <3>1, <3>2
  <2>8. /\ th'[p].id = None /\ th'[p].group = {} /\ th'[p].rotated = FALSE
    BY <2>3 DEF At
  <2>9. InQueue' = InQueue
    BY <1>2, <2>6, <2>7 DEF InQueue
  <2>10. Grabbed' = Grabbed
    BY <2>6, <2>7
  <2> QED BY <1>2, <1>4, <2>3, <2>4, <2>5, <2>8, <2>9, <2>10 DEF pc
<1> QED BY <1>3, <1>4

\* The checkpoint event is written, naming the oldest file with a count.
LEMMA CheckpointEventCounts ==
  ASSUME CountInv, server = "up", NEW p \in Thread, CheckpointEvent(p)
  PROVE  /\ CountInv'
         /\ ScanFrom' = oldest /\ ScanFrom <= oldest
<1>1. /\ th[p].pc = "event" /\ logLock = p
      /\ ckpt' = [ckpt EXCEPT ![cur] = oldest] /\ logLock' = NoThread
  BY DEF CheckpointEvent, CountInv, LocksHeld
<1>2. /\ xids' = xids /\ index' = index /\ engine' = engine /\ cur' = cur
      /\ oldest' = oldest /\ count' = count /\ syncLock' = syncLock
      /\ requests' = requests /\ queue' = queue /\ server' = server /\ left' = left
  BY DEF CheckpointEvent, list
<1>3. /\ th' \in [Thread -> ThreadState]
      /\ \A q \in Thread : q # p => th'[q] = th[q]
      /\ th'[p].id = None /\ th'[p].group = {} /\ th'[p].rotated = FALSE
      /\ p # Background => th'[p].pc = th[p].ret /\ bg' = bg
      /\ p = Background => /\ th'[p].pc = IF bg.next = None THEN "wait" ELSE "count"
                           /\ bg'.entry = bg.next /\ bg'.next = None
      /\ bg' \in [entry: FileOrNone, next: FileOrNone, again: Nat] /\ bg'.again = 0
      /\ Queued' = Queued /\ Grabbed' = Grabbed /\ InQueue' = InQueue
  BY <1>1, <1>2, Returns DEF CheckpointEvent
<1>4. /\ Trx \subseteq Thread /\ Session \subseteq Thread
      /\ Background \in Thread /\ Resetter \in Thread
      /\ Background \notin Trx \union Session
      /\ Resetter \notin Trx \union Session \union {Background}
      /\ Trx \intersect Session = {} /\ None \notin Files
  BY ThreadAssumption, FilesNat DEF Thread
<1>5. p # Resetter /\ \A q \in Thread : th[q].pc # "link"
  BY <1>1, ThreadAssumption DEF CountInv, LocksHeld, Shapes, ResetterShape
<1>6. /\ ckpt' \in [Files -> FileOrNone] /\ LastFile' = LastFile /\ LastFile = cur
      /\ ScanFrom' = oldest
  <2>1. ckpt \in [Files -> FileOrNone] /\ cur \in Files /\ oldest \in FileOrNone
    BY DEF CountInv, TypeOK, FileOrNone
  <2>2. LastFile' = LastFile /\ LastFile = cur
    BY <1>2, <1>5 DEF CountInv, FilesInOrder, LastFile
  <2> QED BY <1>1, <1>2, <2>1, <2>2 DEF ScanFrom
<1>7. TypeOK'
  BY <1>1, <1>2, <1>3, <1>4, <1>5, <1>6 DEF CountInv, TypeOK
<1>8. TrxShape'
  BY <1>1, <1>2, <1>3, <1>4, <1>5, <1>6 DEF CountInv, Shapes, TrxShape, Leading, Thread
<1>9. SessionShape'
  BY <1>1, <1>2, <1>3, <1>4, <1>5, <1>6 DEF CountInv, Shapes, SessionShape, Leading, Thread
<1>10. BackgroundShape' /\ ResetterShape' /\ AskShape'
  <2>1. bg.next \in FileOrNone
    BY DEF CountInv, TypeOK
  <2>2. BackgroundShape'
    BY <1>1, <1>2, <1>3, <1>4, <1>5, <1>6, <2>1 DEF CountInv, Shapes, BackgroundShape, FileOrNone
  <2>3. ResetterShape'
    BY <1>1, <1>2, <1>3, <1>4, <1>5, <1>6 DEF CountInv, Shapes, ResetterShape
  <2>4. AskShape'
    BY <1>1, <1>2, <1>3, <1>4, <1>5, <1>6 DEF CountInv, Shapes, AskShape, TrxShape, SessionShape, Thread
  <2> QED BY <2>2, <2>3, <2>4
<1>11. LocksHeld'
  <2>1. \A q \in Thread : q # p => th[q].pc \notin {"link", "log", "event"}
    BY <1>1, <1>2, <1>3, <1>4, <1>5, <1>6 DEF CountInv, LocksHeld
  <2>2. ~ResetAsked /\ th[Resetter].pc # "resetorder"
    BY <1>1, <1>2, <1>3, <1>4, <1>5, <1>6 DEF CountInv, LocksHeld
  <2>3. th'[p].pc \in {"wait", "count", "purge", "end"}
    BY <1>1, <1>2, <1>3, <1>4, <1>5, <1>6 DEF CountInv, Shapes, TrxShape, SessionShape, Thread
  <2> QED BY <1>1, <1>2, <1>3, <1>4, <1>5, <1>6, <2>1, <2>2, <2>3 DEF CountInv, LocksHeld, ResetAsked
<1>12. GroupsWait'
  BY <1>1, <1>2, <1>3, <1>4, <1>5, <1>6, KeepGroups DEF CountInv, Shapes, TrxShape, Leading, Thread
<1>13. QuietWhenDown'
  BY <1>1, <1>2, <1>3, <1>4, <1>5, <1>6 DEF QuietWhenDown
<1>14. QueueShape'
  BY <1>1, <1>2, <1>3, <1>4, <1>5, <1>6 DEF CountInv, QueueShape, Chain, InQueue
<1>15. RequestsOnce'
  <2>1. \A q \in Thread : Asks(q)' => Asks(q) /\ q # p
    BY <1>1, <1>2, <1>3, <1>4, <1>5, <1>6 DEF Asks, CountInv, Shapes, TrxShape, SessionShape, Thread
  <2> QED BY <1>1, <1>2, <1>3, <1>4, <1>5, <1>6, <2>1 DEF CountInv, RequestsOnce
<1>16. RequestsPast'
  <2>1. \A q \in Thread : ~(Asks(q)' /\ q = p)
    BY <1>1, <1>2, <1>3, <1>4, <1>5, <1>6 DEF Asks, CountInv, Shapes, TrxShape, SessionShape, Thread
  <2>2. \A f \in Files : AskedFor(f)' => AskedFor(f)
    BY <1>1, <1>2, <1>3, <1>4, <1>5, <1>6, <2>1 DEF AskedFor, Asks
  <2> QED BY <1>1, <1>2, <1>3, <1>4, <1>5, <1>6, <2>2 DEF CountInv, RequestsPast, ResetAsked
<1>17. FilesInOrder' /\ FilesLeft'
  <2>1. \A q \in Thread : th'[q].pc # "link"
    BY <1>1, <1>2, <1>3, <1>4, <1>5, <1>6 DEF CountInv, Shapes, TrxShape, SessionShape, Thread
  <2> QED BY <1>1, <1>2, <1>3, <1>4, <1>5, <1>6, <2>1 DEF CountInv, FilesInOrder, FilesLeft, ResetPending
<1>18. CheckpointsSafe'
  <2>1. oldest \in Files /\ oldest <= cur /\ oldest \in Nat
    BY FilesNat DEF CountInv, TypeOK, FilesInOrder
  <2>2. \A q \in Thread : th'[q].pc # "link"
    BY <1>1, <1>2, <1>3, <1>4, <1>5, <1>6 DEF CountInv, Shapes, TrxShape, SessionShape, Thread
  <2> QED BY <1>1, <1>2, <1>3, <1>4, <1>5, <1>6, <2>1, <2>2 DEF CheckpointsSafe
<1>19. LoggedOnce' /\ BusyLogged' /\ LoggedPrepared'
  BY <1>1, <1>2, <1>3, <1>4, <1>5, <1>6 DEF CountInv, LoggedOnce, BusyLogged, LoggedPrepared, Shapes, TrxShape
<1>20. Exact'
  <2>1. \A q \in Thread : \A f \in Files : OwesDone(q, f)' <=> OwesDone(q, f)
    BY <1>1, <1>2, <1>3, <1>4, <1>5, <1>6 DEF OwesDone, CountInv, Shapes, TrxShape, SessionShape
  <2>2. \A t \in Trx : OwesUnlog(t)' <=> OwesUnlog(t)
    BY <1>1, <1>2, <1>3, <1>4, <1>5, <1>6 DEF OwesUnlog, CountInv, Shapes, TrxShape
  <2>3. \A f \in Files : Unlogs(f)' = Unlogs(f) /\ Dones(f)' = Dones(f)
    BY <1>1, <1>2, <1>3, <1>4, <1>5, <1>6, <2>1, <2>2 DEF Unlogs, Dones
  <2>4. \A f \in Files : Asked(f)' = Asked(f) /\ Behind(f)' = Behind(f)
    BY <1>1, <1>2, <1>3, <1>4, <1>5, <1>6 DEF Asked, Behind
  <2> QED BY <1>1, <1>2, <1>3, <1>4, <1>5, <1>6, <2>3, <2>4 DEF CountInv, Exact
<1> QED
  BY <1>7, <1>8, <1>9, <1>10, <1>11, <1>12, <1>13,
     <1>14, <1>15, <1>16, <1>17, <1>18, <1>19, <1>20, <1>5, <1>6 DEF CountInv, Shapes, CheckpointsSafe

\* mark_xid_done() takes one from a count that is not zero.
LEMMA DoneCounted ==
  ASSUME CountInv, NEW p \in Thread, th[p].pc = "done"
  PROVE  /\ th[p].id \in Files /\ count[th[p].id] > 0 /\ ~th[p].rotated
         /\ p # Background => p \in Dones(th[p].id)
         /\ p = Background => bg.entry = th[p].id
<1>1. th[p].id \in Files
  BY DEF CountInv, Shapes, AskShape
<1>2. p # Background => p \in Dones(th[p].id)
  BY DEF Dones, OwesDone
<1>3. p = Background => bg.entry = th[p].id
  BY DEF CountInv, Shapes, BackgroundShape
<1>4. p = Background => Behind(th[p].id) > 0
  BY <1>3 DEF Behind
<1>5. ~th[p].rotated
  BY DEF CountInv, Shapes, TrxShape, SessionShape, BackgroundShape, ResetterShape, Leading,
         Thread
<1> DEFINE f == th[p].id
<1>6. count[f] > 0
  <2>1. Dones(f) # {} \/ Behind(f) > 0
    BY <1>2, <1>4
  <2> HIDE DEF f
  <2>2. f \in Files
    BY <1>1 DEF f
  <2> QED BY <2>1, <2>2, OwedCounts
<1> QED BY <1>1, <1>2, <1>3, <1>5, <1>6

\* What mark_xid_done() takes from the count of a file is no longer owed.
LEMMA DoneExact ==
  ASSUME CountInv, NEW p \in Thread, th[p].pc = "done", NEW id, id = th[p].id,
         count' = [count EXCEPT ![id] = @ - 1], xids' = xids, requests' = requests,
         \A q \in Thread : q # p => th'[q] = th[q],
         \A f \in Files : ~OwesDone(p, f)',
         \A t \in Trx : OwesUnlog(t)' <=> OwesUnlog(t),
         InQueue' = InQueue, p # Background => bg' = bg,
         p = Background => th'[p].pc # "done"
  PROVE  Exact'
<1>1. /\ id \in Files /\ (p # Background => p \in Dones(id))
      /\ (p = Background => bg.entry = id) /\ count \in [Files -> Nat]
  BY DoneCounted DEF CountInv, TypeOK
<1>2. SUFFICES ASSUME NEW f \in Files
      PROVE  count'[f] = Cardinality(Unlogs(f)') + Cardinality(Dones(f)')
                         + Cardinality(Asked(f)') + Behind(f)'
  BY DEF Exact
<1>3. Unlogs(f)' = Unlogs(f) /\ Asked(f)' = Asked(f)
  BY DEF Unlogs, Asked
<1>4. Dones(f)' = IF f = id /\ p # Background THEN Dones(f) \ {p} ELSE Dones(f)
  BY <1>1 DEF Dones, OwesDone, CountInv, Shapes, TrxShape, SessionShape, ResetterShape, Leading
<1>5. Behind(f)' = IF f = id /\ p = Background THEN Behind(f) - 1 ELSE Behind(f)
  <2>1. Background \in Thread
    BY DEF Thread
  <2> QED BY <1>1, <2>1 DEF Behind
<1>6. Cardinality(Dones(f)') = IF f = id /\ p # Background THEN Cardinality(Dones(f)) - 1
                               ELSE Cardinality(Dones(f))
  BY <1>1, <1>4, OwedCounts, FS_RemoveElement
<1>7. count'[f] = IF f = id THEN count[f] - 1 ELSE count[f]
  BY <1>1
<1>8. /\ Cardinality(Unlogs(f)) \in Nat /\ Cardinality(Dones(f)) \in Nat
      /\ Cardinality(Asked(f)) \in Nat /\ Behind(f) \in Nat
      /\ count[f] = Cardinality(Unlogs(f)) + Cardinality(Dones(f)) + Cardinality(Asked(f))
                    + Behind(f)
  BY OwedCounts DEF CountInv, Exact
<1>9. \A a, b, c, d \in Nat :
        /\ a + b + c + d - 1 = a + (b - 1) + c + d
        /\ a + b + c + d - 1 = a + b + c + (d - 1)
  OBVIOUS
<1>10. CASE f # id
  BY <1>3, <1>5, <1>6, <1>7, <1>8, <1>10
<1>11. CASE f = id /\ p # Background
  BY <1>3, <1>5, <1>6, <1>7, <1>8, <1>9, <1>11
<1>12. CASE f = id /\ p = Background
  BY <1>3, <1>5, <1>6, <1>7, <1>8, <1>9, <1>12
<1> QED BY <1>10, <1>11, <1>12

\* The count drops and no checkpoint is due.
LEMMA MarkXidDoneReturns ==
  ASSUME CountInv, server = "up", NEW p \in Thread, MarkXidDone(p), Return(p)
  PROVE  CountInv'
<1>1. th[p].pc = "done"
  BY DEF MarkXidDone
<1>2. /\ xids' = xids /\ ckpt' = ckpt /\ index' = index /\ engine' = engine /\ cur' = cur
      /\ oldest' = oldest /\ logLock' = logLock /\ syncLock' = syncLock
      /\ requests' = requests /\ queue' = queue /\ server' = server /\ left' = left
  BY DEF MarkXidDone, disk, locks
<1>3. /\ th' \in [Thread -> ThreadState]
      /\ \A q \in Thread : q # p => th'[q] = th[q]
      /\ th'[p].id = None /\ th'[p].group = {} /\ th'[p].rotated = FALSE
      /\ p # Background => th'[p].pc = th[p].ret /\ bg' = bg
      /\ p = Background => /\ th'[p].pc = IF bg.next = None THEN "wait" ELSE "count"
                           /\ bg'.entry = bg.next /\ bg'.next = None
      /\ bg' \in [entry: FileOrNone, next: FileOrNone, again: Nat] /\ bg'.again = 0
      /\ Queued' = Queued /\ Grabbed' = Grabbed /\ InQueue' = InQueue
  BY <1>1, <1>2, Returns
<1>4. /\ Trx \subseteq Thread /\ Session \subseteq Thread
      /\ Background \in Thread /\ Resetter \in Thread
      /\ Background \notin Trx \union Session
      /\ Resetter \notin Trx \union Session \union {Background}
      /\ Trx \intersect Session = {} /\ None \notin Files
  BY ThreadAssumption, FilesNat DEF Thread
<1>5. /\ th[p].id \in Files /\ count \in [Files -> Nat] /\ count[th[p].id] > 0
      /\ count' = [count EXCEPT ![th[p].id] = @ - 1] /\ count' \in [Files -> Nat]
      /\ \A f \in Files : count[f] = 0 => count'[f] = 0
  <2>1. th[p].id \in Files /\ count[th[p].id] > 0 /\ count \in [Files -> Nat]
    BY DoneCounted DEF MarkXidDone, CountInv, TypeOK
  <2>2. count' = [count EXCEPT ![th[p].id] = @ - 1]
    BY DEF MarkXidDone
  <2> QED BY <2>1, <2>2
<1>6. TypeOK'
  BY <1>1, <1>2, <1>3, <1>4, <1>5 DEF CountInv, TypeOK
<1>7. TrxShape'
  BY <1>1, <1>2, <1>3, <1>4, <1>5 DEF CountInv, Shapes, TrxShape, Leading, Thread
<1>8. SessionShape'
  BY <1>1, <1>2, <1>3, <1>4, <1>5 DEF CountInv, Shapes, SessionShape, Leading, Thread
<1>9. BackgroundShape' /\ ResetterShape' /\ AskShape'
  <2>1. bg.next \in FileOrNone
    BY DEF CountInv, TypeOK
  <2>2. BackgroundShape'
    BY <1>1, <1>2, <1>3, <1>4, <1>5, <2>1 DEF CountInv, Shapes, BackgroundShape, FileOrNone
  <2>3. ResetterShape'
    BY <1>1, <1>2, <1>3, <1>4, <1>5 DEF CountInv, Shapes, ResetterShape
  <2>4. AskShape'
    BY <1>1, <1>2, <1>3, <1>4, <1>5 DEF CountInv, Shapes, AskShape, TrxShape, SessionShape, ResetterShape, Thread
  <2> QED BY <2>2, <2>3, <2>4
<1>10. LocksHeld'
  <2>1. p # Resetter => th'[p].pc \in {"wait", "count", "purge", "end"}
    BY <1>1, <1>2, <1>3, <1>4, <1>5 DEF CountInv, Shapes, TrxShape, SessionShape, Thread
  <2>2. p = Resetter => th'[p].pc = "resetidle"
    BY <1>1, <1>2, <1>3, <1>4, <1>5 DEF CountInv, Shapes, ResetterShape
  <2> QED BY <1>1, <1>2, <1>3, <1>4, <1>5, <2>1, <2>2 DEF CountInv, LocksHeld, ResetAsked
<1>11. GroupsWait'
  BY <1>1, <1>2, <1>3, <1>4, <1>5, KeepGroups DEF CountInv, Shapes, TrxShape, Leading, Thread
<1>12. QuietWhenDown'
  BY <1>1, <1>2, <1>3, <1>4, <1>5 DEF QuietWhenDown
<1>13. QueueShape'
  BY <1>1, <1>2, <1>3, <1>4, <1>5 DEF CountInv, QueueShape, Chain, InQueue
<1>14. RequestsOnce'
  <2>1. \A q \in Thread : Asks(q)' => Asks(q) /\ q # p
    BY <1>1, <1>2, <1>3, <1>4, <1>5 DEF Asks, CountInv, Shapes, TrxShape, SessionShape, ResetterShape, Thread
  <2> QED BY <1>1, <1>2, <1>3, <1>4, <1>5, <2>1 DEF CountInv, RequestsOnce
<1>15. RequestsPast'
  <2>1. \A q \in Thread : ~(Asks(q)' /\ q = p)
    BY <1>1, <1>2, <1>3, <1>4, <1>5 DEF Asks, CountInv, Shapes, TrxShape, SessionShape, ResetterShape, Thread
  <2>2. \A f \in Files : AskedFor(f)' => AskedFor(f)
    BY <1>1, <1>2, <1>3, <1>4, <1>5, <2>1 DEF AskedFor, Asks
  <2>3. ResetAsked' <=> ResetAsked
    BY <1>1, <1>2, <1>3, <1>4, <1>5 DEF ResetAsked, CountInv, Shapes, ResetterShape
  <2> QED BY <1>1, <1>2, <1>3, <1>4, <1>5, <2>2, <2>3 DEF CountInv, RequestsPast
<1>16. FilesInOrder' /\ FilesLeft'
  <2>1. \A q \in Thread : th'[q].pc = "link" <=> th[q].pc = "link"
    BY <1>1, <1>2, <1>3, <1>4, <1>5 DEF CountInv, Shapes, TrxShape, SessionShape, ResetterShape, Thread
  <2>2. \A q \in Thread : th'[q].pc = "link" => th'[q].id = th[q].id
    BY <1>1, <1>2, <1>3, <1>4, <1>5, <2>1
  <2>3. ResetPending' <=> ResetPending
    BY <1>1, <1>2, <1>3, <1>4, <1>5 DEF ResetPending, CountInv, Shapes, ResetterShape
  <2> QED BY <1>1, <1>2, <1>3, <1>4, <1>5, <2>1, <2>2, <2>3 DEF CountInv, FilesInOrder, FilesLeft, LastFile
<1>17. CheckpointsSafe'
  <2>1. \A q \in Thread : th'[q].pc = "link" <=> th[q].pc = "link"
    BY <1>1, <1>2, <1>3, <1>4, <1>5 DEF CountInv, Shapes, TrxShape, SessionShape, ResetterShape, Thread
  <2>2. ScanFrom' = ScanFrom /\ LastFile' = LastFile
    BY <1>1, <1>2, <1>3, <1>4, <1>5 DEF ScanFrom, LastFile
  <2>3. oldest .. cur \subseteq Files
    <3>1. oldest \in Nat /\ cur \in Files /\ 1 <= oldest
      BY FilesNat DEF CountInv, TypeOK, Files
    <3> QED BY <3>1, FilesNat
  <2> QED BY <1>1, <1>2, <1>3, <1>4, <1>5, <2>1, <2>2, <2>3 DEF CountInv, CheckpointsSafe
<1>18. LoggedOnce' /\ BusyLogged' /\ LoggedPrepared'
  BY <1>1, <1>2, <1>3, <1>4, <1>5 DEF CountInv, LoggedOnce, BusyLogged, LoggedPrepared, Shapes, TrxShape
<1>19. Exact'
  <2>1. \A f \in Files : ~OwesDone(p, f)'
    BY <1>1, <1>2, <1>3, <1>4, <1>5 DEF OwesDone, CountInv, Shapes, TrxShape, SessionShape, ResetterShape, Thread
  <2>2. \A t \in Trx : OwesUnlog(t)' <=> OwesUnlog(t)
    BY <1>1, <1>2, <1>3, <1>4, <1>5 DEF OwesUnlog, CountInv, Shapes, TrxShape
  <2> QED BY <1>1, <1>2, <1>3, <1>4, <1>5, <2>1, <2>2, DoneExact
<1> QED
  BY <1>6, <1>7, <1>8, <1>9, <1>10, <1>11, <1>12,
     <1>13, <1>14, <1>15, <1>16, <1>17, <1>18, <1>19 DEF CountInv, Shapes

\* The count drops and a checkpoint is due.
LEMMA MarkXidDoneGoesOn ==
  ASSUME CountInv, server = "up", NEW p \in Thread, MarkXidDone(p),
         ~ResetPending, th' = Goto(p, "checkpoint"), bg' = bg
  PROVE  CountInv'
<1>1. th[p].pc = "done" /\ p # Resetter /\ ~th[p].rotated
  BY DoneCounted DEF MarkXidDone, ResetPending
<1>2. /\ xids' = xids /\ ckpt' = ckpt /\ index' = index /\ engine' = engine /\ cur' = cur
      /\ oldest' = oldest /\ logLock' = logLock /\ syncLock' = syncLock
      /\ requests' = requests /\ queue' = queue /\ bg' = bg /\ server' = server
      /\ left' = left
  BY DEF MarkXidDone, disk, locks
<1>3. /\ th' \in [Thread -> ThreadState]
      /\ \A q \in Thread : q # p => th'[q] = th[q]
      /\ th'[p].pc = "checkpoint" /\ th'[p].id = th[p].id /\ th'[p].todo = th[p].todo
      /\ th'[p].ret = th[p].ret /\ th'[p].group = th[p].group
      /\ th'[p].rotated = th[p].rotated
  BY MovesTo DEF CountInv, PC
<1>4. /\ Trx \subseteq Thread /\ Session \subseteq Thread
      /\ Background \in Thread /\ Resetter \in Thread
      /\ Background \notin Trx \union Session
      /\ Resetter \notin Trx \union Session \union {Background}
      /\ Trx \intersect Session = {} /\ None \notin Files
  BY ThreadAssumption, FilesNat DEF Thread
<1>5. /\ th[p].id \in Files /\ count \in [Files -> Nat] /\ count[th[p].id] > 0
      /\ count' = [count EXCEPT ![th[p].id] = @ - 1] /\ count' \in [Files -> Nat]
      /\ \A f \in Files : count[f] = 0 => count'[f] = 0
  <2>1. th[p].id \in Files /\ count[th[p].id] > 0 /\ count \in [Files -> Nat]
    BY DoneCounted DEF MarkXidDone, CountInv, TypeOK
  <2>2. count' = [count EXCEPT ![th[p].id] = @ - 1]
    BY DEF MarkXidDone
  <2> QED BY <2>1, <2>2
<1>6. Queued' = Queued /\ Grabbed' = Grabbed /\ InQueue' = InQueue
  BY <1>1, <1>2, <1>3, <1>4 DEF InQueue, Queued, Grabbed, Chain
<1>7. TypeOK'
  BY <1>1, <1>2, <1>3, <1>4, <1>5, <1>6 DEF CountInv, TypeOK
<1>8. TrxShape'
  BY <1>1, <1>2, <1>3, <1>4, <1>5, <1>6 DEF CountInv, Shapes, TrxShape, Leading, Thread
<1>9. SessionShape'
  BY <1>1, <1>2, <1>3, <1>4, <1>5, <1>6 DEF CountInv, Shapes, SessionShape, Leading, Thread
<1>10. BackgroundShape' /\ ResetterShape' /\ AskShape'
  BY <1>1, <1>2, <1>3, <1>4, <1>5, <1>6 DEF CountInv, Shapes, BackgroundShape, ResetterShape, AskShape, Thread
<1>11. LocksHeld'
  BY <1>1, <1>2, <1>3, <1>4, <1>5, <1>6 DEF CountInv, LocksHeld, ResetAsked, Thread
<1>12. GroupsWait'
  BY <1>1, <1>2, <1>3, <1>4, <1>5, <1>6, KeepGroups DEF CountInv, Leading, Thread
<1>13. QuietWhenDown'
  BY <1>1, <1>2, <1>3, <1>4, <1>5, <1>6 DEF QuietWhenDown
<1>14. QueueShape'
  BY <1>1, <1>2, <1>3, <1>4, <1>5, <1>6 DEF CountInv, QueueShape, InQueue, Grabbed, Queued, Chain, Thread
<1>15. RequestsOnce'
  BY <1>1, <1>2, <1>3, <1>4, <1>5, <1>6 DEF CountInv, RequestsOnce, Asks, Thread
<1>16. RequestsPast'
  BY <1>1, <1>2, <1>3, <1>4, <1>5, <1>6 DEF CountInv, RequestsPast, AskedFor, Asks, ResetAsked, Thread
<1>17. FilesInOrder' /\ FilesLeft'
  BY <1>1, <1>2, <1>3, <1>4, <1>5, <1>6 DEF CountInv, FilesInOrder, FilesLeft, ResetPending, LastFile, Thread
<1>18. CheckpointsSafe'
  <2>1. \A q \in Thread : th'[q].pc = "link" <=> th[q].pc = "link"
    BY <1>1, <1>2, <1>3, <1>4, <1>5, <1>6 DEF CountInv, Shapes, TrxShape, SessionShape, ResetterShape, Thread
  <2>2. ScanFrom' = ScanFrom /\ LastFile' = LastFile
    BY <1>1, <1>2, <1>3, <1>4, <1>5, <1>6 DEF ScanFrom, LastFile
  <2>3. oldest .. cur \subseteq Files
    <3>1. oldest \in Nat /\ cur \in Files /\ 1 <= oldest
      BY FilesNat DEF CountInv, TypeOK, Files
    <3> QED BY <3>1, FilesNat
  <2> QED BY <1>1, <1>2, <1>3, <1>4, <1>5, <1>6, <2>1, <2>2, <2>3 DEF CountInv, CheckpointsSafe
<1>19. LoggedOnce' /\ BusyLogged' /\ LoggedPrepared'
  BY <1>1, <1>2, <1>3, <1>4, <1>5, <1>6 DEF CountInv, LoggedOnce, BusyLogged, LoggedPrepared, Thread
<1>20. Exact'
  <2>1. \A f \in Files : ~OwesDone(p, f)'
    BY <1>1, <1>2, <1>3, <1>4, <1>5, <1>6 DEF OwesDone, CountInv, Shapes, TrxShape, SessionShape, ResetterShape, Thread
  <2>2. \A t \in Trx : OwesUnlog(t)' <=> OwesUnlog(t)
    BY <1>1, <1>2, <1>3, <1>4, <1>5, <1>6 DEF OwesUnlog, CountInv, Shapes, TrxShape
  <2> QED BY <1>1, <1>2, <1>3, <1>4, <1>5, <1>6, <2>1, <2>2, DoneExact
<1> QED
  BY <1>7, <1>8, <1>9, <1>10, <1>11, <1>12, <1>13,
     <1>14, <1>15, <1>16, <1>17, <1>18, <1>19, <1>20 DEF CountInv, Shapes

\* mark_xid_done(), whether it leads to a checkpoint or not.
LEMMA MarkXidDoneCounts ==
  ASSUME CountInv, server = "up", NEW p \in Thread, MarkXidDone(p)
  PROVE  CountInv'
<1>1. \/ Return(p)
      \/ ~ResetPending /\ th' = Goto(p, "checkpoint") /\ bg' = bg
  BY DEF MarkXidDone
<1> QED BY <1>1, MarkXidDoneReturns, MarkXidDoneGoesOn

\* A thread that counts a checkpoint request to come will call mark_xid_done().
LEMMA RequestExact ==
  ASSUME CountInv, NEW p \in Thread, p # Background, NEW id \in Files,
         count' = [count EXCEPT ![id] = @ + 1], xids' = xids, requests' = requests,
         \A q \in Thread : q # p => th'[q] = th[q],
         \A f \in Files : ~OwesDone(p, f) /\ (OwesDone(p, f)' <=> f = id),
         \A t \in Trx : OwesUnlog(t)' <=> OwesUnlog(t),
         InQueue' = InQueue, bg' = bg
  PROVE  Exact'
<1>1. count \in [Files -> Nat] /\ Background \in Thread
  BY DEF CountInv, TypeOK, Thread
<1>2. SUFFICES ASSUME NEW f \in Files
      PROVE  count'[f] = Cardinality(Unlogs(f)') + Cardinality(Dones(f)')
                         + Cardinality(Asked(f)') + Behind(f)'
  BY DEF Exact
<1>3. Unlogs(f)' = Unlogs(f) /\ Asked(f)' = Asked(f) /\ Behind(f)' = Behind(f)
  BY <1>1 DEF Unlogs, Asked, Behind
<1>4. /\ p \notin Dones(f)
      /\ Dones(f)' = IF f = id THEN Dones(f) \union {p} ELSE Dones(f)
  BY DEF Dones, OwesDone
<1>5. Cardinality(Dones(f)') = IF f = id THEN Cardinality(Dones(f)) + 1
                               ELSE Cardinality(Dones(f))
  BY <1>4, OwedCounts, FS_AddElement
<1>6. count'[f] = IF f = id THEN count[f] + 1 ELSE count[f]
  BY <1>1
<1>7. /\ Cardinality(Unlogs(f)) \in Nat /\ Cardinality(Dones(f)) \in Nat
      /\ Cardinality(Asked(f)) \in Nat /\ Behind(f) \in Nat
      /\ count[f] = Cardinality(Unlogs(f)) + Cardinality(Dones(f)) + Cardinality(Asked(f))
                    + Behind(f)
  BY OwedCounts DEF CountInv, Exact
<1>8. \A a, b, c, d \in Nat : a + b + c + d + 1 = a + (b + 1) + c + d
  OBVIOUS
<1>9. CASE f # id
  BY <1>3, <1>5, <1>6, <1>7, <1>9
<1>10. CASE f = id
  BY <1>3, <1>5, <1>6, <1>7, <1>8, <1>10
<1> QED BY <1>9, <1>10

\* A rotation counts its checkpoint request and creates a file.
LEMMA RotateCounts ==
  ASSUME CountInv, server = "up", NEW p \in Trx \union Session, NEW after, Rotate(p, after),
         \/ p \in Trx /\ th[p].pc = "log" /\ ~th[p].rotated /\ logLock = p /\ after = "log"
         \/ p \in Session /\ th[p].pc = "idle" /\ logLock = NoThread /\ after \in Rotation
  PROVE  /\ CountInv'
         /\ ScanFrom' \in oldest .. cur /\ ScanFrom <= oldest
         /\ \A i \in oldest .. cur : i < ScanFrom' => count'[i] = 0
<1>1. /\ Trx \subseteq Thread /\ Session \subseteq Thread
      /\ Background \in Thread /\ Resetter \in Thread
      /\ Background \notin Trx \union Session
      /\ Resetter \notin Trx \union Session \union {Background}
      /\ Trx \intersect Session = {} /\ None \notin Files
  BY ThreadAssumption, FilesNat DEF Thread
<1>2. /\ left["rotate"] > 0 /\ left \in [Bounded -> Nat] /\ Budget \in [Bounded -> Nat]
      /\ left' \in [Bounded -> Nat] /\ left'["rotate"] = left["rotate"] - 1
      /\ \A b \in Bounded : b # "rotate" => left'[b] = left[b]
      /\ {"rotate", "crash", "reset"} \subseteq Bounded
  BY EngineAssumption DEF Rotate, Spend, Bounded, CountInv, TypeOK
<1>3. /\ xids' = xids /\ engine' = engine /\ cur' = cur /\ oldest' = oldest
      /\ syncLock' = syncLock /\ requests' = requests /\ queue' = queue /\ bg' = bg
      /\ server' = server
      /\ logLock' = p
  BY DEF Rotate, notices
<1>4. /\ th' \in [Thread -> ThreadState]
      /\ \A q \in Thread : q # p => th'[q] = th[q]
      /\ th'[p].pc = "link" /\ th'[p].id = cur /\ th'[p].ret = after
      /\ th'[p].group = th[p].group /\ th'[p].rotated = TRUE
  <2> DEFINE s == [th[p] EXCEPT !.pc = "link", !.id = cur, !.ret = after, !.rotated = TRUE]
  <2>1. th[p] \in ThreadState /\ after \in PC /\ cur \in FileOrNone /\ "link" \in PC
    BY <1>1, EngineAssumption DEF CountInv, TypeOK, PC, FileOrNone
  <2>2. /\ s \in ThreadState /\ s.pc = "link" /\ s.id = cur /\ s.ret = after
        /\ s.group = th[p].group /\ s.rotated = TRUE
    BY <2>1 DEF ThreadState
  <2>3. th' = [th EXCEPT ![p] = s]
    BY DEF Rotate
  <2> HIDE DEF s
  <2>4. /\ th' \in [Thread -> ThreadState] /\ th'[p] = s
        /\ \A q \in Thread : q # p => th'[q] = th[q]
    BY <1>1, <2>2, <2>3, Moves DEF CountInv
  <2> QED BY <2>2, <2>4
<1>5. /\ \A q \in Thread : q # p => th[q].pc \notin {"link", "log", "event"}
      /\ \A q \in Thread : th[q].pc # "link"
      /\ ~ResetAsked /\ th[Resetter].pc # "resetorder"
  BY <1>1, ThreadAssumption DEF CountInv, LocksHeld
<1>6. Queued' = Queued /\ Grabbed' = Grabbed /\ InQueue' = InQueue
  BY <1>1, <1>3, <1>4 DEF InQueue, Queued, Grabbed, Chain
<1>7. /\ cur \in Files /\ cur \in Nat /\ oldest \in Nat /\ LastFile = cur
      /\ count \in [Files -> Nat] /\ oldest <= cur /\ cur + 1 \in Files
      /\ oldest .. cur \subseteq Files /\ index \subseteq Files /\ cur \in index
  <2>1. /\ cur \in Files /\ cur \in Nat /\ oldest \in Nat /\ LastFile = cur /\ 1 <= oldest
        /\ count \in [Files -> Nat] /\ oldest <= cur /\ index \in SUBSET Files /\ index # {}
    BY <1>5, FilesNat DEF CountInv, TypeOK, FilesInOrder, Files
  <2>2. cur + left["rotate"] + left["crash"] + left["reset"] + (IF ResetPending THEN 1 ELSE 0)
        <= 1 + Budget["rotate"] + Budget["crash"] + Budget["reset"]
    BY <1>2, <2>1 DEF CountInv, FilesLeft
  <2>3. cur + 1 \in Files
    BY <1>2, <2>1, <2>2 DEF Files
  <2>4. oldest .. cur \subseteq Files
    BY <2>1, FilesNat
  <2>5. cur \in index
    BY <2>1, MaxFile DEF LastFile
  <2> QED BY <2>1, <2>3, <2>4, <2>5
<1>8. /\ count' = [count EXCEPT ![cur] = @ + 1] /\ count' \in [Files -> Nat]
      /\ count'[cur] # 0 /\ index' = index \union {cur + 1} /\ index' \subseteq Files
      /\ LastFile' = cur + 1
  <2>1. count' = [count EXCEPT ![cur] = @ + 1] /\ index' = index \union {cur + 1}
    BY DEF Rotate
  <2>2. count' \in [Files -> Nat] /\ count'[cur] # 0
    BY <1>7, <2>1
  <2>3. \A y \in index : y <= cur /\ y \in Nat
    BY <1>7, MaxFile, FilesNat DEF LastFile
  <2>4. index' \in SUBSET Files /\ cur + 1 \in index' /\ \A y \in index' : y <= cur + 1
    BY <1>7, <2>1, <2>3
  <2>5. Max(index') = cur + 1
    BY <2>4, MaxIs
  <2> QED BY <2>1, <2>2, <2>4, <2>5 DEF LastFile
<1>9. /\ ckpt' \in [Files -> FileOrNone] /\ ScanFrom' \in oldest .. cur
      /\ \A i \in oldest .. cur : i < ScanFrom' => count'[i] = 0
  <2> DEFINE S == {i \in oldest .. cur : count'[i] # 0}
  <2>1. S \in SUBSET Nat /\ S # {} /\ S \subseteq oldest .. cur
    BY <1>7, <1>8
  <2>2. ckpt' = [ckpt EXCEPT ![cur + 1] = Min(S)] /\ ckpt \in [Files -> FileOrNone]
    BY DEF Rotate, CountInv, TypeOK
  <2>3. Min(S) \in S /\ \A i \in S : Min(S) <= i
    <3> HIDE DEF S
    <3> QED BY <2>1, MinNat
  <2>4. Min(S) \in oldest .. cur /\ Min(S) \in FileOrNone /\ Min(S) \in Nat
    BY <1>7, <2>1, <2>3 DEF FileOrNone
  <2>5. ckpt' \in [Files -> FileOrNone] /\ ScanFrom' = Min(S)
    BY <1>7, <1>8, <2>2, <2>4 DEF ScanFrom
  <2>6. \A i \in oldest .. cur : i < Min(S) => i \notin S
    BY <1>7, <2>3, <2>4
  <2> QED BY <2>4, <2>5, <2>6
<1>10. TypeOK'
  BY <1>1, <1>2, <1>3, <1>4, <1>8, <1>9 DEF CountInv, TypeOK
<1>11. TrxShape'
  BY <1>1, <1>4 DEF CountInv, Shapes, TrxShape, Leading
<1>12. SessionShape'
  BY <1>1, <1>4 DEF CountInv, Shapes, SessionShape, Leading
<1>13. BackgroundShape' /\ ResetterShape' /\ AskShape'
  <2>1. BackgroundShape' /\ ResetterShape'
    BY <1>1, <1>3, <1>4 DEF CountInv, Shapes, BackgroundShape, ResetterShape
  <2>2. AskShape'
    BY <1>1, <1>3, <1>4, <1>7 DEF CountInv, Shapes, AskShape
  <2> QED BY <2>1, <2>2
<1>14. LocksHeld'
  BY <1>1, <1>3, <1>4, <1>5 DEF CountInv, LocksHeld, ResetAsked
<1>15. GroupsWait'
  <2>1. \A t \in Trx : th'[t].pc \in Leading => th[t].pc \in Leading /\ th'[t].group = th[t].group
    BY <1>1, <1>4 DEF Leading
  <2>2. \A t \in Trx : th[t].pc = "logged" => th'[t].pc = "logged"
    BY <1>1, <1>4
  <2> QED BY <2>1, <2>2, KeepGroups DEF CountInv
<1>16. QuietWhenDown'
  BY <1>1, <1>2, <1>3, <1>4, <1>5, <1>6, <1>7, <1>8, <1>9 DEF QuietWhenDown
<1>17. QueueShape'
  BY <1>1, <1>2, <1>3, <1>4, <1>5, <1>6, <1>7, <1>8, <1>9 DEF CountInv, QueueShape, Chain, InQueue
<1>18. RequestsOnce'
  <2>1. ~AskedFor(cur)
    BY <1>5, <1>7 DEF CountInv, RequestsPast
  <2>2. /\ \A q \in Thread : Asks(q) => th[q].id # cur
        /\ \A r \in requests : r.id # cur
        /\ cur \notin InQueue
    BY <2>1 DEF AskedFor
  <2>3. \A q \in Thread : q # p => (Asks(q)' <=> Asks(q)) /\ th'[q].id = th[q].id
    BY <1>4 DEF Asks
  <2> QED BY <1>1, <1>3, <1>4, <1>6, <2>2, <2>3 DEF CountInv, RequestsOnce
<1>19. RequestsPast'
  <2>1. \A q \in Thread : q # p => (Asks(q)' <=> Asks(q)) /\ th'[q].id = th[q].id
    BY <1>4 DEF Asks
  <2>2. \A f \in Files : AskedFor(f)' => AskedFor(f) \/ f = cur
    BY <1>3, <1>4, <1>6, <2>1 DEF AskedFor
  <2>3. \E q \in Thread : th'[q].pc = "link"
    BY <1>1, <1>4
  <2> QED BY <1>3, <2>2, <2>3, <1>5 DEF CountInv, RequestsPast
<1>20. FilesInOrder' /\ FilesLeft'
  <2>1. FilesInOrder'
    BY <1>1, <1>3, <1>4, <1>5, <1>7, <1>8 DEF FilesInOrder
  <2>2. ResetPending' <=> ResetPending
    BY <1>1, <1>4 DEF ResetPending
  <2>3. FilesLeft'
    BY <1>2, <1>3, <1>7, <1>8, <2>2 DEF CountInv, FilesLeft
  <2> QED BY <2>1, <2>3
<1>21. CheckpointsSafe'
  <2>1. ScanFrom' \in Files /\ ScanFrom' <= LastFile' /\ ScanFrom' <= cur
    BY <1>7, <1>8, <1>9
  <2>2. th'[p].pc = "link" /\ p \in Thread
    BY <1>1, <1>4
  <2> QED BY <1>3, <1>9, <2>1, <2>2 DEF CheckpointsSafe
<1>22. LoggedOnce' /\ BusyLogged' /\ LoggedPrepared'
  BY <1>1, <1>3, <1>4 DEF CountInv, LoggedOnce, BusyLogged, LoggedPrepared
<1>23. Exact'
  <2>1. \A t \in Trx : OwesUnlog(t)' <=> OwesUnlog(t)
    BY <1>1, <1>4 DEF OwesUnlog
  <2>2. \A f \in Files : ~OwesDone(p, f) /\ (OwesDone(p, f)' <=> f = cur)
    BY <1>1, <1>4 DEF OwesDone, CountInv, Shapes, SessionShape, Leading
  <2>3. p \in Thread /\ p # Background
    BY <1>1
  <2> QED BY <1>3, <1>4, <1>6, <1>7, <1>8, <2>1, <2>2, <2>3, RequestExact
<1> QED
  BY <1>10, <1>11, <1>12, <1>13, <1>14, <1>15, <1>16,
     <1>17, <1>18, <1>19, <1>20, <1>21, <1>22, <1>23, <1>3, <1>5, <1>9 DEF CountInv, Shapes, CheckpointsSafe

\* The new file becomes the current one.
LEMMA RotateLinkCounts ==
  ASSUME CountInv, server = "up", NEW p \in Thread, RotateLink(p)
  PROVE  CountInv'
<1>1. /\ Trx \subseteq Thread /\ Session \subseteq Thread
      /\ Background \in Thread /\ Resetter \in Thread
      /\ Background \notin Trx \union Session
      /\ Resetter \notin Trx \union Session \union {Background}
      /\ Trx \intersect Session = {} /\ None \notin Files
  BY ThreadAssumption, FilesNat DEF Thread
<1>2. /\ th[p].pc = "link" /\ logLock = p /\ th[p].id = cur /\ th[p].rotated
      /\ p \in Trx \union Session /\ (p \in Trx => th[p].ret = "log")
  BY <1>1 DEF RotateLink, CountInv, LocksHeld, FilesInOrder, Shapes, TrxShape, SessionShape,
         BackgroundShape, ResetterShape, Leading, Thread
<1>3. /\ xids' = xids /\ ckpt' = ckpt /\ index' = index /\ engine' = engine
      /\ count' = count /\ syncLock' = syncLock /\ requests' = requests /\ queue' = queue
      /\ bg' = bg /\ server' = server /\ left' = left
      /\ cur' = cur + 1
  BY DEF RotateLink, disk, notices
<1>4. /\ th' \in [Thread -> ThreadState]
      /\ \A q \in Thread : q # p => th'[q] = th[q]
      /\ th'[p].id = cur /\ (p \in Session => th'[p].group = {})
      /\ \/ /\ th'[p].pc = "log" /\ th'[p].ret = th[p].ret /\ th'[p].group = th[p].group
            /\ th'[p].rotated /\ logLock' = p
         \/ /\ th'[p].pc = (IF Checkpoint = {} THEN "done" ELSE "request") /\ th'[p].ret = "purge"
            /\ p \in Session /\ th'[p].rotated = FALSE /\ th'[p].todo = Checkpoint
            /\ logLock' = NoThread
  <2>1. CASE th[p].ret = "log"
    <3>1. th' = Goto(p, "log") /\ logLock' = p
      BY <2>1 DEF RotateLink
    <3> QED BY <1>2, <3>1, MovesTo DEF CountInv, PC, Shapes, SessionShape
  <2>2. CASE th[p].ret # "log"
    <3>1. th' = [th EXCEPT ![p] = Asking(th[p].id, "purge")] /\ logLock' = NoThread
      BY <2>2 DEF RotateLink
    <3>2. th[p].id \in FileOrNone /\ "purge" \in PC
      BY <1>2 DEF CountInv, TypeOK, FileOrNone, PC
    <3>3. /\ th' \in [Thread -> ThreadState] /\ th'[p] = Asking(th[p].id, "purge")
          /\ \A q \in Thread : q # p => th'[q] = th[q]
      BY <3>1, <3>2, AskingFields, Moves DEF CountInv
    <3>4. /\ th'[p].pc = (IF Checkpoint = {} THEN "done" ELSE "request")
          /\ th'[p].id = th[p].id /\ th'[p].ret = "purge" /\ th'[p].group = {}
          /\ th'[p].todo = Checkpoint /\ th'[p].rotated = FALSE
      BY <3>3 DEF Asking, At
    <3> QED BY <1>2, <2>2, <3>1, <3>3, <3>4
  <2> QED BY <2>1, <2>2
<1>5. /\ \A q \in Thread : q # p => th[q].pc \notin {"link", "log", "event"}
      /\ ~ResetAsked /\ th[Resetter].pc # "resetorder"
  BY <1>1, <1>2 DEF CountInv, LocksHeld
<1>6. Queued' = Queued /\ Grabbed' = Grabbed /\ InQueue' = InQueue
  BY <1>1, <1>2, <1>3, <1>4 DEF InQueue, Queued, Grabbed, Chain
<1>7. /\ LastFile = cur + 1 /\ LastFile' = LastFile /\ ScanFrom' = ScanFrom
      /\ cur' \in Files /\ cur \in Nat /\ oldest' \in Files /\ oldest' <= cur'
      /\ ScanFrom <= oldest'
  <2> DEFINE S == {i \in oldest .. cur : count[i] # 0} \union {cur + 1}
  <2>1. LastFile' = LastFile /\ ScanFrom' = ScanFrom /\ LastFile = cur + 1
    BY <1>2, <1>3 DEF LastFile, ScanFrom, CountInv, FilesInOrder
  <2>2. LastFile \in Files
    BY MaxFile DEF LastFile, CountInv, TypeOK, FilesInOrder
  <2>3. oldest \in Nat /\ cur \in Nat /\ 1 <= oldest /\ oldest <= cur /\ ScanFrom \in Nat
    BY FilesNat DEF CountInv, TypeOK, FilesInOrder, Files, CheckpointsSafe
  <2>4. S \in SUBSET Nat /\ S # {} /\ \A i \in S : 1 <= i /\ i <= cur + 1
    BY <2>3
  <2>5. \A i \in S : ScanFrom <= i
    <3>1. ScanFrom <= cur /\ \A i \in oldest .. cur : i < ScanFrom => count[i] = 0
      BY <1>2 DEF CountInv, CheckpointsSafe
    <3> QED BY <2>3, <3>1
  <2>6. oldest' = Min(S)
    BY DEF RotateLink, FirstNeeded
  <2> HIDE DEF S
  <2>7. oldest' \in S
    BY <2>4, <2>6, MinNat
  <2> QED BY <1>3, <2>1, <2>2, <2>3, <2>4, <2>5, <2>7, FilesNat
<1>8. \A q \in Thread : th'[q].pc # "link"
  BY <1>1, <1>4, <1>5
<1>9. TypeOK'
  <2>1. logLock' \in Thread \union {NoThread}
    BY <1>4
  <2> QED BY <1>3, <1>4, <1>7, <2>1 DEF CountInv, TypeOK
<1>10. TrxShape'
  BY <1>1, <1>2, <1>4 DEF CountInv, Shapes, TrxShape, Leading
<1>11. SessionShape'
  BY <1>1, <1>2, <1>4 DEF CountInv, Shapes, SessionShape, Leading
<1>12. BackgroundShape' /\ ResetterShape' /\ AskShape'
  <2>1. BackgroundShape' /\ ResetterShape'
    BY <1>1, <1>2, <1>3, <1>4, <1>5 DEF CountInv, Shapes, BackgroundShape, ResetterShape, ResetAsked
  <2>2. AskShape'
    BY <1>1, <1>2, <1>3, <1>4, <1>7 DEF CountInv, Shapes, AskShape, TypeOK
  <2> QED BY <2>1, <2>2
<1>13. LocksHeld'
  BY <1>1, <1>2, <1>3, <1>4, <1>5 DEF CountInv, LocksHeld, ResetAsked
<1>14. GroupsWait'
  <2>1. \A t \in Trx : th'[t].pc \in Leading => th[t].pc \in Leading /\ th'[t].group = th[t].group
    BY <1>1, <1>2, <1>4 DEF Leading
  <2>2. \A t \in Trx : th[t].pc = "logged" => th'[t].pc = "logged"
    BY <1>1, <1>2, <1>4
  <2> QED BY <2>1, <2>2, KeepGroups DEF CountInv
<1>15. QuietWhenDown'
  BY <1>1, <1>2, <1>3, <1>4, <1>5, <1>6, <1>7, <1>8 DEF QuietWhenDown
<1>16. QueueShape'
  BY <1>1, <1>2, <1>3, <1>4, <1>5, <1>6, <1>7, <1>8 DEF CountInv, QueueShape, Chain, InQueue
<1>17. RequestsOnce'
  <2>1. \A q \in Thread : Asks(q)' => Asks(q) /\ th'[q].id = th[q].id
    BY <1>1, <1>2, <1>4 DEF Asks
  <2> QED BY <1>3, <1>6, <2>1 DEF CountInv, RequestsOnce
<1>18. RequestsPast'
  <2>1. \A q \in Thread : Asks(q)' => Asks(q) /\ th'[q].id = th[q].id
    BY <1>1, <1>2, <1>4 DEF Asks
  <2>2. \A f \in Files : AskedFor(f)' => AskedFor(f) /\ f \in Nat
    BY <1>3, <1>6, <2>1, FilesNat DEF AskedFor
  <2>3. \A f \in Files : AskedFor(f)' => f <= cur
    BY <1>7, <2>2 DEF CountInv, RequestsPast
  <2> QED BY <1>3, <1>7, <2>2, <2>3 DEF RequestsPast
<1>19. FilesInOrder' /\ FilesLeft'
  <2>1. FilesInOrder'
    BY <1>3, <1>7, <1>8 DEF CountInv, FilesInOrder
  <2>2. ResetPending' <=> ResetPending
    BY <1>1, <1>2, <1>4 DEF ResetPending
  <2>3. FilesLeft'
    BY <1>3, <1>7, <2>2 DEF CountInv, FilesLeft
  <2> QED BY <2>1, <2>3
<1>20. CheckpointsSafe'
  BY <1>3, <1>7, <1>8 DEF CountInv, CheckpointsSafe
<1>21. LoggedOnce' /\ BusyLogged' /\ LoggedPrepared'
  BY <1>1, <1>2, <1>3, <1>4 DEF CountInv, LoggedOnce, BusyLogged, LoggedPrepared
<1>22. Exact'
  <2>1. \A t \in Trx : OwesUnlog(t)' <=> OwesUnlog(t)
    BY <1>1, <1>2, <1>4 DEF OwesUnlog
  <2>2. \A q \in Thread, f \in Files : OwesDone(q, f)' <=> OwesDone(q, f)
    BY <1>1, <1>2, <1>4 DEF OwesDone
  <2>3. \A f \in Files : Unlogs(f)' = Unlogs(f) /\ Dones(f)' = Dones(f)
    BY <1>3, <2>1, <2>2 DEF Unlogs, Dones
  <2>4. \A f \in Files : Asked(f)' = Asked(f) /\ Behind(f)' = Behind(f)
    BY <1>1, <1>2, <1>3, <1>4, <1>6 DEF Asked, Behind
  <2> QED BY <1>3, <2>3, <2>4 DEF CountInv, Exact
<1> QED
  BY <1>9, <1>10, <1>11, <1>12, <1>13, <1>14, <1>15,
     <1>16, <1>17, <1>18, <1>19, <1>20, <1>21, <1>22 DEF CountInv, Shapes

\* RESET MASTER counts and asks for a checkpoint.
LEMMA ResetRequestCounts ==
  ASSUME CountInv, server = "up", ResetRequest
  PROVE  CountInv'
<1>1. /\ Trx \subseteq Thread /\ Session \subseteq Thread
      /\ Background \in Thread /\ Resetter \in Thread
      /\ Background \notin Trx \union Session
      /\ Resetter \notin Trx \union Session \union {Background}
      /\ Trx \intersect Session = {} /\ None \notin Files
  BY ThreadAssumption, FilesNat DEF Thread
<1>2. /\ th[Resetter].pc = "resetorder" /\ syncLock = NoThread /\ logLock = Resetter
      /\ count' = [count EXCEPT ![cur] = @ + 1] /\ ~th[Resetter].rotated
  BY DEF ResetRequest, CountInv, LocksHeld, Shapes, ResetterShape
<1>3. /\ xids' = xids /\ ckpt' = ckpt /\ index' = index /\ engine' = engine /\ cur' = cur
      /\ oldest' = oldest /\ logLock' = logLock /\ syncLock' = syncLock
      /\ requests' = requests /\ queue' = queue /\ bg' = bg /\ server' = server
      /\ left' = left
  BY DEF ResetRequest, disk, locks, notices
<1>4. /\ cur \in Files /\ count \in [Files -> Nat] /\ count' \in [Files -> Nat]
  BY <1>2 DEF CountInv, TypeOK
<1>5. /\ th' \in [Thread -> ThreadState]
      /\ \A q \in Thread : q # Resetter => th'[q] = th[q]
      /\ th'[Resetter].pc = (IF Checkpoint = {} THEN "done" ELSE "request")
      /\ th'[Resetter].id = cur /\ th'[Resetter].ret = "resetidle"
      /\ th'[Resetter].todo = Checkpoint /\ th'[Resetter].rotated = FALSE
  <2>1. th' = [th EXCEPT ![Resetter] = Asking(cur, "resetidle")]
    BY DEF ResetRequest
  <2>2. cur \in FileOrNone /\ "resetidle" \in PC
    BY <1>4 DEF FileOrNone, PC
  <2>3. /\ th' \in [Thread -> ThreadState] /\ th'[Resetter] = Asking(cur, "resetidle")
        /\ \A q \in Thread : q # Resetter => th'[q] = th[q]
    BY <1>1, <2>1, <2>2, AskingFields, Moves DEF CountInv
  <2> QED BY <2>3 DEF Asking, At
<1>6. /\ \A q \in Thread : th[q].pc \notin {"link", "log", "event", "sync"}
      /\ ~ResetAsked
  BY <1>1, <1>2, ThreadAssumption DEF CountInv, LocksHeld, ResetAsked
<1>7. Queued' = Queued /\ Grabbed' = Grabbed /\ InQueue' = InQueue
  BY <1>1, <1>2, <1>3, <1>5 DEF InQueue, Queued, Grabbed, Chain
<1>8. TypeOK'
  BY <1>1, <1>2, <1>3, <1>4, <1>5, <1>6, <1>7 DEF CountInv, TypeOK
<1>9. TrxShape'
  BY <1>1, <1>2, <1>3, <1>4, <1>5, <1>6, <1>7 DEF CountInv, Shapes, TrxShape, Leading, Thread
<1>10. SessionShape'
  BY <1>1, <1>2, <1>3, <1>4, <1>5, <1>6, <1>7 DEF CountInv, Shapes, SessionShape, Leading, Thread
<1>11. BackgroundShape' /\ ResetterShape' /\ AskShape'
  BY <1>1, <1>2, <1>3, <1>4, <1>5, <1>6, <1>7 DEF CountInv, Shapes, BackgroundShape, ResetterShape, AskShape, Thread
<1>12. LocksHeld'
  BY <1>1, <1>2, <1>3, <1>4, <1>5, <1>6, <1>7 DEF CountInv, LocksHeld, ResetAsked, Thread
<1>13. GroupsWait'
  BY <1>1, <1>2, <1>3, <1>4, <1>5, <1>6, <1>7, KeepGroups DEF CountInv, Leading, Thread
<1>14. QuietWhenDown'
  BY <1>1, <1>2, <1>3, <1>4, <1>5, <1>6, <1>7 DEF QuietWhenDown
<1>15. QueueShape'
  BY <1>1, <1>2, <1>3, <1>4, <1>5, <1>6, <1>7 DEF CountInv, QueueShape, Chain, InQueue
<1>16. RequestsOnce'
  <2>1. ~AskedFor(cur)
    BY <1>4, <1>6, FilesNat DEF CountInv, RequestsPast
  <2>2. /\ \A q \in Thread : Asks(q) => th[q].id # cur
        /\ \A r \in requests : r.id # cur
        /\ cur \notin InQueue
    BY <2>1 DEF AskedFor
  <2>3. \A q \in Thread : q # Resetter => (Asks(q)' <=> Asks(q)) /\ th'[q].id = th[q].id
    BY <1>5 DEF Asks
  <2> QED BY <1>1, <1>3, <1>5, <1>7, <2>2, <2>3 DEF CountInv, RequestsOnce
<1>17. RequestsPast'
  <2>1. \A q \in Thread : q # Resetter => (Asks(q)' <=> Asks(q)) /\ th'[q].id = th[q].id
    BY <1>5 DEF Asks
  <2>2. \A f \in Files : AskedFor(f)' => AskedFor(f) \/ f = cur
    BY <1>3, <1>5, <1>7, <2>1 DEF AskedFor
  <2>3. ResetAsked'
    BY <1>5 DEF ResetAsked
  <2> QED BY <1>3, <2>2, <2>3, <1>6 DEF CountInv, RequestsPast
<1>18. FilesInOrder' /\ FilesLeft'
  BY <1>1, <1>2, <1>3, <1>4, <1>5, <1>6, <1>7 DEF CountInv, FilesInOrder, FilesLeft, ResetPending, LastFile, Thread
<1>19. CheckpointsSafe'
  <2>1. ScanFrom' = ScanFrom /\ LastFile' = LastFile
    BY <1>3 DEF ScanFrom, LastFile
  <2>2. \A q \in Thread : th'[q].pc # "link"
    BY <1>5, <1>6
  <2> QED BY <1>3, <1>6, <2>1, <2>2 DEF CountInv, CheckpointsSafe
<1>20. LoggedOnce' /\ BusyLogged' /\ LoggedPrepared'
  BY <1>1, <1>2, <1>3, <1>4, <1>5, <1>6, <1>7 DEF CountInv, LoggedOnce, BusyLogged, LoggedPrepared, Thread
<1>21. Exact'
  <2>1. \A t \in Trx : OwesUnlog(t)' <=> OwesUnlog(t)
    BY <1>1, <1>5 DEF OwesUnlog
  <2>2. \A f \in Files : ~OwesDone(Resetter, f) /\ (OwesDone(Resetter, f)' <=> f = cur)
    BY <1>1, <1>2, <1>5 DEF OwesDone
  <2> QED BY <1>1, <1>2, <1>3, <1>4, <1>5, <1>7, <2>1, <2>2, RequestExact
<1> QED
  BY <1>8, <1>9, <1>10, <1>11, <1>12, <1>13, <1>14,
     <1>15, <1>16, <1>17, <1>18, <1>19, <1>20, <1>21 DEF CountInv, Shapes

\* All files go and a new one is opened.
LEMMA ResetFilesCounts ==
  ASSUME CountInv, server = "up", ResetFiles
  PROVE  /\ CountInv'
         /\ ScanFrom' = cur + 1 /\ LastFile = cur
<1>1. /\ Trx \subseteq Thread /\ Session \subseteq Thread
      /\ Background \in Thread /\ Resetter \in Thread
      /\ Background \notin Trx \union Session
      /\ Resetter \notin Trx \union Session \union {Background}
      /\ Trx \intersect Session = {} /\ None \notin Files
  BY ThreadAssumption, FilesNat DEF Thread
<1>2. /\ th[Resetter].pc = "resetidle" /\ logLock = Resetter
      /\ cur' = cur + 1 /\ oldest' = cur + 1 /\ index' = {cur + 1} /\ logLock' = NoThread
      /\ ckpt' = [ckpt EXCEPT ![cur + 1] = cur + 1]
  BY DEF ResetFiles, CountInv, LocksHeld, ResetAsked
<1>3. /\ xids' = xids /\ engine' = engine /\ count' = count /\ syncLock' = syncLock
      /\ requests' = requests /\ queue' = queue /\ bg' = bg /\ server' = server
      /\ left' = left
  BY DEF ResetFiles, notices
<1>4. /\ th' \in [Thread -> ThreadState]
      /\ \A q \in Thread : q # Resetter => th'[q] = th[q]
      /\ th'[Resetter].pc = "idle" /\ th'[Resetter].id = None /\ ~th'[Resetter].rotated
  <2>1. th' = [th EXCEPT ![Resetter] = At("idle")] /\ "idle" \in PC
    BY DEF ResetFiles, PC
  <2>2. /\ th' \in [Thread -> ThreadState] /\ th'[Resetter] = At("idle")
        /\ \A q \in Thread : q # Resetter => th'[q] = th[q]
    BY <1>1, <2>1, AtFields, Moves DEF CountInv
  <2> QED BY <2>1, <2>2, AtFields
<1>5. \A q \in Thread : th[q].pc \notin {"link", "log", "event", "sync"}
  BY <1>1, <1>2, ThreadAssumption DEF CountInv, LocksHeld, ResetAsked
<1>6. Queued' = Queued /\ Grabbed' = Grabbed /\ InQueue' = InQueue
  BY <1>1, <1>2, <1>3, <1>4 DEF InQueue, Queued, Grabbed, Chain
<1>7. /\ cur \in Nat /\ cur + 1 \in Files /\ LastFile = cur /\ LastFile' = cur + 1
      /\ ckpt' \in [Files -> FileOrNone] /\ ScanFrom' = cur + 1
      /\ left \in [Bounded -> Nat] /\ Budget \in [Bounded -> Nat]
      /\ {"rotate", "crash", "reset"} \subseteq Bounded
  <2>1. /\ cur \in Nat /\ LastFile = cur /\ left \in [Bounded -> Nat] /\ Budget \in [Bounded -> Nat]
        /\ {"rotate", "crash", "reset"} \subseteq Bounded /\ ckpt \in [Files -> FileOrNone]
    BY <1>5, FilesNat, EngineAssumption DEF CountInv, TypeOK, FilesInOrder, Bounded
  <2>2. cur + left["rotate"] + left["crash"] + left["reset"] + 1
        <= 1 + Budget["rotate"] + Budget["crash"] + Budget["reset"]
    BY <1>2, <2>1 DEF CountInv, FilesLeft, ResetPending
  <2>3. cur + 1 \in Files
    BY <2>1, <2>2 DEF Files
  <2>4. LastFile' = cur + 1
    <3>1. index' \in SUBSET Files /\ cur + 1 \in index' /\ \A y \in index' : y <= cur + 1
      BY <1>2, <2>1, <2>3
    <3> QED BY <3>1, MaxIs DEF LastFile
  <2> QED BY <1>2, <2>1, <2>3, <2>4 DEF ScanFrom, FileOrNone
<1>8. TypeOK'
  BY <1>2, <1>3, <1>4, <1>7 DEF CountInv, TypeOK
<1>9. TrxShape'
  BY <1>1, <1>2, <1>3, <1>4, <1>5, <1>6, <1>7 DEF CountInv, Shapes, TrxShape, Leading, Thread
<1>10. SessionShape'
  BY <1>1, <1>2, <1>3, <1>4, <1>5, <1>6, <1>7 DEF CountInv, Shapes, SessionShape, Leading, Thread
<1>11. BackgroundShape' /\ ResetterShape' /\ AskShape'
  BY <1>1, <1>2, <1>3, <1>4, <1>5, <1>6, <1>7 DEF CountInv, Shapes, BackgroundShape, ResetterShape, AskShape, Thread
<1>12. LocksHeld'
  BY <1>1, <1>2, <1>3, <1>4, <1>5, <1>6, <1>7 DEF CountInv, LocksHeld, ResetAsked, Thread
<1>13. GroupsWait'
  BY <1>1, <1>2, <1>3, <1>4, <1>5, <1>6, <1>7, KeepGroups DEF CountInv, Leading, Thread
<1>14. QuietWhenDown'
  BY <1>1, <1>2, <1>3, <1>4, <1>5, <1>6, <1>7 DEF QuietWhenDown
<1>15. QueueShape'
  BY <1>1, <1>2, <1>3, <1>4, <1>5, <1>6, <1>7 DEF CountInv, QueueShape, Chain, InQueue
<1>16. RequestsOnce'
  BY <1>1, <1>2, <1>3, <1>4, <1>5, <1>6, <1>7 DEF CountInv, RequestsOnce, Asks, Thread
<1>17. RequestsPast'
  <2>1. \A q \in Thread : Asks(q)' => Asks(q) /\ th'[q].id = th[q].id
    BY <1>1, <1>2, <1>4 DEF Asks
  <2>2. \A f \in Files : AskedFor(f)' => AskedFor(f) /\ f \in Nat
    BY <1>3, <1>6, <2>1, FilesNat DEF AskedFor
  <2> QED BY <1>2, <1>7, <2>2 DEF CountInv, RequestsPast
<1>18. FilesInOrder' /\ FilesLeft'
  <2>1. FilesInOrder'
    BY <1>2, <1>3, <1>4, <1>5, <1>7 DEF FilesInOrder
  <2>2. ~ResetPending' /\ ResetPending
    BY <1>2, <1>4 DEF ResetPending
  <2>3. FilesLeft'
    BY <1>3, <1>7, <2>2 DEF CountInv, FilesLeft
  <2> QED BY <2>1, <2>3
<1>19. CheckpointsSafe'
  BY <1>2, <1>3, <1>4, <1>5, <1>7 DEF CheckpointsSafe
<1>20. LoggedOnce' /\ BusyLogged' /\ LoggedPrepared'
  BY <1>1, <1>2, <1>3, <1>4, <1>5, <1>6, <1>7 DEF CountInv, LoggedOnce, BusyLogged, LoggedPrepared, Thread
<1>21. Exact'
  <2>1. \A f \in Files : Unlogs(f)' = Unlogs(f) /\ Dones(f)' = Dones(f)
    BY <1>1, <1>2, <1>3, <1>4, <1>5, <1>6, <1>7 DEF CountInv, Unlogs, Dones, OwesUnlog, OwesDone, Thread
  <2>2. \A f \in Files : Asked(f)' = Asked(f) /\ Behind(f)' = Behind(f)
    BY <1>1, <1>2, <1>3, <1>4, <1>5, <1>6, <1>7 DEF Asked, Behind, Thread
  <2> QED BY <1>1, <1>2, <1>3, <1>4, <1>5, <1>6, <1>7, <2>1, <2>2 DEF CountInv, Exact
<1> QED
  BY <1>8, <1>9, <1>10, <1>11, <1>12, <1>13, <1>14,
     <1>15, <1>16, <1>17, <1>18, <1>19, <1>20, <1>21, <1>7 DEF CountInv, Shapes, CheckpointsSafe

\* A checkpoint request is counted and made.
LEMMA RequestCheckpointCounts ==
  ASSUME CountInv, OneCheckpointEngine, server = "up", NEW p \in Thread,
         NEW e \in Checkpoint, RequestCheckpoint(p, e)
  PROVE  CountInv'
<1>1. /\ Trx \subseteq Thread /\ Session \subseteq Thread
      /\ Background \in Thread /\ Resetter \in Thread
      /\ Background \notin Trx \union Session
      /\ Resetter \notin Trx \union Session \union {Background}
      /\ Trx \intersect Session = {} /\ None \notin Files
  BY ThreadAssumption, FilesNat DEF Thread
<1>2. /\ th[p].pc = "request" /\ p # Background /\ ~th[p].rotated
      /\ th[p].id \in Files /\ th[p].todo = {e} /\ p \in Dones(th[p].id) /\ Asks(p)
  <2>1. th[p].pc = "request"
    BY DEF RequestCheckpoint
  <2>2. th[p].todo = {e}
    BY <2>1 DEF OneCheckpointEngine, CountInv, Shapes, AskShape
  <2>3. p # Background /\ ~th[p].rotated /\ th[p].id \in Files
    BY <2>1 DEF CountInv, Shapes, TrxShape, SessionShape, BackgroundShape, ResetterShape,
                AskShape, Leading, Thread
  <2> QED BY <2>1, <2>2, <2>3 DEF Dones, OwesDone, Asks
<1>3. /\ xids' = xids /\ ckpt' = ckpt /\ index' = index /\ engine' = engine /\ cur' = cur
      /\ oldest' = oldest /\ logLock' = logLock /\ syncLock' = syncLock /\ queue' = queue
      /\ bg' = bg /\ server' = server /\ left' = left
  BY DEF RequestCheckpoint, disk, locks
<1>4. /\ th' \in [Thread -> ThreadState]
      /\ \A q \in Thread : q # p => th'[q] = th[q]
      /\ th'[p].pc = "done" /\ th'[p].id = th[p].id /\ th'[p].ret = th[p].ret
      /\ th'[p].group = th[p].group /\ th'[p].rotated = th[p].rotated
  <2> DEFINE s == [th[p] EXCEPT !.todo = th[p].todo \ {e}, !.pc = "done"]
  <2>1. th[p] \in ThreadState /\ "done" \in PC
    BY DEF CountInv, TypeOK, PC
  <2>2. /\ s \in ThreadState /\ s.pc = "done" /\ s.id = th[p].id /\ s.ret = th[p].ret
        /\ s.group = th[p].group /\ s.rotated = th[p].rotated
    BY <2>1 DEF ThreadState
  <2>3. th' = [th EXCEPT ![p] = s]
    BY <1>2 DEF RequestCheckpoint
  <2> HIDE DEF s
  <2>4. /\ th' \in [Thread -> ThreadState] /\ th'[p] = s
        /\ \A q \in Thread : q # p => th'[q] = th[q]
    BY <2>2, <2>3, Moves DEF CountInv
  <2> QED BY <2>2, <2>4
<1>5. /\ count \in [Files -> Nat] /\ count' = [count EXCEPT ![th[p].id] = @ + 1]
      /\ count' \in [Files -> Nat] /\ count[th[p].id] > 0
  <2> DEFINE f == th[p].id
  <2>1. f \in Files /\ Dones(f) # {} /\ count \in [Files -> Nat]
    BY <1>2 DEF CountInv, TypeOK
  <2>2. count' = [count EXCEPT ![f] = @ + 1]
    BY DEF RequestCheckpoint
  <2> HIDE DEF f
  <2>3. count[f] > 0
    BY <2>1, OwedCounts
  <2>4. count' \in [Files -> Nat]
    BY <2>1, <2>2
  <2> QED BY <2>1, <2>2, <2>3, <2>4 DEF f
<1>6. \E r \in Request :
        requests' = requests \union {r} /\ r.id = th[p].id /\ r.engine = e
  <2> DEFINE r == [engine |-> e, id |-> th[p].id, need |-> {t \in Trx : engine[t][e] = "committed"}]
  <2>1. r \in Request /\ r.id = th[p].id /\ r.engine = e
    BY <1>2 DEF Request
  <2>2. requests' = requests \union {r}
    BY DEF RequestCheckpoint
  <2> QED BY <2>1, <2>2
<1>7. Queued' = Queued /\ Grabbed' = Grabbed /\ InQueue' = InQueue
  BY <1>1, <1>2, <1>3, <1>4 DEF InQueue, Queued, Grabbed, Chain
<1>8. \A q \in Thread : Asks(q)' <=> Asks(q) /\ q # p
  BY <1>2, <1>4 DEF Asks
<1>9. TypeOK'
  BY <1>3, <1>4, <1>5, <1>6 DEF CountInv, TypeOK
<1>10. TrxShape'
  BY <1>1, <1>2, <1>4 DEF CountInv, Shapes, TrxShape, Leading
<1>11. SessionShape'
  BY <1>1, <1>2, <1>4 DEF CountInv, Shapes, SessionShape, Leading
<1>12. BackgroundShape' /\ ResetterShape' /\ AskShape'
  BY <1>1, <1>2, <1>3, <1>4 DEF CountInv, Shapes, BackgroundShape, ResetterShape, AskShape
<1>13. LocksHeld'
  BY <1>1, <1>2, <1>3, <1>4 DEF CountInv, LocksHeld, ResetAsked
<1>14. GroupsWait'
  BY <1>1, <1>2, <1>4, KeepGroups DEF CountInv, Leading
<1>15. QuietWhenDown'
  BY <1>1, <1>2, <1>3, <1>4, <1>5, <1>6, <1>7, <1>8 DEF QuietWhenDown
<1>16. QueueShape'
  BY <1>1, <1>2, <1>3, <1>4, <1>5, <1>6, <1>7, <1>8 DEF CountInv, QueueShape, Chain, InQueue
<1>17. RequestsOnce'
  <2>1. PICK r \in Request : requests' = requests \union {r} /\ r.id = th[p].id
    BY <1>6
  <2>2. th[p].id \notin InQueue /\ \A s \in requests : s.id # th[p].id
    BY <1>2 DEF CountInv, RequestsOnce
  <2>3. \A q \in Thread : Asks(q)' => th'[q].id = th[q].id /\ th[q].id # r.id
    BY <1>2, <1>4, <1>8, <2>1 DEF CountInv, RequestsOnce
  <2> QED BY <1>7, <1>8, <2>1, <2>2, <2>3 DEF CountInv, RequestsOnce
<1>18. RequestsPast'
  <2>1. \A f \in Files : AskedFor(f)' => AskedFor(f)
    BY <1>2, <1>4, <1>6, <1>7, <1>8 DEF AskedFor
  <2>2. ResetAsked' <=> ResetAsked
    BY <1>1, <1>2, <1>4 DEF ResetAsked
  <2>3. \A q \in Thread : th[q].pc = "link" => th'[q].pc = "link"
    BY <1>2, <1>4
  <2> QED BY <1>3, <2>1, <2>2, <2>3 DEF CountInv, RequestsPast
<1>19. FilesInOrder' /\ FilesLeft'
  BY <1>1, <1>2, <1>3, <1>4 DEF CountInv, FilesInOrder, FilesLeft, ResetPending, LastFile
<1>20. CheckpointsSafe'
  <2>1. ScanFrom' = ScanFrom /\ LastFile' = LastFile
    BY <1>3 DEF ScanFrom, LastFile
  <2>2. \A q \in Thread : th'[q].pc = "link" <=> th[q].pc = "link"
    BY <1>2, <1>4
  <2>3. \A i \in Files : count[i] = 0 => count'[i] = 0
    BY <1>2, <1>5
  <2>4. oldest .. cur \subseteq Files
    <3>1. oldest \in Nat /\ cur \in Files /\ 1 <= oldest
      BY FilesNat DEF CountInv, TypeOK, Files
    <3> QED BY <3>1, FilesNat
  <2> QED BY <1>3, <2>1, <2>2, <2>3, <2>4 DEF CountInv, CheckpointsSafe
<1>21. LoggedOnce' /\ BusyLogged' /\ LoggedPrepared'
  BY <1>1, <1>2, <1>3, <1>4 DEF CountInv, LoggedOnce, BusyLogged, LoggedPrepared
<1>22. Exact'
  <2>1. SUFFICES ASSUME NEW f \in Files
        PROVE  count'[f] = Cardinality(Unlogs(f)') + Cardinality(Dones(f)')
                           + Cardinality(Asked(f)') + Behind(f)'
    BY DEF Exact
  <2>2. \A t \in Trx : OwesUnlog(t)' <=> OwesUnlog(t)
    BY <1>1, <1>2, <1>4 DEF OwesUnlog, CountInv, Shapes, TrxShape
  <2>3. \A q \in Thread : OwesDone(q, f)' <=> OwesDone(q, f)
    BY <1>2, <1>4 DEF OwesDone
  <2>4. Unlogs(f)' = Unlogs(f) /\ Dones(f)' = Dones(f) /\ Behind(f)' = Behind(f)
    BY <1>1, <1>2, <1>3, <1>4, <1>7, <2>2, <2>3 DEF Unlogs, Dones, Behind
  <2>5. PICK r \in Request : requests' = requests \union {r} /\ r.id = th[p].id
    BY <1>6
  <2>6. r \notin Asked(f) /\ Asked(f)' = IF f = th[p].id THEN Asked(f) \union {r} ELSE Asked(f)
    BY <1>2, <2>5 DEF Asked, CountInv, RequestsOnce
  <2>7. Cardinality(Asked(f)') = IF f = th[p].id THEN Cardinality(Asked(f)) + 1
                                 ELSE Cardinality(Asked(f))
    BY <2>6, OwedCounts, FS_AddElement
  <2>8. count'[f] = IF f = th[p].id THEN count[f] + 1 ELSE count[f]
    BY <1>2, <1>5
  <2>9. /\ Cardinality(Unlogs(f)) \in Nat /\ Cardinality(Dones(f)) \in Nat
        /\ Cardinality(Asked(f)) \in Nat /\ Behind(f) \in Nat
        /\ count[f] = Cardinality(Unlogs(f)) + Cardinality(Dones(f)) + Cardinality(Asked(f))
                      + Behind(f)
    BY OwedCounts DEF CountInv, Exact
  <2>10. \A a, b, c, d \in Nat : a + b + c + d + 1 = a + b + (c + 1) + d
    OBVIOUS
  <2>11. CASE f # th[p].id
    BY <2>4, <2>7, <2>8, <2>9, <2>11
  <2>12. CASE f = th[p].id
    BY <2>4, <2>7, <2>8, <2>9, <2>10, <2>12
  <2> QED BY <2>11, <2>12
<1> QED
  BY <1>9, <1>10, <1>11, <1>12, <1>13, <1>14, <1>15,
     <1>16, <1>17, <1>18, <1>19, <1>20, <1>21, <1>22 DEF CountInv, Shapes

\* An engine answers: the file goes into the queue of the background thread.
LEMMA CheckpointNotifyCounts ==
  ASSUME CountInv, server = "up", NEW r \in requests, CheckpointNotify(r)
  PROVE  CountInv'
<1>1. /\ r \in Request /\ r.id \in Files /\ r.id \notin InQueue /\ r.id \notin Queued
      /\ r.engine \in Engine /\ requests' = requests \ {r}
  BY EngineAssumption DEF CheckpointNotify, CountInv, TypeOK, Request, RequestsOnce, InQueue
<1>2. /\ xids' = xids /\ ckpt' = ckpt /\ index' = index /\ cur' = cur /\ oldest' = oldest
      /\ count' = count /\ th' = th /\ logLock' = logLock /\ syncLock' = syncLock
      /\ bg' = bg /\ server' = server /\ left' = left
  BY DEF CheckpointNotify, disk, list, locks
<1>3. /\ engine' \in [Trx -> [Engine -> {"active", "prepared", "committed", "durable",
                                         "rolledback"}]]
      /\ \A t \in Trx, e \in Engine : engine[t][e] # "active" => engine'[t][e] # "active"
  <2>1. engine' = [t \in Trx |-> [engine[t] EXCEPT ![r.engine] =
                                   IF t \in r.need THEN "durable" ELSE @]]
    BY DEF CheckpointNotify
  <2>2. engine \in [Trx -> [Engine -> {"active", "prepared", "committed", "durable",
                                      "rolledback"}]]
    BY DEF CountInv, TypeOK
  <2> QED BY <2>1, <2>2
<1>4. /\ queue.head \in FileOrNone /\ queue.next \in [Files -> FileOrNone]
      /\ queue.notify \in [Files -> Nat]
      /\ bg.entry \in FileOrNone /\ bg.next \in FileOrNone
  BY DEF CountInv, TypeOK
<1>5. /\ queue'.head = r.id /\ queue'.notify = queue.notify
      /\ queue'.next = [queue.next EXCEPT ![r.id] = queue.head]
      /\ queue' \in [head: FileOrNone, next: [Files -> FileOrNone], notify: [Files -> Nat]]
  <2>1. queue' = [queue EXCEPT !.next[r.id] = queue.head, !.head = r.id]
    BY <1>1 DEF CheckpointNotify
  <2>2. queue \in [head: FileOrNone, next: [Files -> FileOrNone], notify: [Files -> Nat]]
    BY DEF CountInv, TypeOK
  <2> QED BY <1>1, <1>4, <2>1, <2>2 DEF FileOrNone
<1>6. \A z \in FileOrNone : r.id \notin Chain(z) => Chain(z)' = Chain(z)
  BY <1>1, <1>4, <1>5, ReachOther DEF Chain
<1>7. /\ Queued' = {r.id} \union Queued /\ Grabbed' = Grabbed
      /\ InQueue' = {r.id} \union InQueue
  <2>1. queue'.next[r.id] = queue.head /\ queue'.next \in [Files -> FileOrNone]
    BY <1>1, <1>4, <1>5
  <2>2. Queued' = {r.id} \union Reachable(queue'.next, queue.head)
    BY <1>1, <1>5, <2>1, ReachStep DEF Queued, Chain
  <2>3. Reachable(queue'.next, queue.head) = Queued
    BY <1>1, <1>4, <1>5, ReachOther DEF Queued, Chain
  <2>4. Grabbed' = Grabbed
    <3>1. CASE th[Background].pc \in {"count", "next"}
      <4>1. r.id \notin Chain(bg.entry)
        BY <1>1, <3>1 DEF InQueue, Grabbed
      <4> QED BY <1>2, <1>4, <1>6, <3>1, <4>1 DEF Grabbed, Chain
    <3>2. CASE th[Background].pc \notin {"count", "next"}
      <4>1. r.id \notin Chain(bg.next)
        BY <1>1, <3>2 DEF InQueue, Grabbed
      <4> QED BY <1>2, <1>4, <1>6, <3>2, <4>1 DEF Grabbed, Chain
    <3> QED BY <3>1, <3>2
  <2> QED BY <2>2, <2>3, <2>4 DEF InQueue
<1>8. TypeOK'
  BY <1>1, <1>2, <1>3, <1>5 DEF CountInv, TypeOK
<1>9. TrxShape'
  BY <1>2 DEF CountInv, Shapes, TrxShape
<1>10. SessionShape'
  BY <1>2 DEF CountInv, Shapes, SessionShape
<1>11. BackgroundShape' /\ ResetterShape' /\ AskShape'
  BY <1>2 DEF CountInv, Shapes, BackgroundShape, ResetterShape, AskShape
<1>12. LocksHeld'
  BY <1>2 DEF CountInv, LocksHeld, ResetAsked
<1>13. GroupsWait'
  BY <1>2 DEF CountInv, GroupsWait
<1>14. QuietWhenDown'
  BY <1>2 DEF QuietWhenDown
<1>15. QueueShape'
  <2>1. ASSUME NEW f \in InQueue PROVE f \notin Chain(queue.next[f])'
    <3>1. f \in Files /\ Chain(queue.next[f]) \subseteq InQueue /\ f # r.id
      <4>1. CASE f \in Queued
        BY <1>1, <1>4, <4>1, ReachTrans, ReachClosed DEF Queued, Chain, InQueue
      <4>2. CASE f \in Grabbed
        BY <1>1, <1>4, <4>2, ReachTrans, ReachClosed DEF Grabbed, Chain, InQueue
      <4> QED BY <2>1, <4>1, <4>2 DEF InQueue
    <3>2. queue'.next[f] = queue.next[f] /\ queue.next[f] \in FileOrNone
      BY <1>1, <1>4, <1>5, <3>1
    <3>3. Reachable(queue'.next, queue.next[f]) = Chain(queue.next[f])
      BY <1>1, <1>4, <1>5, <3>1, <3>2, ReachOther DEF Chain
    <3>4. f \notin Chain(queue.next[f])
      BY <2>1 DEF CountInv, QueueShape
    <3> QED BY <3>2, <3>3, <3>4 DEF Chain
  <2>2. r.id \notin Chain(queue.next[r.id])'
    <3>1. queue'.next[r.id] = queue.head
      BY <1>1, <1>4, <1>5
    <3>2. Reachable(queue'.next, queue.head) = Queued
      BY <1>1, <1>4, <1>5, ReachOther DEF Queued, Chain
    <3> QED BY <1>1, <3>1, <3>2 DEF Chain
  <2>3. \A f \in InQueue' : f \notin Chain(queue.next[f])'
    BY <1>7, <2>1, <2>2
  <2>4. Queued' \intersect Grabbed' = {}
    BY <1>1, <1>7 DEF CountInv, QueueShape, InQueue
  <2>5. bg'.again = 0 /\ \A f \in Files : queue'.notify[f] = 0
    BY <1>2, <1>5 DEF CountInv, QueueShape
  <2> QED BY <2>3, <2>4, <2>5 DEF QueueShape
<1>16. RequestsOnce'
  <2>1. \A q \in Thread : Asks(q)' <=> Asks(q)
    BY <1>2 DEF Asks
  <2> QED BY <1>1, <1>2, <1>7, <2>1 DEF CountInv, RequestsOnce
<1>17. RequestsPast'
  <2>1. \A f \in Files : AskedFor(f)' => AskedFor(f)
    BY <1>1, <1>2, <1>7 DEF AskedFor, Asks
  <2> QED BY <1>2, <2>1 DEF CountInv, RequestsPast, ResetAsked
<1>18. FilesInOrder' /\ FilesLeft'
  BY <1>2 DEF CountInv, FilesInOrder, FilesLeft, ResetPending, LastFile
<1>19. CheckpointsSafe'
  BY <1>2 DEF CountInv, CheckpointsSafe, ScanFrom, LastFile
<1>20. LoggedOnce' /\ BusyLogged' /\ LoggedPrepared'
  <2>1. \A t \in Trx : Participants(t) \subseteq Engine
    BY EngineAssumption DEF Participants
  <2>2. \A f \in Files : xids[f] \in SUBSET Trx
    BY DEF CountInv, TypeOK
  <2> QED BY <1>2, <1>3, <2>1, <2>2 DEF CountInv, LoggedOnce, BusyLogged, LoggedPrepared
<1>21. Exact'
  <2>1. SUFFICES ASSUME NEW f \in Files
        PROVE  count'[f] = Cardinality(Unlogs(f)') + Cardinality(Dones(f)')
                           + Cardinality(Asked(f)') + Behind(f)'
    BY DEF Exact
  <2>2. Unlogs(f)' = Unlogs(f) /\ Dones(f)' = Dones(f) /\ count' = count
    BY <1>2 DEF Unlogs, Dones, OwesUnlog, OwesDone
  <2>3. Behind(f)' = IF f = r.id THEN Behind(f) + 1 ELSE Behind(f)
    BY <1>1, <1>2, <1>7 DEF Behind
  <2>4. /\ f = r.id => r \in Asked(f)
        /\ Asked(f)' = IF f = r.id THEN Asked(f) \ {r} ELSE Asked(f)
    BY <1>1 DEF Asked
  <2>5. Cardinality(Asked(f)') = IF f = r.id THEN Cardinality(Asked(f)) - 1
                                 ELSE Cardinality(Asked(f))
    BY <2>4, OwedCounts, FS_RemoveElement
  <2>6. /\ Cardinality(Unlogs(f)) \in Nat /\ Cardinality(Dones(f)) \in Nat
        /\ Cardinality(Asked(f)) \in Nat /\ Behind(f) \in Nat
        /\ count[f] = Cardinality(Unlogs(f)) + Cardinality(Dones(f)) + Cardinality(Asked(f))
                      + Behind(f)
    BY OwedCounts DEF CountInv, Exact
  <2>7. \A a, b, c, d \in Nat : a + b + c + d = a + b + (c - 1) + (d + 1)
    OBVIOUS
  <2>8. CASE f # r.id
    BY <2>2, <2>3, <2>5, <2>6, <2>8
  <2>9. CASE f = r.id
    BY <2>2, <2>3, <2>5, <2>6, <2>7, <2>9
  <2> QED BY <2>8, <2>9
<1> QED
  BY <1>8, <1>9, <1>10, <1>11, <1>12, <1>13, <1>14,
     <1>15, <1>16, <1>17, <1>18, <1>19, <1>20, <1>21 DEF CountInv, Shapes

\* A transaction that owes an unlog() has a participant.
LEMMA NeedUnlogHas ==
  ASSUME NEW t \in Trx, NeedUnlog(t)
  PROVE  Participants(t) # {}
<1>1. HaList[t] \in Seq(Engine \union {Binlog}) /\ HaList[t] # <<>>
  BY EngineAssumption
<1>2. Head(HaList[t]) = HaList[t][1] /\ 1 \in DOMAIN HaList[t]
  BY <1>1
<1> QED BY <1>2 DEF NeedUnlog, Participants

\* unlog(): the transaction's count is given back by mark_xid_done().
LEMMA UnlogCounts ==
  ASSUME CountInv, server = "up", NEW t \in Trx, Unlog(t)
  PROVE  CountInv'
<1>1. /\ Trx \subseteq Thread /\ Session \subseteq Thread
      /\ Background \in Thread /\ Resetter \in Thread
      /\ Background \notin Trx \union Session
      /\ Resetter \notin Trx \union Session \union {Background}
      /\ Trx \intersect Session = {} /\ None \notin Files
  BY ThreadAssumption, FilesNat DEF Thread
<1>2. th[t].pc = "commit" /\ ~th[t].rotated /\ t \in Thread /\ t # Background /\ t # Resetter
  BY <1>1 DEF Unlog, CountInv, Shapes, TrxShape, Leading
<1>3. /\ xids' = xids /\ ckpt' = ckpt /\ index' = index /\ engine' = engine /\ cur' = cur
      /\ oldest' = oldest /\ count' = count /\ logLock' = logLock /\ syncLock' = syncLock
      /\ requests' = requests /\ queue' = queue /\ bg' = bg /\ server' = server
      /\ left' = left
  BY DEF Unlog, disk, list, locks, notices
<1>4. FileOf(t) \in Files /\ t \in xids[FileOf(t)]
  BY <1>2 DEF FileOf, CountInv, BusyLogged
<1>5. /\ th' \in [Thread -> ThreadState]
      /\ \A q \in Thread : q # t => th'[q] = th[q]
      /\ th'[t].rotated = FALSE
      /\ \/ NeedUnlog(t) /\ th'[t].pc = "done" /\ th'[t].id = FileOf(t) /\ th'[t].ret = "end"
         \/ ~NeedUnlog(t) /\ th'[t].pc = "end" /\ th'[t].id = None
  <2>1. CASE NeedUnlog(t)
    <3> DEFINE s == [At("done") EXCEPT !.id = FileOf(t), !.ret = "end"]
    <3>1. /\ s \in ThreadState /\ s.pc = "done" /\ s.id = FileOf(t) /\ s.ret = "end"
          /\ s.rotated = FALSE
      BY <1>4 DEF At, ThreadState, FileOrNone, PC
    <3>2. th' = [th EXCEPT ![t] = s]
      BY <2>1 DEF Unlog
    <3> HIDE DEF s
    <3> QED BY <1>2, <2>1, <3>1, <3>2, Moves DEF CountInv
  <2>2. CASE ~NeedUnlog(t)
    <3>1. th' = [th EXCEPT ![t] = At("end")] /\ "end" \in PC
      BY <2>2 DEF Unlog, PC
    <3>2. /\ th' \in [Thread -> ThreadState] /\ th'[t] = At("end")
          /\ \A q \in Thread : q # t => th'[q] = th[q]
      BY <1>2, <3>1, AtFields, Moves DEF CountInv
    <3> QED BY <2>2, <3>2 DEF At
  <2> QED BY <2>1, <2>2
<1>6. Queued' = Queued /\ Grabbed' = Grabbed /\ InQueue' = InQueue
  BY <1>1, <1>2, <1>3, <1>5 DEF InQueue, Queued, Grabbed, Chain
<1>7. TypeOK'
  BY <1>1, <1>2, <1>3, <1>4, <1>5, <1>6 DEF CountInv, TypeOK
<1>8. TrxShape'
  BY <1>1, <1>2, <1>3, <1>4, <1>5, <1>6 DEF CountInv, Shapes, TrxShape, Leading, Thread
<1>9. SessionShape'
  BY <1>1, <1>2, <1>3, <1>4, <1>5, <1>6 DEF CountInv, Shapes, SessionShape, Leading, Thread
<1>10. BackgroundShape' /\ ResetterShape' /\ AskShape'
  BY <1>1, <1>2, <1>3, <1>4, <1>5, <1>6 DEF CountInv, Shapes, BackgroundShape, ResetterShape, AskShape, Thread
<1>11. LocksHeld'
  BY <1>1, <1>2, <1>3, <1>4, <1>5, <1>6 DEF CountInv, LocksHeld, ResetAsked, Thread
<1>12. GroupsWait'
  BY <1>1, <1>2, <1>5, KeepGroups DEF CountInv, Leading
<1>13. QuietWhenDown'
  BY <1>1, <1>2, <1>3, <1>4, <1>5, <1>6 DEF QuietWhenDown
<1>14. QueueShape'
  BY <1>1, <1>2, <1>3, <1>4, <1>5, <1>6 DEF CountInv, QueueShape, Chain, InQueue
<1>15. RequestsOnce'
  BY <1>1, <1>2, <1>3, <1>4, <1>5, <1>6 DEF CountInv, RequestsOnce, Asks, Thread
<1>16. RequestsPast'
  BY <1>1, <1>2, <1>3, <1>4, <1>5, <1>6 DEF CountInv, RequestsPast, AskedFor, Asks, ResetAsked, Thread
<1>17. FilesInOrder' /\ FilesLeft'
  BY <1>1, <1>2, <1>3, <1>4, <1>5, <1>6 DEF CountInv, FilesInOrder, FilesLeft, ResetPending, LastFile, Thread
<1>18. CheckpointsSafe'
  BY <1>1, <1>2, <1>3, <1>4, <1>5, <1>6 DEF CountInv, CheckpointsSafe, ScanFrom, LastFile, Thread
<1>19. LoggedOnce' /\ BusyLogged' /\ LoggedPrepared'
  BY <1>1, <1>2, <1>3, <1>4, <1>5, <1>6 DEF CountInv, LoggedOnce, BusyLogged, LoggedPrepared, Thread
<1>20. Exact'
  <2>1. SUFFICES ASSUME NEW f \in Files
        PROVE  count'[f] = Cardinality(Unlogs(f)') + Cardinality(Dones(f)')
                           + Cardinality(Asked(f)') + Behind(f)'
    BY DEF Exact
  <2>2. Asked(f)' = Asked(f) /\ Behind(f)' = Behind(f)
    BY <1>1, <1>2, <1>3, <1>5, <1>6 DEF Asked, Behind
  <2>3. CASE ~NeedUnlog(t) \/ f # FileOf(t)
    <3>1. t \notin Unlogs(f) /\ ~OwesUnlog(t)'
      BY <1>2, <1>4, <1>5, <2>3, NeedUnlogHas DEF Unlogs, OwesUnlog, CountInv, LoggedOnce
    <3>2. Unlogs(f)' = Unlogs(f)
      BY <1>1, <1>3, <1>5, <3>1 DEF Unlogs, OwesUnlog
    <3>3. Dones(f)' = Dones(f)
      BY <1>1, <1>2, <1>5, <2>3 DEF Dones, OwesDone
    <3> QED BY <1>3, <2>2, <3>2, <3>3 DEF CountInv, Exact
  <2>4. CASE NeedUnlog(t) /\ f = FileOf(t)
    <3>1. t \in Unlogs(f) /\ Unlogs(f)' = Unlogs(f) \ {t}
      BY <1>1, <1>2, <1>3, <1>4, <1>5, <2>4 DEF Unlogs, OwesUnlog
    <3>2. t \notin Dones(f) /\ Dones(f)' = Dones(f) \union {t}
      BY <1>1, <1>2, <1>5, <2>4 DEF Dones, OwesDone
    <3>3. Cardinality(Unlogs(f)') = Cardinality(Unlogs(f)) - 1
      BY <3>1, OwedCounts, FS_RemoveElement
    <3>4. Cardinality(Dones(f)') = Cardinality(Dones(f)) + 1
      BY <3>2, OwedCounts, FS_AddElement
    <3>5. /\ Cardinality(Unlogs(f)) \in Nat /\ Cardinality(Dones(f)) \in Nat
          /\ Cardinality(Asked(f)) \in Nat /\ Behind(f) \in Nat
          /\ count[f] = Cardinality(Unlogs(f)) + Cardinality(Dones(f)) + Cardinality(Asked(f))
                        + Behind(f)
      BY OwedCounts DEF CountInv, Exact
    <3>6. \A a, b, c, d \in Nat : a + b + c + d = (a - 1) + (b + 1) + c + d
      OBVIOUS
    <3> QED BY <1>3, <2>2, <3>3, <3>4, <3>5, <3>6
  <2> QED BY <2>3, <2>4
<1> QED
  BY <1>7, <1>8, <1>9, <1>10, <1>11, <1>12, <1>13,
     <1>14, <1>15, <1>16, <1>17, <1>18, <1>19, <1>20 DEF CountInv, Shapes

\* A leader's group, whose other members wait; a session leads none.
LEMMA GroupOf ==
  ASSUME CountInv, NEW p \in Thread, th[p].pc \in Leading
  PROVE  /\ p \in Trx \union Session /\ p # Background /\ p # Resetter
         /\ th[p].group \subseteq Trx
         /\ \A u \in th[p].group \ {p} : th[u].pc = "logged"
         /\ p \in Trx => p \in th[p].group
         /\ p \in Session => th[p].group = {} /\ th[p].rotated
<1>1. p \in Trx \union Session /\ p # Background /\ p # Resetter
  BY ThreadAssumption DEF CountInv, Shapes, BackgroundShape, ResetterShape, Leading, Thread
<1>2. th[p].group \subseteq Trx
  BY DEF CountInv, TypeOK, ThreadState
<1> QED BY <1>1, <1>2 DEF CountInv, Shapes, SessionShape, GroupsWait, Leading

\* Where the step leaves the threads.
LEMMA CommitOrderedThreads ==
  ASSUME CountInv, NEW p \in Thread, CommitOrdered(p)
  PROVE  /\ th' \in [Thread -> ThreadState]
         /\ \A q \in Thread : q # p /\ q \notin th[p].group => th'[q] = th[q]
         /\ \A u \in th[p].group \ {p} : th'[u].pc = "commit" /\ ~th'[u].rotated /\ th'[u].id = None
         /\ th'[p].ret = (IF th[p].rotated THEN "purge" ELSE "idle")
         /\ th'[p].group = {} /\ ~th'[p].rotated /\ (th[p].rotated => th'[p].todo = Checkpoint)
         /\ th'[p].pc = (IF ~th[p].rotated THEN "commit"
                        ELSE IF Checkpoint = {} THEN "done" ELSE "request")
         /\ th'[p].id = (IF th[p].rotated THEN th[p].id ELSE None)
<1>a. /\ Trx \subseteq Thread /\ Session \subseteq Thread /\ p \in Trx \union Session
      /\ th[p].group \subseteq Trx /\ (p \in Session => th[p].rotated)
  <2>1. th[p].pc = "sync"
    BY DEF CommitOrdered
  <2> QED BY <2>1, GroupOf DEF Leading, Thread
<1> DEFINE s == IF th[p].rotated THEN Asking(th[p].id, "purge") ELSE At("commit")
<1>1. "purge" \in PC /\ "commit" \in PC /\ th[p].id \in FileOrNone /\ th \in [Thread -> ThreadState]
  BY DEF PC, CountInv, TypeOK, ThreadState
<1>2. s \in ThreadState /\ At("commit") \in ThreadState
  BY <1>1, AtFields, AskingFields
<1>3. /\ s.ret = (IF th[p].rotated THEN "purge" ELSE "idle")
      /\ s.group = {} /\ ~s.rotated /\ (th[p].rotated => s.todo = Checkpoint)
      /\ s.pc = (IF ~th[p].rotated THEN "commit"
                 ELSE IF Checkpoint = {} THEN "done" ELSE "request")
      /\ s.id = (IF th[p].rotated THEN th[p].id ELSE None)
  <2>1. CASE th[p].rotated
    BY <2>1 DEF Asking, At
  <2>2. CASE ~th[p].rotated
    BY <1>a, <2>2 DEF At
  <2> QED BY <2>1, <2>2
<1>4. th' = [q \in Thread |-> CASE q = p -> s
                               [] q \in th[p].group \ {p} -> At("commit")
                               [] OTHER -> th[q]]
  BY DEF CommitOrdered
<1> HIDE DEF s
<1>5. /\ th'[p] = s /\ \A q \in Thread : q # p /\ q \notin th[p].group => th'[q] = th[q]
      /\ \A u \in th[p].group \ {p} : u \in Thread /\ th'[u] = At("commit")
  BY <1>a, <1>4
<1>6. th' \in [Thread -> ThreadState]
  <2>1. \A q \in Thread : th'[q] \in ThreadState
    BY <1>1, <1>2, <1>5
  <2>2. th' = [q \in Thread |-> th'[q]]
    BY <1>4
  <2> QED BY <2>1, <2>2
<1>7. \A u \in th[p].group \ {p} : th'[u].pc = "commit" /\ ~th'[u].rotated /\ th'[u].id = None
  BY <1>5 DEF At
<1> QED BY <1>3, <1>5, <1>6, <1>7

\* The group is through commit_ordered().
LEMMA CommitOrderedCounts ==
  ASSUME CountInv, server = "up", NEW p \in Thread, CommitOrdered(p)
  PROVE  CountInv'
<1>1. /\ Trx \subseteq Thread /\ Session \subseteq Thread
      /\ Background \in Thread /\ Resetter \in Thread
      /\ Background \notin Trx \union Session
      /\ Resetter \notin Trx \union Session \union {Background}
      /\ Trx \intersect Session = {} /\ None \notin Files
  BY ThreadAssumption, FilesNat DEF Thread
<1>2. /\ th[p].pc = "sync" /\ syncLock = p /\ syncLock' = NoThread
      /\ p \in Trx \union Session /\ p # Background /\ p # Resetter
      /\ th[p].group \subseteq Trx /\ \A u \in th[p].group \ {p} : th[u].pc = "logged"
      /\ p \in Session => th[p].rotated /\ th[p].group = {}
      /\ th[p].rotated => th[p].id \in Files
  <2>1. th[p].pc = "sync" /\ syncLock = p /\ syncLock' = NoThread
    BY DEF CommitOrdered
  <2> QED BY <2>1, GroupOf DEF CountInv, Shapes, AskShape, Leading
<1>3. /\ xids' = xids /\ ckpt' = ckpt /\ index' = index /\ cur' = cur /\ oldest' = oldest
      /\ count' = count /\ logLock' = logLock /\ requests' = requests /\ queue' = queue
      /\ bg' = bg /\ server' = server /\ left' = left
  BY DEF CommitOrdered, disk, list, notices
<1>4. /\ engine' \in [Trx -> [Engine -> {"active", "prepared", "committed", "durable",
                                         "rolledback"}]]
      /\ \A t \in Trx, e \in Engine : engine[t][e] # "active" => engine'[t][e] # "active"
  BY DEF CommitOrdered, CountInv, TypeOK
<1>5. /\ th' \in [Thread -> ThreadState]
      /\ \A q \in Thread : q # p /\ q \notin th[p].group => th'[q] = th[q]
      /\ \A u \in th[p].group \ {p} : th'[u].pc = "commit" /\ ~th'[u].rotated /\ th'[u].id = None
      /\ th'[p].ret = (IF th[p].rotated THEN "purge" ELSE "idle")
      /\ th'[p].group = {} /\ ~th'[p].rotated /\ (th[p].rotated => th'[p].todo = Checkpoint)
      /\ th'[p].pc = (IF ~th[p].rotated THEN "commit"
                     ELSE IF Checkpoint = {} THEN "done" ELSE "request")
      /\ th'[p].id = (IF th[p].rotated THEN th[p].id ELSE None)
  BY CommitOrderedThreads
<1>6. Queued' = Queued /\ Grabbed' = Grabbed /\ InQueue' = InQueue
  BY <1>1, <1>2, <1>3, <1>5 DEF InQueue, Queued, Grabbed, Chain
<1>7. /\ \A q \in Thread : q # p => th'[q] = th[q] \/ (q \in Trx /\ th[q].pc = "logged"
                                  /\ th'[q].pc = "commit" /\ ~th'[q].rotated /\ th'[q].id = None)
      /\ \A q \in Thread : q \notin Trx /\ q # p => th'[q] = th[q]
      /\ \A q \in Trx : th[q].pc = "logged" => ~th[q].rotated
  BY <1>1, <1>2, <1>5 DEF CountInv, Shapes, TrxShape, Leading
<1>8. TypeOK'
  BY <1>2, <1>3, <1>4, <1>5 DEF CountInv, TypeOK
<1>9. TrxShape'
  BY <1>1, <1>2, <1>5, <1>7 DEF CountInv, Shapes, TrxShape, Leading
<1>10. SessionShape'
  BY <1>1, <1>2, <1>5, <1>7 DEF CountInv, Shapes, SessionShape, Leading
<1>11. BackgroundShape' /\ ResetterShape' /\ AskShape'
  <2>1. BackgroundShape' /\ ResetterShape'
    BY <1>1, <1>2, <1>3, <1>7 DEF CountInv, Shapes, BackgroundShape, ResetterShape
  <2>2. AskShape'
    BY <1>1, <1>2, <1>5, <1>7 DEF CountInv, Shapes, AskShape
  <2> QED BY <2>1, <2>2
<1>12. LocksHeld'
  <2>1. \A q \in Thread : q # p => th[q].pc # "sync"
    BY <1>2 DEF CountInv, LocksHeld
  <2>2. \A q \in Thread : th'[q].pc # "sync"
    BY <1>2, <1>5, <1>7, <2>1
  <2>3. \A q \in Thread : th'[q].pc \in {"link", "log", "event"} => th'[q] = th[q]
    BY <1>2, <1>5, <1>7
  <2> QED BY <1>1, <1>2, <1>3, <1>7, <2>2, <2>3 DEF CountInv, LocksHeld, ResetAsked
<1>13. GroupsWait'
  <2>1. \A t \in Trx : th'[t].pc \in Leading => th[t].pc \in Leading /\ th'[t].group = th[t].group /\ t # p
    BY <1>1, <1>5, <1>7 DEF Leading
  <2>2. ASSUME NEW t \in Trx, th[t].pc \in Leading, t # p, NEW u \in th[t].group \ {t}
        PROVE  u \in Trx /\ th'[u].pc = "logged"
    <3>1. u \in Trx /\ th[u].pc = "logged" /\ u # p
      BY <1>2, <2>2 DEF CountInv, TypeOK, ThreadState, Thread, GroupsWait
    <3>2. u \notin th[p].group
      BY <1>2, <2>2, <1>1 DEF CountInv, GroupsWait, Leading
    <3> QED BY <1>1, <1>5, <3>1, <3>2
  <2>3. \A t \in Trx : th[t].pc \in Leading => t \in th[t].group
    BY DEF CountInv, GroupsWait
  <2>4. \A t, u \in Trx : th[t].pc \in Leading /\ th[u].pc \in Leading /\ u # t =>
          th[t].group \intersect th[u].group = {}
    BY DEF CountInv, GroupsWait
  <2> QED BY <2>1, <2>2, <2>3, <2>4 DEF GroupsWait
<1>14. QuietWhenDown'
  BY <1>1, <1>2, <1>3, <1>4, <1>5, <1>6, <1>7 DEF QuietWhenDown
<1>15. QueueShape'
  BY <1>1, <1>2, <1>3, <1>4, <1>5, <1>6, <1>7 DEF CountInv, QueueShape, Chain, InQueue
<1>16. RequestsOnce'
  <2>1. \A q \in Thread : Asks(q)' => Asks(q) /\ th'[q].id = th[q].id
    BY <1>1, <1>2, <1>5, <1>7 DEF Asks
  <2> QED BY <1>3, <1>6, <2>1 DEF CountInv, RequestsOnce
<1>17. RequestsPast'
  <2>1. \A q \in Thread : Asks(q)' => Asks(q) /\ th'[q].id = th[q].id
    BY <1>1, <1>2, <1>5, <1>7 DEF Asks
  <2>2. \A f \in Files : AskedFor(f)' => AskedFor(f)
    BY <1>3, <1>6, <2>1 DEF AskedFor
  <2>3. (ResetAsked' <=> ResetAsked) /\ \A q \in Thread : th[q].pc = "link" => th'[q].pc = "link"
    BY <1>1, <1>2, <1>5, <1>7 DEF ResetAsked
  <2> QED BY <1>3, <2>2, <2>3 DEF CountInv, RequestsPast
<1>18. FilesInOrder' /\ FilesLeft'
  <2>1. \A q \in Thread : th'[q].pc = "link" <=> th[q].pc = "link"
    BY <1>2, <1>5, <1>7
  <2>2. \A q \in Thread : th[q].pc = "link" => th'[q].id = th[q].id
    BY <1>2, <1>5, <1>7
  <2>3. th'[Resetter] = th[Resetter]
    BY <1>1, <1>2, <1>7
  <2>4. ResetPending' <=> ResetPending
    BY <2>3 DEF ResetPending
  <2> QED BY <1>3, <2>1, <2>2, <2>4 DEF CountInv, FilesInOrder, FilesLeft, LastFile
<1>19. CheckpointsSafe'
  <2>1. \A q \in Thread : th'[q].pc = "link" <=> th[q].pc = "link"
    BY <1>2, <1>5, <1>7
  <2> QED BY <1>3, <2>1 DEF CountInv, CheckpointsSafe, ScanFrom, LastFile
<1>20. LoggedOnce' /\ BusyLogged' /\ LoggedPrepared'
  <2>1. \A t \in Trx : Participants(t) \subseteq Engine
    BY EngineAssumption DEF Participants
  <2>2. \A f \in Files : xids[f] \in SUBSET Trx
    BY DEF CountInv, TypeOK
  <2>3. LoggedPrepared'
    BY <1>3, <1>4, <2>1, <2>2 DEF CountInv, LoggedPrepared
  <2>4. \A t \in Trx : /\ th'[t].pc = "idle" => th[t].pc = "idle"
                       /\ th'[t].pc \notin {"idle", "end"} => th[t].pc \notin {"idle", "end"}
    BY <1>1, <1>2, <1>5, <1>7
  <2> QED BY <1>3, <2>3, <2>4 DEF CountInv, LoggedOnce, BusyLogged
<1>21. Exact'
  <2>1. \A t \in Trx : OwesUnlog(t)' <=> OwesUnlog(t)
    BY <1>1, <1>2, <1>5, <1>7 DEF OwesUnlog
  <2>2. \A q \in Thread, f \in Files : OwesDone(q, f)' <=> OwesDone(q, f)
    BY <1>1, <1>2, <1>5, <1>7 DEF OwesDone
  <2>3. \A f \in Files : Unlogs(f)' = Unlogs(f) /\ Dones(f)' = Dones(f)
    BY <1>3, <2>1, <2>2 DEF Unlogs, Dones
  <2>4. \A f \in Files : Asked(f)' = Asked(f) /\ Behind(f)' = Behind(f)
    BY <1>1, <1>2, <1>3, <1>6, <1>7 DEF Asked, Behind
  <2> QED BY <1>3, <2>3, <2>4 DEF CountInv, Exact
<1> QED
  BY <1>8, <1>9, <1>10, <1>11, <1>12, <1>13, <1>14,
     <1>15, <1>16, <1>17, <1>18, <1>19, <1>20, <1>21 DEF CountInv, Shapes

\* Where the step leaves the threads.
LEMMA WriteGroupThreads ==
  ASSUME CountInv, NEW t \in Trx, NEW group \in SUBSET Trx, WriteGroup(t, group)
  PROVE  /\ th' \in [Thread -> ThreadState]
         /\ \A q \in Thread : q \notin group => th'[q] = th[q]
         /\ th'[t].pc = "log" /\ th'[t].group = group /\ th'[t].rotated = FALSE
         /\ \A u \in group \ {t} : th'[u].pc = "logged" /\ th'[u].rotated = FALSE
<1>a. Trx \subseteq Thread
  BY DEF Thread
<1>b. /\ logLock = NoThread /\ logLock' = t /\ t \in group
      /\ \A u \in group : /\ th[u].pc = "idle" /\ th[u].rotated = FALSE
                          /\ \A e \in Participants(u) : engine[u][e] = "prepared"
  <2>1. \A u \in group : th[u].pc = "idle" => th[u].rotated = FALSE
    BY <1>a DEF CountInv, TypeOK, ThreadState, Shapes, TrxShape, Leading
  <2> QED BY <2>1 DEF WriteGroup, Prepared
<1>1. /\ th \in [Thread -> ThreadState] /\ "log" \in PC /\ "logged" \in PC
  BY DEF CountInv, TypeOK, PC
<1> DEFINE s(q) == CASE q = t -> [th[q] EXCEPT !.pc = "log", !.group = group]
                     [] q \in group \ {t} -> [th[q] EXCEPT !.pc = "logged"]
                     [] OTHER -> th[q]
<1>2. th' = [q \in Thread |-> s(q)]
  BY DEF WriteGroup
<1>3. \A q \in Thread : s(q) \in ThreadState
  BY <1>1 DEF ThreadState
<1>4. th' \in [Thread -> ThreadState]
  <2> HIDE DEF s
  <2> QED BY <1>2, <1>3
<1>5. /\ th'[t] = [th[t] EXCEPT !.pc = "log", !.group = group]
      /\ \A u \in group \ {t} : th'[u] = [th[u] EXCEPT !.pc = "logged"]
      /\ \A q \in Thread : q \notin group => th'[q] = th[q]
  BY <1>a, <1>b, <1>2
<1>6. th[t] \in ThreadState /\ \A u \in group : th[u] \in ThreadState
  BY <1>a, <1>1
<1>7. th'[t].pc = "log" /\ th'[t].group = group /\ th'[t].rotated = th[t].rotated
  BY <1>5, <1>6 DEF ThreadState
<1>8. \A u \in group \ {t} : th'[u].pc = "logged" /\ th'[u].rotated = th[u].rotated
  <2> TAKE u \in group \ {t}
  <2>1. th'[u] = [th[u] EXCEPT !.pc = "logged"] /\ th[u] \in ThreadState
    BY <1>5, <1>6
  <2> QED BY <2>1 DEF ThreadState
<1> QED BY <1>b, <1>4, <1>5, <1>7, <1>8

\* A group is written, and those of its transactions that will be unlogged counted.
LEMMA WriteGroupCounts ==
  ASSUME CountInv, server = "up", NEW t \in Trx, NEW group \in SUBSET Trx, WriteGroup(t, group)
  PROVE  CountInv'
<1>1. /\ Trx \subseteq Thread /\ Session \subseteq Thread
      /\ Background \in Thread /\ Resetter \in Thread
      /\ Background \notin Trx \union Session
      /\ Resetter \notin Trx \union Session \union {Background}
      /\ Trx \intersect Session = {} /\ None \notin Files
  BY ThreadAssumption, FilesNat DEF Thread
<1>2. /\ logLock = NoThread /\ logLock' = t /\ t \in group
      /\ \A u \in group : /\ th[u].pc = "idle" /\ th[u].rotated = FALSE
                          /\ \A e \in Participants(u) : engine[u][e] = "prepared"
  <2>1. \A u \in group : th[u].pc = "idle" => th[u].rotated = FALSE
    BY <1>1 DEF CountInv, TypeOK, ThreadState, Shapes, TrxShape, Leading
  <2> QED BY <2>1 DEF WriteGroup, Prepared
<1>3. /\ ckpt' = ckpt /\ index' = index /\ engine' = engine /\ cur' = cur
      /\ oldest' = oldest /\ syncLock' = syncLock /\ requests' = requests
      /\ queue' = queue /\ bg' = bg /\ server' = server /\ left' = left
  BY DEF WriteGroup, notices
<1>4. /\ th' \in [Thread -> ThreadState]
      /\ \A q \in Thread : q \notin group => th'[q] = th[q]
      /\ th'[t].pc = "log" /\ th'[t].group = group /\ th'[t].rotated = FALSE
      /\ \A u \in group \ {t} : th'[u].pc = "logged" /\ th'[u].rotated = FALSE
  BY WriteGroupThreads
<1>5. /\ cur \in Files /\ xids' \in [Files -> SUBSET Trx] /\ xids'[cur] = xids[cur] \union group
      /\ \A f \in Files : f # cur => xids'[f] = xids[f]
  BY DEF WriteGroup, CountInv, TypeOK
<1>6. LET N == {u \in group : NeedUnlog(u)} IN
      /\ IsFiniteSet(N) /\ Cardinality(N) \in Nat /\ count' \in [Files -> Nat]
      /\ count \in [Files -> Nat] /\ count'[cur] = count[cur] + Cardinality(N)
      /\ \A f \in Files : f # cur => count'[f] = count[f]
  <2> DEFINE N == {u \in group : NeedUnlog(u)}
  <2>1. IsFiniteSet(N) /\ Cardinality(N) \in Nat
    BY EngineAssumption, FS_Subset, FS_CardinalityType
  <2>2. count' = [count EXCEPT ![cur] = @ + Cardinality(N)] /\ count \in [Files -> Nat]
    BY DEF WriteGroup, CountInv, TypeOK
  <2> HIDE DEF N
  <2>3. /\ count' \in [Files -> Nat] /\ count'[cur] = count[cur] + Cardinality(N)
        /\ \A f \in Files : f # cur => count'[f] = count[f]
    BY <1>5, <2>1, <2>2
  <2> QED BY <2>1, <2>2, <2>3 DEF N
<1>7. Queued' = Queued /\ Grabbed' = Grabbed /\ InQueue' = InQueue
  BY <1>1, <1>3, <1>4 DEF InQueue, Queued, Grabbed, Chain
<1>8. /\ \A q \in Thread : th[q].pc \notin {"link", "log", "event"} /\ th'[q].pc # "link"
      /\ ~ResetAsked /\ th[Resetter].pc # "resetorder"
      /\ th'[Resetter] = th[Resetter] /\ th'[Background] = th[Background]
  <2>1. \A q \in Thread : th[q].pc \notin {"link", "log", "event"}
    BY <1>2, ThreadAssumption DEF CountInv, LocksHeld
  <2>2. \A q \in Thread : th'[q].pc # "link"
    BY <1>4, <2>1
  <2>3. ~ResetAsked /\ th[Resetter].pc # "resetorder"
    BY <1>1, <1>2, ThreadAssumption DEF CountInv, LocksHeld
  <2>4. th'[Resetter] = th[Resetter] /\ th'[Background] = th[Background]
    BY <1>1, <1>4
  <2> QED BY <2>1, <2>2, <2>3, <2>4
<1>9. \A q \in Thread : (Asks(q)' <=> Asks(q)) /\ (Asks(q) => th'[q] = th[q])
  BY <1>1, <1>2, <1>4 DEF Asks
<1>10. TypeOK'
  BY <1>1, <1>2, <1>3, <1>4, <1>5, <1>6 DEF CountInv, TypeOK
<1>11. TrxShape'
  BY <1>1, <1>2, <1>4 DEF CountInv, Shapes, TrxShape, Leading
<1>12. SessionShape'
  BY <1>1, <1>2, <1>4 DEF CountInv, Shapes, SessionShape, Leading
<1>13. BackgroundShape' /\ ResetterShape' /\ AskShape'
  <2>1. BackgroundShape' /\ ResetterShape'
    BY <1>3, <1>8 DEF CountInv, Shapes, BackgroundShape, ResetterShape
  <2>2. AskShape'
    BY <1>1, <1>2, <1>3, <1>4 DEF CountInv, Shapes, AskShape
  <2> QED BY <2>1, <2>2
<1>14. LocksHeld'
  <2>1. \A q \in Thread : th'[q].pc \in {"link", "log", "event"} => q = t
    BY <1>2, <1>4, <1>8
  <2>2. \A q \in Thread : th'[q].pc = "sync" => th[q].pc = "sync"
    BY <1>2, <1>4
  <2>3. ~ResetAsked'
    BY <1>8 DEF ResetAsked
  <2> QED BY <1>2, <1>3, <1>8, <2>1, <2>2, <2>3 DEF CountInv, LocksHeld
<1>15. GroupsWait'
  <2>1. \A u \in Trx : th'[u].pc \in Leading /\ u # t =>
          /\ th[u].pc \in Leading /\ th'[u].group = th[u].group /\ u \notin group
    BY <1>1, <1>2, <1>4 DEF Leading
  <2>2. ASSUME NEW u \in Trx, th[u].pc \in Leading
        PROVE  /\ u \in th[u].group /\ th[u].group \intersect group = {}
               /\ \A v \in th[u].group \ {u} : v \in Trx /\ th[v].pc = "logged" /\ th'[v] = th[v]
    <3>1. th[u].group \subseteq Trx /\ u \in th[u].group
      BY <1>1, <2>2 DEF CountInv, TypeOK, ThreadState, GroupsWait
    <3>2. \A v \in th[u].group \ {u} : th[v].pc = "logged"
      BY <2>2 DEF CountInv, GroupsWait
    <3>3. th[u].group \intersect group = {}
      BY <1>2, <2>2, <3>2 DEF Leading
    <3> QED BY <1>1, <1>4, <3>1, <3>2, <3>3
  <2>3. \A u, v \in Trx : th[u].pc \in Leading /\ th[v].pc \in Leading /\ u # v =>
          th[u].group \intersect th[v].group = {}
    BY DEF CountInv, GroupsWait
  <2>4. ASSUME NEW u \in Trx, th'[u].pc \in Leading
        PROVE  /\ u \in th'[u].group /\ \A v \in th'[u].group \ {u} : th'[v].pc = "logged"
               /\ \A v \in Trx \ {u} : th'[v].pc \in Leading =>
                    th'[u].group \intersect th'[v].group = {}
    <3>1. CASE u = t
      BY <1>2, <1>4, <2>1, <2>2, <3>1
    <3>2. CASE u # t
      BY <1>4, <2>1, <2>2, <2>3, <2>4, <3>2
    <3> QED BY <3>1, <3>2
  <2> QED BY <2>4 DEF GroupsWait
<1>16. QuietWhenDown'
  BY <1>1, <1>2, <1>3, <1>4, <1>5, <1>6, <1>7, <1>8, <1>9 DEF QuietWhenDown
<1>17. QueueShape'
  BY <1>1, <1>3, <1>7 DEF CountInv, QueueShape, Chain, InQueue
<1>18. RequestsOnce'
  BY <1>3, <1>7, <1>9 DEF CountInv, RequestsOnce
<1>19. RequestsPast'
  <2>1. \A f \in Files : AskedFor(f)' => AskedFor(f)
    BY <1>3, <1>7, <1>9 DEF AskedFor
  <2> QED BY <1>3, <1>8, <2>1 DEF CountInv, RequestsPast
<1>20. FilesInOrder' /\ FilesLeft'
  BY <1>3, <1>8 DEF CountInv, FilesInOrder, FilesLeft, ResetPending, LastFile
<1>21. CheckpointsSafe'
  BY <1>3, <1>8 DEF CountInv, CheckpointsSafe, ScanFrom, LastFile
<1>22. LoggedOnce' /\ BusyLogged' /\ LoggedPrepared'
  <2>1. \A u \in Trx : u \notin group => th'[u] = th[u] /\ \A f \in Files : u \in xids'[f] <=> u \in xids[f]
    BY <1>1, <1>4, <1>5
  <2>2. \A u \in group : th'[u].pc # "idle" /\ u \in xids'[cur]
    BY <1>2, <1>4, <1>5
  <2>3. \A u \in group : Participants(u) # {} => \A f \in Files : u \in xids'[f] => f = cur
    BY <1>2, <1>5 DEF CountInv, LoggedOnce
  <2>4. LoggedOnce'
    <3> SUFFICES ASSUME NEW u \in Trx, Participants(u) # {}
                 PROVE  /\ \A f, g \in Files : u \in xids'[f] /\ u \in xids'[g] => f = g
                        /\ th'[u].pc = "idle" => \A f \in Files : u \notin xids'[f]
      BY DEF LoggedOnce
    <3>1. CASE u \in group
      BY <2>2, <2>3, <3>1
    <3>2. CASE u \notin group
      BY <2>1, <3>2 DEF CountInv, LoggedOnce
    <3> QED BY <3>1, <3>2
  <2>5. BusyLogged'
    BY <1>5, <2>1, <2>2 DEF CountInv, BusyLogged
  <2>6. LoggedPrepared'
    BY <1>2, <1>3, <1>5 DEF CountInv, LoggedPrepared
  <2> QED BY <2>4, <2>5, <2>6
<1>23. Exact'
  <2> DEFINE N == {u \in group : NeedUnlog(u)}
  <2>1. SUFFICES ASSUME NEW f \in Files
        PROVE  count'[f] = Cardinality(Unlogs(f)') + Cardinality(Dones(f)')
                           + Cardinality(Asked(f)') + Behind(f)'
    BY DEF Exact
  <2>2. Asked(f)' = Asked(f) /\ Behind(f)' = Behind(f)
    BY <1>3, <1>7, <1>8 DEF Asked, Behind
  <2>3. Dones(f)' = Dones(f)
    <3>1. \A q \in Thread : OwesDone(q, f)' <=> OwesDone(q, f)
      BY <1>2, <1>4 DEF OwesDone
    <3> QED BY <3>1 DEF Dones
  <2>4. \A u \in Trx : u \notin group => (OwesUnlog(u)' <=> OwesUnlog(u))
    BY <1>1, <1>4 DEF OwesUnlog
  <2>5. \A u \in group : ~OwesUnlog(u) /\ (OwesUnlog(u)' <=> u \in N)
    BY <1>2, <1>4 DEF OwesUnlog
  <2>6. /\ Cardinality(Unlogs(f)) \in Nat /\ Cardinality(Dones(f)) \in Nat
        /\ Cardinality(Asked(f)) \in Nat /\ Behind(f) \in Nat /\ IsFiniteSet(Unlogs(f))
        /\ count[f] = Cardinality(Unlogs(f)) + Cardinality(Dones(f)) + Cardinality(Asked(f))
                      + Behind(f)
    BY OwedCounts DEF CountInv, Exact
  <2>7. CASE f # cur
    <3>1. \A u \in N : u \notin xids[f]
      BY <1>2, NeedUnlogHas DEF CountInv, LoggedOnce
    <3>2. Unlogs(f)' = Unlogs(f)
      BY <1>5, <2>4, <2>5, <2>7, <3>1 DEF Unlogs
    <3> QED BY <1>6, <2>2, <2>3, <2>6, <2>7, <3>2
  <2>8. CASE f = cur
    <3>1. Unlogs(f)' = Unlogs(f) \union N /\ Unlogs(f) \intersect N = {}
      BY <1>5, <2>4, <2>5, <2>8 DEF Unlogs
    <3>2. IsFiniteSet(N) /\ Cardinality(N) \in Nat /\ count'[f] = count[f] + Cardinality(N)
      BY <1>6, <2>8
    <3> HIDE DEF N
    <3>3. Cardinality(Unlogs(f) \union N) = Cardinality(Unlogs(f)) + Cardinality(N)
                                            - Cardinality(Unlogs(f) \intersect N)
      BY <2>6, <3>2, FS_Union
    <3>4. Cardinality(Unlogs(f) \intersect N) = 0
      BY <3>1, FS_EmptySet
    <3>5. Cardinality(Unlogs(f)') = Cardinality(Unlogs(f)) + Cardinality(N)
      BY <2>6, <3>1, <3>2, <3>3, <3>4
    <3>6. \A a, b, c, d, n \in Nat : (a + b + c + d) + n = (a + n) + b + c + d
      OBVIOUS
    <3> QED BY <2>2, <2>3, <2>6, <3>2, <3>5, <3>6
  <2> QED BY <2>7, <2>8
<1> QED
  BY <1>10, <1>11, <1>12, <1>13, <1>14, <1>15, <1>16,
     <1>17, <1>18, <1>19, <1>20, <1>21, <1>22, <1>23 DEF CountInv, Shapes

\* With every thread at rest, nothing asked and nothing queued, most of the invariant
\* is immediate; so it is after a start of the server and after a crash.
Quiet ==
  /\ th \in [Thread -> ThreadState]
  /\ \A p \in Thread : th[p] = At(th[p].pc)
  /\ \A t \in Trx : th[t].pc \in {"idle", "end"}
  /\ \A s \in Session : th[s].pc = "idle"
  /\ th[Background].pc = "wait" /\ th[Resetter].pc = "idle"
  /\ requests = {} /\ queue = EmptyQueue /\ bg = NoEntry
  /\ count = [f \in Files |-> 0]

\* What a quiet server has in every thread and in the queue.
LEMMA QuietFields ==
  ASSUME Quiet
  PROVE  /\ \A p \in Thread : /\ th[p].pc \in {"idle", "end", "wait"}
                              /\ th[p].id = None /\ th[p].todo = {} /\ th[p].ret = "idle"
                              /\ th[p].group = {} /\ th[p].rotated = FALSE
         /\ InQueue = {} /\ \A p \in Thread : ~Asks(p)
         /\ ~ResetAsked /\ ~ResetPending
<1>1. \A p \in Thread : /\ th[p].id = None /\ th[p].todo = {} /\ th[p].ret = "idle"
                       /\ th[p].group = {} /\ th[p].rotated = FALSE
  <2> TAKE p \in Thread
  <2>1. th[p] = At(th[p].pc)
    BY DEF Quiet
  <2> QED BY <2>1 DEF At
<1>2. \A p \in Thread : th[p].pc \in {"idle", "end", "wait"}
  BY DEF Quiet, Thread
<1>3. InQueue = {}
  <2>1. queue.head = None /\ bg.next = None /\ th[Background].pc = "wait"
    BY DEF Quiet, EmptyQueue, NoEntry
  <2> QED BY <2>1, ReachNone DEF InQueue, Queued, Grabbed, Chain
<1> QED BY <1>1, <1>2, <1>3 DEF Asks, ResetAsked, ResetPending, Quiet

\* A quiet server satisfies what the invariant says of threads, queue and counts.
LEMMA QuietCounts ==
  Quiet => /\ Shapes /\ LocksHeld /\ GroupsWait /\ QuietWhenDown
           /\ QueueShape /\ RequestsOnce /\ RequestsPast /\ Exact /\ BusyLogged
<1> SUFFICES ASSUME Quiet
             PROVE  /\ Shapes /\ LocksHeld /\ GroupsWait /\ QuietWhenDown
                    /\ QueueShape /\ RequestsOnce /\ RequestsPast /\ Exact /\ BusyLogged
  OBVIOUS
<1>1. /\ Trx \subseteq Thread /\ Session \subseteq Thread
      /\ Background \in Thread /\ Resetter \in Thread
  BY DEF Thread
<1>2. Shapes
  <2>1. TrxShape
    BY <1>1, QuietFields DEF Quiet, TrxShape, Leading
  <2>2. SessionShape
    BY <1>1, QuietFields DEF Quiet, SessionShape, Leading
  <2>3. BackgroundShape /\ ResetterShape /\ AskShape
    BY <1>1, QuietFields DEF Quiet, BackgroundShape, ResetterShape, AskShape, NoEntry
  <2> QED BY <2>1, <2>2, <2>3 DEF Shapes
<1>3. LocksHeld /\ GroupsWait
  BY <1>1, QuietFields DEF Quiet, LocksHeld, GroupsWait, Leading
<1>4. QuietWhenDown
  BY QuietFields DEF Quiet, QuietWhenDown
<1>5. QueueShape
  <2>1. Queued = {} /\ Grabbed = {}
    BY QuietFields DEF InQueue
  <2>2. (\A f \in Files : queue.notify[f] = 0) /\ bg.again = 0
    BY DEF Quiet, EmptyQueue, NoEntry
  <2> QED BY <2>1, <2>2, QuietFields DEF QueueShape
<1>6. RequestsOnce /\ RequestsPast
  BY QuietFields DEF Quiet, RequestsOnce, RequestsPast, AskedFor
<1>7. Exact
  <2> SUFFICES ASSUME NEW f \in Files
               PROVE  count[f] = Cardinality(Unlogs(f)) + Cardinality(Dones(f))
                                 + Cardinality(Asked(f)) + Behind(f)
    BY DEF Exact
  <2>1. Unlogs(f) = {} /\ Dones(f) = {} /\ Asked(f) = {} /\ Behind(f) = 0
    <3>1. Unlogs(f) = {}
      BY DEF Quiet, Unlogs, OwesUnlog
    <3>2. Dones(f) = {}
      BY QuietFields DEF Dones, OwesDone
    <3>3. Asked(f) = {} /\ Behind(f) = 0
      <4>1. requests = {} /\ th[Background].pc = "wait" /\ InQueue = {}
        BY QuietFields DEF Quiet
      <4> QED BY <4>1 DEF Asked, Behind
    <3> QED BY <3>1, <3>2, <3>3
  <2>2. count[f] = 0
    BY DEF Quiet
  <2> QED BY <2>1, <2>2, FS_EmptySet
<1>8. BusyLogged
  BY DEF Quiet, BusyLogged
<1> QED BY <1>2, <1>3, <1>4, <1>5, <1>6, <1>7, <1>8

\* A server that is down is quiet.
LEMMA DownQuiet ==
  ASSUME CountInv, server # "up"
  PROVE  Quiet
<1>1. /\ Trx \subseteq Thread /\ Session \subseteq Thread
      /\ Background \in Thread /\ Resetter \in Thread
  BY DEF Thread
<1>2. count = [f \in Files |-> 0]
  BY DEF CountInv, TypeOK, QuietWhenDown
<1>3. /\ \A t \in Trx : th[t].pc \in {"idle", "end"}
      /\ \A s \in Session : th[s].pc = "idle"
      /\ th[Background].pc = "wait" /\ th[Resetter].pc = "idle"
  BY <1>1 DEF CountInv, QuietWhenDown, Shapes, TrxShape, SessionShape, BackgroundShape,
              ResetterShape, Leading
<1> QED BY <1>2, <1>3 DEF Quiet, CountInv, TypeOK, QuietWhenDown

\* The threads after a start or a crash.
AtStart(s) ==
  \A p \in Thread : \/ s[p] = IF p = Background THEN At("wait") ELSE At("idle")
                    \/ p \in Trx /\ s[p] = At("end")
AtRest(s) ==
  /\ \A p \in Thread : s[p] = At(s[p].pc)
  /\ \A t \in Trx : s[t].pc \in {"idle", "end"}
  /\ \A u \in Session : s[u].pc = "idle"
  /\ s[Background].pc = "wait" /\ s[Resetter].pc = "idle"

\* Threads that have just been started are at rest.
LEMMA StartedQuiet ==
  ASSUME NEW s, AtStart(s)
  PROVE  AtRest(s)
<1>1. /\ Trx \subseteq Thread /\ Session \subseteq Thread
      /\ Background \in Thread /\ Resetter \in Thread
      /\ Background \notin Trx \union Session
      /\ Resetter \notin Trx \union Session \union {Background}
      /\ Trx \intersect Session = {}
  BY ThreadAssumption DEF Thread
<1>2. At("idle").pc = "idle" /\ At("end").pc = "end" /\ At("wait").pc = "wait"
  BY DEF At
<1> QED BY <1>1, <1>2 DEF AtStart, AtRest

\* The first start of the server.
LEMMA InitCounts ==
  ASSUME Init
  PROVE  CountInv
<1>1. 1 \in Files /\ Files \subseteq Nat
  BY FilesNat
<1>2. th \in [Thread -> ThreadState] /\ th = Started
  <2>1. At("wait") \in ThreadState /\ At("idle") \in ThreadState
    BY AtFields DEF PC
  <2> QED BY <2>1 DEF Init, Started
<1>3. Quiet
  <2>1. AtStart(th)
    <3>1. \A p \in Thread : th[p] = IF p = Background THEN At("wait") ELSE At("idle")
      BY <1>2 DEF Started
    <3> QED BY <3>1, Zenon DEF AtStart
  <2>2. AtRest(th)
    BY <2>1, StartedQuiet
  <2> QED BY <1>2, <2>2 DEF Init, Quiet, AtRest
<1>4. TypeOK
  <2>1. queue \in [head: FileOrNone, next: [Files -> FileOrNone], notify: [Files -> Nat]]
    BY DEF Init, EmptyQueue, FileOrNone
  <2>2. bg \in [entry: FileOrNone, next: FileOrNone, again: Nat]
    BY DEF Init, NoEntry, FileOrNone
  <2>3. left \in [Bounded -> Nat]
    BY EngineAssumption DEF Init
  <2>4. ckpt \in [Files -> FileOrNone]
    BY <1>1 DEF Init, FileOrNone
  <2> QED BY <1>1, <1>2, <2>1, <2>2, <2>3, <2>4 DEF Init, TypeOK
<1>5. LastFile = 1 /\ ScanFrom = 1
  <2>1. index \in SUBSET Files /\ 1 \in index /\ \A y \in index : y <= 1
    BY <1>1 DEF Init
  <2>2. Max(index) = 1
    BY <2>1, MaxIs
  <2> QED BY <1>1, <2>2 DEF LastFile, ScanFrom, Init
<1>6. FilesInOrder /\ FilesLeft /\ CheckpointsSafe
  <2>1. \A p \in Thread : th[p].pc # "link"
    BY <1>3, QuietFields
  <2>2. /\ left["rotate"] \in Nat /\ left["crash"] \in Nat /\ left["reset"] \in Nat
        /\ left = Budget
    BY EngineAssumption DEF Init, Bounded
  <2>3. ~ResetPending
    BY <1>3, QuietFields
  <2>4. FilesLeft
    BY <1>5, <2>2, <2>3 DEF FilesLeft, Init
  <2>5. FilesInOrder
    BY <1>5, <2>1 DEF FilesInOrder, Init
  <2>6. CheckpointsSafe
    BY <1>1, <1>5, <2>1 DEF CheckpointsSafe, Init
  <2> QED BY <2>4, <2>5, <2>6
<1>7. LoggedOnce /\ LoggedPrepared
  BY DEF Init, LoggedOnce, LoggedPrepared
<1> QED BY <1>3, <1>4, <1>6, <1>7, QuietCounts DEF CountInv

\* A crash: memory is lost, and with it every count and request.
LEMMA CrashCounts ==
  ASSUME CountInv, Crash
  PROVE  CountInv' /\ Quiet'
<1>1. /\ left["crash"] > 0 /\ left \in [Bounded -> Nat] /\ Budget \in [Bounded -> Nat]
      /\ left' \in [Bounded -> Nat] /\ left'["crash"] = left["crash"] - 1
      /\ \A b \in Bounded : b # "crash" => left'[b] = left[b]
      /\ {"rotate", "crash", "reset"} \subseteq Bounded
  BY EngineAssumption DEF Crash, Spend, Bounded, CountInv, TypeOK
<1>2. /\ xids' = xids /\ ckpt' = ckpt /\ index' = index /\ cur' = cur /\ oldest' = oldest
      /\ logLock' = NoThread /\ syncLock' = NoThread /\ server' = "recovering"
      /\ requests' = {} /\ queue' = EmptyQueue /\ bg' = NoEntry
      /\ count' = [f \in Files |-> 0]
  BY DEF Crash, disk
<1>3. /\ engine' \in [Trx -> [Engine -> {"active", "prepared", "committed", "durable",
                                        "rolledback"}]]
      /\ \A t \in Trx, e \in Engine : engine[t][e] # "active" => engine'[t][e] # "active"
  BY DEF Crash, CountInv, TypeOK
<1>4. At("wait") \in ThreadState /\ At("idle") \in ThreadState /\ At("end") \in ThreadState
  BY AtFields DEF PC
<1>5. th' = [p \in Thread |-> IF p \in Trx /\ \E e \in Engine : engine[p][e] # "active"
                                THEN At("end") ELSE Started[p]]
  BY DEF Crash
<1>6. th' \in [Thread -> ThreadState]
  BY <1>4, <1>5 DEF Started
<1>7. AtStart(th')
  <2>1. \A p \in Thread : \/ th'[p] = IF p = Background THEN At("wait") ELSE At("idle")
                          \/ p \in Trx /\ th'[p] = At("end")
    BY <1>5 DEF Started
  <2> QED BY <2>1, Zenon DEF AtStart
<1>8. Quiet'
  <2>1. AtRest(th')
    BY <1>7, StartedQuiet
  <2> QED BY <1>2, <1>6, <2>1 DEF Quiet, AtRest
<1>9. TypeOK'
  <2>1. queue' \in [head: FileOrNone, next: [Files -> FileOrNone], notify: [Files -> Nat]]
    BY <1>2 DEF EmptyQueue, FileOrNone
  <2>2. bg' \in [entry: FileOrNone, next: FileOrNone, again: Nat]
    BY <1>2 DEF NoEntry, FileOrNone
  <2> QED BY <1>1, <1>2, <1>3, <1>6, <2>1, <2>2 DEF CountInv, TypeOK
<1>10. FilesInOrder' /\ FilesLeft' /\ CheckpointsSafe'
  <2>1. LastFile' = LastFile /\ ScanFrom' = ScanFrom /\ LastFile \in Nat
    <3>1. LastFile \in index
      BY MaxFile DEF LastFile, CountInv, TypeOK, FilesInOrder
    <3> QED BY <1>2, <3>1, FilesNat DEF LastFile, ScanFrom, CountInv, TypeOK
  <2>2. ~ResetPending'
    <3>1. th'[Resetter].pc = "idle"
      BY <1>8 DEF Quiet
    <3> QED BY <3>1 DEF ResetPending
  <2>3. LastFile + left["rotate"] + left["crash"] + left["reset"]
        <= 1 + Budget["rotate"] + Budget["crash"] + Budget["reset"]
    BY <1>1, <2>1 DEF CountInv, FilesLeft
  <2>4. FilesLeft'
    BY <1>1, <1>2, <2>1, <2>2, <2>3 DEF FilesLeft
  <2> QED BY <1>2, <2>1, <2>4 DEF CountInv, FilesInOrder, CheckpointsSafe
<1>11. LoggedOnce' /\ LoggedPrepared'
  <2>1. \A t \in Trx : Participants(t) \subseteq Engine
    BY EngineAssumption DEF Participants
  <2>2. \A f \in Files : xids[f] \in SUBSET Trx
    BY DEF CountInv, TypeOK
  <2>3. LoggedPrepared'
    BY <1>2, <1>3, <2>1, <2>2 DEF CountInv, LoggedPrepared
  <2>4. ASSUME NEW t \in Trx, Participants(t) # {}, th'[t].pc = "idle", NEW f \in Files
        PROVE  t \notin xids[f]
    <3>1. At("end").pc = "end" /\ t \in Thread
      BY DEF At, Thread
    <3>2. \A e \in Engine : engine[t][e] = "active"
      BY <1>5, <2>4, <3>1
    <3> QED BY <2>1, <2>4, <3>2 DEF CountInv, LoggedPrepared
  <2> QED BY <1>2, <2>3, <2>4 DEF CountInv, LoggedOnce
<1>12. /\ Shapes' /\ LocksHeld' /\ GroupsWait' /\ QuietWhenDown'
       /\ QueueShape' /\ RequestsOnce' /\ RequestsPast' /\ Exact' /\ BusyLogged'
  BY <1>8, QuietCounts, PTL
<1> QED BY <1>8, <1>9, <1>10, <1>11, <1>12 DEF CountInv

\* Recovery gives up: the file it has to start from is gone.
LEMMA RecoverAbortsCounts ==
  ASSUME CountInv, RecoverAborts
  PROVE  CountInv'
<1>1. /\ xids' = xids /\ ckpt' = ckpt /\ index' = index /\ engine' = engine /\ cur' = cur
      /\ oldest' = oldest /\ count' = count /\ th' = th /\ logLock' = logLock
      /\ syncLock' = syncLock /\ requests' = requests /\ queue' = queue /\ bg' = bg
      /\ left' = left
      /\ server = "recovering" /\ server' = "aborted"
  BY DEF RecoverAborts, disk, list, locks, notices
<1>2. Quiet /\ Quiet'
  BY <1>1, DownQuiet DEF Quiet
<1>3. /\ Shapes' /\ LocksHeld' /\ GroupsWait' /\ QuietWhenDown'
      /\ QueueShape' /\ RequestsOnce' /\ RequestsPast' /\ Exact' /\ BusyLogged'
  BY <1>2, QuietCounts, PTL
<1>4. FilesLeft'
  <2>1. LastFile \in Nat /\ left \in [Bounded -> Nat] /\ Budget \in [Bounded -> Nat]
        /\ {"rotate", "crash", "reset"} \subseteq Bounded
    <3>1. LastFile \in index
      BY MaxFile DEF LastFile, CountInv, TypeOK, FilesInOrder
    <3> QED BY <3>1, FilesNat, EngineAssumption DEF CountInv, TypeOK, Bounded
  <2>2. LastFile' = LastFile /\ (ResetPending' <=> ResetPending)
    BY <1>1 DEF LastFile, ResetPending
  <2> QED BY <1>1, <2>1, <2>2 DEF CountInv, FilesLeft
<1>5. TypeOK' /\ FilesInOrder' /\ CheckpointsSafe' /\ LoggedOnce' /\ LoggedPrepared'
  BY <1>1 DEF CountInv, TypeOK, FilesInOrder, CheckpointsSafe, ScanFrom, LastFile, LoggedOnce,
              LoggedPrepared
<1> QED BY <1>3, <1>4, <1>5 DEF CountInv

\* The server is up again, with a new file.
LEMMA RestartCounts ==
  ASSUME CountInv, Restart
  PROVE  CountInv' /\ LastFile' = LastFile + 1 /\ ScanFrom' = LastFile + 1 /\ Quiet'
<1>1. /\ xids' = xids /\ engine' = engine /\ count' = count /\ th' = th
      /\ logLock' = logLock /\ syncLock' = syncLock /\ requests' = requests
      /\ queue' = queue /\ bg' = bg /\ left' = left
      /\ server = "recovering" /\ server' = "up"
      /\ cur' = LastFile + 1 /\ oldest' = LastFile + 1
      /\ index' = index \union {LastFile + 1}
      /\ ckpt' = [ckpt EXCEPT ![LastFile + 1] = LastFile + 1]
  BY DEF Restart, locks, notices
<1>2. Quiet /\ Quiet'
  BY <1>1, DownQuiet DEF Quiet
<1>3. /\ Shapes' /\ LocksHeld' /\ GroupsWait' /\ QuietWhenDown'
      /\ QueueShape' /\ RequestsOnce' /\ RequestsPast' /\ Exact' /\ BusyLogged'
  BY <1>2, QuietCounts, PTL
<1>4. /\ LastFile \in Nat /\ left \in [Bounded -> Nat] /\ Budget \in [Bounded -> Nat]
      /\ {"rotate", "crash", "reset"} \subseteq Bounded
      /\ index \in SUBSET Files /\ LastFile \in index /\ \A y \in index : y <= LastFile
  <2>1. index \in SUBSET Files /\ LastFile \in index /\ \A y \in index : y <= LastFile
    BY MaxFile DEF LastFile, CountInv, TypeOK, FilesInOrder
  <2> QED BY <2>1, FilesNat, EngineAssumption DEF CountInv, TypeOK, Bounded
<1>5. LastFile + left["rotate"] + left["crash"] + left["reset"] + 1
      <= 1 + Budget["rotate"] + Budget["crash"] + Budget["reset"]
  BY <1>1, <1>2, <1>4, QuietFields DEF CountInv, FilesLeft
<1>6. LastFile + 1 \in Files
  BY <1>4, <1>5 DEF Files
<1>7. LastFile' = LastFile + 1
  <2> DEFINE new == LastFile + 1
  <2>1. index' \in SUBSET Files /\ new \in index' /\ \A y \in index' : y <= new
    BY <1>1, <1>4, <1>6, FilesNat
  <2> HIDE DEF new
  <2>2. Max(index') = new
    BY <2>1, MaxIs
  <2> QED BY <2>2 DEF new, LastFile
<1>8. ckpt' \in [Files -> FileOrNone] /\ ScanFrom' = LastFile + 1
  BY <1>1, <1>6, <1>7 DEF ScanFrom, CountInv, TypeOK, FileOrNone
<1>9. TypeOK'
  BY <1>1, <1>4, <1>6, <1>8 DEF CountInv, TypeOK
<1>10. FilesInOrder' /\ FilesLeft' /\ CheckpointsSafe'
  <2>1. \A p \in Thread : th'[p].pc # "link"
    BY <1>1, <1>2, QuietFields
  <2>2. ~ResetPending'
    BY <1>2 DEF Quiet, ResetPending
  <2>3. FilesLeft'
    BY <1>1, <1>4, <1>5, <1>7, <2>2 DEF FilesLeft
  <2>4. FilesInOrder'
    BY <1>1, <1>4, <1>7, <2>1 DEF FilesInOrder
  <2>5. CheckpointsSafe'
    BY <1>1, <1>4, <1>6, <1>7, <1>8, <2>1 DEF CheckpointsSafe
  <2> QED BY <2>3, <2>4, <2>5
<1>11. LoggedOnce' /\ LoggedPrepared'
  BY <1>1 DEF CountInv, LoggedOnce, LoggedPrepared
<1> QED BY <1>2, <1>3, <1>7, <1>8, <1>9, <1>10, <1>11 DEF CountInv

\* A step of a running server keeps the counts.
LEMMA UpCounts ==
  ASSUME CountInv, OneCheckpointEngine, Work \/ Optional
  PROVE  CountInv'
<1>1. server = "up"
  BY DEF Work, Optional
<1>2. Trx \subseteq Thread /\ Session \subseteq Thread
  BY DEF Thread
<1>3. ASSUME NEW t \in Trx, Committing(t) PROVE CountInv'
  <2>1. CASE Unlog(t)
    BY <1>1, <2>1, UnlogCounts
  <2>2. ASSUME NEW e \in Engine, CommitEngine(t, e) PROVE CountInv'
    <3>1. engine' = [engine EXCEPT ![t][e] = "durable"]
      BY <2>2 DEF CommitEngine
    <3>2. /\ engine' \in [Trx -> [Engine -> {"active", "prepared", "committed", "durable",
                                            "rolledback"}]]
          /\ \A u \in Trx, d \in Engine : engine[u][d] # "active" => engine'[u][d] # "active"
      BY <3>1 DEF CountInv, TypeOK
    <3> QED BY <2>2, <3>2, EngineOnly DEF CommitEngine
  <2> QED BY <1>3, <2>1, <2>2 DEF Committing
<1>4. ASSUME NEW p \in Thread, Logging(p) PROVE CountInv'
  <2>1. CASE LockAfterSync(p)
    BY <1>1, <2>1, LockAfterSyncCounts
  <2>2. CASE CommitOrdered(p)
    BY <1>1, <2>2, CommitOrderedCounts
  <2>3. CASE RotateLink(p)
    BY <1>1, <2>3, RotateLinkCounts
  <2>4. ASSUME NEW e \in Checkpoint, RequestCheckpoint(p, e) PROVE CountInv'
    BY <1>1, <2>4, RequestCheckpointCounts
  <2>5. CASE MarkXidDone(p)
    BY <1>1, <2>5, MarkXidDoneCounts
  <2>6. CASE TrimList(p)
    BY <1>1, <2>6, TrimListCounts
  <2>7. CASE CheckpointEvent(p)
    BY <1>1, <2>7, CheckpointEventCounts
  <2>8. CASE PurgeExpired(p)
    BY <1>1, <2>8, PurgeExpiredCounts
  <2> QED BY <1>4, <2>1, <2>2, <2>3, <2>4, <2>5, <2>6, <2>7, <2>8 DEF Logging
<1>5. ASSUME Notices PROVE CountInv'
  BY <1>1, <1>5, CheckpointNotifyCounts DEF Notices
<1>6. ASSUME BackgroundThread PROVE CountInv'
  BY <1>1, <1>6, GrabQueueCounts, ReadCountCounts, ReadNextCounts DEF BackgroundThread
<1>7. ASSUME ResetMaster PROVE CountInv'
  BY <1>1, <1>7, ResetWaitCounts, ResetLockCounts, ResetRequestCounts, ResetFilesCounts
     DEF ResetMaster
<1>8. ASSUME NEW t \in Trx, Transaction(t) PROVE CountInv'
  <2>1. ASSUME NEW e \in Engine, Prepare(t, e) PROVE CountInv'
    <3>1. engine' = [engine EXCEPT ![t][e] = "prepared"]
      BY <2>1 DEF Prepare
    <3>2. /\ engine' \in [Trx -> [Engine -> {"active", "prepared", "committed", "durable",
                                            "rolledback"}]]
          /\ \A u \in Trx, d \in Engine : engine[u][d] # "active" => engine'[u][d] # "active"
      BY <3>1 DEF CountInv, TypeOK
    <3> QED BY <2>1, <3>2, EngineOnly DEF Prepare
  <2>2. ASSUME NEW group \in SUBSET Trx, WriteGroup(t, group) PROVE CountInv'
    BY <1>1, <2>2, WriteGroupCounts
  <2>3. CASE RotateLeader(t)
    <3>1. Rotate(t, "log") /\ th[t].pc = "log" /\ ~th[t].rotated /\ logLock = t
      BY <2>3 DEF RotateLeader
    <3> QED BY <1>1, <3>1, RotateCounts
  <2> QED BY <1>8, <2>1, <2>2, <2>3 DEF Transaction
<1>9. ASSUME NEW s \in Session, RotateSession(s) PROVE CountInv'
  <2>1. PICK after \in Rotation : Rotate(s, after)
    BY <1>9, EngineAssumption DEF RotateSession, RotateWrite, FlushLogs
  <2>2. th[s].pc = "idle" /\ logLock = NoThread
    BY <1>9 DEF RotateSession, RotateWrite, FlushLogs
  <2> QED BY <1>1, <2>1, <2>2, RotateCounts
<1>10. ASSUME NEW e \in Checkpoint, EngineFlush(e) PROVE CountInv'
  <2>1. engine' = [t \in Trx |->
          [engine[t] EXCEPT ![e] = IF @ = "committed" THEN "durable" ELSE @]]
    BY <1>10 DEF EngineFlush
  <2>2. /\ engine' \in [Trx -> [Engine -> {"active", "prepared", "committed", "durable",
                                          "rolledback"}]]
        /\ \A u \in Trx, d \in Engine : engine[u][d] # "active" => engine'[u][d] # "active"
    BY <2>1 DEF CountInv, TypeOK
  <2> QED BY <1>10, <2>2, EngineOnly DEF EngineFlush
<1>11. CASE Work
  BY <1>3, <1>4, <1>5, <1>6, <1>7, <1>11 DEF Work
<1>12. CASE Optional
  BY <1>1, <1>8, <1>9, <1>10, <1>12, ResetStartCounts, PurgeCounts DEF Optional
<1> QED BY <1>11, <1>12

\* Every step keeps the invariant.
LEMMA NextCounts ==
  ASSUME CountInv, OneCheckpointEngine, [Next]_vars
  PROVE  CountInv'
<1>1. ASSUME NEW e \in Engine, RecoverEngine(e) PROVE CountInv'
  <2>1. engine' = [t \in Trx |-> [engine[t] EXCEPT ![e] =
                     IF @ # "prepared" THEN @
                     ELSE IF t \in Scanned THEN "durable" ELSE "rolledback"]]
    BY <1>1 DEF RecoverEngine
  <2>2. /\ engine' \in [Trx -> [Engine -> {"active", "prepared", "committed", "durable",
                                          "rolledback"}]]
        /\ \A u \in Trx, d \in Engine : engine[u][d] # "active" => engine'[u][d] # "active"
    BY <2>1 DEF CountInv, TypeOK
  <2> QED BY <1>1, <2>2, EngineOnly DEF RecoverEngine
<1>2. CASE Recovery
  BY <1>1, <1>2, RecoverAbortsCounts, RestartCounts DEF Recovery
<1>3. CASE UNCHANGED vars
  <2>1. UNCHANGED <<disk, list, th, locks, notices, server, left>> /\ engine' = engine
    BY <1>3 DEF vars
  <2>2. /\ engine' \in [Trx -> [Engine -> {"active", "prepared", "committed", "durable",
                                          "rolledback"}]]
        /\ \A u \in Trx, d \in Engine : engine[u][d] # "active" => engine'[u][d] # "active"
    BY <2>1 DEF CountInv, TypeOK
  <2> QED BY <2>1, <2>2, EngineOnly
<1> QED BY <1>2, <1>3, UpCounts, CrashCounts DEF Next, Terminated

\* What the invariant says of a count is what CountsExact says of it.
LEMMA CountInvExact == CountInv => TypeOK /\ CountsExact
<1> SUFFICES ASSUME CountInv PROVE CountsExact
  BY DEF CountInv
<1>1. ASSUME NEW f \in Files PROVE OwedByBackground(f) = Behind(f)
  <2>1. bg.again = 0 /\ queue.notify[f] = 0
    BY DEF CountInv, QueueShape
  <2> QED BY <2>1 DEF OwedByBackground, Behind, InQueue, Grabbed
<1> QED BY <1>1 DEF CountInv, Exact, CountsExact, Unlogs, Dones, Asked

\* While no more than one engine has commit_checkpoint_request(), every count of
\* pending XIDs is what mark_xid_done() will still take from it, and never negative.
THEOREM CountsAreExact == OneCheckpointEngine => (Spec => [](TypeOK /\ CountsExact))
<1> DEFINE Inv == CountInv /\ OneCheckpointEngine
<1>1. OneCheckpointEngine /\ Init => Inv
  BY InitCounts
<1>2. Inv /\ [Next]_vars => Inv'
  BY NextCounts DEF OneCheckpointEngine
<1>3. Inv => TypeOK /\ CountsExact
  BY CountInvExact
<1> QED BY <1>1, <1>2, <1>3, PTL DEF Spec

\* The place where recovery starts moves forward only.
LEMMA ScanAdvances ==
  ASSUME CountInv, OneCheckpointEngine, [Next]_vars
  PROVE  ScanFrom' >= ScanFrom
<1>1. CountInv'
  BY NextCounts
<1>2. /\ ScanFrom \in Nat /\ ScanFrom' \in Nat /\ ScanFrom <= LastFile
      /\ oldest \in Nat /\ cur \in Nat /\ LastFile \in Nat
  <2>1. LastFile \in index /\ index \subseteq Files
    BY MaxFile DEF LastFile, CountInv, TypeOK, FilesInOrder
  <2> QED BY <1>1, <2>1, FilesNat DEF CountInv, TypeOK, CheckpointsSafe
<1>3. ASSUME ckpt' = ckpt /\ index' = index PROVE ScanFrom' >= ScanFrom
  BY <1>2, <1>3 DEF ScanFrom, LastFile
<1>4. ASSUME NEW p \in Thread, Logging(p), server = "up" PROVE ScanFrom' >= ScanFrom
  <2>1. CASE CheckpointEvent(p)
    BY <1>2, <1>4, <2>1, CheckpointEventCounts
  <2>2. CASE PurgeExpired(p)
    <3>1. LastFile' = LastFile /\ ckpt' = ckpt
      BY <1>4, <2>2, PurgeExpiredCounts
    <3> QED BY <1>2, <3>1 DEF ScanFrom
  <2>3. CASE ~CheckpointEvent(p) /\ ~PurgeExpired(p)
    BY <1>3, <1>4, <2>3 DEF Logging, LockAfterSync, CommitOrdered, RotateLink,
                            RequestCheckpoint, MarkXidDone, TrimList, disk
  <2> QED BY <2>1, <2>2, <2>3
<1>5. ASSUME ResetMaster, server = "up" PROVE ScanFrom' >= ScanFrom
  <2>1. CASE ResetFiles
    BY <1>2, <1>5, <2>1, ResetFilesCounts
  <2>2. CASE ~ResetFiles
    BY <1>3, <1>5, <2>2 DEF ResetMaster, ResetWait, ResetLock, ResetRequest, disk
  <2> QED BY <2>1, <2>2
<1>6. ASSUME Work PROVE ScanFrom' >= ScanFrom
  <2>1. CASE \E t \in Trx : Committing(t)
    BY <1>3, <2>1 DEF Committing, Unlog, CommitEngine, disk
  <2>2. CASE Notices \/ BackgroundThread
    BY <1>3, <2>2 DEF Notices, CheckpointNotify, BackgroundThread, GrabQueue, ReadCount,
                      ReadNext, disk
  <2> QED BY <1>4, <1>5, <1>6, <2>1, <2>2 DEF Work
<1>7. ASSUME NEW p \in Trx \union Session, NEW after, Rotate(p, after), server = "up",
             \/ p \in Trx /\ th[p].pc = "log" /\ ~th[p].rotated /\ logLock = p /\ after = "log"
             \/ p \in Session /\ th[p].pc = "idle" /\ logLock = NoThread /\ after \in Rotation
      PROVE  ScanFrom' >= ScanFrom
  <2>1. ScanFrom' \in oldest .. cur /\ ScanFrom <= oldest
    BY <1>7, RotateCounts
  <2> QED BY <1>2, <2>1
<1>8. ASSUME Optional PROVE ScanFrom' >= ScanFrom
  <2>1. server = "up"
    BY <1>8 DEF Optional
  <2>2. ASSUME NEW t \in Trx, Transaction(t) PROVE ScanFrom' >= ScanFrom
    <3>1. CASE RotateLeader(t)
      BY <1>7, <2>1, <3>1 DEF RotateLeader
    <3>2. CASE ~RotateLeader(t)
      BY <1>3, <2>2, <3>2 DEF Transaction, Prepare, WriteGroup, disk
    <3> QED BY <3>1, <3>2
  <2>3. ASSUME NEW s \in Session, RotateSession(s)
        PROVE  ScanFrom' >= ScanFrom
    BY EngineAssumption, <1>7, <2>1, <2>3 DEF RotateSession, RotateWrite, FlushLogs
  <2>4. ASSUME NEW s \in Session, Purge(s) PROVE ScanFrom' >= ScanFrom
    <3>1. LastFile' = LastFile /\ ckpt' = ckpt
      BY <2>1, <2>4, PurgeCounts
    <3> QED BY <1>2, <3>1 DEF ScanFrom
  <2>5. CASE ResetStart \/ \E e \in Checkpoint : EngineFlush(e)
    BY <1>3, <2>5 DEF ResetStart, EngineFlush, disk
  <2> QED BY <1>8, <2>2, <2>3, <2>4, <2>5 DEF Optional
<1>9. ASSUME Recovery PROVE ScanFrom' >= ScanFrom
  <2>1. CASE Restart
    <3>1. ScanFrom' = LastFile + 1
      BY <2>1, RestartCounts
    <3> QED BY <1>2, <3>1
  <2>2. CASE ~Restart
    BY <1>3, <1>9, <2>2 DEF Recovery, RecoverAborts, RecoverEngine, disk
  <2> QED BY <2>1, <2>2
<1>10. CASE Crash \/ UNCHANGED vars
  BY <1>3, <1>10 DEF Crash, disk, vars
<1> QED BY <1>6, <1>8, <1>9, <1>10 DEF Next, Terminated

\* While no more than one engine has commit_checkpoint_request(), the place where
\* recovery starts never moves back: neither a checkpoint event written late by
\* mark_xid_done(), nor the first one of a new file, nor a purge or a reset does it.
THEOREM CheckpointsOrdered == OneCheckpointEngine => (Spec => CheckpointsInOrder)
<1> DEFINE Inv == CountInv /\ OneCheckpointEngine
<1>1. OneCheckpointEngine /\ Init => Inv
  BY InitCounts
<1>2. Inv /\ [Next]_vars => Inv'
  BY NextCounts DEF OneCheckpointEngine
<1>3. Inv /\ [Next]_vars => [ScanFrom' >= ScanFrom]_vars
  BY ScanAdvances
<1> QED BY <1>1, <1>2, <1>3, PTL DEF Spec, CheckpointsInOrder

\* A file with a count is in the index and in binlog_xid_count_list.
CountedListed ==
  server = "up" =>
    \A f \in Files : count[f] > 0 => f \in index /\ oldest <= f /\ f <= cur

\* The current file is in both, unless the next one is being created.
LEMMA CurrentListed ==
  ASSUME CountInv, server = "up", \A p \in Thread : th[p].pc # "link"
  PROVE  cur \in index /\ oldest <= cur /\ cur \in Nat /\ oldest \in Nat
<1>1. LastFile \in index
  BY MaxFile DEF LastFile, CountInv, TypeOK, FilesInOrder
<1> QED BY <1>1, FilesNat DEF CountInv, TypeOK, FilesInOrder

\* Counts grow in the current file or where there is one already; the list stays.
LEMMA CountsMove ==
  ASSUME CountInv, CountedListed, server = "up", server' = server, oldest' = oldest, cur' = cur,
         index \subseteq index',
         \A f \in Files : count'[f] > 0 => count[f] > 0 \/ (f = cur /\ \A p \in Thread : th[p].pc # "link")
  PROVE  CountedListed'
<1>1. ASSUME NEW f \in Files, count'[f] > 0 PROVE f \in index /\ oldest <= f /\ f <= cur
  <2>1. CASE count[f] > 0
    BY <2>1 DEF CountedListed
  <2>2. CASE f = cur /\ \A p \in Thread : th[p].pc # "link"
    BY <2>2, CurrentListed
  <2> QED BY <1>1, <2>1, <2>2
<1> QED BY <1>1 DEF CountedListed

\* The entries that leave the list, and the files that leave the index, have no count.
LEMMA ListMoves ==
  ASSUME CountInv, CountedListed, server = "up", count' = count, cur <= cur', cur' \in Nat,
         \A f \in index : f \in oldest .. cur => f \in index',
         \A f \in oldest .. cur : count[f] > 0 => oldest' <= f
  PROVE  CountedListed'
<1>1. oldest \in Nat /\ cur \in Nat /\ Files \subseteq Nat
  BY FilesNat DEF CountInv, TypeOK
<1>2. ASSUME NEW f \in Files, count[f] > 0 PROVE f \in index' /\ oldest' <= f /\ f <= cur'
  <2>1. f \in index /\ f \in oldest .. cur
    BY <1>1, <1>2 DEF CountedListed
  <2> QED BY <1>1, <1>2, <2>1
<1> QED BY <1>2 DEF CountedListed

\* A thread with LOCK_log creates no file.
LEMMA NoneLinks ==
  ASSUME CountInv,
         \/ logLock = NoThread
         \/ \E p \in Thread : logLock = p /\ th[p].pc # "link"
  PROVE  \A q \in Thread : th[q].pc # "link"
BY ThreadAssumption DEF CountInv, LocksHeld

\* Every step keeps it.
LEMMA NextKeeps ==
  ASSUME CountInv, CountedListed, OneCheckpointEngine, [Next]_vars
  PROVE  CountedListed'
<1>1. CountInv'
  BY NextCounts
<1>2. /\ Trx \subseteq Thread /\ Session \subseteq Thread /\ Resetter \in Thread
      /\ oldest \in Nat /\ cur \in Nat /\ count \in [Files -> Nat] /\ cur \in Files
      /\ oldest' \in Nat /\ cur' \in Nat
  BY <1>1, FilesNat DEF Thread, CountInv, TypeOK
<1>3. ASSUME UNCHANGED <<index, oldest, cur, count, server>> PROVE CountedListed'
  BY <1>3 DEF CountedListed
<1>4. ASSUME NEW p \in Thread, Logging(p), server = "up" PROVE CountedListed'
  <2>1. CASE LockAfterSync(p) \/ CommitOrdered(p) \/ CheckpointEvent(p)
    BY <1>3, <2>1 DEF LockAfterSync, CommitOrdered, CheckpointEvent, disk, list
  <2>2. CASE RotateLink(p)
    <3> DEFINE S == {i \in oldest .. cur : count[i] # 0} \union {cur + 1}
    <3>1. oldest' = Min(S) /\ cur' = cur + 1 /\ index' = index /\ count' = count
      BY <2>2 DEF RotateLink, FirstNeeded, disk
    <3>2. S \in SUBSET Nat /\ S # {}
      BY <1>2
    <3>3. \A f \in oldest .. cur : count[f] > 0 => f \in S
      BY <1>2
    <3> HIDE DEF S
    <3>4. \A f \in S : oldest' <= f
      BY <3>1, <3>2, MinNat
    <3> QED BY <1>2, <1>4, <3>1, <3>3, <3>4, ListMoves
  <2>3. ASSUME NEW e \in Checkpoint, RequestCheckpoint(p, e) PROVE CountedListed'
    <3>1. /\ UNCHANGED <<index, oldest, cur, server>> /\ th[p].pc = "request"
          /\ count' = [count EXCEPT ![th[p].id] = @ + 1]
      BY <2>3 DEF RequestCheckpoint, disk
    <3>2. th[p].id \in Files /\ p # Background
      BY <3>1 DEF CountInv, Shapes, AskShape, BackgroundShape
    <3>3. count[th[p].id] > 0
      <4>1. p \in Dones(th[p].id)
        BY <3>1, <3>2 DEF Dones, OwesDone
      <4> QED BY <3>2, <4>1, OwedCounts
    <3>4. \A f \in Files : count'[f] > 0 => count[f] > 0
      BY <1>2, <3>1, <3>2, <3>3
    <3> QED BY <1>4, <3>1, <3>4, CountsMove
  <2>4. CASE MarkXidDone(p)
    <3>1. /\ UNCHANGED <<index, oldest, cur, server>> /\ th[p].pc = "done"
          /\ count' = [count EXCEPT ![th[p].id] = @ - 1]
      BY <2>4 DEF MarkXidDone, disk
    <3>2. th[p].id \in Files
      BY <3>1, DoneCounted
    <3>3. ASSUME NEW f \in Files, count'[f] > 0 PROVE count[f] > 0
      <4>1. count[f] \in Int
        BY <1>2
      <4>2. count'[f] = IF f = th[p].id THEN count[f] - 1 ELSE count[f]
        BY <1>2, <3>1
      <4> QED BY <3>3, <4>1, <4>2
    <3> QED BY <1>4, <3>1, <3>3, CountsMove
  <2>5. CASE TrimList(p)
    <3> DEFINE S == {i \in oldest .. cur : count[i] > 0} \union {cur}
    <3>1. oldest' = Min(S) /\ cur' = cur /\ index' = index /\ count' = count
      BY <2>5 DEF TrimList, disk
    <3>2. S \in SUBSET Nat /\ S # {}
      BY <1>2
    <3>3. \A f \in oldest .. cur : count[f] > 0 => f \in S
      OBVIOUS
    <3> HIDE DEF S
    <3>4. \A f \in S : oldest' <= f
      BY <3>1, <3>2, MinNat
    <3> QED BY <1>2, <1>4, <3>1, <3>3, <3>4, ListMoves
  <2>6. CASE PurgeExpired(p)
    <3>1. UNCHANGED <<oldest, cur, count>>
      BY <2>6 DEF PurgeExpired, list
    <3>2. \A f \in index : f \in oldest .. cur => f \in index'
      BY <2>6, PurgeExpiredFiles
    <3> QED BY <1>2, <1>4, <3>1, <3>2, ListMoves
  <2> QED BY <1>4, <2>1, <2>2, <2>3, <2>4, <2>5, <2>6 DEF Logging
<1>5. ASSUME ResetMaster, server = "up" PROVE CountedListed'
  <2>1. CASE ResetWait \/ ResetLock
    BY <1>3, <2>1 DEF ResetWait, ResetLock, disk, list
  <2>2. CASE ResetRequest
    <3>1. /\ UNCHANGED <<index, oldest, cur, server>>
          /\ count' = [count EXCEPT ![cur] = @ + 1]
          /\ th[Resetter].pc = "resetorder"
      BY <2>2 DEF ResetRequest, disk
    <3>2. \A q \in Thread : th[q].pc # "link"
      BY <1>2, <3>1, NoneLinks DEF CountInv, LocksHeld
    <3>3. \A f \in Files : count'[f] > 0 => count[f] > 0 \/ f = cur
      BY <1>2, <3>1
    <3> QED BY <1>5, <3>1, <3>2, <3>3, CountsMove
  <2>3. CASE ResetFiles
    <3>1. count' = count /\ \A i \in oldest .. cur : count[i] <= 0
      BY <2>3 DEF ResetFiles
    <3>2. \A f \in Files : ~(count[f] > 0)
      BY <1>2, <1>5, <3>1, FilesNat DEF CountedListed
    <3> QED BY <3>1, <3>2 DEF CountedListed
  <2> QED BY <1>5, <2>1, <2>2, <2>3 DEF ResetMaster
<1>6. CASE Work
  <2>1. CASE \E t \in Trx : Committing(t)
    BY <1>3, <2>1 DEF Committing, Unlog, CommitEngine, disk, list
  <2>2. CASE Notices \/ BackgroundThread
    BY <1>3, <2>2 DEF Notices, CheckpointNotify, BackgroundThread, GrabQueue, ReadCount,
                      ReadNext, disk, list
  <2> QED BY <1>4, <1>5, <1>6, <2>1, <2>2 DEF Work
<1>7. ASSUME NEW p \in Thread, NEW after, Rotate(p, after), server = "up",
             logLock = NoThread \/ (logLock = p /\ th[p].pc # "link")
      PROVE  CountedListed'
  <2>1. /\ UNCHANGED <<oldest, cur, server>> /\ index \subseteq index'
        /\ count' = [count EXCEPT ![cur] = @ + 1]
    BY <1>7 DEF Rotate
  <2>2. \A q \in Thread : th[q].pc # "link"
    BY <1>7, NoneLinks
  <2>3. \A f \in Files : count'[f] > 0 => count[f] > 0 \/ f = cur
    BY <1>2, <2>1
  <2> QED BY <1>7, <2>1, <2>2, <2>3, CountsMove
<1>8. CASE Optional
  <2>1. server = "up"
    BY <1>8 DEF Optional
  <2>2. ASSUME NEW t \in Trx, Transaction(t) PROVE CountedListed'
    <3>1. CASE RotateLeader(t)
      BY <1>2, <1>7, <2>1, <3>1 DEF RotateLeader
    <3>2. ASSUME NEW group \in SUBSET Trx, WriteGroup(t, group) PROVE CountedListed'
      <4> DEFINE n == Cardinality({u \in group : NeedUnlog(u)})
      <4>1. /\ UNCHANGED <<index, oldest, cur, server>> /\ logLock = NoThread
            /\ count' = [count EXCEPT ![cur] = @ + n]
        BY <3>2 DEF WriteGroup
      <4>2. \A q \in Thread : th[q].pc # "link"
        BY <4>1, NoneLinks
      <4> HIDE DEF n
      <4>3. \A f \in Files : count'[f] > 0 => count[f] > 0 \/ f = cur
        BY <1>2, <4>1
      <4> QED BY <2>1, <4>1, <4>2, <4>3, CountsMove
    <3>3. ASSUME NEW e \in Engine, Prepare(t, e) PROVE CountedListed'
      BY <1>3, <3>3 DEF Prepare, disk, list
    <3> QED BY <2>2, <3>1, <3>2, <3>3 DEF Transaction
  <2>3. ASSUME NEW s \in Session, RotateSession(s) PROVE CountedListed'
    BY EngineAssumption, <1>2, <1>7, <2>1, <2>3 DEF RotateSession, RotateWrite, FlushLogs
  <2>4. ASSUME NEW s \in Session, Purge(s) PROVE CountedListed'
    <3>1. /\ UNCHANGED <<oldest, cur, count>>
          /\ \A f \in index : f \in oldest .. cur => f \in index'
      BY <2>4 DEF Purge, CanPurge, list
    <3> QED BY <1>2, <2>1, <3>1, ListMoves
  <2>5. CASE ResetStart \/ \E e \in Checkpoint : EngineFlush(e)
    BY <1>3, <2>5 DEF ResetStart, EngineFlush, disk, list
  <2> QED BY <1>8, <2>2, <2>3, <2>4, <2>5 DEF Optional
<1>9. CASE Recovery \/ Crash
  <2>1. CASE Restart
    <3>1. count' = count /\ \A f \in Files : count[f] = 0
      BY <2>1 DEF Restart, CountInv, QuietWhenDown
    <3> QED BY <3>1 DEF CountedListed
  <2>2. CASE ~Restart
    BY <1>9, <2>2 DEF Recovery, RecoverAborts, RecoverEngine, Crash, CountedListed
  <2> QED BY <2>1, <2>2
<1>10. CASE UNCHANGED vars
  BY <1>3, <1>10 DEF vars, disk, list
<1> QED BY <1>6, <1>8, <1>9, <1>10 DEF Next, Terminated

\* While no more than one engine has commit_checkpoint_request(), no purge, be it
\* PURGE BINARY LOGS or that of a thread that rotated, and no RESET MASTER removes a
\* file that still has a count.
THEOREM CountedFilesKept == OneCheckpointEngine => (Spec => []KeptWhileCounted)
<1> DEFINE Inv == CountInv /\ CountedListed /\ OneCheckpointEngine
<1>1. OneCheckpointEngine /\ Init => Inv
  <2>1. Init => CountedListed
    BY DEF Init, CountedListed
  <2> QED BY <2>1, InitCounts
<1>2. Inv /\ [Next]_vars => Inv'
  BY NextCounts, NextKeeps DEF OneCheckpointEngine
<1>3. Inv => KeptWhileCounted
  BY DEF CountedListed, KeptWhileCounted
<1> QED BY <1>1, <1>2, <1>3, PTL DEF Spec

-----------------------------------------------------------------------------
(***************************************************************************)
(* Crash recovery finds what it needs.                                     *)
(***************************************************************************)

\* The kinds of threads are apart, and participants are engines.
LEMMA Kinds ==
  /\ Trx \subseteq Thread /\ Session \subseteq Thread
  /\ Background \in Thread /\ Resetter \in Thread
  /\ Background \notin Trx \union Session
  /\ Resetter \notin Trx \union Session \union {Background}
  /\ Trx \intersect Session = {} /\ NoThread \notin Thread
  /\ \A t \in Trx : Participants(t) \subseteq Engine
BY ThreadAssumption, EngineAssumption DEF Thread, Participants

\* A group is in one file, for which its leader or a thread behind it will ask for a
\* checkpoint, unless that is the current file.
LEMMA GroupNeeds ==
  ASSUME CountInv, RecoverInv, NEW t \in Trx, InGroup(t), Participants(t) # {},
         NEW f \in Files, t \in xids[f]
  PROVE  \/ f = cur /\ ~ResetAsked
         \/ \E p \in Thread : /\ Asks(p) /\ OwesDone(p, f) /\ th[p].id = f
                              /\ th[p].pc \in Leading /\ th[p].rotated
<1>1. PICK l \in Trx : th[l].pc \in Leading /\ t \in th[l].group
  BY DEF InGroup, RecoverInv, FollowersLed, CountInv, GroupsWait
<1>2. l \in Thread /\ l # Background /\ th[l].pc \in {"log", "link", "sync"}
  BY <1>1, Kinds DEF Leading
<1>3. \A g \in Files : t \in xids[g] => g = f
  BY DEF CountInv, LoggedOnce
<1>4. CASE th[l].rotated
  <2>1. t \in xids[th[l].id] /\ th[l].id \in Files
    BY <1>1, <1>2, <1>4 DEF RecoverInv, GroupsFile, CountInv, Shapes, AskShape
  <2>2. th[l].id = f
    BY <1>3, <2>1
  <2> QED BY <1>1, <1>2, <1>4, <2>2 DEF Asks, OwesDone
<1>5. CASE ~th[l].rotated /\ t \in xids[cur]
  <2>1. cur = f
    BY <1>3, <1>5 DEF CountInv, TypeOK
  <2>2. ~ResetAsked
    BY <1>2, Kinds DEF CountInv, LocksHeld
  <2> QED BY <2>1, <2>2
<1>6. CASE ~th[l].rotated /\ t \notin xids[cur]
  <2>1. PICK p \in Thread : th[p].pc = "log" /\ th[p].rotated /\ t \in xids[th[p].id]
    BY <1>1, <1>6 DEF RecoverInv, GroupsFile
  <2>2. th[p].id \in Files /\ p # Background
    BY <2>1 DEF CountInv, Shapes, AskShape, BackgroundShape
  <2>3. th[p].id = f
    BY <1>3, <2>1, <2>2
  <2> QED BY <2>1, <2>2, <2>3 DEF Asks, OwesDone, Leading
<1> QED BY <1>4, <1>5, <1>6

\* The file of a transaction that recovery may need has a count, but for the current
\* one while RESET MASTER has not asked for its checkpoint.
LEMMA NeededCounted ==
  ASSUME CountInv, RecoverInv, UnlogsCounted, server = "up",
         NEW f \in Files, NEW t \in xids[f], NEW e \in Participants(t),
         engine[t][e] \in {"prepared", "committed"}
  PROVE  count[f] > 0 \/ (f = cur /\ ~ResetAsked)
<1>1. t \in Trx /\ e \in Engine /\ Participants(t) # {}
  BY Kinds DEF CountInv, TypeOK
<1>2. Unlogs(f) # {} \/ Dones(f) # {} \/ Asked(f) # {} => count[f] > 0
  BY OwedCounts
<1>3. CASE InGroup(t)
  BY <1>1, <1>2, <1>3, GroupNeeds DEF Dones
<1>4. CASE ToCommit(t) /\ e \notin Checkpoint
  <2>1. NeedUnlog(t)
    BY <1>1, <1>4 DEF UnlogsCounted
  <2>2. t \in Unlogs(f)
    BY <1>1, <1>4, <2>1 DEF Unlogs, OwesUnlog, ToCommit
  <2> QED BY <1>2, <2>2
<1>5. CASE engine[t][e] = "committed"
  <2>1. e \in Participants(t) \intersect Checkpoint
    BY <1>1, <1>5 DEF RecoverInv, CommittedUp
  <2>2. f <= cur /\ f \in Nat /\ cur \in Nat
    BY FilesNat DEF RecoverInv, NeededKept, CountInv, TypeOK
  <2>3. CASE f = cur /\ ~ResetAsked
    BY <2>3
  <2>4. CASE f < cur \/ ResetAsked
    <3>1. \/ \E p \in Thread : Asks(p) /\ th[p].id = f
          \/ \E r \in requests : r.id = f /\ t \in r.need
      BY <1>5, <2>1, <2>4 DEF RecoverInv, CommittedAsked
    <3>2. ASSUME NEW p \in Thread, Asks(p), th[p].id = f PROVE p \in Dones(f)
      BY <3>2 DEF Dones, OwesDone, Asks, CountInv, Shapes, TrxShape, SessionShape,
                  ResetterShape, Leading, Thread
    <3> QED BY <1>2, <3>1, <3>2 DEF Asked
  <2> QED BY <2>2, <2>3, <2>4
<1>6. CASE engine[t][e] = "prepared"
  BY <1>3, <1>4, <1>6 DEF RecoverInv, PreparedWaits
<1> QED BY <1>5, <1>6

\* A step of a thread that leads no group, waits in none and keeps its request.
LEMMA ElsewhereRecovers ==
  ASSUME CountInv, RecoverInv, NEW p \in Thread, NeededKept',
         xids' = xids, engine' = engine, cur' = cur, server' = server, requests' = requests,
         \A q \in Thread : q # p => th'[q] = th[q],
         th[p].pc \notin {"logged"} \union Leading,
         th'[p].pc \notin {"logged"} \union Leading,
         p \in Trx /\ ToCommit(p) => ToCommit(p)', ~Asks(p),
         ResetAsked' => ResetAsked
  PROVE  RecoverInv'
<1>1. RecoveryAgrees' /\ CommittedUp' /\ RequestsServed'
  BY DEF RecoverInv, RecoveryAgrees, Logged, CommittedUp, RequestsServed
<1>2. Trx \subseteq Thread
  BY Kinds
<1>3. \A t \in Trx : (InGroup(t)' <=> InGroup(t)) /\ (ToCommit(t) => ToCommit(t)')
  BY <1>2 DEF InGroup, ToCommit
<1>4. PreparedWaits'
  <2>1. \A f \in Files : xids[f] \subseteq Trx
    BY DEF CountInv, TypeOK
  <2> QED BY <1>3, <2>1 DEF RecoverInv, PreparedWaits
<1>5. \A q \in Thread : th[q].pc \in Leading \/ th'[q].pc \in Leading => th'[q] = th[q]
  OBVIOUS
<1>6. FollowersLed' /\ GroupsPrepared'
  BY <1>2, <1>5 DEF RecoverInv, FollowersLed, GroupsPrepared
<1>7. GroupsFile'
  <2>1. \A q \in Thread : th[q].pc = "log" => th'[q] = th[q]
    BY <1>5 DEF Leading
  <2> QED BY <1>2, <1>5, <2>1 DEF RecoverInv, GroupsFile
<1>8. CommittedAsked'
  <2>1. \A q \in Thread : Asks(q) => Asks(q)' /\ th'[q].id = th[q].id
    BY DEF Asks
  <2> QED BY <2>1 DEF RecoverInv, CommittedAsked
<1> QED BY <1>1, <1>4, <1>6, <1>7, <1>8 DEF RecoverInv

\* An engine does something, and answers requests at most.
LEMMA EngineRecovers ==
  ASSUME CountInv, RecoverInv,
         xids' = xids, ckpt' = ckpt, index' = index, cur' = cur, oldest' = oldest, th' = th,
         server' = server,
         RecoveryAgrees', CommittedUp', RequestsServed', GroupsPrepared', CommittedAsked',
         \A f \in Files : \A t \in xids[f] : \A e \in Participants(t) :
           /\ engine'[t][e] = "prepared" => engine[t][e] = "prepared"
           /\ engine'[t][e] = "committed" => engine[t][e] = "committed"
  PROVE  RecoverInv'
<1>1. PreparedWaits'
  BY DEF RecoverInv, PreparedWaits, InGroup, ToCommit
<1>2. FollowersLed' /\ GroupsFile'
  BY DEF RecoverInv, FollowersLed, GroupsFile
<1>3. NeededKept'
  BY DEF RecoverInv, NeededKept, ScanFrom, LastFile
<1> QED BY <1>1, <1>2, <1>3 DEF RecoverInv

\* What recovery needs does not depend on a step that leaves files and engines alone.
LEMMA SameNeeded ==
  ASSUME RecoverInv, xids' = xids, engine' = engine, ckpt' = ckpt, index' = index,
         cur' = cur, oldest' = oldest, server' = server
  PROVE  NeededKept'
BY DEF RecoverInv, NeededKept, ScanFrom, LastFile

\* The background thread moves between memory only.
LEMMA BackgroundRecovers ==
  ASSUME CountInv, RecoverInv, BackgroundThread
  PROVE  RecoverInv'
<1>1. /\ xids' = xids /\ engine' = engine /\ ckpt' = ckpt /\ index' = index /\ cur' = cur
      /\ oldest' = oldest /\ server' = server /\ requests' = requests
  BY DEF BackgroundThread, GrabQueue, ReadCount, ReadNext, disk, list
<1>2. PICK s : th' = [th EXCEPT ![Background] = s] /\ s.pc \in {"count", "next", "done"}
  <2>1. th \in [Thread -> ThreadState] /\ th[Background] \in ThreadState
    BY Kinds DEF CountInv, TypeOK
  <2>2. \A pc \in PC : [th[Background] EXCEPT !.pc = pc].pc = pc
    BY <2>1 DEF ThreadState
  <2>3. \A pc \in PC : Goto(Background, pc) = [th EXCEPT ![Background] =
                                                 [th[Background] EXCEPT !.pc = pc]]
    BY <2>1 DEF Goto
  <2>4. "count" \in PC /\ "next" \in PC
    BY DEF PC
  <2>5. CASE GrabQueue
    BY <2>2, <2>3, <2>4, <2>5 DEF GrabQueue
  <2>6. CASE ReadCount
    BY <2>2, <2>3, <2>4, <2>6 DEF ReadCount
  <2>7. CASE ReadNext
    <3>1. [At("done") EXCEPT !.id = bg.entry].pc = "done"
      BY DEF At
    <3> QED BY <2>7, <3>1 DEF ReadNext
  <2> QED BY <2>5, <2>6, <2>7 DEF BackgroundThread
<1>3. /\ \A q \in Thread : q # Background => th'[q] = th[q]
      /\ th'[Background].pc \in {"count", "next", "done"}
  BY <1>2, Kinds DEF CountInv, TypeOK
<1>4. th[Background].pc \notin {"logged"} \union Leading
  BY DEF CountInv, Shapes, BackgroundShape, Leading
<1>5. ResetAsked' => ResetAsked
  BY <1>3, Kinds DEF ResetAsked
<1>6. ~Asks(Background) /\ NeededKept'
  BY <1>1, SameNeeded DEF Asks
<1> QED BY <1>1, <1>3, <1>4, <1>5, <1>6, Kinds, ElsewhereRecovers DEF Leading

\* RESET MASTER until it asks for its checkpoint.
LEMMA ResetRecovers ==
  ASSUME CountInv, RecoverInv, ResetStart \/ ResetWait \/ ResetLock
  PROVE  RecoverInv'
<1>1. /\ xids' = xids /\ engine' = engine /\ ckpt' = ckpt /\ index' = index /\ cur' = cur
      /\ oldest' = oldest /\ server' = server /\ requests' = requests
  BY DEF ResetStart, ResetWait, ResetLock, disk, list, notices
<1>2. PICK pc \in {"resetwait", "resetlock", "resetorder"} : th' = Goto(Resetter, pc)
  BY DEF ResetStart, ResetWait, ResetLock
<1>3. /\ \A q \in Thread : q # Resetter => th'[q] = th[q]
      /\ th'[Resetter].pc \in {"resetwait", "resetlock", "resetorder"}
  BY <1>2, MovesTo, Kinds DEF CountInv, PC
<1>4. /\ th[Resetter].pc \notin {"logged"} \union Leading
      /\ th[Resetter].pc \in {"idle", "resetwait", "resetlock"} /\ ~th[Resetter].rotated
  BY DEF ResetStart, ResetWait, ResetLock, CountInv, Shapes, ResetterShape, Leading
<1>5. ~ResetAsked'
  BY <1>3 DEF ResetAsked
<1>6. ~Asks(Resetter) /\ NeededKept'
  BY <1>1, <1>4, SameNeeded DEF Asks
<1> QED BY <1>1, <1>3, <1>4, <1>5, <1>6, Kinds, ElsewhereRecovers DEF Leading

\* Where a thread goes on after mark_xid_done() or a checkpoint event.
LEMMA ReturnRecovers ==
  ASSUME CountInv, RecoverInv, NEW p \in Thread, th[p].pc \in {"done", "checkpoint", "event"},
         xids' = xids, engine' = engine, cur' = cur, server' = server, requests' = requests,
         \A q \in Thread : q # p => th'[q] = th[q],
         \/ th'[p].pc \in {"checkpoint", "event"} /\ th'[p].ret = th[p].ret
         \/ th'[p].pc = th[p].ret /\ p # Background
         \/ th'[p].pc \in {"wait", "count"} /\ p = Background,
         NeededKept'
  PROVE  RecoverInv'
<1>1. /\ ~Asks(p)
      /\ p \in Trx => th[p].ret \in {"purge", "end"}
      /\ p \in Session => th[p].ret = "purge"
      /\ p = Resetter => th[p].ret = "resetidle" /\ th[p].pc = "done"
  BY DEF Asks, CountInv, Shapes, TrxShape, SessionShape, ResetterShape, BackgroundShape,
         Leading, Thread
<1>2. th'[p].pc \notin {"logged"} \union Leading /\ th[p].pc \notin {"logged"} \union Leading
  BY <1>1 DEF Thread, Leading
<1>3. p \in Trx /\ ToCommit(p) => ToCommit(p)'
  BY <1>1, Kinds DEF ToCommit
<1>4. ResetAsked' => ResetAsked
  BY <1>1, Kinds DEF ResetAsked
<1> QED BY <1>1, <1>2, <1>3, <1>4, ElsewhereRecovers

\* mark_xid_done() changes a count, which recovery does not see.
LEMMA MarkXidDoneRecovers ==
  ASSUME CountInv, RecoverInv, NEW p \in Thread, MarkXidDone(p)
  PROVE  RecoverInv'
<1>1. /\ xids' = xids /\ engine' = engine /\ ckpt' = ckpt /\ index' = index /\ cur' = cur
      /\ oldest' = oldest /\ server' = server /\ requests' = requests /\ queue' = queue
      /\ th[p].pc = "done"
  BY DEF MarkXidDone, disk
<1>2. NeededKept'
  BY <1>1, SameNeeded
<1>3. CASE Return(p)
  <2>1. /\ \A q \in Thread : q # p => th'[q] = th[q]
        /\ p # Background => th'[p].pc = th[p].ret
        /\ p = Background => th'[p].pc = IF bg.next = None THEN "wait" ELSE "count"
    BY <1>1, <1>3, Returns
  <2> QED BY <1>1, <1>2, <2>1, ReturnRecovers
<1>4. CASE th' = Goto(p, "checkpoint")
  <2>1. /\ \A q \in Thread : q # p => th'[q] = th[q]
        /\ th'[p].pc = "checkpoint" /\ th'[p].ret = th[p].ret
    BY <1>4, MovesTo DEF CountInv, PC
  <2> QED BY <1>1, <1>2, <2>1, ReturnRecovers
<1> QED BY <1>3, <1>4 DEF MarkXidDone

\* The checkpoint event names the oldest file, and none before it is needed.
LEMMA CheckpointEventRecovers ==
  ASSUME CountInv, RecoverInv, server = "up", NEW p \in Thread, CheckpointEvent(p)
  PROVE  RecoverInv'
<1>1. /\ xids' = xids /\ engine' = engine /\ index' = index /\ cur' = cur
      /\ oldest' = oldest /\ server' = server /\ requests' = requests /\ queue' = queue
      /\ th[p].pc = "event" /\ Return(p)
  BY DEF CheckpointEvent, list
<1>2. ScanFrom' = oldest
  BY CheckpointEventCounts
<1>3. NeededKept'
  BY <1>1, <1>2 DEF RecoverInv, NeededKept
<1>4. /\ \A q \in Thread : q # p => th'[q] = th[q]
      /\ p # Background => th'[p].pc = th[p].ret
      /\ p = Background => th'[p].pc = IF bg.next = None THEN "wait" ELSE "count"
  BY <1>1, Returns
<1> QED BY <1>1, <1>3, <1>4, ReturnRecovers

\* The entries that go have no count, so recovery needs nothing of their files.
LEMMA TrimListRecovers ==
  ASSUME CountInv, RecoverInv, UnlogsCounted, server = "up", NEW p \in Thread, TrimList(p)
  PROVE  RecoverInv'
<1>1. /\ xids' = xids /\ engine' = engine /\ ckpt' = ckpt /\ index' = index /\ cur' = cur
      /\ server' = server /\ requests' = requests /\ th[p].pc = "checkpoint"
      /\ oldest' = Min({i \in oldest .. cur : count[i] > 0} \union {cur})
      /\ th' = Goto(p, "event")
  BY DEF TrimList, disk, notices, Goto
<1>2. /\ \A q \in Thread : q # p => th'[q] = th[q]
      /\ th'[p].pc = "event" /\ th'[p].ret = th[p].ret
  BY <1>1, MovesTo DEF CountInv, PC
<1> DEFINE S == {i \in oldest .. cur : count[i] > 0} \union {cur}
<1>3. oldest \in Nat /\ cur \in Nat /\ S \in SUBSET Nat /\ S # {}
  BY FilesNat DEF CountInv, TypeOK
<1>4. \A y \in S : oldest' <= y
  <2>1. oldest' = Min(S)
    BY <1>1
  <2> HIDE DEF S
  <2> QED BY <1>3, <2>1, MinNat
<1>5. ASSUME NEW f \in Files, NEW t \in xids[f], NEW e \in Participants(t),
             engine[t][e] \in {"prepared", "committed"}
      PROVE  f \in index /\ ScanFrom <= f /\ oldest' <= f /\ f <= cur
  <2>1. f \in index /\ ScanFrom <= f /\ oldest <= f /\ f <= cur /\ f \in Nat
    BY <1>5, FilesNat DEF RecoverInv, NeededKept
  <2>2. count[f] > 0 \/ f = cur
    BY <1>5, NeededCounted
  <2>3. f \in S
    BY <1>3, <2>1, <2>2
  <2> QED BY <1>4, <2>1, <2>3
<1>6. NeededKept'
  <2>1. ScanFrom' = ScanFrom
    BY <1>1 DEF ScanFrom, LastFile
  <2> QED BY <1>1, <1>5, <2>1 DEF NeededKept
<1> QED BY <1>1, <1>2, <1>6, ReturnRecovers

\* A file before the oldest counted one is not needed.
LEMMA PurgeRecovers ==
  ASSUME CountInv, RecoverInv, server = "up", NEW s \in Session, Purge(s)
  PROVE  RecoverInv'
<1>1. /\ xids' = xids /\ engine' = engine /\ ckpt' = ckpt /\ cur' = cur /\ oldest' = oldest
      /\ server' = server /\ requests' = requests /\ th' = th
      /\ index' = index \ {Min(index)} /\ Min(index) \notin oldest .. cur
  BY DEF Purge, CanPurge, list, notices
<1>2. LastFile' = LastFile
  BY PurgeCounts
<1>3. NeededKept'
  <2>1. ScanFrom' = ScanFrom
    BY <1>1, <1>2 DEF ScanFrom
  <2>2. oldest \in Nat /\ cur \in Nat /\ Files \subseteq Nat
    BY FilesNat DEF CountInv, TypeOK
  <2>3. \A f \in Files : f \in index /\ oldest <= f /\ f <= cur => f \in index'
    BY <1>1, <2>2
  <2> QED BY <1>1, <2>1, <2>3 DEF RecoverInv, NeededKept
<1>4. CommittedAsked'
  BY <1>1 DEF RecoverInv, CommittedAsked, ResetAsked, Asks
<1>5. PreparedWaits' /\ FollowersLed' /\ GroupsPrepared' /\ GroupsFile'
  BY <1>1 DEF RecoverInv, PreparedWaits, InGroup, ToCommit, FollowersLed, GroupsPrepared,
              GroupsFile
<1>6. RecoveryAgrees' /\ CommittedUp' /\ RequestsServed'
  BY <1>1 DEF RecoverInv, RecoveryAgrees, Logged, CommittedUp, RequestsServed
<1> QED BY <1>3, <1>4, <1>5, <1>6 DEF RecoverInv

\* Nor is one that a rotating thread removes.
LEMMA PurgeExpiredRecovers ==
  ASSUME CountInv, RecoverInv, server = "up", NEW p \in Thread, PurgeExpired(p)
  PROVE  RecoverInv'
<1>1. /\ xids' = xids /\ engine' = engine /\ ckpt' = ckpt /\ cur' = cur /\ oldest' = oldest
      /\ server' = server /\ requests' = requests
  BY DEF PurgeExpired, list, notices
<1>2. /\ LastFile' = LastFile
      /\ \A f \in index : f \in oldest .. cur => f \in index'
      /\ p \in Trx \union Session /\ th[p].pc = "purge" /\ ~th[p].rotated
      /\ \A q \in Thread : q # p => th'[q] = th[q]
      /\ th'[p].pc = (IF p \in Trx THEN "commit" ELSE "idle")
  BY PurgeExpiredFiles
<1>3. NeededKept'
  <2>1. ScanFrom' = ScanFrom
    BY <1>1, <1>2 DEF ScanFrom
  <2>2. oldest \in Nat /\ cur \in Nat /\ Files \subseteq Nat
    BY FilesNat DEF CountInv, TypeOK
  <2> QED BY <1>1, <1>2, <2>1, <2>2 DEF RecoverInv, NeededKept
<1>4. /\ th[p].pc \notin {"logged"} \union Leading /\ th'[p].pc \notin {"logged"} \union Leading
      /\ p \in Trx /\ ToCommit(p) => ToCommit(p)'
      /\ ~Asks(p)
  BY <1>2 DEF Leading, ToCommit, Asks
<1>5. ResetAsked' => ResetAsked
  BY <1>2, Kinds DEF ResetAsked
<1> QED BY <1>1, <1>2, <1>3, <1>4, <1>5, ElsewhereRecovers

\* ha_prepare(): a transaction with a part that is not prepared is not logged.
LEMMA PrepareRecovers ==
  ASSUME CountInv, RecoverInv, NEW t \in Trx, NEW e \in Engine, Prepare(t, e)
  PROVE  RecoverInv'
<1>1. /\ xids' = xids /\ ckpt' = ckpt /\ index' = index /\ cur' = cur /\ oldest' = oldest
      /\ th' = th /\ server' = server /\ requests' = requests
      /\ th[t].pc = "idle" /\ e \in Participants(t) /\ engine[t][e] = "active"
  BY DEF Prepare, disk, list, notices
<1>2. /\ engine'[t][e] = "prepared"
      /\ \A u \in Trx, d \in Engine : u # t \/ d # e => engine'[u][d] = engine[u][d]
  BY DEF Prepare, CountInv, TypeOK
<1>3. \A f \in Files : t \notin xids[f] /\ xids[f] \subseteq Trx
  BY <1>1 DEF CountInv, LoggedPrepared, TypeOK
<1>4. RecoveryAgrees' /\ CommittedUp' /\ RequestsServed'
  <2>1. RecoveryAgrees'
    BY <1>1, <1>2, Kinds DEF RecoverInv, RecoveryAgrees, Logged
  <2>2. CommittedUp'
    BY <1>1, <1>2 DEF RecoverInv, CommittedUp
  <2>3. \A r \in requests : r.engine \in Engine /\ r.need \subseteq Trx
    BY EngineAssumption DEF CountInv, TypeOK, Request
  <2>4. RequestsServed'
    BY <1>1, <1>2, <2>3 DEF RecoverInv, RequestsServed
  <2> QED BY <2>1, <2>2, <2>4
<1>5. \A f \in Files : \A u \in xids[f] : \A d \in Participants(u) :
        engine'[u][d] = engine[u][d]
  BY <1>2, <1>3, Kinds
<1>6. GroupsPrepared'
  <2>1. \A l \in Trx : th[l].pc \in Leading => th[l].group \subseteq Trx \ {t}
    BY <1>1, GroupOf, Kinds DEF Leading
  <2> QED BY <1>1, <1>2, <2>1, Kinds DEF RecoverInv, GroupsPrepared
<1>7. CommittedAsked'
  BY <1>1, <1>5 DEF RecoverInv, CommittedAsked, Asks, ResetAsked
<1> QED BY <1>1, <1>4, <1>5, <1>6, <1>7, EngineRecovers

\* commit() in an engine without commit_checkpoint_request().
LEMMA CommitEngineRecovers ==
  ASSUME CountInv, RecoverInv, NEW t \in Trx, NEW e \in Engine, CommitEngine(t, e)
  PROVE  RecoverInv'
<1>1. /\ xids' = xids /\ ckpt' = ckpt /\ index' = index /\ cur' = cur /\ oldest' = oldest
      /\ th' = th /\ server' = server /\ requests' = requests
      /\ th[t].pc = "commit" /\ e \notin Checkpoint
  BY DEF CommitEngine, disk, list, notices
<1>2. /\ engine'[t][e] = "durable"
      /\ \A u \in Trx, d \in Engine : u # t \/ d # e => engine'[u][d] = engine[u][d]
  BY DEF CommitEngine, CountInv, TypeOK
<1>3. t \in Logged /\ \A f \in Files : xids[f] \subseteq Trx
  BY <1>1 DEF CountInv, BusyLogged, TypeOK, Logged
<1>4. RecoveryAgrees' /\ CommittedUp' /\ RequestsServed'
  <2>1. RecoveryAgrees'
    BY <1>1, <1>2, <1>3, Kinds DEF RecoverInv, RecoveryAgrees, Logged
  <2>2. CommittedUp'
    BY <1>1, <1>2 DEF RecoverInv, CommittedUp
  <2>3. \A r \in requests : r.engine \in Engine /\ r.need \subseteq Trx
    BY EngineAssumption DEF CountInv, TypeOK, Request
  <2>4. RequestsServed'
    BY <1>1, <1>2, <2>3 DEF RecoverInv, RequestsServed
  <2> QED BY <2>1, <2>2, <2>4
<1>5. \A f \in Files : \A u \in xids[f] : \A d \in Participants(u) :
        engine'[u][d] = engine[u][d] \/ engine'[u][d] = "durable"
  BY <1>2, <1>3, Kinds
<1>6. GroupsPrepared'
  <2>1. \A l \in Trx : th[l].pc \in Leading => th[l].group \subseteq Trx \ {t}
    BY <1>1, GroupOf, Kinds DEF Leading
  <2> QED BY <1>1, <1>2, <2>1, Kinds DEF RecoverInv, GroupsPrepared
<1>7. CommittedAsked'
  BY <1>1, <1>5 DEF RecoverInv, CommittedAsked, Asks, ResetAsked
<1> QED BY <1>1, <1>4, <1>5, <1>6, <1>7, EngineRecovers

\* What an engine committed becomes durable.
LEMMA FlushRecovers ==
  ASSUME CountInv, RecoverInv, NEW e \in Checkpoint, NEW done \in SUBSET Trx,
         xids' = xids, ckpt' = ckpt, index' = index, cur' = cur, oldest' = oldest, th' = th,
         server' = server, requests' \subseteq requests,
         \A t \in Trx, d \in Engine :
           engine'[t][d] = IF d = e /\ t \in done THEN "durable" ELSE engine[t][d],
         \A t \in done : engine[t][e] \in {"committed", "durable"},
         \A r \in requests \ requests' : r.engine = e /\ r.need \subseteq done,
         OneCheckpointEngine
  PROVE  RecoverInv'
<1>1. e \in Engine /\ \A f \in Files : xids[f] \subseteq Trx
  BY EngineAssumption DEF CountInv, TypeOK
<1>2. RecoveryAgrees'
  <2>1. Logged' = Logged
    BY DEF Logged
  <2> QED BY <1>1, <2>1, Kinds DEF RecoverInv, RecoveryAgrees
<1>3. CommittedUp'
  BY DEF RecoverInv, CommittedUp
<1>4. RequestsServed'
  <2>1. \A r \in requests : r.engine \in Engine /\ r.need \subseteq Trx
    BY EngineAssumption DEF CountInv, TypeOK, Request
  <2> QED BY <2>1 DEF RecoverInv, RequestsServed
<1>5. \A f \in Files : \A u \in xids[f] : \A d \in Participants(u) :
        /\ engine'[u][d] = engine[u][d] \/ engine'[u][d] = "durable"
        /\ u \in done /\ d = e => engine'[u][d] = "durable"
  BY <1>1, Kinds
<1>6. GroupsPrepared'
  <2>1. \A l \in Trx : th[l].pc \in Leading => th[l].group \subseteq Trx
    BY Kinds DEF CountInv, TypeOK, ThreadState
  <2> QED BY <2>1, Kinds DEF RecoverInv, GroupsPrepared
<1>7. CommittedAsked'
  <2>1. \A r \in requests : \A t \in r.need : r \notin requests' => t \in done
    OBVIOUS
  <2>2. \A d \in Checkpoint : d = e
    BY DEF OneCheckpointEngine
  <2>3. SUFFICES ASSUME server = "up", NEW f \in Files, NEW t \in xids[f],
                        NEW d \in Participants(t) \intersect Checkpoint,
                        engine'[t][d] = "committed", f < cur \/ ResetAsked
                 PROVE  \/ \E p \in Thread : Asks(p) /\ th[p].id = f
                        \/ \E r \in requests' : r.id = f /\ t \in r.need
    BY DEF CommittedAsked, Asks, ResetAsked
  <2>4. engine[t][d] = "committed" /\ t \notin done
    BY <1>5, <2>2, <2>3
  <2> QED BY <2>1, <2>3, <2>4 DEF RecoverInv, CommittedAsked
<1> QED BY <1>2, <1>3, <1>4, <1>5, <1>6, <1>7, EngineRecovers

\* An engine flushes of its own accord: every request it has yet to answer stays served.
LEMMA EngineFlushRecovers ==
  ASSUME CountInv, RecoverInv, OneCheckpointEngine, NEW e \in Checkpoint, EngineFlush(e)
  PROVE  RecoverInv'
<1> DEFINE done == {t \in Trx : engine[t][e] = "committed"}
<1>1. /\ xids' = xids /\ ckpt' = ckpt /\ index' = index /\ cur' = cur /\ oldest' = oldest
      /\ th' = th /\ server' = server /\ requests' = requests
  BY DEF EngineFlush, disk, list, notices
<1>2. \A t \in Trx, d \in Engine :
        engine'[t][d] = IF d = e /\ t \in done THEN "durable" ELSE engine[t][d]
  <2>1. e \in Engine
    BY EngineAssumption
  <2> QED BY <2>1 DEF EngineFlush, CountInv, TypeOK
<1>3. done \in SUBSET Trx /\ \A t \in done : engine[t][e] \in {"committed", "durable"}
  OBVIOUS
<1> HIDE DEF done
<1> QED BY <1>1, <1>2, <1>3, FlushRecovers

\* An engine answers a request: those of its transactions become durable.
LEMMA CheckpointNotifyRecovers ==
  ASSUME CountInv, RecoverInv, OneCheckpointEngine, NEW r \in requests, CheckpointNotify(r)
  PROVE  RecoverInv'
<1>1. /\ xids' = xids /\ ckpt' = ckpt /\ index' = index /\ cur' = cur /\ oldest' = oldest
      /\ th' = th /\ server' = server /\ requests' = requests \ {r}
  BY DEF CheckpointNotify, disk, list
<1>2. r.engine \in Checkpoint /\ r.engine \in Engine /\ r.need \in SUBSET Trx
  BY EngineAssumption DEF CountInv, TypeOK, Request
<1>3. \A t \in Trx, d \in Engine :
        engine'[t][d] = IF d = r.engine /\ t \in r.need THEN "durable" ELSE engine[t][d]
  BY <1>2 DEF CheckpointNotify, CountInv, TypeOK
<1>4. \A t \in r.need : engine[t][r.engine] \in {"committed", "durable"}
  BY DEF RecoverInv, RequestsServed
<1>5. \A s \in requests \ requests' : s.engine = r.engine /\ s.need \subseteq r.need
  BY <1>1
<1> QED BY <1>1, <1>2, <1>3, <1>4, <1>5, FlushRecovers

\* unlog(): no part of the transaction is prepared any more.
LEMMA UnlogRecovers ==
  ASSUME CountInv, RecoverInv, NEW t \in Trx, Unlog(t)
  PROVE  RecoverInv'
<1>1. /\ xids' = xids /\ engine' = engine /\ ckpt' = ckpt /\ index' = index /\ cur' = cur
      /\ oldest' = oldest /\ server' = server /\ requests' = requests
      /\ th[t].pc = "commit" /\ \A e \in Participants(t) : engine[t][e] # "prepared"
  BY DEF Unlog, disk, list, notices
<1>2. /\ \A q \in Thread : q # t => th'[q] = th[q]
      /\ th'[t].pc \in {"done", "end"}
  <2>1. th'[t].pc \in {"done", "end"}
    BY Kinds DEF Unlog, At, CountInv, TypeOK
  <2> QED BY <2>1, Kinds DEF Unlog, CountInv, TypeOK
<1>3. t \in Thread /\ t # Resetter /\ t # Background /\ Trx \subseteq Thread /\ Resetter \in Thread
  BY Kinds
<1>4. ~Asks(t)
  BY <1>1 DEF Asks, CountInv, Shapes, TrxShape, Leading
<1>5. RecoveryAgrees' /\ CommittedUp' /\ RequestsServed' /\ NeededKept'
  BY <1>1, SameNeeded DEF RecoverInv, RecoveryAgrees, Logged, CommittedUp, RequestsServed
<1>6. PreparedWaits'
  <2>1. \A f \in Files : xids[f] \subseteq Trx
    BY DEF CountInv, TypeOK
  <2>2. \A u \in Trx : u # t => (InGroup(u)' <=> InGroup(u)) /\ (ToCommit(u)' <=> ToCommit(u))
    BY <1>2, <1>3 DEF InGroup, ToCommit
  <2> QED BY <1>1, <2>1, <2>2 DEF RecoverInv, PreparedWaits
<1>7. /\ \A q \in Thread : th[q].pc \in {"logged"} \union Leading => th'[q] = th[q]
      /\ \A q \in Thread : th'[q].pc \in {"logged"} \union Leading => th'[q] = th[q]
  BY <1>1, <1>2 DEF Leading
<1>8. FollowersLed' /\ GroupsPrepared'
  BY <1>1, <1>3, <1>7 DEF RecoverInv, FollowersLed, GroupsPrepared
<1>9. GroupsFile'
  <2>1. \A q \in Thread : th[q].pc = "log" => th'[q] = th[q]
    BY <1>7 DEF Leading
  <2> QED BY <1>1, <1>3, <1>7, <2>1 DEF RecoverInv, GroupsFile
<1>10. CommittedAsked'
  <2>1. \A q \in Thread : Asks(q) => Asks(q)' /\ th'[q].id = th[q].id
    BY <1>2, <1>4 DEF Asks
  <2>2. ResetAsked' <=> ResetAsked
    BY <1>2, <1>3 DEF ResetAsked
  <2> QED BY <1>1, <2>1, <2>2 DEF RecoverInv, CommittedAsked
<1> QED BY <1>5, <1>6, <1>8, <1>9, <1>10 DEF RecoverInv

\* The leader that takes LOCK_after_binlog_sync is the only one: no group that waits
\* there relies on its having rotated.
LEMMA LockAfterSyncRecovers ==
  ASSUME CountInv, RecoverInv, NEW p \in Thread, LockAfterSync(p)
  PROVE  RecoverInv'
<1>1. /\ xids' = xids /\ engine' = engine /\ ckpt' = ckpt /\ index' = index /\ cur' = cur
      /\ oldest' = oldest /\ server' = server /\ requests' = requests
      /\ th[p].pc = "log" /\ syncLock = NoThread
  BY DEF LockAfterSync, disk, list, notices
<1>2. /\ \A q \in Thread : q # p => th'[q] = th[q]
      /\ th'[p].pc = "sync" /\ th'[p].id = th[p].id /\ th'[p].group = th[p].group
      /\ th'[p].rotated = th[p].rotated
  BY MovesTo DEF LockAfterSync, CountInv, PC
<1>3. Trx \subseteq Thread /\ p # Resetter /\ p # Background /\ Resetter \in Thread
  BY <1>1, Kinds DEF CountInv, Shapes, ResetterShape, BackgroundShape
<1>4. RecoveryAgrees' /\ CommittedUp' /\ RequestsServed' /\ NeededKept'
  BY <1>1, SameNeeded DEF RecoverInv, RecoveryAgrees, Logged, CommittedUp, RequestsServed
<1>5. \A t \in Trx : (InGroup(t)' <=> InGroup(t)) /\ (ToCommit(t)' <=> ToCommit(t))
  BY <1>1, <1>2, <1>3 DEF InGroup, ToCommit, Leading
<1>6. PreparedWaits'
  <2>1. \A f \in Files : xids[f] \subseteq Trx
    BY DEF CountInv, TypeOK
  <2> QED BY <1>1, <1>5, <2>1 DEF RecoverInv, PreparedWaits
<1>7. \A t \in Trx : /\ th'[t].group = th[t].group
                     /\ th'[t].pc \in Leading <=> th[t].pc \in Leading
                     /\ th'[t].pc = "logged" <=> th[t].pc = "logged"
  BY <1>1, <1>2, <1>3 DEF Leading
<1>8. FollowersLed' /\ GroupsPrepared'
  BY <1>1, <1>7 DEF RecoverInv, FollowersLed, GroupsPrepared
<1>9. GroupsFile'
  <2>1. \A q \in Thread : th[q].pc # "sync"
    BY <1>1, Kinds DEF CountInv, LocksHeld
  <2> SUFFICES ASSUME NEW t \in Trx, th'[t].pc \in Leading, NEW u \in th'[t].group
               PROVE  IF th'[t].rotated THEN u \in xids[th'[t].id] ELSE u \in xids[cur]
    BY <1>1 DEF GroupsFile
  <2>2. u \in th[t].group /\ th[t].pc \in Leading
    BY <1>7
  <2>3. th'[t].rotated = th[t].rotated /\ th'[t].id = th[t].id /\ th[t].pc # "sync"
    BY <1>2, <1>3, <2>1
  <2> QED BY <2>2, <2>3 DEF RecoverInv, GroupsFile
<1>10. CommittedAsked'
  <2>1. \A q \in Thread : Asks(q) => Asks(q)' /\ th'[q].id = th[q].id
    BY <1>1, <1>2 DEF Asks
  <2>2. ResetAsked' <=> ResetAsked
    BY <1>2, <1>3 DEF ResetAsked
  <2> QED BY <1>1, <2>1, <2>2 DEF RecoverInv, CommittedAsked
<1> QED BY <1>4, <1>6, <1>8, <1>9, <1>10 DEF RecoverInv

\* The request is made for every transaction that has completed commit_ordered().
LEMMA RequestCheckpointRecovers ==
  ASSUME CountInv, RecoverInv, OneCheckpointEngine, NEW p \in Thread, NEW e \in Checkpoint,
         RequestCheckpoint(p, e)
  PROVE  RecoverInv'
<1> DEFINE r == [engine |-> e, id |-> th[p].id, need |-> {t \in Trx : engine[t][e] = "committed"}]
<1>1. /\ xids' = xids /\ engine' = engine /\ ckpt' = ckpt /\ index' = index /\ cur' = cur
      /\ oldest' = oldest /\ server' = server /\ requests' = requests \union {r}
      /\ th[p].pc = "request"
  BY DEF RequestCheckpoint, disk
<1>2. /\ \A q \in Thread : q # p => th'[q] = th[q]
      /\ th'[p].pc \in {"done", "request"} /\ th'[p].ret = th[p].ret
  <2> DEFINE s == [th[p] EXCEPT !.todo = th[p].todo \ {e},
                                !.pc = IF th[p].todo = {e} THEN "done" ELSE "request"]
  <2>1. th \in [Thread -> ThreadState] /\ th[p] \in ThreadState
    BY DEF CountInv, TypeOK
  <2>2. s.pc \in {"done", "request"} /\ s.ret = th[p].ret
    BY <2>1 DEF ThreadState
  <2>3. th' = [th EXCEPT ![p] = s]
    BY DEF RequestCheckpoint
  <2> HIDE DEF s
  <2> QED BY <2>1, <2>2, <2>3
<1>3. /\ Trx \subseteq Thread /\ Resetter \in Thread /\ p # Background
      /\ p \in Trx => th[p].ret = "purge"
  BY <1>1, Kinds DEF CountInv, Shapes, BackgroundShape, TrxShape
<1>4. RecoveryAgrees' /\ CommittedUp' /\ NeededKept'
  BY <1>1, SameNeeded DEF RecoverInv, RecoveryAgrees, Logged, CommittedUp
<1>5. RequestsServed'
  BY <1>1 DEF RecoverInv, RequestsServed
<1>6. \A t \in Trx : (InGroup(t)' <=> InGroup(t)) /\ (ToCommit(t) => ToCommit(t)')
  BY <1>1, <1>2, <1>3 DEF InGroup, ToCommit, Leading
<1>7. PreparedWaits'
  <2>1. \A f \in Files : xids[f] \subseteq Trx
    BY DEF CountInv, TypeOK
  <2> QED BY <1>1, <1>6, <2>1 DEF RecoverInv, PreparedWaits
<1>8. /\ \A q \in Thread : th[q].pc \in {"logged"} \union Leading => th'[q] = th[q]
      /\ \A q \in Thread : th'[q].pc \in {"logged"} \union Leading => th'[q] = th[q]
  BY <1>1, <1>2 DEF Leading
<1>9. FollowersLed' /\ GroupsPrepared'
  BY <1>1, <1>3, <1>8 DEF RecoverInv, FollowersLed, GroupsPrepared
<1>10. GroupsFile'
  <2>1. \A q \in Thread : th[q].pc = "log" => th'[q] = th[q]
    BY <1>8 DEF Leading
  <2> QED BY <1>1, <1>3, <1>8, <2>1 DEF RecoverInv, GroupsFile
<1>11. CommittedAsked'
  <2>1. ResetAsked' <=> ResetAsked
    BY <1>1, <1>2, <1>3 DEF ResetAsked
  <2>2. \A d \in Checkpoint : d = e
    BY DEF OneCheckpointEngine
  <2>3. \A q \in Thread : q # p /\ Asks(q) => Asks(q)' /\ th'[q].id = th[q].id
    BY <1>2 DEF Asks
  <2>4. SUFFICES ASSUME server = "up", NEW f \in Files, NEW t \in xids[f],
                        NEW d \in Participants(t) \intersect Checkpoint,
                        engine[t][d] = "committed", f < cur \/ ResetAsked
                 PROVE  \/ \E q \in Thread : Asks(q)' /\ th'[q].id = f
                        \/ \E s \in requests' : s.id = f /\ t \in s.need
    BY <1>1, <2>1 DEF CommittedAsked
  <2>5. \/ \E q \in Thread : Asks(q) /\ th[q].id = f
        \/ \E s \in requests : s.id = f /\ t \in s.need
    BY <2>4 DEF RecoverInv, CommittedAsked
  <2>6. t \in r.need /\ r \in requests'
    BY <1>1, <2>2, <2>4 DEF CountInv, TypeOK
  <2>7. CASE th[p].id = f
    BY <2>6, <2>7
  <2>8. CASE th[p].id # f
    BY <1>1, <2>3, <2>5, <2>8
  <2> QED BY <2>7, <2>8
<1> QED BY <1>4, <1>5, <1>7, <1>9, <1>10, <1>11 DEF RecoverInv

\* RESET MASTER asks for the checkpoint of the current file.
LEMMA ResetRequestRecovers ==
  ASSUME CountInv, RecoverInv, server = "up", ResetRequest
  PROVE  RecoverInv'
<1>1. /\ xids' = xids /\ engine' = engine /\ ckpt' = ckpt /\ index' = index /\ cur' = cur
      /\ oldest' = oldest /\ server' = server /\ requests' = requests
      /\ th[Resetter].pc = "resetorder"
  BY DEF ResetRequest, disk, notices
<1>2. /\ \A q \in Thread : q # Resetter => th'[q] = th[q]
      /\ th'[Resetter].pc = (IF Checkpoint = {} THEN "done" ELSE "request")
      /\ th'[Resetter].id = cur
  <2>1. th \in [Thread -> ThreadState] /\ Resetter \in Thread
    BY Kinds DEF CountInv, TypeOK
  <2>2. th' = [th EXCEPT ![Resetter] = Asking(cur, "resetidle")]
    BY DEF ResetRequest
  <2>3. th'[Resetter] = Asking(cur, "resetidle") /\ \A q \in Thread : q # Resetter => th'[q] = th[q]
    BY <2>1, <2>2
  <2> QED BY <2>3 DEF Asking, At
<1>3. Trx \subseteq Thread /\ Resetter \in Thread /\ Resetter \notin Trx /\ Resetter # Background
  BY Kinds
<1>4. RecoveryAgrees' /\ CommittedUp' /\ RequestsServed' /\ NeededKept'
  BY <1>1, SameNeeded DEF RecoverInv, RecoveryAgrees, Logged, CommittedUp, RequestsServed
<1>5. \A t \in Trx : th'[t] = th[t]
  BY <1>2, <1>3
<1>6. PreparedWaits' /\ FollowersLed' /\ GroupsPrepared'
  <2>1. \A f \in Files : xids[f] \subseteq Trx
    BY DEF CountInv, TypeOK
  <2> QED BY <1>1, <1>5, <2>1 DEF RecoverInv, PreparedWaits, InGroup, ToCommit, FollowersLed,
                                  GroupsPrepared
<1>7. GroupsFile'
  <2>1. \A q \in Thread : th[q].pc = "log" => th'[q] = th[q]
    BY <1>1, <1>2
  <2> QED BY <1>1, <1>5, <2>1 DEF RecoverInv, GroupsFile
<1>8. CommittedAsked'
  <2>1. \A q \in Thread : Asks(q) => Asks(q)' /\ th'[q].id = th[q].id
    BY <1>1, <1>2, Kinds DEF Asks, CountInv, Shapes, ResetterShape
  <2>2. Checkpoint # {} => Asks(Resetter)'
    BY <1>2, <1>3 DEF Asks
  <2>3. SUFFICES ASSUME NEW f \in Files, NEW t \in xids[f],
                        NEW d \in Participants(t) \intersect Checkpoint,
                        engine[t][d] = "committed"
                 PROVE  \/ \E q \in Thread : Asks(q)' /\ th'[q].id = f
                        \/ \E s \in requests : s.id = f /\ t \in s.need
    BY <1>1 DEF CommittedAsked
  <2>4. f <= cur /\ f \in Nat /\ cur \in Nat
    BY <2>3, FilesNat DEF RecoverInv, NeededKept, CountInv, TypeOK
  <2>5. CASE f = cur
    BY <1>2, <1>3, <2>2, <2>3, <2>5
  <2>6. CASE f < cur
    BY <2>1, <2>3, <2>6 DEF RecoverInv, CommittedAsked
  <2> QED BY <2>4, <2>5, <2>6
<1> QED BY <1>4, <1>6, <1>7, <1>8 DEF RecoverInv

\* The first checkpoint event of the new file names the first file with a count.
LEMMA RotateRecovers ==
  ASSUME CountInv, RecoverInv, UnlogsCounted, server = "up", NEW p \in Trx \union Session,
         NEW after, Rotate(p, after),
         \/ p \in Trx /\ th[p].pc = "log" /\ ~th[p].rotated /\ logLock = p /\ after = "log"
         \/ p \in Session /\ th[p].pc = "idle" /\ logLock = NoThread /\ after \in Rotation
  PROVE  RecoverInv'
<1>1. /\ xids' = xids /\ engine' = engine /\ cur' = cur /\ oldest' = oldest
      /\ server' = server /\ requests' = requests /\ index' = index \union {cur + 1}
      /\ count' = [count EXCEPT ![cur] = @ + 1]
  BY DEF Rotate, notices
<1>2. /\ \A q \in Thread : q # p => th'[q] = th[q]
      /\ th'[p].pc = "link" /\ th'[p].id = cur /\ th'[p].ret = after
      /\ th'[p].group = th[p].group /\ th'[p].rotated = TRUE
  <2> DEFINE s == [th[p] EXCEPT !.pc = "link", !.id = cur, !.ret = after, !.rotated = TRUE]
  <2>1. th \in [Thread -> ThreadState] /\ th[p] \in ThreadState
    BY Kinds DEF CountInv, TypeOK
  <2>2. s.pc = "link" /\ s.id = cur /\ s.ret = after /\ s.group = th[p].group /\ s.rotated = TRUE
    BY <2>1 DEF ThreadState
  <2>3. th' = [th EXCEPT ![p] = s]
    BY DEF Rotate
  <2> HIDE DEF s
  <2> QED BY <2>1, <2>2, <2>3, Kinds
<1>3. /\ Trx \subseteq Thread /\ p \in Thread /\ p # Resetter /\ p # Background
      /\ Resetter \in Thread
  BY Kinds
<1>4. RecoveryAgrees' /\ CommittedUp' /\ RequestsServed'
  BY <1>1 DEF RecoverInv, RecoveryAgrees, Logged, CommittedUp, RequestsServed
<1>5. \A t \in Trx : /\ th'[t].group = th[t].group
                     /\ th'[t].pc \in Leading <=> th[t].pc \in Leading
                     /\ th'[t].pc = "logged" <=> th[t].pc = "logged"
  BY <1>2, <1>3, Kinds DEF Leading
<1>6. PreparedWaits'
  <2>1. \A f \in Files : xids[f] \subseteq Trx
    BY DEF CountInv, TypeOK
  <2>2. \A t \in Trx : (InGroup(t)' <=> InGroup(t)) /\ (ToCommit(t) => ToCommit(t)')
    BY <1>2, <1>3, <1>5 DEF InGroup, ToCommit
  <2> QED BY <1>1, <2>1, <2>2 DEF RecoverInv, PreparedWaits
<1>7. FollowersLed' /\ GroupsPrepared'
  BY <1>1, <1>5 DEF RecoverInv, FollowersLed, GroupsPrepared
<1>8. GroupsFile'
  <2>1. \A q \in Thread : th[q].pc = "log" => q = p
    BY <1>3, Kinds DEF CountInv, LocksHeld
  <2>2. \A q \in Thread : th[q].pc = "log" => ~th[q].rotated
    BY <2>1, <1>3, Kinds
  <2> SUFFICES ASSUME NEW t \in Trx, th'[t].pc \in Leading, NEW u \in th'[t].group
               PROVE  IF th'[t].rotated THEN u \in xids[th'[t].id] ELSE u \in xids[cur]
    BY <1>1 DEF GroupsFile
  <2>3. u \in th[t].group /\ th[t].pc \in Leading
    BY <1>5
  <2>4. IF th[t].rotated THEN u \in xids[th[t].id] ELSE u \in xids[cur]
    BY <2>2, <2>3 DEF RecoverInv, GroupsFile
  <2>5. CASE t = p
    <3>1. ~th[p].rotated
      BY <2>5, Kinds
    <3> QED BY <1>2, <2>4, <2>5, <3>1
  <2>6. CASE t # p
    BY <1>2, <1>3, <2>4, <2>6
  <2> QED BY <2>5, <2>6
<1>9. CommittedAsked'
  <2>1. \A q \in Thread : Asks(q) => q # p
    BY <1>3, Kinds DEF Asks, CountInv, Shapes, SessionShape, Leading
  <2>2. \A q \in Thread : Asks(q) => Asks(q)' /\ th'[q].id = th[q].id
    BY <1>2, <2>1 DEF Asks
  <2>3. ResetAsked' <=> ResetAsked
    BY <1>2, <1>3 DEF ResetAsked
  <2> QED BY <1>1, <2>2, <2>3 DEF RecoverInv, CommittedAsked
<1>10. NeededKept'
  <2>1. /\ ScanFrom' \in oldest .. cur
        /\ \A i \in oldest .. cur : i < ScanFrom' => count'[i] = 0
    BY RotateCounts
  <2>2. oldest \in Nat /\ cur \in Nat /\ cur \in Files /\ count \in [Files -> Nat]
    BY FilesNat DEF CountInv, TypeOK
  <2> SUFFICES ASSUME NEW f \in Files, NEW t \in xids[f], NEW e \in Participants(t),
                      engine[t][e] \in {"prepared", "committed"}
               PROVE  f \in index' /\ ScanFrom' <= f /\ oldest <= f /\ f <= cur
    BY <1>1 DEF NeededKept
  <2>3. f \in index /\ oldest <= f /\ f <= cur /\ f \in Nat
    BY FilesNat DEF RecoverInv, NeededKept
  <2>4. count[f] > 0 \/ f = cur
    BY NeededCounted
  <2>5. count'[f] # 0 /\ f \in oldest .. cur
    BY <1>1, <2>2, <2>3, <2>4
  <2>6. ScanFrom' <= f
    BY <2>1, <2>2, <2>3, <2>5
  <2> QED BY <1>1, <2>3, <2>6
<1> QED BY <1>4, <1>6, <1>7, <1>8, <1>9, <1>10 DEF RecoverInv

\* The end of a rotation: the entries that go have no count, and the group that
\* waits for LOCK_commit_ordered has the thread that rotates behind it.
LEMMA RotateLinkRecovers ==
  ASSUME CountInv, RecoverInv, UnlogsCounted, RotatesInOrder, server = "up",
         NEW p \in Thread, RotateLink(p)
  PROVE  RecoverInv'
<1>1. /\ xids' = xids /\ engine' = engine /\ cur' = cur + 1 /\ oldest' = FirstNeeded(cur + 1)
      /\ ckpt' = ckpt /\ index' = index /\ server' = server /\ requests' = requests
      /\ th[p].pc = "link"
  BY DEF RotateLink, disk, notices
<1>2. th[p].ret = "log" /\ p \in Trx \union Session /\ th[p].rotated /\ th[p].id = cur
  <2>1. p \in Trx \union Session
    BY <1>1 DEF CountInv, Shapes, BackgroundShape, ResetterShape, Thread
  <2>2. th[p].ret = "log" /\ th[p].rotated
    BY <1>1, <2>1, EngineAssumption DEF CountInv, Shapes, TrxShape, SessionShape,
                                        RotatesInOrder, Leading
  <2> QED BY <1>1, <2>1, <2>2 DEF CountInv, FilesInOrder
<1>3. /\ \A q \in Thread : q # p => th'[q] = th[q]
      /\ th'[p].pc = "log" /\ th'[p].id = cur /\ th'[p].group = th[p].group
      /\ th'[p].rotated = TRUE
  <2>1. th' = Goto(p, "log") /\ th[p].rotated = TRUE
    BY <1>2 DEF RotateLink, CountInv, TypeOK, ThreadState
  <2> QED BY <1>2, <2>1, MovesTo DEF CountInv, PC
<1>4. /\ Trx \subseteq Thread /\ p # Resetter /\ p # Background /\ Resetter \in Thread
      /\ ~ResetAsked /\ \A q \in Thread : th[q].pc \in {"link", "log"} => q = p
  BY <1>1, <1>2, Kinds DEF CountInv, LocksHeld
<1>5. RecoveryAgrees' /\ CommittedUp' /\ RequestsServed'
  BY <1>1 DEF RecoverInv, RecoveryAgrees, Logged, CommittedUp, RequestsServed
<1>6. \A t \in Trx : /\ th'[t].group = th[t].group
                     /\ th'[t].pc \in Leading <=> th[t].pc \in Leading
                     /\ th'[t].pc = "logged" <=> th[t].pc = "logged"
  BY <1>1, <1>3, <1>4 DEF Leading
<1>7. PreparedWaits'
  <2>1. \A f \in Files : xids[f] \subseteq Trx
    BY DEF CountInv, TypeOK
  <2>2. \A t \in Trx : (InGroup(t)' <=> InGroup(t)) /\ (ToCommit(t) => ToCommit(t)')
    BY <1>1, <1>3, <1>4, <1>6 DEF InGroup, ToCommit
  <2> QED BY <1>1, <2>1, <2>2 DEF RecoverInv, PreparedWaits
<1>8. FollowersLed' /\ GroupsPrepared'
  BY <1>1, <1>6 DEF RecoverInv, FollowersLed, GroupsPrepared
<1>9. GroupsFile'
  <2> SUFFICES ASSUME NEW t \in Trx, th'[t].pc \in Leading, NEW u \in th'[t].group
               PROVE  IF th'[t].rotated THEN u \in xids[th'[t].id]
                      ELSE /\ th'[t].pc = "sync"
                           /\ \E q \in Thread : /\ th'[q].pc = "log" /\ th'[q].rotated
                                                /\ u \in xids[th'[q].id]
    BY <1>1 DEF GroupsFile
  <2>1. u \in th[t].group /\ th[t].pc \in Leading
    BY <1>6
  <2>2. CASE t = p
    BY <1>2, <1>3, <2>1, <2>2 DEF RecoverInv, GroupsFile
  <2>3. CASE t # p /\ th[t].rotated
    BY <1>3, <1>4, <2>1, <2>3 DEF RecoverInv, GroupsFile
  <2>4. CASE t # p /\ ~th[t].rotated
    <3>1. th[t].pc = "sync" /\ th'[t] = th[t]
      BY <1>3, <1>4, <2>1, <2>4 DEF Leading
    <3>2. u \in xids[cur]
      BY <1>1, <1>4, <2>1, <2>4 DEF RecoverInv, GroupsFile
    <3> QED BY <1>3, <2>4, <3>1, <3>2
  <2> QED BY <2>2, <2>3, <2>4
<1>10. CommittedAsked'
  <2>1. Asks(p)' /\ th'[p].id = cur
    BY <1>3, <1>4 DEF Asks
  <2>2. \A q \in Thread : Asks(q) => Asks(q)' /\ th'[q].id = th[q].id
    BY <1>2, <1>3, <2>1 DEF Asks
  <2>3. ~ResetAsked'
    BY <1>3, <1>4 DEF ResetAsked
  <2>4. SUFFICES ASSUME NEW f \in Files, NEW t \in xids[f],
                        NEW d \in Participants(t) \intersect Checkpoint,
                        engine[t][d] = "committed", f < cur + 1
                 PROVE  \/ \E q \in Thread : Asks(q)' /\ th'[q].id = f
                        \/ \E s \in requests : s.id = f /\ t \in s.need
    BY <1>1, <2>3 DEF CommittedAsked
  <2>5. f < cur \/ f = cur
    BY <2>4, FilesNat DEF CountInv, TypeOK
  <2>6. CASE f = cur
    BY <2>1, <2>6
  <2>7. CASE f < cur
    BY <2>2, <2>4, <2>7 DEF RecoverInv, CommittedAsked
  <2> QED BY <2>5, <2>6, <2>7
<1>11. NeededKept'
  <2> DEFINE S == {i \in oldest .. cur : count[i] # 0} \union {cur + 1}
  <2>1. oldest \in Nat /\ cur \in Nat /\ cur \in Files /\ count \in [Files -> Nat]
    BY FilesNat DEF CountInv, TypeOK
  <2>2. \A y \in S : oldest' <= y
    <3>1. oldest' = Min(S) /\ S \in SUBSET Nat /\ S # {}
      BY <1>1, <2>1 DEF FirstNeeded
    <3> HIDE DEF S
    <3> QED BY <3>1, MinNat
  <2>3. count[cur] > 0
    <3>1. p \in Dones(cur)
      BY <1>1, <1>2, <1>4 DEF Dones, OwesDone
    <3> QED BY <2>1, <3>1, OwedCounts
  <2> SUFFICES ASSUME NEW f \in Files, NEW t \in xids[f], NEW e \in Participants(t),
                      engine[t][e] \in {"prepared", "committed"}
               PROVE  f \in index /\ ScanFrom <= f /\ oldest' <= f /\ f <= cur + 1
    BY <1>1 DEF NeededKept, ScanFrom, LastFile
  <2>4. f \in index /\ ScanFrom <= f /\ oldest <= f /\ f <= cur /\ f \in Nat
    BY FilesNat DEF RecoverInv, NeededKept
  <2>5. count[f] # 0
    BY <2>1, <2>3, NeededCounted
  <2>6. f \in S
    BY <2>1, <2>4, <2>5
  <2> QED BY <2>1, <2>2, <2>4, <2>6
<1> QED BY <1>5, <1>7, <1>8, <1>9, <1>10, <1>11 DEF RecoverInv

\* With no count left, recovery needs none of the files RESET MASTER deletes.
LEMMA ResetFilesRecovers ==
  ASSUME CountInv, RecoverInv, UnlogsCounted, server = "up", ResetFiles
  PROVE  RecoverInv'
<1>1. /\ xids' = xids /\ engine' = engine /\ server' = server /\ requests' = requests
      /\ th[Resetter].pc = "resetidle" /\ \A i \in oldest .. cur : count[i] <= 0
  BY DEF ResetFiles, notices
<1>2. /\ \A q \in Thread : q # Resetter => th'[q] = th[q]
      /\ th'[Resetter].pc = "idle"
  <2>1. th' = [th EXCEPT ![Resetter] = At("idle")] /\ At("idle").pc = "idle"
    BY DEF ResetFiles, At
  <2> QED BY <2>1, Kinds DEF CountInv, TypeOK
<1>3. Trx \subseteq Thread /\ Resetter \in Thread /\ Resetter \notin Trx
  BY Kinds
<1>4. ResetAsked /\ \A q \in Thread : th[q].pc \notin Leading
  BY <1>1, Kinds DEF ResetAsked, CountInv, LocksHeld, Leading, Shapes, ResetterShape
<1>5. ASSUME NEW f \in Files, NEW t \in xids[f], NEW e \in Participants(t)
      PROVE  engine[t][e] \notin {"prepared", "committed"}
  <2> SUFFICES ASSUME engine[t][e] \in {"prepared", "committed"} PROVE FALSE
    OBVIOUS
  <2>1. oldest <= f /\ f <= cur
    BY DEF RecoverInv, NeededKept
  <2>2. count[f] > 0 /\ count[f] \in Nat
    BY <1>4, NeededCounted DEF CountInv, TypeOK
  <2>3. f \in oldest .. cur
    BY <2>1, FilesNat DEF CountInv, TypeOK
  <2> QED BY <1>1, <2>2, <2>3
<1>6. RecoveryAgrees' /\ CommittedUp' /\ RequestsServed'
  BY <1>1 DEF RecoverInv, RecoveryAgrees, Logged, CommittedUp, RequestsServed
<1>7. PreparedWaits' /\ CommittedAsked' /\ NeededKept'
  BY <1>1, <1>5 DEF PreparedWaits, CommittedAsked, NeededKept
<1>8. \A t \in Trx : th'[t] = th[t] /\ th[t].pc \notin Leading
  BY <1>2, <1>3, <1>4
<1>9. FollowersLed' /\ GroupsPrepared' /\ GroupsFile'
  BY <1>8 DEF RecoverInv, FollowersLed, GroupsPrepared, GroupsFile
<1> QED BY <1>6, <1>7, <1>9 DEF RecoverInv

\* A group is written to the current file, which is in the index and is read by
\* recovery.
LEMMA WriteGroupRecovers ==
  ASSUME CountInv, RecoverInv, server = "up", NEW t \in Trx, NEW group \in SUBSET Trx,
         WriteGroup(t, group)
  PROVE  RecoverInv'
<1>1. /\ ckpt' = ckpt /\ index' = index /\ engine' = engine /\ cur' = cur
      /\ oldest' = oldest /\ requests' = requests /\ server' = server
      /\ logLock = NoThread /\ t \in group
  BY DEF WriteGroup, notices
<1>2. /\ th' \in [Thread -> ThreadState]
      /\ \A q \in Thread : q \notin group => th'[q] = th[q]
      /\ th'[t].pc = "log" /\ th'[t].group = group /\ th'[t].rotated = FALSE
      /\ \A u \in group \ {t} : th'[u].pc = "logged" /\ th'[u].rotated = FALSE
  BY WriteGroupThreads
<1>3. \A u \in group : /\ th[u].pc = "idle" /\ ~th[u].rotated
                       /\ \A e \in Participants(u) : engine[u][e] = "prepared"
  BY DEF WriteGroup, Prepared, CountInv, Shapes, TrxShape, Leading
<1>4. /\ cur \in Files /\ xids'[cur] = xids[cur] \union group
      /\ \A f \in Files : f # cur => xids'[f] = xids[f]
      /\ \A f \in Files : xids[f] \subseteq Trx
  BY DEF WriteGroup, CountInv, TypeOK
<1>5. /\ \A f \in Files, u \in Trx : u \in xids'[f] => u \in xids[f] \/ (f = cur /\ u \in group)
      /\ \A f \in Files, u \in Trx : u \in xids[f] => u \in xids'[f]
      /\ \A f \in Files : xids'[f] \subseteq Trx
  BY <1>4
<1>6. Trx \subseteq Thread /\ Resetter \in Thread /\ Resetter \notin Trx
  BY Kinds
<1>7. RecoveryAgrees'
  <2>1. \A u \in Trx : u \in Logged' <=> u \in Logged \/ u \in group
    BY <1>4, <1>5 DEF Logged
  <2> QED BY <1>1, <1>3, <2>1 DEF RecoverInv, RecoveryAgrees
<1>8. CommittedUp' /\ RequestsServed'
  BY <1>1 DEF RecoverInv, CommittedUp, RequestsServed
<1>9. PreparedWaits'
  <2>1. \A u \in group : InGroup(u)'
    BY <1>2 DEF InGroup, Leading
  <2>2. \A u \in Trx : u \notin group => (InGroup(u)' <=> InGroup(u)) /\ (ToCommit(u)' <=> ToCommit(u))
    BY <1>2, <1>6 DEF InGroup, ToCommit
  <2> QED BY <1>1, <1>5, <2>1, <2>2 DEF RecoverInv, PreparedWaits
<1>10. \A l \in Trx : /\ th'[l].pc \in Leading => l = t \/ l \notin group
                      /\ th[l].pc \in Leading => l \notin group
                      /\ l \notin group => th'[l] = th[l]
  BY <1>2, <1>3, <1>6 DEF Leading
<1>11. FollowersLed'
  <2> SUFFICES ASSUME NEW u \in Trx, th'[u].pc = "logged"
               PROVE  \E l \in Trx : th'[l].pc \in Leading /\ u \in th'[l].group
    BY DEF FollowersLed
  <2>1. CASE u \in group
    BY <1>2, <2>1 DEF Leading
  <2>2. CASE u \notin group
    <3>1. th[u].pc = "logged"
      BY <1>10, <2>2
    <3>2. PICK l \in Trx : th[l].pc \in Leading /\ u \in th[l].group
      BY <3>1 DEF RecoverInv, FollowersLed
    <3> QED BY <1>10, <3>2
  <2> QED BY <2>1, <2>2
<1>12. GroupsPrepared'
  BY <1>1, <1>2, <1>3, <1>10 DEF RecoverInv, GroupsPrepared
<1>13. GroupsFile'
  <2> SUFFICES ASSUME NEW l \in Trx, th'[l].pc \in Leading, NEW u \in th'[l].group
               PROVE  IF th'[l].rotated THEN u \in xids'[th'[l].id] ELSE u \in xids'[cur]
    BY <1>1 DEF GroupsFile
  <2>1. CASE l = t
    BY <1>2, <1>4, <2>1
  <2>2. CASE l # t
    <3>1. th'[l] = th[l] /\ u \in Trx /\ (th[l].rotated => th[l].id \in Files)
      BY <1>6, <1>10, <2>2 DEF CountInv, TypeOK, ThreadState, Shapes, AskShape
    <3>2. \A q \in Thread : th[q].pc # "log"
      BY <1>1, ThreadAssumption DEF CountInv, LocksHeld
    <3>3. IF th[l].rotated THEN u \in xids[th[l].id] ELSE u \in xids[cur]
      BY <3>1, <3>2 DEF RecoverInv, GroupsFile
    <3> QED BY <1>4, <1>5, <3>1, <3>3
  <2> QED BY <2>1, <2>2
<1>14. CommittedAsked'
  <2>1. \A q \in Thread : Asks(q) => Asks(q)' /\ th'[q].id = th[q].id
    BY <1>2, <1>3 DEF Asks
  <2>2. ResetAsked' <=> ResetAsked
    BY <1>2, <1>6 DEF ResetAsked
  <2>3. \A f \in Files : \A u \in xids'[f] : \A e \in Participants(u) :
          engine[u][e] = "committed" => u \in xids[f]
    BY <1>3, <1>5
  <2> QED BY <1>1, <2>1, <2>2, <2>3 DEF RecoverInv, CommittedAsked
<1>15. NeededKept'
  <2>1. \A q \in Thread : th[q].pc # "link"
    BY <1>1, ThreadAssumption DEF CountInv, LocksHeld
  <2>2. LastFile = cur /\ oldest <= cur /\ ScanFrom <= oldest
    BY <2>1 DEF CountInv, FilesInOrder, CheckpointsSafe
  <2>3. LastFile \in index /\ ScanFrom \in Nat /\ oldest \in Nat /\ cur \in Nat
    BY MaxFile, FilesNat DEF LastFile, CountInv, TypeOK, FilesInOrder, CheckpointsSafe
  <2>4. cur \in index /\ ScanFrom <= cur /\ oldest <= cur /\ cur <= cur
    BY <2>2, <2>3
  <2>5. ScanFrom' = ScanFrom
    BY <1>1 DEF ScanFrom, LastFile
  <2> SUFFICES ASSUME NEW f \in Files, NEW u \in xids'[f], NEW e \in Participants(u),
                      engine[u][e] \in {"prepared", "committed"}
               PROVE  f \in index /\ ScanFrom <= f /\ oldest <= f /\ f <= cur
    BY <1>1, <2>5 DEF NeededKept
  <2>6. CASE u \in xids[f]
    BY <2>6 DEF RecoverInv, NeededKept
  <2>7. CASE f = cur
    BY <2>4, <2>7
  <2> QED BY <1>5, <2>6, <2>7
<1> QED BY <1>7, <1>8, <1>9, <1>11, <1>12, <1>13, <1>14, <1>15 DEF RecoverInv

\* The transactions of a group become committed; a checkpoint is still to be asked
\* for their file unless that is the current one.
LEMMA CommitOrderedRecovers ==
  ASSUME CountInv, RecoverInv, server = "up", NEW p \in Thread, CommitOrdered(p)
  PROVE  RecoverInv'
<1> DEFINE G == th[p].group
<1>1. /\ xids' = xids /\ ckpt' = ckpt /\ index' = index /\ cur' = cur /\ oldest' = oldest
      /\ requests' = requests /\ server' = server /\ th[p].pc = "sync"
  BY DEF CommitOrdered, disk, list, notices
<1>2. /\ p \in Trx \union Session /\ p # Background /\ p # Resetter /\ G \subseteq Trx
      /\ \A u \in G \ {p} : th[u].pc = "logged"
      /\ p \in Trx => p \in G
      /\ p \in Session => G = {} /\ th[p].rotated
  BY <1>1, GroupOf DEF Leading
<1>3. /\ \A q \in Thread : q # p /\ q \notin G => th'[q] = th[q]
      /\ \A u \in G \ {p} : th'[u].pc = "commit" /\ ~th'[u].rotated
      /\ th'[p].ret = (IF th[p].rotated THEN "purge" ELSE "idle")
      /\ ~th'[p].rotated
      /\ th'[p].pc = (IF ~th[p].rotated THEN "commit"
                     ELSE IF Checkpoint = {} THEN "done" ELSE "request")
      /\ th'[p].id = (IF th[p].rotated THEN th[p].id ELSE None)
  BY CommitOrderedThreads
<1>4. /\ Trx \subseteq Thread /\ Resetter \in Thread /\ Resetter \notin Trx
      /\ Trx \intersect Session = {} /\ \A u \in Trx : Participants(u) \subseteq Engine
  BY Kinds
<1>5. /\ \A u \in Trx, e \in Engine :
           engine'[u][e] = IF u \in G /\ e \in Participants(u) \intersect Checkpoint
                             THEN "committed" ELSE engine[u][e]
  BY DEF CommitOrdered
<1>6. \A u \in G : \A e \in Participants(u) : engine[u][e] = "prepared"
  BY <1>1, <1>2 DEF RecoverInv, GroupsPrepared, Leading
<1>7. \A u \in G : IF th[p].rotated THEN th[p].id \in Files /\ u \in xids[th[p].id]
                   ELSE \/ u \in xids[cur]
                        \/ \E q \in Thread : /\ th[q].pc = "log" /\ th[q].rotated
                                             /\ th[q].id \in Files /\ u \in xids[th[q].id]
  <2> SUFFICES ASSUME NEW u \in G
               PROVE  IF th[p].rotated THEN th[p].id \in Files /\ u \in xids[th[p].id]
                      ELSE \/ u \in xids[cur]
                           \/ \E q \in Thread : /\ th[q].pc = "log" /\ th[q].rotated
                                                /\ th[q].id \in Files /\ u \in xids[th[q].id]
    OBVIOUS
  <2>1. \A q \in Thread : th[q].rotated => th[q].id \in Files
    BY DEF CountInv, Shapes, AskShape
  <2>2. p \in Trx
    BY <1>2
  <2>3. IF th[p].rotated THEN u \in xids[th[p].id]
        ELSE \/ u \in xids[cur]
             \/ \E q \in Thread : th[q].pc = "log" /\ th[q].rotated /\ u \in xids[th[q].id]
    BY <1>1, <2>2 DEF RecoverInv, GroupsFile, Leading
  <2> QED BY <2>1, <2>3
<1>8. \A u \in G : u \in Logged
  <2>1. cur \in Files
    BY DEF CountInv, TypeOK
  <2>2. \A u \in G : \E f \in Files : u \in xids[f]
    BY <1>7, <2>1
  <2> QED BY <2>2 DEF Logged
<1> HIDE DEF G
<1>9. RecoveryAgrees'
  <2>1. Logged' = Logged
    BY <1>1 DEF Logged
  <2> QED BY <1>4, <1>5, <1>8, <2>1 DEF RecoverInv, RecoveryAgrees
<1>10. CommittedUp'
  BY <1>1, <1>5 DEF RecoverInv, CommittedUp
<1>11. RequestsServed'
  <2>1. \A r \in requests : r.engine \in Engine /\ r.need \subseteq Trx
    BY EngineAssumption DEF CountInv, TypeOK, Request
  <2> QED BY <1>1, <1>5, <2>1 DEF RecoverInv, RequestsServed
<1>12. \A f \in Files : xids[f] \subseteq Trx
  BY DEF CountInv, TypeOK
<1>13. PreparedWaits'
  <2> SUFFICES ASSUME NEW f \in Files, NEW u \in xids[f], NEW e \in Participants(u),
                      engine'[u][e] = "prepared"
               PROVE  InGroup(u)' \/ (e \notin Checkpoint /\ ToCommit(u)')
    BY <1>1 DEF PreparedWaits
  <2>1. u \in Trx /\ e \in Engine
    BY <1>4, <1>12
  <2>2. CASE u \in G
    <3>1. e \notin Checkpoint
      BY <1>5, <2>1, <2>2
    <3>2. ToCommit(u)'
      BY <1>2, <1>3, <1>4, <2>1, <2>2 DEF ToCommit
    <3> QED BY <3>1, <3>2
  <2>3. CASE u \notin G
    <3>1. th'[u] = th[u] /\ engine[u][e] = "prepared"
      BY <1>2, <1>3, <1>4, <1>5, <2>1, <2>3
    <3>2. InGroup(u) \/ (e \notin Checkpoint /\ ToCommit(u))
      BY <3>1 DEF RecoverInv, PreparedWaits
    <3> QED BY <3>1, <3>2 DEF InGroup, ToCommit
  <2> QED BY <2>2, <2>3
<1>14. ASSUME NEW l \in Trx, th[l].pc \in Leading, l # p
       PROVE  th'[l] = th[l] /\ l \notin G /\ th[l].group \intersect G = {}
  <2>1. l \notin G
    BY <1>2, <1>14 DEF Leading
  <2>2. th[l].group \intersect G = {}
    <3>1. CASE p \in Trx
      BY <1>1, <1>14, <3>1 DEF G, CountInv, GroupsWait, Leading
    <3>2. CASE p \in Session
      BY <1>2, <3>2
    <3> QED BY <1>2, <3>1, <3>2
  <2> QED BY <1>3, <1>4, <1>14, <2>1, <2>2
<1>15. ASSUME NEW l \in Trx, th'[l].pc \in Leading
       PROVE  th[l].pc \in Leading /\ l # p
  <2>1. l # p
    BY <1>3, <1>15 DEF Leading
  <2>2. l \notin G
    BY <1>3, <1>15, <2>1 DEF Leading
  <2> QED BY <1>3, <1>4, <1>15, <2>1, <2>2
<1>16. FollowersLed'
  <2> SUFFICES ASSUME NEW u \in Trx, th'[u].pc = "logged"
               PROVE  \E l \in Trx : th'[l].pc \in Leading /\ u \in th'[l].group
    BY DEF FollowersLed
  <2>1. u # p /\ u \notin G
    BY <1>3
  <2>2. th[u].pc = "logged"
    BY <1>3, <1>4, <2>1
  <2>3. PICK l \in Trx : th[l].pc \in Leading /\ u \in th[l].group
    BY <2>2 DEF RecoverInv, FollowersLed
  <2>4. l # p
    BY <2>1, <2>3 DEF G
  <2> QED BY <1>14, <2>3, <2>4
<1>17. GroupsPrepared'
  <2> SUFFICES ASSUME NEW l \in Trx, th'[l].pc \in Leading, NEW u \in th'[l].group,
                      NEW e \in Participants(u)
               PROVE  engine'[u][e] = "prepared"
    BY DEF GroupsPrepared
  <2>1. th'[l] = th[l] /\ th[l].pc \in Leading /\ u \in th[l].group /\ u \notin G
    BY <1>14, <1>15
  <2>2. engine[u][e] = "prepared"
    BY <2>1 DEF RecoverInv, GroupsPrepared
  <2>3. u \in Trx
    BY <1>4, <2>1 DEF CountInv, TypeOK, ThreadState
  <2> QED BY <1>4, <1>5, <2>1, <2>2, <2>3
<1>18. \A q \in Thread : th[q].pc = "log" => th'[q] = th[q]
  BY <1>1, <1>2, <1>3
<1>19. GroupsFile'
  <2> SUFFICES ASSUME NEW l \in Trx, th'[l].pc \in Leading, NEW u \in th'[l].group
               PROVE  IF th'[l].rotated THEN u \in xids[th'[l].id]
                      ELSE \/ u \in xids[cur]
                           \/ /\ th'[l].pc = "sync"
                              /\ \E q \in Thread : /\ th'[q].pc = "log" /\ th'[q].rotated
                                                   /\ u \in xids[th'[q].id]
    BY <1>1 DEF GroupsFile
  <2>1. th'[l] = th[l] /\ th[l].pc \in Leading /\ u \in th[l].group
    BY <1>14, <1>15
  <2> QED BY <1>18, <2>1 DEF RecoverInv, GroupsFile
<1>20. CommittedAsked'
  <2>1. ~ResetAsked'
    BY <1>1, <1>2, <1>3, <1>4 DEF CountInv, LocksHeld, ResetAsked
  <2> SUFFICES ASSUME NEW f \in Files, NEW u \in xids[f],
                      NEW d \in Participants(u) \intersect Checkpoint,
                      engine'[u][d] = "committed", f < cur
               PROVE  \/ \E q \in Thread : Asks(q)' /\ th'[q].id = f
                      \/ \E s \in requests : s.id = f /\ u \in s.need
    BY <1>1, <2>1 DEF CommittedAsked
  <2>2. u \in Trx /\ d \in Engine
    BY <1>4, <1>12
  <2>3. th[p].rotated => Asks(p)' /\ th'[p].id = th[p].id
    BY <1>2, <1>3 DEF Asks
  <2>4. \A q \in Thread : Asks(q) => Asks(q)' /\ th'[q].id = th[q].id
    <3> SUFFICES ASSUME NEW q \in Thread, Asks(q) PROVE Asks(q)' /\ th'[q].id = th[q].id
      OBVIOUS
    <3>1. q \notin G \ {p}
      BY <1>2 DEF Asks, CountInv, Shapes, TrxShape, Leading
    <3>2. CASE q = p
      BY <1>1, <2>3, <3>2 DEF Asks
    <3>3. CASE q # p
      BY <1>3, <3>1, <3>3 DEF Asks
    <3> QED BY <3>2, <3>3
  <2>5. CASE u \in G
    <3>1. \A g \in Files : u \in xids[g] => g = f
      BY <2>2 DEF CountInv, LoggedOnce
    <3>2. CASE th[p].rotated
      BY <1>7, <2>3, <2>5, <3>1, <3>2
    <3>3. CASE ~th[p].rotated
      <4>1. cur \in Files /\ cur # f
        BY FilesNat DEF CountInv, TypeOK
      <4>2. PICK q \in Thread : /\ th[q].pc = "log" /\ th[q].rotated
                                /\ th[q].id \in Files /\ u \in xids[th[q].id]
        BY <1>7, <2>5, <3>1, <3>3, <4>1
      <4>3. Asks(q) /\ th[q].id = f
        BY <3>1, <4>2 DEF Asks, CountInv, Shapes, BackgroundShape
      <4> QED BY <2>4, <4>3
    <3> QED BY <3>2, <3>3
  <2>6. CASE u \notin G
    <3>1. engine[u][d] = "committed"
      BY <1>5, <2>2, <2>6
    <3>2. \/ \E q \in Thread : Asks(q) /\ th[q].id = f
          \/ \E s \in requests : s.id = f /\ u \in s.need
      BY <3>1 DEF RecoverInv, CommittedAsked
    <3> QED BY <2>4, <3>2
  <2> QED BY <2>5, <2>6
<1>21. NeededKept'
  <2> SUFFICES ASSUME NEW f \in Files, NEW u \in xids[f], NEW e \in Participants(u),
                      engine'[u][e] \in {"prepared", "committed"}
               PROVE  f \in index /\ ScanFrom <= f /\ oldest <= f /\ f <= cur
    BY <1>1 DEF NeededKept, ScanFrom, LastFile
  <2>1. engine[u][e] \in {"prepared", "committed"}
    BY <1>4, <1>5, <1>6, <1>12
  <2> QED BY <2>1 DEF RecoverInv, NeededKept
<1> QED BY <1>9, <1>10, <1>11, <1>13, <1>16, <1>17, <1>19, <1>20, <1>21 DEF RecoverInv

\* With every thread at rest there is no group.
LEMMA QuietGroups == Quiet => FollowersLed /\ GroupsPrepared /\ GroupsFile
<1> SUFFICES ASSUME Quiet PROVE FollowersLed /\ GroupsPrepared /\ GroupsFile
  OBVIOUS
<1>1. \A t \in Trx : th[t].pc # "logged" /\ th[t].pc \notin Leading
  BY DEF Quiet, Leading
<1> QED BY <1>1 DEF FollowersLed, GroupsPrepared, GroupsFile

\* A crash turns commits that are not durable into prepared transactions: they too
\* are in a file that recovery reads.
LEMMA CrashRecovers ==
  ASSUME CountInv, RecoverInv, Crash
  PROVE  RecoverInv'
<1>1. /\ xids' = xids /\ ckpt' = ckpt /\ index' = index
      /\ server' = "recovering" /\ requests' = {}
  BY DEF Crash, disk
<1>2. \A t \in Trx, e \in Engine :
        engine'[t][e] = IF engine[t][e] = "committed" THEN "prepared" ELSE engine[t][e]
  BY DEF Crash
<1>3. /\ \A t \in Trx : Participants(t) \subseteq Engine
      /\ \A f \in Files : xids[f] \subseteq Trx
  BY Kinds DEF CountInv, TypeOK
<1>4. RecoveryAgrees'
  <2>1. Logged' = Logged
    BY <1>1 DEF Logged
  <2> QED BY <1>2, <1>3, <2>1 DEF RecoverInv, RecoveryAgrees
<1>5. CommittedUp' /\ RequestsServed' /\ PreparedWaits' /\ CommittedAsked'
  BY <1>1, <1>2 DEF CommittedUp, RequestsServed, PreparedWaits, CommittedAsked
<1>6. Quiet'
  BY CrashCounts
<1>7. FollowersLed' /\ GroupsPrepared' /\ GroupsFile'
  BY <1>6, QuietGroups, PTL
<1>8. NeededKept'
  <2> SUFFICES ASSUME NEW f \in Files, NEW t \in xids[f], NEW e \in Participants(t),
                      engine'[t][e] \in {"prepared", "committed"}
               PROVE  f \in index /\ ScanFrom <= f
    BY <1>1 DEF NeededKept, ScanFrom, LastFile
  <2>1. engine[t][e] \in {"prepared", "committed"}
    BY <1>2, <1>3
  <2> QED BY <2>1 DEF RecoverInv, NeededKept
<1> QED BY <1>4, <1>5, <1>7, <1>8 DEF RecoverInv

\* Recovery gives up and leaves everything as it is.
LEMMA RecoverAbortsRecovers ==
  ASSUME CountInv, RecoverInv, RecoverAborts
  PROVE  RecoverInv'
<1>1. /\ xids' = xids /\ ckpt' = ckpt /\ index' = index /\ engine' = engine /\ th' = th
      /\ cur' = cur /\ requests' = requests /\ server = "recovering" /\ server' = "aborted"
  BY DEF RecoverAborts, disk, list, notices
<1>2. RecoveryAgrees' /\ CommittedUp' /\ RequestsServed' /\ PreparedWaits' /\ CommittedAsked'
  BY <1>1 DEF RecoverInv, RecoveryAgrees, Logged, CommittedUp, RequestsServed, PreparedWaits,
              CommittedAsked
<1>3. FollowersLed' /\ GroupsPrepared' /\ GroupsFile'
  BY <1>1 DEF RecoverInv, FollowersLed, GroupsPrepared, GroupsFile
<1>4. NeededKept'
  BY <1>1 DEF RecoverInv, NeededKept, ScanFrom, LastFile
<1> QED BY <1>2, <1>3, <1>4 DEF RecoverInv

\* Recovery reads every file with a transaction that is prepared, so it commits those
\* that are in the log and rolls back the others.
LEMMA RecoverEngineRecovers ==
  ASSUME CountInv, RecoverInv, NEW e \in Engine, RecoverEngine(e)
  PROVE  RecoverInv'
<1>1. /\ xids' = xids /\ ckpt' = ckpt /\ index' = index /\ th' = th /\ cur' = cur
      /\ oldest' = oldest /\ requests' = requests /\ server = "recovering" /\ server' = server
  BY DEF RecoverEngine, disk, list, notices
<1>2. \A t \in Trx, d \in Engine :
        engine'[t][d] = IF d # e \/ engine[t][d] # "prepared" THEN engine[t][d]
                        ELSE IF t \in Scanned THEN "durable" ELSE "rolledback"
  BY DEF RecoverEngine, CountInv, TypeOK
<1>3. /\ \A t \in Trx : Participants(t) \subseteq Engine
      /\ \A f \in Files : xids[f] \subseteq Trx
  BY Kinds DEF CountInv, TypeOK
<1>4. \A t \in Trx : t \in Scanned => t \in Logged
  <2>1. index \subseteq Files /\ LastFile \in index
    BY MaxFile DEF LastFile, CountInv, TypeOK, FilesInOrder
  <2> QED BY <2>1 DEF Scanned, Logged
<1>5. ASSUME NEW t \in Trx, e \in Participants(t), engine[t][e] = "prepared", t \in Logged
      PROVE  t \in Scanned
  <2>1. PICK f \in Files : t \in xids[f]
    BY <1>5 DEF Logged
  <2>2. f \in index /\ ScanFrom <= f
    BY <1>5, <2>1 DEF RecoverInv, NeededKept
  <2>3. f >= ScanFrom
    BY <2>2, FilesNat DEF CountInv, CheckpointsSafe
  <2> QED BY <2>1, <2>2, <2>3 DEF Scanned
<1>6. RecoveryAgrees'
  <2>1. Logged' = Logged
    BY <1>1 DEF Logged
  <2>2. ASSUME NEW t \in Trx, NEW d \in Participants(t)
        PROVE  /\ engine'[t][d] = "rolledback" => t \notin Logged
               /\ engine'[t][d] \in {"committed", "durable"} => t \in Logged
    <3>1. CASE d = e /\ engine[t][d] = "prepared"
      BY <1>2, <1>3, <1>4, <1>5, <3>1
    <3>2. CASE d # e \/ engine[t][d] # "prepared"
      <4>1. engine'[t][d] = engine[t][d]
        BY <1>2, <1>3, <3>2
      <4> QED BY <4>1 DEF RecoverInv, RecoveryAgrees
    <3> QED BY <3>1, <3>2
  <2> QED BY <2>1, <2>2 DEF RecoveryAgrees
<1>7. CommittedUp' /\ RequestsServed' /\ CommittedAsked'
  <2>1. requests = {}
    BY <1>1 DEF CountInv, QuietWhenDown
  <2>2. CommittedUp'
    BY <1>1, <1>2 DEF RecoverInv, CommittedUp
  <2> QED BY <1>1, <2>1, <2>2 DEF RequestsServed, CommittedAsked
<1>8. GroupsPrepared'
  <2>1. Quiet
    BY <1>1, DownQuiet
  <2>2. \A t \in Trx : th'[t].pc \notin Leading
    BY <1>1, <2>1 DEF Quiet, Leading
  <2> QED BY <2>2 DEF GroupsPrepared
<1>9. \A f \in Files : \A t \in xids[f] : \A d \in Participants(t) :
        /\ engine'[t][d] = "prepared" => engine[t][d] = "prepared"
        /\ engine'[t][d] = "committed" => engine[t][d] = "committed"
  BY <1>2, <1>3
<1> QED BY <1>1, <1>6, <1>7, <1>8, <1>9, EngineRecovers

\* When the log is opened again no engine has anything to recover.
LEMMA RestartRecovers ==
  ASSUME CountInv, RecoverInv, Restart
  PROVE  RecoverInv'
<1>1. /\ xids' = xids /\ engine' = engine /\ requests' = requests
      /\ server = "recovering" /\ server' = "up"
      /\ \A t \in Trx, e \in Engine : engine[t][e] # "prepared"
  BY DEF Restart, notices
<1>2. \A t \in Trx, e \in Engine : engine[t][e] \notin {"prepared", "committed"}
  BY <1>1 DEF RecoverInv, CommittedUp
<1>3. /\ \A t \in Trx : Participants(t) \subseteq Engine
      /\ \A f \in Files : xids[f] \subseteq Trx
  BY Kinds DEF CountInv, TypeOK
<1>4. RecoveryAgrees' /\ RequestsServed'
  BY <1>1 DEF RecoverInv, RecoveryAgrees, Logged, RequestsServed
<1>5. CommittedUp' /\ PreparedWaits' /\ CommittedAsked' /\ NeededKept'
  BY <1>1, <1>2, <1>3 DEF CommittedUp, PreparedWaits, CommittedAsked, NeededKept
<1>6. FollowersLed' /\ GroupsPrepared' /\ GroupsFile'
  BY RestartCounts, QuietGroups, PTL
<1> QED BY <1>4, <1>5, <1>6 DEF RecoverInv

\* At the first start nothing is logged and nothing prepared.
LEMMA InitRecovers ==
  ASSUME Init
  PROVE  RecoverInv
<1>1. /\ \A t \in Trx, e \in Engine : engine[t][e] = "active"
      /\ \A f \in Files : xids[f] = {}
      /\ requests = {} /\ th = Started
  BY DEF Init
<1>2. \A t \in Trx : th[t].pc = "idle"
  <2>1. At("idle").pc = "idle"
    BY DEF At
  <2> QED BY <1>1, <2>1, Kinds DEF Started
<1>3. \A t \in Trx : Participants(t) \subseteq Engine
  BY Kinds
<1>4. RecoveryAgrees /\ CommittedUp /\ RequestsServed
  BY <1>1, <1>3 DEF RecoveryAgrees, CommittedUp, RequestsServed
<1>5. PreparedWaits /\ CommittedAsked /\ NeededKept
  BY <1>1 DEF PreparedWaits, CommittedAsked, NeededKept
<1>6. FollowersLed /\ GroupsPrepared /\ GroupsFile
  BY <1>2 DEF FollowersLed, GroupsPrepared, GroupsFile, Leading
<1> QED BY <1>4, <1>5, <1>6 DEF RecoverInv

\* A step of a running server keeps what recovery needs.
LEMMA UpRecovers ==
  ASSUME CountInv, RecoverInv, OneCheckpointEngine, UnlogsCounted, RotatesInOrder,
         Work \/ Optional
  PROVE  RecoverInv'
<1>1. server = "up"
  BY DEF Work, Optional
<1>2. ASSUME NEW t \in Trx, Committing(t) PROVE RecoverInv'
  <2>1. CASE Unlog(t)
    BY <1>1, <2>1, UnlogRecovers
  <2>2. ASSUME NEW e \in Engine, CommitEngine(t, e) PROVE RecoverInv'
    BY <1>1, <2>2, CommitEngineRecovers
  <2> QED BY <1>2, <2>1, <2>2 DEF Committing
<1>3. ASSUME NEW p \in Thread, Logging(p) PROVE RecoverInv'
  <2>1. CASE LockAfterSync(p)
    BY <1>1, <2>1, LockAfterSyncRecovers
  <2>2. CASE CommitOrdered(p)
    BY <1>1, <2>2, CommitOrderedRecovers
  <2>3. CASE RotateLink(p)
    BY <1>1, <2>3, RotateLinkRecovers
  <2>4. ASSUME NEW e \in Checkpoint, RequestCheckpoint(p, e) PROVE RecoverInv'
    BY <1>1, <2>4, RequestCheckpointRecovers
  <2>5. CASE MarkXidDone(p)
    BY <1>1, <2>5, MarkXidDoneRecovers
  <2>6. CASE TrimList(p)
    BY <1>1, <2>6, TrimListRecovers
  <2>7. CASE CheckpointEvent(p)
    BY <1>1, <2>7, CheckpointEventRecovers
  <2>8. CASE PurgeExpired(p)
    BY <1>1, <2>8, PurgeExpiredRecovers
  <2> QED BY <1>3, <2>1, <2>2, <2>3, <2>4, <2>5, <2>6, <2>7, <2>8 DEF Logging
<1>4. ASSUME NEW r \in requests, CheckpointNotify(r) PROVE RecoverInv'
  BY <1>1, <1>4, CheckpointNotifyRecovers
<1>5. ASSUME BackgroundThread PROVE RecoverInv'
  BY <1>1, <1>5, BackgroundRecovers
<1>6. ASSUME ResetMaster PROVE RecoverInv'
  BY <1>1, <1>6, ResetRecovers, ResetRequestRecovers, ResetFilesRecovers DEF ResetMaster
<1>7. ASSUME NEW t \in Trx, Transaction(t) PROVE RecoverInv'
  <2>1. ASSUME NEW e \in Engine, Prepare(t, e) PROVE RecoverInv'
    BY <1>1, <2>1, PrepareRecovers
  <2>2. ASSUME NEW group \in SUBSET Trx, WriteGroup(t, group) PROVE RecoverInv'
    BY <1>1, <2>2, WriteGroupRecovers
  <2>3. CASE RotateLeader(t)
    <3>1. Rotate(t, "log") /\ th[t].pc = "log" /\ ~th[t].rotated /\ logLock = t
      BY <2>3 DEF RotateLeader
    <3> QED BY <1>1, <3>1, RotateRecovers
  <2> QED BY <1>7, <2>1, <2>2, <2>3 DEF Transaction
<1>8. ASSUME NEW s \in Session, RotateSession(s) PROVE RecoverInv'
  <2>1. PICK after \in Rotation : Rotate(s, after)
    BY <1>8, EngineAssumption DEF RotateSession, RotateWrite, FlushLogs
  <2>2. th[s].pc = "idle" /\ logLock = NoThread
    BY <1>8 DEF RotateSession, RotateWrite, FlushLogs
  <2> QED BY <1>1, <2>1, <2>2, RotateRecovers
<1>9. ASSUME NEW e \in Checkpoint, EngineFlush(e) PROVE RecoverInv'
  BY <1>1, <1>9, EngineFlushRecovers
<1>10. CASE Work
  BY <1>2, <1>3, <1>4, <1>5, <1>6, <1>10 DEF Work, Notices
<1>11. CASE Optional
  BY <1>1, <1>7, <1>8, <1>9, <1>11, ResetRecovers, PurgeRecovers DEF Optional
<1> QED BY <1>10, <1>11

\* Every step does.
LEMMA NextRecovers ==
  ASSUME CountInv, RecoverInv, OneCheckpointEngine, UnlogsCounted, RotatesInOrder, [Next]_vars
  PROVE  RecoverInv'
<1>1. CASE Recovery
  BY <1>1, RecoverAbortsRecovers, RestartRecovers, RecoverEngineRecovers DEF Recovery
<1>2. CASE UNCHANGED vars
  <2>1. /\ xids' = xids /\ ckpt' = ckpt /\ index' = index /\ engine' = engine /\ cur' = cur
        /\ oldest' = oldest /\ th' = th /\ requests' = requests /\ server' = server
    BY <1>2 DEF vars, disk, list, notices
  <2>2. RecoveryAgrees' /\ CommittedUp' /\ RequestsServed' /\ GroupsPrepared'
    BY <2>1 DEF RecoverInv, RecoveryAgrees, Logged, CommittedUp, RequestsServed, GroupsPrepared
  <2>3. CommittedAsked'
    BY <2>1 DEF RecoverInv, CommittedAsked, Asks, ResetAsked
  <2> QED BY <2>1, <2>2, <2>3, EngineRecovers
<1> QED BY <1>1, <1>2, UpRecovers, CrashRecovers DEF Next, Terminated

\* Crash recovery is right wherever a crash falls between writes, checkpoints,
\* rotations, purges and RESET MASTER: what an engine rolled back is not in the binary
\* log and what it committed is, for every transaction that is counted if it must be
\* and as long as nobody asks for a checkpoint before the group commits under way are
\* through commit_ordered().
THEOREM RecoveryIsRight ==
  OneCheckpointEngine /\ UnlogsCounted /\ RotatesInOrder => (Spec => []RecoveryAgrees)
<1> DEFINE Given == OneCheckpointEngine /\ UnlogsCounted /\ RotatesInOrder
           Inv == CountInv /\ RecoverInv /\ Given
<1>1. Given /\ Init => Inv
  BY InitCounts, InitRecovers
<1>2. Inv /\ [Next]_vars => Inv'
  BY NextCounts, NextRecovers DEF OneCheckpointEngine, UnlogsCounted, RotatesInOrder,
                                  Participants, NeedUnlog
<1>3. Inv => RecoveryAgrees
  BY DEF RecoverInv
<1> QED BY <1>1, <1>2, <1>3, PTL DEF Spec

=============================================================================
