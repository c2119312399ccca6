----------------------------- MODULE GroupCommit -----------------------------
(***************************************************************************)
(* The group commit of the binary log (sql/log.cc): transactions enter a   *)
(* queue, the first of the queue is the leader, writes all of them to the  *)
(* binary log and commits them in the engines in the same order.  The      *)
(* actions are steps of write_transaction_to_binlog_events() in the thread *)
(* of a transaction; EventGroups has the steps before and after.           *)
(*                                                                         *)
(* ent holds the group_commit_entry of each transaction:                   *)
(*   qbo        queued_by_other                                            *)
(*   err        error: the write or the flush of the binary log failed     *)
(*   signalled  the thread's wakeup_ready                                  *)
(*   rest       the entries from this one on, along the next pointers      *)
(***************************************************************************)
EXTENDS WaitForCommit, Sequences, SequencesExt

CONSTANTS
    Domain,         \* The replication domain of each transaction
    Scheduling,     \* Values of opt_optimize_thread_scheduling a server may start with
    WriteErrors     \* Whether the write or flush of the binary log may fail

VARIABLES
    optimize,       \* opt_optimize_thread_scheduling
    ent,            \* The group_commit_entry of each transaction
    queue,          \* group_commit_queue, in the order of entering
    lk,             \* Owners of LOCK_log, LOCK_after_binlog_sync, LOCK_commit_ordered
    busy,           \* group_commit_queue_busy
    binlog,         \* The transactions in the binary log
    engine          \* The transactions commit_ordered() was called for

gcVars == <<optimize, ent, queue, lk, busy, binlog, engine>>

ASSUME TrxAssumption == Trx \subseteq Nat \ {0} /\ IsFiniteSet(Trx) /\ NoTrx \notin Trx
ASSUME ModeAssumption == Scheduling \subseteq BOOLEAN /\ WriteErrors \in BOOLEAN

Entries == [qbo : BOOLEAN, err : BOOLEAN, signalled : BOOLEAN, rest : Seq(Trx)]

\* write_transaction_to_binlog() fills in a new entry
NewEntry == [qbo |-> FALSE, err |-> FALSE, signalled |-> FALSE, rest |-> <<>>]

GCTypeOK ==
    /\ optimize \in BOOLEAN
    /\ ent \in [Trx -> Entries]
    /\ queue \in Seq(Trx)
    /\ lk \in [{"log", "sync", "commit"} -> Trx \cup {NoTrx}]
    /\ busy \in BOOLEAN
    /\ binlog \in Seq(Trx)
    /\ engine \in Seq(Trx)

GCInit ==
    /\ optimize \in Scheduling
    /\ ent = [t \in Trx |-> NewEntry]
    /\ queue = <<>>
    /\ lk = [l \in {"log", "sync", "commit"} |-> NoTrx]
    /\ busy = FALSE
    /\ binlog = <<>>
    /\ engine = <<>>

\* The transaction that t has to commit after: the one before it in its domain
Earlier(t) == {u \in Trx : u < t /\ Domain[u] = Domain[t]}
Prior(t) == IF Earlier(t) = {} THEN NoTrx ELSE CHOOSE u \in Earlier(t) : \A v \in Earlier(t) : v <= u

Goto(t, l) == pc' = [pc EXCEPT ![t] = l]

-----------------------------------------------------------------------------
(***************************************************************************)
(* queue_for_group_commit()                                                *)
(***************************************************************************)

(* Looks, under its LOCK_wait_commit, whether it has to wait: not when the  *)
(* waitee is in the queue already.                                          *)
CheckPrior(t) ==
    /\ pc[t] = "commit"
    /\ ent' = [ent EXCEPT ![t] = NewEntry]
    /\ Goto(t, IF wfc[t].waitee # NoTrx /\ ~wfc[wfc[t].waitee].started
                 THEN "setready" ELSE "mayqueue")
    /\ UNCHANGED <<optimize, wfc, queue, lk, busy, binlog, engine>>

\* Sets opaque_pointer, so that the waitee can queue it, and starts to wait
SetReady(t) ==
    /\ pc[t] = "setready"
    /\ wfc' = [wfc EXCEPT ![t].ready = TRUE]
    /\ Goto(t, "wait")
    /\ UNCHANGED gcVars

\* The wait, under its lock, is over; when it was queued by its waitee, its commit is done
PriorCame(t) ==
    /\ pc[t] = "wait"
    /\ WaitOver(t)
    /\ ~HalfWoken(t)
    /\ wfc' = [wfc EXCEPT ![t].ready = FALSE, ![t].unwait = "no"]
    /\ Goto(t, IF ~ent[t].qbo THEN "mayqueue"
               ELSE IF optimize THEN "return" ELSE "turn")
    /\ UNCHANGED gcVars

\* The transactions to be queued with t: a chain of waiters that are ready
Followers(t) ==
    {w \in Trx :
        /\ t \in Earlier(w)
        /\ \A x \in Earlier(w) \cup {w} :
              t < x => wfc[x].ready /\ x \in wfc[Prior(x)].subs}

\* The transactions of F in a row, each after those it waits for
InSubIdOrder(F) ==
    {s \in [1 .. Cardinality(F) -> F] :
        /\ \A i, j \in 1 .. Cardinality(F) : i < j => s[i] < s[j]
        /\ \A x \in F : \E i \in 1 .. Cardinality(F) : s[i] = x}

(* Enters the queue under LOCK_prepare_ordered, and all that wait for it    *)
(* and are ready, their waiters too.  The first of a queue is the leader.   *)
(* It has looked at wakeup_error without its LOCK_wait_commit.              *)
Enqueue(t) ==
    LET F == Followers(t) IN
    /\ pc[t] = "mayqueue"
    /\ wfc[t].werr = "ok"
    /\ wfc' = [x \in Trx |->
                  [wfc[x] EXCEPT !.started = @ \/ x \in F \cup {t}, !.subs = @ \ F,
                                 !.torn = @ \/ (x = t /\ HalfWoken(t))]]
    /\ ent' = [x \in Trx |->
                  [ent[x] EXCEPT !.qbo = @ \/ x \in F, !.signalled = @ /\ x # t]]
    /\ \E s \in InSubIdOrder(F) : queue' = queue \o (<<t>> \o s)
    /\ Goto(t, IF queue = <<>> THEN "leader" ELSE "participant")
    /\ UNCHANGED <<optimize, lk, busy, binlog, engine>>

-----------------------------------------------------------------------------
(***************************************************************************)
(* trx_group_commit_leader()                                               *)
(***************************************************************************)

(* Gets LOCK_log and takes the queue.  While it waits for the lock, or in   *)
(* wait_for_sufficient_commits(), others may enter.                         *)
CollectGroup(t) ==
    /\ pc[t] = "leader"
    /\ lk["log"] = NoTrx
    /\ lk' = [lk EXCEPT !["log"] = t]
    /\ queue' = <<>>
    /\ ent' = [x \in Trx |-> [ent[x] EXCEPT !.rest =
                  IF \E i \in DOMAIN queue : queue[i] = x
                    THEN SubSeq(queue, CHOOSE i \in DOMAIN queue : queue[i] = x, Len(queue))
                    ELSE @]]
    /\ Goto(t, "write")
    /\ UNCHANGED <<optimize, wfc, busy, binlog, engine>>

(* Writes the group and flushes the log: single writes may fail, or the     *)
(* flush, for all.                                                          *)
WriteGroup(t) ==
    LET g == ent[t].rest IN
    /\ pc[t] = "write"
    /\ \E bad \in (IF WriteErrors THEN SUBSET ToSet(g) ELSE {{}}) :
          /\ ent' = [x \in Trx |-> [ent[x] EXCEPT !.err = @ \/ x \in bad]]
          /\ binlog' = binlog \o (IF bad = {} THEN g ELSE SelectSeq(g, LAMBDA x : x \notin bad))
    /\ Goto(t, "sync")
    /\ UNCHANGED <<optimize, wfc, queue, lk, busy, engine>>

\* Mutant: lets the next group into the log before it has the next lock
LockAfterSyncLate(t) ==
    /\ pc[t] = "sync"
    /\ \/ lk["log"] = t /\ lk' = [lk EXCEPT !["log"] = NoTrx] /\ UNCHANGED pc
       \/ lk["log"] # t /\ lk["sync"] = NoTrx
          /\ lk' = [lk EXCEPT !["sync"] = t] /\ Goto(t, "order")
    /\ UNCHANGED <<optimize, wfc, ent, queue, busy, binlog, engine>>

\* Gets LOCK_after_binlog_sync and only then releases LOCK_log
LockAfterSync(t) ==
    /\ pc[t] = "sync"
    /\ lk["sync"] = NoTrx
    /\ lk' = [lk EXCEPT !["sync"] = t, !["log"] = NoTrx]
    /\ Goto(t, "order")
    /\ UNCHANGED <<optimize, wfc, ent, queue, busy, binlog, engine>>

(* Gets LOCK_commit_ordered and only then releases LOCK_after_binlog_sync.  *)
(* When each thread runs its own commit_ordered(), a group that finds the   *)
(* one before it unfinished waits, and the wait releases                    *)
(* LOCK_commit_ordered.                                                     *)
LockCommitOrdered(t) ==
    LET wait == ~optimize /\ busy IN
    /\ pc[t] = "order"
    /\ lk["commit"] = NoTrx
    /\ lk' = [lk EXCEPT !["sync"] = NoTrx, !["commit"] = IF wait THEN NoTrx ELSE t]
    /\ busy' = (busy \/ ~optimize)
    /\ Goto(t, IF wait THEN "busywait" ELSE IF optimize THEN "loop" ELSE "turn")
    /\ UNCHANGED <<optimize, wfc, ent, queue, binlog, engine>>

\* ... until the last thread of the other group signals COND_queue_busy
QueueFree(t) ==
    /\ pc[t] = "busywait"
    /\ ~busy
    /\ lk["commit"] = NoTrx
    /\ lk' = [lk EXCEPT !["commit"] = t]
    /\ busy' = TRUE
    /\ Goto(t, "turn")
    /\ UNCHANGED <<optimize, wfc, ent, queue, binlog, engine>>

Ordered(c) == engine' = IF ent[c].err THEN engine ELSE Append(engine, c)

\* The transaction whose waiters thread t is waking up: the leader does it for all
Waking(t) == IF pc[t] = "waking" /\ optimize THEN Head(ent[t].rest) ELSE t

\* The leader commits the next of the group, and starts to wake up its waiters
CommitOrdered(t) ==
    LET c == Head(ent[t].rest) IN
    /\ pc[t] = "loop"
    /\ Ordered(c)
    /\ wfc' = ListTaken(wfc, c)
    /\ Goto(t, IF wfc[c].subs = {} THEN "signal" ELSE "waking")
    /\ UNCHANGED <<optimize, ent, queue, lk, busy, binlog>>

\* Without the optimisation each thread does that for itself, in turn
OwnCommitOrdered(t) ==
    LET last == Len(ent[t].rest) = 1 IN
    /\ pc[t] = "turn"
    /\ lk["commit"] \in {t, NoTrx}
    /\ Ordered(t)
    /\ lk' = [lk EXCEPT !["commit"] = NoTrx]
    /\ busy' = (busy /\ ~last)
    /\ wfc' = ListTaken(wfc, t)
    /\ Goto(t, IF wfc[t].subs = {} THEN "signal" ELSE "waking")
    /\ UNCHANGED <<optimize, ent, queue, binlog>>

WakeOne(t) ==
    /\ pc[t] = "waking"
    /\ WakesOne(Waking(t), IF ent[Waking(t)].err THEN "prior" ELSE "ok")
    /\ UNCHANGED <<pc, gcVars>>

WakeEnd(t) ==
    /\ pc[t] = "waking"
    /\ WakingOver(Waking(t))
    /\ Goto(t, "signal")
    /\ UNCHANGED gcVars

\* c, whose commit is done, is told so: the way it waits depends on who queued it
Tell(c, e) ==
    IF ent[c].qbo
      THEN ~Holding(c) /\ wfc' = WokenUp(wfc, c, e) /\ UNCHANGED ent
      ELSE ent' = [ent EXCEPT ![c].signalled = TRUE] /\ UNCHANGED wfc

\* The leader tells the transaction it has committed, and turns to the next
SignalNext(t) ==
    LET c == Head(ent[t].rest)
        more == Len(ent[t].rest) > 1
        told == IF c # t /\ ~ent[c].qbo
                  THEN [ent EXCEPT ![c].signalled = TRUE] ELSE ent IN
    /\ optimize
    /\ pc[t] = "signal"
    /\ c # t /\ ent[c].qbo => ~Holding(c)
    /\ wfc' = IF c # t /\ ent[c].qbo
                THEN WokenUp(wfc, c, IF ent[c].err THEN "prior" ELSE "ok") ELSE wfc
    /\ ent' = [told EXCEPT ![t].rest = Tail(@)]
    /\ lk' = [lk EXCEPT !["commit"] = IF more THEN @ ELSE NoTrx]
    /\ Goto(t, IF more THEN "loop" ELSE "return")
    /\ UNCHANGED <<optimize, queue, busy, binlog, engine>>

\* Without the optimisation it wakes up the next thread, with its own error
SignalOther(t) ==
    /\ ~optimize
    /\ pc[t] = "signal"
    /\ IF Len(ent[t].rest) <= 1
         THEN UNCHANGED <<wfc, ent>>
         ELSE Tell(ent[t].rest[2], IF ent[t].err THEN "prior" ELSE "ok")
    /\ Goto(t, "return")
    /\ UNCHANGED <<optimize, queue, lk, busy, binlog, engine>>

\* A transaction that queued itself is signalled by the leader, or the one before
Signalled(t) ==
    /\ pc[t] = "participant"
    /\ ent[t].signalled
    /\ Goto(t, IF optimize THEN "return" ELSE "turn")
    /\ UNCHANGED <<wfc, gcVars>>

GroupCommitStep(t) ==
    \/ CheckPrior(t) \/ SetReady(t) \/ PriorCame(t) \/ Enqueue(t)
    \/ CollectGroup(t) \/ WriteGroup(t) \/ LockAfterSync(t) \/ LockCommitOrdered(t)
    \/ QueueFree(t) \/ CommitOrdered(t) \/ OwnCommitOrdered(t)
    \/ WakeOne(t) \/ WakeEnd(t) \/ SignalNext(t) \/ SignalOther(t) \/ Signalled(t)
=============================================================================
