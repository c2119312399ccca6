----------------------------- MODULE EventGroups -----------------------------
(***************************************************************************)
(* Parallel replication (sql/rpl_parallel.cc, rpl_rli.cc): worker threads  *)
(* apply event groups of the master at the same time and commit them, in   *)
(* the order of the master, through the group commit of the binary log.    *)
(* Each event group of the model has its worker thread; a commit by a      *)
(* client is an event group alone in its domain.                           *)
(*                                                                         *)
(* rgi holds the rpl_group_info of each event group:                       *)
(*   marked    did_mark_start_commit                                       *)
(*   failed    worker_error                                                *)
(*   killed    the thread is killed: for a retry ("deadlock"), by a user   *)
(*   spec      speculation: optimistic, wait for prior groups, or none     *)
(*   rowWait   the event group whose row lock it waits for                 *)
(*   result    what became of its transaction                              *)
(*   retries   how often retry_event_group() has run it again              *)
(*   taken     history: a retry took its mark_start_commit() back          *)
(* dom holds the rpl_parallel_entry of each domain:                        *)
(*   last      last_committed_sub_id                                       *)
(*   stopErr   stop_on_error_sub_id, 0 while there is none                 *)
(*   count     count_committing_event_groups                               *)
(*   stopCount stop_count, -1 before force_abort is set                    *)
(***************************************************************************)
EXTENDS GroupCommit

CONSTANTS
    GcoStarts,      \* Event groups that begin a new group_commit_orderer
    Speculation,    \* speculation of each event group, as do_event() sets it
    Conflicts,      \* Pairs <<u, t>>: u may wait for a row lock of the later t
    Faults,         \* What may happen: an event fails for good ("exec") or with
                    \* a temporary error ("temp"), STOP SLAVE ("stop")
    FailAt,         \* bound: where an event fails, before or at the commit
    KillAt,         \* bound: where a user's kill may find the thread of a group
    SlaveTransRetries,  \* slave_trans_retries
    MaxRetries      \* bound on the retries of one group

VARIABLES rgi, dom

vars == <<wfc, pc, optimize, ent, queue, lk, busy, binlog, engine, rgi, dom>>

Domains == {Domain[t] : t \in Trx}

ASSUME GroupsAssumption ==
    /\ GcoStarts \subseteq Trx
    /\ Speculation \in [Trx -> {"no", "wait", "optimistic"}]
    /\ Conflicts \subseteq {c \in Trx \X Trx : c[1] \in Earlier(c[2])}
    /\ Faults \subseteq {"exec", "temp", "stop"}
    /\ FailAt \subseteq {"exec", "commit"}
    /\ SlaveTransRetries \in Nat /\ MaxRetries \in Nat /\ SlaveTransRetries <= MaxRetries

\* Waits for the prior commit, by where the thread waits
PriorWaits == {"wait", "return", "specwait", "skipwait", "retrywait", "finwait"}

Labels ==
    PriorWaits \cup
    {"queued", "exec", "commit", "setready", "mayqueue", "leader", "participant", "write",
     "sync", "order", "busywait", "turn", "loop", "waking", "signal", "retry", "unregister",
     "rollback", "reregister", "finish", "finwaking", "done"}

TypeOK ==
    /\ wfc \in [Trx -> WfcType]
    /\ pc \in [Trx -> Labels]
    /\ GCTypeOK
    /\ rgi \in [Trx -> [marked : BOOLEAN, failed : BOOLEAN, killed : {"no", "deadlock", "user"},
                        spec : {"no", "wait", "optimistic"}, rowWait : Trx \cup {NoTrx},
                        result : {"none", "committed", "rolledback", "skipped"},
                        retries : 0 .. MaxRetries, taken : BOOLEAN]]
    /\ dom \in [Domains -> [last : Trx \cup {0}, stopErr : Trx \cup {0}, count : Nat,
                            stopCount : Int]]

Init ==
    /\ wfc = [t \in Trx |-> NewWfc]
    /\ pc = [t \in Trx |-> "queued"]
    /\ GCInit
    /\ rgi = [t \in Trx |-> [marked |-> FALSE, failed |-> FALSE, killed |-> "no",
                             spec |-> Speculation[t], rowWait |-> NoTrx, result |-> "none",
                             retries |-> 0, taken |-> FALSE]]
    /\ dom = [d \in Domains |-> [last |-> 0, stopErr |-> 0, count |-> 0, stopCount |-> -1]]

-----------------------------------------------------------------------------
\* The start of the group_commit_orderer of t, and its wait_count
GcoStart(t) == {u \in GcoStarts : u = t \/ u \in Earlier(t)}
Before(t) ==
    {u \in Earlier(t) : \E s \in GcoStart(t) : u < s}
WaitCount(t) == Cardinality(Before(t))

\* mark_start_commit() and unmark_start_commit()
Mark(t) ==
    /\ rgi' = [rgi EXCEPT ![t].marked = TRUE]
    /\ dom' = [dom EXCEPT ![Domain[t]].count = @ + (IF rgi[t].marked THEN 0 ELSE 1)]

Unmarked(t) == [dom EXCEPT ![Domain[t]].count = @ - (IF rgi[t].marked THEN 1 ELSE 0)]

\* register_wait_for_prior_event_group_commit(), under LOCK_parallel_entry
RegisterPrior(t) ==
    LET u == Prior(t) IN
    IF u = NoTrx \/ u <= dom[Domain[t]].last
      THEN UNCHANGED wfc
      ELSE ~Locked(u) /\ wfc' = Registered(wfc, t, u)

\* Mutant: off by one, a group that may have started can be skipped
StartGroupSkipped(t) ==
    LET d == Domain[t]
        skip == \/ rgi[t].failed
                \/ dom[d].stopCount >= 0 /\ WaitCount(t) >= dom[d].stopCount
                \/ dom[d].stopErr # 0 /\ Prior(t) # NoTrx /\ dom[d].stopErr <= Prior(t) IN
    /\ pc[t] = "queued"
    /\ dom[d].count >= WaitCount(t)
    /\ RegisterPrior(t)
    /\ Goto(t, IF skip THEN "skipwait" ELSE IF rgi[t].spec = "wait" THEN "specwait" ELSE "exec")
    /\ UNCHANGED <<gcVars, rgi, dom>>

(* A worker takes up an event group: do_gco_wait() waits until the groups it *)
(* may not run in parallel with have started to commit.  The worker skips    *)
(* the group when it was killed meanwhile, when the slave stops or a prior   *)
(* one failed, and registers to commit after it.                             *)
StartGroup(t) ==
    LET d == Domain[t]
        skip == \/ rgi[t].failed
                \/ dom[d].stopCount >= 0 /\ WaitCount(t) > dom[d].stopCount
                \/ dom[d].stopErr # 0 /\ Prior(t) # NoTrx /\ dom[d].stopErr <= Prior(t) IN
    /\ pc[t] = "queued"
    /\ dom[d].count >= WaitCount(t)
    /\ RegisterPrior(t)
    /\ Goto(t, IF skip THEN "skipwait" ELSE IF rgi[t].spec = "wait" THEN "specwait" ELSE "exec")
    /\ UNCHANGED <<gcVars, rgi, dom>>

\* Mutant: the kill ends the wait
KilledLeavesGcoWait(t) ==
    /\ pc[t] = "queued"
    /\ dom[Domain[t]].count < WaitCount(t)
    /\ rgi[t].killed # "no"
    /\ ~rgi[t].failed
    /\ rgi' = [rgi EXCEPT ![t].failed = TRUE, ![t].result = "rolledback"]
    /\ Goto(t, "skipwait")
    /\ UNCHANGED <<wfc, gcVars, dom>>

(* A kill while it waits for the groups it may not run in parallel with:     *)
(* the group has failed, but the wait goes on.                               *)
KilledInGcoWait(t) ==
    /\ pc[t] = "queued"
    /\ dom[Domain[t]].count < WaitCount(t)
    /\ rgi[t].killed # "no"
    /\ ~rgi[t].failed
    /\ rgi' = [rgi EXCEPT ![t].failed = TRUE, ![t].result = "rolledback"]
    /\ UNCHANGED <<wfc, pc, gcVars, dom>>

\* All events but the last are applied; the commit is announced
Execute(t) ==
    /\ pc[t] = "exec"
    /\ rgi[t].rowWait = NoTrx
    /\ rgi[t].killed = "no"
    /\ Mark(t)
    /\ Goto(t, "commit")
    /\ UNCHANGED <<wfc, gcVars>>

\* The row locks of t are released, those it waits for too
Released(r, t) ==
    [x \in Trx |-> [r[x] EXCEPT !.rowWait = IF @ = t \/ x = t THEN NoTrx ELSE @]]

\* signal_error_to_sql_driver_thread(): the group is rolled back for good
Fail(t) ==
    /\ rgi' = [Released(rgi, t) EXCEPT ![t].failed = TRUE, ![t].marked = FALSE,
                  ![t].result = IF @ = "none" THEN "rolledback" ELSE @, ![t].killed = "no"]
    /\ dom' = Unmarked(t)
    /\ Goto(t, "finwait")

(* convert_kill_to_deadlock_error(): a kill for a deadlock becomes one, and  *)
(* any error of a group that ran optimistically but the failure of a prior   *)
(* one.                                                                      *)
ConvertedToDeadlock(t, e) ==
    \/ e # "prior" /\ rgi[t].spec = "optimistic"
    \/ e = "kill" /\ rgi[t].killed = "deadlock"

(* has_temporary_error(): a deadlock or a lock wait timeout of any group.    *)
Temporary(t, e) == e = "temp" \/ ConvertedToDeadlock(t, e)

(* slave_trans_retries bounds the retries of one call of                     *)
(* retry_event_group(); an event that fails after it has returned starts     *)
(* to count anew.                                                            *)
Error(t, e) ==
    \/ /\ Temporary(t, e)
       /\ rgi[t].retries < MaxRetries
       /\ SlaveTransRetries > 0
       /\ rgi' = [rgi EXCEPT ![t].retries = @ + 1]
       /\ Goto(t, "retry")
       /\ UNCHANGED dom
    \/ /\ Temporary(t, e) => rgi[t].retries >= SlaveTransRetries
       /\ Fail(t)

\* An event fails, at any time when the thread was killed
ExecError(t) ==
    /\ \/ pc[t] \in FailAt /\ \E e \in Faults \ {"stop"} : Error(t, e)
       \/ pc[t] \in {"exec", "commit"} /\ rgi[t].killed # "no" /\ Error(t, "kill")
    /\ UNCHANGED <<wfc, gcVars>>

\* STOP SLAVE, with a group of which not all events have been read
AbortHalf(t) ==
    /\ pc[t] = "exec"
    /\ dom[Domain[t]].stopCount >= 0
    /\ \A u \in Trx : t \notin Earlier(u)
    /\ Fail(t)
    /\ UNCHANGED <<wfc, gcVars>>

-----------------------------------------------------------------------------
\* u waits for a row lock of t: the engine reports it
RowWait(u, t) ==
    /\ <<u, t>> \in Conflicts
    /\ pc[u] = "exec"
    /\ rgi[u].rowWait = NoTrx
    /\ pc[t] \in {"exec", "commit", "setready", "wait", "mayqueue"}
    /\ rgi' = [rgi EXCEPT ![u].rowWait = t]
    /\ UNCHANGED <<wfc, pc, gcVars, dom>>

\* The slave background thread kills t, which another group waits for
DeadlockKill(t) ==
    /\ \E u \in Trx : rgi[u].rowWait = t
    /\ rgi[t].killed = "no"
    /\ pc[t] # "done"
    /\ rgi' = [rgi EXCEPT ![t].killed = "deadlock"]
    /\ UNCHANGED <<wfc, pc, gcVars, dom>>

\* A user kills the thread of t
UserKill(t) ==
    /\ pc[t] \in KillAt
    /\ rgi[t].killed = "no"
    /\ rgi' = [rgi EXCEPT ![t].killed = "user"]
    /\ UNCHANGED <<wfc, pc, gcVars, dom>>

\* wait_for_done(): STOP SLAVE
Stop ==
    /\ "stop" \in Faults
    /\ \E d \in Domains : dom[d].stopCount < 0
    /\ dom' = [d \in Domains |-> [dom[d] EXCEPT !.stopCount = dom[d].count]]
    /\ UNCHANGED <<wfc, pc, gcVars, rgi>>

-----------------------------------------------------------------------------
\* A kill ends a wait for the prior commit
GiveUp(t) ==
    /\ pc[t] \in PriorWaits
    /\ pc[t] = "return" => ~ent[t].err
    /\ rgi[t].killed # "no"
    /\ GiveUpWait(t)
    /\ UNCHANGED <<pc, gcVars, rgi, dom>>

RemoveFromList(t) ==
    /\ pc[t] \in PriorWaits
    /\ RemoveSelf(t, pc[t] = "wait" /\ ent[t].qbo)
    /\ UNCHANGED <<pc, gcVars, rgi, dom>>

WaitDone(t) == wfc' = [wfc EXCEPT ![t].unwait = "no"]

\* queue_for_group_commit() finds that the prior group failed, or was killed
PriorFailed(t) ==
    /\ pc[t] = "mayqueue"
    /\ wfc[t].werr # "ok"
    /\ Error(t, wfc[t].werr)
    /\ UNCHANGED <<wfc, gcVars>>

(* The end of the commit: an error of the log, or the wait for prior         *)
(* commits fails; else the engines commit for good.                          *)
Commit(t) ==
    /\ pc[t] = "return"
    /\ IF ent[t].err
         THEN Error(t, "exec") /\ UNCHANGED wfc
         ELSE /\ WaitOver(t)
              /\ WaitDone(t)
              /\ IF wfc[t].werr # "ok"
                   THEN Error(t, wfc[t].werr)
                   ELSE /\ rgi' = [Released(rgi, t) EXCEPT ![t].result = "committed"]
                        /\ Goto(t, "finwait")
                        /\ UNCHANGED dom
    /\ UNCHANGED gcVars

\* A group that must not run before the prior ones have committed
SpeculateWait(t) ==
    /\ pc[t] = "specwait"
    /\ WaitOver(t)
    /\ WaitDone(t)
    /\ IF wfc[t].werr # "ok" THEN Fail(t) ELSE Goto(t, "exec") /\ UNCHANGED <<rgi, dom>>
    /\ UNCHANGED gcVars

\* A group that is skipped still waits for its turn
Skip(t) ==
    /\ pc[t] = "skipwait"
    /\ WaitOver(t)
    /\ WaitDone(t)
    /\ IF wfc[t].werr # "ok"
         THEN Fail(t)
         ELSE /\ rgi' = [rgi EXCEPT ![t].result = IF rgi[t].failed THEN @ ELSE "skipped"]
              /\ Goto(t, "finwait")
              /\ UNCHANGED dom
    /\ UNCHANGED gcVars

-----------------------------------------------------------------------------
(***************************************************************************)
(* retry_event_group()                                                     *)
(***************************************************************************)

\* Takes back the announcement of the commit
Retry(t) ==
    /\ pc[t] = "retry"
    /\ rgi' = [rgi EXCEPT ![t].marked = FALSE, ![t].taken = @ \/ rgi[t].marked]
    /\ dom' = Unmarked(t)
    /\ Goto(t, "unregister")
    /\ UNCHANGED <<wfc, gcVars>>

RetryUnregister(t) ==
    /\ pc[t] = "unregister"
    /\ Unregister(t)
    /\ Goto(t, "rollback")
    /\ UNCHANGED <<gcVars, rgi, dom>>

\* Rolls back, and clears the kill
RetryRollback(t) ==
    /\ pc[t] = "rollback"
    /\ rgi' = [Released(rgi, t) EXCEPT ![t].killed = "no"]
    /\ Goto(t, "reregister")
    /\ UNCHANGED <<wfc, gcVars, dom>>

RetryRegister(t) ==
    /\ pc[t] = "reregister"
    /\ RegisterPrior(t)
    /\ Goto(t, "retrywait")
    /\ UNCHANGED <<gcVars, rgi, dom>>

(* Waits for all prior groups to complete, then applies the group again.  A  *)
(* kill for a deadlock only starts the wait again.                           *)
RetryWaited(t) ==
    /\ pc[t] = "retrywait"
    /\ WaitOver(t)
    /\ IF wfc[t].werr = "ok"
         THEN /\ rgi' = [rgi EXCEPT ![t].spec = "wait", ![t].killed = "no"]
              /\ WaitDone(t)
              /\ Goto(t, "exec")
              /\ UNCHANGED dom
         ELSE IF Temporary(t, wfc[t].werr)
         THEN /\ rgi' = [rgi EXCEPT ![t].killed = "no"]
              /\ wfc' = [wfc EXCEPT ![t].unwait = "no", ![t].werr = "ok"]
              /\ Goto(t, "reregister")
              /\ UNCHANGED dom
         ELSE Fail(t) /\ WaitDone(t)
    /\ UNCHANGED gcVars

-----------------------------------------------------------------------------
(***************************************************************************)
(* finish_event_group()                                                    *)
(***************************************************************************)

FinishWait(t) ==
    /\ pc[t] = "finwait"
    /\ WaitOver(t)
    /\ WaitDone(t)
    /\ rgi' = [rgi EXCEPT ![t].failed = @ \/ wfc[t].werr # "ok",
                          ![t].marked = @ /\ (rgi[t].failed \/ wfc[t].werr = "ok")]
    /\ dom' = IF wfc[t].werr # "ok" /\ ~rgi[t].failed THEN Unmarked(t) ELSE dom
    /\ Goto(t, "finish")
    /\ UNCHANGED gcVars

\* Mutant: an event group does not say that it is through before it wakes others
FinishUnsaid(t) ==
    LET d == Domain[t] IN
    /\ pc[t] = "finish"
    /\ rgi' = [rgi EXCEPT ![t].marked = TRUE, ![t].killed = "no"]
    /\ dom' = [dom EXCEPT
          ![d].count = @ + (IF rgi[t].marked THEN 0 ELSE 1),
          ![d].stopErr = IF rgi[t].failed /\ @ = 0 THEN t ELSE @]
    /\ wfc' = ListTaken(wfc, t)
    /\ Goto(t, IF wfc[t].subs = {} THEN "done" ELSE "finwaking")
    /\ UNCHANGED gcVars

(* Under LOCK_parallel_entry: the group is through; after an error, those    *)
(* that have not started are to be skipped.  Then wakes up who waits.        *)
Finish(t) ==
    LET d == Domain[t] IN
    /\ pc[t] = "finish"
    /\ rgi' = [rgi EXCEPT ![t].marked = TRUE, ![t].killed = "no"]
    /\ dom' = [dom EXCEPT
          ![d].count = @ + (IF rgi[t].marked THEN 0 ELSE 1),
          ![d].last = IF @ < t THEN t ELSE @,
          ![d].stopErr = IF rgi[t].failed /\ @ = 0 THEN t ELSE @]
    /\ wfc' = ListTaken(wfc, t)
    /\ Goto(t, IF wfc[t].subs = {} THEN "done" ELSE "finwaking")
    /\ UNCHANGED gcVars

\* Mutant: does not tell the waiters of the error
FinishWakeOneGladly(t) ==
    /\ pc[t] = "finwaking"
    /\ WakesOne(t, "ok")
    /\ UNCHANGED <<pc, gcVars, rgi, dom>>

FinishWakeOne(t) ==
    /\ pc[t] = "finwaking"
    /\ WakesOne(t, IF rgi[t].failed THEN "prior" ELSE "ok")
    /\ UNCHANGED <<pc, gcVars, rgi, dom>>

FinishEnd(t) ==
    /\ pc[t] = "finwaking"
    /\ WakingOver(t)
    /\ Goto(t, "done")
    /\ UNCHANGED <<gcVars, rgi, dom>>

-----------------------------------------------------------------------------
\* A step of the thread that applies t
Worker(t) ==
    \/ StartGroup(t) \/ KilledInGcoWait(t) \/ Execute(t) \/ PriorFailed(t) \/ Commit(t)
    \/ SpeculateWait(t) \/ Skip(t) \/ GiveUp(t) \/ RemoveFromList(t)
    \/ Retry(t) \/ RetryUnregister(t) \/ RetryRollback(t) \/ RetryRegister(t) \/ RetryWaited(t)
    \/ FinishWait(t) \/ Finish(t) \/ FinishWakeOne(t) \/ FinishEnd(t)
    \/ GroupCommitStep(t) /\ UNCHANGED <<rgi, dom>>

\* What others do to the thread
Disturb ==
    \/ Stop
    \/ \E t \in Trx : ExecError(t) \/ AbortHalf(t) \/ UserKill(t) \/ DeadlockKill(t)
    \/ \E u, t \in Trx : RowWait(u, t)

AllDone == \A t \in Trx : pc[t] = "done"
Terminated == AllDone /\ UNCHANGED vars

Next == (\E t \in Trx : Worker(t)) \/ Disturb \/ Terminated
Spec == Init /\ [][Next]_vars

(* Every thread gets to run, the background thread too, and a killed thread  *)
(* notices the kill: it is checked for at each event and row lock wait.      *)
FairSpec ==
    /\ Spec
    /\ \A t \in Trx : WF_vars(Worker(t)) /\ WF_vars(DeadlockKill(t))
    /\ \A t \in Trx : WF_vars(rgi[t].killed # "no" /\ ExecError(t))
-----------------------------------------------------------------------------
(***************************************************************************)
(* Properties                                                              *)
(***************************************************************************)

(* A group that is over without a commit is nowhere on the way to one: not   *)
(* in the queue, in a group, in the binary log or committed in an engine.    *)
(* What a kill that comes while the waitee takes over the commit endangers   *)
(* (queue_for_group_commit(), the kill path).  The one exception is a group  *)
(* that queued itself between the two stores of its wakeup(), and so did not *)
(* see the error of the group before it; those after it go with it.          *)
RolledBackNotLogged ==
    \A t \in Trx : rgi[t].result \in {"rolledback", "skipped"} =>
        \/ ~\E s \in {queue, binlog, engine} : t \in ToSet(s)
        \/ \E u \in Earlier(t) \cup {t} : wfc[u].torn

(* ... which it would be without exception, were the check without the lock  *)
(* in queue_for_group_commit() safe, as its comment says.                    *)
NeverLogged ==
    \A t \in Trx : rgi[t].result \in {"rolledback", "skipped"} =>
        ~\E s \in {queue, binlog, engine} : t \in ToSet(s)

\* The group was rolled back by retry_event_group(), or is about to be
Retried(t) == rgi[t].retries > 0

(* A group does not commit in an engine after one that failed and did not:   *)
(* the failure reaches it through wakeup_error or stop_on_error_sub_id,      *)
(* whether it registered before or after the failure, but for the group that *)
(* queued itself between the stores of its wakeup().  It says nothing of a   *)
(* group that was retried: retry_event_group() clears wakeup_error,          *)
(* registers again only for a group that is not through, and does not look   *)
(* at stop_on_error_sub_id.                                                  *)
NotAfterFailed ==
    \A t \in ToSet(engine) : Prior(t) # NoTrx /\ ~Retried(t) =>
        \/ rgi[Prior(t)].result # "rolledback"
        \/ Prior(t) \in ToSet(engine)
        \/ wfc[t].torn

\* No group failed, and none took back that it had started to commit
NoneTakenBack == \A t \in Trx : ~rgi[t].failed /\ ~rgi[t].taken

(* A committed group has its predecessor committed.                          *)
NoGap ==
    \A t \in ToSet(engine) : Prior(t) # NoTrx => Prior(t) \in ToSet(engine)

(* A slave stops at a consistent point: while no mark_start_commit() is      *)
(* taken back, by an error or by a retry, a committed group has its          *)
(* predecessor committed, whichever groups STOP SLAVE makes the workers skip *)
(* (stop_count) at whatever time.                                            *)
StopsWithoutGap == NoneTakenBack => NoGap

(* The comment of wait_for_done() on stop_count: it is safe to skip the      *)
(* groups with a larger wait_count, none of them has started.  Then nothing  *)
(* but an error makes a gap, a retry does not.                               *)
StopsConsistently == (\A t \in Trx : ~rgi[t].failed) => NoGap

(* A batch of groups runs only after every group of the earlier batches has  *)
(* started to commit; what goes back to applying its events is a group whose *)
(* mark_start_commit() was taken back by a retry, and no other.              *)
BatchesApart ==
    \A t \in Trx : pc[t] \in {"exec", "commit"} =>
        \A u \in Before(t) : pc[u] \notin {"queued", "exec"} \/ rgi[u].taken

(* The comment of retry_event_group() on a retry after the announcement of   *)
(* the commit: the groups of later batches are still waiting, so that none   *)
(* runs while the group is applied again.                                    *)
LaterStillWaiting ==
    \A t \in Trx : pc[t] \in {"exec", "commit"} =>
        \A u \in Before(t) : pc[u] \notin {"queued", "exec"}

(* The abstract specification: one log, written in the order of the domains, *)
(* and engines that follow it.  Without the optimisation of thread           *)
(* scheduling the engines may not, see SameOrder.                            *)
Abstract ==
    INSTANCE CommitOrder WITH log <- binlog, applied <- IF optimize THEN engine ELSE <<>>

(* Group commit keeps the order of the master in the binary log, and the     *)
(* engines commit in the order of the binary log.                            *)
CommitsInOrder == Abstract!Spec

(* The engines commit in the order of the binary log: what the hand-over of  *)
(* the locks from stage to stage is for, by the comments in                  *)
(* trx_group_commit_leader().                                                *)
SameOrder == SelectSeq(binlog, LAMBDA t : t \in ToSet(engine)) = engine

\* No wakeup is lost, nobody waits for ever: every event group comes to its end
AllFinish == <>AllDone
=============================================================================
