------------------------------- MODULE PrLock -------------------------------
(***************************************************************************)
(* The reader-preferring rw locks of metadata locks (MDL_lock::m_rwlock,   *)
(* MDL_context::m_LOCK_waiting_for): rw_pr_lock_t, mysys/thr_rwlock.c, and *)
(* the way sql/mdl.cc uses several of them.                                *)
(*                                                                         *)
(* A writer keeps the mutex of the lock until it unlocks; a reader only    *)
(* counts itself.  A thread that changes a lock's queues write-locks one   *)
(* lock at a time.  A search for deadlocks read-locks a path of them, each *)
(* inside the one before, and may come to the same lock again.  The mutex  *)
(* and the condition variable are those of pthreads (external).            *)
(***************************************************************************)
EXTENDS Integers, Sequences, SequencesExt, FiniteSets

CONSTANTS
  Thread, NoThread,
  Lock,
  MaxDepth        \* bound: how many locks a search holds

ASSUME PrLockAssumption == NoThread \notin Thread /\ MaxDepth \in Nat \ {0}

VARIABLES
  mutex,       \* who holds rwlock->lock
  readers,     \* active_readers
  waiting,     \* writers_waiting_readers
  writer,      \* active_writer
  path,        \* the locks each thread holds, the last one innermost
  want,        \* the lock that each thread asks for or releases
  pc

lockVars == <<mutex, readers, waiting, writer>>
vars == <<lockVars, path, want, pc>>

TypeOK ==
  /\ mutex \in [Lock -> Thread \union {NoThread}]
  /\ readers \in [Lock -> Nat] /\ waiting \in [Lock -> Nat]
  /\ writer \in [Lock -> BOOLEAN]
  /\ path \in [Thread -> BoundedSeq(Lock, MaxDepth)]
  /\ want \in [Thread -> Lock]
  /\ pc \in [Thread -> {"idle", "rdlock", "wrlock", "asleep", "woken", "locked", "unlock_wr",
                        "unlock_rd"}]

Init ==
  /\ mutex = [l \in Lock |-> NoThread]
  /\ readers = [l \in Lock |-> 0] /\ waiting = [l \in Lock |-> 0]
  /\ writer = [l \in Lock |-> FALSE]
  /\ path = [t \in Thread |-> <<>>]
  /\ want \in [Thread -> Lock]
  /\ pc = [t \in Thread |-> "idle"]

Free(l) == mutex[l] = NoThread

Goto(t, where) == pc' = [pc EXCEPT ![t] = where]

-----------------------------------------------------------------------------
(***************************************************************************)
(* The callers.                                                            *)
(***************************************************************************)

\* MDL_lock::visit_subgraph() comes to the next lock of the wait-for graph, while
\* it holds the ones before for reading.
Visit(t) ==
  /\ \/ pc[t] = "idle"
     \/ pc[t] = "locked" /\ ~writer[Last(path[t])]
  /\ Len(path[t]) < MaxDepth
  /\ \E l \in Lock : want' = [want EXCEPT ![t] = l]
  /\ Goto(t, "rdlock")
  /\ UNCHANGED <<lockVars, path>>

\* A lock's queues, or m_waiting_for, are to be changed; no other lock is held.
Change(t) ==
  /\ pc[t] = "idle"
  /\ \E l \in Lock : want' = [want EXCEPT ![t] = l]
  /\ Goto(t, "wrlock")
  /\ UNCHANGED <<lockVars, path>>

-----------------------------------------------------------------------------
(***************************************************************************)
(* The lock.                                                               *)
(***************************************************************************)

\* Mutant: a reader steps back behind a waiting writer.
RdLockPolitely(t) ==
  LET l == want[t] IN
  /\ pc[t] = "rdlock" /\ Free(l) /\ waiting[l] = 0
  /\ readers' = [readers EXCEPT ![l] = @ + 1]
  /\ path' = [path EXCEPT ![t] = Append(@, l)]
  /\ Goto(t, "locked")
  /\ UNCHANGED <<mutex, waiting, writer, want>>

\* rw_pr_rdlock(): who gets the mutex may read.
RdLock(t) ==
  LET l == want[t] IN
  /\ pc[t] = "rdlock" /\ Free(l)
  /\ readers' = [readers EXCEPT ![l] = @ + 1]
  /\ path' = [path EXCEPT ![t] = Append(@, l)]
  /\ Goto(t, "locked")
  /\ UNCHANGED <<mutex, waiting, writer, want>>

\* Thread t, with the mutex, becomes the writer of l.
BecomeWriter(t, l) ==
  /\ mutex' = [mutex EXCEPT ![l] = t]
  /\ writer' = [writer EXCEPT ![l] = TRUE]
  /\ path' = [path EXCEPT ![t] = <<l>>]
  /\ Goto(t, "locked")

\* rw_pr_wrlock(): with readers, sleep.
WrLock(t) ==
  LET l == want[t] IN
  /\ pc[t] = "wrlock" /\ Free(l)
  /\ IF readers[l] = 0
       THEN BecomeWriter(t, l) /\ UNCHANGED waiting
       ELSE /\ waiting' = [waiting EXCEPT ![l] = @ + 1]
            /\ Goto(t, "asleep")
            /\ UNCHANGED <<mutex, writer, path>>
  /\ UNCHANGED <<readers, want>>

\* Mutant: the condition is not looked at again after the wait.
WrWakeAtOnce(t) ==
  LET l == want[t] IN
  /\ pc[t] = "woken" /\ Free(l)
  /\ BecomeWriter(t, l)
  /\ waiting' = [waiting EXCEPT ![l] = @ - 1]
  /\ UNCHANGED <<readers, want>>

\* pthread_cond_wait() returns with the mutex: the readers are looked at again.
WrWake(t) ==
  LET l == want[t] IN
  /\ pc[t] = "woken" /\ Free(l)
  /\ IF readers[l] = 0
       THEN BecomeWriter(t, l) /\ waiting' = [waiting EXCEPT ![l] = @ - 1]
       ELSE Goto(t, "asleep") /\ UNCHANGED <<mutex, waiting, writer, path>>
  /\ UNCHANGED <<readers, want>>

\* pthread_cond_wait() may return without a signal.
SpuriousWake(t) ==
  /\ pc[t] = "asleep"
  /\ Goto(t, "woken")
  /\ UNCHANGED <<lockVars, path, want>>

Sleepers(l) == {u \in Thread : pc[u] = "asleep" /\ want[u] = l}

\* pthread_cond_signal(no_active_readers) by t, which goes to place where: one of
\* the sleepers wakes, if there is one.
Signal(t, l, where) ==
  IF Sleepers(l) = {} THEN Goto(t, where)
  ELSE \E u \in Sleepers(l) : pc' = [pc EXCEPT ![u] = "woken", ![t] = where]

\* Where a thread is that has released the last lock of its path.
Outside(t) == IF Len(path[t]) = 1 THEN "idle" ELSE "locked"

\* rw_pr_unlock() reads active_writer, without the mutex.
Unlock(t) ==
  /\ pc[t] = "locked"
  /\ Goto(t, IF writer[Last(path[t])] THEN "unlock_wr" ELSE "unlock_rd")
  /\ UNCHANGED <<lockVars, path, want>>

\* Mutant: the writers that wait are left to the readers.
UnlockWrSilently(t) ==
  LET l == Last(path[t]) IN
  /\ pc[t] = "unlock_wr"
  /\ writer' = [writer EXCEPT ![l] = FALSE]
  /\ mutex' = [mutex EXCEPT ![l] = NoThread]
  /\ path' = [path EXCEPT ![t] = Front(@)]
  /\ Goto(t, Outside(t))
  /\ UNCHANGED <<readers, waiting, want>>

\* The branch of a writer, which has the mutex.
UnlockWr(t) ==
  LET l == Last(path[t]) IN
  /\ pc[t] = "unlock_wr"
  /\ writer' = [writer EXCEPT ![l] = FALSE]
  /\ IF waiting[l] # 0 THEN Signal(t, l, Outside(t)) ELSE Goto(t, Outside(t))
  /\ mutex' = [mutex EXCEPT ![l] = NoThread]
  /\ path' = [path EXCEPT ![t] = Front(@)]
  /\ UNCHANGED <<readers, waiting, want>>

\* The branch of a reader: the last one wakes a writer.
UnlockRd(t) ==
  LET l == Last(path[t]) IN
  /\ pc[t] = "unlock_rd" /\ Free(l)
  /\ readers' = [readers EXCEPT ![l] = @ - 1]
  /\ IF readers[l] = 1 /\ waiting[l] # 0
       THEN Signal(t, l, Outside(t)) ELSE Goto(t, Outside(t))
  /\ path' = [path EXCEPT ![t] = Front(@)]
  /\ UNCHANGED <<mutex, waiting, writer, want>>

-----------------------------------------------------------------------------
Locking(t) == RdLock(t) \/ WrLock(t) \/ WrWake(t) \/ UnlockRd(t)
Leaving(t) == Unlock(t) \/ UnlockWr(t)

Next == \E t \in Thread :
  Visit(t) \/ Change(t) \/ Locking(t) \/ SpuriousWake(t) \/ Leaving(t)

Spec == Init /\ [][Next]_vars

\* A search or a change ends by itself, and whoever waits for a mutex that becomes
\* free again and again gets it at last.  Nothing is assumed of spurious wake-ups,
\* nor that searches and changes ever cease.
FairSpec ==
  /\ Spec
  /\ \A t \in Thread : WF_vars(Leaving(t)) /\ SF_vars(Locking(t))

-----------------------------------------------------------------------------
(***************************************************************************)
(* Properties.                                                             *)
(***************************************************************************)

\* The places in the threads' paths where lock l is held.
Holds(l) == {h \in Thread \X (1 .. MaxDepth) :
               h[2] \in DOMAIN path[h[1]] /\ path[h[1]][h[2]] = l}

\* A lock that is written has one holder, which has the mutex and which
\* rw_pr_unlock() will recognise as the writer; the readers of the others are
\* counted exactly, a search that comes back to a lock as often as it does, and
\* will be recognised as readers.
Exclusive ==
  \A l \in Lock :
    IF writer[l]
      THEN /\ mutex[l] \in Thread /\ path[mutex[l]] = <<l>>
           /\ Holds(l) = {<<mutex[l], 1>>}
           /\ readers[l] = 0 /\ pc[mutex[l]] # "unlock_rd"
      ELSE /\ Free(l)
           /\ readers[l] = Cardinality(Holds(l))
           /\ \A t \in Thread : pc[t] = "unlock_wr" => Last(path[t]) # l

\* No wake-up is lost: while writers sleep, someone reads the lock and will wake
\* one when the last reader goes, or someone writes it or is on its way to.
NoLostWakeup ==
  \A l \in Lock : Sleepers(l) # {} =>
    \/ readers[l] > 0 \/ writer[l]
    \/ \E t \in Thread : want[t] = l /\ pc[t] = "woken"

\* A search for deadlocks that asks for one more lock gets it, whatever locks it
\* and other searches hold and whoever waits to write them: the preference for
\* readers on which, says my_pthread.h, the search relies.
ReadersGetIn == \A t \in Thread : pc[t] = "rdlock" ~> pc[t] = "locked"

\* A writer waits for ever only if readers keep coming.
WriterWaitsForReaders ==
  \A t \in Thread, l \in Lock :
    <>[](want[t] = l /\ pc[t] \in {"wrlock", "asleep", "woken"}) => []<>(readers[l] > 0)
=============================================================================
