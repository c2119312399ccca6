-------------------------- MODULE EventGroupsProofs -------------------------
(***************************************************************************)
(* Proofs about parallel replication with group commit (modules            *)
(* EventGroups, GroupCommit and WaitForCommit), for any number of event    *)
(* groups and domains, any batches, conflicts of row locks and             *)
(* speculation: what is rolled back was never logged and nobody commits    *)
(* after a group that failed, but for a group that reads its waitee and    *)
(* its wakeup error in the middle of a wakeup(); and the log and the       *)
(* engines keep the order of the master.                                   *)
(*                                                                         *)
(* Each action has two lemmas: ...Keeps for TypeInv, GroupInv and WaitInv, *)
(* and one for ErrInv and FailInv, which need the former after the step.   *)
(***************************************************************************)
EXTENDS EventGroups, ListLemmas, FiniteSetTheorems, WellFoundedInduction

(* What the proofs assume of the server: the leader of a group commits for    *)
(* all (opt_optimize_thread_scheduling, the default), no write to the binary  *)
(* log fails, a user's kill finds a group while it applies its events, and    *)
(* slave_trans_retries is not 0.  Without the first the engines commit in     *)
(* another order than the log; with failed writes, and with kills after the   *)
(* group commit, what is logged may count as rolled back; with kills in       *)
(* wait_for_prior_commit(), and with no retries, a group finishes before      *)
(* those before it.  Kills for deadlocks come at any time, and so do errors   *)
(* of the events, temporary or not.                                           *)
Regular ==
  /\ Scheduling = {TRUE}
  /\ WriteErrors = FALSE
  /\ KillAt \subseteq {"exec"}
  /\ SlaveTransRetries > 0

-----------------------------------------------------------------------------
\* Where a transaction is in the hands of group commit
InGroup == {"leader", "participant", "write", "sync", "order", "loop", "waking", "signal"}
Ending == {"finwait", "finish", "finwaking", "done"}
Retrying == {"retry", "unregister", "rollback", "reregister", "retrywait"}
\* Where a transaction may have row locks others wait for
HasRowLocks == {"exec", "commit", "setready", "wait", "mayqueue", "retry", "unregister", "rollback"}

\* The group has entered the queue of group commit, or has finished
Through(u) == wfc[u].started \/ pc[u] \in {"finwaking", "done"}
AllThrough(t) == \A u \in Earlier(t) : Through(u)

\* The records of EventGroups
RgiType ==
  [marked : BOOLEAN, failed : BOOLEAN, killed : {"no", "deadlock", "user"},
   spec : {"no", "wait", "optimistic"}, rowWait : Trx \cup {NoTrx},
   result : {"none", "committed", "rolledback", "skipped"},
   retries : 0 .. MaxRetries, taken : BOOLEAN]

DomType == [last : Trx \cup {0}, stopErr : Trx \cup {0}, count : Int, stopCount : Int]

\* TypeOK, but that a count may be negative: its bounds play no part here
TypeInv ==
  /\ wfc \in [Trx -> WfcType]
  /\ pc \in [Trx -> Labels]
  /\ GCTypeOK
  /\ rgi \in [Trx -> RgiType]
  /\ dom \in [Domains -> DomType]

\* The leader commits for all, and no write has failed
ModeOK ==
  /\ optimize
  /\ \A t \in Trx : ~ent[t].err /\ pc[t] \notin {"busywait", "turn"}

\* No group up to t entered the queue in the middle of its wakeup()
Untorn(t) == \A u \in Earlier(t) \cup {t} : ~wfc[u].torn

\* Where a group is, whether it has entered the queue, and what became of it
PhaseOK(t) ==
  /\ wfc[t].started =>
       \/ pc[t] \in InGroup \cup {"return"}
       \/ pc[t] = "wait" /\ ent[t].qbo
       \/ pc[t] \in Ending /\ rgi[t].result = "committed"
       \/ pc[t] \in Ending /\ rgi[t].result = "rolledback" /\ ~Untorn(t)
  /\ ~wfc[t].started => pc[t] \notin InGroup \cup {"return"} /\ ~ent[t].qbo /\ rgi[t].result # "committed"
  /\ pc[t] \in Ending <=> rgi[t].result # "none"
  /\ ent[t].qbo => pc[t] \in {"wait", "return"} \cup Ending
  /\ wfc[t].started /\ Untorn(t) => wfc[t].werr = "ok" /\ ~rgi[t].failed
  /\ wfc[t].started => wfc[t].werr # "kill"

(* Who is on a list of waiters comes after its owner and waits for it, or is  *)
(* in the middle of its wakeup().                                             *)
ListedOK(c, t) ==
  /\ c = Prior(t) /\ ~ent[t].qbo
  /\ t \in wfc[c].subs => wfc[t].waitee = c
  /\ t \in wfc[c].walk =>
       /\ wfc[t].waitee \in {c, NoTrx}
       /\ wfc[t].started => wfc[t].torn \/ wfc[c].started

\* The lists of waiters of one that is through are being woken up
ListOK(c) ==
  /\ ~wfc[c].waking => wfc[c].walk = {}
  /\ wfc[c].waking => wfc[c].subs = {} /\ Through(c)
  /\ \A t \in wfc[c].subs \cup wfc[c].walk : ListedOK(c, t)

(* A group waits for the one before it and is on its list, unless it was      *)
(* queued with it; a kill takes it off only before it is queued.              *)
WaitOK(t) ==
  /\ wfc[t].waitee # NoTrx =>
       /\ wfc[t].waitee = Prior(t)
       /\ ~ent[t].qbo => t \in wfc[wfc[t].waitee].subs \cup wfc[wfc[t].waitee].walk
       /\ wfc[t].started \/ pc[t] = "mayqueue" => wfc[wfc[t].waitee].started
       /\ pc[t] \notin {"queued", "rollback", "reregister", "finish", "finwaking", "done"}
       /\ pc[t] = "return" => ~ent[t].qbo
  /\ wfc[t].ready => pc[t] = "wait"
  /\ pc[t] \in {"queued", "rollback", "reregister"} => wfc[t].werr # "kill"
  /\ wfc[t].unwait = "locked" =>
       pc[t] \in {"wait", "return"} /\ rgi[t].killed = "deadlock" /\ wfc[t].waitee # NoTrx /\ (~ent[t].qbo => ~wfc[t].ready)
  /\ wfc[t].werr = "kill" =>
       pc[t] \in {"wait", "mayqueue", "retry", "unregister"} /\ rgi[t].killed = "deadlock" /\ wfc[t].waitee = NoTrx

\* A transaction that does not wait any more has none before it that is on its way
ClearedOK(t) ==
  \/ wfc[t].started
  \/ pc[t] \notin {"queued", "rollback", "reregister"} /\ wfc[t].waitee = NoTrx /\ wfc[t].werr # "kill"
  => AllThrough(t)

\* last_committed_sub_id is the last group that has finished
DomOK(d) ==
  /\ dom[d].last # 0 => Domain[dom[d].last] = d /\ pc[dom[d].last] \in {"finwaking", "done"}
  /\ \A t \in Trx : Domain[t] = d /\ pc[t] \in {"finwaking", "done"} => t <= dom[d].last

(* A group that waits for a row lock is before the owner, and neither is on   *)
(* its way to commit; where a kill can find a group.                          *)
KillOK(t) ==
  /\ rgi[t].rowWait # NoTrx =>
       /\ t \in Earlier(rgi[t].rowWait)
       /\ pc[t] \in {"exec", "retry", "unregister", "rollback"}
       /\ pc[rgi[t].rowWait] \in HasRowLocks
       /\ ~wfc[rgi[t].rowWait].started
  /\ rgi[t].killed = "user" => pc[t] \in {"exec", "retry", "unregister", "rollback"}
  /\ rgi[t].killed # "no" =>
       /\ pc[t] \notin {"queued", "specwait", "skipwait", "reregister", "retrywait"}
       /\ pc[t] = "finwait" => wfc[t].waitee = NoTrx
  /\ rgi[t].killed = "deadlock" /\ wfc[t].waitee # NoTrx /\ ~ent[t].qbo =>
       ~In(engine, wfc[t].waitee) \/ wfc[wfc[t].waitee].waking

\* The parts of a group by the stage of group commit, each with its lock
Unwritten == IF lk["log"] # NoTrx /\ pc[lk["log"]] = "write" THEN ent[lk["log"]].rest ELSE <<>>
Written == IF lk["log"] # NoTrx /\ pc[lk["log"]] = "sync" THEN ent[lk["log"]].rest ELSE <<>>
Synced == IF lk["sync"] # NoTrx THEN ent[lk["sync"]].rest ELSE <<>>
Committing ==
  IF lk["commit"] = NoTrx THEN <<>>
  ELSE IF pc[lk["commit"]] = "loop" THEN ent[lk["commit"]].rest ELSE Tail(ent[lk["commit"]].rest)

\* All transactions that entered the queue, in this order
All == binlog \o (Unwritten \o queue)

\* Groups of one domain are in the order of their sub ids
InOrder(s) ==
    \A i, j \in 1 .. Len(s) : i < j /\ Domain[s[i]] = Domain[s[j]] => s[i] < s[j]

\* Each stage has its lock
LockOK ==
  \A t \in Trx :
    /\ pc[t] \in {"write", "sync"} <=> lk["log"] = t
    /\ pc[t] = "order" <=> lk["sync"] = t
    /\ pc[t] \in {"loop", "waking", "signal"} <=> lk["commit"] = t

(* The leader is the first of the queue, then of its group; who is told that  *)
(* its commit is done is committed.                                           *)
LeaderOK(t) ==
  /\ pc[t] = "leader" => queue # <<>> /\ queue[1] = t
  /\ pc[t] \in {"write", "sync", "order"} => ent[t].rest # <<>> /\ Head(ent[t].rest) = t
  /\ pc[t] \in {"loop", "waking", "signal"} =>
       /\ ent[t].rest # <<>>
       /\ Head(ent[t].rest) = t \/ In(engine, t)
  /\ pc[t] \in {"waking", "signal"} => In(engine, Head(ent[t].rest))
  /\ ent[t].signalled \/ pc[t] = "return" => In(engine, t)
  /\ ent[t].qbo /\ wfc[t].waitee = NoTrx => In(engine, t)
  /\ In(queue, t) => pc[t] \in {"leader", "participant", "wait"}

(* The binary log is what the engines have committed, followed by the groups  *)
(* of the later stages; who has entered the queue is in it or before it, once *)
(* and in order.                                                              *)
LogOK ==
  /\ binlog = engine \o (Committing \o (Synced \o Written))
  /\ SeqInj(All) /\ InOrder(All)
  /\ \A t \in Trx : In(All, t) <=> wfc[t].started

\* What is in the hands of group commit
GroupInv ==
  /\ ModeOK /\ LockOK /\ LogOK
  /\ \A t \in Trx : LeaderOK(t)

\* Who waits for whom
WaitInv ==
  /\ \A t \in Trx : PhaseOK(t) /\ ListOK(t) /\ WaitOK(t) /\ ClearedOK(t) /\ KillOK(t)
  /\ \A d \in Domains : DomOK(d)

\* What an error leaves behind
ErrInv ==
  \A t \in Trx : (wfc[t].waitee # NoTrx => wfc[t].werr = "ok") /\ (rgi[t].failed => pc[t] \in Ending)

\* A step that leaves the group commit alone
Outside ==
  /\ UNCHANGED gcVars
  /\ \A x \in Trx :
       /\ wfc'[x].started = wfc[x].started /\ wfc'[x].torn = wfc[x].torn
       /\ ent[x].qbo => wfc'[x].waitee = wfc[x].waitee
       /\ \/ pc'[x] = pc[x]
          \/ /\ pc[x] \notin InGroup \cup {"wait"}
             /\ pc'[x] \notin InGroup \cup {"return", "busywait", "turn"}

\* A step of t that changes no list of waiters
Moves(t) ==
  /\ \A x \in Trx :
       /\ wfc'[x].waitee = wfc[x].waitee /\ wfc'[x].subs = wfc[x].subs /\ wfc'[x].walk = wfc[x].walk
       /\ wfc'[x].waking = wfc[x].waking /\ wfc'[x].started = wfc[x].started /\ wfc'[x].torn = wfc[x].torn
       /\ ent'[x].qbo = ent[x].qbo
  /\ \A x \in Trx \ {t} :
       /\ wfc'[x].werr = wfc[x].werr /\ wfc'[x].ready = wfc[x].ready /\ wfc'[x].unwait = wfc[x].unwait
       /\ pc'[x] = pc[x]
       /\ rgi'[x].killed = rgi[x].killed /\ rgi'[x].result = rgi[x].result /\ rgi'[x].failed = rgi[x].failed
       /\ rgi'[x].rowWait \in {rgi[x].rowWait, NoTrx}
       /\ rgi'[x].rowWait = t => pc'[t] \in HasRowLocks
  /\ engine' = engine
  /\ {pc[t], pc'[t]} \cap {"finwaking", "done"} = {}
  /\ \A d \in Domains : dom'[d].last = dom[d].last

(* A group that was rolled back failed, and when it has finished the domain   *)
(* knows of it; a group that waits for prior ones before it runs, or was      *)
(* retried, has all of them through, so nobody can wait for its row locks.    *)
FailOK(t) ==
  /\ rgi[t].result = "rolledback" => rgi[t].failed
  /\ rgi[t].failed /\ ~wfc[t].started /\ pc[t] \in {"finwaking", "done"} =>
       dom[Domain[t]].stopErr # 0 /\ dom[Domain[t]].stopErr <= t
  /\ rgi[t].spec = "wait" /\ pc[t] \in HasRowLocks => AllThrough(t)
  /\ rgi[t].spec = "wait" => rgi[t].killed # "deadlock"
  /\ pc[t] \in Retrying => Retried(t)
  /\ Retried(t) => rgi[t].spec = "wait" \/ pc[t] \in Retrying \cup Ending
  /\ rgi[t].spec \in {Speculation[t], "wait"}

\* stop_on_error_sub_id is a group of the domain that has finished
StopOK(d) ==
  dom[d].stopErr # 0 =>
    Domain[dom[d].stopErr] = d /\ pc[dom[d].stopErr] \in {"finwaking", "done"}

\* Where a group is that may come to its commit
OnItsWay == {"specwait", "exec", "commit", "setready", "wait", "mayqueue"}

(* A group whose predecessor was rolled back before it entered the queue has  *)
(* not entered it, but in the middle of its wakeup(): it still waits for the  *)
(* predecessor, is being woken up, or knows of an error.                      *)
AfterFailed(t) ==
  Prior(t) # NoTrx /\ ~Retried(t) /\ rgi[Prior(t)].result = "rolledback" /\ ~wfc[Prior(t)].started =>
    /\ wfc[t].started => wfc[t].torn /\ pc[t] # "wait"
    /\ pc[t] \in OnItsWay =>
         wfc[t].waitee = Prior(t) \/ wfc[t].werr # "ok" \/ HalfWoken(t)

\* What a failed group does to the ones after it
FailInv ==
  /\ \A t \in Trx : FailOK(t) /\ AfterFailed(t)
  /\ \A d \in Domains : StopOK(d)

-----------------------------------------------------------------------------
(* Groups in their order *)

\* A set of natural numbers that is not empty has a least element.
LEMMA LeastNat ==
  ASSUME NEW S \in SUBSET Nat, S # {}
  PROVE  \E m \in S : \A y \in S : m <= y
<1> DEFINE less == {pair \in Nat \X Nat : pair[1] < pair[2]}
<1>1. OpToRel(<, Nat) = less
  BY DEF OpToRel
<1>2. IsWellFoundedOn(less, Nat)
  BY <1>1, NatLessThanWellFounded, Zenon
<1>3. PICK m \in S : \A y \in S : <<y, m>> \notin less
  <2> HIDE DEF less
  <2> QED BY <1>2, WFMin
<1>4. ASSUME NEW y \in S PROVE m <= y
  <2>1. <<y, m>> \in Nat \X Nat /\ <<y, m>>[1] = y /\ <<y, m>>[2] = m
    OBVIOUS
  <2> QED BY <1>3, <2>1
<1> QED BY <1>4

\* The predecessor of a transaction is the last one before it in its domain.
LEMMA PriorLast ==
  ASSUME NEW t \in Trx
  PROVE  /\ Prior(t) = NoTrx <=> Earlier(t) = {}
         /\ Prior(t) # NoTrx =>
              /\ Prior(t) \in Earlier(t)
              /\ \A u : u \in Earlier(t) <=> u \in Earlier(Prior(t)) \/ u = Prior(t)
<1>1. CASE Earlier(t) = {}
  BY <1>1 DEF Prior
<1>2. CASE Earlier(t) # {}
  <2> DEFINE T == {t - u : u \in Earlier(t)}
  <2>0. t \in Nat /\ \A u \in Earlier(t) : u \in Nat /\ u < t /\ u \in Trx /\ Domain[u] = Domain[t]
    BY TrxAssumption DEF Earlier
  <2>1. T \in SUBSET Nat /\ T # {}
    BY <1>2, <2>0
  <2>2. PICK m \in T : \A y \in T : m <= y
    <3> HIDE DEF T
    <3> QED BY <2>1, LeastNat
  <2>3. PICK u \in Earlier(t) : m = t - u
    OBVIOUS
  <2>4. ASSUME NEW v \in Earlier(t) PROVE v <= u
    <3>1. t - v \in T OBVIOUS
    <3>2. t - u <= t - v BY <3>1, <2>2, <2>3
    <3>3. u \in Nat /\ v \in Nat BY <2>0
    <3> HIDE DEF T
    <3> QED BY <3>2, <3>3, <2>0
  <2>5. Prior(t) \in Earlier(t) /\ \A v \in Earlier(t) : v <= Prior(t)
    BY <1>2, <2>4 DEF Prior
  <2>6. Prior(t) # NoTrx
    BY <2>5, <2>0, TrxAssumption
  <2> DEFINE p == Prior(t)
  <2>7. p \in Earlier(t) /\ (\A v \in Earlier(t) : v <= p) /\ p \in Nat /\ p < t /\ Domain[p] = Domain[t] /\ p \in Trx
    BY <2>5, <2>0
  <2> HIDE DEF p, T
  <2>8. ASSUME NEW v, v \in Earlier(t) PROVE v \in Earlier(p) \/ v = p
    <3>1. v \in Nat /\ v <= p /\ v \in Trx /\ Domain[v] = Domain[p] BY <2>0, <2>7, <2>8
    <3> QED BY <3>1, <2>7 DEF Earlier
  <2>9. ASSUME NEW v, v \in Earlier(p) PROVE v \in Earlier(t)
    <3>1. v \in Trx /\ v < p /\ Domain[v] = Domain[t] /\ v \in Nat BY <2>7, <2>9, TrxAssumption DEF Earlier
    <3>2. v < t BY <3>1, <2>7, <2>0
    <3> QED BY <3>1, <3>2 DEF Earlier
  <2> QED BY <2>7, <2>8, <2>9, <2>6, <1>2 DEF p
<1> QED BY <1>1, <1>2

\* A step outside group commit keeps what holds of it.
LEMMA OutsideKeeps ==
  ASSUME TypeInv, GroupInv, Outside
  PROVE  GroupInv'
<1> USE DEF GroupInv, Outside
<1>0. /\ \A l \in {"log", "sync", "commit"} : lk[l] \in Trx \cup {NoTrx}
      /\ UNCHANGED <<optimize, ent, queue, lk, busy, binlog, engine>>
  BY DEF TypeInv, GCTypeOK, gcVars
<1>1. ModeOK'
  BY <1>0 DEF ModeOK
<1>2. LockOK'
  BY <1>0 DEF LockOK, InGroup
<1>3. /\ Unwritten' = Unwritten /\ Written' = Written
      /\ Synced' = Synced /\ Committing' = Committing
  BY <1>0 DEF LockOK, InGroup, Unwritten, Written, Synced, Committing
<1>4. LogOK'
  <2>1. All' = All
    BY <1>0, <1>3 DEF All
  <2> QED BY <2>1, <1>0, <1>3 DEF LogOK
<1>5. ASSUME NEW x \in Trx PROVE LeaderOK(x)'
  BY <1>0 DEF LeaderOK, InGroup, In
<1> QED BY <1>1, <1>2, <1>4, <1>5

\* No group enters the queue in this step.
LEMMA TornSame ==
  ASSUME \A x \in Trx : wfc'[x].torn = wfc[x].torn
  PROVE  \A x \in Trx : Untorn(x)' <=> Untorn(x)
BY DEF Untorn, Earlier

\* What is through stays so.
LEMMA MovesThrough ==
  ASSUME NEW t \in Trx, Moves(t)
  PROVE  /\ \A x \in Trx : Through(x)' <=> Through(x)
         /\ \A x \in Trx : AllThrough(x)' <=> AllThrough(x)
         /\ \A x \in Trx : Untorn(x)' <=> Untorn(x)
<1>1. \A x \in Trx : Through(x)' <=> Through(x)
  BY DEF Moves, Through
<1>2. \A x \in Trx : Untorn(x)' <=> Untorn(x)
  BY TornSame DEF Moves
<1> QED BY <1>1, <1>2 DEF AllThrough, Earlier

\* A step of t that changes no list of waiters keeps WaitInv if t's own part
\* holds after it.
LEMMA MovesKeeps ==
  ASSUME TypeInv, WaitInv, NEW t \in Trx, Moves(t),
         PhaseOK(t)', WaitOK(t)', ClearedOK(t)', KillOK(t)'
  PROVE  WaitInv'
<1> USE DEF WaitInv
<1>0. \A x \in Trx : (Through(x)' <=> Through(x)) /\ (Untorn(x)' <=> Untorn(x))
  BY MovesThrough
<1>1. ASSUME NEW x \in Trx PROVE PhaseOK(x)'
  BY <1>0 DEF PhaseOK, Moves
<1>2. ASSUME NEW x \in Trx PROVE ListOK(x)'
  <2>1. wfc[x].subs \in SUBSET Trx /\ wfc[x].walk \in SUBSET Trx
    BY DEF TypeInv, WfcType, RgiType
  <2> QED BY <1>0, <2>1 DEF ListOK, ListedOK, Moves
<1>3. ASSUME NEW x \in Trx PROVE WaitOK(x)'
  <2>1. wfc[x].waitee \in Trx \cup {NoTrx}
    BY DEF TypeInv, WfcType, RgiType
  <2> QED BY <2>1 DEF WaitOK, Moves
<1>4. ASSUME NEW x \in Trx PROVE ClearedOK(x)'
  <2>1. AllThrough(x)' <=> AllThrough(x)
    BY MovesThrough
  <2> QED BY <2>1 DEF ClearedOK, Moves
<1>5. ASSUME NEW x \in Trx PROVE KillOK(x)'
  <2>1. wfc[x].waitee \in Trx \cup {NoTrx} /\ rgi[x].rowWait \in Trx \cup {NoTrx}
    BY DEF TypeInv, WfcType, RgiType
  <2> QED BY <2>1 DEF KillOK, Moves, Earlier
<1>6. ASSUME NEW d \in Domains PROVE DomOK(d)'
  <2>1. dom[d].last \in Trx \cup {0}
    BY DEF TypeInv, DomType
  <2>2. \A x \in Trx : pc'[x] \in {"finwaking", "done"} <=> pc[x] \in {"finwaking", "done"}
    BY DEF Moves
  <2>3. dom'[d].last = dom[d].last
    BY DEF Moves
  <2>4. dom[d].last # 0 => Domain[dom[d].last] = d /\ pc'[dom[d].last] \in {"finwaking", "done"}
    BY <2>1, <2>2 DEF DomOK
  <2>5. \A x \in Trx : Domain[x] = d /\ pc'[x] \in {"finwaking", "done"} => x <= dom[d].last
    BY <2>2 DEF DomOK
  <2> QED BY <2>3, <2>4, <2>5 DEF DomOK
<1> QED BY <1>1, <1>2, <1>3, <1>4, <1>5, <1>6

-----------------------------------------------------------------------------
(* Steps that change no list of waiters *)

\* What the updates of counts and of a group that ends do to the types.
LEMMA UpdateTypes ==
  ASSUME TypeInv, NEW t \in Trx
  PROVE  /\ Mark(t) => rgi' \in [Trx -> RgiType] /\ dom' \in [Domains -> DomType]
         /\ Unmarked(t) \in [Domains -> DomType]
         /\ \A d \in Domains : Unmarked(t)[d].last = dom[d].last /\ Unmarked(t)[d].stopErr = dom[d].stopErr
         /\ Released(rgi, t) \in [Trx -> RgiType]
         /\ Domain[t] \in Domains
<1>0. Domain[t] \in Domains
  BY DEF Domains
<1>1. rgi \in [Trx -> RgiType] /\ dom \in [Domains -> DomType]
  BY DEF TypeInv
<1>2. Mark(t) => rgi' \in [Trx -> RgiType]
  <2>1. Mark(t) => rgi' = [rgi EXCEPT ![t].marked = TRUE] BY DEF Mark
  <2>2. [rgi EXCEPT ![t].marked = TRUE] \in [Trx -> RgiType] BY <1>1 DEF RgiType
  <2> QED BY <2>1, <2>2
<1>3. Mark(t) => dom' \in [Domains -> DomType]
  BY <1>1, <1>0 DEF Mark, DomType
<1>4. Unmarked(t) \in [Domains -> DomType]
  BY <1>1, <1>0 DEF Unmarked, DomType
<1>5. \A d \in Domains : Unmarked(t)[d].last = dom[d].last /\ Unmarked(t)[d].stopErr = dom[d].stopErr
  BY <1>1, <1>0 DEF Unmarked, DomType
<1>6. Released(rgi, t) \in [Trx -> RgiType]
  BY <1>1 DEF Released, RgiType
<1> QED BY <1>0, <1>2, <1>3, <1>4, <1>5, <1>6


\* A step of t outside group commit.
LEMMA LocalKeeps ==
  ASSUME TypeInv, GroupInv, WaitInv, NEW t \in Trx, Moves(t), UNCHANGED gcVars,
         \/ pc'[t] = pc[t]
         \/ /\ pc[t] \notin InGroup \cup {"wait"}
            /\ pc'[t] \notin InGroup \cup {"return", "busywait", "turn"},
         PhaseOK(t)', WaitOK(t)', ClearedOK(t)', KillOK(t)'
  PROVE  GroupInv' /\ WaitInv'
<1>1. Outside
  BY DEF Outside, Moves
<1> QED BY <1>1, OutsideKeeps, MovesKeeps

\* A group has applied its events and announces its commit.
LEMMA ExecuteKeeps ==
  ASSUME TypeInv, GroupInv, WaitInv, NEW t \in Trx, Execute(t)
  PROVE  TypeInv' /\ GroupInv' /\ WaitInv'
<1> USE DEF Execute, Goto
<1>1. TypeInv'
  BY UpdateTypes DEF TypeInv, gcVars, GCTypeOK, Labels
<1>2. Moves(t)
  BY DEF Moves, TypeInv, Mark, HasRowLocks, gcVars, Domains, RgiType, DomType
<1>5. /\ PhaseOK(t) /\ WaitOK(t) /\ ClearedOK(t) /\ KillOK(t)
      /\ wfc' = wfc /\ ent' = ent /\ engine' = engine /\ pc[t] = "exec" /\ pc'[t] = "commit"
      /\ rgi'[t].rowWait = rgi[t].rowWait /\ rgi[t].rowWait = NoTrx /\ rgi[t].killed = "no" /\ rgi'[t].killed = "no"
      /\ rgi'[t].result = rgi[t].result /\ rgi'[t].failed = rgi[t].failed
  BY DEF WaitInv, Mark, TypeInv, gcVars, RgiType
<1>6. PhaseOK(t)'
  BY <1>5, <1>2, MovesThrough DEF PhaseOK, InGroup, Ending
<1>7. WaitOK(t)'
  BY <1>5 DEF WaitOK
<1>8. ClearedOK(t)'
  BY <1>5, <1>2, MovesThrough DEF ClearedOK
<1>9. KillOK(t)'
  BY <1>5 DEF KillOK
<1> QED BY <1>1, <1>2, <1>5, <1>6, <1>7, <1>8, <1>9, LocalKeeps DEF InGroup

\* signal_error_to_sql_driver_thread(): t gives up, before it has entered the
\* queue or because it did so in the middle of its wakeup().
LEMMA FailKeeps ==
  ASSUME TypeInv, GroupInv, WaitInv, NEW t \in Trx, Fail(t), UNCHANGED gcVars,
         wfc' = wfc \/ WaitDone(t),
         \/ pc[t] \in {"exec", "commit", "mayqueue", "specwait", "skipwait", "retrywait"}
         \/ pc[t] = "return" /\ wfc[t].waitee = NoTrx /\ ~Untorn(t),
         wfc[t].werr # "kill"
  PROVE  TypeInv' /\ GroupInv' /\ WaitInv'
<1> DEFINE r == Released(rgi, t)
<1>a. r \in [Trx -> RgiType] /\ Unmarked(t) \in [Domains -> DomType] /\ dom' = Unmarked(t)
  BY UpdateTypes DEF Fail
<1>b. /\ \A x \in Trx : /\ r[x].rowWait = IF rgi[x].rowWait = t \/ x = t THEN NoTrx ELSE rgi[x].rowWait
                        /\ r[x].killed = rgi[x].killed /\ r[x].result = rgi[x].result
                        /\ r[x].failed = rgi[x].failed /\ r[x].spec = rgi[x].spec
  BY DEF Released, TypeInv, RgiType
<1>c. rgi' = [r EXCEPT ![t].failed = TRUE, ![t].marked = FALSE,
                  ![t].result = IF @ = "none" THEN "rolledback" ELSE @, ![t].killed = "no"]
  BY DEF Fail
<1> HIDE DEF r
<1>d. /\ rgi' \in [Trx -> RgiType]
      /\ \A x \in Trx \ {t} : rgi'[x] = r[x]
      /\ rgi'[t].rowWait = r[t].rowWait /\ rgi'[t].killed = "no" /\ rgi'[t].failed
      /\ rgi'[t].result = IF rgi[t].result = "none" THEN "rolledback" ELSE rgi[t].result
  <2> DEFINE R == [r[t] EXCEPT !.failed = TRUE, !.marked = FALSE,
                    !.result = IF @ = "none" THEN "rolledback" ELSE @, !.killed = "no"]
  <2>1. rgi' = [r EXCEPT ![t] = R]
    BY <1>a, <1>c
  <2>2. R \in RgiType /\ R.rowWait = r[t].rowWait /\ R.killed = "no" /\ R.failed
        /\ R.result = IF r[t].result = "none" THEN "rolledback" ELSE r[t].result
    BY <1>a DEF RgiType
  <2> HIDE DEF R
  <2> QED BY <2>1, <2>2, <1>a, <1>b
<1>e. /\ wfc' \in [Trx -> WfcType] /\ pc' = [pc EXCEPT ![t] = "finwait"] /\ pc' \in [Trx -> Labels]
      /\ \A x \in Trx : wfc'[x].waitee = wfc[x].waitee /\ wfc'[x].subs = wfc[x].subs /\ wfc'[x].walk = wfc[x].walk
                     /\ wfc'[x].waking = wfc[x].waking /\ wfc'[x].started = wfc[x].started /\ wfc'[x].torn = wfc[x].torn
                     /\ wfc'[x].werr = wfc[x].werr /\ wfc'[x].ready = wfc[x].ready
                     /\ wfc'[x].unwait \in IF x = t THEN {wfc[x].unwait, "no"} ELSE {wfc[x].unwait}
  BY DEF Fail, Goto, WaitDone, TypeInv, WfcType, Labels, PriorWaits
<1>1. TypeInv'
  BY <1>a, <1>d, <1>e DEF TypeInv, gcVars, GCTypeOK
<1>2. Moves(t)
  <2>1. \A d \in Domains : dom'[d].last = dom[d].last
    BY <1>a, UpdateTypes
  <2>2. pc'[t] = "finwait" /\ \A x \in Trx \ {t} : pc'[x] = pc[x]
    BY <1>e DEF TypeInv
  <2>3. engine' = engine /\ ent' = ent
    BY DEF gcVars
  <2>4. \A x \in Trx \ {t} :
          /\ rgi'[x].killed = rgi[x].killed /\ rgi'[x].result = rgi[x].result /\ rgi'[x].failed = rgi[x].failed
          /\ rgi'[x].rowWait \in {rgi[x].rowWait, NoTrx} /\ rgi'[x].rowWait # t
    <3> TAKE x \in Trx \ {t}
    <3>1. rgi'[x] = r[x] BY <1>d
    <3>2. r[x].killed = rgi[x].killed /\ r[x].result = rgi[x].result /\ r[x].failed = rgi[x].failed
      BY <1>b
    <3>3. r[x].rowWait \in {rgi[x].rowWait, NoTrx} /\ r[x].rowWait # t
      BY <1>b, TrxAssumption
    <3> QED BY <3>1, <3>2, <3>3
  <2> QED BY <1>e, <2>1, <2>2, <2>3, <2>4 DEF Moves
<1>5. /\ PhaseOK(t) /\ WaitOK(t) /\ ClearedOK(t) /\ KillOK(t)
      /\ ent' = ent /\ engine' = engine /\ pc'[t] = "finwait" /\ rgi'[t].rowWait = NoTrx
  BY <1>b, <1>d, <1>e DEF WaitInv, TypeInv, gcVars
<1>6. PhaseOK(t)'
  BY <1>5, <1>d, <1>e, <1>2, MovesThrough DEF PhaseOK, InGroup, Ending
<1>7. WaitOK(t)'
  <2>1. wfc[t].waitee # NoTrx => wfc'[wfc[t].waitee].subs = wfc[wfc[t].waitee].subs /\ wfc'[wfc[t].waitee].walk = wfc[wfc[t].waitee].walk
                              /\ wfc'[wfc[t].waitee].started = wfc[wfc[t].waitee].started
    BY <1>e DEF TypeInv, WfcType
  <2> QED BY <1>5, <1>e, <2>1 DEF WaitOK, PhaseOK, InGroup
<1>8. ClearedOK(t)'
  BY <1>5, <1>e, <1>2, MovesThrough DEF ClearedOK
<1>9. KillOK(t)'
  BY <1>5, <1>d DEF KillOK
<1> QED BY <1>1, <1>2, <1>5, <1>6, <1>7, <1>8, <1>9, LocalKeeps DEF InGroup

\* The end of a wait touches one field only.
LEMMA WaitDoneFacts ==
  ASSUME TypeInv, NEW t \in Trx, wfc' = wfc \/ WaitDone(t)
  PROVE  /\ wfc' \in [Trx -> WfcType]
         /\ \A x \in Trx : wfc'[x].waitee = wfc[x].waitee /\ wfc'[x].subs = wfc[x].subs /\ wfc'[x].walk = wfc[x].walk
                     /\ wfc'[x].waking = wfc[x].waking /\ wfc'[x].started = wfc[x].started /\ wfc'[x].torn = wfc[x].torn
                     /\ wfc'[x].werr = wfc[x].werr /\ wfc'[x].ready = wfc[x].ready
                     /\ wfc'[x].unwait \in IF x = t THEN {wfc[x].unwait, "no"} ELSE {wfc[x].unwait}
         /\ wfc[t].waitee # NoTrx =>
              LET c == wfc[t].waitee IN
              /\ wfc'[c].subs = wfc[c].subs /\ wfc'[c].walk = wfc[c].walk
              /\ wfc'[c].started = wfc[c].started /\ wfc'[c].waking = wfc[c].waking
         /\ WaitDone(t) => wfc'[t].unwait = "no"
         /\ \A x \in Trx : Untorn(x)' <=> Untorn(x)
<1>1. \A x \in Trx : wfc'[x].torn = wfc[x].torn
  BY DEF WaitDone, TypeInv, WfcType
<1>2. \A x \in Trx : Untorn(x)' <=> Untorn(x)
  BY <1>1, TornSame
<1> QED BY <1>2 DEF WaitDone, TypeInv, WfcType

\* A step of t that changes of its rpl_group_info no more than the marks below.
LEMMA PlainKeeps ==
  ASSUME TypeInv, GroupInv, WaitInv, NEW t \in Trx,
         UNCHANGED gcVars, wfc' = wfc \/ WaitDone(t),
         rgi' \in [Trx -> RgiType], dom' \in [Domains -> DomType], \A d \in Domains : dom'[d].last = dom[d].last,
         \A x \in Trx \ {t} : rgi'[x] = rgi[x],
         NEW l \in Labels \ (InGroup \cup {"return", "busywait", "turn", "finwaking", "done"}), Goto(t, l),
         pc[t] \notin InGroup \cup {"wait", "finwaking", "done"},
         \A x \in Trx \ {t} : rgi[x].rowWait = t => l \in HasRowLocks,
         PhaseOK(t)', WaitOK(t)', ClearedOK(t)', KillOK(t)'
  PROVE  TypeInv' /\ GroupInv' /\ WaitInv'
<1>1. pc' \in [Trx -> Labels] /\ pc'[t] = l /\ \A x \in Trx \ {t} : pc'[x] = pc[x]
  BY DEF TypeInv, Goto
<1>2. TypeInv'
  BY <1>1, WaitDoneFacts DEF TypeInv, gcVars, GCTypeOK
<1>3. Moves(t)
  <2>1. engine' = engine /\ ent' = ent
    BY DEF gcVars
  <2>2. /\ \A x \in Trx :
             /\ wfc'[x].waitee = wfc[x].waitee /\ wfc'[x].subs = wfc[x].subs /\ wfc'[x].walk = wfc[x].walk
             /\ wfc'[x].waking = wfc[x].waking /\ wfc'[x].started = wfc[x].started /\ wfc'[x].torn = wfc[x].torn
             /\ wfc'[x].werr = wfc[x].werr
        /\ \A x \in Trx \ {t} : wfc'[x].ready = wfc[x].ready /\ wfc'[x].unwait = wfc[x].unwait
    BY WaitDoneFacts
  <2>3. {pc[t], pc'[t]} \cap {"finwaking", "done"} = {}
    BY <1>1
  <2> QED BY <1>1, <2>1, <2>2, <2>3 DEF Moves
<1> QED BY <1>1, <1>2, <1>3, LocalKeeps

\* A group that met a temporary error turns to retry_event_group().
LEMMA RetryToKeeps ==
  ASSUME TypeInv, GroupInv, WaitInv, NEW t \in Trx, UNCHANGED <<wfc, gcVars, dom>>,
         rgi[t].retries < MaxRetries, rgi' = [rgi EXCEPT ![t].retries = @ + 1],
         pc[t] \in {"exec", "commit", "mayqueue"}, Goto(t, "retry")
  PROVE  TypeInv' /\ GroupInv' /\ WaitInv'
<1>a. wfc' = wfc \/ WaitDone(t)
  OBVIOUS
<1>b. /\ rgi' \in [Trx -> RgiType] /\ \A x \in Trx \ {t} : rgi'[x] = rgi[x]
      /\ rgi'[t].result = rgi[t].result /\ rgi'[t].killed = rgi[t].killed /\ rgi'[t].rowWait = rgi[t].rowWait
      /\ rgi'[t].failed = rgi[t].failed
  BY GroupsAssumption DEF TypeInv, RgiType
<1>1. /\ PhaseOK(t) /\ WaitOK(t) /\ ClearedOK(t) /\ KillOK(t) /\ pc'[t] = "retry"
      /\ ent' = ent /\ engine' = engine /\ wfc' = wfc /\ (Untorn(t)' <=> Untorn(t))
      /\ \A x \in Trx : Through(x)' <=> Through(x)
  BY <1>a, WaitDoneFacts DEF WaitInv, Goto, TypeInv, gcVars, Through
<1>2. PhaseOK(t)'
  BY <1>1, <1>b DEF PhaseOK, InGroup, Ending
<1>3. WaitOK(t)'
  BY <1>1, <1>b DEF WaitOK, PhaseOK, InGroup
<1>4. ClearedOK(t)'
  BY <1>1 DEF ClearedOK, AllThrough, Earlier
<1>5. KillOK(t)'
  <2>1. rgi[t].rowWait # NoTrx => rgi[t].rowWait # t /\ rgi[t].rowWait \in Trx
    BY <1>1, TrxAssumption DEF KillOK, Earlier, TypeInv, RgiType
  <2>2. rgi[t].rowWait # NoTrx => pc'[rgi[t].rowWait] = pc[rgi[t].rowWait]
    BY <2>1 DEF Goto, TypeInv
  <2> QED BY <1>1, <1>b, <2>2 DEF KillOK
<1> QED BY <1>1, <1>b, <1>2, <1>3, <1>4, <1>5, PlainKeeps DEF TypeInv, Labels, InGroup, HasRowLocks

\* An error, temporary or not.
LEMMA ErrorKeeps ==
  ASSUME TypeInv, GroupInv, WaitInv, NEW t \in Trx, NEW e, Error(t, e), UNCHANGED <<wfc, gcVars>>,
         pc[t] \in {"exec", "commit", "mayqueue"},
         wfc[t].werr = "kill" => Temporary(t, e) /\ rgi[t].retries < SlaveTransRetries
  PROVE  TypeInv' /\ GroupInv' /\ WaitInv'
<1>1. CASE Fail(t) /\ (Temporary(t, e) => rgi[t].retries >= SlaveTransRetries)
  <2>1. rgi[t].retries \in Nat /\ SlaveTransRetries \in Nat
    BY GroupsAssumption DEF TypeInv, RgiType
  <2>2. wfc[t].werr # "kill"
    BY <1>1, <2>1
  <2> QED BY <1>1, <2>2, FailKeeps
<1>2. CASE ~(Fail(t) /\ (Temporary(t, e) => rgi[t].retries >= SlaveTransRetries))
  BY <1>2, RetryToKeeps DEF Error
<1> QED BY <1>1, <1>2

\* An error of an event, of a stop in mid-group, or of the prior commit.
LEMMA ExecErrorKeeps ==
  ASSUME TypeInv, GroupInv, WaitInv, NEW t \in Trx, FailOK(t), SlaveTransRetries > 0,
         ExecError(t) \/ AbortHalf(t) \/ PriorFailed(t)
  PROVE  TypeInv' /\ GroupInv' /\ WaitInv'
<1>1. WaitOK(t)
  BY DEF WaitInv
<1>2. CASE ExecError(t)
  <2>1. UNCHANGED <<wfc, gcVars>> /\ pc[t] \in {"exec", "commit"} /\ \E e : Error(t, e)
    BY <1>2, GroupsAssumption DEF ExecError
  <2> QED BY <1>1, <2>1, ErrorKeeps DEF WaitOK
<1>3. CASE AbortHalf(t)
  BY <1>1, <1>3, FailKeeps DEF AbortHalf, WaitOK
<1>4. CASE PriorFailed(t)
  <2>1. wfc[t].werr = "kill" => Temporary(t, wfc[t].werr) /\ rgi[t].killed = "deadlock"
    BY <1>1 DEF WaitOK, Temporary, ConvertedToDeadlock
  <2>2. rgi[t].killed = "deadlock" => rgi[t].retries < SlaveTransRetries
    BY <1>4, GroupsAssumption DEF PriorFailed, FailOK, Retried, Retrying, Ending, TypeInv, RgiType
  <2> QED BY <1>4, <2>1, <2>2, ErrorKeeps DEF PriorFailed
<1> QED BY <1>2, <1>3, <1>4

\* The end of a commit: the engines commit for good.
LEMMA CommitKeeps ==
  ASSUME TypeInv, GroupInv, WaitInv, NEW t \in Trx, Commit(t)
  PROVE  TypeInv' /\ GroupInv' /\ WaitInv'
<1> DEFINE r == Released(rgi, t)
<1>0. /\ PhaseOK(t) /\ WaitOK(t) /\ ClearedOK(t) /\ KillOK(t) /\ pc[t] = "return"
      /\ ~ent[t].err /\ wfc[t].started /\ rgi[t].result = "none"
  BY DEF Commit, WaitInv, PhaseOK, GroupInv, ModeOK, InGroup, Ending
<1>1. CASE wfc[t].werr # "ok"
  <2>1. wfc[t].werr = "prior" /\ ~Untorn(t)
    BY <1>0, <1>1 DEF WaitOK, PhaseOK, TypeInv, WfcType, WakeupErrors
  <2>2. /\ Error(t, "prior") /\ WaitDone(t) /\ wfc[t].waitee = NoTrx /\ UNCHANGED gcVars
    BY <1>0, <2>1 DEF Commit, WaitOver
  <2>3. Fail(t)
    BY <2>2 DEF Error, Temporary, ConvertedToDeadlock
  <2> QED BY <1>0, <2>1, <2>2, <2>3, FailKeeps
<1> SUFFICES ASSUME wfc[t].werr = "ok" PROVE TypeInv' /\ GroupInv' /\ WaitInv'
  BY <1>1
<1>a. /\ PhaseOK(t) /\ WaitOK(t) /\ ClearedOK(t) /\ KillOK(t) /\ pc[t] = "return"
      /\ ~ent[t].err /\ wfc[t].werr = "ok" /\ wfc[t].started /\ rgi[t].result = "none"
  BY <1>0
<1>b. /\ WaitOver(t) /\ WaitDone(t) /\ rgi' = [r EXCEPT ![t].result = "committed"]
      /\ Goto(t, "finwait") /\ UNCHANGED dom /\ UNCHANGED gcVars
  BY <1>a DEF Commit
<1>c. /\ r \in [Trx -> RgiType]
      /\ \A x \in Trx : /\ r[x].rowWait = IF rgi[x].rowWait = t \/ x = t THEN NoTrx ELSE rgi[x].rowWait
                        /\ r[x].killed = rgi[x].killed /\ r[x].result = rgi[x].result
                        /\ r[x].failed = rgi[x].failed /\ r[x].spec = rgi[x].spec
  BY UpdateTypes DEF Released, TypeInv, RgiType
<1> HIDE DEF r
<1>d. \A x \in Trx : rgi[x].rowWait # t
  BY <1>a, TrxAssumption DEF WaitInv, KillOK, HasRowLocks
<1>e. /\ rgi' \in [Trx -> RgiType]
      /\ \A x \in Trx \ {t} : rgi'[x] = r[x]
      /\ rgi'[t].rowWait = NoTrx /\ rgi'[t].killed = rgi[t].killed /\ rgi'[t].failed = rgi[t].failed
      /\ rgi'[t].result = "committed"
  BY <1>b, <1>c DEF RgiType
<1>f. /\ ent' = ent /\ engine' = engine /\ pc' = [pc EXCEPT ![t] = "finwait"] /\ pc'[t] = "finwait"
      /\ pc' \in [Trx -> Labels] /\ \A x \in Trx \ {t} : pc'[x] = pc[x]
  BY <1>b DEF gcVars, Goto, TypeInv, Labels, PriorWaits
<1>g. /\ wfc' \in [Trx -> WfcType]
      /\ \A x \in Trx : wfc'[x].waitee = wfc[x].waitee /\ wfc'[x].subs = wfc[x].subs /\ wfc'[x].walk = wfc[x].walk
                     /\ wfc'[x].waking = wfc[x].waking /\ wfc'[x].started = wfc[x].started /\ wfc'[x].torn = wfc[x].torn
                     /\ wfc'[x].werr = wfc[x].werr /\ wfc'[x].ready = wfc[x].ready
      /\ \A x \in Trx \ {t} : wfc'[x].unwait = wfc[x].unwait
      /\ wfc'[t].unwait = "no"
  BY <1>b, WaitDoneFacts
<1>3. TypeInv'
  BY <1>b, <1>e, <1>f, <1>g DEF TypeInv, gcVars, GCTypeOK
<1>2. Moves(t)
  <2>1. \A x \in Trx \ {t} :
          /\ rgi'[x].killed = rgi[x].killed /\ rgi'[x].result = rgi[x].result /\ rgi'[x].failed = rgi[x].failed
          /\ rgi'[x].rowWait \in {rgi[x].rowWait, NoTrx} /\ rgi'[x].rowWait # t
    BY <1>c, <1>d, <1>e
  <2>2. {pc[t], pc'[t]} \cap {"finwaking", "done"} = {}
    BY <1>a, <1>f
  <2> QED BY <1>b, <1>f, <1>g, <2>1, <2>2 DEF Moves
<1>6. PhaseOK(t)'
  BY <1>a, <1>e, <1>f, <1>g, <1>2, MovesThrough DEF PhaseOK, InGroup, Ending
<1>7. WaitOK(t)'
  BY <1>a, <1>b, <1>f, <1>g DEF WaitOK, WaitOver
<1>8. ClearedOK(t)'
  BY <1>a, <1>g, <1>2, MovesThrough DEF ClearedOK
<1>9. KillOK(t)'
  BY <1>a, <1>b, <1>e, <1>f, <1>g DEF KillOK, WaitOver
<1> QED BY <1>3, <1>2, <1>a, <1>b, <1>f, <1>6, <1>7, <1>8, <1>9, LocalKeeps DEF InGroup

\* The waits of groups that are not to run yet, or at all.
LEMMA SpeculateWaitKeeps ==
  ASSUME TypeInv, GroupInv, WaitInv, ErrInv, NEW t \in Trx, SpeculateWait(t) \/ Skip(t)
  PROVE  TypeInv' /\ GroupInv' /\ WaitInv'
<1>a. /\ PhaseOK(t) /\ WaitOK(t) /\ ClearedOK(t) /\ KillOK(t) /\ pc[t] \in {"specwait", "skipwait"}
      /\ UNCHANGED gcVars /\ WaitDone(t) /\ wfc[t].waitee = NoTrx
      /\ ent' = ent /\ engine' = engine
  BY DEF SpeculateWait, Skip, WaitInv, gcVars, WaitOver
<1>b. /\ ~wfc[t].started /\ rgi[t].killed = "no" /\ rgi[t].rowWait = NoTrx /\ wfc[t].werr # "kill"
      /\ wfc[t].unwait # "locked" /\ rgi[t].result = "none" /\ ~wfc[t].ready /\ wfc[t].werr # "kill"
  BY <1>a DEF PhaseOK, WaitOK, KillOK, InGroup, Ending
<1>c. \A x \in Trx : rgi[x].rowWait # t
  BY <1>a, TrxAssumption DEF WaitInv, KillOK, HasRowLocks
<1>d. ~rgi[t].failed
  BY <1>a DEF ErrInv, Ending
<1>1. CASE wfc[t].werr # "ok"
  BY <1>1, <1>a, <1>b, FailKeeps DEF SpeculateWait, Skip
<1>2. CASE wfc[t].werr = "ok" /\ SpeculateWait(t)
  <2>1. Goto(t, "exec") /\ rgi' = rgi /\ dom' = dom /\ pc'[t] = "exec" /\ \A x \in Trx : Through(x)' <=> Through(x)
    BY <1>2, <1>a, WaitDoneFacts DEF SpeculateWait, Goto, TypeInv, Through
  <2>2. PhaseOK(t)'
    BY <1>a, <1>b, <2>1, WaitDoneFacts DEF PhaseOK, InGroup, Ending
  <2>3. WaitOK(t)'
    BY <1>a, <1>b, <2>1, WaitDoneFacts DEF WaitOK
  <2>4. ClearedOK(t)'
    BY <1>a, <1>b, <2>1, WaitDoneFacts DEF ClearedOK, AllThrough, Earlier
  <2>5. KillOK(t)'
    BY <1>a, <1>b, <2>1, WaitDoneFacts DEF KillOK
  <2> QED BY <1>a, <2>1, <2>2, <2>3, <2>4, <2>5, PlainKeeps DEF TypeInv, Labels, InGroup, HasRowLocks
<1>3. CASE wfc[t].werr = "ok" /\ Skip(t)
  <2>1. /\ Goto(t, "finwait") /\ rgi' = [rgi EXCEPT ![t].result = IF rgi[t].failed THEN @ ELSE "skipped"] /\ dom' = dom
    BY <1>3, <1>a DEF Skip
  <2>a. pc'[t] = "finwait" /\ \A x \in Trx : Through(x)' <=> Through(x)
    BY <2>1, <1>a, WaitDoneFacts DEF Goto, TypeInv, Through
  <2>b. /\ rgi' \in [Trx -> RgiType] /\ \A x \in Trx \ {t} : rgi'[x] = rgi[x]
        /\ rgi'[t].result = "skipped" /\ rgi'[t].killed = rgi[t].killed /\ rgi'[t].rowWait = rgi[t].rowWait
        /\ rgi'[t].failed = rgi[t].failed
    BY <2>1, <1>d DEF TypeInv, RgiType
  <2>2. PhaseOK(t)'
    BY <1>a, <1>b, <2>a, <2>b, WaitDoneFacts DEF PhaseOK, InGroup, Ending
  <2>3. WaitOK(t)'
    BY <1>a, <1>b, <2>a, <2>b, WaitDoneFacts DEF WaitOK
  <2>4. ClearedOK(t)'
    BY <1>a, <1>b, <2>a, WaitDoneFacts DEF ClearedOK, AllThrough, Earlier
  <2>5. KillOK(t)'
    BY <1>a, <1>b, <2>a, <2>b, WaitDoneFacts DEF KillOK
  <2> QED BY <1>a, <1>c, <2>1, <2>b, <2>2, <2>3, <2>4, <2>5, PlainKeeps DEF TypeInv, Labels, PriorWaits, InGroup, HasRowLocks
<1> QED BY <1>1, <1>2, <1>3

\* A kill for a deadlock interrupts a wait for the prior commit.
LEMMA GiveUpKeeps ==
  ASSUME TypeInv, GroupInv, WaitInv, NEW t \in Trx, GiveUp(t)
  PROVE  TypeInv' /\ GroupInv' /\ WaitInv'
<1>a. /\ PhaseOK(t) /\ WaitOK(t) /\ ClearedOK(t) /\ KillOK(t) /\ pc[t] \in PriorWaits /\ rgi[t].killed # "no"
      /\ pc' = pc /\ rgi' = rgi /\ dom' = dom /\ UNCHANGED gcVars /\ ent' = ent /\ engine' = engine
      /\ wfc[t].waitee # NoTrx /\ wfc' = [wfc EXCEPT ![t].unwait = "locked", ![t].ready = FALSE]
  BY DEF GiveUp, GiveUpWait, WaitInv, gcVars
<1>b. /\ wfc' \in [Trx -> WfcType]
      /\ \A x \in Trx : wfc'[x].waitee = wfc[x].waitee /\ wfc'[x].subs = wfc[x].subs /\ wfc'[x].walk = wfc[x].walk
                     /\ wfc'[x].waking = wfc[x].waking /\ wfc'[x].started = wfc[x].started /\ wfc'[x].torn = wfc[x].torn
                     /\ wfc'[x].werr = wfc[x].werr
      /\ \A x \in Trx \ {t} : wfc'[x] = wfc[x]
      /\ wfc'[t].unwait = "locked" /\ ~wfc'[t].ready /\ wfc[t].waitee \in Trx
  BY <1>a DEF TypeInv, WfcType
<1>c. pc[t] \in {"wait", "return"} /\ rgi[t].killed = "deadlock"
  BY <1>a DEF KillOK, PriorWaits, TypeInv, RgiType
<1>1. TypeInv'
  BY <1>a, <1>b DEF TypeInv, gcVars, GCTypeOK
<1>2. Moves(t)
  <2>1. \A x \in Trx \ {t} : rgi'[x].rowWait = t => pc'[t] \in HasRowLocks
    BY <1>a, TrxAssumption DEF WaitInv, KillOK
  <2> QED BY <1>a, <1>b, <1>c, <2>1 DEF Moves
<1>3. PhaseOK(t)'
  BY <1>a, <1>b, <1>2, MovesThrough DEF PhaseOK
<1>4. WaitOK(t)'
  BY <1>a, <1>b, <1>c DEF WaitOK
<1>5. ClearedOK(t)'
  BY <1>a, <1>b, <1>2, MovesThrough DEF ClearedOK
<1>6. KillOK(t)'
  <2>1. /\ rgi[t].rowWait \in Trx \cup {NoTrx}
        /\ rgi[t].rowWait # NoTrx => wfc'[rgi[t].rowWait].started = wfc[rgi[t].rowWait].started
        /\ wfc'[t].waitee = wfc[t].waitee
        /\ wfc'[wfc[t].waitee].waking = wfc[wfc[t].waitee].waking
    BY <1>b DEF TypeInv, RgiType
  <2> QED BY <1>a, <2>1 DEF KillOK
<1> QED BY <1>a, <1>1, <1>2, <1>3, <1>4, <1>5, <1>6, LocalKeeps

\* unmark_start_commit() of a group to be retried.
LEMMA RetryKeeps ==
  ASSUME TypeInv, GroupInv, WaitInv, NEW t \in Trx, Retry(t)
  PROVE  TypeInv' /\ GroupInv' /\ WaitInv'
<1>1. /\ PhaseOK(t) /\ WaitOK(t) /\ ClearedOK(t) /\ KillOK(t) /\ pc[t] = "retry" /\ pc'[t] = "unregister"
      /\ ent' = ent /\ engine' = engine /\ wfc' = wfc /\ (Untorn(t)' <=> Untorn(t)) /\ dom' = Unmarked(t) /\ UNCHANGED gcVars
      /\ \A x \in Trx : Through(x)' <=> Through(x)
      /\ rgi' = [rgi EXCEPT ![t].marked = FALSE, ![t].taken = @ \/ rgi[t].marked] /\ Goto(t, "unregister")
      /\ \A x \in Trx \ {t} : pc'[x] = pc[x]
  BY WaitDoneFacts DEF WaitInv, Retry, Goto, TypeInv, gcVars, Through
<1>2. /\ rgi' \in [Trx -> RgiType] /\ \A x \in Trx \ {t} : rgi'[x] = rgi[x]
      /\ rgi'[t].result = rgi[t].result /\ rgi'[t].killed = rgi[t].killed /\ rgi'[t].rowWait = rgi[t].rowWait
      /\ rgi'[t].failed = rgi[t].failed
  <2> DEFINE R == [rgi[t] EXCEPT !.marked = FALSE, !.taken = @ \/ rgi[t].marked]
  <2>1. rgi' = [rgi EXCEPT ![t] = R]
    BY <1>1 DEF TypeInv
  <2>2. /\ R \in RgiType /\ R.result = rgi[t].result /\ R.killed = rgi[t].killed /\ R.rowWait = rgi[t].rowWait
        /\ R.failed = rgi[t].failed
    BY DEF TypeInv, RgiType
  <2> HIDE DEF R
  <2> QED BY <2>1, <2>2 DEF TypeInv
<1>3. PhaseOK(t)'
  BY <1>1, <1>2 DEF PhaseOK, InGroup, Ending
<1>4. WaitOK(t)'
  BY <1>1, <1>2 DEF WaitOK, PhaseOK, InGroup
<1>5. ClearedOK(t)'
  BY <1>1 DEF ClearedOK, AllThrough, Earlier
<1>6. KillOK(t)'
  <2>1. rgi[t].rowWait # NoTrx => rgi[t].rowWait # t /\ rgi[t].rowWait \in Trx
    BY <1>1, TrxAssumption DEF KillOK, Earlier, TypeInv, RgiType
  <2> QED BY <1>1, <1>2, <2>1 DEF KillOK
<1> QED BY <1>1, <1>2, <1>3, <1>4, <1>5, <1>6, UpdateTypes, PlainKeeps DEF TypeInv, Labels, InGroup, HasRowLocks

\* The rollback of a group to be retried.
LEMMA RetryRollbackKeeps ==
  ASSUME TypeInv, GroupInv, WaitInv, NEW t \in Trx, RetryRollback(t)
  PROVE  TypeInv' /\ GroupInv' /\ WaitInv'
<1> DEFINE r == Released(rgi, t)
<1>a. /\ PhaseOK(t) /\ WaitOK(t) /\ ClearedOK(t) /\ KillOK(t) /\ pc[t] = "rollback" /\ pc'[t] = "reregister"
      /\ ent' = ent /\ engine' = engine /\ wfc' = wfc /\ dom' = dom /\ UNCHANGED gcVars
      /\ rgi' = [r EXCEPT ![t].killed = "no"]
      /\ \A x \in Trx \ {t} : pc'[x] = pc[x]
      /\ pc' \in [Trx -> Labels]
  BY DEF WaitInv, RetryRollback, Goto, TypeInv, gcVars, Labels
<1>c. /\ r \in [Trx -> RgiType]
      /\ \A x \in Trx : /\ r[x].rowWait = IF rgi[x].rowWait = t \/ x = t THEN NoTrx ELSE rgi[x].rowWait
                        /\ r[x].killed = rgi[x].killed /\ r[x].result = rgi[x].result
                        /\ r[x].failed = rgi[x].failed /\ r[x].spec = rgi[x].spec
  BY UpdateTypes DEF Released, TypeInv, RgiType
<1> HIDE DEF r
<1>e. /\ rgi' \in [Trx -> RgiType]
      /\ \A x \in Trx \ {t} : rgi'[x] = r[x]
      /\ rgi'[t].rowWait = NoTrx /\ rgi'[t].killed = "no" /\ rgi'[t].failed = rgi[t].failed
      /\ rgi'[t].result = rgi[t].result
  BY <1>a, <1>c DEF RgiType
<1>1. TypeInv'
  BY <1>a, <1>e DEF TypeInv, gcVars, GCTypeOK
<1>2. Moves(t)
  <2>1. \A x \in Trx \ {t} :
          /\ rgi'[x].killed = rgi[x].killed /\ rgi'[x].result = rgi[x].result /\ rgi'[x].failed = rgi[x].failed
          /\ rgi'[x].rowWait \in {rgi[x].rowWait, NoTrx} /\ rgi'[x].rowWait # t
    <3> TAKE x \in Trx \ {t}
    <3>1. rgi'[x] = r[x] BY <1>e
    <3>2. r[x].killed = rgi[x].killed /\ r[x].result = rgi[x].result /\ r[x].failed = rgi[x].failed
      BY <1>c
    <3>3. r[x].rowWait \in {rgi[x].rowWait, NoTrx} /\ r[x].rowWait # t
      BY <1>c, TrxAssumption
    <3> QED BY <3>1, <3>2, <3>3
  <2> QED BY <1>a, <2>1 DEF Moves
<1>3. PhaseOK(t)'
  BY <1>a, <1>e, <1>2, MovesThrough DEF PhaseOK, InGroup, Ending
<1>4. WaitOK(t)'
  BY <1>a, <1>e DEF WaitOK
<1>5. ClearedOK(t)'
  BY <1>a DEF ClearedOK, PhaseOK, InGroup, Ending
<1>6. KillOK(t)'
  BY <1>a, <1>e DEF KillOK
<1> QED BY <1>a, <1>1, <1>2, <1>3, <1>4, <1>5, <1>6, LocalKeeps DEF InGroup

\* The wait of a retried group for all prior ones is over.
LEMMA RetryWaitedKeeps ==
  ASSUME TypeInv, GroupInv, WaitInv, NEW t \in Trx, RetryWaited(t)
  PROVE  TypeInv' /\ GroupInv' /\ WaitInv'
<1>a. /\ PhaseOK(t) /\ WaitOK(t) /\ ClearedOK(t) /\ KillOK(t) /\ pc[t] = "retrywait"
      /\ UNCHANGED gcVars /\ wfc[t].waitee = NoTrx /\ ent' = ent /\ engine' = engine
  BY DEF RetryWaited, WaitInv, gcVars, WaitOver
<1>b. /\ ~wfc[t].started /\ rgi[t].killed = "no" /\ rgi[t].rowWait = NoTrx /\ wfc[t].werr # "kill"
      /\ wfc[t].unwait # "locked" /\ rgi[t].result = "none" /\ ~wfc[t].ready
      /\ wfc[t].werr \in {"ok", "prior"}
  BY <1>a DEF PhaseOK, WaitOK, KillOK, InGroup, Ending, TypeInv, WfcType, WakeupErrors
<1>1. CASE wfc[t].werr # "ok"
  <2>1. ~Temporary(t, wfc[t].werr)
    BY <1>b, <1>1 DEF Temporary, ConvertedToDeadlock
  <2> QED BY <1>1, <1>a, <1>b, <2>1, FailKeeps DEF RetryWaited
<1>2. CASE wfc[t].werr = "ok"
  <2>1. /\ Goto(t, "exec") /\ rgi' = [rgi EXCEPT ![t].spec = "wait", ![t].killed = "no"] /\ dom' = dom
        /\ WaitDone(t)
    BY <1>2 DEF RetryWaited
  <2>a. pc'[t] = "exec" /\ \A x \in Trx : Through(x)' <=> Through(x)
    BY <2>1, <1>a, WaitDoneFacts DEF Goto, TypeInv, Through
  <2>b. /\ rgi' \in [Trx -> RgiType] /\ \A x \in Trx \ {t} : rgi'[x] = rgi[x]
        /\ rgi'[t].result = rgi[t].result /\ rgi'[t].killed = "no" /\ rgi'[t].rowWait = rgi[t].rowWait
        /\ rgi'[t].failed = rgi[t].failed
    <3> DEFINE R == [rgi[t] EXCEPT !.spec = "wait", !.killed = "no"]
    <3>1. rgi' = [rgi EXCEPT ![t] = R]
      BY <2>1 DEF TypeInv
    <3>2. /\ R \in RgiType /\ R.result = rgi[t].result /\ R.killed = "no" /\ R.rowWait = rgi[t].rowWait
          /\ R.failed = rgi[t].failed
      BY DEF TypeInv, RgiType
    <3> HIDE DEF R
    <3> QED BY <3>1, <3>2 DEF TypeInv
  <2>2. PhaseOK(t)'
    BY <1>a, <1>b, <2>1, <2>a, <2>b, WaitDoneFacts DEF PhaseOK, InGroup, Ending
  <2>3. WaitOK(t)'
    BY <1>a, <1>b, <1>2, <2>1, <2>a, <2>b, WaitDoneFacts DEF WaitOK
  <2>4. ClearedOK(t)'
    BY <1>a, <1>b, <2>1, <2>a, WaitDoneFacts DEF ClearedOK, AllThrough, Earlier
  <2>5. KillOK(t)'
    BY <1>a, <1>b, <2>a, <2>b DEF KillOK
  <2> QED BY <1>a, <2>1, <2>b, <2>2, <2>3, <2>4, <2>5, PlainKeeps DEF TypeInv, Labels, InGroup, HasRowLocks
<1> QED BY <1>1, <1>2

-----------------------------------------------------------------------------
(* Lists of transactions; kills and stops *)

\* Membership in one list after another.
LEMMA InConcat ==
  ASSUME NEW S, NEW s \in Seq(S), NEW r \in Seq(S)
  PROVE  s \o r \in Seq(S) /\ \A u : In(s \o r, u) <=> In(s, u) \/ In(r, u)
<1> DEFINE R == s \o r
<1>1. /\ R \in Seq(S) /\ Len(R) = Len(s) + Len(r) /\ Len(s) \in Nat /\ Len(r) \in Nat
      /\ \A j \in 1 .. Len(s) : R[j] = s[j]
      /\ \A j \in 1 .. Len(r) : R[Len(s) + j] = r[j]
  OBVIOUS
<1> HIDE DEF R
<1>2. \A j \in 1 .. Len(R) :
         \/ j \in 1 .. Len(s) /\ R[j] = s[j]
         \/ j - Len(s) \in 1 .. Len(r) /\ R[j] = r[j - Len(s)]
  <2> TAKE j \in 1 .. Len(R)
  <2>1. CASE j <= Len(s) BY <1>1, <2>1
  <2>2. CASE j > Len(s)
    <3>1. j - Len(s) \in 1 .. Len(r) /\ Len(s) + (j - Len(s)) = j BY <1>1, <2>2
    <3> QED BY <3>1, <1>1
  <2> QED BY <2>1, <2>2, <1>1
<1>4. ASSUME NEW u, In(R, u) PROVE In(s, u) \/ In(r, u)
  BY <1>1, <1>2, <1>4 DEF In
<1>5. ASSUME NEW u, In(s, u) PROVE In(R, u)
  BY <1>1, <1>5 DEF In
<1>6. ASSUME NEW u, In(r, u) PROVE In(R, u)
  <2>1. PICK j \in 1 .. Len(r) : r[j] = u BY <1>6 DEF In
  <2>2. Len(s) + j \in 1 .. Len(R) /\ R[Len(s) + j] = u BY <2>1, <1>1
  <2> QED BY <2>2 DEF In
<1> QED BY <1>1, <1>4, <1>5, <1>6 DEF R

\* The stages of group commit are lists of transactions.
LEMMA StageTypes ==
  ASSUME TypeInv, GroupInv
  PROVE  /\ queue \in Seq(Trx) /\ binlog \in Seq(Trx) /\ engine \in Seq(Trx)
         /\ Unwritten \in Seq(Trx) /\ Written \in Seq(Trx) /\ Synced \in Seq(Trx) /\ Committing \in Seq(Trx)
         /\ lk \in [{"log", "sync", "commit"} -> Trx \cup {NoTrx}]
<1>1. /\ queue \in Seq(Trx) /\ binlog \in Seq(Trx) /\ engine \in Seq(Trx) /\ <<>> \in Seq(Trx)
      /\ lk["log"] \in Trx \cup {NoTrx} /\ lk["sync"] \in Trx \cup {NoTrx} /\ lk["commit"] \in Trx \cup {NoTrx}
      /\ \A t \in Trx : ent[t].rest \in Seq(Trx)
      /\ lk \in [{"log", "sync", "commit"} -> Trx \cup {NoTrx}]
  BY DEF TypeInv, GCTypeOK, Entries
<1>2. lk["commit"] # NoTrx => ent[lk["commit"]].rest # <<>>
  BY <1>1 DEF GroupInv, LeaderOK, LockOK
<1>3. Committing \in Seq(Trx)
  <2>1. lk["commit"] # NoTrx => Tail(ent[lk["commit"]].rest) \in Seq(Trx)
    BY <1>1, <1>2
  <2> QED BY <1>1, <2>1 DEF Committing
<1> QED BY <1>1, <1>3 DEF Unwritten, Written, Synced

\* What the engines have committed has entered the queue.
LEMMA EngineStarted ==
  ASSUME TypeInv, GroupInv
  PROVE  /\ \A x : In(engine, x) => In(binlog, x)
         /\ \A x : In(binlog, x) => In(All, x)
         /\ \A x : In(queue, x) => In(All, x)
         /\ \A x : In(All, x) => x \in Trx /\ wfc[x].started
         /\ All \in Seq(Trx)
<1>1. /\ Synced \o Written \in Seq(Trx) /\ Committing \o (Synced \o Written) \in Seq(Trx)
      /\ Unwritten \o queue \in Seq(Trx) /\ All \in Seq(Trx)
  BY StageTypes DEF All
<1>2. \A x : In(engine, x) => In(binlog, x)
  <2>1. binlog = engine \o (Committing \o (Synced \o Written))
    BY DEF GroupInv, LogOK
  <2> QED BY <1>1, <2>1, StageTypes, InConcat
<1>3. \A x : In(binlog, x) => In(All, x)
  BY <1>1, StageTypes, InConcat DEF All
<1>4. \A x : In(queue, x) => In(All, x)
  <2>1. \A x : In(queue, x) => In(Unwritten \o queue, x)
    BY StageTypes, InConcat
  <2> QED BY <1>1, <2>1, StageTypes, InConcat DEF All
<1>5. \A x : In(All, x) => x \in Trx /\ wfc[x].started
  <2>1. \A x : In(All, x) => x \in Trx
    BY <1>1 DEF In
  <2> QED BY <2>1 DEF GroupInv, LogOK
<1> QED BY <1>1, <1>2, <1>3, <1>4, <1>5

\* A group that waits for a row lock, or is being retried, is not through.
LEMMA NotThrough ==
  ASSUME WaitInv, NEW u \in Trx, pc[u] \in {"exec", "retry", "unregister", "rollback", "commit", "setready", "mayqueue"}
  PROVE  ~Through(u)
BY DEF WaitInv, PhaseOK, Through, InGroup, Ending

\* The wait in finish_event_group() is over.
LEMMA FinishWaitKeeps ==
  ASSUME TypeInv, GroupInv, WaitInv, NEW t \in Trx, FinishWait(t)
  PROVE  TypeInv' /\ GroupInv' /\ WaitInv'
<1>a. /\ PhaseOK(t) /\ WaitOK(t) /\ ClearedOK(t) /\ KillOK(t) /\ pc[t] = "finwait"
      /\ UNCHANGED gcVars /\ WaitDone(t) /\ wfc[t].waitee = NoTrx
      /\ ent' = ent /\ engine' = engine
  BY DEF FinishWait, WaitInv, gcVars, WaitOver
<1>b. /\ rgi[t].rowWait = NoTrx /\ rgi[t].result # "none"
      /\ wfc[t].unwait # "locked" /\ ~wfc[t].ready /\ wfc[t].werr # "kill" /\ rgi[t].killed # "user"
  BY <1>a DEF PhaseOK, WaitOK, KillOK, InGroup, Ending
<1>c. \A x \in Trx : rgi[x].rowWait # t
  BY <1>a, TrxAssumption DEF WaitInv, KillOK, HasRowLocks
<1>1. /\ Goto(t, "finish") /\ pc'[t] = "finish" /\ \A x \in Trx : Through(x)' <=> Through(x)
  BY <1>a, WaitDoneFacts DEF FinishWait, Goto, TypeInv, Through
<1>d. /\ dom' \in [Domains -> DomType] /\ \A d \in Domains : dom'[d].last = dom[d].last
  BY UpdateTypes DEF FinishWait, TypeInv
<1>2. /\ rgi' \in [Trx -> RgiType] /\ \A x \in Trx \ {t} : rgi'[x] = rgi[x]
      /\ rgi'[t].result = rgi[t].result /\ rgi'[t].killed = rgi[t].killed /\ rgi'[t].rowWait = rgi[t].rowWait
      /\ rgi'[t].failed = (rgi[t].failed \/ wfc[t].werr # "ok")
  <2> DEFINE R == [rgi[t] EXCEPT !.failed = @ \/ wfc[t].werr # "ok",
                                 !.marked = @ /\ (rgi[t].failed \/ wfc[t].werr = "ok")]
  <2>1. rgi' = [rgi EXCEPT ![t] = R]
    BY DEF FinishWait, TypeInv
  <2>2. R \in RgiType /\ R.rowWait = rgi[t].rowWait /\ R.killed = rgi[t].killed
        /\ R.result = rgi[t].result /\ R.failed = (rgi[t].failed \/ wfc[t].werr # "ok")
    BY DEF TypeInv, RgiType
  <2> HIDE DEF R
  <2> QED BY <2>1, <2>2 DEF TypeInv
<1>3. PhaseOK(t)'
  BY <1>a, <1>b, <1>1, <1>2, WaitDoneFacts DEF PhaseOK, InGroup, Ending
<1>4. WaitOK(t)'
  BY <1>a, <1>b, <1>1, <1>2, WaitDoneFacts DEF WaitOK
<1>5. ClearedOK(t)'
  BY <1>a, <1>b, <1>1, WaitDoneFacts DEF ClearedOK, AllThrough, Earlier
<1>6. KillOK(t)'
  BY <1>a, <1>b, <1>1, <1>2, WaitDoneFacts DEF KillOK
<1> QED BY <1>a, <1>c, <1>1, <1>d, <1>2, <1>3, <1>4, <1>5, <1>6, PlainKeeps DEF TypeInv, Labels, PriorWaits, InGroup, HasRowLocks

\* A change of what threads are told leaves the rest alone.
LEMMA DisturbKeeps ==
  ASSUME TypeInv, GroupInv, WaitInv, NEW t \in Trx, UNCHANGED <<wfc, pc, gcVars, dom>>,
         rgi' \in [Trx -> RgiType], \A x \in Trx \ {t} : rgi'[x] = rgi[x],
         rgi'[t].result = rgi[t].result, rgi'[t].failed = rgi[t].failed,
         rgi'[t].killed = rgi[t].killed \/ rgi[t].killed = "no",
         pc[t] \notin {"finwaking", "done"}, KillOK(t)'
  PROVE  TypeInv' /\ GroupInv' /\ WaitInv'
<1>1. /\ PhaseOK(t) /\ WaitOK(t) /\ ClearedOK(t) /\ wfc' = wfc /\ pc' = pc /\ ent' = ent /\ engine' = engine
  BY DEF WaitInv, gcVars
<1>2. TypeInv'
  BY DEF TypeInv, gcVars, GCTypeOK
<1>3. Moves(t)
  BY <1>1, TrxAssumption DEF Moves, WaitInv, KillOK
<1>4. PhaseOK(t)'
  BY <1>1, <1>3, MovesThrough DEF PhaseOK
<1>5. ClearedOK(t)'
  BY <1>1, <1>3, MovesThrough DEF ClearedOK
<1>6. WaitOK(t)'
  BY <1>1 DEF WaitOK
<1> QED BY <1>1, <1>2, <1>3, <1>4, <1>5, <1>6, LocalKeeps

\* The thread of a group is killed, by a user or for a deadlock.
LEMMA KillKeeps ==
  ASSUME Regular, TypeInv, GroupInv, WaitInv, NEW t \in Trx, UserKill(t) \/ DeadlockKill(t)
  PROVE  TypeInv' /\ GroupInv' /\ WaitInv'
<1>1. /\ UNCHANGED <<wfc, pc, gcVars, dom>> /\ rgi[t].killed = "no" /\ ent' = ent /\ engine' = engine
      /\ rgi' \in [Trx -> RgiType] /\ \A x \in Trx \ {t} : rgi'[x] = rgi[x]
      /\ rgi'[t].result = rgi[t].result /\ rgi'[t].failed = rgi[t].failed /\ rgi'[t].rowWait = rgi[t].rowWait
      /\ UserKill(t) => rgi'[t].killed = "user"
      /\ DeadlockKill(t) => rgi'[t].killed = "deadlock"
  BY DEF UserKill, DeadlockKill, gcVars, TypeInv, RgiType
<1>2. CASE UserKill(t)
  <2>1. pc[t] = "exec"
    BY <1>2 DEF UserKill, Regular
  <2>2. KillOK(t)'
    BY <1>1, <1>2, <2>1 DEF WaitInv, KillOK
  <2> QED BY <1>1, <2>1, <2>2, DisturbKeeps
<1>3. CASE DeadlockKill(t)
  <2>1. PICK u \in Trx : rgi[u].rowWait = t
    BY <1>3 DEF DeadlockKill
  <2>2. /\ u \in Earlier(t) /\ pc[u] \in {"exec", "retry", "unregister", "rollback"}
        /\ pc[t] \in HasRowLocks
    BY <2>1, TrxAssumption DEF WaitInv, KillOK
  <2>3. ~Through(u)
    BY <2>2, NotThrough
  <2>4. wfc[t].waitee # NoTrx => ~In(engine, wfc[t].waitee)
    <3> SUFFICES ASSUME wfc[t].waitee # NoTrx, In(engine, wfc[t].waitee) PROVE FALSE
      OBVIOUS
    <3> DEFINE c == wfc[t].waitee
    <3>1. c \in Trx /\ wfc[c].started /\ c = Prior(t)
      BY EngineStarted DEF WaitInv, WaitOK
    <3>2. AllThrough(c) /\ Through(c)
      BY <3>1 DEF WaitInv, ClearedOK, Through
    <3>3. u \in Earlier(c) \/ u = c
      BY <2>2, <3>1, PriorLast
    <3> QED BY <2>3, <3>2, <3>3 DEF AllThrough
  <2>5. KillOK(t)'
    BY <1>1, <1>3, <2>2, <2>4 DEF WaitInv, KillOK, HasRowLocks
  <2> QED BY <1>1, <2>2, <2>5, DisturbKeeps DEF HasRowLocks
<1> QED BY <1>2, <1>3

\* A group waits for a row lock of a later one.
LEMMA RowWaitKeeps ==
  ASSUME TypeInv, GroupInv, WaitInv, NEW u \in Trx, NEW t \in Trx, RowWait(u, t)
  PROVE  TypeInv' /\ GroupInv' /\ WaitInv'
<1>1. /\ UNCHANGED <<wfc, pc, gcVars, dom>> /\ ent' = ent /\ engine' = engine /\ wfc' = wfc /\ pc' = pc
      /\ rgi' \in [Trx -> RgiType] /\ \A x \in Trx \ {u} : rgi'[x] = rgi[x]
      /\ rgi'[u].result = rgi[u].result /\ rgi'[u].failed = rgi[u].failed /\ rgi'[u].killed = rgi[u].killed
      /\ rgi'[u].rowWait = t
  BY DEF RowWait, gcVars, TypeInv, RgiType
<1>2. u \in Earlier(t) /\ pc[u] = "exec" /\ pc[t] \in {"exec", "commit", "setready", "wait", "mayqueue"}
  BY GroupsAssumption DEF RowWait
<1>3. ~wfc[t].started
  <2>1. ~Through(u)
    BY <1>2, NotThrough
  <2> QED BY <1>2, <2>1 DEF WaitInv, ClearedOK, AllThrough
<1>4. KillOK(u)'
  <2>1. KillOK(u)
    BY DEF WaitInv
  <2>2. Earlier(t)' = Earlier(t)
    BY DEF Earlier
  <2> QED BY <1>1, <1>2, <1>3, <2>1, <2>2, TrxAssumption DEF KillOK, HasRowLocks
<1> QED BY <1>1, <1>2, <1>4, DisturbKeeps

\* STOP SLAVE.
LEMMA StopKeeps ==
  ASSUME TypeInv, GroupInv, WaitInv, Stop
  PROVE  TypeInv' /\ GroupInv' /\ WaitInv'
<1>1. /\ wfc' = wfc /\ pc' = pc /\ rgi' = rgi /\ UNCHANGED gcVars /\ ent' = ent /\ engine' = engine
      /\ dom' \in [Domains -> DomType] /\ \A d \in Domains : dom'[d].last = dom[d].last
  BY DEF Stop, TypeInv, DomType, gcVars
<1>2. TypeInv'
  BY <1>1 DEF TypeInv, gcVars, GCTypeOK
<1>3. Outside
  BY <1>1 DEF Outside
<1>4. \A d \in Domains : DomOK(d)'
  BY <1>1 DEF WaitInv, DomOK
<1>u. \A x \in Trx : Untorn(x)' <=> Untorn(x)
  BY <1>1, TornSame
<1>5. \A x \in Trx : PhaseOK(x)' /\ ListOK(x)' /\ WaitOK(x)' /\ KillOK(x)'
  BY <1>1, <1>u DEF WaitInv, PhaseOK, ListOK, ListedOK, WaitOK, KillOK, Through, Earlier
<1>6. \A x \in Trx : ClearedOK(x)'
  BY <1>1 DEF WaitInv, ClearedOK, AllThrough, Through, Earlier
<1> QED BY <1>2, <1>3, <1>4, <1>5, <1>6, OutsideKeeps DEF WaitInv

-----------------------------------------------------------------------------
(* Entering and leading a group *)

\* Where a thread has one of the locks of group commit
LockLabels == {"write", "sync", "order", "loop", "waking", "signal"}

\* A step that leaves the stages of group commit, and who is in them, alone.
LEMMA StagesKept ==
  ASSUME TypeInv, GroupInv, UNCHANGED <<lk, queue, binlog, engine>>,
         \A x \in Trx :
           /\ wfc'[x].started = wfc[x].started /\ wfc'[x].torn = wfc[x].torn
           /\ \/ pc'[x] = pc[x] /\ ent'[x].rest = ent[x].rest
              \/ pc[x] \notin LockLabels /\ pc'[x] \notin LockLabels
  PROVE  LockOK' /\ LogOK' /\ All' = All
<1>0. /\ lk["log"] \in Trx \cup {NoTrx} /\ lk["sync"] \in Trx \cup {NoTrx} /\ lk["commit"] \in Trx \cup {NoTrx}
  BY DEF TypeInv, GCTypeOK
<1>1. LockOK /\ LogOK
  BY DEF GroupInv
<1>2. LockOK'
  BY <1>1 DEF LockOK, LockLabels
<1>3. Unwritten' = Unwritten /\ Written' = Written /\ Synced' = Synced /\ Committing' = Committing
  BY <1>0, <1>1 DEF LockOK, LockLabels, Unwritten, Written, Synced, Committing
<1>4. All' = All
  BY <1>3 DEF All
<1> QED BY <1>1, <1>2, <1>3, <1>4 DEF LogOK

\* What is in a list without duplicates is not in both its parts.
LEMMA InjParts ==
  ASSUME NEW S, NEW s \in Seq(S), NEW r \in Seq(S), SeqInj(s \o r)
  PROVE  SeqInj(s) /\ SeqInj(r) /\ \A u : ~(In(s, u) /\ In(r, u))
<1> DEFINE R == s \o r
<1>1. /\ R \in Seq(S) /\ Len(R) = Len(s) + Len(r) /\ Len(s) \in Nat /\ Len(r) \in Nat
      /\ \A j \in 1 .. Len(s) : j \in 1 .. Len(R) /\ R[j] = s[j]
      /\ \A j \in 1 .. Len(r) : Len(s) + j \in 1 .. Len(R) /\ R[Len(s) + j] = r[j]
      /\ SeqInj(R)
  OBVIOUS
<1> HIDE DEF R
<1>2. SeqInj(s)
  BY <1>1 DEF SeqInj
<1>3. SeqInj(r)
  <2> SUFFICES ASSUME NEW m \in 1 .. Len(r), NEW n \in 1 .. Len(r), r[m] = r[n] PROVE m = n
    BY DEF SeqInj
  <2>1. Len(s) + m = Len(s) + n
    BY <1>1 DEF SeqInj
  <2> QED BY <2>1, <1>1
<1>4. ASSUME NEW u, In(s, u), In(r, u) PROVE FALSE
  <2>1. PICK m \in 1 .. Len(s) : s[m] = u
    BY <1>4 DEF In
  <2>2. PICK n \in 1 .. Len(r) : r[n] = u
    BY <1>4 DEF In
  <2>3. m = Len(s) + n
    BY <1>1, <2>1, <2>2 DEF SeqInj
  <2> QED BY <2>3, <1>1
<1> QED BY <1>2, <1>3, <1>4

\* What has been written is not in the queue any more.
LEMMA QueueApart ==
  ASSUME TypeInv, GroupInv
  PROVE  /\ SeqInj(queue) /\ SeqInj(Unwritten) /\ SeqInj(binlog)
         /\ \A x : ~(In(binlog, x) /\ In(queue, x)) /\ ~(In(Unwritten, x) /\ In(queue, x))
<1>1. Unwritten \o queue \in Seq(Trx) /\ SeqInj(binlog \o (Unwritten \o queue))
  BY StageTypes DEF GroupInv, LogOK, All
<1>2. SeqInj(Unwritten \o queue) /\ SeqInj(binlog) /\ \A u : ~(In(binlog, u) /\ In(Unwritten \o queue, u))
  <2> DEFINE r == Unwritten \o queue
  <2>1. r \in Seq(Trx) /\ SeqInj(binlog \o r) BY <1>1
  <2> HIDE DEF r
  <2>2. SeqInj(r) /\ SeqInj(binlog) /\ \A u : ~(In(binlog, u) /\ In(r, u)) BY <2>1, StageTypes, InjParts
  <2> QED BY <2>2 DEF r
<1>3. SeqInj(Unwritten) /\ SeqInj(queue) /\ \A u : ~(In(Unwritten, u) /\ In(queue, u))
  BY <1>2, StageTypes, InjParts
<1>4. \A x : In(queue, x) => In(Unwritten \o queue, x)
  BY StageTypes, InConcat
<1> QED BY <1>2, <1>3, <1>4

\* A step of t in group commit that moves only itself.
LEMMA StepMoves ==
  ASSUME TypeInv, GroupInv, WaitInv, NEW t \in Trx, NEW l \in Labels, Goto(t, l), UNCHANGED <<rgi, dom, engine>>,
         ent' \in [Trx -> Entries], \A x \in Trx : ent'[x].qbo = ent[x].qbo,
         wfc' \in [Trx -> WfcType],
         \A x \in Trx :
             /\ wfc'[x].waitee = wfc[x].waitee /\ wfc'[x].subs = wfc[x].subs /\ wfc'[x].walk = wfc[x].walk
             /\ wfc'[x].waking = wfc[x].waking /\ wfc'[x].started = wfc[x].started /\ wfc'[x].torn = wfc[x].torn /\ wfc'[x].werr = wfc[x].werr,
         \A x \in Trx \ {t} : wfc'[x].ready = wfc[x].ready /\ wfc'[x].unwait = wfc[x].unwait,
         pc[t] \notin {"finwaking", "done"}, l \notin {"finwaking", "done"},
         l \in HasRowLocks \/ wfc[t].started
  PROVE  /\ Moves(t) /\ pc' \in [Trx -> Labels] /\ pc'[t] = l /\ \A x \in Trx \ {t} : pc'[x] = pc[x]
         /\ KillOK(t) /\ PhaseOK(t) /\ WaitOK(t) /\ ClearedOK(t)
<1>1. pc' \in [Trx -> Labels] /\ pc'[t] = l /\ \A x \in Trx \ {t} : pc'[x] = pc[x]
  BY DEF TypeInv, Goto
<1>2. \A x \in Trx \ {t} : rgi'[x].rowWait = t => l \in HasRowLocks
  BY TrxAssumption DEF WaitInv, KillOK
<1>3. Moves(t)
  BY <1>1, <1>2 DEF Moves
<1> QED BY <1>1, <1>3 DEF WaitInv

\* One wait_for_commit object changes.
LEMMA WfcUpdate ==
  ASSUME TypeInv, NEW t \in Trx, NEW W \in WfcType, wfc' = [wfc EXCEPT ![t] = W]
  PROVE  wfc' \in [Trx -> WfcType] /\ wfc'[t] = W /\ \A x \in Trx \ {t} : wfc'[x] = wfc[x]
BY DEF TypeInv

\* What setting opaque_pointer leaves alone.
LEMMA SetUpdate ==
  ASSUME NEW w \in WfcType
  PROVE  LET W == [w EXCEPT !.ready = TRUE] IN
         /\ W \in WfcType /\ W.waitee = w.waitee /\ W.subs = w.subs /\ W.walk = w.walk
         /\ W.waking = w.waking /\ W.started = w.started /\ W.torn = w.torn /\ W.werr = w.werr
         /\ W.unwait = w.unwait
BY DEF WfcType

\* What the end of a wait leaves alone.
LEMMA ReadyUpdate ==
  ASSUME NEW w \in WfcType, NEW b \in BOOLEAN, NEW e \in {"no", "locked", "woken"}
  PROVE  LET W == [w EXCEPT !.ready = b, !.unwait = e] IN
         /\ W \in WfcType /\ W.waitee = w.waitee /\ W.subs = w.subs /\ W.walk = w.walk
         /\ W.waking = w.waking /\ W.started = w.started /\ W.torn = w.torn /\ W.werr = w.werr
         /\ W.unwait = e /\ W.ready = b
BY DEF WfcType

\* queue_for_group_commit() looks whether it has to wait.
LEMMA CheckPriorKeeps ==
  ASSUME TypeInv, GroupInv, WaitInv, NEW t \in Trx, CheckPrior(t), UNCHANGED <<rgi, dom>>
  PROVE  TypeInv' /\ GroupInv' /\ WaitInv'
<1>1. PICK l \in {"setready", "mayqueue"} :
        Goto(t, l) /\ (l = "mayqueue" => wfc[t].waitee = NoTrx \/ wfc[wfc[t].waitee].started)
  BY DEF CheckPrior
<1>2. /\ pc[t] = "commit" /\ ent' = [ent EXCEPT ![t] = NewEntry] /\ wfc' = wfc
      /\ UNCHANGED <<optimize, queue, lk, busy, binlog, engine>>
  BY DEF CheckPrior
<1>3. /\ PhaseOK(t) /\ WaitOK(t) /\ ClearedOK(t) /\ KillOK(t) /\ LeaderOK(t)
      /\ ~wfc[t].started /\ ~ent[t].qbo /\ ~ent[t].err /\ l \in Labels
  BY <1>2 DEF WaitInv, GroupInv, PhaseOK, InGroup, Ending, ModeOK, Labels
<1>4. /\ ent' \in [Trx -> Entries] /\ \A x \in Trx : ent'[x].qbo = ent[x].qbo
      /\ ent'[t].qbo = FALSE /\ ent'[t].err = FALSE /\ ent'[t].signalled = FALSE
      /\ \A x \in Trx \ {t} : ent'[x] = ent[x]
  <2>1. NewEntry \in Entries /\ NewEntry.qbo = FALSE /\ NewEntry.err = FALSE /\ NewEntry.signalled = FALSE
    BY DEF NewEntry, Entries
  <2>2. ent' \in [Trx -> Entries] /\ ent'[t] = NewEntry /\ \A x \in Trx \ {t} : ent'[x] = ent[x]
    BY <1>2, <2>1 DEF TypeInv, GCTypeOK
  <2>3. ent[t].qbo = FALSE
    BY <1>3 DEF TypeInv, GCTypeOK, Entries
  <2> QED BY <2>1, <2>2, <2>3
<1>5. /\ Moves(t) /\ pc' \in [Trx -> Labels] /\ pc'[t] = l /\ \A x \in Trx \ {t} : pc'[x] = pc[x]
  BY <1>1, <1>2, <1>3, <1>4, StepMoves DEF HasRowLocks, TypeInv
<1>6. TypeInv'
  BY <1>2, <1>4, <1>5 DEF TypeInv, GCTypeOK
<1>7. LockOK' /\ LogOK' /\ All' = All
  BY <1>1, <1>2, <1>4, <1>5, StagesKept DEF LockLabels
<1>8. ModeOK'
  BY <1>1, <1>2, <1>4, <1>5 DEF GroupInv, ModeOK
<1>9. ASSUME NEW x \in Trx PROVE LeaderOK(x)'
  <2>1. LeaderOK(x) BY DEF GroupInv
  <2>2. CASE x # t
    BY <1>2, <1>4, <1>5, <2>1, <2>2 DEF LeaderOK
  <2>3. CASE x = t
    BY <1>1, <1>2, <1>4, <1>5, <2>1, <2>3 DEF LeaderOK
  <2> QED BY <2>2, <2>3
<1>10. PhaseOK(t)'
  BY <1>1, <1>2, <1>3, <1>4, <1>5, MovesThrough DEF PhaseOK, InGroup, Ending
<1>11. WaitOK(t)'
  BY <1>1, <1>2, <1>3, <1>4, <1>5 DEF WaitOK
<1>12. ClearedOK(t)'
  BY <1>2, <1>3, <1>5, MovesThrough DEF ClearedOK
<1>13. KillOK(t)'
  <2>1. rgi[t].rowWait = NoTrx
    BY <1>2, <1>3 DEF KillOK
  <2> QED BY <1>1, <1>2, <1>3, <1>4, <1>5, <2>1 DEF KillOK
<1> QED BY <1>5, <1>6, <1>7, <1>8, <1>9, <1>10, <1>11, <1>12, <1>13, MovesKeeps DEF GroupInv

\* It sets opaque_pointer and starts to wait.
LEMMA SetReadyKeeps ==
  ASSUME TypeInv, GroupInv, WaitInv, NEW t \in Trx, SetReady(t), UNCHANGED <<rgi, dom>>
  PROVE  TypeInv' /\ GroupInv' /\ WaitInv'
<1>2. /\ pc[t] = "setready" /\ Goto(t, "wait") /\ wfc' = [wfc EXCEPT ![t].ready = TRUE]
      /\ UNCHANGED <<optimize, ent, queue, lk, busy, binlog, engine>> /\ UNCHANGED gcVars
  BY DEF SetReady, gcVars
<1>3. /\ PhaseOK(t) /\ WaitOK(t) /\ ClearedOK(t) /\ KillOK(t) /\ LeaderOK(t)
      /\ ~wfc[t].started /\ ~ent[t].qbo /\ wfc[t].unwait # "locked" /\ rgi[t].rowWait = NoTrx /\ wfc[t].werr # "kill"
  BY <1>2 DEF WaitInv, GroupInv, PhaseOK, InGroup, Ending, WaitOK, KillOK
<1>4. /\ wfc' \in [Trx -> WfcType]
      /\ \A x \in Trx :
             /\ wfc'[x].waitee = wfc[x].waitee /\ wfc'[x].subs = wfc[x].subs /\ wfc'[x].walk = wfc[x].walk
             /\ wfc'[x].waking = wfc[x].waking /\ wfc'[x].started = wfc[x].started /\ wfc'[x].torn = wfc[x].torn /\ wfc'[x].werr = wfc[x].werr
             /\ wfc'[x].unwait = wfc[x].unwait
      /\ \A x \in Trx \ {t} : wfc'[x].ready = wfc[x].ready
      /\ wfc[t].waitee \in Trx \cup {NoTrx}
  <2>0. wfc[t] \in WfcType /\ wfc \in [Trx -> WfcType] /\ wfc[t].unwait \in {"no", "locked", "woken"}
        /\ wfc[t].waitee \in Trx \cup {NoTrx}
    BY DEF TypeInv, WfcType
  <2> DEFINE W == [wfc[t] EXCEPT !.ready = TRUE]
  <2>1. wfc' = [wfc EXCEPT ![t] = W]
    BY <1>2, <2>0 DEF WfcType
  <2>2. /\ W \in WfcType /\ W.waitee = wfc[t].waitee /\ W.subs = wfc[t].subs /\ W.walk = wfc[t].walk
        /\ W.waking = wfc[t].waking /\ W.started = wfc[t].started /\ W.torn = wfc[t].torn /\ W.werr = wfc[t].werr
        /\ W.unwait = wfc[t].unwait
    BY <2>0, SetUpdate
  <2> HIDE DEF W
  <2> QED BY <2>0, <2>1, <2>2, WfcUpdate
<1>5. /\ Moves(t) /\ pc' \in [Trx -> Labels] /\ pc'[t] = "wait" /\ \A x \in Trx \ {t} : pc'[x] = pc[x]
  BY <1>2, <1>3, <1>4, StepMoves DEF HasRowLocks, TypeInv, GCTypeOK, Labels, PriorWaits
<1>6. TypeInv'
  BY <1>2, <1>4, <1>5 DEF TypeInv, GCTypeOK
<1>7. LockOK' /\ LogOK' /\ All' = All
  BY <1>2, <1>4, <1>5, StagesKept DEF LockLabels
<1>8. ModeOK'
  BY <1>2, <1>5 DEF GroupInv, ModeOK
<1>9. ASSUME NEW x \in Trx PROVE LeaderOK(x)'
  BY <1>2, <1>4, <1>5 DEF LeaderOK, GroupInv
<1>10. PhaseOK(t)'
  BY <1>2, <1>3, <1>4, <1>5, MovesThrough DEF PhaseOK, InGroup, Ending
<1>11. WaitOK(t)'
  BY <1>2, <1>3, <1>4, <1>5 DEF WaitOK
<1>12. ClearedOK(t)'
  BY <1>2, <1>3, <1>4, <1>5, MovesThrough DEF ClearedOK
<1>13. KillOK(t)'
  BY <1>2, <1>3, <1>4, <1>5 DEF KillOK
<1> QED BY <1>5, <1>6, <1>7, <1>8, <1>9, <1>10, <1>11, <1>12, <1>13, MovesKeeps DEF GroupInv

\* The wait in queue_for_group_commit() is over.
LEMMA PriorCameKeeps ==
  ASSUME TypeInv, GroupInv, WaitInv, NEW t \in Trx, PriorCame(t), UNCHANGED <<rgi, dom>>
  PROVE  TypeInv' /\ GroupInv' /\ WaitInv'
<1> DEFINE l == IF ent[t].qbo THEN "return" ELSE "mayqueue"
<1>2. /\ pc[t] = "wait" /\ Goto(t, l) /\ wfc' = [wfc EXCEPT ![t].ready = FALSE, ![t].unwait = "no"]
      /\ UNCHANGED <<optimize, ent, queue, lk, busy, binlog, engine>> /\ UNCHANGED gcVars
      /\ wfc[t].waitee = NoTrx /\ wfc[t].unwait # "locked"
  BY DEF PriorCame, gcVars, GroupInv, ModeOK, WaitOver
<1>3. /\ PhaseOK(t) /\ WaitOK(t) /\ ClearedOK(t) /\ KillOK(t) /\ LeaderOK(t)
      /\ wfc[t].started <=> ent[t].qbo
      /\ rgi[t].rowWait = NoTrx /\ rgi[t].killed # "user"
      /\ ent[t].qbo => wfc[t].werr # "kill"
      /\ l \in Labels /\ l \in {"return", "mayqueue"} /\ (l \in HasRowLocks \/ wfc[t].started)
  BY <1>2 DEF WaitInv, GroupInv, PhaseOK, InGroup, Ending, WaitOK, KillOK, Labels, PriorWaits, HasRowLocks
<1>l. (l = "return" <=> ent[t].qbo) /\ l \in {"return", "mayqueue"}
  OBVIOUS
<1> HIDE DEF l
<1>4. /\ wfc' \in [Trx -> WfcType]
      /\ \A x \in Trx :
             /\ wfc'[x].waitee = wfc[x].waitee /\ wfc'[x].subs = wfc[x].subs /\ wfc'[x].walk = wfc[x].walk
             /\ wfc'[x].waking = wfc[x].waking /\ wfc'[x].started = wfc[x].started /\ wfc'[x].torn = wfc[x].torn /\ wfc'[x].werr = wfc[x].werr
      /\ \A x \in Trx \ {t} : wfc'[x].ready = wfc[x].ready /\ wfc'[x].unwait = wfc[x].unwait
      /\ ~wfc'[t].ready /\ wfc'[t].unwait = "no"
  <2> DEFINE W == [wfc[t] EXCEPT !.ready = FALSE, !.unwait = "no"]
  <2>1. wfc' = [wfc EXCEPT ![t] = W]
    BY <1>2 DEF TypeInv
  <2>2. /\ W \in WfcType /\ W.waitee = wfc[t].waitee /\ W.subs = wfc[t].subs /\ W.walk = wfc[t].walk
        /\ W.waking = wfc[t].waking /\ W.started = wfc[t].started /\ W.torn = wfc[t].torn /\ W.werr = wfc[t].werr
        /\ ~W.ready /\ W.unwait = "no"
    BY ReadyUpdate DEF TypeInv
  <2> HIDE DEF W
  <2> QED BY <2>1, <2>2, WfcUpdate
<1>5. /\ Moves(t) /\ pc' \in [Trx -> Labels] /\ pc'[t] = l /\ \A x \in Trx \ {t} : pc'[x] = pc[x]
  <2>1. /\ pc[t] \notin {"finwaking", "done"} /\ l \notin {"finwaking", "done"} /\ ent' \in [Trx -> Entries]
        /\ \A x \in Trx : ent'[x].qbo = ent[x].qbo
    BY <1>2, <1>l DEF TypeInv, GCTypeOK
  <2>2. l \in Labels /\ Goto(t, l) /\ UNCHANGED <<rgi, dom, engine>> /\ (l \in HasRowLocks \/ wfc[t].started)
    BY <1>2, <1>3
  <2> QED BY <1>4, <2>1, <2>2, StepMoves
<1>6. TypeInv'
  BY <1>2, <1>4, <1>5 DEF TypeInv, GCTypeOK
<1>7. LockOK' /\ LogOK' /\ All' = All
  BY <1>2, <1>l, <1>4, <1>5, StagesKept DEF LockLabels
<1>8. ModeOK'
  BY <1>2, <1>l, <1>5 DEF GroupInv, ModeOK
<1>9. ASSUME NEW x \in Trx PROVE LeaderOK(x)'
  <2>1. LeaderOK(x) BY DEF GroupInv
  <2>2. CASE x # t
    BY <1>2, <1>4, <1>5, <2>1, <2>2 DEF LeaderOK
  <2>3. CASE x = t
    <3>1. ent[t].qbo => In(engine, t)
      BY <1>2, <1>3 DEF LeaderOK
    <3>2. ~In(queue, t)
      <4>1. In(queue, t) => ent[t].qbo
        BY <1>3, EngineStarted
      <4> QED BY <3>1, <4>1, EngineStarted, QueueApart
    <3> QED BY <1>2, <1>l, <1>3, <1>4, <1>5, <2>3, <3>1, <3>2 DEF LeaderOK, In
  <2> QED BY <2>2, <2>3
<1>10. PhaseOK(t)'
  BY <1>2, <1>3, <1>l, <1>4, <1>5, MovesThrough DEF PhaseOK, InGroup, Ending
<1>11. WaitOK(t)'
  BY <1>2, <1>3, <1>l, <1>4, <1>5 DEF WaitOK
<1>12. ClearedOK(t)'
  BY <1>2, <1>3, <1>l, <1>4, <1>5, MovesThrough DEF ClearedOK
<1>13. KillOK(t)'
  BY <1>2, <1>3, <1>l, <1>4, <1>5 DEF KillOK
<1> QED BY <1>5, <1>6, <1>7, <1>8, <1>9, <1>10, <1>11, <1>12, <1>13, MovesKeeps DEF GroupInv

\* A participant is signalled by the leader.
LEMMA SignalledKeeps ==
  ASSUME TypeInv, GroupInv, WaitInv, NEW t \in Trx, Signalled(t), UNCHANGED <<rgi, dom>>
  PROVE  TypeInv' /\ GroupInv' /\ WaitInv'
<1>2. /\ pc[t] = "participant" /\ Goto(t, "return") /\ wfc' = wfc /\ ent[t].signalled
      /\ UNCHANGED <<optimize, ent, queue, lk, busy, binlog, engine>> /\ UNCHANGED gcVars
  BY DEF Signalled, gcVars, GroupInv, ModeOK
<1>3. /\ PhaseOK(t) /\ WaitOK(t) /\ ClearedOK(t) /\ KillOK(t) /\ LeaderOK(t)
      /\ wfc[t].started /\ rgi[t].rowWait = NoTrx /\ rgi[t].killed # "user" /\ In(engine, t) /\ ~In(queue, t)
  <2>1. /\ PhaseOK(t) /\ WaitOK(t) /\ ClearedOK(t) /\ KillOK(t) /\ LeaderOK(t)
        /\ wfc[t].started /\ rgi[t].rowWait = NoTrx /\ rgi[t].killed # "user" /\ In(engine, t)
    BY <1>2 DEF WaitInv, GroupInv, PhaseOK, InGroup, Ending, KillOK, LeaderOK
  <2> QED BY <2>1, EngineStarted, QueueApart
<1>5. /\ Moves(t) /\ pc' \in [Trx -> Labels] /\ pc'[t] = "return" /\ \A x \in Trx \ {t} : pc'[x] = pc[x]
  BY <1>2, <1>3, StepMoves DEF TypeInv, GCTypeOK, Labels, PriorWaits
<1>6. TypeInv'
  BY <1>2, <1>5 DEF TypeInv, GCTypeOK
<1>7. LockOK' /\ LogOK' /\ All' = All
  BY <1>2, <1>5, StagesKept DEF LockLabels
<1>8. ModeOK'
  BY <1>2, <1>5 DEF GroupInv, ModeOK
<1>9. ASSUME NEW x \in Trx PROVE LeaderOK(x)'
  BY <1>2, <1>3, <1>5 DEF LeaderOK, GroupInv, In
<1>10. PhaseOK(t)'
  BY <1>2, <1>3, <1>5, MovesThrough DEF PhaseOK, InGroup, Ending
<1>11. WaitOK(t)'
  BY <1>2, <1>3, <1>5 DEF WaitOK, PhaseOK, Ending
<1>12. ClearedOK(t)'
  BY <1>2, <1>3, <1>5, MovesThrough DEF ClearedOK
<1>13. KillOK(t)'
  BY <1>2, <1>3, <1>5 DEF KillOK
<1> QED BY <1>5, <1>6, <1>7, <1>8, <1>9, <1>10, <1>11, <1>12, <1>13, MovesKeeps DEF GroupInv

\* The leader of a group goes on to the next stage.
LEMMA LeaderMoves ==
  ASSUME TypeInv, GroupInv, WaitInv, NEW t \in Trx, pc[t] \in InGroup, NEW l \in InGroup, Goto(t, l),
         UNCHANGED <<wfc, rgi, dom, engine>>,
         ent' \in [Trx -> Entries], \A x \in Trx : ent'[x].qbo = ent[x].qbo
  PROVE  WaitInv' /\ pc' \in [Trx -> Labels] /\ pc'[t] = l /\ \A x \in Trx \ {t} : pc'[x] = pc[x]
<1>1. /\ PhaseOK(t) /\ WaitOK(t) /\ ClearedOK(t) /\ KillOK(t) /\ wfc[t].started /\ wfc \in [Trx -> WfcType]
      /\ l \in Labels
  BY DEF WaitInv, PhaseOK, InGroup, Ending, TypeInv, Labels
<1>2. /\ Moves(t) /\ pc' \in [Trx -> Labels] /\ pc'[t] = l /\ \A x \in Trx \ {t} : pc'[x] = pc[x]
  BY <1>1, StepMoves DEF InGroup
<1>3. rgi[t].rowWait = NoTrx /\ wfc[t].unwait # "locked" /\ ~wfc[t].ready /\ wfc[t].werr # "kill" /\ rgi[t].killed # "user"
  BY <1>1 DEF KillOK, WaitOK, InGroup
<1>4. PhaseOK(t)'
  BY <1>1, <1>2, MovesThrough DEF PhaseOK, InGroup, Ending
<1>5. WaitOK(t)'
  BY <1>1, <1>2, <1>3 DEF WaitOK, InGroup
<1>6. ClearedOK(t)'
  BY <1>1, <1>2, MovesThrough DEF ClearedOK
<1>7. KillOK(t)'
  BY <1>1, <1>2, <1>3 DEF KillOK, InGroup
<1> QED BY <1>2, <1>4, <1>5, <1>6, <1>7, MovesKeeps

\* Facts of the list algebra on transactions.
LEMMA TrxLists ==
  /\ <<>> \in Seq(Trx)
  /\ \A s \in Seq(Trx) : s \o <<>> = s /\ <<>> \o s = s
  /\ \A s, r, q \in Seq(Trx) : s \o r \in Seq(Trx) /\ (s \o r) \o q = s \o (r \o q)
<1>1. \A s \in Seq(Trx) : s \o <<>> = s /\ <<>> \o s = s
  BY ConcatEmptySeq
<1>2. \A s, r, q \in Seq(Trx) : (s \o r) \o q = s \o (r \o q)
  BY ConcatAssociative
<1> QED BY <1>1, <1>2

\* Lists of transactions: concatenation is associative.
LEMMA TrxAssoc ==
  ASSUME NEW s \in Seq(Trx), NEW r \in Seq(Trx), NEW q \in Seq(Trx)
  PROVE  (s \o r) \o q = s \o (r \o q)
BY ConcatAssociative

\* The leader takes the queue.
LEMMA CollectGroupKeeps ==
  ASSUME TypeInv, GroupInv, WaitInv, NEW t \in Trx, CollectGroup(t), UNCHANGED <<rgi, dom>>
  PROVE  TypeInv' /\ GroupInv' /\ WaitInv'
<1> DEFINE Pos(x) == CHOOSE i \in DOMAIN queue : queue[i] = x
<1> DEFINE Rst(x) == IF \E i \in DOMAIN queue : queue[i] = x THEN SubSeq(queue, Pos(x), Len(queue)) ELSE ent[x].rest
<1>1. /\ pc[t] = "leader" /\ lk["log"] = NoTrx /\ lk' = [lk EXCEPT !["log"] = t] /\ queue' = <<>>
      /\ ent' = [x \in Trx |-> [ent[x] EXCEPT !.rest = Rst(x)]]
      /\ Goto(t, "write") /\ UNCHANGED <<optimize, wfc, busy, binlog, engine>>
  BY DEF CollectGroup
<1>2. queue \in Seq(Trx) /\ DOMAIN queue = 1 .. Len(queue) /\ Len(queue) \in Nat /\ queue # <<>> /\ queue[1] = t
      /\ 1 \in 1 .. Len(queue)
  BY <1>1, StageTypes DEF GroupInv, LeaderOK
<1>3. ASSUME NEW x \in Trx PROVE Rst(x) \in Seq(Trx)
  <2>1. ent[x].rest \in Seq(Trx)
    BY DEF TypeInv, GCTypeOK, Entries
  <2>2. CASE \E i \in DOMAIN queue : queue[i] = x
    <3>1. Pos(x) \in 1 .. Len(queue)
      BY <1>2, <2>2
    <3> HIDE DEF Pos
    <3>2. SubSeq(queue, Pos(x), Len(queue)) \in Seq(Trx)
      BY <1>2, <3>1
    <3> QED BY <2>2, <3>2
  <2> QED BY <2>1, <2>2
<1>4. Rst(t) = queue
  <2>1. Pos(t) \in 1 .. Len(queue) /\ queue[Pos(t)] = t
    BY <1>2
  <2>2. Pos(t) = 1
    <3> HIDE DEF Pos
    <3> QED BY <1>2, <2>1, QueueApart DEF SeqInj
  <2>3. Rst(t) = SubSeq(queue, Pos(t), Len(queue))
    BY <1>2
  <2> HIDE DEF Pos
  <2>4. SubSeq(queue, 1, Len(queue)) = queue
    BY <1>2, SubSeqFull
  <2> QED BY <2>2, <2>3, <2>4
<1>5. ASSUME NEW x \in Trx, ~In(queue, x) PROVE Rst(x) = ent[x].rest
  BY <1>2, <1>5 DEF In
<1> HIDE DEF Rst, Pos
<1>6. /\ ent' \in [Trx -> Entries]
      /\ \A x \in Trx : /\ ent'[x].qbo = ent[x].qbo /\ ent'[x].err = ent[x].err
                        /\ ent'[x].signalled = ent[x].signalled /\ ent'[x].rest = Rst(x)
  BY <1>1, <1>3 DEF TypeInv, GCTypeOK, Entries
<1>7. WaitInv' /\ pc' \in [Trx -> Labels] /\ pc'[t] = "write" /\ \A x \in Trx \ {t} : pc'[x] = pc[x]
  BY <1>1, <1>6, LeaderMoves DEF InGroup
<1>8. lk' \in [{"log", "sync", "commit"} -> Trx \cup {NoTrx}] /\ lk'["log"] = t
      /\ lk'["sync"] = lk["sync"] /\ lk'["commit"] = lk["commit"]
  BY <1>1, StageTypes
<1>9. TypeInv'
  BY <1>1, <1>6, <1>7, <1>8, TrxLists DEF TypeInv, GCTypeOK
<1>10. LockOK'
  <2>1. ASSUME NEW x \in Trx
        PROVE  /\ pc'[x] \in {"write", "sync"} <=> lk'["log"] = x
               /\ pc'[x] = "order" <=> lk'["sync"] = x
               /\ pc'[x] \in {"loop", "waking", "signal"} <=> lk'["commit"] = x
    <3>1. /\ pc[x] \notin {"write", "sync"}
          /\ pc[x] = "order" <=> lk["sync"] = x
          /\ pc[x] \in {"loop", "waking", "signal"} <=> lk["commit"] = x
      BY <1>1, TrxAssumption DEF GroupInv, LockOK
    <3>2. CASE x = t
      BY <1>1, <1>7, <1>8, <3>1, <3>2
    <3>3. CASE x # t
      BY <1>7, <1>8, <3>1, <3>3
    <3> QED BY <3>2, <3>3
  <2> QED BY <2>1 DEF LockOK
<1>11. /\ \A x \in Trx : pc[x] \in LockLabels => ent'[x].rest = ent[x].rest
  BY <1>5, <1>6 DEF GroupInv, LeaderOK, LockLabels
<1>12. /\ Unwritten = <<>> /\ Written = <<>> /\ Unwritten' = queue /\ Written' = <<>>
       /\ Synced' = Synced /\ Committing' = Committing
  <2>1. Unwritten = <<>> /\ Written = <<>>
    BY <1>1 DEF Unwritten, Written
  <2>2. Unwritten' = queue /\ Written' = <<>>
    BY <1>4, <1>6, <1>7, <1>8, TrxAssumption DEF Unwritten, Written
  <2>3. /\ lk["sync"] # NoTrx => lk["sync"] \in Trx /\ lk["sync"] # t /\ ent'[lk["sync"]].rest = ent[lk["sync"]].rest
        /\ lk["commit"] # NoTrx => lk["commit"] \in Trx /\ lk["commit"] # t /\ ent'[lk["commit"]].rest = ent[lk["commit"]].rest
    BY <1>1, <1>11, StageTypes DEF GroupInv, LockOK, LockLabels
  <2>4. Synced' = Synced
    BY <1>8, <2>3 DEF Synced
  <2>5. Committing' = Committing
    BY <1>7, <1>8, <2>3 DEF Committing
  <2> QED BY <2>1, <2>2, <2>4, <2>5
<1>13. All' = All
  BY <1>1, <1>12, TrxLists, StageTypes DEF All
<1>14. LogOK'
  BY <1>1, <1>12, <1>13 DEF LogOK, GroupInv
<1>15. ModeOK'
  BY <1>1, <1>6, <1>7 DEF ModeOK, GroupInv
<1>16. ASSUME NEW x \in Trx PROVE LeaderOK(x)'
  <2>1. LeaderOK(x) /\ LeaderOK(t)
    BY DEF GroupInv
  <2>2. CASE x = t
    <3>1. ~In(<<>>, t) BY DEF In
    <3>2. Head(queue) = t BY <1>2
    <3> QED BY <1>1, <1>2, <1>4, <1>6, <1>7, <2>1, <2>2, <3>1, <3>2 DEF LeaderOK
  <2>3. CASE x # t
    <3>1. ~In(<<>>, x) BY DEF In
    <3>2. pc'[x] = pc[x] /\ pc[x] # "leader" BY <1>2, <1>7, <2>1, <2>3 DEF LeaderOK
    <3> QED BY <1>1, <1>6, <1>11, <2>1, <3>1, <3>2 DEF LeaderOK, LockLabels
  <2> QED BY <2>2, <2>3
<1> QED BY <1>7, <1>9, <1>10, <1>14, <1>15, <1>16 DEF GroupInv

\* The leader writes the group: it goes to the end of the binary log.
LEMMA WriteGroupKeeps ==
  ASSUME Regular, TypeInv, GroupInv, WaitInv, NEW t \in Trx, WriteGroup(t), UNCHANGED <<rgi, dom>>
  PROVE  /\ TypeInv' /\ GroupInv' /\ WaitInv'
         /\ binlog' = binlog \o ent[t].rest /\ ent[t].rest \in Seq(Trx) /\ ent[t].rest # <<>>
<1> DEFINE g == ent[t].rest
<1>1. /\ pc[t] = "write" /\ binlog' = binlog \o g
      /\ ent' = [x \in Trx |-> [ent[x] EXCEPT !.err = @ \/ x \in {}]]
      /\ Goto(t, "sync") /\ UNCHANGED <<optimize, wfc, queue, lk, busy, engine>>
  BY DEF WriteGroup, Regular
<1>2. g \in Seq(Trx) /\ g # <<>> /\ binlog' \in Seq(Trx)
  BY <1>1, StageTypes, TrxLists DEF TypeInv, GCTypeOK, Entries, GroupInv, LeaderOK
<1>3. ent' = ent
  <2>1. \A x \in Trx : [ent[x] EXCEPT !.err = @ \/ x \in {}] = ent[x]
    BY DEF TypeInv, GCTypeOK, Entries
  <2> QED BY <1>1, <2>1 DEF TypeInv, GCTypeOK
<1> HIDE DEF g
<1>s. g \in Seq(Trx) /\ binlog \in Seq(Trx) /\ queue \in Seq(Trx) /\ engine \in Seq(Trx) /\ Committing \in Seq(Trx) /\ Synced \in Seq(Trx)
  BY <1>2, StageTypes
<1>7. WaitInv' /\ pc' \in [Trx -> Labels] /\ pc'[t] = "sync" /\ \A x \in Trx \ {t} : pc'[x] = pc[x]
  BY <1>1, <1>3, LeaderMoves DEF InGroup, TypeInv, GCTypeOK
<1>9. TypeInv'
  BY <1>1, <1>2, <1>3, <1>7 DEF TypeInv, GCTypeOK
<1>10. LockOK'
  BY <1>1, <1>7 DEF GroupInv, LockOK
<1>11. lk["log"] = t /\ lk["sync"] # t /\ lk["commit"] # t
  BY <1>1 DEF GroupInv, LockOK
<1>12. /\ Unwritten = g /\ Written = <<>> /\ Unwritten' = <<>> /\ Written' = g
       /\ Synced' = Synced /\ Committing' = Committing
  <2>2. Unwritten = g /\ Written = <<>> /\ Unwritten' = <<>> /\ Written' = g
    BY <1>1, <1>3, <1>7, <1>11, TrxAssumption DEF Unwritten, Written, g
  <2>4. Synced' = Synced
    BY <1>1, <1>3 DEF Synced
  <2>5. Committing' = Committing
    BY <1>1, <1>3, <1>7, <1>11, StageTypes DEF Committing
  <2> QED BY <2>2, <2>4, <2>5
<1>13. All' = All
  <2>1. (binlog \o g) \o queue = binlog \o (g \o queue)
    BY <1>s, TrxAssoc
  <2>2. <<>> \o queue = queue
    BY StageTypes, TrxLists
  <2> QED BY <1>1, <1>12, <2>1, <2>2 DEF All
<1>14. LogOK'
  <2>1. binlog = engine \o (Committing \o (Synced \o <<>>))
    BY <1>12 DEF LogOK, GroupInv
  <2>2. Synced \o <<>> = Synced /\ Committing \o Synced \in Seq(Trx)
    BY StageTypes, TrxLists
  <2>3. binlog \o g = engine \o ((Committing \o Synced) \o g)
    <3> DEFINE C == Committing \o Synced
    <3>1. C \in Seq(Trx) /\ binlog = engine \o C
      BY <2>1, <2>2
    <3> HIDE DEF C
    <3>2. (engine \o C) \o g = engine \o (C \o g)
      <4>1. engine \in Seq(Trx) /\ C \in Seq(Trx) /\ g \in Seq(Trx)
        BY <1>s, <3>1
      <4> QED BY <4>1, TrxAssoc
    <3> QED BY <3>1, <3>2 DEF C
  <2>4. (Committing \o Synced) \o g = Committing \o (Synced \o g)
    BY <1>s, TrxAssoc
  <2>5. binlog' = engine' \o (Committing' \o (Synced' \o Written'))
    BY <1>1, <1>12, <2>3, <2>4
  <2>6. SeqInj(All) /\ InOrder(All) /\ \A x \in Trx : In(All, x) <=> wfc[x].started
    BY DEF LogOK, GroupInv
  <2>7. SeqInj(All)' /\ InOrder(All)' /\ \A x \in Trx : In(All, x)' <=> wfc'[x].started
    BY <1>1, <1>13, <2>6 DEF SeqInj, InOrder, In
  <2> QED BY <2>5, <2>7 DEF LogOK
<1>15. ModeOK'
  BY <1>1, <1>3, <1>7 DEF ModeOK, GroupInv
<1>16. ASSUME NEW x \in Trx PROVE LeaderOK(x)'
  BY <1>1, <1>3, <1>7 DEF LeaderOK, GroupInv
<1> QED BY <1>1, <1>2, <1>7, <1>9, <1>10, <1>14, <1>15, <1>16 DEF GroupInv, g

\* The leader goes on from LOCK_log to LOCK_after_binlog_sync.
LEMMA LockAfterSyncKeeps ==
  ASSUME TypeInv, GroupInv, WaitInv, NEW t \in Trx, LockAfterSync(t), UNCHANGED <<rgi, dom>>
  PROVE  TypeInv' /\ GroupInv' /\ WaitInv'
<1>1. /\ pc[t] = "sync" /\ lk["sync"] = NoTrx /\ lk' = [lk EXCEPT !["sync"] = t, !["log"] = NoTrx]
      /\ Goto(t, "order") /\ UNCHANGED <<optimize, wfc, ent, queue, busy, binlog, engine>>
  BY DEF LockAfterSync
<1>7. WaitInv' /\ pc' \in [Trx -> Labels] /\ pc'[t] = "order" /\ \A x \in Trx \ {t} : pc'[x] = pc[x]
  BY <1>1, LeaderMoves DEF InGroup, TypeInv, GCTypeOK
<1>8. lk' \in [{"log", "sync", "commit"} -> Trx \cup {NoTrx}] /\ lk'["log"] = NoTrx
      /\ lk'["sync"] = t /\ lk'["commit"] = lk["commit"]
  BY <1>1, StageTypes
<1>9. TypeInv'
  BY <1>1, <1>7, <1>8 DEF TypeInv, GCTypeOK
<1>11. lk["log"] = t /\ lk["commit"] # t
  BY <1>1 DEF GroupInv, LockOK
<1>10. LockOK'
  BY <1>1, <1>7, <1>8, <1>11, TrxAssumption DEF GroupInv, LockOK
<1>12. /\ Unwritten = <<>> /\ Written = ent[t].rest /\ Unwritten' = <<>> /\ Written' = <<>>
       /\ Synced = <<>> /\ Synced' = ent[t].rest /\ Committing' = Committing
  BY <1>1, <1>7, <1>8, <1>11, TrxAssumption, StageTypes DEF Unwritten, Written, Synced, Committing
<1>13. All' = All
  BY <1>1, <1>12 DEF All
<1>14. LogOK'
  <2>1. Synced \o Written = Synced' \o Written'
    BY <1>12, StageTypes, TrxLists
  <2> QED BY <1>1, <1>12, <1>13, <2>1 DEF LogOK, GroupInv
<1>15. ModeOK'
  BY <1>1, <1>7 DEF ModeOK, GroupInv
<1>16. ASSUME NEW x \in Trx PROVE LeaderOK(x)'
  BY <1>1, <1>7 DEF LeaderOK, GroupInv
<1> QED BY <1>7, <1>9, <1>10, <1>14, <1>15, <1>16 DEF GroupInv

\* ... and to LOCK_commit_ordered.
LEMMA LockCommitOrderedKeeps ==
  ASSUME TypeInv, GroupInv, WaitInv, NEW t \in Trx, LockCommitOrdered(t), UNCHANGED <<rgi, dom>>
  PROVE  TypeInv' /\ GroupInv' /\ WaitInv'
<1>1. /\ pc[t] = "order" /\ lk["commit"] = NoTrx /\ lk' = [lk EXCEPT !["sync"] = NoTrx, !["commit"] = t]
      /\ Goto(t, "loop") /\ UNCHANGED <<optimize, wfc, ent, queue, binlog, engine>> /\ busy' \in BOOLEAN
  BY DEF LockCommitOrdered, GroupInv, ModeOK, TypeInv, GCTypeOK
<1>7. WaitInv' /\ pc' \in [Trx -> Labels] /\ pc'[t] = "loop" /\ \A x \in Trx \ {t} : pc'[x] = pc[x]
  BY <1>1, LeaderMoves DEF InGroup, TypeInv, GCTypeOK
<1>8. lk' \in [{"log", "sync", "commit"} -> Trx \cup {NoTrx}] /\ lk'["log"] = lk["log"]
      /\ lk'["sync"] = NoTrx /\ lk'["commit"] = t
  BY <1>1, StageTypes
<1>9. TypeInv'
  BY <1>1, <1>7, <1>8 DEF TypeInv, GCTypeOK
<1>11. lk["sync"] = t /\ lk["log"] # t
  BY <1>1 DEF GroupInv, LockOK
<1>10. LockOK'
  BY <1>1, <1>7, <1>8, <1>11, TrxAssumption DEF GroupInv, LockOK
<1>12. /\ Unwritten' = Unwritten /\ Written' = Written
       /\ Synced = ent[t].rest /\ Synced' = <<>> /\ Committing = <<>> /\ Committing' = ent[t].rest
  BY <1>1, <1>7, <1>8, <1>11, TrxAssumption, StageTypes DEF Unwritten, Written, Synced, Committing
<1>13. All' = All
  BY <1>1, <1>12 DEF All
<1>14. LogOK'
  <2>1. Committing \o (Synced \o Written) = Committing' \o (Synced' \o Written')
    BY <1>12, StageTypes, TrxLists
  <2> QED BY <1>1, <1>12, <1>13, <2>1 DEF LogOK, GroupInv
<1>15. ModeOK'
  BY <1>1, <1>7 DEF ModeOK, GroupInv
<1>16. ASSUME NEW x \in Trx PROVE LeaderOK(x)'
  BY <1>1, <1>7 DEF LeaderOK, GroupInv
<1> QED BY <1>7, <1>9, <1>10, <1>14, <1>15, <1>16 DEF GroupInv

-----------------------------------------------------------------------------
(* Registering, leaving and waking *)

\* When a transaction is through, so are all before it.
LEMMA ThroughAll ==
  ASSUME WaitInv, NEW c \in Trx, Through(c)
  PROVE  AllThrough(c)
BY DEF WaitInv, ClearedOK, Through, WaitOK

\* A transaction with a predecessor that is through has all before it through.
LEMMA PriorThrough ==
  ASSUME WaitInv, NEW t \in Trx, Prior(t) # NoTrx, Through(Prior(t))
  PROVE  AllThrough(t)
<1>1. Prior(t) \in Trx /\ \A v \in Earlier(t) : v \in Earlier(Prior(t)) \/ v = Prior(t)
  BY PriorLast DEF Earlier
<1>2. AllThrough(Prior(t))
  BY <1>1, ThroughAll
<1> QED BY <1>1, <1>2 DEF AllThrough

\* A transaction up to which all have finished has all before it through.
LEMMA LastThrough ==
  ASSUME TypeInv, WaitInv, NEW t \in Trx, Prior(t) # NoTrx, Prior(t) <= dom[Domain[t]].last
  PROVE  AllThrough(t)
<1> DEFINE u == Prior(t)
<1> DEFINE c == dom[Domain[t]].last
<1>1. u \in Earlier(t) /\ \A v \in Earlier(t) : v \in Earlier(u) \/ v = u
  BY PriorLast
<1>2. u \in Trx /\ u \in Nat /\ u # 0 /\ Domain[u] = Domain[t]
  <2> HIDE DEF u
  <2>1. u \in Trx /\ Domain[u] = Domain[t]
    BY <1>1 DEF Earlier
  <2> QED BY <2>1, TrxAssumption
<1>3. Domain[t] \in Domains
  BY DEF Domains
<1>4. c \in Trx \cup {0} /\ u <= c
  BY <1>3 DEF TypeInv, DomType
<1> HIDE DEF c, u
<1>5. c \in Trx /\ c \in Nat
  BY <1>2, <1>4, TrxAssumption
<1>6. Domain[c] = Domain[t] /\ pc[c] \in {"finwaking", "done"}
  BY <1>3, <1>5, TrxAssumption DEF WaitInv, DomOK, c
<1>7. Through(c) /\ AllThrough(c)
  BY <1>5, <1>6, ThroughAll DEF Through
<1>8. ASSUME NEW v \in Earlier(t) PROVE v \in Earlier(c) \/ v = c
  <2>1. v \in Trx /\ v \in Nat /\ v <= u /\ Domain[v] = Domain[c]
    BY <1>1, <1>2, <1>6, TrxAssumption DEF Earlier
  <2>2. v < c \/ v = c
    BY <2>1, <1>2, <1>4, <1>5
  <2> QED BY <2>1, <2>2 DEF Earlier
<1> QED BY <1>7, <1>8 DEF AllThrough

\* register_wait_for_prior_commit()
LEMMA RegisteredFacts ==
  ASSUME TypeInv, NEW t \in Trx, NEW u \in Trx, u # t,
         wfc' = [wfc EXCEPT ![t].werr = "ok", ![t].waitee = u, ![u].subs = @ \cup {t}]
  PROVE  /\ wfc' \in [Trx -> WfcType]
         /\ \A x \in Trx :
              /\ wfc'[x].walk = wfc[x].walk /\ wfc'[x].waking = wfc[x].waking /\ wfc'[x].ready = wfc[x].ready
              /\ wfc'[x].started = wfc[x].started /\ wfc'[x].torn = wfc[x].torn /\ wfc'[x].unwait = wfc[x].unwait
              /\ wfc'[x].subs = IF x = u THEN wfc[x].subs \cup {t} ELSE wfc[x].subs
              /\ x # t => wfc'[x].waitee = wfc[x].waitee /\ wfc'[x].werr = wfc[x].werr
         /\ wfc'[t].waitee = u /\ wfc'[t].werr = "ok"
<1> DEFINE R == [wfc[t] EXCEPT !.werr = "ok", !.waitee = u]
<1> DEFINE Q == [wfc[u] EXCEPT !.subs = @ \cup {t}]
<1>1. wfc' = [[wfc EXCEPT ![t] = R] EXCEPT ![u] = Q]
  BY DEF TypeInv
<1>2. wfc[t] \in WfcType /\ wfc[u] \in WfcType /\ wfc \in [Trx -> WfcType]
  BY DEF TypeInv
<1>3. /\ R \in WfcType /\ R.werr = "ok" /\ R.waitee = u /\ R.subs = wfc[t].subs /\ R.walk = wfc[t].walk
      /\ R.waking = wfc[t].waking /\ R.ready = wfc[t].ready /\ R.started = wfc[t].started /\ R.torn = wfc[t].torn /\ R.unwait = wfc[t].unwait
  BY <1>2 DEF WfcType, WakeupErrors
<1>4. /\ Q \in WfcType /\ Q.werr = wfc[u].werr /\ Q.waitee = wfc[u].waitee /\ Q.subs = wfc[u].subs \cup {t} /\ Q.walk = wfc[u].walk
      /\ Q.waking = wfc[u].waking /\ Q.ready = wfc[u].ready /\ Q.started = wfc[u].started /\ Q.torn = wfc[u].torn /\ Q.unwait = wfc[u].unwait
  BY <1>2 DEF WfcType
<1> HIDE DEF R, Q
<1>5. wfc' \in [Trx -> WfcType] /\ wfc'[t] = R /\ wfc'[u] = Q /\ \A x \in Trx \ {t, u} : wfc'[x] = wfc[x]
  <2> DEFINE w == [wfc EXCEPT ![t] = R]
  <2>1. w \in [Trx -> WfcType] /\ w[t] = R /\ \A x \in Trx \ {t} : w[x] = wfc[x]
    BY <1>2, <1>3, <1>4
  <2>2. wfc' = [w EXCEPT ![u] = Q]
    BY <1>1
  <2> HIDE DEF w
  <2>3. wfc' \in [Trx -> WfcType]
    BY <2>1, <2>2, <1>3, <1>4
  <2>4. wfc'[u] = Q /\ \A x \in Trx \ {u} : wfc'[x] = w[x]
    BY <2>1, <2>2
  <2>5. wfc'[t] = R /\ \A x \in Trx \ {t, u} : wfc'[x] = wfc[x]
    BY <2>1, <2>4
  <2> QED BY <2>3, <2>4, <2>5
<1> QED BY <1>3, <1>4, <1>5

\* A waiter takes itself off the list of its waitee
Leaves(t, u, e) ==
  wfc' = [wfc EXCEPT ![u].subs = @ \ {t}, ![t].waitee = NoTrx, ![t].werr = e, ![t].unwait = "no"]

\* What the waiter that takes itself off the list changes.
LEMMA LeftFacts ==
  ASSUME TypeInv, NEW t \in Trx, NEW u \in Trx, u # t, NEW e \in WakeupErrors, Leaves(t, u, e)
  PROVE  /\ wfc' \in [Trx -> WfcType]
         /\ \A x \in Trx :
              /\ wfc'[x].walk = wfc[x].walk /\ wfc'[x].waking = wfc[x].waking /\ wfc'[x].ready = wfc[x].ready
              /\ wfc'[x].started = wfc[x].started /\ wfc'[x].torn = wfc[x].torn
              /\ wfc'[x].subs = IF x = u THEN wfc[x].subs \ {t} ELSE wfc[x].subs
              /\ x # t => wfc'[x].waitee = wfc[x].waitee /\ wfc'[x].werr = wfc[x].werr /\ wfc'[x].unwait = wfc[x].unwait
         /\ wfc'[t].waitee = NoTrx /\ wfc'[t].werr = e /\ wfc'[t].unwait = "no"
<1> DEFINE R == [wfc[t] EXCEPT !.waitee = NoTrx, !.werr = e, !.unwait = "no"]
<1> DEFINE Q == [wfc[u] EXCEPT !.subs = @ \ {t}]
<1>1. wfc' = [[wfc EXCEPT ![u] = Q] EXCEPT ![t] = R]
  BY DEF TypeInv, Leaves
<1>2. wfc[t] \in WfcType /\ wfc[u] \in WfcType /\ wfc \in [Trx -> WfcType]
  BY DEF TypeInv
<1>3. /\ R \in WfcType /\ R.werr = e /\ R.waitee = NoTrx /\ R.subs = wfc[t].subs /\ R.walk = wfc[t].walk
      /\ R.waking = wfc[t].waking /\ R.ready = wfc[t].ready /\ R.started = wfc[t].started /\ R.torn = wfc[t].torn /\ R.unwait = "no"
  BY <1>2 DEF WfcType
<1>4. /\ Q \in WfcType /\ Q.werr = wfc[u].werr /\ Q.waitee = wfc[u].waitee /\ Q.subs = wfc[u].subs \ {t} /\ Q.walk = wfc[u].walk
      /\ Q.waking = wfc[u].waking /\ Q.ready = wfc[u].ready /\ Q.started = wfc[u].started /\ Q.torn = wfc[u].torn /\ Q.unwait = wfc[u].unwait
  BY <1>2 DEF WfcType
<1> HIDE DEF R, Q
<1>5. wfc' \in [Trx -> WfcType] /\ wfc'[t] = R /\ wfc'[u] = Q /\ \A x \in Trx \ {t, u} : wfc'[x] = wfc[x]
  <2> DEFINE w == [wfc EXCEPT ![u] = Q]
  <2>1. w \in [Trx -> WfcType] /\ w[u] = Q /\ \A x \in Trx \ {u} : w[x] = wfc[x]
    BY <1>2, <1>3, <1>4
  <2>2. wfc' = [w EXCEPT ![t] = R]
    BY <1>1
  <2> HIDE DEF w
  <2>3. wfc' \in [Trx -> WfcType]
    BY <2>1, <2>2, <1>3, <1>4
  <2>4. wfc'[t] = R /\ \A x \in Trx \ {t} : wfc'[x] = w[x]
    BY <2>1, <2>2
  <2>5. wfc'[u] = Q /\ \A x \in Trx \ {u, t} : wfc'[x] = wfc[x]
    BY <2>1, <2>4
  <2> QED BY <2>3, <2>4, <2>5
<1> QED BY <1>3, <1>4, <1>5

(* One of the two stores of the wakeup() of x, a waiter of c, after which its *)
(* error is g: T is who leaves the list of those to be woken up.              *)
Woke(c, x, g, T) ==
  /\ wfc' \in [Trx -> WfcType]
  /\ \A y \in Trx :
       /\ wfc'[y].subs = wfc[y].subs /\ wfc'[y].waking = wfc[y].waking /\ wfc'[y].ready = wfc[y].ready
       /\ wfc'[y].started = wfc[y].started /\ wfc'[y].torn = wfc[y].torn /\ wfc'[y].unwait = wfc[y].unwait
       /\ wfc'[y].walk = IF y = c THEN wfc[y].walk \ T ELSE wfc[y].walk
       /\ y # x => wfc'[y].waitee = wfc[y].waitee /\ wfc'[y].werr = wfc[y].werr
  /\ wfc'[x].waitee = NoTrx /\ wfc'[x].werr = g

\* Which of the stores it is
FirstStore(x, g, T) == T = {} /\ g = wfc[x].werr /\ wfc[x].waitee # NoTrx /\ ~Holding(x)
SecondStore(x, g, T, e) == T = {x} /\ g = e /\ wfc[x].waitee = NoTrx

\* What a step of the wakeup of a waiter changes.
LEMMA WokenFacts ==
  ASSUME TypeInv, NEW c \in Trx, NEW e \in WakeupErrors, WakesOne(c, e), c \notin wfc[c].walk
  PROVE  \E x \in wfc[c].walk, g \in WakeupErrors, T \in SUBSET Trx :
            Woke(c, x, g, T) /\ (FirstStore(x, g, T) \/ SecondStore(x, g, T, e))
<1>0. wfc[c] \in WfcType /\ wfc \in [Trx -> WfcType] /\ wfc[c].walk \in SUBSET Trx
  BY DEF TypeInv, WfcType
<1>1. CASE ClearsWaitee(c)
  <2>1. PICK x \in wfc[c].walk : wfc[x].waitee # NoTrx /\ ~Holding(x) /\ wfc' = [wfc EXCEPT ![x].waitee = NoTrx]
    BY <1>1 DEF ClearsWaitee
  <2> DEFINE R == [wfc[x] EXCEPT !.waitee = NoTrx]
  <2>2. x \in Trx /\ wfc[x] \in WfcType /\ wfc' = [wfc EXCEPT ![x] = R]
    BY <1>0, <2>1
  <2>3. /\ R \in WfcType /\ R.werr = wfc[x].werr /\ R.waitee = NoTrx /\ R.subs = wfc[x].subs /\ R.walk = wfc[x].walk
        /\ R.waking = wfc[x].waking /\ R.ready = wfc[x].ready /\ R.started = wfc[x].started /\ R.torn = wfc[x].torn
        /\ R.unwait = wfc[x].unwait /\ wfc[x].werr \in WakeupErrors
    BY <2>2 DEF WfcType
  <2> HIDE DEF R
  <2>4. wfc' \in [Trx -> WfcType] /\ wfc'[x] = R /\ \A y \in Trx \ {x} : wfc'[y] = wfc[y]
    BY <2>2, <2>3, WfcUpdate
  <2>5. wfc[c].walk \ {} = wfc[c].walk
    OBVIOUS
  <2>6. Woke(c, x, wfc[x].werr, {})
    BY <2>2, <2>3, <2>4, <2>5 DEF Woke
  <2> QED BY <2>1, <2>3, <2>6 DEF FirstStore
<1>2. CASE StoresError(c, e)
  <2>1. PICK x \in wfc[c].walk : wfc[x].waitee = NoTrx /\ wfc' = [wfc EXCEPT ![x].werr = e, ![c].walk = @ \ {x}]
    BY <1>2 DEF StoresError
  <2> DEFINE R == [wfc[x] EXCEPT !.werr = e]
  <2> DEFINE Q == [wfc[c] EXCEPT !.walk = @ \ {x}]
  <2>2. x \in Trx /\ x # c /\ wfc[x] \in WfcType /\ wfc' = [[wfc EXCEPT ![x] = R] EXCEPT ![c] = Q]
    BY <1>0, <2>1
  <2>3. /\ R \in WfcType /\ R.werr = e /\ R.waitee = NoTrx /\ R.subs = wfc[x].subs /\ R.walk = wfc[x].walk
        /\ R.waking = wfc[x].waking /\ R.ready = wfc[x].ready /\ R.started = wfc[x].started /\ R.torn = wfc[x].torn /\ R.unwait = wfc[x].unwait
    BY <2>1, <2>2 DEF WfcType
  <2>4. /\ Q \in WfcType /\ Q.werr = wfc[c].werr /\ Q.waitee = wfc[c].waitee /\ Q.walk = wfc[c].walk \ {x} /\ Q.subs = wfc[c].subs
        /\ Q.waking = wfc[c].waking /\ Q.ready = wfc[c].ready /\ Q.started = wfc[c].started /\ Q.torn = wfc[c].torn /\ Q.unwait = wfc[c].unwait
    BY <1>0 DEF WfcType
  <2> HIDE DEF R, Q
  <2>5. wfc' \in [Trx -> WfcType] /\ wfc'[x] = R /\ wfc'[c] = Q /\ \A y \in Trx \ {x, c} : wfc'[y] = wfc[y]
    <3> DEFINE w == [wfc EXCEPT ![x] = R]
    <3>1. w \in [Trx -> WfcType] /\ w[x] = R /\ \A y \in Trx \ {x} : w[y] = wfc[y]
      BY <1>0, <2>2, <2>3
    <3>2. wfc' = [w EXCEPT ![c] = Q]
      BY <2>2
    <3> HIDE DEF w
    <3>3. wfc' \in [Trx -> WfcType]
      BY <3>1, <3>2, <2>4
    <3>4. wfc'[c] = Q /\ \A y \in Trx \ {c} : wfc'[y] = w[y]
      BY <3>1, <3>2
    <3>5. wfc'[x] = R /\ \A y \in Trx \ {x, c} : wfc'[y] = wfc[y]
      BY <3>1, <3>4, <2>2
    <3> QED BY <3>3, <3>4, <3>5
  <2>6. Woke(c, x, e, {x})
    BY <2>1, <2>2, <2>3, <2>4, <2>5 DEF Woke
  <2>7. {x} \in SUBSET Trx
    BY <2>2
  <2> QED BY <2>1, <2>6, <2>7 DEF SecondStore
<1> QED BY <1>1, <1>2 DEF WakesOne

\* wakeup_subsequent_commits2() takes the list of the waiters of c
LEMMA TakenFacts ==
  ASSUME TypeInv, NEW c \in Trx, wfc' = ListTaken(wfc, c)
  PROVE  /\ wfc' \in [Trx -> WfcType]
         /\ \A y \in Trx :
              /\ wfc'[y].waitee = wfc[y].waitee /\ wfc'[y].ready = wfc[y].ready /\ wfc'[y].werr = wfc[y].werr
              /\ wfc'[y].started = wfc[y].started /\ wfc'[y].torn = wfc[y].torn /\ wfc'[y].unwait = wfc[y].unwait
         /\ \A y \in Trx \ {c} : wfc'[y].subs = wfc[y].subs /\ wfc'[y].walk = wfc[y].walk /\ wfc'[y].waking = wfc[y].waking
         /\ wfc[c].subs = {} => wfc' = wfc
         /\ wfc[c].subs # {} => wfc'[c].waking /\ wfc'[c].walk = wfc[c].subs /\ wfc'[c].subs = {}
<1>2. wfc[c] \in WfcType /\ wfc \in [Trx -> WfcType]
  BY DEF TypeInv
<1>3. CASE wfc[c].subs = {}
  BY <1>2, <1>3 DEF ListTaken
<1>4. CASE wfc[c].subs # {}
  <2> DEFINE R == [wfc[c] EXCEPT !.waking = TRUE, !.walk = wfc[c].subs, !.subs = {}]
  <2>1. wfc' = [wfc EXCEPT ![c] = R]
    BY <1>2, <1>4 DEF ListTaken
  <2>2. /\ R \in WfcType /\ R.werr = wfc[c].werr /\ R.waitee = wfc[c].waitee /\ R.subs = {} /\ R.walk = wfc[c].subs
        /\ R.waking = TRUE /\ R.ready = wfc[c].ready /\ R.started = wfc[c].started /\ R.torn = wfc[c].torn /\ R.unwait = wfc[c].unwait
    BY <1>2 DEF WfcType
  <2> HIDE DEF R
  <2>3. wfc' \in [Trx -> WfcType] /\ wfc'[c] = R /\ \A y \in Trx \ {c} : wfc'[y] = wfc[y]
    BY <2>1, <2>2, WfcUpdate
  <2> QED BY <1>4, <2>2, <2>3
<1> QED BY <1>3, <1>4

\* Its end
LEMMA OverFacts ==
  ASSUME TypeInv, NEW c \in Trx, WakingOver(c)
  PROVE  /\ wfc' \in [Trx -> WfcType]
         /\ \A y \in Trx :
              /\ wfc'[y].waitee = wfc[y].waitee /\ wfc'[y].ready = wfc[y].ready /\ wfc'[y].werr = wfc[y].werr
              /\ wfc'[y].started = wfc[y].started /\ wfc'[y].torn = wfc[y].torn /\ wfc'[y].unwait = wfc[y].unwait
              /\ wfc'[y].subs = wfc[y].subs /\ wfc'[y].walk = wfc[y].walk
         /\ \A y \in Trx \ {c} : wfc'[y].waking = wfc[y].waking
         /\ ~wfc'[c].waking
<1>2. wfc[c] \in WfcType /\ wfc \in [Trx -> WfcType]
  BY DEF TypeInv
<1> DEFINE R == [wfc[c] EXCEPT !.waking = FALSE]
<1>3. wfc' = [wfc EXCEPT ![c] = R]
  BY <1>2 DEF WakingOver
<1>4. /\ R \in WfcType /\ R.werr = wfc[c].werr /\ R.waitee = wfc[c].waitee /\ R.subs = wfc[c].subs /\ R.walk = wfc[c].walk
      /\ R.waking = FALSE /\ R.ready = wfc[c].ready /\ R.started = wfc[c].started /\ R.torn = wfc[c].torn /\ R.unwait = wfc[c].unwait
  BY <1>2 DEF WfcType
<1> HIDE DEF R
<1>5. wfc' \in [Trx -> WfcType] /\ wfc'[c] = R /\ \A y \in Trx \ {c} : wfc'[y] = wfc[y]
  BY <1>3, <1>4, WfcUpdate
<1> QED BY <1>4, <1>5

\* Nobody waits for a row lock of a group that is not executing.
LEMMA NoRowWaiter ==
  ASSUME WaitInv, NEW t \in Trx, pc[t] \notin HasRowLocks \/ wfc[t].started
  PROVE  \A x \in Trx : rgi[x].rowWait # t
BY TrxAssumption DEF WaitInv, KillOK

\* register_wait_for_prior_event_group_commit()
LEMMA RegisterKeeps ==
  ASSUME TypeInv, GroupInv, WaitInv, NEW t \in Trx, pc[t] \in {"queued", "reregister"}, RegisterPrior(t),
         NEW l \in {"skipwait", "specwait", "exec", "retrywait"}, Goto(t, l), UNCHANGED <<gcVars, rgi, dom>>
  PROVE  TypeInv' /\ GroupInv' /\ WaitInv'
<1> DEFINE u == Prior(t)
<1>a. /\ PhaseOK(t) /\ WaitOK(t) /\ ClearedOK(t) /\ KillOK(t)
      /\ ent' = ent /\ engine' = engine /\ rgi' = rgi /\ dom' = dom /\ UNCHANGED gcVars
  BY DEF WaitInv, gcVars
<1>b. /\ ~wfc[t].started /\ rgi[t].killed = "no" /\ rgi[t].rowWait = NoTrx /\ wfc[t].werr # "kill" /\ wfc[t].waitee = NoTrx
      /\ wfc[t].unwait # "locked" /\ rgi[t].result = "none" /\ ~wfc[t].ready /\ ~ent[t].qbo
  BY <1>a DEF PhaseOK, WaitOK, KillOK, InGroup, Ending
<1>c. pc' \in [Trx -> Labels] /\ pc'[t] = l /\ \A x \in Trx \ {t} : pc'[x] = pc[x]
  BY DEF TypeInv, Goto, Labels, PriorWaits
<1>d. \A x \in Trx : rgi[x].rowWait # t
  BY NoRowWaiter DEF HasRowLocks
<1>1. CASE wfc' = wfc /\ AllThrough(t)
  <2>1. \A x \in Trx : Through(x)' <=> Through(x)
    BY <1>1, <1>c DEF Through
  <2>0. Untorn(t)' <=> Untorn(t)
    BY <1>1, TornSame
  <2>2. PhaseOK(t)'
    BY <1>a, <1>b, <1>c, <1>1, <2>0 DEF PhaseOK, InGroup, Ending
  <2>3. WaitOK(t)'
    BY <1>a, <1>b, <1>c, <1>1 DEF WaitOK
  <2>4. ClearedOK(t)'
    BY <1>1, <2>1 DEF ClearedOK, AllThrough, Earlier
  <2>5. KillOK(t)'
    BY <1>a, <1>b, <1>c, <1>1 DEF KillOK
  <2>6. wfc' = wfc /\ l \in Labels \ (InGroup \cup {"return", "busywait", "turn", "finwaking", "done"})
        /\ pc[t] \notin InGroup \cup {"wait", "finwaking", "done"}
    BY <1>1 DEF Labels, PriorWaits, InGroup
  <2>7. rgi' \in [Trx -> RgiType] /\ dom' \in [Domains -> DomType]
        /\ (\A d \in Domains : dom'[d].last = dom[d].last) /\ \A x \in Trx \ {t} : rgi'[x] = rgi[x]
    BY <1>a DEF TypeInv
  <2> QED BY <1>a, <1>d, <2>2, <2>3, <2>4, <2>5, <2>6, <2>7, PlainKeeps
<1>2. CASE u = NoTrx \/ u <= dom[Domain[t]].last
  <2>1. wfc' = wfc
    BY <1>2 DEF RegisterPrior
  <2>2. AllThrough(t)
    BY <1>2, PriorLast, LastThrough DEF AllThrough
  <2> QED BY <1>1, <2>1, <2>2
<1>3. CASE ~(u = NoTrx \/ u <= dom[Domain[t]].last)
  <2>1. ~Locked(u) /\ wfc' = Registered(wfc, t, u)
    BY <1>3 DEF RegisterPrior
  <2>2. u \in Trx /\ u # t /\ u \in Earlier(t)
    BY <1>3, PriorLast, TrxAssumption DEF Earlier
  <2>3. CASE wfc[u].waking
    <3>1. wfc' = [wfc EXCEPT ![t].werr = "ok", ![t].waitee = NoTrx]
      BY <2>1, <2>3 DEF Registered
    <3>2. AllThrough(t)
      <4>1. Through(u)
        BY <2>2, <2>3 DEF WaitInv, ListOK
      <4> QED BY <1>3, <4>1, PriorThrough
    <3> DEFINE R == [wfc[t] EXCEPT !.werr = "ok", !.waitee = NoTrx]
    <3>3. wfc' = [wfc EXCEPT ![t] = R] /\ wfc[t] \in WfcType
      BY <3>1 DEF TypeInv
    <3>4. /\ R \in WfcType /\ R.waitee = wfc[t].waitee /\ R.subs = wfc[t].subs /\ R.walk = wfc[t].walk
          /\ R.waking = wfc[t].waking /\ R.started = wfc[t].started /\ R.torn = wfc[t].torn /\ R.werr = "ok"
          /\ R.ready = wfc[t].ready /\ R.unwait = wfc[t].unwait
      BY <1>b, <3>3 DEF WfcType, WakeupErrors
    <3> HIDE DEF R, u
    <3>5. wfc' \in [Trx -> WfcType] /\ wfc'[t] = R /\ \A x \in Trx \ {t} : wfc'[x] = wfc[x]
      BY <3>3, <3>4, WfcUpdate
    <3>6. Moves(t)
      BY <1>a, <1>c, <1>d, <3>4, <3>5 DEF Moves
    <3>7. TypeInv'
      BY <1>a, <1>c, <3>5 DEF TypeInv, gcVars, GCTypeOK
    <3>8. PhaseOK(t)'
      BY <1>a, <1>b, <1>c, <3>4, <3>5, <3>6, MovesThrough DEF PhaseOK, InGroup, Ending
    <3>9. WaitOK(t)'
      BY <1>a, <1>b, <1>c, <3>4, <3>5 DEF WaitOK
    <3>10. ClearedOK(t)'
      BY <3>2, <3>6, MovesThrough DEF ClearedOK
    <3>11. KillOK(t)'
      BY <1>a, <1>b, <1>c, <3>4, <3>5 DEF KillOK
    <3> QED BY <1>a, <1>c, <3>6, <3>7, <3>8, <3>9, <3>10, <3>11, LocalKeeps DEF InGroup
  <2>4. CASE ~wfc[u].waking
    <3>1. wfc' = [wfc EXCEPT ![t].werr = "ok", ![t].waitee = u, ![u].subs = @ \cup {t}]
      BY <2>1, <2>4 DEF Registered
    <3> DEFINE F ==
         /\ wfc' \in [Trx -> WfcType]
         /\ \A x \in Trx :
              /\ wfc'[x].walk = wfc[x].walk /\ wfc'[x].waking = wfc[x].waking /\ wfc'[x].ready = wfc[x].ready
              /\ wfc'[x].started = wfc[x].started /\ wfc'[x].torn = wfc[x].torn /\ wfc'[x].unwait = wfc[x].unwait
              /\ wfc'[x].subs = IF x = u THEN wfc[x].subs \cup {t} ELSE wfc[x].subs
              /\ x # t => wfc'[x].waitee = wfc[x].waitee /\ wfc'[x].werr = wfc[x].werr
         /\ wfc'[t].waitee = u /\ wfc'[t].werr = "ok"
    <3>u. u = Prior(t)
      OBVIOUS
    <3> HIDE DEF u
    <3>2. F
      BY <2>2, <3>1, RegisteredFacts
    <3>3. TypeInv'
      BY <1>a, <1>c, <3>2 DEF TypeInv, gcVars, GCTypeOK
    <3>4. \A x \in Trx : Through(x)' <=> Through(x)
      BY <1>c, <3>2 DEF Through
    <3>5. GroupInv'
      <4>1. Outside
        BY <1>a, <1>b, <1>c, <3>2 DEF Outside, InGroup
      <4> QED BY <4>1, OutsideKeeps
    <3>6. ASSUME NEW x \in Trx PROVE PhaseOK(x)'
      <4>0. Untorn(x)' <=> Untorn(x)
        BY <3>2, TornSame
      <4>1. PhaseOK(x) BY DEF WaitInv
      <4>2. CASE x = t
        BY <1>a, <1>b, <1>c, <3>2, <4>0, <4>2 DEF PhaseOK, InGroup, Ending
      <4>3. CASE x # t
        BY <1>a, <1>c, <3>2, <4>0, <4>1, <4>3 DEF PhaseOK
      <4> QED BY <4>2, <4>3
    <3>7. ASSUME NEW x \in Trx PROVE ListOK(x)'
      <4>1. ListOK(x) /\ wfc[x].subs \subseteq Trx /\ wfc[x].walk \subseteq Trx
        BY DEF WaitInv, TypeInv, WfcType
      <4>0. /\ wfc'[x].walk = wfc[x].walk /\ wfc'[x].started = wfc[x].started
            /\ wfc'[x].subs = IF x = u THEN wfc[x].subs \cup {t} ELSE wfc[x].subs
        BY <3>2
      <4>2. ASSUME NEW y \in wfc[x].subs \cup wfc[x].walk PROVE ListedOK(x, y)'
        <5>1. y \in Trx /\ ListedOK(x, y)
          BY <4>1 DEF ListOK
        <5>2. y # t
          <6>1. t \notin wfc[x].subs
            BY <1>b, <4>1, TrxAssumption DEF ListOK, ListedOK
          <6>2. x = u => wfc[x].walk = {}
            BY <2>4, <4>1 DEF ListOK
          <6>3. y = t => x = u
            BY <3>u, <5>1 DEF ListedOK
          <6> QED BY <6>1, <6>2, <6>3
        <5>3. /\ wfc'[y].waitee = wfc[y].waitee /\ wfc'[y].started = wfc[y].started /\ wfc'[y].torn = wfc[y].torn
          BY <3>2, <5>1, <5>2
        <5>4. (y \in wfc'[x].subs => y \in wfc[x].subs) /\ (y \in wfc'[x].walk => y \in wfc[x].walk)
          BY <4>0, <5>2
        <5> HIDE DEF F
        <5> QED BY <1>a, <4>0, <5>1, <5>3, <5>4 DEF ListedOK
      <4>3. ASSUME NEW y \in wfc'[x].subs \cup wfc'[x].walk PROVE ListedOK(x, y)'
        <5>1. y \in wfc[x].subs \cup wfc[x].walk \/ (y = t /\ x = u)
          <6> HIDE DEF F
          <6> QED BY <4>0
        <5>2. CASE y = t /\ x = u
          <6>1. wfc[x].walk = {}
            BY <2>4, <4>1, <5>2 DEF ListOK
          <6> QED BY <1>a, <1>b, <3>2, <3>u, <4>0, <5>2, <6>1 DEF ListedOK
        <5> QED BY <4>2, <5>1, <5>2
      <4>4. (~wfc'[x].waking => wfc'[x].walk = {}) /\ (wfc'[x].waking => wfc'[x].subs = {} /\ Through(x)')
        BY <2>4, <3>2, <3>4, <4>1 DEF ListOK
      <4> QED BY <4>3, <4>4 DEF ListOK
    <3>8. ASSUME NEW x \in Trx PROVE WaitOK(x)'
      <4>1. WaitOK(x) /\ wfc[x].waitee \in Trx \cup {NoTrx}
        BY DEF WaitInv, TypeInv, WfcType
      <4>2. CASE x = t
        BY <1>a, <1>b, <1>c, <2>2, <3>2, <3>u, <4>2 DEF WaitOK
      <4>3. CASE x # t
        <5>1. wfc[x].waitee # NoTrx =>
                LET c == wfc[x].waitee IN
                wfc'[c].started = wfc[c].started /\ wfc[c].subs \subseteq wfc'[c].subs /\ wfc'[c].walk = wfc[c].walk
          BY <3>2, <4>1
        <5>2. /\ wfc'[x].waitee = wfc[x].waitee /\ wfc'[x].werr = wfc[x].werr /\ wfc'[x].unwait = wfc[x].unwait
              /\ wfc'[x].ready = wfc[x].ready /\ wfc'[x].started = wfc[x].started /\ wfc'[x].torn = wfc[x].torn /\ pc'[x] = pc[x]
          BY <1>c, <3>2, <4>3
        <5> HIDE DEF F
        <5> QED BY <1>a, <4>1, <5>1, <5>2 DEF WaitOK
      <4> QED BY <4>2, <4>3
    <3>9. ASSUME NEW x \in Trx PROVE ClearedOK(x)'
      <4>1. ClearedOK(x) /\ (AllThrough(x)' <=> AllThrough(x))
        BY <3>4 DEF WaitInv, AllThrough, Earlier
      <4>2. CASE x = t
        BY <1>b, <2>2, <3>2, <4>2, TrxAssumption DEF ClearedOK
      <4>3. CASE x # t
        BY <1>c, <3>2, <4>1, <4>3 DEF ClearedOK
      <4> QED BY <4>2, <4>3
    <3>10. ASSUME NEW x \in Trx PROVE KillOK(x)'
      <4>1. KillOK(x) /\ wfc[x].waitee \in Trx \cup {NoTrx} /\ rgi[x].rowWait \in Trx \cup {NoTrx} /\ rgi[x].rowWait # t
        BY <1>d DEF WaitInv, TypeInv, WfcType, RgiType
      <4>2. CASE x = t
        BY <1>a, <1>b, <1>c, <4>2 DEF KillOK
      <4>3. CASE x # t
        <5>1. /\ wfc[x].waitee # NoTrx => wfc'[wfc[x].waitee].waking = wfc[wfc[x].waitee].waking
              /\ rgi[x].rowWait # NoTrx => /\ wfc'[rgi[x].rowWait].started = wfc[rgi[x].rowWait].started
                                           /\ pc'[rgi[x].rowWait] = pc[rgi[x].rowWait]
          BY <1>c, <3>2, <4>1
        <5> QED BY <1>a, <1>c, <3>2, <4>1, <4>3, <5>1 DEF KillOK
      <4> QED BY <4>2, <4>3
    <3>11. \A d \in Domains : DomOK(d)'
      <4>1. \A x \in Trx : pc'[x] \in {"finwaking", "done"} <=> pc[x] \in {"finwaking", "done"}
        BY <1>c
      <4> QED BY <1>a, <4>1 DEF WaitInv, DomOK, TypeInv, DomType
    <3> QED BY <3>3, <3>5, <3>6, <3>7, <3>8, <3>9, <3>10, <3>11 DEF WaitInv
  <2> QED BY <2>3, <2>4
<1> QED BY <1>2, <1>3

\* A worker takes up a group, or registers it again for a retry.
LEMMA StartKeeps ==
  ASSUME TypeInv, GroupInv, WaitInv, NEW t \in Trx, StartGroup(t) \/ RetryRegister(t)
  PROVE  TypeInv' /\ GroupInv' /\ WaitInv'
<1>1. CASE StartGroup(t)
  BY <1>1, RegisterKeeps DEF StartGroup
<1>2. CASE RetryRegister(t)
  BY <1>2, RegisterKeeps DEF RetryRegister
<1> QED BY <1>1, <1>2

-----------------------------------------------------------------------------
(* The order of the engines *)

\* The start of a list of one list after another.
LEMMA ConcatStart ==
  ASSUME NEW S, NEW s \in Seq(S), NEW r \in Seq(S)
  PROVE  /\ s \o r \in Seq(S) /\ Len(s \o r) = Len(s) + Len(r) /\ Len(s) \in Nat /\ Len(r) \in Nat
         /\ \A i \in 1 .. Len(s) : (s \o r)[i] = s[i]
         /\ \A i \in 1 .. Len(r) : (s \o r)[Len(s) + i] = r[i]
OBVIOUS

\* The engines have committed a prefix of what entered the queue, in its order.
LEMMA EnginePrefix ==
  ASSUME TypeInv, GroupInv, NEW t \in Trx, NEW u \in Earlier(t), wfc[u].started, In(engine, t)
  PROVE  In(engine, u)
<1>1. u \in Trx /\ u < t /\ Domain[u] = Domain[t] /\ u \in Nat /\ t \in Nat
  BY TrxAssumption DEF Earlier
<1>2. binlog \in Seq(Trx) /\ engine \in Seq(Trx) /\ Committing \o (Synced \o Written) \in Seq(Trx)
      /\ Unwritten \o queue \in Seq(Trx)
  BY StageTypes
<1>3. Len(engine) <= Len(binlog) /\ \A i \in 1 .. Len(engine) : binlog[i] = engine[i]
  <2> DEFINE D == Committing \o (Synced \o Written)
  <2>1. D \in Seq(Trx) /\ binlog = engine \o D
    BY <1>2 DEF GroupInv, LogOK
  <2> HIDE DEF D
  <2> QED BY <1>2, <2>1, ConcatStart
<1>4. Len(binlog) <= Len(All) /\ \A i \in 1 .. Len(binlog) : All[i] = binlog[i]
  <2> DEFINE D == Unwritten \o queue
  <2>1. D \in Seq(Trx) /\ All = binlog \o D
    BY <1>2 DEF All
  <2> HIDE DEF D
  <2> QED BY <1>2, <2>1, ConcatStart
<1>5. Len(engine) \in Nat /\ Len(binlog) \in Nat /\ Len(All) \in Nat
  BY <1>2, EngineStarted
<1>6. PICK i \in 1 .. Len(engine) : engine[i] = t
  BY DEF In
<1>7. PICK j \in 1 .. Len(All) : All[j] = u
  BY <1>1 DEF GroupInv, LogOK, In
<1>8. i \in 1 .. Len(All) /\ All[i] = t
  BY <1>3, <1>4, <1>5, <1>6
<1>9. ~(i < j)
  <2>1. InOrder(All)
    BY DEF GroupInv, LogOK
  <2>2. i < j => All[i] < All[j]
    BY <1>1, <1>7, <1>8, <2>1 DEF InOrder
  <2> QED BY <1>1, <1>7, <1>8, <2>2
<1>10. j \in 1 .. Len(engine)
  BY <1>5, <1>6, <1>7, <1>9
<1>11. engine[j] = u
  BY <1>3, <1>4, <1>5, <1>7, <1>10
<1> QED BY <1>10, <1>11 DEF In

\* A waiter leaves the list of its waitee: for a kill, or to be retried.
LEMMA LeaveKeeps ==
  ASSUME TypeInv, GroupInv, WaitInv, NEW t \in Trx, NEW u \in Trx, u = wfc[t].waitee, ~wfc[t].started, ~wfc[u].waking,
         NEW e \in WakeupErrors, NEW l \in Labels,
         Leaves(t, u, e), Goto(t, l), UNCHANGED <<gcVars, rgi, dom>>,
         \/ pc[t] = "wait" /\ l = "wait" /\ e = "kill" /\ rgi[t].killed = "deadlock"
         \/ pc[t] = "unregister" /\ l = "rollback" /\ e = "ok"
  PROVE  TypeInv' /\ GroupInv' /\ WaitInv'
<1>a. /\ PhaseOK(t) /\ WaitOK(t) /\ ClearedOK(t) /\ KillOK(t) /\ ListOK(u)
      /\ ent' = ent /\ engine' = engine /\ rgi' = rgi /\ dom' = dom /\ UNCHANGED gcVars
      /\ u = Prior(t) /\ u \in Trx /\ u # t /\ ~ent[t].qbo /\ wfc[u].walk = {} /\ rgi[t].result = "none"
  <2>1. u # NoTrx /\ u = Prior(t) /\ PhaseOK(t) /\ WaitOK(t) /\ ClearedOK(t) /\ KillOK(t)
    BY TrxAssumption DEF TypeInv, WfcType, WaitInv, WaitOK
  <2>2. ~ent[t].qbo /\ u # t /\ ListOK(u) /\ rgi[t].result = "none"
    BY <2>1, PriorLast, TrxAssumption DEF PhaseOK, WaitInv, Earlier, Ending
  <2> QED BY <2>1, <2>2 DEF gcVars, ListOK
<1>c. pc' \in [Trx -> Labels] /\ pc'[t] = l /\ \A x \in Trx \ {t} : pc'[x] = pc[x]
  BY DEF TypeInv, Goto
<1> DEFINE F ==
         /\ wfc' \in [Trx -> WfcType]
         /\ \A x \in Trx :
              /\ wfc'[x].walk = wfc[x].walk /\ wfc'[x].waking = wfc[x].waking /\ wfc'[x].ready = wfc[x].ready
              /\ wfc'[x].started = wfc[x].started /\ wfc'[x].torn = wfc[x].torn
              /\ wfc'[x].subs = IF x = u THEN wfc[x].subs \ {t} ELSE wfc[x].subs
              /\ x # t => wfc'[x].waitee = wfc[x].waitee /\ wfc'[x].werr = wfc[x].werr /\ wfc'[x].unwait = wfc[x].unwait
         /\ wfc'[t].waitee = NoTrx /\ wfc'[t].werr = e /\ wfc'[t].unwait = "no"
<1>u. u = wfc[t].waitee
  OBVIOUS
<1>d. /\ pc[t] \in {"wait", "unregister"} /\ l \in {"wait", "rollback"}
      /\ wfc[u].walk = {} /\ ent' = ent /\ rgi' = rgi
  BY <1>u, <1>a
<1>e. u \in Trx /\ u # t
  BY <1>a
<1>2. F
  BY <1>e, LeftFacts
<1>3. TypeInv'
  BY <1>a, <1>c, <1>2 DEF TypeInv, gcVars, GCTypeOK
<1>4. \A x \in Trx : Through(x)' <=> Through(x)
  BY <1>c, <1>d, <1>2 DEF Through
<1>5. GroupInv'
  <2>1. Outside
    BY <1>a, <1>c, <1>2 DEF Outside, InGroup
  <2> QED BY <2>1, OutsideKeeps
<1>6. ASSUME NEW x \in Trx PROVE PhaseOK(x)'
  <2>0. Untorn(x)' <=> Untorn(x)
    BY <1>2, TornSame
  <2>1. PhaseOK(x) BY DEF WaitInv
  <2>2. CASE x = t
    <3>1. /\ wfc'[t].started = wfc[t].started /\ wfc'[t].torn = wfc[t].torn /\ pc'[t] \in {"wait", "rollback"}
          /\ rgi'[t] = rgi[t] /\ ent'[t] = ent[t] /\ rgi[t].result = "none" /\ ~ent[t].qbo
      BY <1>a, <1>c, <1>d, <1>2
    <3> HIDE DEF F
    <3> QED BY <2>0, <2>1, <2>2, <3>1 DEF PhaseOK, InGroup, Ending
  <2>3. CASE x # t
    <3>1. /\ wfc'[x].started = wfc[x].started /\ wfc'[x].torn = wfc[x].torn /\ wfc'[x].werr = wfc[x].werr /\ pc'[x] = pc[x]
          /\ rgi'[x] = rgi[x] /\ ent'[x] = ent[x]
      BY <1>c, <1>d, <1>2, <2>3
    <3> HIDE DEF F
    <3> QED BY <2>0, <2>1, <3>1 DEF PhaseOK
  <2> QED BY <2>2, <2>3
<1>7. ASSUME NEW x \in Trx PROVE ListOK(x)'
  <2>1. ListOK(x) /\ wfc[x].subs \subseteq Trx /\ wfc[x].walk \subseteq Trx
    BY DEF WaitInv, TypeInv, WfcType
  <2>0. /\ wfc'[x].walk = wfc[x].walk
        /\ wfc'[x].subs = IF x = u THEN wfc[x].subs \ {t} ELSE wfc[x].subs
        /\ wfc'[x].waking = wfc[x].waking /\ wfc'[x].started = wfc[x].started
    BY <1>2
  <2>2. ASSUME NEW y \in wfc'[x].subs \cup wfc'[x].walk PROVE ListedOK(x, y)'
    <3>1. y \in wfc[x].subs \cup wfc[x].walk /\ (x = u => y # t)
      <4>1. x = u => wfc[x].walk = {}
        BY <1>d
      <4> HIDE DEF F
      <4>2. CASE x = u
        <5>1. wfc'[x].subs = wfc[x].subs \ {t} /\ wfc'[x].walk = {}
          BY <2>0, <4>1, <4>2
        <5> QED BY <5>1
      <4>3. CASE x # u
        <5>1. wfc'[x].subs = wfc[x].subs /\ wfc'[x].walk = wfc[x].walk
          BY <2>0, <4>3
        <5> QED BY <4>3, <5>1
      <4> QED BY <4>2, <4>3
    <3>2. y \in Trx /\ ListedOK(x, y)
      BY <2>1, <3>1 DEF ListOK
    <3>3. y # t
      BY <1>a, <3>1, <3>2 DEF ListedOK
    <3>4. wfc'[y].waitee = wfc[y].waitee /\ wfc'[y].started = wfc[y].started /\ wfc'[y].torn = wfc[y].torn
      BY <1>2, <3>2, <3>3
    <3>5. (y \in wfc'[x].subs => y \in wfc[x].subs) /\ (y \in wfc'[x].walk => y \in wfc[x].walk)
      <4> HIDE DEF F
      <4> QED BY <2>0
    <3> HIDE DEF F
    <3> QED BY <1>a, <2>0, <3>2, <3>4, <3>5 DEF ListedOK
  <2>3. (~wfc'[x].waking => wfc'[x].walk = {}) /\ (wfc'[x].waking => wfc'[x].subs = {} /\ Through(x)')
    <3>1. Through(x)' <=> Through(x) BY <1>4
    <3> HIDE DEF F
    <3> QED BY <2>0, <2>1, <3>1, <1>u DEF ListOK
  <2> QED BY <2>2, <2>3 DEF ListOK
<1>8. ASSUME NEW x \in Trx PROVE WaitOK(x)'
  <2>1. WaitOK(x) /\ wfc[x].waitee \in Trx \cup {NoTrx}
    BY DEF WaitInv, TypeInv, WfcType
  <2>2. CASE x = t
    BY <1>a, <1>c, <1>2, <2>2 DEF WaitOK
  <2>3. CASE x # t
    <3>1. wfc[x].waitee # NoTrx =>
            LET c == wfc[x].waitee IN
            wfc'[c].started = wfc[c].started /\ wfc[c].subs \ {t} \subseteq wfc'[c].subs /\ wfc'[c].walk = wfc[c].walk
      <4> SUFFICES ASSUME NEW c \in Trx
          PROVE wfc'[c].started = wfc[c].started /\ wfc[c].subs \ {t} \subseteq wfc'[c].subs /\ wfc'[c].walk = wfc[c].walk
        BY <2>1
      <4>1. /\ wfc'[c].started = wfc[c].started /\ wfc'[c].walk = wfc[c].walk
            /\ wfc'[c].subs = IF c = u THEN wfc[c].subs \ {t} ELSE wfc[c].subs
        BY <1>2
      <4> HIDE DEF F
      <4> QED BY <4>1
    <3>2. /\ wfc'[x].waitee = wfc[x].waitee /\ wfc'[x].werr = wfc[x].werr /\ wfc'[x].unwait = wfc[x].unwait
          /\ wfc'[x].ready = wfc[x].ready /\ wfc'[x].started = wfc[x].started /\ wfc'[x].torn = wfc[x].torn /\ pc'[x] = pc[x]
      BY <1>c, <1>2, <2>3
    <3> HIDE DEF F
    <3> QED BY <1>a, <2>1, <2>3, <3>1, <3>2 DEF WaitOK
  <2> QED BY <2>2, <2>3
<1>9. ASSUME NEW x \in Trx PROVE ClearedOK(x)'
  <2>1. ClearedOK(x) /\ (AllThrough(x)' <=> AllThrough(x))
    BY <1>4 DEF WaitInv, AllThrough, Earlier
  <2>2. CASE x = t
    BY <1>c, <1>2, <2>2 DEF ClearedOK
  <2>3. CASE x # t
    BY <1>c, <1>2, <2>1, <2>3 DEF ClearedOK
  <2> QED BY <2>2, <2>3
<1>10. ASSUME NEW x \in Trx PROVE KillOK(x)'
  <2>1. KillOK(x) /\ wfc[x].waitee \in Trx \cup {NoTrx} /\ rgi[x].rowWait \in Trx \cup {NoTrx}
    BY DEF WaitInv, TypeInv, WfcType, RgiType
  <2>0. /\ wfc[x].waitee # NoTrx => wfc'[wfc[x].waitee].waking = wfc[wfc[x].waitee].waking
        /\ rgi[x].rowWait # NoTrx => /\ wfc'[rgi[x].rowWait].started = wfc[rgi[x].rowWait].started
                                     /\ (pc[rgi[x].rowWait] \in HasRowLocks => pc'[rgi[x].rowWait] \in HasRowLocks)
    BY <1>c, <1>2, <2>1 DEF HasRowLocks
  <2>2. CASE x = t
    <3>1. wfc'[t].waitee = NoTrx /\ pc'[t] = l
      BY <1>c, <1>2
    <3> HIDE DEF F
    <3> QED BY <1>a, <2>0, <2>1, <2>2, <3>1 DEF KillOK
  <2>3. CASE x # t
    <3>1. wfc'[x].waitee = wfc[x].waitee /\ pc'[x] = pc[x]
      BY <1>c, <1>2, <2>3
    <3> HIDE DEF F
    <3> QED BY <1>a, <2>0, <2>1, <3>1 DEF KillOK
  <2> QED BY <2>2, <2>3
<1>11. \A d \in Domains : DomOK(d)'
  <2>1. \A x \in Trx : pc'[x] \in {"finwaking", "done"} <=> pc[x] \in {"finwaking", "done"}
    BY <1>c
  <2> QED BY <1>a, <2>1 DEF WaitInv, DomOK, TypeInv, DomType
<1> QED BY <1>3, <1>5, <1>6, <1>7, <1>8, <1>9, <1>10, <1>11 DEF WaitInv

\* A killed waiter leaves the list, or finds that it is being woken up.
LEMMA RemoveFromListKeeps ==
  ASSUME TypeInv, GroupInv, WaitInv, NEW t \in Trx, RemoveFromList(t)
  PROVE  TypeInv' /\ GroupInv' /\ WaitInv'
<1> DEFINE u == wfc[t].waitee
<1>a. /\ PhaseOK(t) /\ WaitOK(t) /\ ClearedOK(t) /\ KillOK(t) /\ LeaderOK(t) /\ wfc[t].unwait = "locked"
      /\ pc' = pc /\ rgi' = rgi /\ dom' = dom /\ UNCHANGED gcVars /\ ent' = ent /\ engine' = engine
  BY DEF RemoveFromList, RemoveSelf, WaitInv, GroupInv, gcVars
<1>b. pc[t] \in {"wait", "return"} /\ rgi[t].killed = "deadlock" /\ u # NoTrx /\ u \in Trx /\ u = Prior(t) /\ u \in Earlier(t)
  <2>1. pc[t] \in {"wait", "return"} /\ rgi[t].killed = "deadlock" /\ u # NoTrx /\ u \in Trx /\ u = Prior(t)
    BY <1>a DEF WaitOK, TypeInv, WfcType
  <2> QED BY <2>1, PriorLast
<1>1. CASE wfc' = [wfc EXCEPT ![t].unwait = "woken"]
  <2>1. /\ wfc' \in [Trx -> WfcType]
        /\ \A x \in Trx : wfc'[x].waitee = wfc[x].waitee /\ wfc'[x].subs = wfc[x].subs /\ wfc'[x].walk = wfc[x].walk
                     /\ wfc'[x].waking = wfc[x].waking /\ wfc'[x].started = wfc[x].started /\ wfc'[x].torn = wfc[x].torn
                     /\ wfc'[x].werr = wfc[x].werr /\ wfc'[x].ready = wfc[x].ready
        /\ \A x \in Trx \ {t} : wfc'[x] = wfc[x]
        /\ wfc'[t].unwait = "woken"
    BY <1>1 DEF TypeInv, WfcType
  <2>2. TypeInv'
    BY <1>a, <2>1 DEF TypeInv, gcVars, GCTypeOK
  <2>3. Moves(t)
    <3>1. \A x \in Trx \ {t} : rgi'[x].rowWait = t => pc'[t] \in HasRowLocks
      BY <1>a, TrxAssumption DEF WaitInv, KillOK
    <3> QED BY <1>a, <1>b, <2>1, <3>1 DEF Moves
  <2>4. PhaseOK(t)'
    BY <1>a, <2>1, <2>3, MovesThrough DEF PhaseOK
  <2>5. WaitOK(t)'
    BY <1>a, <1>b, <2>1 DEF WaitOK
  <2>6. ClearedOK(t)'
    BY <1>a, <2>1, <2>3, MovesThrough DEF ClearedOK
  <2>7. KillOK(t)'
    <3>1. /\ rgi[t].rowWait \in Trx \cup {NoTrx}
          /\ rgi[t].rowWait # NoTrx => wfc'[rgi[t].rowWait].started = wfc[rgi[t].rowWait].started
          /\ wfc'[t].waitee = wfc[t].waitee
          /\ wfc'[wfc[t].waitee].waking = wfc[wfc[t].waitee].waking
      BY <1>b, <2>1 DEF TypeInv, RgiType
    <3> QED BY <1>a, <3>1 DEF KillOK
  <2> QED BY <1>a, <2>2, <2>3, <2>4, <2>5, <2>6, <2>7, LocalKeeps
<1>2. CASE /\ ~wfc[u].waking /\ ~(pc[t] = "wait" /\ ent[t].qbo)
           /\ Leaves(t, u, "kill")
  <2>1. pc[t] # "return"
    <3> SUFFICES ASSUME pc[t] = "return" PROVE FALSE
      OBVIOUS
    <3>1. In(engine, t) /\ wfc[t].started /\ ~ent[t].qbo
      BY <1>a, <1>b DEF LeaderOK, PhaseOK, WaitOK
    <3>2. wfc[u].started
      BY <1>a, <1>b, <3>1 DEF WaitOK
    <3>3. In(engine, u)
      BY <1>b, <3>1, <3>2, EnginePrefix
    <3> QED BY <1>a, <1>b, <1>2, <3>1, <3>3 DEF KillOK
  <2>2. pc[t] = "wait" /\ ~ent[t].qbo /\ ~wfc[t].started
    BY <1>a, <1>b, <1>2, <2>1 DEF PhaseOK, InGroup, Ending
  <2>3. Goto(t, "wait") /\ "wait" \in Labels /\ "kill" \in WakeupErrors
    BY <1>a, <2>2 DEF Goto, TypeInv, Labels, PriorWaits, WakeupErrors
  <2> QED BY <1>a, <1>b, <1>2, <2>2, <2>3, LeaveKeeps
<1> QED BY <1>1, <1>2 DEF RemoveFromList, RemoveSelf, Leaves

\* unregister_wait_for_prior_commit() before a retry.
LEMMA RetryUnregisterKeeps ==
  ASSUME TypeInv, GroupInv, WaitInv, NEW t \in Trx, RetryUnregister(t)
  PROVE  TypeInv' /\ GroupInv' /\ WaitInv'
<1>a. /\ PhaseOK(t) /\ WaitOK(t) /\ ClearedOK(t) /\ KillOK(t) /\ pc[t] = "unregister"
      /\ rgi' = rgi /\ dom' = dom /\ UNCHANGED gcVars /\ ent' = ent /\ engine' = engine /\ Goto(t, "rollback")
      /\ pc'[t] = "rollback" /\ \A x \in Trx \ {t} : pc'[x] = pc[x]
  BY DEF RetryUnregister, WaitInv, gcVars, Goto, TypeInv
<1>b. ~wfc[t].started /\ ~ent[t].qbo /\ pc' \in [Trx -> Labels] /\ ~wfc[t].ready /\ wfc[t].unwait # "locked"
  BY <1>a DEF PhaseOK, InGroup, Ending, WaitOK, Goto, TypeInv, Labels
<1>1. CASE wfc[t].waitee = NoTrx
  <2>1. wfc' = [wfc EXCEPT ![t].werr = "ok", ![t].unwait = "no"]
    BY <1>1 DEF RetryUnregister, Unregister
  <2> DEFINE R == [wfc[t] EXCEPT !.werr = "ok", !.unwait = "no"]
  <2>2. wfc' = [wfc EXCEPT ![t] = R] /\ wfc[t] \in WfcType
    BY <2>1 DEF TypeInv
  <2>3. /\ R \in WfcType /\ R.waitee = wfc[t].waitee /\ R.subs = wfc[t].subs /\ R.walk = wfc[t].walk
        /\ R.waking = wfc[t].waking /\ R.started = wfc[t].started /\ R.torn = wfc[t].torn /\ R.werr = "ok" /\ R.ready = wfc[t].ready /\ R.unwait = "no"
    BY <2>2 DEF WfcType, WakeupErrors
  <2> HIDE DEF R
  <2>4. wfc' \in [Trx -> WfcType] /\ wfc'[t] = R /\ \A x \in Trx \ {t} : wfc'[x] = wfc[x]
    BY <2>2, <2>3, WfcUpdate
  <2>w. \A x \in Trx : /\ wfc'[x].waitee = wfc[x].waitee /\ wfc'[x].subs = wfc[x].subs /\ wfc'[x].walk = wfc[x].walk
                       /\ wfc'[x].waking = wfc[x].waking /\ wfc'[x].started = wfc[x].started /\ wfc'[x].torn = wfc[x].torn /\ wfc'[x].ready = wfc[x].ready
    BY <2>3, <2>4
  <2>5. TypeInv'
    BY <1>a, <1>b, <2>4 DEF TypeInv, gcVars, GCTypeOK
  <2>6. Moves(t)
    <3>1. \A x \in Trx \ {t} : rgi'[x].rowWait = t => pc'[t] \in HasRowLocks
      BY <1>a DEF HasRowLocks
    <3> QED BY <1>a, <2>w, <2>4, <3>1 DEF Moves
  <2>7. PhaseOK(t)'
    BY <1>a, <1>b, <2>w, <2>3, <2>4, <2>6, MovesThrough DEF PhaseOK, InGroup, Ending
  <2>8. WaitOK(t)'
    BY <1>a, <1>b, <1>1, <2>3, <2>4 DEF WaitOK
  <2>9. ClearedOK(t)'
    BY <1>a, <1>b, <2>w DEF ClearedOK
  <2>10. KillOK(t)'
    <3>1. rgi[t].rowWait # NoTrx => rgi[t].rowWait # t /\ rgi[t].rowWait \in Trx
      BY <1>a, TrxAssumption DEF KillOK, Earlier, TypeInv, RgiType
    <3> QED BY <1>a, <1>1, <2>w, <3>1 DEF KillOK
  <2> QED BY <1>a, <2>5, <2>6, <2>7, <2>8, <2>9, <2>10, LocalKeeps DEF InGroup
<1>2. CASE wfc[t].waitee # NoTrx
  <2>1. /\ ~wfc[wfc[t].waitee].waking
        /\ Leaves(t, wfc[t].waitee, "ok")
        /\ wfc[t].waitee \in Trx
    BY <1>2 DEF RetryUnregister, Unregister, TypeInv, WfcType, Leaves
  <2>2. "rollback" \in Labels /\ "ok" \in WakeupErrors
    BY DEF Labels, WakeupErrors
  <2> QED BY <1>a, <1>b, <1>2, <2>1, <2>2, LeaveKeeps
<1> QED BY <1>1, <1>2

\* c, which is through, wakes up one of its waiters.
LEMMA WakesKeeps ==
  ASSUME TypeInv, GroupInv, WaitInv, NEW c \in Trx, NEW e \in {"ok", "prior"}, WakesOne(c, e), Through(c),
         e = "prior" => ~wfc[c].started \/ ~Untorn(c), UNCHANGED <<pc, gcVars, rgi, dom>>
  PROVE  TypeInv' /\ GroupInv' /\ WaitInv'
<1>0. e \in WakeupErrors /\ c \notin wfc[c].walk /\ wfc[c].walk \in SUBSET Trx
  <2>1. wfc[c].walk \in SUBSET Trx /\ ListOK(c)
    BY DEF TypeInv, WfcType, WaitInv
  <2>2. c \in wfc[c].walk => c = Prior(c)
    BY <2>1 DEF ListOK, ListedOK
  <2> QED BY <2>1, <2>2, PriorLast, TrxAssumption DEF Earlier, WakeupErrors
<1>1. PICK t \in wfc[c].walk, g \in WakeupErrors, T \in SUBSET Trx :
        Woke(c, t, g, T) /\ (FirstStore(t, g, T) \/ SecondStore(t, g, T, e))
  BY <1>0, WokenFacts
<1>a. /\ t \in Trx /\ ListedOK(c, t) /\ ~ent[t].qbo /\ wfc[t].unwait # "locked"
      /\ ent' = ent /\ engine' = engine /\ pc' = pc /\ rgi' = rgi /\ dom' = dom /\ UNCHANGED gcVars
      /\ wfc[t].waitee \in {c, NoTrx}
  <2>1. t \in Trx /\ ListedOK(c, t) /\ WaitOK(t)
    BY <1>0, <1>1 DEF WaitInv, ListOK
  <2>2. wfc[t].unwait # "locked"
    BY <1>1, <2>1 DEF FirstStore, SecondStore, Holding, WaitOK
  <2> QED BY <1>1, <2>1, <2>2 DEF ListedOK, gcVars
<1>b. PhaseOK(t) /\ WaitOK(t) /\ KillOK(t) /\ c = Prior(t) /\ c # t /\ c # NoTrx
  BY <1>0, <1>1, <1>a, TrxAssumption DEF WaitInv, ListedOK
<1>c. t \in Trx /\ t # c /\ c \in Earlier(t)
  BY <1>a, <1>b, PriorLast
<1>e. T \subseteq {t} /\ ((g = wfc[t].werr /\ g # "kill") \/ g = e)
  BY <1>1, <1>b DEF FirstStore, SecondStore, WaitOK
<1> DEFINE F == Woke(c, t, g, T)
<1>2. F
  BY <1>1
<1> USE DEF Woke
<1>3. TypeInv'
  BY <1>a, <1>2 DEF TypeInv, gcVars, GCTypeOK
<1>4. \A x \in Trx : Through(x)' <=> Through(x)
  BY <1>a, <1>2 DEF Through
<1>5. GroupInv'
  <2>1. Outside
    BY <1>a, <1>2 DEF Outside
  <2> QED BY <2>1, OutsideKeeps
<1>6. ASSUME NEW x \in Trx PROVE PhaseOK(x)'
  <2>0. Untorn(x)' <=> Untorn(x)
    BY <1>2, TornSame
  <2>1. PhaseOK(x) BY DEF WaitInv
  <2>2. CASE x = t
    <3>1. wfc'[t].started = wfc[t].started /\ wfc'[t].torn = wfc[t].torn /\ wfc'[t].werr = g
      BY <1>2, <1>c
    <3>2. wfc[t].started /\ Untorn(t) => wfc[c].started /\ Untorn(c)
      <4>1. wfc[t].started => wfc[t].torn \/ wfc[c].started
        BY <1>1, <1>a DEF ListedOK
      <4>2. Untorn(t) => ~wfc[t].torn /\ \A v \in Earlier(c) \cup {c} : ~wfc[v].torn
        BY <1>b, <1>c, PriorLast DEF Untorn
      <4> QED BY <4>1, <4>2 DEF Untorn
    <3>3. wfc[t].started /\ Untorn(t) => g = "ok"
      BY <1>b, <1>e, <3>2 DEF PhaseOK
    <3>4. g # "kill"
      BY <1>e
    <3> HIDE DEF F
    <3> QED BY <1>a, <1>b, <2>0, <2>2, <3>1, <3>3, <3>4 DEF PhaseOK
  <2>3. CASE x # t
    <3>1. wfc'[x].started = wfc[x].started /\ wfc'[x].torn = wfc[x].torn /\ wfc'[x].werr = wfc[x].werr
      BY <1>2, <2>3
    <3> HIDE DEF F
    <3> QED BY <1>a, <2>0, <2>1, <3>1 DEF PhaseOK
  <2> QED BY <2>2, <2>3
<1>7. ASSUME NEW x \in Trx PROVE ListOK(x)'
  <2>1. ListOK(x) /\ wfc[x].subs \subseteq Trx /\ wfc[x].walk \subseteq Trx
    BY DEF WaitInv, TypeInv, WfcType
  <2>0. /\ wfc'[x].subs = wfc[x].subs
        /\ wfc'[x].walk = IF x = c THEN wfc[x].walk \ T ELSE wfc[x].walk
        /\ wfc'[x].waking = wfc[x].waking /\ wfc'[x].started = wfc[x].started
    BY <1>2
  <2>4. x = c => wfc[x].waking /\ wfc[x].subs = {}
    BY <1>1, <2>1 DEF ListOK
  <2>2. ASSUME NEW y \in wfc'[x].subs \cup wfc'[x].walk PROVE ListedOK(x, y)'
    <3>1. (y \in wfc'[x].subs => y \in wfc[x].subs) /\ (y \in wfc'[x].walk => y \in wfc[x].walk)
      <4> HIDE DEF F
      <4> QED BY <2>0
    <3>2. y \in Trx /\ ListedOK(x, y)
      BY <2>1, <3>1 DEF ListOK
    <3>3. /\ wfc'[y].started = wfc[y].started /\ wfc'[y].torn = wfc[y].torn
          /\ wfc'[y].waitee = IF y = t THEN NoTrx ELSE wfc[y].waitee
      BY <1>2, <3>2
    <3>4. y = t => x = c /\ y \notin wfc'[x].subs
      BY <1>b, <2>0, <2>4, <3>2 DEF ListedOK
    <3> HIDE DEF F
    <3> QED BY <1>a, <2>0, <3>1, <3>2, <3>3, <3>4 DEF ListedOK
  <2>3. (~wfc'[x].waking => wfc'[x].walk = {}) /\ (wfc'[x].waking => wfc'[x].subs = {} /\ Through(x)')
    <3>1. Through(x)' <=> Through(x) BY <1>4
    <3> HIDE DEF F
    <3> QED BY <2>0, <2>1, <2>4, <3>1 DEF ListOK
  <2> QED BY <2>2, <2>3 DEF ListOK
<1>8. ASSUME NEW x \in Trx PROVE WaitOK(x)'
  <2>1. WaitOK(x) /\ wfc[x].waitee \in Trx \cup {NoTrx}
    BY DEF WaitInv, TypeInv, WfcType
  <2>2. CASE x = t
    <3>1. /\ wfc'[t].waitee = NoTrx /\ wfc'[t].werr = g /\ g # "kill" /\ wfc'[t].unwait = wfc[t].unwait
          /\ wfc'[t].ready = wfc[t].ready
      BY <1>2, <1>c, <1>e
    <3> HIDE DEF F
    <3> QED BY <1>a, <1>b, <2>2, <3>1 DEF WaitOK
  <2>3. CASE x # t
    <3>1. wfc[x].waitee # NoTrx =>
            LET d == wfc[x].waitee IN
            wfc'[d].started = wfc[d].started /\ wfc[d].walk \ {t} \subseteq wfc'[d].walk /\ wfc'[d].subs = wfc[d].subs
      <4> SUFFICES ASSUME NEW d \in Trx
          PROVE wfc'[d].started = wfc[d].started /\ wfc[d].walk \ {t} \subseteq wfc'[d].walk /\ wfc'[d].subs = wfc[d].subs
        BY <2>1
      <4>1. /\ wfc'[d].started = wfc[d].started /\ wfc'[d].subs = wfc[d].subs
            /\ wfc'[d].walk = IF d = c THEN wfc[d].walk \ T ELSE wfc[d].walk
        BY <1>2
      <4> HIDE DEF F
      <4> QED BY <1>e, <4>1
    <3>2. /\ wfc'[x].waitee = wfc[x].waitee /\ wfc'[x].werr = wfc[x].werr /\ wfc'[x].unwait = wfc[x].unwait
          /\ wfc'[x].ready = wfc[x].ready /\ wfc'[x].started = wfc[x].started /\ wfc'[x].torn = wfc[x].torn
      BY <1>2, <2>3
    <3> HIDE DEF F
    <3> QED BY <1>a, <2>1, <2>3, <3>1, <3>2 DEF WaitOK
  <2> QED BY <2>2, <2>3
<1>9. ASSUME NEW x \in Trx PROVE ClearedOK(x)'
  <2>1. ClearedOK(x) /\ (AllThrough(x)' <=> AllThrough(x))
    BY <1>4 DEF WaitInv, AllThrough, Earlier
  <2>2. CASE x = t
    <3>1. AllThrough(t)
      BY <1>b, <1>c, PriorThrough
    <3> QED BY <2>1, <2>2, <3>1 DEF ClearedOK
  <2>3. CASE x # t
    <3>1. wfc'[x].waitee = wfc[x].waitee /\ wfc'[x].werr = wfc[x].werr /\ wfc'[x].started = wfc[x].started /\ wfc'[x].torn = wfc[x].torn
      BY <1>2, <2>3
    <3> HIDE DEF F
    <3> QED BY <1>a, <2>1, <3>1 DEF ClearedOK
  <2> QED BY <2>2, <2>3
<1>10. ASSUME NEW x \in Trx PROVE KillOK(x)'
  <2>1. KillOK(x) /\ wfc[x].waitee \in Trx \cup {NoTrx} /\ rgi[x].rowWait \in Trx \cup {NoTrx}
    BY DEF WaitInv, TypeInv, WfcType, RgiType
  <2>0. /\ wfc[x].waitee # NoTrx => wfc'[wfc[x].waitee].waking = wfc[wfc[x].waitee].waking
        /\ rgi[x].rowWait # NoTrx => wfc'[rgi[x].rowWait].started = wfc[rgi[x].rowWait].started
    BY <1>2, <2>1
  <2>2. CASE x = t
    <3>1. wfc'[t].waitee = NoTrx
      BY <1>2
    <3> HIDE DEF F
    <3> QED BY <1>a, <2>0, <2>1, <2>2, <3>1 DEF KillOK
  <2>3. CASE x # t
    <3>1. wfc'[x].waitee = wfc[x].waitee
      BY <1>2, <2>3
    <3> HIDE DEF F
    <3> QED BY <1>a, <2>0, <2>1, <3>1 DEF KillOK
  <2> QED BY <2>2, <2>3
<1>11. \A d \in Domains : DomOK(d)'
  BY <1>a DEF WaitInv, DomOK
<1> QED BY <1>3, <1>5, <1>6, <1>7, <1>8, <1>9, <1>10, <1>11 DEF WaitInv

\* c has woken up all its waiters.
LEMMA OverKeeps ==
  ASSUME TypeInv, WaitInv, NEW c \in Trx, WakingOver(c), NEW t \in Trx, NEW l \in Labels, Goto(t, l),
         UNCHANGED <<gcVars, rgi, dom>>,
         \/ pc[t] = "finwaking" /\ l = "done"
         \/ pc[t] = "waking" /\ l = "signal"
  PROVE  TypeInv' /\ WaitInv' /\ pc'[t] = l /\ \A x \in Trx \ {t} : pc'[x] = pc[x]
<1>a. /\ ent' = ent /\ engine' = engine /\ rgi' = rgi /\ dom' = dom /\ UNCHANGED gcVars /\ wfc[c].walk = {}
      /\ pc' \in [Trx -> Labels] /\ pc'[t] = l /\ \A x \in Trx \ {t} : pc'[x] = pc[x]
  BY DEF gcVars, Goto, TypeInv, WakingOver
<1> DEFINE F ==
         /\ wfc' \in [Trx -> WfcType]
         /\ \A y \in Trx :
              /\ wfc'[y].waitee = wfc[y].waitee /\ wfc'[y].ready = wfc[y].ready /\ wfc'[y].werr = wfc[y].werr
              /\ wfc'[y].started = wfc[y].started /\ wfc'[y].torn = wfc[y].torn /\ wfc'[y].unwait = wfc[y].unwait
              /\ wfc'[y].subs = wfc[y].subs /\ wfc'[y].walk = wfc[y].walk
         /\ \A y \in Trx \ {c} : wfc'[y].waking = wfc[y].waking
         /\ ~wfc'[c].waking
<1>2. F
  BY OverFacts
<1>3. TypeInv'
  BY <1>a, <1>2 DEF TypeInv, gcVars, GCTypeOK
<1>4. \A x \in Trx : Through(x)' <=> Through(x)
  BY <1>a, <1>2 DEF Through
<1>6. ASSUME NEW x \in Trx PROVE PhaseOK(x)'
  <2>0. Untorn(x)' <=> Untorn(x)
    BY <1>2, TornSame
  <2>1. PhaseOK(x) BY DEF WaitInv
  <2>2. CASE x = t
    BY <1>a, <1>2, <2>0, <2>1, <2>2 DEF PhaseOK, InGroup, Ending
  <2>3. CASE x # t
    BY <1>a, <1>2, <2>0, <2>1, <2>3 DEF PhaseOK
  <2> QED BY <2>2, <2>3
<1>7. ASSUME NEW x \in Trx PROVE ListOK(x)'
  <2>1. ListOK(x) /\ wfc[x].subs \subseteq Trx /\ wfc[x].walk \subseteq Trx
    BY DEF WaitInv, TypeInv, WfcType
  <2>2. ASSUME NEW y \in wfc'[x].subs \cup wfc'[x].walk PROVE ListedOK(x, y)'
    <3>1. y \in Trx /\ ListedOK(x, y)
      BY <1>2, <2>1 DEF ListOK
    <3> QED BY <1>a, <1>2, <3>1 DEF ListedOK
  <2>3. (~wfc'[x].waking => wfc'[x].walk = {}) /\ (wfc'[x].waking => wfc'[x].subs = {} /\ Through(x)')
    BY <1>a, <1>2, <1>4, <2>1 DEF ListOK
  <2> QED BY <2>2, <2>3 DEF ListOK
<1>8. ASSUME NEW x \in Trx PROVE WaitOK(x)'
  <2>1. WaitOK(x) /\ wfc[x].waitee \in Trx \cup {NoTrx}
    BY DEF WaitInv, TypeInv, WfcType
  <2>2. CASE x = t
    BY <1>a, <1>2, <2>1, <2>2 DEF WaitOK
  <2>3. CASE x # t
    BY <1>a, <1>2, <2>1, <2>3 DEF WaitOK
  <2> QED BY <2>2, <2>3
<1>9. ASSUME NEW x \in Trx PROVE ClearedOK(x)'
  <2>1. ClearedOK(x) /\ (AllThrough(x)' <=> AllThrough(x))
    BY <1>4 DEF WaitInv, AllThrough, Earlier
  <2> QED BY <1>a, <1>2, <2>1 DEF ClearedOK
<1>10. ASSUME NEW x \in Trx PROVE KillOK(x)'
  <2>1. KillOK(x) /\ wfc[x].waitee \in Trx \cup {NoTrx} /\ rgi[x].rowWait \in Trx \cup {NoTrx}
        /\ rgi[x].rowWait # t
    BY NoRowWaiter DEF WaitInv, TypeInv, WfcType, RgiType, HasRowLocks
  <2>2. wfc[x].waitee # NoTrx /\ ~ent[x].qbo => wfc'[wfc[x].waitee].waking = wfc[wfc[x].waitee].waking
    <3> SUFFICES ASSUME wfc[x].waitee # NoTrx, ~ent[x].qbo, wfc[x].waitee = c, wfc[c].waking
                 PROVE FALSE
      BY <1>2, <2>1 DEF TypeInv, WfcType
    <3>1. x \in wfc[c].subs \cup wfc[c].walk
      BY DEF WaitInv, WaitOK
    <3>2. wfc[c].subs = {}
      BY DEF WaitInv, ListOK
    <3> QED BY <1>a, <3>1, <3>2
  <2>3. /\ rgi[x].rowWait # NoTrx => /\ wfc'[rgi[x].rowWait].started = wfc[rgi[x].rowWait].started
                                     /\ pc'[rgi[x].rowWait] = pc[rgi[x].rowWait]
        /\ wfc'[x].waitee = wfc[x].waitee
        /\ x # t => pc'[x] = pc[x]
    BY <1>a, <1>2, <2>1
  <2> HIDE DEF F
  <2>4. CASE x = t
    BY <1>a, <2>1, <2>2, <2>3, <2>4 DEF KillOK
  <2>5. CASE x # t
    BY <1>a, <2>1, <2>2, <2>3, <2>5 DEF KillOK
  <2> QED BY <2>4, <2>5
<1>11. \A d \in Domains : DomOK(d)'
  <2>1. \A x \in Trx : pc'[x] \in {"finwaking", "done"} <=> pc[x] \in {"finwaking", "done"}
    BY <1>a
  <2> QED BY <1>a, <2>1 DEF WaitInv, DomOK, TypeInv, DomType
<1> QED BY <1>a, <1>3, <1>6, <1>7, <1>8, <1>9, <1>10, <1>11 DEF WaitInv

\* finish_event_group() wakes up the waiters, one by one.
LEMMA FinishWakeKeeps ==
  ASSUME TypeInv, GroupInv, WaitInv, NEW t \in Trx, FinishWakeOne(t) \/ FinishEnd(t)
  PROVE  TypeInv' /\ GroupInv' /\ WaitInv'
<1>1. CASE FinishWakeOne(t)
  <2> DEFINE e == IF rgi[t].failed THEN "prior" ELSE "ok"
  <2>1. WakesOne(t, e) /\ UNCHANGED <<pc, gcVars, rgi, dom>> /\ pc[t] = "finwaking"
    BY <1>1 DEF FinishWakeOne
  <2>2. e \in {"ok", "prior"} /\ (e = "prior" => rgi[t].failed)
    OBVIOUS
  <2> HIDE DEF e
  <2>3. e = "prior" => ~wfc[t].started \/ ~Untorn(t)
    BY <2>2 DEF WaitInv, PhaseOK
  <2>4. Through(t)
    BY <2>1 DEF Through
  <2> QED BY <2>1, <2>2, <2>3, <2>4, WakesKeeps
<1>2. CASE FinishEnd(t)
  <2>1. WakingOver(t) /\ Goto(t, "done") /\ UNCHANGED <<gcVars, rgi, dom>> /\ pc[t] = "finwaking" /\ "done" \in Labels
    BY <1>2 DEF FinishEnd, Labels
  <2>2. TypeInv' /\ WaitInv' /\ pc'[t] = "done" /\ \A x \in Trx \ {t} : pc'[x] = pc[x]
    BY <2>1, OverKeeps
  <2>3. \A x \in Trx : wfc'[x].started = wfc[x].started /\ wfc'[x].torn = wfc[x].torn /\ wfc'[x].waitee = wfc[x].waitee
    BY <2>1, OverFacts
  <2>4. Outside
    BY <2>1, <2>2, <2>3 DEF Outside, InGroup
  <2> QED BY <2>2, <2>4, OutsideKeeps
<1> QED BY <1>1, <1>2

\* c takes its list to wake up who is in it.
LEMMA TakenLists ==
  ASSUME TypeInv, WaitInv, NEW c \in Trx, wfc' = ListTaken(wfc, c), \A x \in Trx : ent'[x].qbo = ent[x].qbo,
         \A x \in Trx : Through(x) => Through(x)', Through(c)'
  PROVE  /\ \A x \in Trx : ListOK(x)'
         /\ \A x \in Trx : wfc'[x].subs \cup wfc'[x].walk = wfc[x].subs \cup wfc[x].walk
         /\ \A x \in Trx : wfc[x].waking => wfc'[x].waking
         /\ wfc[c].subs \cup wfc[c].walk # {} => wfc'[c].waking
<1> DEFINE F ==
         /\ wfc' \in [Trx -> WfcType]
         /\ \A y \in Trx :
              /\ wfc'[y].waitee = wfc[y].waitee /\ wfc'[y].ready = wfc[y].ready /\ wfc'[y].werr = wfc[y].werr
              /\ wfc'[y].started = wfc[y].started /\ wfc'[y].torn = wfc[y].torn /\ wfc'[y].unwait = wfc[y].unwait
         /\ \A y \in Trx \ {c} : wfc'[y].subs = wfc[y].subs /\ wfc'[y].walk = wfc[y].walk /\ wfc'[y].waking = wfc[y].waking
         /\ wfc[c].subs = {} => wfc' = wfc
         /\ wfc[c].subs # {} => wfc'[c].waking /\ wfc'[c].walk = wfc[c].subs /\ wfc'[c].subs = {}
<1>1. F
  BY TakenFacts
<1>2. \A x \in Trx : ListOK(x)
  BY DEF WaitInv
<1>3. ASSUME NEW x \in Trx
      PROVE  /\ wfc'[x].subs \cup wfc'[x].walk = wfc[x].subs \cup wfc[x].walk
             /\ wfc[x].waking => wfc'[x].waking
             /\ ~wfc'[x].waking => wfc'[x].walk = {}
             /\ wfc'[x].waking => wfc'[x].subs = {} /\ Through(x)'
             /\ x = c /\ wfc[c].subs \cup wfc[c].walk # {} => wfc'[c].waking
  <2>1. CASE x # c
    BY <1>1, <1>2, <2>1 DEF ListOK
  <2>2. CASE x = c /\ wfc[c].subs = {}
    BY <1>1, <1>2, <2>2 DEF ListOK
  <2>3. CASE x = c /\ wfc[c].subs # {}
    <3>1. ~wfc[c].waking /\ wfc[c].walk = {}
      BY <1>2, <2>3 DEF ListOK
    <3> QED BY <1>1, <2>3, <3>1
  <2> QED BY <2>1, <2>2, <2>3
<1>4. ASSUME NEW x \in Trx, NEW y \in wfc'[x].subs \cup wfc'[x].walk PROVE ListedOK(x, y)'
  <2>1. y \in wfc[x].subs \cup wfc[x].walk
    BY <1>3
  <2>2. y \in Trx /\ ListedOK(x, y) /\ WaitOK(y)
    BY <1>2, <2>1 DEF ListOK, TypeInv, WfcType, WaitInv
  <2>3. /\ wfc'[y].waitee = wfc[y].waitee /\ wfc'[y].started = wfc[y].started /\ wfc'[y].torn = wfc[y].torn
        /\ wfc'[x].started = wfc[x].started /\ ent'[y].qbo = ent[y].qbo
    BY <1>1, <2>2
  <2>4. CASE x # c \/ wfc[c].subs = {}
    <3>1. wfc'[x].subs = wfc[x].subs /\ wfc'[x].walk = wfc[x].walk
      BY <1>1, <2>4
    <3> QED BY <2>2, <2>3, <3>1 DEF ListedOK
  <2>5. CASE x = c /\ wfc[c].subs # {}
    <3>1. wfc'[x].subs = {} /\ wfc'[x].walk = wfc[x].subs /\ y \in wfc[x].subs
      BY <1>1, <2>5
    <3>2. wfc[y].waitee = x /\ wfc[y].waitee # NoTrx
      BY <2>2, <3>1, TrxAssumption DEF ListedOK
    <3>3. wfc[y].started => wfc[x].started
      BY <2>2, <3>2 DEF WaitOK
    <3> QED BY <2>2, <2>3, <3>1, <3>2, <3>3 DEF ListedOK
  <2> QED BY <2>4, <2>5
<1> HIDE DEF F
<1>5. \A x \in Trx : ListOK(x)'
  BY <1>3, <1>4 DEF ListOK
<1> QED BY <1>3, <1>5

\* finish_event_group() says that the group is through.
LEMMA FinishKeeps ==
  ASSUME TypeInv, GroupInv, WaitInv, NEW t \in Trx, Finish(t)
  PROVE  TypeInv' /\ GroupInv' /\ WaitInv'
<1> DEFINE l == IF wfc[t].subs = {} THEN "done" ELSE "finwaking"
<1> DEFINE d == Domain[t]
<1>a. /\ PhaseOK(t) /\ WaitOK(t) /\ ClearedOK(t) /\ KillOK(t) /\ pc[t] = "finish" /\ Goto(t, l)
      /\ wfc' = ListTaken(wfc, t) /\ UNCHANGED gcVars /\ ent' = ent /\ engine' = engine
  BY DEF Finish, WaitInv, gcVars
<1>l. l \in {"done", "finwaking"}
  OBVIOUS
<1> HIDE DEF l
<1>c. pc' \in [Trx -> Labels] /\ pc'[t] = l /\ \A x \in Trx \ {t} : pc'[x] = pc[x]
  BY <1>a, <1>l DEF Goto, TypeInv, Labels
<1>r. /\ rgi' \in [Trx -> RgiType] /\ \A x \in Trx \ {t} : rgi'[x] = rgi[x]
      /\ rgi'[t].result = rgi[t].result /\ rgi'[t].killed = "no" /\ rgi'[t].rowWait = rgi[t].rowWait
      /\ rgi'[t].failed = rgi[t].failed
  <2>1. rgi' = [rgi EXCEPT ![t].marked = TRUE, ![t].killed = "no"]
    BY DEF Finish
  <2> DEFINE R == [rgi[t] EXCEPT !.marked = TRUE, !.killed = "no"]
  <2>2. rgi' = [rgi EXCEPT ![t] = R] /\ rgi[t] \in RgiType /\ rgi \in [Trx -> RgiType]
    BY <2>1 DEF TypeInv
  <2>3. R \in RgiType /\ R.result = rgi[t].result /\ R.killed = "no" /\ R.rowWait = rgi[t].rowWait /\ R.failed = rgi[t].failed
    BY <2>2 DEF RgiType
  <2> HIDE DEF R
  <2> QED BY <2>2, <2>3
<1>d. /\ dom' \in [Domains -> DomType] /\ d \in Domains
      /\ \A x \in Domains \ {d} : dom'[x] = dom[x]
      /\ dom'[d].last = IF dom[d].last < t THEN t ELSE dom[d].last
  <2> DEFINE R == [dom[d] EXCEPT !.count = @ + (IF rgi[t].marked THEN 0 ELSE 1),
                     !.last = IF @ < t THEN t ELSE @,
                     !.stopErr = IF rgi[t].failed /\ @ = 0 THEN t ELSE @]
  <2>1. d \in Domains /\ dom \in [Domains -> DomType] /\ dom[d] \in DomType
    BY DEF Domains, TypeInv
  <2>2. dom' = [dom EXCEPT ![d] = R]
    BY <2>1 DEF Finish
  <2> DEFINE a == IF rgi[t].marked THEN 0 ELSE 1
  <2> DEFINE b == IF dom[d].last < t THEN t ELSE dom[d].last
  <2> DEFINE e == IF rgi[t].failed /\ dom[d].stopErr = 0 THEN t ELSE dom[d].stopErr
  <2>3. R \in DomType /\ R.last = b
    <3> DEFINE n == dom[d].count + a
    <3>1. n \in Int /\ b \in Trx \cup {0} /\ e \in Trx \cup {0}
      BY <2>1 DEF DomType
    <3>2. R = [dom[d] EXCEPT !.count = n, !.last = b, !.stopErr = e]
      BY <2>1 DEF DomType
    <3> DEFINE D == dom[d]
    <3> HIDE DEF n, b, e, R
    <3>3. D \in DomType BY <2>1
    <3> HIDE DEF D
    <3>4. [D EXCEPT !.count = n, !.last = b, !.stopErr = e] \in DomType
          /\ [D EXCEPT !.count = n, !.last = b, !.stopErr = e].last = b
      BY <3>1, <3>3 DEF DomType
    <3> QED BY <3>2, <3>4 DEF D
  <2> HIDE DEF R, d
  <2> QED BY <2>1, <2>2, <2>3
<1> HIDE DEF d
<1>w. /\ wfc' \in [Trx -> WfcType]
      /\ \A y \in Trx :
              /\ wfc'[y].waitee = wfc[y].waitee /\ wfc'[y].ready = wfc[y].ready /\ wfc'[y].werr = wfc[y].werr
              /\ wfc'[y].started = wfc[y].started /\ wfc'[y].torn = wfc[y].torn /\ wfc'[y].unwait = wfc[y].unwait
  BY <1>a, TakenFacts
<1>1. /\ wfc[t].waitee = NoTrx /\ wfc[t].werr # "kill" /\ rgi[t].rowWait = NoTrx /\ wfc[t].unwait # "locked"
      /\ ~wfc[t].ready /\ AllThrough(t)
  BY <1>a DEF WaitOK, KillOK, ClearedOK
<1>2. TypeInv'
  BY <1>a, <1>c, <1>r, <1>d, <1>w DEF TypeInv, gcVars, GCTypeOK
<1>3. (\A x \in Trx : Through(x) => Through(x)') /\ Through(t)'
  BY <1>l, <1>c, <1>w DEF Through
<1>4. /\ \A x \in Trx : ListOK(x)'
      /\ \A x \in Trx : wfc'[x].subs \cup wfc'[x].walk = wfc[x].subs \cup wfc[x].walk
      /\ \A x \in Trx : wfc[x].waking => wfc'[x].waking
  BY <1>a, <1>3, TakenLists
<1>5. GroupInv'
  <2>1. Outside
    BY <1>a, <1>l, <1>c, <1>w DEF Outside, InGroup
  <2> QED BY <2>1, OutsideKeeps
<1>6. ASSUME NEW x \in Trx PROVE PhaseOK(x)'
  <2>1. PhaseOK(x) /\ (Untorn(x)' <=> Untorn(x))
    BY <1>w, TornSame DEF WaitInv
  <2>2. CASE x = t
    BY <2>1, <1>a, <1>l, <1>c, <1>r, <1>w, <2>2 DEF PhaseOK, InGroup, Ending
  <2>3. CASE x # t
    BY <1>a, <1>c, <1>r, <1>w, <2>1, <2>3 DEF PhaseOK
  <2> QED BY <2>2, <2>3
<1>8. ASSUME NEW x \in Trx PROVE WaitOK(x)'
  <2>1. WaitOK(x) /\ wfc[x].waitee \in Trx \cup {NoTrx}
    BY DEF WaitInv, TypeInv, WfcType
  <2>2. CASE x = t
    BY <1>a, <1>l, <1>c, <1>1, <1>w, <2>2 DEF WaitOK
  <2>3. CASE x # t
    <3>1. wfc[x].waitee # NoTrx =>
            LET c == wfc[x].waitee IN
            wfc'[c].started = wfc[c].started /\ wfc[c].subs \cup wfc[c].walk = wfc'[c].subs \cup wfc'[c].walk
      BY <1>w, <1>4, <2>1
    <3>2. /\ wfc'[x].waitee = wfc[x].waitee /\ wfc'[x].werr = wfc[x].werr /\ wfc'[x].unwait = wfc[x].unwait
          /\ wfc'[x].ready = wfc[x].ready /\ wfc'[x].started = wfc[x].started /\ wfc'[x].torn = wfc[x].torn /\ pc'[x] = pc[x] /\ rgi'[x] = rgi[x]
      BY <1>c, <1>r, <1>w, <2>3
    <3> QED BY <1>a, <2>1, <3>1, <3>2 DEF WaitOK
  <2> QED BY <2>2, <2>3
<1>9. ASSUME NEW x \in Trx PROVE ClearedOK(x)'
  <2>1. ClearedOK(x) /\ (AllThrough(x) => AllThrough(x)')
    BY <1>3 DEF WaitInv, AllThrough, Earlier
  <2>2. CASE x = t
    BY <1>1, <2>1, <2>2 DEF ClearedOK
  <2>3. CASE x # t
    BY <1>c, <1>w, <2>1, <2>3 DEF ClearedOK
  <2> QED BY <2>2, <2>3
<1>10. ASSUME NEW x \in Trx PROVE KillOK(x)'
  <2>1. KillOK(x) /\ wfc[x].waitee \in Trx \cup {NoTrx} /\ rgi[x].rowWait \in Trx \cup {NoTrx} /\ rgi[x].rowWait # t
    BY <1>a, NoRowWaiter DEF WaitInv, TypeInv, WfcType, RgiType, HasRowLocks
  <2>2. CASE x = t
    BY <1>a, <1>1, <1>r, <2>2 DEF KillOK
  <2>3. CASE x # t
    <3>1. /\ wfc[x].waitee # NoTrx => (wfc[wfc[x].waitee].waking => wfc'[wfc[x].waitee].waking)
          /\ rgi[x].rowWait # NoTrx => /\ wfc'[rgi[x].rowWait].started = wfc[rgi[x].rowWait].started
                                       /\ pc'[rgi[x].rowWait] = pc[rgi[x].rowWait]
          /\ wfc'[x].waitee = wfc[x].waitee /\ pc'[x] = pc[x] /\ rgi'[x] = rgi[x]
      BY <1>c, <1>r, <1>w, <1>4, <2>1, <2>3
    <3> QED BY <1>a, <2>1, <3>1 DEF KillOK
  <2> QED BY <2>2, <2>3
<1>11. ASSUME NEW x \in Domains PROVE DomOK(x)'
  <2>1. DomOK(x) /\ dom[x].last \in Trx \cup {0}
    BY DEF WaitInv, TypeInv, DomType
  <2>2. \A y \in Trx : pc'[y] \in {"finwaking", "done"} <=> pc[y] \in {"finwaking", "done"} \/ y = t
    BY <1>l, <1>c
  <2>3. CASE x # d
    <3>1. dom'[x] = dom[x] /\ Domain[t] # x
      BY <1>d, <2>3 DEF d
    <3> QED BY <2>1, <2>2, <3>1 DEF DomOK
  <2>4. CASE x = d
    <3>0. Domain[t] = x /\ t \in Nat /\ t # 0 /\ dom[x].last \in Nat
      BY <2>1, <2>4, TrxAssumption DEF d
    <3>1. dom'[x].last = IF dom[x].last < t THEN t ELSE dom[x].last
      BY <1>d, <2>4
    <3>2. dom'[x].last # 0 => Domain[dom'[x].last] = x /\ pc'[dom'[x].last] \in {"finwaking", "done"}
      BY <2>1, <2>2, <3>0, <3>1 DEF DomOK
    <3>3. ASSUME NEW y \in Trx, Domain[y] = x, pc'[y] \in {"finwaking", "done"} PROVE y <= dom'[x].last
      <4>1. y \in Nat /\ (y = t \/ y <= dom[x].last)
        BY <2>1, <2>2, <3>3, TrxAssumption DEF DomOK
      <4> QED BY <3>0, <3>1, <4>1
    <3> QED BY <3>2, <3>3 DEF DomOK
  <2> QED BY <2>3, <2>4
<1> QED BY <1>2, <1>4, <1>5, <1>6, <1>8, <1>9, <1>10, <1>11 DEF WaitInv

\* The leader has the transaction it commits at the head of its list, and it is started.
LEMMA HeadStarted ==
  ASSUME TypeInv, GroupInv, NEW t \in Trx, pc[t] \in {"loop", "waking", "signal"}
  PROVE  LET c == Head(ent[t].rest) IN
         /\ lk["commit"] = t /\ ent[t].rest \in Seq(Trx) /\ ent[t].rest # <<>>
         /\ c \in Trx /\ wfc[c].started
         /\ Tail(ent[t].rest) \in Seq(Trx) /\ ent[t].rest = <<c>> \o Tail(ent[t].rest)
<1> DEFINE r == ent[t].rest
<1> DEFINE c == Head(r)
<1>1. lk["commit"] = t /\ r \in Seq(Trx) /\ r # <<>>
  BY DEF GroupInv, LockOK, LeaderOK, TypeInv, GCTypeOK, Entries
<1>2. c \in Trx /\ Tail(r) \in Seq(Trx) /\ r = <<c>> \o Tail(r) /\ In(r, c)
  <2> HIDE DEF r
  <2> QED BY <1>1 DEF In
<1>3. wfc[c].started
  <2>1. CASE pc[t] = "loop"
    <3>1. Committing = r
      BY <1>1, <2>1, TrxAssumption DEF Committing
    <3>2. In(binlog, c)
      <4>1. binlog = engine \o (r \o (Synced \o Written))
        BY <3>1 DEF GroupInv, LogOK
      <4>2. Synced \o Written \in Seq(Trx)
        BY StageTypes, InConcat
      <4> DEFINE D == Synced \o Written
      <4> HIDE DEF D, r, c
      <4>3. r \o D \in Seq(Trx) /\ In(r \o D, c)
        BY <1>1, <1>2, <4>2, InConcat DEF D
      <4> DEFINE E == r \o D
      <4>4. engine \in Seq(Trx) /\ E \in Seq(Trx) /\ In(E, c) /\ binlog = engine \o E
        BY <4>1, <4>3, StageTypes DEF D
      <4> HIDE DEF E
      <4> QED BY <4>4, InConcat
    <3> QED BY <3>2, EngineStarted
  <2>2. CASE pc[t] # "loop"
    <3>1. In(engine, c)
      BY <2>2 DEF GroupInv, LeaderOK
    <3> QED BY <3>1, EngineStarted
  <2> QED BY <2>1, <2>2
<1> QED BY <1>1, <1>2, <1>3

\* The leader wakes up the waiters of the transaction it has committed.
LEMMA WakeOneKeeps ==
  ASSUME TypeInv, GroupInv, WaitInv, NEW t \in Trx, WakeOne(t) \/ WakeEnd(t), UNCHANGED <<rgi, dom>>
  PROVE  TypeInv' /\ GroupInv' /\ WaitInv'
<1> DEFINE c == Head(ent[t].rest)
<1>1. pc[t] = "waking" /\ Waking(t) = c /\ optimize
  BY DEF WakeOne, WakeEnd, Waking, GroupInv, ModeOK
<1>2. c \in Trx /\ wfc[c].started /\ ~ent[c].err /\ Through(c)
  BY <1>1, HeadStarted DEF GroupInv, ModeOK, Through
<1> HIDE DEF c
<1>3. CASE WakeOne(t)
  <2>1. WakesOne(c, "ok") /\ UNCHANGED <<pc, gcVars, rgi, dom>>
    BY <1>1, <1>2, <1>3 DEF WakeOne
  <2> QED BY <1>2, <2>1, WakesKeeps
<1>4. CASE WakeEnd(t)
  <2>1. WakingOver(c) /\ Goto(t, "signal") /\ UNCHANGED <<gcVars, rgi, dom>> /\ "signal" \in Labels
    BY <1>1, <1>4 DEF WakeEnd, Labels
  <2>2. TypeInv' /\ WaitInv' /\ pc'[t] = "signal" /\ \A x \in Trx \ {t} : pc'[x] = pc[x]
    BY <1>1, <1>2, <2>1, OverKeeps
  <2>3. \A x \in Trx : wfc'[x].started = wfc[x].started /\ wfc'[x].torn = wfc[x].torn /\ wfc'[x].waitee = wfc[x].waitee
    BY <1>2, <2>1, OverFacts
  <2>4. /\ ent' = ent /\ lk' = lk /\ queue' = queue /\ binlog' = binlog /\ engine' = engine /\ optimize' = optimize
    BY <2>1 DEF gcVars
  <2>5. LockOK'
    BY <1>1, <2>2, <2>4 DEF GroupInv, LockOK
  <2>6. lk["commit"] = t /\ lk["log"] # t /\ lk["sync"] # t
    BY <1>1 DEF GroupInv, LockOK
  <2>7. Unwritten' = Unwritten /\ Written' = Written /\ Synced' = Synced /\ Committing' = Committing
    BY <1>1, <2>2, <2>4, <2>6, StageTypes DEF Unwritten, Written, Synced, Committing
  <2>8. LogOK'
    BY <2>3, <2>4, <2>7 DEF GroupInv, LogOK, All
  <2>9. ModeOK'
    BY <2>2, <2>4 DEF GroupInv, ModeOK
  <2>10. ASSUME NEW x \in Trx PROVE LeaderOK(x)'
    <3>1. LeaderOK(x) /\ wfc'[x].waitee = wfc[x].waitee
      BY <2>3 DEF GroupInv
    <3>2. CASE x = t
      BY <1>1, <2>2, <2>4, <3>1, <3>2 DEF LeaderOK
    <3>3. CASE x # t
      BY <2>2, <2>4, <3>1, <3>3 DEF LeaderOK
    <3> QED BY <3>2, <3>3
  <2> QED BY <2>2, <2>5, <2>8, <2>9, <2>10 DEF GroupInv
<1> QED BY <1>3, <1>4

\* The leader calls commit_ordered() for the next of the group.
LEMMA CommitOrderedKeeps ==
  ASSUME TypeInv, GroupInv, WaitInv, NEW t \in Trx, CommitOrdered(t), UNCHANGED <<rgi, dom>>
  PROVE  /\ TypeInv' /\ GroupInv' /\ WaitInv'
         /\ engine' = Append(engine, Head(ent[t].rest)) /\ Head(ent[t].rest) \in Trx
         /\ Committing = <<Head(ent[t].rest)>> \o Tail(ent[t].rest) /\ Tail(ent[t].rest) \in Seq(Trx)
<1> DEFINE r == ent[t].rest
<1>0. PICK c \in Trx : c = Head(ent[t].rest)
  BY HeadStarted DEF CommitOrdered
<1> DEFINE l == IF wfc[c].subs = {} THEN "signal" ELSE "waking"
<1>1. /\ lk["commit"] = t /\ r \in Seq(Trx) /\ r # <<>> /\ c \in Trx /\ wfc[c].started
      /\ Tail(r) \in Seq(Trx) /\ r = <<c>> \o Tail(r) /\ pc[t] = "loop"
  BY <1>0, HeadStarted DEF CommitOrdered
<1>2. /\ engine' = Append(engine, c) /\ wfc' = ListTaken(wfc, c) /\ Goto(t, l)
      /\ UNCHANGED <<optimize, ent, queue, lk, busy, binlog>> /\ rgi' = rgi /\ dom' = dom
  BY <1>0, <1>1 DEF CommitOrdered, Ordered, GroupInv, ModeOK
<1>l. l \in {"signal", "waking"}
  OBVIOUS
<1> HIDE DEF l, r
<1>3. pc' \in [Trx -> Labels] /\ pc'[t] = l /\ \A x \in Trx \ {t} : pc'[x] = pc[x]
  BY <1>2, <1>l DEF Goto, TypeInv, Labels
<1>4. /\ wfc' \in [Trx -> WfcType]
      /\ \A y \in Trx :
              /\ wfc'[y].waitee = wfc[y].waitee /\ wfc'[y].ready = wfc[y].ready /\ wfc'[y].werr = wfc[y].werr
              /\ wfc'[y].started = wfc[y].started /\ wfc'[y].torn = wfc[y].torn /\ wfc'[y].unwait = wfc[y].unwait
  BY <1>1, <1>2, TakenFacts
<1>e. engine' \in Seq(Trx) /\ engine' = engine \o <<c>> /\ (\A x : In(engine', x) <=> In(engine, x) \/ x = c)
  <2>1. engine \in Seq(Trx) BY StageTypes
  <2>2. engine' \in Seq(Trx) /\ engine' = engine \o <<c>>
    BY <1>1, <1>2, <2>1
  <2>3. Len(engine') = Len(engine) + 1 /\ Len(engine) \in Nat /\ engine'[Len(engine) + 1] = c
        /\ \A j \in 1 .. Len(engine) : engine'[j] = engine[j]
    BY <1>1, <1>2, <2>1
  <2>4. ASSUME NEW x PROVE In(engine', x) <=> In(engine, x) \/ x = c
    BY <2>3 DEF In
  <2> QED BY <2>2, <2>4
<1>5. TypeInv'
  BY <1>2, <1>3, <1>4, <1>e DEF TypeInv, GCTypeOK
<1>6. \A x \in Trx : Through(x)' <=> Through(x)
  BY <1>1, <1>l, <1>3, <1>4 DEF Through
<1>7. /\ \A x \in Trx : ListOK(x)'
      /\ \A x \in Trx : wfc'[x].subs \cup wfc'[x].walk = wfc[x].subs \cup wfc[x].walk
      /\ \A x \in Trx : wfc[x].waking => wfc'[x].waking
      /\ wfc[c].subs \cup wfc[c].walk # {} => wfc'[c].waking
  <2>1. Through(c)' BY <1>1, <1>4 DEF Through
  <2> QED BY <1>1, <1>2, <1>6, <2>1, TakenLists
<1>8. LockOK'
  BY <1>1, <1>2, <1>l, <1>3 DEF GroupInv, LockOK
<1>9. lk["log"] # t /\ lk["sync"] # t
  BY <1>1 DEF GroupInv, LockOK
<1>10. /\ Unwritten' = Unwritten /\ Written' = Written /\ Synced' = Synced
       /\ Committing = r /\ Committing' = Tail(r)
  <2>1. Unwritten' = Unwritten /\ Written' = Written /\ Synced' = Synced
    BY <1>2, <1>3, <1>9, StageTypes DEF Unwritten, Written, Synced
  <2>2. Committing = r /\ Committing' = Tail(r)
    BY <1>1, <1>2, <1>3, <1>l, TrxAssumption DEF Committing, r
  <2> QED BY <2>1, <2>2
<1>11. LogOK'
  <2> DEFINE D == Synced \o Written
  <2> DEFINE T == Tail(r)
  <2>1. D \in Seq(Trx) /\ T \in Seq(Trx) /\ engine \in Seq(Trx) /\ <<c>> \in Seq(Trx) /\ T \o D \in Seq(Trx)
    BY <1>1, StageTypes, TrxLists
  <2>2. binlog = engine \o ((<<c>> \o T) \o D)
    BY <1>1, <1>10 DEF GroupInv, LogOK
  <2> HIDE DEF D, T
  <2>3. (<<c>> \o T) \o D = <<c>> \o (T \o D)
    BY <2>1, TrxAssoc
  <2> DEFINE X == T \o D
  <2>4. X \in Seq(Trx) BY <2>1
  <2> HIDE DEF X
  <2>5. (engine \o <<c>>) \o X = engine \o (<<c>> \o X)
    BY <2>1, <2>4, TrxAssoc
  <2>6. binlog' = engine' \o (Committing' \o (Synced' \o Written'))
    BY <1>2, <1>e, <1>10, <2>2, <2>3, <2>5 DEF X, T, D
  <2>7. All' = All
    BY <1>2, <1>10 DEF All
  <2> QED BY <1>4, <2>6, <2>7 DEF LogOK, GroupInv
<1>12. ModeOK'
  BY <1>2, <1>3, <1>l DEF GroupInv, ModeOK
<1>13. ASSUME NEW x \in Trx PROVE LeaderOK(x)'
  <2>1. LeaderOK(x) /\ wfc'[x].waitee = wfc[x].waitee /\ (\A y : In(engine, y) => In(engine', y)) /\ In(engine', c)
    BY <1>4, <1>e DEF GroupInv
  <2>2. CASE x = t
    BY <1>1, <1>l, <1>2, <1>3, <2>1, <2>2, <1>0 DEF LeaderOK, r
  <2>3. CASE x # t
    BY <1>2, <1>3, <2>1, <2>3 DEF LeaderOK
  <2> QED BY <2>2, <2>3
<1>14. GroupInv'
  BY <1>8, <1>11, <1>12, <1>13 DEF GroupInv
<1>15. ASSUME NEW x \in Trx PROVE PhaseOK(x)'
  <2>1. PhaseOK(x) /\ (Untorn(x)' <=> Untorn(x))
    BY <1>4, TornSame DEF WaitInv
  <2>2. CASE x = t
    BY <1>1, <1>l, <1>2, <1>3, <1>4, <2>1, <2>2 DEF PhaseOK, InGroup, Ending
  <2>3. CASE x # t
    BY <1>2, <1>3, <1>4, <2>1, <2>3 DEF PhaseOK
  <2> QED BY <2>2, <2>3
<1>16. ASSUME NEW x \in Trx PROVE WaitOK(x)'
  <2>1. WaitOK(x) /\ wfc[x].waitee \in Trx \cup {NoTrx}
    BY DEF WaitInv, TypeInv, WfcType
  <2>2. wfc[x].waitee # NoTrx =>
            LET d == wfc[x].waitee IN
            wfc'[d].started = wfc[d].started /\ wfc[d].subs \cup wfc[d].walk = wfc'[d].subs \cup wfc'[d].walk
    BY <1>4, <1>7, <2>1
  <2>3. /\ wfc'[x].waitee = wfc[x].waitee /\ wfc'[x].werr = wfc[x].werr /\ wfc'[x].unwait = wfc[x].unwait
        /\ wfc'[x].ready = wfc[x].ready /\ wfc'[x].started = wfc[x].started /\ wfc'[x].torn = wfc[x].torn /\ rgi'[x] = rgi[x] /\ ent'[x] = ent[x]
    BY <1>2, <1>4
  <2>4. CASE x = t
    BY <1>1, <1>l, <1>3, <2>1, <2>2, <2>3, <2>4 DEF WaitOK
  <2>5. CASE x # t
    <3>1. pc'[x] = pc[x] BY <1>3, <2>5
    <3> QED BY <2>1, <2>2, <2>3, <3>1 DEF WaitOK
  <2> QED BY <2>4, <2>5
<1>17. ASSUME NEW x \in Trx PROVE ClearedOK(x)'
  <2>1. ClearedOK(x) /\ (AllThrough(x) <=> AllThrough(x)')
    BY <1>6 DEF WaitInv, AllThrough, Earlier
  <2>2. CASE x = t
    BY <1>1, <1>l, <1>3, <1>4, <2>1, <2>2 DEF ClearedOK
  <2>3. CASE x # t
    BY <1>3, <1>4, <2>1, <2>3 DEF ClearedOK
  <2> QED BY <2>2, <2>3
<1>18. ASSUME NEW x \in Trx PROVE KillOK(x)'
  <2>1. KillOK(x) /\ WaitOK(x) /\ wfc[x].waitee \in Trx \cup {NoTrx} /\ rgi[x].rowWait \in Trx \cup {NoTrx} /\ rgi[x].rowWait # t
    BY <1>1, NoRowWaiter DEF WaitInv, TypeInv, WfcType, RgiType, HasRowLocks
  <2>2. rgi[x].rowWait # NoTrx => /\ wfc'[rgi[x].rowWait].started = wfc[rgi[x].rowWait].started
                                  /\ pc'[rgi[x].rowWait] = pc[rgi[x].rowWait]
    BY <1>3, <1>4, <2>1
  <2>3. rgi[x].killed = "deadlock" /\ wfc[x].waitee # NoTrx /\ ~ent[x].qbo =>
          ~In(engine', wfc[x].waitee) \/ wfc'[wfc[x].waitee].waking
    <3> SUFFICES ASSUME rgi[x].killed = "deadlock", wfc[x].waitee # NoTrx, ~ent[x].qbo, In(engine', wfc[x].waitee)
                 PROVE  wfc'[wfc[x].waitee].waking
      OBVIOUS
    <3>1. CASE wfc[x].waitee = c
      <4>1. x \in wfc[c].subs \cup wfc[c].walk
        BY <2>1, <3>1 DEF WaitOK
      <4> QED BY <1>7, <3>1, <4>1
    <3>2. CASE wfc[x].waitee # c
      <4>1. In(engine, wfc[x].waitee)
        BY <1>e, <3>2
      <4>2. wfc[wfc[x].waitee].waking
        BY <2>1, <4>1 DEF KillOK
      <4> QED BY <1>7, <2>1, <4>2
    <3> QED BY <3>1, <3>2
  <2>4. /\ wfc'[x].waitee = wfc[x].waitee /\ rgi'[x] = rgi[x] /\ ent'[x] = ent[x]
        /\ (pc'[x] = pc[x] \/ (pc[x] = "loop" /\ pc'[x] \in {"signal", "waking"}))
    BY <1>1, <1>2, <1>l, <1>3, <1>4
  <2> QED BY <2>1, <2>2, <2>3, <2>4 DEF KillOK
<1>19. \A d \in Domains : DomOK(d)'
  <2>1. \A x \in Trx : pc'[x] \in {"finwaking", "done"} <=> pc[x] \in {"finwaking", "done"}
    BY <1>1, <1>l, <1>3
  <2> QED BY <1>2, <2>1 DEF WaitInv, DomOK, TypeInv, DomType
<1> QED BY <1>1, <1>2, <1>5, <1>7, <1>10, <1>14, <1>15, <1>16, <1>17, <1>18, <1>19, <1>0 DEF WaitInv, r

\* wakeup() of the transaction c
Wokes(c, e) == wfc' = WokenUp(wfc, c, e)

\* What the wakeup of a transaction whose commit is done changes.
LEMMA WokeFacts ==
  ASSUME TypeInv, NEW c \in Trx, NEW e \in WakeupErrors, Wokes(c, e)
  PROVE  /\ wfc' \in [Trx -> WfcType]
         /\ \A y \in Trx :
              /\ wfc'[y].subs = wfc[y].subs /\ wfc'[y].waking = wfc[y].waking /\ wfc'[y].ready = wfc[y].ready
              /\ wfc'[y].started = wfc[y].started /\ wfc'[y].torn = wfc[y].torn /\ wfc'[y].unwait = wfc[y].unwait /\ wfc'[y].walk = wfc[y].walk
              /\ y # c => wfc'[y].waitee = wfc[y].waitee /\ wfc'[y].werr = wfc[y].werr
         /\ wfc'[c].waitee = NoTrx /\ wfc'[c].werr = e
<1>2. wfc[c] \in WfcType /\ wfc \in [Trx -> WfcType]
  BY DEF TypeInv
<1> DEFINE R == [wfc[c] EXCEPT !.waitee = NoTrx, !.werr = e]
<1>3. wfc' = [wfc EXCEPT ![c] = R]
  BY <1>2 DEF Wokes, WokenUp
<1>4. /\ R \in WfcType /\ R.werr = e /\ R.waitee = NoTrx /\ R.subs = wfc[c].subs /\ R.walk = wfc[c].walk
      /\ R.waking = wfc[c].waking /\ R.ready = wfc[c].ready /\ R.started = wfc[c].started /\ R.torn = wfc[c].torn /\ R.unwait = wfc[c].unwait
  BY <1>2 DEF WfcType
<1> HIDE DEF R
<1>5. wfc' \in [Trx -> WfcType] /\ wfc'[c] = R /\ \A y \in Trx \ {c} : wfc'[y] = wfc[y]
  BY <1>3, <1>4, WfcUpdate
<1> QED BY <1>4, <1>5

\* When a list has more than its head.
LEMMA TailLen ==
  ASSUME NEW s \in Seq(Trx), s # <<>>
  PROVE  (Len(s) > 1 => Tail(s) # <<>>) /\ (~(Len(s) > 1) => Tail(s) = <<>>)
<1>1. Tail(s) \in Seq(Trx) /\ Len(Tail(s)) = Len(s) - 1 /\ Len(s) \in Nat /\ Len(s) # 0
  OBVIOUS
<1> DEFINE q == Tail(s)
<1>2. q = <<>> <=> Len(q) = 0
  <2>1. q \in Seq(Trx) BY <1>1
  <2> HIDE DEF q
  <2> QED BY <2>1
<1>3. Len(q) = Len(s) - 1
  BY <1>1
<1> HIDE DEF q
<1> QED BY <1>1, <1>2, <1>3 DEF q

\* The leader tells a transaction of its group that it is committed.
LEMMA SignalNextKeeps ==
  ASSUME TypeInv, GroupInv, WaitInv, NEW t \in Trx, SignalNext(t), UNCHANGED <<rgi, dom>>
  PROVE  TypeInv' /\ GroupInv' /\ WaitInv'
<1> DEFINE r == ent[t].rest
<1> DEFINE more == Len(r) > 1
<1> DEFINE l == IF more THEN "loop" ELSE "return"
<1>0. PICK c \in Trx : c = Head(ent[t].rest)
  BY HeadStarted DEF SignalNext
<1> DEFINE woke == c # t /\ ent[c].qbo
<1>1. /\ lk["commit"] = t /\ r \in Seq(Trx) /\ r # <<>> /\ wfc[c].started /\ Tail(r) \in Seq(Trx) /\ pc[t] = "signal"
      /\ ~ent[t].qbo /\ wfc[t].started /\ In(engine, c) /\ In(engine, t) /\ ~ent[c].err
  <2>1. /\ lk["commit"] = t /\ r \in Seq(Trx) /\ r # <<>> /\ wfc[c].started /\ Tail(r) \in Seq(Trx) /\ pc[t] = "signal"
    BY <1>0, HeadStarted DEF SignalNext
  <2>2. ~ent[t].qbo /\ wfc[t].started /\ ~ent[c].err
    BY <2>1 DEF WaitInv, PhaseOK, InGroup, Ending, GroupInv, ModeOK
  <2>3. LeaderOK(t) BY DEF GroupInv
  <2>4. In(engine, c) /\ In(engine, t)
    BY <1>0, <2>1, <2>3 DEF LeaderOK
  <2> QED BY <2>1, <2>2, <2>4
<1>2. /\ woke => wfc[c].unwait # "locked" /\ Wokes(c, "ok")
      /\ ~woke => wfc' = wfc
      /\ lk' = [lk EXCEPT !["commit"] = IF more THEN @ ELSE NoTrx] /\ Goto(t, l)
      /\ UNCHANGED <<optimize, queue, busy, binlog, engine>> /\ rgi' = rgi /\ dom' = dom
      /\ ent' = [IF c # t /\ ~ent[c].qbo THEN [ent EXCEPT ![c].signalled = TRUE] ELSE ent EXCEPT ![t].rest = Tail(@)]
  BY <1>0, <1>1 DEF SignalNext, Wokes, Holding
<1>l. l \in {"loop", "return"}
  OBVIOUS
<1>3. pc' \in [Trx -> Labels] /\ pc'[t] = l /\ \A x \in Trx \ {t} : pc'[x] = pc[x]
  <2> HIDE DEF l, woke
  <2>1. pc' = [pc EXCEPT ![t] = l] /\ l \in Labels /\ pc \in [Trx -> Labels]
    BY <1>2, <1>l DEF Goto, TypeInv, Labels, PriorWaits
  <2> QED BY <2>1
<1>4. /\ ent' \in [Trx -> Entries]
      /\ \A x \in Trx : /\ ent'[x].qbo = ent[x].qbo /\ ent'[x].err = ent[x].err
                        /\ ent'[x].signalled => ent[x].signalled \/ x = c
      /\ ent'[t].rest = Tail(r)
      /\ \A x \in Trx \ {t} : ent'[x].rest = ent[x].rest
  <2>1. ent \in [Trx -> Entries] BY DEF TypeInv, GCTypeOK
  <2> DEFINE e == IF c # t /\ ~ent[c].qbo THEN [ent EXCEPT ![c].signalled = TRUE] ELSE ent
  <2>2. /\ e \in [Trx -> Entries]
        /\ \A x \in Trx : /\ e[x].qbo = ent[x].qbo /\ e[x].err = ent[x].err
                          /\ e[x].signalled => ent[x].signalled \/ x = c
                          /\ e[x].rest = ent[x].rest
    <3>1. CASE c # t /\ ~ent[c].qbo
      <4>1. e = [ent EXCEPT ![c].signalled = TRUE] BY <3>1
      <4> HIDE DEF e
      <4> QED BY <2>1, <4>1 DEF Entries
    <3>2. CASE ~(c # t /\ ~ent[c].qbo)
      <4>1. e = ent BY <3>2
      <4> HIDE DEF e
      <4> QED BY <2>1, <4>1
    <3> QED BY <3>1, <3>2
  <2>3. ent' = [e EXCEPT ![t].rest = Tail(@)]
    BY <1>2
  <2> HIDE DEF e, r, l, woke
  <2>4. e[t].rest = r BY <2>2 DEF r
  <2> DEFINE q == Tail(r)
  <2>5. ent' = [e EXCEPT ![t].rest = q] /\ q \in Seq(Trx)
    BY <1>1, <2>2, <2>3, <2>4
  <2> HIDE DEF q
  <2>6. /\ ent' \in [Trx -> Entries] /\ ent'[t].rest = q
        /\ \A x \in Trx : ent'[x].qbo = e[x].qbo /\ ent'[x].err = e[x].err /\ ent'[x].signalled = e[x].signalled
        /\ \A x \in Trx \ {t} : ent'[x].rest = e[x].rest
    BY <2>2, <2>5 DEF Entries
  <2> QED BY <2>2, <2>6 DEF q
<1>5. /\ wfc' \in [Trx -> WfcType]
      /\ \A y \in Trx :
              /\ wfc'[y].subs = wfc[y].subs /\ wfc'[y].waking = wfc[y].waking /\ wfc'[y].ready = wfc[y].ready
              /\ wfc'[y].started = wfc[y].started /\ wfc'[y].torn = wfc[y].torn /\ wfc'[y].unwait = wfc[y].unwait /\ wfc'[y].walk = wfc[y].walk
              /\ wfc'[y].werr = IF woke /\ y = c THEN "ok" ELSE wfc[y].werr
              /\ wfc'[y].waitee = IF woke /\ y = c THEN NoTrx ELSE wfc[y].waitee
  <2>1. CASE woke
    <3> HIDE DEF woke
    <3> QED BY <1>1, <1>2, <2>1, WokeFacts DEF WakeupErrors
  <2>2. CASE ~woke
    <3> HIDE DEF woke
    <3> QED BY <1>2, <2>2 DEF TypeInv
  <2> QED BY <2>1, <2>2
<1>w. woke => ent[c].qbo /\ wfc[c].unwait # "locked"
  BY <1>2
<1>6. lk' \in [{"log", "sync", "commit"} -> Trx \cup {NoTrx}] /\ lk'["log"] = lk["log"]
      /\ lk'["sync"] = lk["sync"] /\ lk'["commit"] = (IF more THEN t ELSE NoTrx)
  <2> HIDE DEF more, woke
  <2> QED BY <1>1, <1>2, StageTypes
<1>7. (more => Tail(r) # <<>>) /\ (~more => Tail(r) = <<>>)
  BY <1>1, TailLen
<1>m. (more => l = "loop") /\ (~more => l = "return")
  OBVIOUS
<1> HIDE DEF r, more, l, woke
<1>9. TypeInv'
  BY <1>2, <1>3, <1>4, <1>5, <1>6 DEF TypeInv, GCTypeOK
<1>10. \A x \in Trx : Through(x)' <=> Through(x)
  BY <1>1, <1>l, <1>3, <1>5 DEF Through
<1>11. lk["log"] # t /\ lk["sync"] # t
  BY <1>1 DEF GroupInv, LockOK
<1>12. LockOK'
  <2>1. ASSUME NEW x \in Trx
        PROVE  /\ pc'[x] \in {"write", "sync"} <=> lk'["log"] = x
               /\ pc'[x] = "order" <=> lk'["sync"] = x
               /\ pc'[x] \in {"loop", "waking", "signal"} <=> lk'["commit"] = x
    <3>1. /\ pc[x] \in {"write", "sync"} <=> lk["log"] = x
          /\ pc[x] = "order" <=> lk["sync"] = x
          /\ pc[x] \in {"loop", "waking", "signal"} <=> lk["commit"] = x
      BY DEF GroupInv, LockOK
    <3>2. CASE x = t
      BY <1>l, <1>m, <1>3, <1>6, <1>11, <3>2, TrxAssumption
    <3>3. CASE x # t
      BY <1>1, <1>3, <1>6, <3>1, <3>3, TrxAssumption
    <3> QED BY <3>2, <3>3
  <2> QED BY <2>1 DEF LockOK
<1>13. Unwritten' = Unwritten /\ Written' = Written /\ Synced' = Synced /\ Committing' = Committing
  <2>1. Unwritten' = Unwritten /\ Written' = Written /\ Synced' = Synced
    BY <1>3, <1>4, <1>6, <1>11, StageTypes DEF Unwritten, Written, Synced
  <2>2. Committing = Tail(r)
    BY <1>1, TrxAssumption DEF Committing, r
  <2>3. Committing' = Tail(r)
    <3>1. CASE more
      BY <1>m, <1>3, <1>4, <1>6, <3>1, TrxAssumption DEF Committing
    <3>2. CASE ~more
      BY <1>6, <1>7, <3>2 DEF Committing
    <3> QED BY <3>1, <3>2
  <2> QED BY <2>1, <2>2, <2>3
<1>14. LogOK'
  BY <1>2, <1>5, <1>13 DEF GroupInv, LogOK, All
<1>15. ModeOK'
  BY <1>2, <1>3, <1>4, <1>l DEF GroupInv, ModeOK
<1>16. ASSUME NEW x \in Trx PROVE LeaderOK(x)'
  <2>1. /\ LeaderOK(x) /\ (wfc'[x].waitee = wfc[x].waitee \/ x = c)
        /\ engine' = engine /\ queue' = queue
    BY <1>2, <1>5 DEF GroupInv
  <2>2. CASE x = t
    BY <1>1, <1>l, <1>m, <1>3, <1>4, <1>7, <2>1, <2>2 DEF LeaderOK
  <2>3. CASE x # t
    BY <1>1, <1>3, <1>4, <2>1, <2>3 DEF LeaderOK
  <2> QED BY <2>2, <2>3
<1>17. GroupInv'
  BY <1>12, <1>14, <1>15, <1>16 DEF GroupInv
<1>18. ASSUME NEW x \in Trx PROVE PhaseOK(x)'
  <2>1. PhaseOK(x) /\ (Untorn(x)' <=> Untorn(x))
    BY <1>5, TornSame DEF WaitInv
  <2>2. CASE x = t
    BY <1>1, <1>l, <1>2, <1>3, <1>4, <1>5, <2>1, <2>2 DEF PhaseOK, InGroup, Ending
  <2>3. CASE x # t
    BY <1>2, <1>3, <1>4, <1>5, <2>1, <2>3 DEF PhaseOK
  <2> QED BY <2>2, <2>3
<1>19. ASSUME NEW x \in Trx PROVE ListOK(x)'
  <2>1. ListOK(x) /\ wfc[x].subs \subseteq Trx /\ wfc[x].walk \subseteq Trx
    BY DEF WaitInv, TypeInv, WfcType
  <2>2. ASSUME NEW y \in wfc[x].subs \cup wfc[x].walk PROVE ListedOK(x, y)'
    <3>1. y \in Trx /\ ListedOK(x, y)
      BY <2>1 DEF ListOK
    <3>2. ~(woke /\ y = c)
      BY <1>w, <3>1 DEF ListedOK
    <3> QED BY <1>4, <1>5, <3>1, <3>2 DEF ListedOK
  <2> QED BY <1>5, <1>10, <2>1, <2>2 DEF ListOK
<1>20. ASSUME NEW x \in Trx PROVE WaitOK(x)'
  <2>1. WaitOK(x) /\ wfc[x].waitee \in Trx \cup {NoTrx} /\ (x = c => wfc[x].started)
    BY <1>1 DEF WaitInv, TypeInv, WfcType
  <2>2. wfc[x].waitee # NoTrx =>
            LET d == wfc[x].waitee IN
            wfc'[d].started = wfc[d].started /\ wfc[d].subs = wfc'[d].subs /\ wfc[d].walk = wfc'[d].walk
    BY <1>5, <2>1
  <2>3. /\ wfc'[x].waitee = wfc[x].waitee \/ (x = c /\ wfc'[x].waitee = NoTrx /\ wfc[x].unwait # "locked")
        /\ wfc'[x].werr \in {wfc[x].werr, "ok"} /\ wfc'[x].unwait = wfc[x].unwait
        /\ wfc'[x].ready = wfc[x].ready /\ wfc'[x].started = wfc[x].started /\ wfc'[x].torn = wfc[x].torn /\ rgi'[x] = rgi[x] /\ ent'[x].qbo = ent[x].qbo
    BY <1>2, <1>w, <1>4, <1>5
  <2>4. CASE x = t
    BY <1>1, <1>l, <1>3, <2>1, <2>2, <2>3, <2>4 DEF WaitOK
  <2>5. CASE x # t
    <3>1. pc'[x] = pc[x] BY <1>3, <2>5
    <3>2. CASE wfc'[x].waitee = wfc[x].waitee
      BY <2>1, <2>2, <2>3, <3>1, <3>2 DEF WaitOK
    <3>3. CASE x = c /\ wfc'[x].waitee = NoTrx /\ wfc[x].unwait # "locked"
      BY <1>1, <2>1, <2>3, <3>1, <3>3 DEF WaitOK
    <3> QED BY <2>3, <3>2, <3>3
  <2> QED BY <2>4, <2>5
<1>21. ASSUME NEW x \in Trx PROVE ClearedOK(x)'
  <2>1. ClearedOK(x) /\ ClearedOK(c) /\ (AllThrough(x) <=> AllThrough(x)')
    BY <1>10 DEF WaitInv, AllThrough, Earlier
  <2>2. CASE wfc[x].started
    BY <2>1, <2>2 DEF ClearedOK
  <2>3. CASE ~wfc[x].started
    BY <1>1, <1>3, <1>5, <2>1, <2>3 DEF ClearedOK
  <2> QED BY <2>2, <2>3
<1>22. ASSUME NEW x \in Trx PROVE KillOK(x)'
  <2>1. KillOK(x) /\ wfc[x].waitee \in Trx \cup {NoTrx} /\ rgi[x].rowWait \in Trx \cup {NoTrx} /\ rgi[x].rowWait # t
    BY <1>1, NoRowWaiter DEF WaitInv, TypeInv, WfcType, RgiType, HasRowLocks
  <2>2. /\ rgi[x].rowWait # NoTrx => /\ wfc'[rgi[x].rowWait].started = wfc[rgi[x].rowWait].started
                                     /\ pc'[rgi[x].rowWait] = pc[rgi[x].rowWait]
        /\ wfc[x].waitee # NoTrx => wfc'[wfc[x].waitee].waking = wfc[wfc[x].waitee].waking
    BY <1>3, <1>5, <2>1
  <2>4. /\ wfc'[x].waitee \in {wfc[x].waitee, NoTrx} /\ rgi'[x] = rgi[x] /\ ent'[x].qbo = ent[x].qbo /\ engine' = engine
        /\ (pc'[x] = pc[x] \/ (pc[x] = "signal" /\ pc'[x] \in {"loop", "return"}))
    BY <1>1, <1>2, <1>l, <1>3, <1>4, <1>5
  <2> QED BY <2>1, <2>2, <2>4 DEF KillOK
<1>23. \A d \in Domains : DomOK(d)'
  <2>1. \A x \in Trx : pc'[x] \in {"finwaking", "done"} <=> pc[x] \in {"finwaking", "done"}
    BY <1>1, <1>l, <1>3
  <2> QED BY <1>2, <2>1 DEF WaitInv, DomOK, TypeInv, DomType
<1> QED BY <1>9, <1>17, <1>18, <1>19, <1>20, <1>21, <1>22, <1>23 DEF WaitInv

-----------------------------------------------------------------------------
(* Entering the queue with the followers *)

\* Every set of transactions can be put in a row by sub id: Enqueue never waits
\* for an order of its followers.
LEMMA SomeSubIdOrder ==
  ASSUME NEW F \in SUBSET Trx
  PROVE  InSubIdOrder(F) # {}
<1> DEFINE Bad == {G \in SUBSET Trx : InSubIdOrder(G) = {}}
           Sizes == {Cardinality(G) : G \in Bad}
<1>0. \A G \in SUBSET Trx : IsFiniteSet(G) /\ Cardinality(G) \in Nat
  BY TrxAssumption, FS_Subset, FS_CardinalityType
<1> SUFFICES ASSUME Bad # {} PROVE FALSE
  OBVIOUS
<1>1. Sizes \in SUBSET Nat /\ Sizes # {}
  BY <1>0
<1>2. PICK n \in Sizes : \A y \in Sizes : n <= y
  <2> HIDE DEF Sizes
  <2> QED BY <1>1, LeastNat
<1>3. PICK G \in Bad : n = Cardinality(G)
  OBVIOUS
<1>4. G \in SUBSET Trx /\ InSubIdOrder(G) = {} /\ n \in Nat /\ IsFiniteSet(G) /\ Cardinality(G) = n
  BY <1>0, <1>3
<1>5. ASSUME NEW H \in SUBSET Trx, Cardinality(H) < n PROVE InSubIdOrder(H) # {}
  <2>1. Cardinality(H) \in Nat BY <1>0
  <2>2. H \in Bad => Cardinality(H) \in Sizes OBVIOUS
  <2> HIDE DEF Sizes
  <2> QED BY <2>1, <2>2, <1>2, <1>4, <1>5
<1> HIDE DEF Bad, Sizes
<1>6. G # {}
  <2> SUFFICES ASSUME G = {} PROVE FALSE
    OBVIOUS
  <2>1. Cardinality(G) = 0 BY <1>4, FS_EmptySet
  <2>2. [i \in 1 .. 0 |-> 0] \in [1 .. 0 -> {}] OBVIOUS
  <2> QED BY <2>1, <2>2, <1>4 DEF InSubIdOrder
\* the smallest transaction of the set comes first
<1>7. PICK m \in G : \A y \in G : m <= y
  <2>1. G \in SUBSET Nat BY <1>4, TrxAssumption
  <2> QED BY <2>1, <1>6, LeastNat
<1> DEFINE H == G \ {m}
<1>8. Cardinality(H) = n - 1 /\ n - 1 \in Nat /\ H \in SUBSET Trx
  <2>1. Cardinality(H) = n - 1 BY <1>4, <1>7, FS_RemoveElement
  <2>2. Cardinality(H) \in Nat /\ H \in SUBSET Trx BY <1>0, <1>4
  <2> QED BY <2>1, <2>2, <1>4
<1>9. PICK s \in InSubIdOrder(H) : TRUE
  <2> HIDE DEF H
  <2>1. Cardinality(H) < n BY <1>8, <1>4
  <2> QED BY <2>1, <1>8, <1>5
<1>10. /\ s \in [1 .. n - 1 -> H]
       /\ \A i, j \in 1 .. n - 1 : i < j => s[i] < s[j]
       /\ \A x \in H : \E i \in 1 .. n - 1 : s[i] = x
  <2> HIDE DEF H
  <2> QED BY <1>8, <1>9 DEF InSubIdOrder
<1>11. /\ \A x \in H : x \in G /\ x \in Nat /\ m \in Nat /\ m < x
       /\ \A x \in G : x = m \/ x \in H
  BY <1>4, <1>7, TrxAssumption
<1> HIDE DEF H
<1> DEFINE r == [i \in 1 .. n |-> IF i = 1 THEN m ELSE s[i - 1]]
<1>12. \A i \in 1 .. n : i # 1 => i - 1 \in 1 .. n - 1 /\ s[i - 1] \in H /\ r[i] = s[i - 1]
  BY <1>4, <1>10
<1>13. n \in Nat /\ n >= 1 /\ 1 \in 1 .. n /\ r[1] = m
  BY <1>4, <1>8
<1>14. r \in [1 .. n -> G]
  BY <1>7, <1>11, <1>12
<1>15. ASSUME NEW i \in 1 .. n, NEW j \in 1 .. n, i < j PROVE r[i] < r[j]
  <2>1. j # 1 /\ r[j] \in H BY <1>13, <1>12, <1>15
  <2>2. CASE i = 1 BY <2>1, <2>2, <1>13, <1>11
  <2>3. CASE i # 1
    <3>1. i - 1 < j - 1 BY <1>15, <1>13
    <3> QED BY <3>1, <2>1, <2>3, <1>12, <1>10
  <2> QED BY <2>2, <2>3
<1>16. ASSUME NEW x \in G PROVE \E i \in 1 .. n : r[i] = x
  <2>1. CASE x = m BY <2>1, <1>13
  <2>2. CASE x \in H
    <3>1. PICK i \in 1 .. n - 1 : s[i] = x BY <2>2, <1>10
    <3>2. i + 1 \in 1 .. n /\ i + 1 # 1 /\ (i + 1) - 1 = i BY <1>13
    <3>3. r[i + 1] = s[i] BY <3>2
    <3> QED BY <3>1, <3>2, <3>3
  <2> QED BY <2>1, <2>2, <1>11
<1> HIDE DEF r
<1> QED BY <1>4, <1>14, <1>15, <1>16 DEF InSubIdOrder

\* The transactions of a set in a row.
LEMMA SortedFacts ==
  ASSUME NEW F \in SUBSET Trx, NEW s \in InSubIdOrder(F)
  PROVE  /\ s \in Seq(Trx) /\ SeqInj(s)
         /\ \A x : In(s, x) <=> x \in F
         /\ \A i, j \in 1 .. Len(s) : i < j => s[i] < s[j]
<1>1. Cardinality(F) \in Nat
  <2>1. IsFiniteSet(F) BY TrxAssumption, FS_Subset
  <2> QED BY <2>1, FS_CardinalityType
<1> DEFINE n == Cardinality(F)
<1>2. /\ s \in [1 .. n -> F] /\ n \in Nat
      /\ \A i, j \in 1 .. n : i < j => s[i] < s[j]
      /\ \A x \in F : \E i \in 1 .. n : s[i] = x
  BY <1>1 DEF InSubIdOrder
<1> HIDE DEF n
<1>3. s \in [1 .. n -> Trx] /\ s \in Seq(Trx) /\ Len(s) = n
  BY <1>2
<1>4. \A x : In(s, x) <=> x \in F
  BY <1>2, <1>3 DEF In
<1>5. SeqInj(s)
  <2>1. ASSUME NEW i \in 1 .. n, NEW j \in 1 .. n, i # j PROVE s[i] # s[j]
    <3>1. s[i] \in Nat /\ s[j] \in Nat
      BY <1>3, TrxAssumption
    <3>2. i < j \/ j < i
      BY <1>2, <2>1
    <3> QED BY <1>2, <3>1, <3>2
  <2> QED BY <1>3, <2>1 DEF SeqInj
<1> QED BY <1>2, <1>3, <1>4, <1>5

\* Who is queued with t waits in queue_for_group_commit(), and so do those between.
LEMMA FollowersFacts ==
  ASSUME TypeInv, WaitInv, ErrInv, NEW t \in Trx, NEW w \in Followers(t)
  PROVE  /\ w \in Trx /\ t \in Earlier(w) /\ w # t
         /\ wfc[w].ready /\ pc[w] = "wait" /\ ~wfc[w].started /\ ~ent[w].qbo
         /\ wfc[w].waitee = Prior(w) /\ Prior(w) # NoTrx /\ w \in wfc[Prior(w)].subs
         /\ wfc[w].unwait # "locked" /\ wfc[w].werr = "ok" /\ ~rgi[w].failed
         /\ Prior(w) \in Followers(t) \cup {t}
         /\ \A u \in Earlier(w) : u \in Earlier(t) \/ u = t \/ u \in Followers(t)
<1>1. /\ w \in Trx /\ t \in Earlier(w)
      /\ \A x \in Earlier(w) \cup {w} : t < x => wfc[x].ready /\ x \in wfc[Prior(x)].subs
  BY DEF Followers
<1>2. t < w /\ w \in Nat /\ t \in Nat /\ Domain[t] = Domain[w] /\ t # w
  BY <1>1, TrxAssumption DEF Earlier
<1>3. wfc[w].ready /\ w \in wfc[Prior(w)].subs
  BY <1>1, <1>2
<1>4. Prior(w) # NoTrx /\ Prior(w) \in Earlier(w) /\ Prior(w) \in Trx
  BY <1>1, PriorLast DEF Earlier
<1>5. wfc[w].waitee = Prior(w) /\ ~ent[w].qbo /\ pc[w] = "wait"
  BY <1>1, <1>3, <1>4 DEF WaitInv, ListOK, ListedOK, WaitOK
<1>6. ~wfc[w].started
  BY <1>1, <1>5 DEF WaitInv, PhaseOK, InGroup, Ending
<1>7. wfc[w].unwait # "locked"
  BY <1>1, <1>3, <1>5 DEF WaitInv, WaitOK
<1>8. wfc[w].werr = "ok" /\ ~rgi[w].failed
  BY <1>1, <1>4, <1>5 DEF ErrInv, Ending
<1>9. ASSUME NEW u \in Earlier(w) PROVE u \in Earlier(t) \/ u = t \/ u \in Followers(t)
  <2>1. u \in Trx /\ u \in Nat /\ u < w /\ Domain[u] = Domain[w]
    BY TrxAssumption DEF Earlier
  <2>2. CASE u < t
    BY <1>2, <2>1, <2>2 DEF Earlier
  <2>3. CASE t < u
    <3>1. t \in Earlier(u)
      BY <1>2, <2>1, <2>3 DEF Earlier
    <3>2. ASSUME NEW x \in Earlier(u) \cup {u} PROVE x \in Earlier(w)
      <4>1. x \in Trx /\ x \in Nat /\ (x < u \/ x = u) /\ Domain[x] = Domain[u]
        BY <2>1, TrxAssumption DEF Earlier
      <4>2. x < w
        BY <1>2, <2>1, <4>1
      <4> QED BY <2>1, <4>1, <4>2 DEF Earlier
    <3> QED BY <1>1, <2>1, <3>1, <3>2 DEF Followers
  <2> QED BY <1>2, <2>1, <2>2, <2>3
<1>10. Prior(w) \in Followers(t) \cup {t}
  <2>1. t \in Earlier(Prior(w)) \/ t = Prior(w)
    BY <1>1, <1>4, PriorLast
  <2>2. Prior(w) \notin Earlier(t) \/ t = Prior(w)
    <3> DEFINE p == Prior(w)
    <3>1. p \in Nat /\ (t \in Earlier(p) \/ t = p)
      BY <1>4, <2>1, TrxAssumption
    <3> HIDE DEF p
    <3>2. p \notin Earlier(t) \/ t = p
      BY <1>2, <3>1 DEF Earlier
    <3> QED BY <3>2 DEF p
  <2> QED BY <1>4, <1>9, <2>2
<1> QED BY <1>1, <1>2, <1>3, <1>4, <1>5, <1>6, <1>7, <1>8, <1>9, <1>10

\* What Enqueue does to the objects
Entered(t, F) ==
  wfc' = [x \in Trx |-> [wfc[x] EXCEPT !.started = @ \/ x \in F \cup {t}, !.subs = @ \ F,
                                       !.torn = @ \/ (x = t /\ HalfWoken(t))]]

\* What entering the queue changes.
LEMMA EnteredFacts ==
  ASSUME TypeInv, NEW t \in Trx, NEW F \in SUBSET Trx, Entered(t, F)
  PROVE  /\ wfc' \in [Trx -> WfcType]
         /\ \A y \in Trx :
              /\ wfc'[y].waitee = wfc[y].waitee /\ wfc'[y].werr = wfc[y].werr /\ wfc'[y].walk = wfc[y].walk
              /\ wfc'[y].waking = wfc[y].waking /\ wfc'[y].ready = wfc[y].ready /\ wfc'[y].unwait = wfc[y].unwait
              /\ y \in F \cup {t} => wfc'[y].started
              /\ y \notin F \cup {t} => wfc'[y].started = wfc[y].started
              /\ wfc'[y].subs = wfc[y].subs \ F
              /\ wfc[y].torn => wfc'[y].torn
              /\ y # t => wfc'[y].torn = wfc[y].torn
              /\ y = t /\ HalfWoken(t) => wfc'[y].torn
<1> DEFINE R(y) == [wfc[y] EXCEPT !.started = @ \/ y \in F \cup {t}, !.subs = @ \ F,
                                 !.torn = @ \/ (y = t /\ HalfWoken(t))]
<1>1. wfc' = [x \in Trx |-> R(x)]
  BY DEF Entered
<1>2. ASSUME NEW y \in Trx
      PROVE  /\ R(y) \in WfcType
             /\ R(y).waitee = wfc[y].waitee /\ R(y).werr = wfc[y].werr /\ R(y).walk = wfc[y].walk
             /\ R(y).waking = wfc[y].waking /\ R(y).ready = wfc[y].ready /\ R(y).unwait = wfc[y].unwait
             /\ y \in F \cup {t} => R(y).started
             /\ y \notin F \cup {t} => R(y).started = wfc[y].started
             /\ R(y).subs = wfc[y].subs \ F
             /\ wfc[y].torn => R(y).torn
             /\ y # t => R(y).torn = wfc[y].torn
             /\ y = t /\ HalfWoken(t) => R(y).torn
  <2>1. wfc[y] \in WfcType BY DEF TypeInv
  <2> DEFINE b == wfc[y].started \/ y \in F \cup {t}
  <2> DEFINE q == wfc[y].subs \ F
  <2> DEFINE o == wfc[y].torn \/ (y = t /\ HalfWoken(t))
  <2>2. /\ b \in BOOLEAN /\ q \in SUBSET Trx /\ o \in BOOLEAN
        /\ R(y) = [wfc[y] EXCEPT !.started = b, !.subs = q, !.torn = o]
    <3> HIDE DEF HalfWoken
    <3> QED BY <2>1 DEF WfcType
  <2>5. (y \in F \cup {t} => b) /\ (y \notin F \cup {t} => b = wfc[y].started)
    BY <2>1 DEF WfcType, b
  <2>6. (wfc[y].torn => o) /\ (y # t => o = wfc[y].torn) /\ (y = t /\ HalfWoken(t) => o)
    BY <2>1 DEF WfcType, o
  <2> HIDE DEF b, q, o
  <2> DEFINE Z == [wfc[y] EXCEPT !.started = b, !.subs = q, !.torn = o]
  <2>3. Z \in WfcType
    BY <2>1, <2>2 DEF WfcType
  <2>4. /\ Z.waitee = wfc[y].waitee /\ Z.werr = wfc[y].werr /\ Z.walk = wfc[y].walk
        /\ Z.waking = wfc[y].waking /\ Z.ready = wfc[y].ready /\ Z.unwait = wfc[y].unwait
        /\ Z.started = b /\ Z.subs = q /\ Z.torn = o
    BY <2>1, <2>2 DEF WfcType
  <2> QED BY <2>2, <2>3, <2>4, <2>5, <2>6 DEF q
<1> HIDE DEF R
<1>3. \A y \in Trx : wfc'[y] = R(y)
  BY <1>1
<1> QED BY <1>1, <1>2, <1>3

\* The order of the domains goes on in what enters the queue.
LEMMA EnterInOrder ==
  ASSUME TypeInv, GroupInv, WaitInv, ErrInv, NEW t \in Trx, pc[t] = "mayqueue", NEW s \in InSubIdOrder(Followers(t))
  PROVE  LET N == <<t>> \o s IN
         /\ N \in Seq(Trx)
         /\ \A x : In(N, x) <=> x \in Followers(t) \cup {t}
         /\ SeqInj(All \o N) /\ InOrder(All \o N)
<1> DEFINE F == Followers(t)
<1> DEFINE N == <<t>> \o s
<1>0. F \in SUBSET Trx
  BY DEF Followers
<1>1. /\ s \in Seq(Trx) /\ SeqInj(s) /\ (\A x : In(s, x) <=> x \in F)
      /\ \A i, j \in 1 .. Len(s) : i < j => s[i] < s[j]
  BY <1>0, SortedFacts
<1>2. /\ \A w \in F : t \in Earlier(w) /\ w # t /\ w \in Trx /\ pc[w] = "wait" /\ ~wfc[w].started
      /\ t \notin F /\ ~wfc[t].started
  BY FollowersFacts DEF WaitInv, PhaseOK, InGroup, Ending
<1> HIDE DEF F
<1>3. N \in Seq(Trx) /\ SeqInj(N) /\ \A x : In(N, x) <=> In(s, x) \/ x = t
  BY <1>1, <1>2, PushIn
<1>4. \A x : In(N, x) <=> x \in F \cup {t}
  BY <1>1, <1>3
<1>5. \A i, j \in 1 .. Len(N) : i < j => N[i] < N[j]
  <2>1. Len(N) = Len(s) + 1 /\ Len(s) \in Nat /\ N[1] = t /\ \A i \in 1 .. Len(s) : N[i + 1] = s[i]
    BY <1>1
  <2>2. \A i \in 1 .. Len(s) : t < s[i]
    BY <1>1, <1>2 DEF In, Earlier
  <2> HIDE DEF N
  <2>3. ASSUME NEW i \in 1 .. Len(N), NEW j \in 1 .. Len(N), i < j PROVE N[i] < N[j]
    <3>1. j - 1 \in 1 .. Len(s) /\ N[j] = s[j - 1]
      BY <2>1, <2>3
    <3>2. CASE i = 1
      BY <2>1, <2>2, <3>1, <3>2
    <3>3. CASE i # 1
      <4>1. i - 1 \in 1 .. Len(s) /\ N[i] = s[i - 1] /\ i - 1 < j - 1
        BY <2>1, <2>3, <3>3
      <4> QED BY <1>1, <3>1, <4>1
    <3> QED BY <3>2, <3>3
  <2> QED BY <2>3
<1>6. /\ All \in Seq(Trx) /\ SeqInj(All) /\ InOrder(All) /\ \A x \in Trx : In(All, x) <=> wfc[x].started
      /\ \A x : In(All, x) => x \in Trx
  BY EngineStarted DEF GroupInv, LogOK
<1> HIDE DEF N
<1>7. \A x : ~(In(All, x) /\ In(N, x))
  BY <1>2, <1>4, <1>6
<1>8. SeqInj(All \o N)
  BY <1>3, <1>6, <1>7, ConcatIn
<1>9. ASSUME NEW u, NEW w, In(All, u), In(N, w), Domain[u] = Domain[w] PROVE u < w
  <2>1. u \in Trx /\ w \in Trx /\ wfc[u].started /\ ~wfc[w].started /\ u # w /\ pc[w] \in {"wait", "mayqueue"}
    BY <1>2, <1>4, <1>6, <1>9
  <2>2. u \in Nat /\ w \in Nat
    BY <2>1, TrxAssumption
  <2>3. ASSUME w < u PROVE FALSE
    <3>1. w \in Earlier(u)
      BY <1>9, <2>1, <2>3 DEF Earlier
    <3>2. Through(w)
      BY <2>1, <3>1 DEF WaitInv, ClearedOK, AllThrough
    <3> QED BY <2>1, <3>2 DEF Through
  <2> QED BY <2>1, <2>2, <2>3
<1>10. InOrder(All \o N)
  <2> DEFINE R == All \o N
  <2>1. /\ R \in Seq(Trx) /\ Len(R) = Len(All) + Len(N) /\ Len(All) \in Nat /\ Len(N) \in Nat
        /\ \A i \in 1 .. Len(All) : R[i] = All[i]
        /\ \A i \in 1 .. Len(N) : R[Len(All) + i] = N[i]
    BY <1>3, <1>6, ConcatStart
  <2> HIDE DEF R
  <2>2. ASSUME NEW i \in 1 .. Len(R), NEW j \in 1 .. Len(R), i < j, Domain[R[i]] = Domain[R[j]] PROVE R[i] < R[j]
    <3>1. CASE j <= Len(All)
      <4>1. i \in 1 .. Len(All) /\ j \in 1 .. Len(All)
        BY <2>1, <2>2, <3>1
      <4> QED BY <1>6, <2>1, <2>2, <4>1 DEF InOrder
    <3>2. CASE j > Len(All)
      <4> DEFINE b == j - Len(All)
      <4>1. b \in 1 .. Len(N) /\ j = Len(All) + b
        BY <2>1, <3>2
      <4>2. R[j] = N[b]
        <5> HIDE DEF b
        <5> QED BY <2>1, <4>1
      <4>3. CASE i <= Len(All)
        <5>1. i \in 1 .. Len(All)
          BY <2>1, <4>3
        <5>2. R[i] = All[i] /\ In(All, R[i]) /\ In(N, R[j])
          BY <2>1, <4>1, <4>2, <5>1 DEF In
        <5> QED BY <1>9, <2>2, <5>2
      <4>4. CASE i > Len(All)
        <5> DEFINE a == i - Len(All)
        <5>1. a \in 1 .. Len(N) /\ i = Len(All) + a /\ a < b
          BY <2>1, <2>2, <4>4
        <5> HIDE DEF a, b
        <5>2. R[i] = N[a]
          BY <2>1, <5>1
        <5> QED BY <1>5, <4>1, <4>2, <5>1, <5>2
      <4> QED BY <2>1, <4>3, <4>4
    <3> QED BY <2>1, <3>1, <3>2
  <2> QED BY <2>2 DEF InOrder, R
<1> QED BY <1>3, <1>4, <1>8, <1>10 DEF F, N

\* A transaction enters the queue with all who wait for it.
LEMMA EnqueueKeeps ==
  ASSUME TypeInv, GroupInv, WaitInv, ErrInv, NEW t \in Trx, Enqueue(t), UNCHANGED <<rgi, dom>>
  PROVE  TypeInv' /\ GroupInv' /\ WaitInv'
<1>f. PICK F : F = Followers(t)
  OBVIOUS
<1> DEFINE l == IF queue = <<>> THEN "leader" ELSE "participant"
<1>a. /\ pc[t] = "mayqueue" /\ wfc[t].werr = "ok" /\ Entered(t, F) /\ Goto(t, l)
      /\ ent' = [x \in Trx |-> [ent[x] EXCEPT !.qbo = @ \/ x \in F, !.signalled = @ /\ x # t]]
      /\ UNCHANGED <<optimize, lk, busy, binlog, engine>> /\ rgi' = rgi /\ dom' = dom
  BY <1>f DEF Enqueue, Entered
<1>b. /\ pc[t] = "mayqueue" /\ wfc[t].werr = "ok" /\ rgi' = rgi /\ dom' = dom
      /\ optimize' = optimize /\ lk' = lk /\ busy' = busy /\ binlog' = binlog /\ engine' = engine
  BY <1>a
<1>s. PICK s \in InSubIdOrder(F) : queue' = queue \o (<<t>> \o s)
  BY <1>f DEF Enqueue
<1>l. l \in {"leader", "participant"} /\ (l = "leader" => queue = <<>>)
  OBVIOUS
<1> HIDE DEF l
<1>n. PICK N : N = <<t>> \o s
  OBVIOUS
<1>1. /\ N \in Seq(Trx) /\ (\A x : In(N, x) <=> x \in F \cup {t})
      /\ SeqInj(All \o N) /\ InOrder(All \o N) /\ queue' = queue \o N
      /\ N[1] = t /\ Len(N) > 0 /\ F \in SUBSET Trx
  <2>1. F \in SUBSET Trx /\ s \in Seq(Trx)
    <3>1. F \in SUBSET Trx BY <1>f DEF Followers
    <3> QED BY <3>1, SortedFacts
  <2>2. N[1] = t /\ Len(N) > 0
    BY <1>n, <2>1
  <2> QED BY <1>f, <1>s, <1>n, <1>a, <2>1, <2>2, EnterInOrder
<1>2. \A w \in F :
         /\ w \in Trx /\ t \in Earlier(w) /\ w # t
         /\ wfc[w].ready /\ pc[w] = "wait" /\ ~wfc[w].started /\ ~ent[w].qbo
         /\ wfc[w].waitee = Prior(w) /\ Prior(w) # NoTrx /\ w \in wfc[Prior(w)].subs
         /\ wfc[w].unwait # "locked" /\ wfc[w].werr = "ok" /\ ~rgi[w].failed
         /\ Prior(w) \in F \cup {t}
         /\ \A u \in Earlier(w) : u \in Earlier(t) \/ u = t \/ u \in F
  BY <1>f, FollowersFacts
<1>3. /\ ~wfc[t].started /\ ~ent[t].qbo /\ t \notin F /\ AllThrough(t) /\ rgi[t].result = "none"
      /\ ~rgi[t].failed /\ ~wfc[t].ready /\ wfc[t].unwait # "locked"
  <2>1. PhaseOK(t) /\ WaitOK(t) /\ ClearedOK(t) /\ ~rgi[t].failed
    BY <1>a DEF WaitInv, ErrInv, Ending
  <2>2. ~wfc[t].started /\ ~ent[t].qbo /\ rgi[t].result = "none" /\ ~wfc[t].ready /\ wfc[t].unwait # "locked"
    BY <1>a, <2>1 DEF PhaseOK, WaitOK, InGroup, Ending
  <2>3. AllThrough(t)
    <3>1. CASE wfc[t].waitee = NoTrx
      BY <1>a, <2>1, <3>1 DEF ClearedOK
    <3>2. CASE wfc[t].waitee # NoTrx
      <4>1. Prior(t) # NoTrx /\ Through(Prior(t))
        BY <1>a, <2>1, <3>2 DEF WaitOK, Through
      <4> QED BY <4>1, PriorThrough
    <3> QED BY <3>1, <3>2
  <2> QED BY <1>2, <2>1, <2>2, <2>3
<1>4. pc' \in [Trx -> Labels] /\ pc'[t] = l /\ \A x \in Trx \ {t} : pc'[x] = pc[x]
  <2>1. pc' = [pc EXCEPT ![t] = l] /\ l \in Labels /\ pc \in [Trx -> Labels]
    BY <1>a, <1>l DEF Goto, TypeInv, Labels
  <2> QED BY <2>1
<1>5. /\ wfc' \in [Trx -> WfcType]
      /\ \A y \in Trx :
              /\ wfc'[y].waitee = wfc[y].waitee /\ wfc'[y].werr = wfc[y].werr /\ wfc'[y].walk = wfc[y].walk
              /\ wfc'[y].waking = wfc[y].waking /\ wfc'[y].ready = wfc[y].ready /\ wfc'[y].unwait = wfc[y].unwait
              /\ y \in F \cup {t} => wfc'[y].started
              /\ y \notin F \cup {t} => wfc'[y].started = wfc[y].started
              /\ wfc'[y].subs = wfc[y].subs \ F
              /\ wfc[y].torn => wfc'[y].torn
              /\ y # t => wfc'[y].torn = wfc[y].torn
              /\ y = t /\ HalfWoken(t) => wfc'[y].torn
  <2>1. TypeInv /\ Entered(t, F) /\ F \in SUBSET Trx
    BY <1>a, <1>1
  <2> QED BY <2>1, EnteredFacts
<1>6. /\ ent' \in [Trx -> Entries]
      /\ \A x \in Trx : /\ ent'[x].rest = ent[x].rest /\ ent'[x].err = ent[x].err
                        /\ x \in F => ent'[x].qbo
                        /\ x \notin F => ent'[x].qbo = ent[x].qbo
                        /\ x # t => ent'[x].signalled = ent[x].signalled
      /\ ~ent'[t].signalled
  <2> DEFINE R(x) == [ent[x] EXCEPT !.qbo = @ \/ x \in F, !.signalled = @ /\ x # t]
  <2>1. \A x \in Trx : ent[x] \in Entries BY DEF TypeInv, GCTypeOK
  <2>2. ASSUME NEW x \in Trx
        PROVE  /\ R(x) \in Entries /\ R(x).rest = ent[x].rest /\ R(x).err = ent[x].err
               /\ x \in F => R(x).qbo
               /\ x \notin F => R(x).qbo = ent[x].qbo
               /\ x # t => R(x).signalled = ent[x].signalled
               /\ x = t => ~R(x).signalled
    <3> DEFINE b == ent[x].qbo \/ x \in F
    <3> DEFINE c == ent[x].signalled /\ x # t
    <3>1. /\ b \in BOOLEAN /\ c \in BOOLEAN /\ R(x) = [ent[x] EXCEPT !.qbo = b, !.signalled = c]
          /\ (x \in F => b) /\ (x \notin F => b = ent[x].qbo) /\ (x # t => c = ent[x].signalled) /\ (x = t => ~c)
      BY <2>1 DEF Entries
    <3> HIDE DEF b, c, R
    <3> QED BY <2>1, <3>1 DEF Entries
  <2>3. ent' = [x \in Trx |-> R(x)]
    BY <1>a
  <2> HIDE DEF R
  <2> QED BY <2>2, <2>3
<1>q. queue \in Seq(Trx) /\ queue' \in Seq(Trx) /\ \A x : In(queue', x) <=> In(queue, x) \/ x \in F \cup {t}
  <2>1. queue \in Seq(Trx) BY StageTypes
  <2> QED BY <1>1, <2>1, InConcat
<1>7. TypeInv'
  BY <1>b, <1>4, <1>5, <1>6, <1>q DEF TypeInv, GCTypeOK
<1>8. \A x \in Trx : Through(x) => Through(x)'
  BY <1>b, <1>4, <1>5 DEF Through
<1>9. LockOK'
  BY <1>b, <1>l, <1>4 DEF GroupInv, LockOK
<1>10. lk["log"] # t /\ lk["sync"] # t /\ lk["commit"] # t
  BY <1>b DEF GroupInv, LockOK
<1>11. Unwritten' = Unwritten /\ Written' = Written /\ Synced' = Synced /\ Committing' = Committing
  BY <1>b, <1>4, <1>6, <1>10, StageTypes DEF Unwritten, Written, Synced, Committing
<1>12. All' = All \o N
  <2>1. binlog \in Seq(Trx) /\ Unwritten \in Seq(Trx) /\ queue \in Seq(Trx) /\ N \in Seq(Trx)
    BY <1>1, StageTypes
  <2> DEFINE D == Unwritten \o queue
  <2>2. D \in Seq(Trx) /\ Unwritten \o (queue \o N) = D \o N
    BY <2>1, TrxAssoc, InConcat
  <2> HIDE DEF D
  <2>3. (binlog \o D) \o N = binlog \o (D \o N)
    BY <2>1, <2>2, TrxAssoc
  <2> QED BY <1>b, <1>1, <1>11, <2>2, <2>3 DEF All, D
<1>13. LogOK'
  <2>1. \A x \in Trx : In(All', x) <=> wfc'[x].started
    <3>1. All \in Seq(Trx) /\ \A x \in Trx : In(All, x) <=> wfc[x].started
      BY EngineStarted DEF GroupInv, LogOK
    <3>2. \A x : In(All \o N, x) <=> In(All, x) \/ In(N, x)
      BY <1>1, <3>1, InConcat
    <3> QED BY <1>1, <1>5, <1>12, <3>1, <3>2
  <2> QED BY <1>b, <1>1, <1>11, <1>12, <2>1 DEF GroupInv, LogOK
<1>14. ModeOK'
  BY <1>b, <1>l, <1>4, <1>6 DEF GroupInv, ModeOK
<1>15. ASSUME NEW x \in Trx PROVE LeaderOK(x)'
  <2>1. LeaderOK(x) /\ engine' = engine
    BY <1>b DEF GroupInv
  <2>2. queue' # <<>> /\ (queue # <<>> => queue'[1] = queue[1]) /\ (queue = <<>> => queue'[1] = t)
    <3>1. Len(queue') = Len(queue) + Len(N) /\ Len(queue) \in Nat /\ Len(N) \in Nat
          /\ (\A i \in 1 .. Len(queue) : queue'[i] = queue[i])
          /\ (\A i \in 1 .. Len(N) : queue'[Len(queue) + i] = N[i])
      BY <1>1, <1>q, ConcatStart
    <3>2. queue' # <<>>
      BY <1>1, <1>q, <3>1
    <3>3. queue # <<>> => Len(queue) > 0
      BY <1>q
    <3>4. queue = <<>> => Len(queue) = 0
      OBVIOUS
    <3>5. queue = <<>> => queue'[1] = N[1]
      BY <1>1, <3>1, <3>4
    <3>6. queue # <<>> => queue'[1] = queue[1]
      BY <3>1, <3>3
    <3> QED BY <1>1, <3>2, <3>5, <3>6
  <2>3. CASE x = t
    <3>1. /\ pc'[t] \in {"leader", "participant"} /\ (pc'[t] = "leader" => queue = <<>>)
          /\ ~ent'[t].qbo /\ ~ent'[t].signalled
      BY <1>l, <1>3, <1>4, <1>6
    <3> QED BY <2>2, <2>3, <3>1 DEF LeaderOK
  <2>4. CASE x \in F
    <3>1. /\ pc'[x] = "wait" /\ wfc'[x].waitee # NoTrx /\ (ent'[x].signalled => ent[x].signalled)
      BY <1>2, <1>4, <1>5, <1>6, <2>4
    <3> QED BY <2>1, <3>1 DEF LeaderOK
  <2>5. CASE x \notin F \cup {t}
    <3>1. /\ pc'[x] = pc[x] /\ wfc'[x].waitee = wfc[x].waitee /\ ent'[x].signalled = ent[x].signalled
          /\ ent'[x].qbo = ent[x].qbo /\ ent'[x].rest = ent[x].rest /\ (In(queue', x) => In(queue, x))
      BY <1>4, <1>5, <1>6, <1>q, <2>5
    <3> QED BY <2>1, <2>2, <3>1 DEF LeaderOK
  <2> QED BY <2>3, <2>4, <2>5
<1>16. GroupInv'
  BY <1>9, <1>13, <1>14, <1>15 DEF GroupInv
<1>17. ASSUME NEW x \in Trx PROVE PhaseOK(x)'
  <2>1. PhaseOK(x) BY DEF WaitInv
  <2>0. Untorn(x)' => Untorn(x)
    BY <1>5 DEF Untorn, Earlier
  <2>2. CASE x = t
    <3>1. /\ wfc'[t].started /\ pc'[t] \in InGroup /\ pc'[t] \notin Ending /\ rgi'[t].result = "none"
          /\ ~ent'[t].qbo /\ wfc'[t].werr = "ok" /\ ~rgi'[t].failed
      BY <1>b, <1>l, <1>3, <1>4, <1>5, <1>6 DEF InGroup, Ending
    <3> QED BY <2>2, <3>1 DEF PhaseOK
  <2>3. CASE x \in F
    <3>1. /\ wfc'[x].started /\ pc'[x] = "wait" /\ pc[x] = "wait" /\ rgi'[x] = rgi[x]
          /\ ent'[x].qbo /\ wfc'[x].werr = "ok" /\ ~rgi'[x].failed
      BY <1>b, <1>2, <1>4, <1>5, <1>6, <2>3
    <3> QED BY <2>1, <3>1 DEF PhaseOK, Ending
  <2>4. CASE x \notin F \cup {t}
    <3>1. /\ wfc'[x].started = wfc[x].started /\ pc'[x] = pc[x] /\ rgi'[x] = rgi[x]
          /\ ent'[x].qbo = ent[x].qbo /\ wfc'[x].werr = wfc[x].werr
      BY <1>b, <1>4, <1>5, <1>6, <2>4
    <3> QED BY <2>0, <2>1, <3>1 DEF PhaseOK
  <2> QED BY <2>2, <2>3, <2>4
<1>18. ASSUME NEW x \in Trx PROVE ListOK(x)'
  <2>1. ListOK(x) /\ wfc[x].subs \subseteq Trx /\ wfc[x].walk \subseteq Trx
    BY DEF WaitInv, TypeInv, WfcType
  <2>2. ASSUME NEW y \in (wfc[x].subs \ F) \cup wfc[x].walk PROVE ListedOK(x, y)'
    <3>1. y \in Trx /\ ListedOK(x, y)
      BY <2>1 DEF ListOK
    <3>2. y \notin F
      <4> SUFFICES ASSUME y \in F PROVE FALSE OBVIOUS
      <4>1. y \in wfc[x].walk /\ y \in wfc[x].subs
        BY <1>2, <2>2, <3>1 DEF ListedOK
      <4> QED BY <2>1, <4>1 DEF ListOK
    <3>3. /\ wfc'[y].waitee = wfc[y].waitee /\ ent'[y].qbo = ent[y].qbo
          /\ wfc'[x].walk = wfc[x].walk /\ wfc'[x].subs = wfc[x].subs \ F
          /\ (wfc[y].torn => wfc'[y].torn) /\ (wfc[x].started => wfc'[x].started)
      BY <1>5, <1>6, <3>1, <3>2
    <3>4. CASE y # t
      <4>1. wfc'[y].started = wfc[y].started
        BY <1>5, <3>1, <3>2, <3>4
      <4> QED BY <3>1, <3>3, <4>1 DEF ListedOK
    <3>5. CASE y = t
      <4>1. y \in wfc[x].walk => wfc'[y].torn \/ wfc'[x].started
        <5> SUFFICES ASSUME y \in wfc[x].walk PROVE wfc'[y].torn \/ wfc'[x].started
          OBVIOUS
        <5>1. CASE wfc[y].waitee = NoTrx
          <6>1. HalfWoken(t)
            BY <3>5, <5>1 DEF HalfWoken
          <6> QED BY <1>5, <3>5, <6>1
        <5>2. CASE wfc[y].waitee # NoTrx
          <6>1. wfc[y].waitee = x /\ WaitOK(t)
            BY <3>1, <5>2 DEF ListedOK, WaitInv
          <6>2. wfc[x].started
            BY <1>b, <3>5, <5>2, <6>1 DEF WaitOK
          <6> QED BY <3>3, <6>2
        <5> QED BY <5>1, <5>2
      <4> QED BY <3>1, <3>3, <4>1 DEF ListedOK
    <3> QED BY <3>4, <3>5
  <2>3. wfc'[x].subs = wfc[x].subs \ F /\ wfc'[x].walk = wfc[x].walk /\ wfc'[x].waking = wfc[x].waking
    BY <1>5
  <2> QED BY <1>8, <2>1, <2>2, <2>3 DEF ListOK
<1>19. ASSUME NEW x \in Trx PROVE WaitOK(x)'
  <2>1. WaitOK(x) /\ wfc[x].waitee \in Trx \cup {NoTrx}
    BY DEF WaitInv, TypeInv, WfcType
  <2>2. wfc[x].waitee # NoTrx =>
            LET d == wfc[x].waitee IN
            (wfc[d].started \/ d \in F \cup {t} => wfc'[d].started) /\ wfc'[d].subs = wfc[d].subs \ F /\ wfc[d].walk = wfc'[d].walk
    BY <1>5, <2>1
  <2>3. /\ wfc'[x].waitee = wfc[x].waitee /\ wfc'[x].werr = wfc[x].werr /\ wfc'[x].unwait = wfc[x].unwait
        /\ wfc'[x].ready = wfc[x].ready /\ rgi'[x] = rgi[x]
    BY <1>b, <1>5
  <2>4. CASE x = t
    <3>1. ~ent'[t].qbo /\ pc'[t] \in {"leader", "participant"} /\ t \notin F /\ ~ent[t].qbo
      BY <1>3, <1>l, <1>4, <1>6
    <3> QED BY <1>b, <1>3, <2>1, <2>2, <2>3, <2>4, <3>1 DEF WaitOK
  <2>5. CASE x \in F
    <3>1. /\ ent'[x].qbo /\ pc'[x] = "wait" /\ pc[x] = "wait" /\ wfc[x].unwait # "locked" /\ wfc[x].werr = "ok"
          /\ wfc[x].waitee = Prior(x) /\ wfc[x].waitee \in F \cup {t}
      BY <1>2, <1>4, <1>6, <2>5
    <3> QED BY <2>1, <2>2, <2>3, <3>1 DEF WaitOK
  <2>6. CASE x \notin F \cup {t}
    <3>1. pc'[x] = pc[x] /\ ent'[x].qbo = ent[x].qbo /\ wfc'[x].started = wfc[x].started
      BY <1>4, <1>5, <1>6, <2>6
    <3> QED BY <2>1, <2>2, <2>3, <2>6, <3>1 DEF WaitOK
  <2> QED BY <2>4, <2>5, <2>6
<1>20. ASSUME NEW x \in Trx PROVE ClearedOK(x)'
  <2>1. ClearedOK(x) /\ (AllThrough(x) => AllThrough(x)')
    BY <1>8 DEF WaitInv, AllThrough, Earlier
  <2>2. CASE x = t
    BY <1>3, <2>1, <2>2 DEF ClearedOK
  <2>3. CASE x \in F
    <3>1. ASSUME NEW u \in Earlier(x) PROVE Through(u)'
      <4>1. u \in Trx /\ (u \in Earlier(t) \/ u = t \/ u \in F)
        BY <1>2, <2>3 DEF Earlier
      <4>2. CASE u \in Earlier(t)
        BY <1>3, <1>8, <4>1, <4>2 DEF AllThrough
      <4>3. CASE u \in F \cup {t}
        BY <1>5, <4>1, <4>3 DEF Through
      <4> QED BY <4>1, <4>2, <4>3
    <3> QED BY <3>1 DEF ClearedOK, AllThrough
  <2>4. CASE x \notin F \cup {t}
    <3>1. pc'[x] = pc[x] /\ wfc'[x].started = wfc[x].started /\ wfc'[x].waitee = wfc[x].waitee /\ wfc'[x].werr = wfc[x].werr
      BY <1>4, <1>5, <2>4
    <3> QED BY <2>1, <3>1 DEF ClearedOK
  <2> QED BY <2>2, <2>3, <2>4
<1>21. ASSUME NEW x \in Trx PROVE KillOK(x)'
  <2>1. KillOK(x) /\ wfc[x].waitee \in Trx \cup {NoTrx} /\ rgi[x].rowWait \in Trx \cup {NoTrx}
    BY DEF WaitInv, TypeInv, WfcType, RgiType
  <2>2. ASSUME rgi[x].rowWait \in F \cup {t} PROVE FALSE
    <3>0. t # NoTrx /\ \A w \in F : w # NoTrx
      BY <1>2, TrxAssumption
    <3>1. x \in Earlier(rgi[x].rowWait) /\ pc[x] \in {"exec", "retry", "unregister", "rollback"} /\ ~Through(x)
      BY <2>1, <2>2, <3>0, NotThrough DEF KillOK
    <3>2. x \in Earlier(t) \/ x = t \/ x \in F
      BY <1>2, <2>2, <3>1
    <3> QED BY <1>b, <1>2, <1>3, <3>1, <3>2 DEF AllThrough
  <2>3. /\ rgi[x].rowWait # NoTrx => /\ wfc'[rgi[x].rowWait].started = wfc[rgi[x].rowWait].started
                                     /\ pc'[rgi[x].rowWait] = pc[rgi[x].rowWait]
        /\ wfc[x].waitee # NoTrx => wfc'[wfc[x].waitee].waking = wfc[wfc[x].waitee].waking
    BY <1>4, <1>5, <2>1, <2>2
  <2>4. /\ wfc'[x].waitee = wfc[x].waitee /\ rgi'[x] = rgi[x] /\ (ent[x].qbo => ent'[x].qbo) /\ engine' = engine
        /\ (pc'[x] = pc[x] \/ (pc[x] = "mayqueue" /\ pc'[x] \in {"leader", "participant"}))
    BY <1>b, <1>l, <1>4, <1>5, <1>6
  <2> QED BY <2>1, <2>3, <2>4 DEF KillOK
<1>22. \A d \in Domains : DomOK(d)'
  <2>1. \A x \in Trx : pc'[x] \in {"finwaking", "done"} <=> pc[x] \in {"finwaking", "done"}
    BY <1>b, <1>l, <1>4
  <2> QED BY <1>b, <2>1 DEF WaitInv, DomOK, TypeInv, DomType
<1> QED BY <1>7, <1>16, <1>17, <1>18, <1>19, <1>20, <1>21, <1>22 DEF WaitInv

-----------------------------------------------------------------------------
(* What an error leaves behind *)

Others(t) ==
  \A x \in Trx \ {t} :
    /\ pc'[x] = pc[x]
    /\ rgi'[x].failed = rgi[x].failed /\ rgi'[x].result = rgi[x].result /\ rgi'[x].retries = rgi[x].retries
    /\ rgi'[x].spec = rgi[x].spec /\ rgi'[x].killed = rgi[x].killed

StopsSame == \A d \in Domains : dom'[d].stopErr = dom[d].stopErr

WaitsSame(x) ==
  /\ wfc'[x].started = wfc[x].started /\ wfc'[x].torn = wfc[x].torn
  /\ wfc'[x].waitee = wfc[x].waitee /\ wfc'[x].werr = wfc[x].werr
  /\ HalfWoken(x) => HalfWoken(x)'

\* A group that was rolled back before it entered the queue is through only when
\* it has finished.
LEMMA RolledBackThrough ==
  ASSUME NEW u \in Trx, ~wfc[u].started
  PROVE  Through(u) => pc[u] \in {"finwaking", "done"}
BY DEF Through

\* A group that is being woken up still is while the list has it.
LEMMA HalfWokenKept ==
  ASSUME NEW x \in Trx, wfc'[x].waitee = wfc[x].waitee, \A c \in Trx : wfc[c].walk \subseteq wfc'[c].walk
  PROVE  HalfWoken(x) => HalfWoken(x)'
BY DEF HalfWoken

\* A step that does not finish a failed group, and lets x only start to wait
\* or learn of an error, keeps AfterFailed(x).
LEMMA AfterKeeps ==
  ASSUME TypeInv, WaitInv, TypeInv', WaitInv', NEW x \in Trx, AfterFailed(x),
         \A u \in Trx : wfc[u].started => wfc'[u].started,
         \A u \in Trx : rgi'[u].result = "rolledback" /\ pc'[u] \in {"finwaking", "done"} => rgi[u].result = "rolledback",
         Retried(x) => Retried(x)',
         wfc[x].torn => wfc'[x].torn,
         wfc'[x].started => wfc[x].started \/ (wfc'[x].torn /\ pc'[x] # "wait"),
         pc'[x] \in OnItsWay =>
           /\ pc[x] \in OnItsWay
           /\ \/ wfc'[x].waitee = wfc[x].waitee /\ wfc'[x].werr = wfc[x].werr /\ (HalfWoken(x) => HalfWoken(x)')
              \/ wfc'[x].werr # "ok"
              \/ HalfWoken(x)'
  PROVE  AfterFailed(x)'
<1> SUFFICES ASSUME Prior(x) # NoTrx, ~Retried(x)', rgi'[Prior(x)].result = "rolledback", ~wfc'[Prior(x)].started
             PROVE  /\ wfc'[x].started => wfc'[x].torn /\ pc'[x] # "wait"
                    /\ pc'[x] \in OnItsWay => wfc'[x].waitee = Prior(x) \/ wfc'[x].werr # "ok" \/ HalfWoken(x)'
  BY DEF AfterFailed, OnItsWay
<1>u. PICK u \in Trx : u = Prior(x)
  BY PriorLast DEF Earlier
<1>1. CASE ~Through(u)'
  <2>1. ~AllThrough(x)'
    BY <1>1, <1>u, PriorLast DEF AllThrough
  <2>2. ~wfc'[x].started
    BY <2>1 DEF WaitInv, ClearedOK
  <2>3. pc'[x] \in OnItsWay => wfc'[x].waitee = Prior(x) \/ wfc'[x].werr # "ok"
    BY <2>1 DEF WaitInv, ClearedOK, WaitOK, OnItsWay
  <2> QED BY <2>2, <2>3
<1>2. CASE Through(u)'
  <2>1. pc'[u] \in {"finwaking", "done"}
    BY <1>2, <1>u DEF Through
  <2>2. rgi[u].result = "rolledback" /\ ~Retried(x) /\ ~wfc[u].started
    BY <1>u, <2>1
  <2>3. /\ wfc[x].started => wfc[x].torn /\ pc[x] # "wait"
        /\ pc[x] \in OnItsWay => wfc[x].waitee = Prior(x) \/ wfc[x].werr # "ok" \/ HalfWoken(x)
    BY <1>u, <2>2 DEF AfterFailed
  <2>4. wfc[x].started /\ pc[x] # "wait" => pc'[x] # "wait"
    BY DEF WaitInv, PhaseOK, OnItsWay, InGroup, Ending
  <2> QED BY <2>3, <2>4
<1> QED BY <1>1, <1>2

\* A step of t: what it has to do to keep the invariants about errors.
LEMMA FailFrame ==
  ASSUME TypeInv, WaitInv, ErrInv, FailInv, TypeInv', WaitInv', NEW t \in Trx,
         Others(t), StopsSame, \A x \in Trx : wfc[x].started => wfc'[x].started,
         \A x \in Trx \ {t} :
           WaitsSame(x) \/ (AfterFailed(x)' /\ (wfc'[x].waitee # NoTrx => wfc'[x].werr = "ok")),
         rgi'[t].result = "rolledback" /\ pc'[t] \in {"finwaking", "done"} => rgi[t].result = "rolledback",
         pc[t] \in {"finwaking", "done"} => pc'[t] \in {"finwaking", "done"},
         FailOK(t)', AfterFailed(t)', rgi'[t].failed => pc'[t] \in Ending,
         wfc'[t].waitee # NoTrx => wfc'[t].werr = "ok"
  PROVE  ErrInv' /\ FailInv'
<1>0. \A x \in Trx : Through(x) => Through(x)'
  BY DEF Through, Others
<1>1. ASSUME NEW x \in Trx \ {t} PROVE FailOK(x)'
  <2>1. FailOK(x) /\ (AllThrough(x) => AllThrough(x)')
    BY <1>0 DEF FailInv, AllThrough, Earlier
  <2>2. Domain[x] \in Domains
    BY DEF Domains
  <2> QED BY <2>1, <2>2 DEF FailOK, Others, StopsSame, Retried
<1>2. ASSUME NEW x \in Trx \ {t} PROVE AfterFailed(x)'
  <2>1. AfterFailed(x) /\ \A u \in Trx : rgi'[u].result = "rolledback" /\ pc'[u] \in {"finwaking", "done"} => rgi[u].result = "rolledback"
    BY DEF FailInv, Others
  <2>2. (Retried(x) => Retried(x)') /\ pc'[x] = pc[x]
    BY DEF Others, Retried
  <2>3. CASE WaitsSame(x)
    <3>1. /\ wfc'[x].started = wfc[x].started /\ wfc'[x].torn = wfc[x].torn
          /\ wfc'[x].waitee = wfc[x].waitee /\ wfc'[x].werr = wfc[x].werr
          /\ HalfWoken(x) => HalfWoken(x)'
      BY <2>3 DEF WaitsSame
    <3> QED BY <2>1, <2>2, <3>1, AfterKeeps
  <2> QED BY <2>3
<1>3. ASSUME NEW d \in Domains PROVE StopOK(d)'
  <2>1. StopOK(d) /\ dom'[d].stopErr = dom[d].stopErr /\ dom[d].stopErr \in Trx \cup {0}
    BY DEF FailInv, StopsSame, TypeInv, DomType
  <2> QED BY <2>1 DEF StopOK, Others
<1>4. ASSUME NEW x \in Trx \ {t} PROVE (wfc'[x].waitee # NoTrx => wfc'[x].werr = "ok") /\ (rgi'[x].failed => pc'[x] \in Ending)
  BY DEF ErrInv, Others, WaitsSame
<1>5. ErrInv'
  BY <1>4 DEF ErrInv
<1>6. FailInv'
  BY <1>1, <1>2, <1>3 DEF FailInv
<1> QED BY <1>5, <1>6

\* A step of t that changes nothing of who waits for whom.
LEMMA PlainFail ==
  ASSUME TypeInv, WaitInv, ErrInv, FailInv, TypeInv', WaitInv', NEW t \in Trx,
         Others(t), StopsSame, \A x \in Trx : WaitsSame(x),
         {pc[t], pc'[t]} \cap {"finwaking", "done"} = {},
         rgi'[t].spec = rgi[t].spec,
         rgi'[t].result = "rolledback" => rgi'[t].failed,
         rgi'[t].failed => pc'[t] \in Ending,
         rgi'[t].killed = "deadlock" => rgi[t].killed = "deadlock",
         pc'[t] \in OnItsWay => pc[t] \in OnItsWay,
         pc'[t] \in HasRowLocks => pc[t] \in HasRowLocks \/ AllThrough(t),
         Retried(t) => Retried(t)',
         pc'[t] \in Retrying => Retried(t)',
         Retried(t)' => rgi[t].spec = "wait" \/ pc'[t] \in Retrying \cup Ending
  PROVE  ErrInv' /\ FailInv'
<1>1. \A x \in Trx : Through(x) => Through(x)'
  BY DEF Through, Others, WaitsSame
<1>2. FailOK(t) /\ AfterFailed(t) /\ (AllThrough(t) => AllThrough(t)')
  BY <1>1 DEF FailInv, AllThrough, Earlier
<1>3. FailOK(t)'
  BY <1>2 DEF FailOK
<1>s. /\ \A x \in Trx : wfc[x].started => wfc'[x].started
      /\ wfc'[t].started = wfc[t].started /\ wfc'[t].torn = wfc[t].torn
      /\ wfc'[t].waitee = wfc[t].waitee /\ wfc'[t].werr = wfc[t].werr
      /\ HalfWoken(t) => HalfWoken(t)'
  BY DEF WaitsSame
<1>4. AfterFailed(t)'
  <2>1. \A u \in Trx : rgi'[u].result = "rolledback" /\ pc'[u] \in {"finwaking", "done"} => rgi[u].result = "rolledback"
    BY DEF Others
  <2> QED BY <1>2, <1>s, <2>1, AfterKeeps
<1>5. wfc'[t].waitee # NoTrx => wfc'[t].werr = "ok"
  BY <1>s DEF ErrInv
<1> QED BY <1>3, <1>4, <1>5, <1>s, FailFrame

\* ... and does not start a retry.
LEMMA PlainSame ==
  ASSUME TypeInv, WaitInv, ErrInv, FailInv, TypeInv', WaitInv', NEW t \in Trx,
         Others(t), StopsSame, \A x \in Trx : WaitsSame(x),
         {pc[t], pc'[t]} \cap {"finwaking", "done"} = {},
         rgi'[t].spec = rgi[t].spec,
         rgi'[t].retries = rgi[t].retries,
         rgi'[t].result = "rolledback" => rgi'[t].failed,
         rgi'[t].failed => pc'[t] \in Ending,
         rgi'[t].killed = "deadlock" => rgi[t].killed = "deadlock",
         pc'[t] \in OnItsWay => pc[t] \in OnItsWay,
         pc'[t] \in HasRowLocks => pc[t] \in HasRowLocks \/ AllThrough(t),
         pc'[t] \in Retrying => pc[t] \in Retrying,
         pc[t] \in Retrying \cup Ending => pc'[t] \in Retrying \cup Ending
  PROVE  ErrInv' /\ FailInv'
<1>1. FailOK(t) /\ (Retried(t)' <=> Retried(t))
  BY DEF FailInv, Retried
<1>2. /\ Retried(t) => Retried(t)'
      /\ pc'[t] \in Retrying => Retried(t)'
      /\ Retried(t)' => rgi[t].spec = "wait" \/ pc'[t] \in Retrying \cup Ending
  BY <1>1 DEF FailOK
<1> QED BY <1>2, PlainFail

AllInv == TypeInv /\ GroupInv /\ WaitInv /\ ErrInv /\ FailInv

\* A step of t that sets its place.
LEMMA GotoFacts ==
  ASSUME TypeInv, NEW t \in Trx, NEW l, Goto(t, l)
  PROVE  pc'[t] = l /\ \A x \in Trx \ {t} : pc'[x] = pc[x]
BY DEF Goto, TypeInv

\* What signal_error_to_sql_driver_thread() does
LEMMA FailFacts ==
  ASSUME TypeInv, NEW t \in Trx, Fail(t)
  PROVE  /\ Others(t) /\ StopsSame /\ pc'[t] = "finwait"
         /\ rgi'[t].failed /\ rgi'[t].spec = rgi[t].spec /\ rgi'[t].killed = "no" /\ rgi'[t].retries = rgi[t].retries
<1> DEFINE r == Released(rgi, t)
<1>a. r \in [Trx -> RgiType] /\ dom' = Unmarked(t)
  BY UpdateTypes DEF Fail
<1>b. \A x \in Trx : /\ r[x].killed = rgi[x].killed /\ r[x].result = rgi[x].result
                     /\ r[x].failed = rgi[x].failed /\ r[x].spec = rgi[x].spec /\ r[x].retries = rgi[x].retries
  BY DEF Released, TypeInv, RgiType
<1>c. rgi' = [r EXCEPT ![t].failed = TRUE, ![t].marked = FALSE,
                  ![t].result = IF @ = "none" THEN "rolledback" ELSE @, ![t].killed = "no"]
  BY DEF Fail
<1> HIDE DEF r
<1>d. /\ \A x \in Trx \ {t} : rgi'[x] = r[x]
      /\ rgi'[t].failed /\ rgi'[t].spec = r[t].spec /\ rgi'[t].killed = "no" /\ rgi'[t].retries = r[t].retries
  <2> DEFINE R == [r[t] EXCEPT !.failed = TRUE, !.marked = FALSE,
                    !.result = IF @ = "none" THEN "rolledback" ELSE @, !.killed = "no"]
  <2>1. rgi' = [r EXCEPT ![t] = R]
    BY <1>a, <1>c
  <2>2. R.killed = "no" /\ R.failed /\ R.spec = r[t].spec /\ R.retries = r[t].retries
    BY <1>a DEF RgiType
  <2> HIDE DEF R
  <2> QED BY <2>1, <2>2, <1>a
<1>e. StopsSame
  BY <1>a, UpdateTypes DEF StopsSame
<1>f. pc'[t] = "finwait" /\ \A x \in Trx \ {t} : pc'[x] = pc[x]
  BY GotoFacts DEF Fail
<1> QED BY <1>b, <1>d, <1>e, <1>f DEF Others

\* A group gives up for good.
LEMMA FailPlain ==
  ASSUME AllInv, TypeInv', WaitInv', NEW t \in Trx, Fail(t), wfc' = wfc \/ WaitDone(t), pc[t] \notin {"finwaking", "done"}
  PROVE  ErrInv' /\ FailInv'
<1>1. /\ Others(t) /\ StopsSame /\ pc'[t] = "finwait"
      /\ rgi'[t].failed /\ rgi'[t].spec = rgi[t].spec /\ rgi'[t].killed = "no" /\ rgi'[t].retries = rgi[t].retries
  BY FailFacts DEF AllInv
<1>2. \A x \in Trx : WaitsSame(x)
  BY WaitDoneFacts DEF WaitsSame, HalfWoken, AllInv
<1> QED BY <1>1, <1>2, PlainSame DEF AllInv, OnItsWay, HasRowLocks, Retrying, Ending

\* A step of t that changes its place only.
LEMMA PlacePlain ==
  ASSUME AllInv, TypeInv', WaitInv', NEW t \in Trx, NEW l, Goto(t, l), UNCHANGED rgi, StopsSame, \A x \in Trx : WaitsSame(x),
         pc[t] \notin {"finwaking", "done"}, l \notin {"finwaking", "done"},
         pc[t] \notin Ending \/ l \in Ending,
         l \in OnItsWay => pc[t] \in OnItsWay,
         l \in HasRowLocks => pc[t] \in HasRowLocks \/ AllThrough(t),
         l \in Retrying => pc[t] \in Retrying,
         pc[t] \in Retrying => l \in Retrying \cup Ending
  PROVE  ErrInv' /\ FailInv'
<1>1. pc'[t] = l /\ \A x \in Trx \ {t} : pc'[x] = pc[x]
  BY GotoFacts DEF AllInv
<1>2. Others(t)
  BY <1>1 DEF Others
<1>3. rgi'[t].failed => pc'[t] \in Ending
  BY <1>1 DEF AllInv, ErrInv
<1>4. rgi'[t].result = "rolledback" => rgi'[t].failed
  BY DEF AllInv, FailInv, FailOK
<1> QED BY <1>1, <1>2, <1>3, <1>4, PlainSame DEF AllInv

\* An error, temporary or not.
LEMMA ErrorPlain ==
  ASSUME AllInv, TypeInv', WaitInv', NEW t \in Trx, NEW e, Error(t, e), wfc' = wfc \/ WaitDone(t),
         pc[t] \in {"exec", "commit", "mayqueue"}
  PROVE  ErrInv' /\ FailInv'
<1>1. CASE Fail(t)
  BY <1>1, FailPlain
<1>2. CASE ~Fail(t)
  <2>1. Goto(t, "retry") /\ rgi' = [rgi EXCEPT ![t].retries = @ + 1] /\ dom' = dom /\ rgi \in [Trx -> RgiType]
    BY <1>2 DEF Error, AllInv, TypeInv
  <2>2. pc'[t] = "retry" /\ \A x \in Trx \ {t} : pc'[x] = pc[x]
    BY <2>1, GotoFacts DEF AllInv
  <2>3. \A x \in Trx : WaitsSame(x)
    BY WaitDoneFacts DEF WaitsSame, HalfWoken, AllInv
  <2>4. StopsSame
    BY <2>1 DEF StopsSame
  <2>5. /\ \A x \in Trx : rgi'[x].failed = rgi[x].failed /\ rgi'[x].result = rgi[x].result
                          /\ rgi'[x].spec = rgi[x].spec /\ rgi'[x].killed = rgi[x].killed
        /\ \A x \in Trx \ {t} : rgi'[x].retries = rgi[x].retries
        /\ rgi'[t].retries = rgi[t].retries + 1 /\ rgi[t].retries \in 0 .. MaxRetries /\ MaxRetries \in Nat
    BY <2>1, GroupsAssumption DEF RgiType
  <2>6. Others(t)
    BY <2>2, <2>5 DEF Others
  <2>7. Retried(t)'
    BY <2>5 DEF Retried
  <2>8. ~rgi[t].failed /\ (rgi[t].result = "rolledback" => rgi[t].failed)
    BY DEF AllInv, ErrInv, FailInv, FailOK, Ending
  <2> QED BY <2>2, <2>3, <2>4, <2>5, <2>6, <2>7, <2>8, PlainFail DEF AllInv, OnItsWay, HasRowLocks, Retrying, Ending
<1> QED BY <1>1, <1>2

\* An error of an event, of a stop in mid-group, or of the prior commit.
LEMMA ExecFails ==
  ASSUME AllInv, TypeInv', WaitInv', NEW t \in Trx, ExecError(t) \/ AbortHalf(t) \/ PriorFailed(t)
  PROVE  ErrInv' /\ FailInv'
<1>1. CASE ExecError(t)
  <2>1. wfc' = wfc /\ pc[t] \in {"exec", "commit"} /\ \E e \in Faults \cup {"kill"} : Error(t, e)
    BY <1>1, GroupsAssumption DEF ExecError
  <2> QED BY <2>1, ErrorPlain
<1>2. CASE AbortHalf(t)
  BY <1>2, FailPlain DEF AbortHalf
<1>3. CASE PriorFailed(t)
  BY <1>3, ErrorPlain DEF PriorFailed
<1> QED BY <1>1, <1>2, <1>3

\* A group has applied its events and announces its commit.
LEMMA ExecuteFail ==
  ASSUME AllInv, TypeInv', WaitInv', NEW t \in Trx, Execute(t)
  PROVE  ErrInv' /\ FailInv'
<1>1. pc[t] = "exec" /\ Goto(t, "commit") /\ wfc' = wfc /\ Mark(t)
  BY DEF Execute
<1>2. pc'[t] = "commit" /\ \A x \in Trx \ {t} : pc'[x] = pc[x]
  BY <1>1, GotoFacts DEF AllInv
<1>3. \A x \in Trx : rgi'[x].failed = rgi[x].failed /\ rgi'[x].result = rgi[x].result
                     /\ rgi'[x].spec = rgi[x].spec /\ rgi'[x].killed = rgi[x].killed /\ rgi'[x].retries = rgi[x].retries
  <2>1. rgi' = [rgi EXCEPT ![t].marked = TRUE] /\ rgi \in [Trx -> RgiType]
    BY <1>1 DEF Mark, AllInv, TypeInv
  <2> QED BY <2>1 DEF RgiType
<1>4. StopsSame
  <2>1. dom' = [dom EXCEPT ![Domain[t]].count = @ + (IF rgi[t].marked THEN 0 ELSE 1)] /\ dom \in [Domains -> DomType]
    BY <1>1 DEF Mark, AllInv, TypeInv
  <2> QED BY <2>1 DEF DomType, StopsSame
<1>5. Others(t)
  BY <1>2, <1>3 DEF Others
<1>6. \A x \in Trx : WaitsSame(x)
  BY <1>1 DEF WaitsSame, HalfWoken
<1>7. ~rgi[t].failed /\ (rgi[t].result = "rolledback" => rgi[t].failed)
  BY <1>1 DEF AllInv, ErrInv, FailInv, FailOK, Ending
<1> QED BY <1>1, <1>2, <1>3, <1>4, <1>5, <1>6, <1>7, PlainSame DEF AllInv, OnItsWay, HasRowLocks, Retrying, Ending

\* What a group that ends with a commit, or is skipped, changes of itself
LEMMA EndPlain ==
  ASSUME AllInv, TypeInv', WaitInv', NEW t \in Trx, Goto(t, "finwait"), dom' = dom, wfc' = wfc \/ WaitDone(t),
         pc[t] \in {"return", "skipwait"},
         \A x \in Trx : rgi'[x].failed = rgi[x].failed /\ rgi'[x].spec = rgi[x].spec /\ rgi'[x].killed = rgi[x].killed,
         \A x \in Trx : rgi'[x].retries = rgi[x].retries,
         \A x \in Trx \ {t} : rgi'[x].result = rgi[x].result,
         rgi'[t].result \in {"committed", "skipped"}
  PROVE  ErrInv' /\ FailInv'
<1>2. pc'[t] = "finwait" /\ \A x \in Trx \ {t} : pc'[x] = pc[x]
  BY GotoFacts DEF AllInv
<1>4. StopsSame
  BY DEF StopsSame
<1>5. Others(t)
  BY <1>2 DEF Others
<1>6. \A x \in Trx : WaitsSame(x)
  BY WaitDoneFacts DEF WaitsSame, HalfWoken, AllInv
<1> QED BY <1>2, <1>4, <1>5, <1>6, PlainSame DEF AllInv, OnItsWay, HasRowLocks, Retrying, Ending

\* The end of a commit.
LEMMA CommitFail ==
  ASSUME AllInv, TypeInv', WaitInv', NEW t \in Trx, Commit(t)
  PROVE  ErrInv' /\ FailInv'
<1>0. pc[t] = "return" /\ ~ent[t].err /\ wfc[t].werr # "kill"
  BY DEF Commit, AllInv, GroupInv, ModeOK, WaitInv, PhaseOK
<1>f. CASE wfc[t].werr # "ok"
  <2>1. wfc[t].werr = "prior"
    BY <1>0, <1>f DEF AllInv, TypeInv, WfcType, WakeupErrors
  <2>2. Fail(t) /\ WaitDone(t)
    BY <1>0, <2>1 DEF Commit, Error, Temporary, ConvertedToDeadlock
  <2> QED BY <1>0, <2>2, FailPlain
<1> SUFFICES ASSUME wfc[t].werr = "ok" PROVE ErrInv' /\ FailInv'
  BY <1>f
<1>1. pc[t] = "return" /\ ~ent[t].err /\ wfc[t].werr = "ok"
  BY <1>0
<1>2. WaitDone(t) /\ rgi' = [Released(rgi, t) EXCEPT ![t].result = "committed"] /\ Goto(t, "finwait") /\ dom' = dom
  BY <1>1 DEF Commit
<1> DEFINE r == Released(rgi, t)
<1>3. r \in [Trx -> RgiType]
  BY UpdateTypes DEF AllInv
<1>4. \A x \in Trx : /\ r[x].killed = rgi[x].killed /\ r[x].result = rgi[x].result
                     /\ r[x].failed = rgi[x].failed /\ r[x].spec = rgi[x].spec /\ r[x].retries = rgi[x].retries
  BY DEF Released, AllInv, TypeInv, RgiType
<1>5. rgi' = [r EXCEPT ![t].result = "committed"]
  BY <1>2
<1> HIDE DEF r
<1>6. /\ \A x \in Trx : rgi'[x].failed = r[x].failed /\ rgi'[x].spec = r[x].spec /\ rgi'[x].killed = r[x].killed /\ rgi'[x].retries = r[x].retries
      /\ \A x \in Trx \ {t} : rgi'[x].result = r[x].result
      /\ rgi'[t].result = "committed"
  BY <1>3, <1>5 DEF RgiType
<1>7. /\ \A x \in Trx : rgi'[x].failed = rgi[x].failed /\ rgi'[x].spec = rgi[x].spec /\ rgi'[x].killed = rgi[x].killed /\ rgi'[x].retries = rgi[x].retries
      /\ \A x \in Trx \ {t} : rgi'[x].result = rgi[x].result
  BY <1>4, <1>6
<1> QED BY <1>1, <1>2, <1>6, <1>7, EndPlain

\* The wait of a group that must not run, or is skipped, is over.
LEMMA SpeculateFail ==
  ASSUME AllInv, TypeInv', WaitInv', NEW t \in Trx, SpeculateWait(t) \/ Skip(t)
  PROVE  ErrInv' /\ FailInv'
<1>0. pc[t] \in {"specwait", "skipwait"} /\ wfc[t].waitee = NoTrx /\ WaitDone(t)
  BY DEF SpeculateWait, Skip, WaitOver
<1>1. CASE Fail(t)
  BY <1>0, <1>1, FailPlain
<1>2. CASE SpeculateWait(t) /\ ~Fail(t)
  <2>1. pc[t] = "specwait" /\ wfc[t].werr = "ok" /\ Goto(t, "exec") /\ UNCHANGED <<rgi, dom>>
    BY <1>2 DEF SpeculateWait
  <2>2. AllThrough(t)
    BY <1>0, <2>1 DEF AllInv, WaitInv, ClearedOK
  <2>3. StopsSame
    BY <2>1 DEF StopsSame
  <2>4. \A x \in Trx : WaitsSame(x)
    BY <1>0, WaitDoneFacts DEF WaitsSame, HalfWoken, AllInv
  <2> QED BY <2>1, <2>2, <2>3, <2>4, PlacePlain DEF OnItsWay, HasRowLocks, Retrying, Ending
<1>3. CASE Skip(t) /\ ~Fail(t)
  <2>1. pc[t] = "skipwait" /\ rgi' = [rgi EXCEPT ![t].result = "skipped"] /\ Goto(t, "finwait") /\ dom' = dom
    <3>1. pc[t] = "skipwait"
      BY <1>3 DEF Skip
    <3>2. ~rgi[t].failed
      BY <3>1 DEF AllInv, ErrInv, Ending
    <3> QED BY <1>3, <3>1, <3>2 DEF Skip
  <2>2. rgi \in [Trx -> RgiType]
    BY DEF AllInv, TypeInv
  <2>3. /\ \A x \in Trx : rgi'[x].failed = rgi[x].failed /\ rgi'[x].spec = rgi[x].spec /\ rgi'[x].killed = rgi[x].killed /\ rgi'[x].retries = rgi[x].retries
        /\ \A x \in Trx \ {t} : rgi'[x].result = rgi[x].result
        /\ rgi'[t].result = "skipped"
    BY <2>1, <2>2 DEF RgiType
  <2> QED BY <1>0, <2>1, <2>3, EndPlain
<1> QED BY <1>1, <1>2, <1>3

\* Nothing changes but what a thread waits for
LEMMA StillPlain ==
  ASSUME AllInv, TypeInv', WaitInv', UNCHANGED pc, StopsSame, \A x \in Trx : WaitsSame(x),
         \A x \in Trx : rgi'[x].failed = rgi[x].failed /\ rgi'[x].result = rgi[x].result
                        /\ rgi'[x].spec = rgi[x].spec /\ rgi'[x].retries = rgi[x].retries,
         \A x \in Trx : rgi'[x].killed = "deadlock" => rgi[x].killed = "deadlock" \/ rgi[x].spec # "wait"
  PROVE  ErrInv' /\ FailInv'
<1>1. \A x \in Trx : Through(x) => Through(x)'
  BY DEF Through, WaitsSame, HalfWoken
<1>2. ASSUME NEW x \in Trx PROVE FailOK(x)'
  <2>1. FailOK(x) /\ (AllThrough(x) => AllThrough(x)') /\ Domain[x] \in Domains
    BY <1>1 DEF AllInv, FailInv, AllThrough, Earlier, Domains
  <2>2. wfc'[x].started = wfc[x].started
    BY DEF WaitsSame
  <2> QED BY <2>1, <2>2 DEF FailOK, StopsSame, Retried
<1>3. ASSUME NEW x \in Trx PROVE AfterFailed(x)'
  <2>1. AfterFailed(x) /\ WaitsSame(x) /\ TypeInv /\ WaitInv
    BY DEF AllInv, FailInv
  <2>2. \A u \in Trx : rgi'[u].result = "rolledback" /\ pc'[u] \in {"finwaking", "done"} => rgi[u].result = "rolledback"
    OBVIOUS
  <2>3. /\ \A u \in Trx : wfc[u].started => wfc'[u].started
        /\ wfc'[x].started = wfc[x].started /\ wfc'[x].torn = wfc[x].torn
        /\ wfc'[x].waitee = wfc[x].waitee /\ wfc'[x].werr = wfc[x].werr
        /\ HalfWoken(x) => HalfWoken(x)'
    BY DEF WaitsSame
  <2>4. Retried(x) => Retried(x)'
    BY DEF Retried
  <2> QED BY <2>1, <2>2, <2>3, <2>4, AfterKeeps
<1>4. ASSUME NEW d \in Domains PROVE StopOK(d)'
  BY DEF StopOK, AllInv, FailInv, StopsSame
<1>5. ErrInv'
  BY DEF ErrInv, AllInv, WaitsSame, HalfWoken
<1> QED BY <1>2, <1>3, <1>4, <1>5 DEF FailInv

\* STOP SLAVE, a kill, or a wait for a row lock.
LEMMA DisturbFail ==
  ASSUME AllInv, TypeInv', WaitInv', NEW t \in Trx, NEW u \in Trx, Stop \/ UserKill(t) \/ DeadlockKill(t) \/ RowWait(u, t)
  PROVE  ErrInv' /\ FailInv'
<1>0. rgi \in [Trx -> RgiType] /\ dom \in [Domains -> DomType]
  BY DEF AllInv, TypeInv
<1>1. CASE Stop
  <2>1. UNCHANGED <<wfc, pc, rgi>> /\ dom' = [d \in Domains |-> [dom[d] EXCEPT !.stopCount = dom[d].count]]
    BY <1>1 DEF Stop
  <2>2. StopsSame
    BY <1>0, <2>1 DEF StopsSame, DomType
  <2>3. \A x \in Trx : WaitsSame(x)
    BY <2>1 DEF WaitsSame, HalfWoken
  <2> QED BY <2>1, <2>2, <2>3, StillPlain
<1>2. CASE UserKill(t) \/ DeadlockKill(t) \/ RowWait(u, t)
  <2>1. UNCHANGED <<wfc, pc, dom>>
    BY <1>2 DEF UserKill, DeadlockKill, RowWait
  <2>2. StopsSame /\ \A x \in Trx : WaitsSame(x)
    BY <2>1 DEF StopsSame, WaitsSame, HalfWoken
  <2>3. \A x \in Trx : rgi'[x].failed = rgi[x].failed /\ rgi'[x].result = rgi[x].result /\ rgi'[x].spec = rgi[x].spec /\ rgi'[x].retries = rgi[x].retries
    BY <1>0, <1>2 DEF UserKill, DeadlockKill, RowWait, RgiType
  <2>4. ASSUME NEW x \in Trx, rgi'[x].killed = "deadlock" PROVE rgi[x].killed = "deadlock" \/ rgi[x].spec # "wait"
    <3>1. CASE UserKill(t)
      BY <1>0, <2>4, <3>1 DEF UserKill, RgiType
    <3>2. CASE RowWait(u, t)
      BY <1>0, <2>4, <3>2 DEF RowWait, RgiType
    <3>3. CASE DeadlockKill(t)
      <4>1. x # t => rgi[x].killed = "deadlock"
        BY <1>0, <2>4, <3>3 DEF DeadlockKill, RgiType
      <4>2. PICK v \in Trx : rgi[v].rowWait = t
        BY <3>3 DEF DeadlockKill
      <4>3. v \in Earlier(t) /\ pc[t] \in HasRowLocks /\ ~Through(v)
        BY <4>2, TrxAssumption, NotThrough DEF AllInv, WaitInv, KillOK
      <4>4. rgi[t].spec # "wait"
        BY <4>3 DEF AllInv, FailInv, FailOK, AllThrough
      <4> QED BY <4>1, <4>4
    <3> QED BY <1>2, <3>1, <3>2, <3>3
  <2> QED BY <2>1, <2>2, <2>3, <2>4, StillPlain
<1> QED BY <1>1, <1>2

\* A step of t before its end, which changes of the waits only its own.
LEMMA OwnFail ==
  ASSUME AllInv, TypeInv', WaitInv', NEW t \in Trx, Others(t), StopsSame,
         \A x \in Trx \ {t} : WaitsSame(x), wfc'[t].started = wfc[t].started /\ wfc'[t].torn = wfc[t].torn,
         {pc[t], pc'[t]} \cap {"finwaking", "done"} = {},
         FailOK(t)', AfterFailed(t)', rgi'[t].failed => pc'[t] \in Ending,
         wfc'[t].waitee # NoTrx => wfc'[t].werr = "ok"
  PROVE  ErrInv' /\ FailInv'
<1>1. \A x \in Trx : wfc[x].started => wfc'[x].started
  BY DEF WaitsSame
<1> QED BY <1>1, FailFrame DEF AllInv

\* A kill interrupts a wait for the prior commit.
LEMMA GiveUpFail ==
  ASSUME AllInv, TypeInv', WaitInv', NEW t \in Trx, GiveUp(t)
  PROVE  ErrInv' /\ FailInv'
<1>1. UNCHANGED <<pc, rgi, dom>> /\ wfc' = [wfc EXCEPT ![t].unwait = "locked", ![t].ready = FALSE] /\ wfc \in [Trx -> WfcType]
  BY DEF GiveUp, GiveUpWait, AllInv, TypeInv
<1>2. \A x \in Trx : WaitsSame(x)
  BY <1>1 DEF WaitsSame, HalfWoken, WfcType
<1>3. StopsSame
  BY <1>1 DEF StopsSame
<1> QED BY <1>1, <1>2, <1>3, StillPlain

\* A killed waiter leaves the list: with an error, which keeps it from the queue.
LEMMA RemoveFail ==
  ASSUME AllInv, TypeInv', WaitInv', NEW t \in Trx, RemoveFromList(t)
  PROVE  ErrInv' /\ FailInv'
<1> DEFINE u == wfc[t].waitee
<1>a. wfc[t].unwait = "locked" /\ UNCHANGED <<pc, rgi, dom>>
  BY DEF RemoveFromList, RemoveSelf
<1>b. pc[t] \in {"wait", "return"} /\ u \in Trx /\ u # t
  <2>1. pc[t] \in {"wait", "return"} /\ u # NoTrx /\ u \in Trx /\ u = Prior(t)
    BY <1>a DEF AllInv, WaitInv, WaitOK, TypeInv, WfcType
  <2> QED BY <2>1, PriorLast, TrxAssumption DEF Earlier
<1>1. CASE wfc' = [wfc EXCEPT ![t].unwait = "woken"]
  <2>1. wfc \in [Trx -> WfcType] BY DEF AllInv, TypeInv
  <2>2. \A x \in Trx : WaitsSame(x)
    BY <1>1, <2>1 DEF WaitsSame, HalfWoken, WfcType
  <2>3. StopsSame
    BY <1>a DEF StopsSame
  <2> QED BY <1>a, <2>2, <2>3, StillPlain
<1>2. CASE Leaves(t, u, "kill")
  <2>a. Leaves(t, u, "kill")
    BY <1>2
  <2>0. u \in Trx /\ u # t /\ "kill" \in WakeupErrors /\ TypeInv
    BY <1>b DEF AllInv, WakeupErrors
  <2> HIDE DEF u
  <2>1. /\ \A x \in Trx \ {t} : wfc'[x].started = wfc[x].started /\ wfc'[x].torn = wfc[x].torn /\ wfc'[x].waitee = wfc[x].waitee /\ wfc'[x].werr = wfc[x].werr
        /\ \A x \in Trx : wfc'[x].walk = wfc[x].walk
        /\ wfc'[t].started = wfc[t].started /\ wfc'[t].torn = wfc[t].torn /\ wfc'[t].waitee = NoTrx /\ wfc'[t].werr = "kill"
    <3>0. PICK v \in Trx : v = u /\ v # t
      BY <2>0
    <3>1. PICK e \in WakeupErrors : e = "kill" /\ Leaves(t, v, e)
      BY <2>a, <2>0, <3>0
    <3>2. /\ wfc' \in [Trx -> WfcType]
          /\ \A x \in Trx :
              /\ wfc'[x].walk = wfc[x].walk /\ wfc'[x].waking = wfc[x].waking /\ wfc'[x].ready = wfc[x].ready
              /\ wfc'[x].started = wfc[x].started /\ wfc'[x].torn = wfc[x].torn
              /\ wfc'[x].subs = IF x = v THEN wfc[x].subs \ {t} ELSE wfc[x].subs
              /\ x # t => wfc'[x].waitee = wfc[x].waitee /\ wfc'[x].werr = wfc[x].werr /\ wfc'[x].unwait = wfc[x].unwait
          /\ wfc'[t].waitee = NoTrx /\ wfc'[t].werr = e /\ wfc'[t].unwait = "no"
      BY <2>0, <3>0, <3>1, LeftFacts, SMTT(60)
    <3> QED BY <3>1, <3>2
  <2>2. Others(t) /\ StopsSame /\ \A x \in Trx \ {t} : WaitsSame(x)
    BY <1>a, <2>1 DEF Others, StopsSame, WaitsSame, HalfWoken
  <2>3. AfterFailed(t)'
    <3>1. AfterFailed(t) /\ TypeInv /\ WaitInv BY DEF AllInv, FailInv
    <3>2. \A x \in Trx : rgi'[x].result = "rolledback" /\ pc'[x] \in {"finwaking", "done"} => rgi[x].result = "rolledback"
      BY <1>a
    <3>3. (Retried(t) => Retried(t)') /\ pc'[t] = pc[t] /\ \A x \in Trx : wfc[x].started => wfc'[x].started
      BY <1>a, <2>1 DEF Retried
    <3> QED BY <2>1, <3>1, <3>2, <3>3, AfterKeeps
  <2>4. FailOK(t)'
    <3>1. FailOK(t) /\ Domain[t] \in Domains BY DEF AllInv, FailInv, Domains
    <3>2. \A x \in Trx : Through(x) => Through(x)'
      BY <1>a, <2>1 DEF Through
    <3>3. AllThrough(t) => AllThrough(t)'
      BY <3>2 DEF AllThrough, Earlier
    <3> QED BY <1>a, <2>1, <3>1, <3>3 DEF FailOK, Retried
  <2>5. rgi'[t].failed => pc'[t] \in Ending
    BY <1>a DEF AllInv, ErrInv
  <2> QED BY <1>a, <1>b, <2>1, <2>2, <2>3, <2>4, <2>5, OwnFail
<1> QED BY <1>1, <1>2 DEF RemoveFromList, RemoveSelf, Leaves

\* unmark_start_commit() of a group to be retried.
LEMMA RetryFail ==
  ASSUME AllInv, TypeInv', WaitInv', NEW t \in Trx, Retry(t)
  PROVE  ErrInv' /\ FailInv'
<1>1. pc[t] = "retry" /\ Goto(t, "unregister") /\ wfc' = wfc /\ rgi' = [rgi EXCEPT ![t].marked = FALSE, ![t].taken = @ \/ rgi[t].marked] /\ dom' = Unmarked(t)
  BY DEF Retry
<1>2. pc'[t] = "unregister" /\ \A x \in Trx \ {t} : pc'[x] = pc[x]
  BY <1>1, GotoFacts DEF AllInv
<1>3. \A x \in Trx : rgi'[x].failed = rgi[x].failed /\ rgi'[x].result = rgi[x].result
                     /\ rgi'[x].spec = rgi[x].spec /\ rgi'[x].killed = rgi[x].killed /\ rgi'[x].retries = rgi[x].retries
  <2>1. rgi \in [Trx -> RgiType] BY DEF AllInv, TypeInv
  <2> QED BY <1>1, <2>1 DEF RgiType
<1>4. StopsSame
  BY <1>1, UpdateTypes DEF StopsSame, AllInv
<1>5. Others(t)
  BY <1>2, <1>3 DEF Others
<1>6. \A x \in Trx : WaitsSame(x)
  BY <1>1 DEF WaitsSame, HalfWoken
<1>7. ~rgi[t].failed /\ (rgi[t].result = "rolledback" => rgi[t].failed)
  BY <1>1 DEF AllInv, ErrInv, FailInv, FailOK, Ending
<1> QED BY <1>1, <1>2, <1>3, <1>4, <1>5, <1>6, <1>7, PlainSame DEF AllInv, OnItsWay, HasRowLocks, Retrying, Ending

\* The rollback of a group to be retried.
LEMMA RollbackFail ==
  ASSUME AllInv, TypeInv', WaitInv', NEW t \in Trx, RetryRollback(t)
  PROVE  ErrInv' /\ FailInv'
<1>1. pc[t] = "rollback" /\ Goto(t, "reregister") /\ wfc' = wfc /\ dom' = dom
  BY DEF RetryRollback
<1> DEFINE r == Released(rgi, t)
<1>r. r \in [Trx -> RgiType] /\ rgi' = [r EXCEPT ![t].killed = "no"]
  BY UpdateTypes DEF AllInv, RetryRollback
<1>s. \A x \in Trx : /\ r[x].killed = rgi[x].killed /\ r[x].result = rgi[x].result
                     /\ r[x].failed = rgi[x].failed /\ r[x].spec = rgi[x].spec /\ r[x].retries = rgi[x].retries
  BY DEF Released, AllInv, TypeInv, RgiType
<1> HIDE DEF r
<1>2. pc'[t] = "reregister" /\ \A x \in Trx \ {t} : pc'[x] = pc[x]
  BY <1>1, GotoFacts DEF AllInv
<1>3. /\ \A x \in Trx : rgi'[x].failed = rgi[x].failed /\ rgi'[x].result = rgi[x].result /\ rgi'[x].spec = rgi[x].spec /\ rgi'[x].retries = rgi[x].retries
      /\ \A x \in Trx \ {t} : rgi'[x].killed = rgi[x].killed
      /\ rgi'[t].killed = "no"
  BY <1>r, <1>s DEF RgiType
<1>4. StopsSame
  BY <1>1 DEF StopsSame
<1>5. Others(t)
  BY <1>2, <1>3 DEF Others
<1>6. \A x \in Trx : WaitsSame(x)
  BY <1>1 DEF WaitsSame, HalfWoken
<1>7. ~rgi[t].failed /\ (rgi[t].result = "rolledback" => rgi[t].failed)
  BY <1>1 DEF AllInv, ErrInv, FailInv, FailOK, Ending
<1> QED BY <1>1, <1>2, <1>3, <1>4, <1>5, <1>6, <1>7, PlainSame DEF AllInv, OnItsWay, HasRowLocks, Retrying, Ending

\* unregister_wait_for_prior_commit() before a retry.
LEMMA UnregisterFail ==
  ASSUME AllInv, TypeInv', WaitInv', NEW t \in Trx, RetryUnregister(t)
  PROVE  ErrInv' /\ FailInv'
<1> DEFINE u == wfc[t].waitee
<1>1. pc[t] = "unregister" /\ Goto(t, "rollback") /\ UNCHANGED <<rgi, dom>>
  BY DEF RetryUnregister
<1>2. pc'[t] = "rollback" /\ \A x \in Trx \ {t} : pc'[x] = pc[x]
  BY <1>1, GotoFacts DEF AllInv
<1>3. /\ \A x \in Trx \ {t} : wfc'[x].started = wfc[x].started /\ wfc'[x].torn = wfc[x].torn /\ wfc'[x].waitee = wfc[x].waitee /\ wfc'[x].werr = wfc[x].werr
      /\ \A x \in Trx : wfc'[x].walk = wfc[x].walk
      /\ wfc'[t].started = wfc[t].started /\ wfc'[t].torn = wfc[t].torn /\ wfc'[t].waitee = NoTrx
  <2>0. wfc \in [Trx -> WfcType] BY DEF AllInv, TypeInv
  <2>1. CASE u = NoTrx
    <3>1. wfc' = [wfc EXCEPT ![t].werr = "ok", ![t].unwait = "no"]
      BY <2>1 DEF RetryUnregister, Unregister
    <3> QED BY <2>0, <2>1, <3>1 DEF WfcType
  <2>2. CASE u # NoTrx
    <3>1. Leaves(t, u, "ok")
      BY <2>2 DEF RetryUnregister, Unregister, Leaves
    <3>2. u \in Trx /\ u = Prior(t)
      BY <2>2 DEF AllInv, WaitInv, WaitOK, TypeInv, WfcType
    <3>3. u \in Trx /\ u # t /\ "ok" \in WakeupErrors /\ TypeInv
      BY <2>2, <3>2, PriorLast, TrxAssumption DEF Earlier, AllInv, WakeupErrors
    <3>4. PICK v \in Trx : v = u /\ v # t
      BY <3>3
    <3>5. PICK e \in WakeupErrors : e = "ok" /\ Leaves(t, v, e)
      BY <3>1, <3>3, <3>4
    <3> HIDE DEF u
    <3>6. /\ wfc' \in [Trx -> WfcType]
          /\ \A x \in Trx :
              /\ wfc'[x].walk = wfc[x].walk /\ wfc'[x].waking = wfc[x].waking /\ wfc'[x].ready = wfc[x].ready
              /\ wfc'[x].started = wfc[x].started /\ wfc'[x].torn = wfc[x].torn
              /\ wfc'[x].subs = IF x = v THEN wfc[x].subs \ {t} ELSE wfc[x].subs
              /\ x # t => wfc'[x].waitee = wfc[x].waitee /\ wfc'[x].werr = wfc[x].werr /\ wfc'[x].unwait = wfc[x].unwait
          /\ wfc'[t].waitee = NoTrx /\ wfc'[t].werr = e /\ wfc'[t].unwait = "no"
      <4>1. TypeInv /\ v # t /\ Leaves(t, v, e)
        BY <3>3, <3>4, <3>5
      <4> QED BY <4>1, LeftFacts
    <3> QED BY <3>6
  <2> QED BY <2>1, <2>2
<1>4. Others(t) /\ StopsSame /\ \A x \in Trx \ {t} : WaitsSame(x)
  BY <1>1, <1>2, <1>3 DEF Others, StopsSame, WaitsSame, HalfWoken
<1>5. AfterFailed(t)'
  <2>1. AfterFailed(t) /\ TypeInv /\ WaitInv BY DEF AllInv, FailInv
  <2>2. \A x \in Trx : rgi'[x].result = "rolledback" /\ pc'[x] \in {"finwaking", "done"} => rgi[x].result = "rolledback"
    BY <1>1
  <2>3. (Retried(t) => Retried(t)') /\ pc'[t] \notin OnItsWay /\ \A x \in Trx : wfc[x].started => wfc'[x].started
    BY <1>1, <1>2, <1>3 DEF OnItsWay, Retried
  <2> QED BY <1>3, <2>1, <2>2, <2>3, AfterKeeps
<1>6. FailOK(t)' /\ (rgi'[t].failed => pc'[t] \in Ending)
  <2>1. FailOK(t) /\ ~rgi[t].failed
    BY <1>1 DEF AllInv, FailInv, ErrInv, Ending
  <2>2. \A x \in Trx : Through(x) => Through(x)'
    BY <1>1, <1>2, <1>3 DEF Through
  <2>3. AllThrough(t) => AllThrough(t)'
    BY <2>2 DEF AllThrough, Earlier
  <2> QED BY <1>1, <1>2, <2>1, <2>3 DEF FailOK, Retried, Retrying, HasRowLocks
<1> QED BY <1>1, <1>2, <1>3, <1>4, <1>5, <1>6, OwnFail

\* A retried group goes on: all before it are through, so no group can be made
\* to wait for it by a deadlock again.
LEMMA RetryWaitedFail ==
  ASSUME AllInv, TypeInv', WaitInv', NEW t \in Trx, RetryWaited(t)
  PROVE  ErrInv' /\ FailInv'
<1>0. pc[t] = "retrywait" /\ wfc[t].waitee = NoTrx /\ rgi \in [Trx -> RgiType] /\ wfc \in [Trx -> WfcType]
  BY DEF RetryWaited, WaitOver, AllInv, TypeInv
<1>f. FailOK(t) /\ ~rgi[t].failed /\ Retried(t)
  <2>1. FailOK(t) /\ ~rgi[t].failed
    BY <1>0 DEF AllInv, FailInv, ErrInv, Ending
  <2> QED BY <1>0, <2>1 DEF FailOK, Retrying
<1>1. CASE wfc[t].werr = "ok"
  <2>1. rgi' = [rgi EXCEPT ![t].spec = "wait", ![t].killed = "no"] /\ WaitDone(t) /\ Goto(t, "exec") /\ dom' = dom
    BY <1>1 DEF RetryWaited
  <2>2. AllThrough(t)
    BY <1>0, <1>1 DEF AllInv, WaitInv, ClearedOK
  <2>3. /\ rgi'[t].spec = "wait" /\ rgi'[t].killed = "no" /\ rgi'[t].result = rgi[t].result /\ rgi'[t].failed = rgi[t].failed /\ rgi'[t].retries = rgi[t].retries
        /\ \A x \in Trx \ {t} : rgi'[x] = rgi[x]
    BY <1>0, <2>1 DEF RgiType
  <2>4. pc'[t] = "exec" /\ \A x \in Trx \ {t} : pc'[x] = pc[x]
    BY <2>1, GotoFacts DEF AllInv
  <2>5. \A x \in Trx : WaitsSame(x)
    BY <2>1, WaitDoneFacts DEF WaitsSame, HalfWoken, AllInv
  <2>6. Others(t) /\ StopsSame
    BY <2>1, <2>3, <2>4 DEF Others, StopsSame
  <2>7. AllThrough(t)'
    BY <1>0, <2>2, <2>4, <2>5 DEF AllThrough, Through, WaitsSame, HalfWoken, Earlier
  <2>8. FailOK(t)'
    BY <1>f, <2>3, <2>4, <2>7 DEF FailOK, Retrying, Retried
  <2>9. AfterFailed(t)'
    BY <1>f, <2>3 DEF AfterFailed, Retried
  <2>10. wfc'[t].waitee # NoTrx => wfc'[t].werr = "ok"
    BY <2>5, <1>1 DEF WaitsSame, HalfWoken
  <2>11. wfc'[t].started = wfc[t].started /\ wfc'[t].torn = wfc[t].torn
    BY <2>5 DEF WaitsSame, HalfWoken
  <2> QED BY <1>0, <1>f, <2>3, <2>4, <2>5, <2>6, <2>8, <2>9, <2>10, <2>11, OwnFail
<1>2. CASE wfc[t].werr # "ok" /\ Temporary(t, wfc[t].werr)
  <2>1. rgi' = [rgi EXCEPT ![t].killed = "no"] /\ wfc' = [wfc EXCEPT ![t].unwait = "no", ![t].werr = "ok"] /\ Goto(t, "reregister") /\ dom' = dom
    BY <1>2 DEF RetryWaited
  <2>3. /\ rgi'[t].spec = rgi[t].spec /\ rgi'[t].killed = "no" /\ rgi'[t].result = rgi[t].result /\ rgi'[t].failed = rgi[t].failed /\ rgi'[t].retries = rgi[t].retries
        /\ \A x \in Trx \ {t} : rgi'[x] = rgi[x]
    BY <1>0, <2>1 DEF RgiType
  <2>4. pc'[t] = "reregister" /\ \A x \in Trx \ {t} : pc'[x] = pc[x]
    BY <2>1, GotoFacts DEF AllInv
  <2>5. /\ \A x \in Trx \ {t} : wfc'[x].started = wfc[x].started /\ wfc'[x].torn = wfc[x].torn /\ wfc'[x].waitee = wfc[x].waitee /\ wfc'[x].werr = wfc[x].werr
        /\ wfc'[t].started = wfc[t].started /\ wfc'[t].torn = wfc[t].torn /\ wfc'[t].waitee = NoTrx /\ wfc'[t].werr = "ok"
        /\ \A x \in Trx : wfc'[x].walk = wfc[x].walk
    BY <1>0, <2>1 DEF WfcType
  <2>6. Others(t) /\ StopsSame /\ \A x \in Trx \ {t} : WaitsSame(x)
    BY <2>1, <2>3, <2>4, <2>5 DEF Others, StopsSame, WaitsSame, HalfWoken
  <2>8. FailOK(t)'
    BY <1>f, <2>3, <2>4 DEF FailOK, Retrying, Retried, HasRowLocks
  <2>9. AfterFailed(t)'
    BY <1>f, <2>3 DEF AfterFailed, Retried
  <2> QED BY <1>0, <1>f, <2>3, <2>4, <2>5, <2>6, <2>8, <2>9, OwnFail
<1>3. CASE wfc[t].werr # "ok" /\ ~Temporary(t, wfc[t].werr)
  <2>1. Fail(t) /\ WaitDone(t)
    BY <1>3 DEF RetryWaited
  <2> QED BY <1>0, <2>1, FailPlain
<1> QED BY <1>1, <1>2, <1>3

\* The wait in finish_event_group() is over.
LEMMA FinishWaitFail ==
  ASSUME AllInv, TypeInv', WaitInv', NEW t \in Trx, FinishWait(t)
  PROVE  ErrInv' /\ FailInv'
<1>0. pc[t] = "finwait" /\ WaitDone(t) /\ Goto(t, "finish") /\ rgi \in [Trx -> RgiType]
  BY DEF FinishWait, AllInv, TypeInv
<1>1. /\ \A x \in Trx : rgi'[x].result = rgi[x].result /\ rgi'[x].spec = rgi[x].spec /\ rgi'[x].killed = rgi[x].killed /\ rgi'[x].retries = rgi[x].retries
      /\ \A x \in Trx \ {t} : rgi'[x].failed = rgi[x].failed
      /\ rgi[t].failed => rgi'[t].failed
  <2>1. rgi' = [rgi EXCEPT ![t].failed = @ \/ wfc[t].werr # "ok",
                          ![t].marked = @ /\ (rgi[t].failed \/ wfc[t].werr = "ok")]
    BY DEF FinishWait
  <2> QED BY <1>0, <2>1 DEF RgiType
<1>2. StopsSame
  BY UpdateTypes DEF FinishWait, StopsSame, AllInv
<1>3. pc'[t] = "finish" /\ \A x \in Trx \ {t} : pc'[x] = pc[x]
  BY <1>0, GotoFacts DEF AllInv
<1>4. \A x \in Trx : WaitsSame(x)
  BY <1>0, WaitDoneFacts DEF WaitsSame, HalfWoken, AllInv
<1>5. Others(t)
  BY <1>1, <1>3 DEF Others
<1>6. rgi'[t].result = "rolledback" => rgi'[t].failed
  BY <1>1 DEF AllInv, FailInv, FailOK
<1> QED BY <1>0, <1>1, <1>2, <1>3, <1>4, <1>5, <1>6, PlainSame DEF AllInv, OnItsWay, HasRowLocks, Retrying, Ending

\* The list of waiters is taken over to be woken up: nobody's wait changes.
LEMMA TakenSame ==
  ASSUME TypeInv, WaitInv, NEW c \in Trx, wfc' = ListTaken(wfc, c), NEW x \in Trx
  PROVE  WaitsSame(x)
<1>1. /\ wfc'[x].waitee = wfc[x].waitee /\ wfc'[x].werr = wfc[x].werr
      /\ wfc'[x].started = wfc[x].started /\ wfc'[x].torn = wfc[x].torn
  BY TakenFacts
<1>2. \A y \in Trx : wfc[y].walk \subseteq wfc'[y].walk
  <2>1. wfc[c].subs # {} => wfc[c].walk = {}
    BY DEF WaitInv, ListOK
  <2>2. wfc[c].subs = {} => wfc' = wfc
    BY TakenFacts
  <2>3. wfc[c].subs # {} => \A y \in Trx \ {c} : wfc'[y].walk = wfc[y].walk
    BY TakenFacts
  <2> QED BY <2>1, <2>2, <2>3
<1> QED BY <1>1, <1>2, HalfWokenKept DEF WaitsSame

\* finish_event_group(): a failed group leaves stop_on_error_sub_id at its own
\* sub id or an earlier one.
LEMMA FinishFail ==
  ASSUME AllInv, TypeInv', WaitInv', NEW t \in Trx, Finish(t)
  PROVE  ErrInv' /\ FailInv'
<1> DEFINE d == Domain[t]
<1>0. /\ pc[t] = "finish" /\ rgi \in [Trx -> RgiType] /\ dom \in [Domains -> DomType] /\ d \in Domains
      /\ wfc' = ListTaken(wfc, t) /\ TypeInv /\ WaitInv /\ FailOK(t)
  BY DEF Finish, AllInv, TypeInv, Domains, FailInv
<1>1. /\ \A x \in Trx : rgi'[x].result = rgi[x].result /\ rgi'[x].spec = rgi[x].spec /\ rgi'[x].failed = rgi[x].failed /\ rgi'[x].retries = rgi[x].retries
      /\ \A x \in Trx \ {t} : rgi'[x].killed = rgi[x].killed
      /\ rgi'[t].killed = "no"
  <2>1. rgi' = [rgi EXCEPT ![t].marked = TRUE, ![t].killed = "no"]
    BY DEF Finish
  <2> QED BY <1>0, <2>1 DEF RgiType
<1>2. pc'[t] \in {"done", "finwaking"} /\ \A x \in Trx \ {t} : pc'[x] = pc[x]
  BY GotoFacts DEF AllInv, Finish
<1>3. /\ \A e \in Domains \ {d} : dom'[e].stopErr = dom[e].stopErr
      /\ dom'[d].stopErr = IF rgi[t].failed /\ dom[d].stopErr = 0 THEN t ELSE dom[d].stopErr
  <2>1. dom' = [dom EXCEPT
          ![d].count = @ + (IF rgi[t].marked THEN 0 ELSE 1),
          ![d].last = IF @ < t THEN t ELSE @,
          ![d].stopErr = IF rgi[t].failed /\ @ = 0 THEN t ELSE @]
    BY DEF Finish
  <2> DEFINE D == [dom[d] EXCEPT !.count = @ + (IF rgi[t].marked THEN 0 ELSE 1),
          !.last = IF @ < t THEN t ELSE @, !.stopErr = IF rgi[t].failed /\ @ = 0 THEN t ELSE @]
  <2>2. dom' = [dom EXCEPT ![d] = D]
    BY <1>0, <2>1
  <2>3. D.stopErr = IF rgi[t].failed /\ dom[d].stopErr = 0 THEN t ELSE dom[d].stopErr
    BY <1>0 DEF DomType
  <2> HIDE DEF D
  <2> QED BY <1>0, <2>2, <2>3
<1>4. \A x \in Trx : WaitsSame(x)
  BY <1>0, TakenSame
<1>5. \A x \in Trx : Through(x) => Through(x)'
  BY <1>0, <1>2, <1>4 DEF Through, WaitsSame, HalfWoken
<1>t. rgi[t].failed /\ ~wfc[t].started /\ dom[d].stopErr # 0 => dom[d].stopErr <= t
  <2> SUFFICES ASSUME rgi[t].failed, ~wfc[t].started, dom[d].stopErr # 0
               PROVE  dom[d].stopErr <= t
    OBVIOUS
  <2>1. PICK s \in Trx : s = dom[d].stopErr
    BY <1>0 DEF DomType
  <2>2. Domain[s] = d /\ pc[s] \in {"finwaking", "done"}
    BY <1>0, <2>1 DEF AllInv, FailInv, StopOK
  <2>3. Through(s) /\ s # t
    BY <1>0, <2>2 DEF Through
  <2>4. AllThrough(s)
    BY <1>0, <2>3, ThroughAll
  <2>5. ~Through(t)
    BY <1>0 DEF Through
  <2> QED BY <2>1, <2>2, <2>3, <2>4, <2>5, TrxAssumption DEF AllThrough, Earlier
<1>6. ASSUME NEW x \in Trx PROVE FailOK(x)'
  <2>1. FailOK(x) /\ (AllThrough(x) => AllThrough(x)') /\ Domain[x] \in Domains
    BY <1>5 DEF AllInv, FailInv, AllThrough, Earlier, Domains
  <2>2. dom[Domain[x]].stopErr # 0 => dom'[Domain[x]].stopErr = dom[Domain[x]].stopErr
    BY <1>3, <2>1
  <2>3. CASE x # t
    BY <1>1, <1>2, <1>4, <2>1, <2>2, <2>3 DEF FailOK, Retried, WaitsSame
  <2>4. CASE x = t
    <3>1. rgi'[t].failed /\ ~wfc'[t].started => dom'[d].stopErr # 0 /\ dom'[d].stopErr <= t
      <4>1. wfc'[t].started = wfc[t].started
        BY <1>4 DEF WaitsSame
      <4> QED BY <1>1, <1>3, <1>t, <4>1, TrxAssumption
    <3> QED BY <1>1, <1>2, <2>1, <2>4, <3>1 DEF FailOK, Retried, HasRowLocks, Retrying, Ending
  <2> QED BY <2>3, <2>4
<1>7. ASSUME NEW x \in Trx PROVE AfterFailed(x)'
  <2>1. AfterFailed(x) /\ wfc'[x].started = wfc[x].started /\ wfc'[x].torn = wfc[x].torn /\ wfc'[x].waitee = wfc[x].waitee /\ wfc'[x].werr = wfc[x].werr
    BY <1>4 DEF AllInv, FailInv, WaitsSame
  <2>s. (HalfWoken(x) => HalfWoken(x)') /\ (\A u \in Trx : wfc[u].started => wfc'[u].started) /\ (Retried(x) => Retried(x)')
    BY <1>1, <1>4 DEF WaitsSame, Retried
  <2>2. pc'[x] \in OnItsWay => pc[x] \in OnItsWay
    BY <1>2 DEF OnItsWay
  <2>3. \A u \in Trx : rgi'[u].result = "rolledback" /\ pc'[u] \in {"finwaking", "done"} => rgi[u].result = "rolledback"
    BY <1>1
  <2> QED BY <1>0, <2>1, <2>s, <2>2, <2>3, AfterKeeps
<1>8. ASSUME NEW e \in Domains PROVE StopOK(e)'
  <2>1. StopOK(e) /\ dom[e].stopErr \in Trx \cup {0}
    BY <1>0 DEF AllInv, FailInv, DomType
  <2>2. CASE dom'[e].stopErr = dom[e].stopErr
    BY <1>2, <2>1, <2>2 DEF StopOK
  <2>3. CASE e = d /\ dom'[e].stopErr = t
    BY <1>2, <2>3 DEF StopOK
  <2> QED BY <1>3, <2>2, <2>3
<1>9. ErrInv'
  <2>1. \A x \in Trx : (rgi'[x].failed => pc'[x] \in Ending)
    BY <1>1, <1>2 DEF AllInv, ErrInv, Ending
  <2>2. \A x \in Trx : wfc'[x].waitee # NoTrx => wfc'[x].werr = "ok"
    BY <1>4 DEF AllInv, ErrInv, WaitsSame, HalfWoken
  <2> QED BY <2>1, <2>2 DEF ErrInv
<1> QED BY <1>6, <1>7, <1>8, <1>9 DEF FailInv

\* A step of the wakeup of a waiter of c: with an error if c was rolled back.
LEMMA WakesFail ==
  ASSUME AllInv, TypeInv', WaitInv', NEW c \in Trx, NEW e \in WakeupErrors, WakesOne(c, e), UNCHANGED <<pc, rgi, dom>>,
         e # "ok" \/ rgi[c].result # "rolledback" \/ wfc[c].started
  PROVE  ErrInv' /\ FailInv'
<1>a. /\ TypeInv /\ WaitInv /\ ErrInv /\ FailInv
      /\ \A x \in wfc[c].walk : x \in Trx /\ Prior(x) = c /\ x # c
  <2>1. TypeInv /\ WaitInv /\ ErrInv /\ FailInv
    BY DEF AllInv
  <2>2. ASSUME NEW x \in wfc[c].walk PROVE x \in Trx /\ Prior(x) = c /\ x # c
    <3>1. x \in Trx
      BY <2>1, <2>2 DEF TypeInv, WfcType
    <3>2. Prior(x) = c
      BY <2>1, <2>2 DEF WaitInv, ListOK, ListedOK
    <3> QED BY <3>1, <3>2, PriorLast, TrxAssumption DEF Earlier
  <2> QED BY <2>1, <2>2
<1>0. PICK x \in wfc[c].walk, g \in WakeupErrors, T \in SUBSET Trx :
         Woke(c, x, g, T) /\ (FirstStore(x, g, T) \/ SecondStore(x, g, T, e))
  BY <1>a, WokenFacts
<1>1. x \in Trx /\ Prior(x) = c /\ x # c
  BY <1>a
<1>3. /\ \A y \in Trx :
           /\ wfc'[y].started = wfc[y].started /\ wfc'[y].torn = wfc[y].torn
           /\ y # x => wfc'[y].waitee = wfc[y].waitee /\ wfc'[y].werr = wfc[y].werr
           /\ wfc'[y].walk = IF y = c THEN wfc[y].walk \ T ELSE wfc[y].walk
      /\ wfc'[x].waitee = NoTrx /\ wfc'[x].werr = g /\ T \subseteq {x}
  BY <1>0 DEF Woke, FirstStore, SecondStore
<1>h. ASSUME NEW y \in Trx \ {x} PROVE WaitsSame(y)
  <2>1. \A b \in Trx : y \in wfc[b].walk => y \in wfc'[b].walk
    BY <1>3, <1>h
  <2>2. HalfWoken(y) => HalfWoken(y)'
    BY <1>3, <1>h, <2>1 DEF HalfWoken
  <2> QED BY <1>3, <1>h, <2>2 DEF WaitsSame
<1>4. AfterFailed(x)'
  <2>1. CASE FirstStore(x, g, T)
    <3>1. HalfWoken(x)'
      BY <1>0, <1>3, <2>1 DEF HalfWoken, FirstStore
    <3>2. AfterFailed(x)
      BY <1>1, <1>a DEF FailInv
    <3> QED BY <1>1, <1>3, <3>1, <3>2 DEF AfterFailed, Retried
  <2>2. CASE SecondStore(x, g, T, e) /\ e # "ok"
    <3>1. AfterFailed(x) /\ wfc'[x].werr # "ok"
      BY <1>1, <1>3, <1>a, <2>2 DEF FailInv, SecondStore
    <3> QED BY <1>1, <1>3, <3>1 DEF AfterFailed, Retried
  <2>3. CASE rgi[c].result # "rolledback" \/ wfc[c].started
    BY <1>1, <1>3, <2>3 DEF AfterFailed
  <2> QED BY <1>0, <2>1, <2>2, <2>3
<1>5. FailOK(x)'
  <2>1. FailOK(x) BY <1>1 DEF AllInv, FailInv
  <2>2. AllThrough(x) => AllThrough(x)'
    BY <1>3 DEF AllThrough, Through, Earlier
  <2> QED BY <1>1, <1>3, <2>1, <2>2 DEF FailOK, Retried
<1>6. Others(x) /\ StopsSame
  BY DEF Others, StopsSame
<1>7. \A y \in Trx : wfc[y].started => wfc'[y].started
  BY <1>3
<1>8. rgi'[x].failed => pc'[x] \in Ending
  BY <1>1 DEF AllInv, ErrInv
<1> QED BY <1>1, <1>3, <1>4, <1>5, <1>6, <1>7, <1>8, <1>a, <1>h, FailFrame

\* finish_event_group() hands the failure of a group to those that wait for it.
LEMMA FinishWakeFail ==
  ASSUME AllInv, TypeInv', WaitInv', NEW t \in Trx, FinishWakeOne(t) \/ FinishEnd(t)
  PROVE  ErrInv' /\ FailInv'
<1>1. CASE FinishWakeOne(t)
  <2>1. UNCHANGED <<pc, rgi, dom>> /\ WakesOne(t, IF rgi[t].failed THEN "prior" ELSE "ok")
    BY <1>1 DEF FinishWakeOne
  <2>2. rgi[t].result = "rolledback" => rgi[t].failed
    BY DEF AllInv, FailInv, FailOK
  <2>3. CASE rgi[t].failed
    <3>1. WakesOne(t, "prior") /\ "prior" \in WakeupErrors
      BY <2>1, <2>3 DEF WakeupErrors
    <3> QED BY <2>1, <3>1, WakesFail
  <2>4. CASE ~rgi[t].failed
    <3>1. WakesOne(t, "ok") /\ "ok" \in WakeupErrors
      BY <2>1, <2>4 DEF WakeupErrors
    <3> QED BY <2>1, <2>2, <2>4, <3>1, WakesFail
  <2> QED BY <2>3, <2>4
<1>2. CASE FinishEnd(t)
  <2>1. pc[t] = "finwaking" /\ WakingOver(t) /\ Goto(t, "done") /\ UNCHANGED <<rgi, dom>>
    BY <1>2 DEF FinishEnd
  <2>2. pc'[t] = "done" /\ \A x \in Trx \ {t} : pc'[x] = pc[x]
    BY <2>1, GotoFacts DEF AllInv
  <2>3. \A x \in Trx : WaitsSame(x)
    BY <2>1, OverFacts DEF WaitsSame, HalfWoken, AllInv
  <2>4. Others(t) /\ StopsSame
    BY <2>1, <2>2 DEF Others, StopsSame
  <2>5. \A x \in Trx : wfc[x].started => wfc'[x].started
    BY <2>3 DEF WaitsSame
  <2>6. TypeInv /\ WaitInv /\ ErrInv /\ FailInv /\ FailOK(t) /\ AfterFailed(t)
    BY DEF AllInv, FailInv
  <2>7. FailOK(t)'
    BY <2>1, <2>2, <2>3, <2>6 DEF WaitsSame, FailOK, Retried, HasRowLocks, Retrying, Ending
  <2>8. wfc'[t].started = wfc[t].started /\ wfc'[t].torn = wfc[t].torn /\ wfc'[t].waitee = wfc[t].waitee /\ wfc'[t].werr = wfc[t].werr
    BY <2>3 DEF WaitsSame, HalfWoken
  <2>9. AfterFailed(t)'
    <3>1. Prior(t) # NoTrx => Prior(t) \in Trx
      BY PriorLast DEF Earlier
    <3> QED BY <2>1, <2>2, <2>5, <2>6, <2>8, <3>1 DEF AfterFailed, Retried, OnItsWay
  <2>10. (rgi'[t].failed => pc'[t] \in Ending) /\ (wfc'[t].waitee # NoTrx => wfc'[t].werr = "ok")
    BY <2>2, <2>6, <2>8 DEF ErrInv, Ending
  <2> QED BY <2>1, <2>2, <2>4, <2>5, <2>6, <2>7, <2>9, <2>10, <2>3, FailFrame
<1> QED BY <1>1, <1>2

\* What a group that registers finds of the failure of the one before it.
LEMMA FailureSeen ==
  ASSUME AllInv, NEW t \in Trx, Prior(t) # NoTrx, rgi[Prior(t)].result = "rolledback", ~wfc[Prior(t)].started, Through(Prior(t))
  PROVE  dom[Domain[t]].stopErr # 0 /\ dom[Domain[t]].stopErr <= Prior(t)
<1>1. PICK u \in Trx : u = Prior(t) /\ Domain[u] = Domain[t]
  BY PriorLast DEF Earlier
<1>2. rgi[u].failed /\ pc[u] \in {"finwaking", "done"}
  BY <1>1, RolledBackThrough DEF AllInv, FailInv, FailOK
<1> QED BY <1>1, <1>2 DEF AllInv, FailInv, FailOK

\* A group that registers waits for the one before it, or is skipped when that
\* one failed.
LEMMA RegisterFail ==
  ASSUME AllInv, TypeInv', WaitInv', NEW t \in Trx, pc[t] \in {"queued", "reregister"}, RegisterPrior(t),
         NEW l \in {"skipwait", "specwait", "exec", "retrywait"}, Goto(t, l), UNCHANGED <<rgi, dom>>,
         l = "exec" => rgi[t].spec # "wait",
         l = "retrywait" <=> pc[t] = "reregister",
         l \in {"specwait", "exec"} =>
           ~(dom[Domain[t]].stopErr # 0 /\ Prior(t) # NoTrx /\ dom[Domain[t]].stopErr <= Prior(t))
  PROVE  ErrInv' /\ FailInv'
<1>0. /\ ~rgi[t].failed /\ ~wfc[t].started /\ FailOK(t) /\ TypeInv /\ WaitInv
      /\ (wfc[t].waitee # NoTrx => wfc[t].werr = "ok") /\ wfc \in [Trx -> WfcType]
  BY DEF AllInv, ErrInv, FailInv, WaitInv, PhaseOK, Ending, InGroup, TypeInv
<1>1. pc'[t] = l /\ \A x \in Trx \ {t} : pc'[x] = pc[x]
  BY <1>0, GotoFacts
<1>2. /\ \A x \in Trx \ {t} : wfc'[x].started = wfc[x].started /\ wfc'[x].torn = wfc[x].torn /\ wfc'[x].waitee = wfc[x].waitee /\ wfc'[x].werr = wfc[x].werr
      /\ \A x \in Trx : wfc'[x].walk = wfc[x].walk
      /\ wfc'[t].started = wfc[t].started /\ wfc'[t].torn = wfc[t].torn
      /\ wfc'[t].waitee # NoTrx => wfc'[t].werr = "ok"
      /\ Prior(t) # NoTrx => Through(Prior(t)) \/ wfc'[t].waitee = Prior(t)
  <2>1. CASE wfc' = wfc /\ (Prior(t) = NoTrx \/ Prior(t) <= dom[Domain[t]].last)
    <3>1. Prior(t) # NoTrx => Through(Prior(t))
      BY <1>0, <2>1, LastThrough, PriorLast DEF AllThrough
    <3> QED BY <1>0, <2>1, <3>1
  <2>2. CASE Prior(t) # NoTrx /\ wfc' = Registered(wfc, t, Prior(t))
    <3>1. PICK u \in Trx : u = Prior(t) /\ u # t
      BY <2>2, PriorLast, TrxAssumption DEF Earlier
    <3>2. CASE wfc[u].waking
      <4>1. wfc' = [wfc EXCEPT ![t].werr = "ok", ![t].waitee = NoTrx]
        BY <2>2, <3>1, <3>2 DEF Registered
      <4>2. Through(u)
        BY <1>0, <3>2 DEF WaitInv, ListOK
      <4> QED BY <1>0, <3>1, <4>1, <4>2 DEF WfcType
    <3>3. CASE ~wfc[u].waking
      <4>1. wfc' = [wfc EXCEPT ![t].werr = "ok", ![t].waitee = u, ![u].subs = @ \cup {t}]
        BY <2>2, <3>1, <3>3 DEF Registered
      <4>2. /\ \A x \in Trx : wfc'[x].started = wfc[x].started /\ wfc'[x].torn = wfc[x].torn /\ (x # t => wfc'[x].waitee = wfc[x].waitee /\ wfc'[x].werr = wfc[x].werr) /\ wfc'[x].walk = wfc[x].walk
            /\ wfc'[t].waitee = u /\ wfc'[t].werr = "ok"
        <5> DEFINE F ==
              /\ wfc' \in [Trx -> WfcType]
              /\ \A x \in Trx :
                   /\ wfc'[x].walk = wfc[x].walk /\ wfc'[x].waking = wfc[x].waking /\ wfc'[x].ready = wfc[x].ready
                   /\ wfc'[x].started = wfc[x].started /\ wfc'[x].torn = wfc[x].torn /\ wfc'[x].unwait = wfc[x].unwait
                   /\ wfc'[x].subs = IF x = u THEN wfc[x].subs \cup {t} ELSE wfc[x].subs
                   /\ x # t => wfc'[x].waitee = wfc[x].waitee /\ wfc'[x].werr = wfc[x].werr
              /\ wfc'[t].waitee = u /\ wfc'[t].werr = "ok"
        <5>0. TypeInv /\ u # t
          BY <1>0, <3>1
        <5>1. F
          BY <5>0, <4>1, RegisteredFacts
        <5> QED BY <5>1
      <4> QED BY <3>1, <4>2
    <3> QED BY <3>2, <3>3
  <2> QED BY <2>1, <2>2 DEF RegisterPrior
<1>3. AfterFailed(t)'
  <2> SUFFICES ASSUME Prior(t) # NoTrx, ~Retried(t), rgi[Prior(t)].result = "rolledback", ~wfc'[Prior(t)].started
               PROVE  pc'[t] \in OnItsWay => wfc'[t].waitee = Prior(t)
    BY <1>0, <1>2 DEF AfterFailed, Retried
  <2>1. PICK u \in Trx : u = Prior(t) /\ u # t
    BY PriorLast, TrxAssumption DEF Earlier
  <2>2. ~wfc[Prior(t)].started
    BY <1>2, <2>1
  <2>3. l \in {"specwait", "exec"} => ~Through(Prior(t))
    BY <2>2, FailureSeen
  <2> QED BY <1>1, <1>2, <2>3 DEF OnItsWay
<1>4. FailOK(t)'
  <2>1. pc'[t] \in Retrying => Retried(t)
    BY <1>0, <1>1 DEF FailOK, Retrying
  <2>2. Retried(t) => rgi[t].spec = "wait" \/ pc'[t] \in Retrying \cup Ending
    BY <1>0, <1>1 DEF FailOK, Retrying, Ending
  <2>3. ~(rgi[t].spec = "wait" /\ pc'[t] \in HasRowLocks) /\ pc'[t] \notin {"finwaking", "done"}
    BY <1>1 DEF HasRowLocks
  <2> QED BY <1>0, <2>1, <2>2, <2>3 DEF FailOK, Retried
<1>5. Others(t) /\ StopsSame /\ \A x \in Trx \ {t} : WaitsSame(x)
  BY <1>1, <1>2 DEF Others, StopsSame, WaitsSame, HalfWoken
<1> QED BY <1>0, <1>1, <1>2, <1>3, <1>4, <1>5, OwnFail

\* A worker takes up a group, or registers it again for a retry.
LEMMA StartFail ==
  ASSUME AllInv, TypeInv', WaitInv', NEW t \in Trx, StartGroup(t) \/ RetryRegister(t)
  PROVE  ErrInv' /\ FailInv'
<1>1. CASE StartGroup(t)
  <2> DEFINE stop == dom[Domain[t]].stopErr # 0 /\ Prior(t) # NoTrx /\ dom[Domain[t]].stopErr <= Prior(t)
             skip == rgi[t].failed \/ (dom[Domain[t]].stopCount >= 0 /\ WaitCount(t) > dom[Domain[t]].stopCount) \/ stop
             l == IF skip THEN "skipwait" ELSE IF rgi[t].spec = "wait" THEN "specwait" ELSE "exec"
  <2>1. pc[t] = "queued" /\ RegisterPrior(t) /\ Goto(t, l) /\ UNCHANGED <<rgi, dom>>
    BY <1>1 DEF StartGroup
  <2>2. /\ l \in {"skipwait", "specwait", "exec", "retrywait"} /\ l # "retrywait"
        /\ (l = "exec" => rgi[t].spec # "wait") /\ (l \in {"specwait", "exec"} => ~stop)
    OBVIOUS
  <2>3. PICK k \in {"skipwait", "specwait", "exec", "retrywait"} : k = l
    BY <2>2
  <2> HIDE DEF l, skip
  <2> QED BY <2>1, <2>2, <2>3, RegisterFail
<1>2. CASE RetryRegister(t)
  BY <1>2, RegisterFail DEF RetryRegister
<1> QED BY <1>1, <1>2

\* A step of t in group commit that changes its place, and lists of waiters.
LEMMA StagePlain ==
  ASSUME AllInv, TypeInv', WaitInv', NEW t \in Trx, NEW l, Goto(t, l), UNCHANGED <<rgi, dom>>, \A x \in Trx : WaitsSame(x),
         \/ pc[t] \in {"commit", "setready", "wait"} /\ l \in {"setready", "wait", "mayqueue", "return"}
         \/ pc[t] \in InGroup /\ l \in InGroup \cup {"return"}
  PROVE  ErrInv' /\ FailInv'
<1>1. StopsSame
  BY DEF StopsSame
<1> QED BY <1>1, PlacePlain DEF InGroup, Ending, OnItsWay, HasRowLocks, Retrying

\* The steps of group commit that wake up nobody.
LEMMA PlainSteps ==
  ASSUME AllInv, TypeInv', WaitInv', NEW t \in Trx, UNCHANGED <<rgi, dom>>,
         \/ CheckPrior(t) \/ SetReady(t) \/ PriorCame(t) \/ CollectGroup(t) \/ WriteGroup(t)
         \/ LockAfterSync(t) \/ LockCommitOrdered(t) \/ Signalled(t)
  PROVE  ErrInv' /\ FailInv'
<1>0. optimize /\ wfc \in [Trx -> WfcType]
  BY DEF AllInv, GroupInv, ModeOK, TypeInv
<1>1. CASE CheckPrior(t)
  <2>1. pc[t] = "commit" /\ wfc' = wfc /\ (Goto(t, "setready") \/ Goto(t, "mayqueue"))
    BY <1>1 DEF CheckPrior
  <2>2. \A x \in Trx : WaitsSame(x)
    BY <2>1 DEF WaitsSame, HalfWoken
  <2> QED BY <2>1, <2>2, StagePlain
<1>2. CASE SetReady(t)
  <2>1. pc[t] = "setready" /\ wfc' = [wfc EXCEPT ![t].ready = TRUE] /\ Goto(t, "wait")
    BY <1>2 DEF SetReady
  <2>2. \A x \in Trx : WaitsSame(x)
    BY <1>0, <2>1 DEF WaitsSame, HalfWoken, WfcType
  <2>3. pc[t] = "setready" /\ Goto(t, "wait")
    BY <2>1
  <2> QED BY <2>2, <2>3, StagePlain
<1>3. CASE PriorCame(t)
  <2>1. wfc' = [wfc EXCEPT ![t].ready = FALSE, ![t].unwait = "no"]
    BY <1>3 DEF PriorCame
  <2>2. \A x \in Trx : WaitsSame(x)
    BY <1>0, <2>1 DEF WaitsSame, HalfWoken, WfcType
  <2>3. pc[t] = "wait" /\ (Goto(t, "mayqueue") \/ Goto(t, "return"))
    BY <1>0, <1>3 DEF PriorCame
  <2> QED BY <2>2, <2>3, StagePlain
<1>4. CASE CollectGroup(t) \/ WriteGroup(t) \/ LockAfterSync(t) \/ LockCommitOrdered(t) \/ Signalled(t)
  <2>1. wfc' = wfc
    BY <1>4 DEF CollectGroup, WriteGroup, LockAfterSync, LockCommitOrdered, Signalled
  <2>2. \A x \in Trx : WaitsSame(x)
    BY <2>1 DEF WaitsSame, HalfWoken
  <2>3. pc[t] \in InGroup /\ \E l \in InGroup \cup {"return"} : Goto(t, l)
    BY <1>0, <1>4 DEF CollectGroup, WriteGroup, LockAfterSync, LockCommitOrdered, Signalled, InGroup
  <2> QED BY <2>2, <2>3, StagePlain
<1> QED BY <1>1, <1>2, <1>3, <1>4

\* The leader commits a transaction and wakes up its waiters.
LEMMA WakeSteps ==
  ASSUME AllInv, TypeInv', WaitInv', NEW t \in Trx, UNCHANGED <<rgi, dom>>, CommitOrdered(t) \/ WakeOne(t) \/ WakeEnd(t)
  PROVE  ErrInv' /\ FailInv'
<1>0. optimize /\ TypeInv /\ GroupInv /\ WaitInv /\ pc[t] \in {"loop", "waking"}
  BY DEF AllInv, GroupInv, ModeOK, CommitOrdered, WakeOne, WakeEnd
<1>1. PICK c \in Trx : c = Head(ent[t].rest) /\ wfc[c].started /\ ~ent[c].err
  BY <1>0, HeadStarted DEF GroupInv, ModeOK
<1>2. pc[t] = "waking" => Waking(t) = c
  BY <1>0, <1>1 DEF Waking
<1>3. CASE CommitOrdered(t)
  <2>1. wfc' = ListTaken(wfc, c)
    BY <1>1, <1>3 DEF CommitOrdered
  <2>2. \A x \in Trx : WaitsSame(x)
    BY <1>0, <2>1, TakenSame
  <2>3. pc[t] \in InGroup /\ \E l \in InGroup \cup {"return"} : Goto(t, l)
    BY <1>3 DEF CommitOrdered, InGroup
  <2> QED BY <2>2, <2>3, StagePlain
<1>4. CASE WakeEnd(t)
  <2>1. WakingOver(c)
    BY <1>2, <1>4 DEF WakeEnd
  <2>2. \A x \in Trx : WaitsSame(x)
    BY <1>0, <2>1, OverFacts DEF WaitsSame, HalfWoken
  <2>3. pc[t] \in InGroup /\ \E l \in InGroup \cup {"return"} : Goto(t, l)
    BY <1>4 DEF WakeEnd, InGroup
  <2> QED BY <2>2, <2>3, StagePlain
<1>5. CASE WakeOne(t)
  <2>1. WakesOne(c, "ok") /\ pc' = pc /\ "ok" \in WakeupErrors
    BY <1>1, <1>2, <1>5 DEF WakeOne, WakeupErrors
  <2> QED BY <1>1, <2>1, WakesFail
<1> QED BY <1>3, <1>4, <1>5

\* The leader tells a transaction that its commit is done.
LEMMA SignalNextFail ==
  ASSUME AllInv, TypeInv', WaitInv', NEW t \in Trx, UNCHANGED <<rgi, dom>>, SignalNext(t)
  PROVE  ErrInv' /\ FailInv'
<1>0. optimize /\ TypeInv /\ GroupInv /\ WaitInv /\ ErrInv /\ FailInv /\ pc[t] = "signal"
  BY DEF AllInv, GroupInv, ModeOK, SignalNext
<1>1. PICK c \in Trx : c = Head(ent[t].rest) /\ wfc[c].started /\ ~ent[c].err
  BY <1>0, HeadStarted DEF GroupInv, ModeOK
<1>2. PICK l \in {"loop", "return"} : Goto(t, l)
  BY DEF SignalNext
<1>3. wfc' = wfc \/ (c # t /\ Wokes(c, "ok"))
  BY <1>1 DEF SignalNext, Wokes
<1>4. CASE wfc' = wfc
  <2>1. \A x \in Trx : WaitsSame(x)
    BY <1>4 DEF WaitsSame, HalfWoken
  <2> QED BY <1>0, <1>2, <2>1, StagePlain DEF InGroup
<1>5. CASE c # t /\ Wokes(c, "ok")
  <2>1. /\ \A y \in Trx : wfc'[y].started = wfc[y].started /\ wfc'[y].torn = wfc[y].torn /\ (y # c => wfc'[y].waitee = wfc[y].waitee /\ wfc'[y].werr = wfc[y].werr)
        /\ wfc'[c].waitee = NoTrx /\ \A y \in Trx : wfc'[y].walk = wfc[y].walk
    <3> DEFINE F ==
         /\ wfc' \in [Trx -> WfcType]
         /\ \A y \in Trx :
              /\ wfc'[y].subs = wfc[y].subs /\ wfc'[y].waking = wfc[y].waking /\ wfc'[y].ready = wfc[y].ready
              /\ wfc'[y].started = wfc[y].started /\ wfc'[y].torn = wfc[y].torn /\ wfc'[y].unwait = wfc[y].unwait /\ wfc'[y].walk = wfc[y].walk
              /\ y # c => wfc'[y].waitee = wfc[y].waitee /\ wfc'[y].werr = wfc[y].werr
         /\ wfc'[c].waitee = NoTrx /\ wfc'[c].werr = "ok"
    <3>1. "ok" \in WakeupErrors BY DEF WakeupErrors
    <3>2. F
      BY <1>0, <1>5, <3>1, WokeFacts
    <3> QED BY <3>2
  <2>2. pc'[t] = l /\ \A x \in Trx \ {t} : pc'[x] = pc[x]
    BY <1>0, <1>2, GotoFacts
  <2>3. Others(t) /\ StopsSame
    BY <2>2 DEF Others, StopsSame
  <2>4. \A x \in Trx : wfc[x].started => wfc'[x].started
    BY <2>1
  <2>5. AfterFailed(c)'
    <3> SUFFICES ASSUME Prior(c) # NoTrx, ~Retried(c), rgi[Prior(c)].result = "rolledback", ~wfc'[Prior(c)].started
                 PROVE  wfc'[c].torn /\ pc'[c] # "wait" /\ pc'[c] \notin OnItsWay
      BY DEF AfterFailed, Retried
    <3>1. PICK u \in Trx : u = Prior(c) /\ ~wfc[u].started
      BY <2>1, PriorLast DEF Earlier
    <3>2. wfc[c].torn /\ pc[c] # "wait"
      BY <1>0, <1>1, <3>1 DEF FailInv, AfterFailed
    <3>3. pc[c] \notin OnItsWay
      BY <1>0, <1>1, <3>2 DEF WaitInv, PhaseOK, OnItsWay, InGroup, Ending
    <3> QED BY <1>5, <2>1, <2>2, <3>2, <3>3
  <2>6. FailOK(t) /\ AfterFailed(t) /\ ~rgi[t].failed
    BY <1>0 DEF FailInv, ErrInv, Ending
  <2>7. FailOK(t)'
    <3>1. pc[t] \notin Retrying \cup Ending /\ pc'[t] \notin Retrying \cup HasRowLocks \cup {"finwaking", "done"}
      BY <1>0, <2>2 DEF HasRowLocks, Retrying, Ending
    <3> QED BY <2>6, <3>1 DEF FailOK, Retried
  <2>8. AfterFailed(t)'
    <3>1. Prior(t) # NoTrx => Prior(t) \in Trx
      BY PriorLast DEF Earlier
    <3> QED BY <1>5, <2>1, <2>2, <2>6, <3>1 DEF AfterFailed, Retried, OnItsWay
  <2>9. wfc'[t].waitee # NoTrx => wfc'[t].werr = "ok"
    BY <1>0, <1>5, <2>1 DEF ErrInv
  <2>10. ASSUME NEW x \in Trx \ {t}
         PROVE  WaitsSame(x) \/ (AfterFailed(x)' /\ (wfc'[x].waitee # NoTrx => wfc'[x].werr = "ok"))
    <3>1. CASE x = c
      BY <2>1, <2>5, <3>1
    <3>2. CASE x # c
      BY <2>1, <2>10, <3>2 DEF WaitsSame, HalfWoken
    <3> QED BY <3>1, <3>2
  <2> QED BY <1>0, <2>2, <2>3, <2>4, <2>6, <2>7, <2>8, <2>9, <2>10, FailFrame
<1> QED BY <1>3, <1>4, <1>5

\* A group enters the queue, with all that wait for it: none of them comes after
\* one that was rolled back.
LEMMA EnqueueFail ==
  ASSUME AllInv, TypeInv', WaitInv', NEW t \in Trx, UNCHANGED <<rgi, dom>>, Enqueue(t)
  PROVE  ErrInv' /\ FailInv'
<1> DEFINE F == Followers(t)
<1>0. TypeInv /\ GroupInv /\ WaitInv /\ ErrInv /\ FailInv /\ pc[t] = "mayqueue" /\ wfc[t].werr = "ok" /\ F \in SUBSET Trx /\ Entered(t, F)
  BY DEF AllInv, Enqueue, Entered, Followers
<1>f. ASSUME NEW x \in F PROVE Prior(x) \in F \cup {t} /\ pc[x] = "wait"
  BY <1>0, FollowersFacts
<1> HIDE DEF F
<1>1. \A y \in Trx :
        /\ wfc'[y].waitee = wfc[y].waitee /\ wfc'[y].werr = wfc[y].werr /\ wfc'[y].walk = wfc[y].walk
        /\ y \in F \cup {t} => wfc'[y].started
        /\ y \notin F \cup {t} => wfc'[y].started = wfc[y].started
        /\ y # t => wfc'[y].torn = wfc[y].torn
        /\ y = t /\ HalfWoken(t) => wfc'[y].torn
  BY <1>0, EnteredFacts
<1>2. PICK l \in {"leader", "participant"} : Goto(t, l)
  BY DEF Enqueue
<1>3. pc'[t] = l /\ \A x \in Trx \ {t} : pc'[x] = pc[x]
  BY <1>0, <1>2, GotoFacts
<1>4. Others(t) /\ StopsSame
  BY <1>3 DEF Others, StopsSame
<1>5. \A x \in Trx : wfc[x].started => wfc'[x].started
  BY <1>1
<1>6. ASSUME NEW x \in F PROVE AfterFailed(x)'
  <2>1. PICK u \in F \cup {t} : u = Prior(x)
    BY <1>f, <1>6
  <2>2. u \in Trx /\ wfc'[u].started
    BY <1>0, <1>1, <2>1
  <2> QED BY <2>1, <2>2 DEF AfterFailed
<1>7. AfterFailed(t)'
  <2> SUFFICES ASSUME Prior(t) # NoTrx, ~Retried(t), rgi[Prior(t)].result = "rolledback", ~wfc'[Prior(t)].started
               PROVE  wfc'[t].torn
    BY <1>3 DEF AfterFailed, Retried, OnItsWay
  <2>1. PICK u \in Trx : u = Prior(t) /\ ~wfc[u].started
    BY <1>5, PriorLast DEF Earlier
  <2>2. wfc[t].waitee # u
    BY <1>0, <2>1, TrxAssumption DEF WaitInv, WaitOK
  <2>3. HalfWoken(t)
    BY <1>0, <2>1, <2>2 DEF FailInv, AfterFailed, OnItsWay
  <2> QED BY <1>1, <2>3
<1>8. FailOK(t)' /\ ~rgi[t].failed
  <2>1. FailOK(t) /\ ~rgi[t].failed
    BY <1>0 DEF FailInv, ErrInv, Ending
  <2>2. pc[t] \notin Retrying \cup Ending /\ pc'[t] \notin Retrying \cup HasRowLocks \cup {"finwaking", "done"}
    BY <1>0, <1>3 DEF HasRowLocks, Retrying, Ending
  <2> QED BY <2>1, <2>2 DEF FailOK, Retried
<1>9. wfc'[t].waitee # NoTrx => wfc'[t].werr = "ok"
  BY <1>0, <1>1
<1>10. ASSUME NEW x \in Trx \ {t}
       PROVE  WaitsSame(x) \/ (AfterFailed(x)' /\ (wfc'[x].waitee # NoTrx => wfc'[x].werr = "ok"))
  <2>1. CASE x \in F
    BY <1>0, <1>1, <1>6, <2>1 DEF ErrInv
  <2>2. CASE x \notin F
    BY <1>1, <1>10, <2>2 DEF WaitsSame, HalfWoken
  <2> QED BY <2>1, <2>2
<1> QED BY <1>0, <1>3, <1>4, <1>5, <1>7, <1>8, <1>9, <1>10, FailFrame

-----------------------------------------------------------------------------
(* The theorems *)

\* It holds at the start.
LEMMA AllInit ==
  ASSUME Regular, Init
  PROVE  AllInv
<1>0. /\ wfc = [t \in Trx |-> NewWfc] /\ pc = [t \in Trx |-> "queued"] /\ optimize = TRUE
      /\ ent = [t \in Trx |-> NewEntry] /\ queue = <<>> /\ lk = [l \in {"log", "sync", "commit"} |-> NoTrx]
      /\ busy = FALSE /\ binlog = <<>> /\ engine = <<>>
      /\ rgi = [t \in Trx |-> [marked |-> FALSE, failed |-> FALSE, killed |-> "no",
                             spec |-> Speculation[t], rowWait |-> NoTrx, result |-> "none",
                             retries |-> 0, taken |-> FALSE]]
      /\ dom = [d \in Domains |-> [last |-> 0, stopErr |-> 0, count |-> 0, stopCount |-> -1]]
  BY DEF Init, GCInit, Regular
<1>1. \A t \in Trx : /\ wfc[t].waitee = NoTrx /\ wfc[t].subs = {} /\ wfc[t].walk = {} /\ ~wfc[t].waking /\ ~wfc[t].ready
                     /\ ~wfc[t].started /\ wfc[t].werr = "ok" /\ wfc[t].unwait = "no" /\ ~wfc[t].torn
  BY <1>0 DEF NewWfc
<1>2. \A t \in Trx : ~ent[t].qbo /\ ~ent[t].err /\ ~ent[t].signalled /\ ent[t].rest = <<>> /\ pc[t] = "queued"
  BY <1>0 DEF NewEntry
<1>3. \A t \in Trx : /\ ~rgi[t].failed /\ rgi[t].killed = "no" /\ rgi[t].rowWait = NoTrx
                     /\ rgi[t].result = "none" /\ rgi[t].spec = Speculation[t] /\ rgi[t].retries = 0
  BY <1>0
<1>4. \A d \in Domains : dom[d].last = 0 /\ dom[d].stopErr = 0
  BY <1>0
<1>5. TypeInv
  <2>1. wfc \in [Trx -> WfcType]
    BY <1>0 DEF NewWfc, WfcType, WakeupErrors
  <2>2. GCTypeOK
    <3>1. <<>> \in Seq(Trx)
      BY TrxLists
    <3>2. NewEntry \in Entries
      BY <3>1 DEF NewEntry, Entries
    <3>3. ent \in [Trx -> Entries]
      BY <1>0, <3>2
    <3> QED BY <1>0, <3>1, <3>3 DEF GCTypeOK
  <2>3. rgi \in [Trx -> RgiType]
    BY <1>0, GroupsAssumption DEF RgiType
  <2>4. dom \in [Domains -> DomType]
    BY <1>0 DEF DomType
  <2>5. pc \in [Trx -> Labels]
    BY <1>0 DEF Labels
  <2> QED BY <2>1, <2>2, <2>3, <2>4, <2>5 DEF TypeInv
<1>6. GroupInv
  <2>1. ModeOK
    BY <1>0, <1>2 DEF ModeOK
  <2>2. LockOK
    BY <1>0, <1>2, TrxAssumption DEF LockOK
  <2>3. Unwritten = <<>> /\ Written = <<>> /\ Synced = <<>> /\ Committing = <<>>
    BY <1>0 DEF Unwritten, Written, Synced, Committing
  <2>4. All = <<>>
    BY <1>0, <2>3, TrxLists DEF All
  <2>5. LogOK
    <3>1. engine \o (Committing \o (Synced \o Written)) = <<>>
      BY <1>0, <2>3, TrxLists
    <3>2. Len(<<>>) = 0
      OBVIOUS
    <3>3. SeqInj(All) /\ InOrder(All) /\ \A t : ~In(All, t)
      BY <2>4, <3>2 DEF SeqInj, InOrder, In
    <3> QED BY <1>0, <1>1, <3>1, <3>3 DEF LogOK
  <2>6. \A t : ~In(queue, t)
    BY <1>0 DEF In
  <2>7. \A t \in Trx : LeaderOK(t)
    BY <1>2, <2>6 DEF LeaderOK
  <2> QED BY <2>1, <2>2, <2>5, <2>7 DEF GroupInv
<1>7. WaitInv
  <2>1. \A t \in Trx : PhaseOK(t)
    BY <1>1, <1>2, <1>3 DEF PhaseOK, InGroup, Ending
  <2>2. \A t \in Trx : ListOK(t) /\ WaitOK(t) /\ ClearedOK(t) /\ KillOK(t)
    BY <1>1, <1>2, <1>3 DEF ListOK, WaitOK, ClearedOK, KillOK
  <2>3. \A d \in Domains : DomOK(d)
    BY <1>2, <1>4 DEF DomOK
  <2> QED BY <2>1, <2>2, <2>3 DEF WaitInv
<1>8. ErrInv
  BY <1>1, <1>3 DEF ErrInv
<1>9. FailInv
  <2>1. \A t \in Trx : FailOK(t)
    BY <1>2, <1>3 DEF FailOK, Retried, HasRowLocks, Retrying
  <2>2. \A t \in Trx : AfterFailed(t)
    BY <1>1, <1>2 DEF AfterFailed, OnItsWay
  <2>3. \A d \in Domains : StopOK(d)
    BY <1>4 DEF StopOK
  <2> QED BY <2>1, <2>2, <2>3 DEF FailInv
<1> QED BY <1>5, <1>6, <1>7, <1>8, <1>9 DEF AllInv

\* A step that changes nothing.
LEMMA StutterKeeps ==
  ASSUME AllInv, UNCHANGED vars
  PROVE  AllInv'
<1>1. UNCHANGED <<wfc, pc, gcVars, rgi, dom>>
  BY DEF vars, gcVars
<1>2. UNCHANGED <<wfc, pc, optimize, ent, queue, lk, busy, binlog, engine, rgi, dom>>
  BY DEF vars
<1>3. TypeInv'
  BY <1>2 DEF AllInv, TypeInv, GCTypeOK
<1>4. GroupInv'
  <2>1. Outside
    BY <1>1, <1>2 DEF Outside
  <2> QED BY <2>1, OutsideKeeps DEF AllInv
<1>5. WaitInv'
  BY <1>2 DEF AllInv, WaitInv, PhaseOK, ListOK, ListedOK, WaitOK, ClearedOK, KillOK, DomOK, AllThrough, Through, Untorn
<1>6. ErrInv' /\ FailInv'
  <2>1. StopsSame /\ \A x \in Trx : WaitsSame(x)
    BY <1>2 DEF StopsSame, WaitsSame, HalfWoken
  <2> QED BY <1>2, <1>3, <1>5, <2>1, StillPlain
<1> QED BY <1>3, <1>4, <1>5, <1>6 DEF AllInv

\* The steps of group commit, in the mode they are proved for.
LEMMA GroupCommitKeeps ==
  ASSUME Regular, AllInv, NEW t \in Trx, GroupCommitStep(t), UNCHANGED <<rgi, dom>>
  PROVE  AllInv'
<1>0. TypeInv /\ GroupInv /\ WaitInv /\ ErrInv /\ FailInv
  BY DEF AllInv
<1>1. ~QueueFree(t) /\ ~OwnCommitOrdered(t) /\ ~SignalOther(t)
  BY <1>0 DEF GroupInv, ModeOK, QueueFree, OwnCommitOrdered, SignalOther
<1>2. TypeInv' /\ GroupInv' /\ WaitInv'
  BY <1>0, <1>1, CheckPriorKeeps, SetReadyKeeps, PriorCameKeeps, EnqueueKeeps, CollectGroupKeeps, WriteGroupKeeps,
     LockAfterSyncKeeps, LockCommitOrderedKeeps, CommitOrderedKeeps, WakeOneKeeps, SignalNextKeeps, SignalledKeeps
     DEF GroupCommitStep
<1>3. ErrInv' /\ FailInv'
  BY <1>1, <1>2, PlainSteps, WakeSteps, SignalNextFail, EnqueueFail DEF GroupCommitStep
<1> QED BY <1>2, <1>3 DEF AllInv

\* A step of a worker thread.
LEMMA WorkerKeeps ==
  ASSUME Regular, AllInv, NEW t \in Trx, Worker(t)
  PROVE  AllInv'
<1>0. TypeInv /\ GroupInv /\ WaitInv /\ ErrInv /\ FailInv
  BY DEF AllInv
<1>k. ~KilledInGcoWait(t) /\ FailOK(t) /\ SlaveTransRetries > 0
  BY <1>0 DEF KilledInGcoWait, WaitInv, KillOK, FailInv, Regular
<1>1. CASE GroupCommitStep(t) /\ UNCHANGED <<rgi, dom>>
  BY <1>1, GroupCommitKeeps
<1>2. CASE ~(GroupCommitStep(t) /\ UNCHANGED <<rgi, dom>>)
  <2>1. TypeInv' /\ GroupInv' /\ WaitInv'
    BY <1>0, <1>k, <1>2, StartKeeps, ExecuteKeeps, ExecErrorKeeps, CommitKeeps, SpeculateWaitKeeps, GiveUpKeeps, RemoveFromListKeeps,
       RetryKeeps, RetryUnregisterKeeps, RetryRollbackKeeps, RetryWaitedKeeps, FinishWaitKeeps, FinishKeeps, FinishWakeKeeps
       DEF Worker
  <2>2. ErrInv' /\ FailInv'
    BY <1>k, <1>2, <2>1, StartFail, ExecuteFail, ExecFails, CommitFail, SpeculateFail, GiveUpFail, RemoveFail,
       RetryFail, UnregisterFail, RollbackFail, RetryWaitedFail, FinishWaitFail, FinishFail, FinishWakeFail
       DEF Worker
  <2> QED BY <2>1, <2>2 DEF AllInv
<1> QED BY <1>1, <1>2

\* What others do to the worker threads.
LEMMA DisturbsKeep ==
  ASSUME Regular, AllInv, Disturb
  PROVE  AllInv'
<1>0. TypeInv /\ GroupInv /\ WaitInv /\ ErrInv /\ FailInv
  BY DEF AllInv
<1>1. ASSUME NEW t \in Trx, ExecError(t) \/ AbortHalf(t) PROVE AllInv'
  <2>0. FailOK(t) /\ SlaveTransRetries > 0
    BY <1>0 DEF FailInv, Regular
  <2>1. TypeInv' /\ GroupInv' /\ WaitInv'
    BY <1>0, <1>1, <2>0, ExecErrorKeeps
  <2> QED BY <1>1, <2>1, ExecFails DEF AllInv
<1>2. ASSUME NEW t \in Trx, NEW u \in Trx, Stop \/ UserKill(t) \/ DeadlockKill(t) \/ RowWait(u, t) PROVE AllInv'
  <2>1. TypeInv' /\ GroupInv' /\ WaitInv'
    BY <1>0, <1>2, StopKeeps, KillKeeps, RowWaitKeeps
  <2> QED BY <1>2, <2>1, DisturbFail DEF AllInv
<1>3. CASE Trx = {}
  <2>1. Domains = {}
    BY <1>3 DEF Domains
  <2> QED BY <1>3, <2>1 DEF Disturb, Stop
<1>4. CASE Trx # {}
  BY <1>1, <1>2, <1>4 DEF Disturb
<1> QED BY <1>3, <1>4

\* Every step keeps the invariant.
LEMMA StepKeeps ==
  ASSUME Regular, AllInv, [Next]_vars
  PROVE  AllInv'
BY StutterKeeps, WorkerKeeps, DisturbsKeep DEF Next, Terminated

\* The invariant holds in every state the workers reach.
THEOREM GroupsInvariant ==
  ASSUME Regular
  PROVE  Spec => []AllInv
<1>1. Init => AllInv
  BY AllInit
<1>2. AllInv /\ [Next]_vars => AllInv'
  BY StepKeeps
<1> QED BY <1>1, <1>2, PTL DEF Spec

\* A group that was rolled back or skipped is not in the queue of group commit,
\* not in the binary log and not committed in an engine, unless it or one before
\* it in its domain entered the queue between the two stores of its wakeup(): a
\* kill for a deadlock that comes while the waitee takes over the commit, in
\* queue_for_group_commit(), is never acted on once the group is queued.
THEOREM RolledBackStaysOut ==
  ASSUME Regular
  PROVE  Spec => []RolledBackNotLogged
<1>1. AllInv => RolledBackNotLogged
  <2> SUFFICES ASSUME AllInv, NEW t \in Trx, rgi[t].result \in {"rolledback", "skipped"},
                      NEW s \in {queue, binlog, engine}, t \in ToSet(s)
               PROVE  \E u \in Earlier(t) \cup {t} : wfc[u].torn
    BY DEF RolledBackNotLogged
  <2>1. s \in Seq(Trx)
    BY DEF AllInv, TypeInv, GCTypeOK
  <2>2. In(s, t)
    BY <2>1, ToSetIn
  <2>3. wfc[t].started
    BY <2>2, EngineStarted DEF AllInv
  <2>4. ~Untorn(t)
    BY <2>3 DEF AllInv, WaitInv, PhaseOK, InGroup, Ending
  <2> QED BY <2>4 DEF Untorn
<1> QED BY <1>1, GroupsInvariant, PTL

\* A group that was not retried does not commit after one that failed, unless it
\* entered the queue between the two stores of its wakeup(): else the failure
\* reaches it through the wakeup error of finish_event_group() or through
\* stop_on_error_sub_id, whether it registers before or after the failure.
THEOREM FailureStopsSuccessor ==
  ASSUME Regular
  PROVE  Spec => []NotAfterFailed
<1>1. AllInv => NotAfterFailed
  <2> SUFFICES ASSUME AllInv, NEW t \in ToSet(engine), Prior(t) # NoTrx, ~Retried(t), rgi[Prior(t)].result = "rolledback"
               PROVE  Prior(t) \in ToSet(engine) \/ wfc[t].torn
    BY DEF NotAfterFailed
  <2>1. engine \in Seq(Trx)
    BY DEF AllInv, TypeInv, GCTypeOK
  <2>2. In(engine, t) /\ t \in Trx
    BY <2>1, ToSetIn
  <2>3. wfc[t].started
    BY <2>2, EngineStarted DEF AllInv
  <2>4. CASE wfc[Prior(t)].started
    <3>1. Prior(t) \in Earlier(t) /\ Prior(t) \in Trx
      BY <2>2, PriorLast DEF Earlier
    <3>2. PICK u \in Earlier(t) : u = Prior(t) /\ wfc[u].started
      BY <2>4, <3>1
    <3>3. TypeInv /\ GroupInv
      BY DEF AllInv
    <3>4. In(engine, u)
      BY <2>2, <3>2, <3>3, EnginePrefix
    <3> QED BY <2>1, <3>2, <3>4, ToSetIn
  <2>5. CASE ~wfc[Prior(t)].started
    BY <2>2, <2>3, <2>5 DEF AllInv, FailInv, AfterFailed
  <2> QED BY <2>4, <2>5
<1> QED BY <1>1, GroupsInvariant, PTL

\* A leader that writes its group extends the log in the order of the domains.
LEMMA WriteRefines ==
  ASSUME Regular, AllInv, NEW t \in Trx, WriteGroup(t), UNCHANGED <<rgi, dom>>
  PROVE  Abstract!Write
<1>1. /\ TypeInv' /\ GroupInv'
      /\ binlog' = binlog \o ent[t].rest /\ ent[t].rest \in Seq(Trx) /\ ent[t].rest # <<>>
      /\ binlog \in Seq(Trx)
  BY WriteGroupKeeps DEF AllInv, TypeInv, GCTypeOK
<1>2. UNCHANGED <<optimize, engine>>
  BY DEF WriteGroup
<1>3. PICK g \in Seq(Trx) : binlog' = binlog \o g /\ g # <<>>
  BY <1>1
<1>4. /\ Len(binlog \o g) = Len(binlog) + Len(g) /\ Len(binlog) \in Nat /\ Len(g) \in Nat /\ Len(g) # 0
      /\ \A i \in 1 .. Len(binlog) : (binlog \o g)[i] = binlog[i]
  BY <1>1, <1>3, ConcatStart, EmptySeq
<1>5. SubSeq(binlog', 1, Len(binlog)) = binlog
  <2> DEFINE b == binlog \o g
  <2>1. b \in Seq(Trx) /\ Len(b) >= Len(binlog) /\ \A i \in 1 .. Len(binlog) : b[i] = binlog[i]
    BY <1>1, <1>3, <1>4, ConcatStart
  <2> HIDE DEF b
  <2>2. /\ SubSeq(b, 1, Len(binlog)) \in Seq(Trx) /\ Len(SubSeq(b, 1, Len(binlog))) = Len(binlog)
        /\ \A i \in 1 .. Len(binlog) : SubSeq(b, 1, Len(binlog))[i] = b[i]
    BY <1>1, <1>4, <2>1, SubSeqProperties
  <2>3. SubSeq(b, 1, Len(binlog)) = binlog
    BY <1>1, <2>1, <2>2, SeqEqual
  <2> QED BY <1>3, <2>3 DEF b
<1>6. Abstract!InOrder(binlog)'
  <2>1. Unwritten = ent[t].rest /\ queue \in Seq(Trx)
    <3>1. lk["log"] = t /\ pc[t] = "write" /\ t # NoTrx
      BY TrxAssumption DEF AllInv, GroupInv, LockOK, WriteGroup
    <3> QED BY <3>1 DEF Unwritten, AllInv, TypeInv, GCTypeOK
  <2>2. InOrder(binlog \o (ent[t].rest \o queue))
    BY <2>1 DEF AllInv, GroupInv, LogOK, All
  <2>3. InOrder(binlog' \o queue) /\ binlog' \in Seq(Trx)
    <3>1. (binlog \o ent[t].rest) \o queue = binlog \o (ent[t].rest \o queue)
      BY <1>1, <2>1, TrxAssoc
    <3>2. InOrder(binlog' \o queue)
      BY <1>1, <2>2, <3>1
    <3>3. binlog' \in Seq(Trx)
      BY <1>1 DEF TypeInv, GCTypeOK
    <3> QED BY <3>2, <3>3
  <2> DEFINE b == binlog' \o queue
  <2>4. /\ Len(b) = Len(binlog') + Len(queue) /\ Len(binlog') \in Nat /\ Len(queue) \in Nat
        /\ \A i \in 1 .. Len(binlog') : b[i] = binlog'[i]
    BY <2>1, <2>3, ConcatStart
  <2> HIDE DEF b
  <2>5. \A i \in 1 .. Len(binlog') : i \in 1 .. Len(b)
    BY <2>4
  <2>6. InOrder(b)
    BY <2>3 DEF b
  <2>7. \A i, j \in 1 .. Len(binlog') : i < j /\ Domain[binlog'[i]] = Domain[binlog'[j]] => binlog'[i] < binlog'[j]
    BY <2>4, <2>5, <2>6 DEF InOrder
  <2>8. DOMAIN (binlog') = 1 .. Len(binlog')
    BY <2>3
  <2> QED BY <2>7, <2>8 DEF Abstract!InOrder
<1> QED BY <1>2, <1>3, <1>4, <1>5, <1>6 DEF Abstract!Write

\* A leader that calls commit_ordered() does it for the next in the log.
LEMMA ApplyRefines ==
  ASSUME AllInv, NEW t \in Trx, CommitOrdered(t), UNCHANGED <<rgi, dom>>
  PROVE  Abstract!Apply
<1>0. TypeInv /\ GroupInv /\ WaitInv /\ optimize /\ UNCHANGED <<optimize, binlog>>
  BY DEF AllInv, GroupInv, ModeOK, CommitOrdered
<1>1. PICK c \in Trx, r \in Seq(Trx) : engine' = Append(engine, c) /\ Committing = <<c>> \o r
  BY <1>0, CommitOrderedKeeps
<1>2. PICK q \in Seq(Trx) : binlog = engine \o ((<<c>> \o r) \o q) /\ engine \in Seq(Trx)
  <2>1. Synced \o Written \in Seq(Trx) /\ engine \in Seq(Trx)
    BY <1>0, StageTypes, TrxLists
  <2> QED BY <1>0, <1>1, <2>1 DEF GroupInv, LogOK
<1>3. /\ Len(binlog) = Len(engine) + Len((<<c>> \o r) \o q) /\ Len(engine) \in Nat
      /\ \A i \in 1 .. Len((<<c>> \o r) \o q) : binlog[Len(engine) + i] = ((<<c>> \o r) \o q)[i]
  <2>1. (<<c>> \o r) \o q \in Seq(Trx)
    OBVIOUS
  <2> QED BY <1>2, <2>1, ConcatStart
<1>4. /\ Len((<<c>> \o r) \o q) = 1 + Len(r) + Len(q) /\ Len(r) \in Nat /\ Len(q) \in Nat
      /\ ((<<c>> \o r) \o q)[1] = c
  OBVIOUS
<1>5. Len(engine) < Len(binlog) /\ binlog[Len(engine) + 1] = c
  BY <1>3, <1>4
<1> QED BY <1>0, <1>1, <1>5 DEF Abstract!Apply

\* Every step of a worker is a write of a group, a commit of the next in the
\* log, or is not seen in log and engines.
LEMMA StepRefines ==
  ASSUME Regular, AllInv, [Next]_vars
  PROVE  [Abstract!Next]_<<binlog, IF optimize THEN engine ELSE <<>> >>
<1> SUFFICES ~UNCHANGED <<binlog, optimize, engine>> => Abstract!Next
  OBVIOUS
<1>1. ASSUME NEW t \in Trx, Worker(t) PROVE UNCHANGED <<binlog, optimize, engine>> \/ Abstract!Next
  <2>1. CASE WriteGroup(t) /\ UNCHANGED <<rgi, dom>>
    BY <2>1, WriteRefines DEF Abstract!Next
  <2>2. CASE CommitOrdered(t) /\ UNCHANGED <<rgi, dom>>
    BY <2>2, ApplyRefines DEF Abstract!Next
  <2>3. CASE GroupCommitStep(t) /\ UNCHANGED <<rgi, dom>> /\ ~WriteGroup(t) /\ ~CommitOrdered(t)
    <3>1. ~OwnCommitOrdered(t)
      BY DEF AllInv, GroupInv, ModeOK, OwnCommitOrdered
    <3>2. UNCHANGED <<binlog, optimize, engine>>
      BY <2>3, <3>1 DEF GroupCommitStep, gcVars, CheckPrior, SetReady, PriorCame, Enqueue, CollectGroup,
         LockAfterSync, LockCommitOrdered, QueueFree, WakeOne, WakeEnd, SignalNext, SignalOther, Signalled
    <3> QED BY <3>2
  <2>4. CASE ~(GroupCommitStep(t) /\ UNCHANGED <<rgi, dom>>)
    BY <1>1, <2>4 DEF Worker, gcVars, StartGroup, KilledInGcoWait, Execute, PriorFailed, Commit, SpeculateWait, Skip, GiveUp, RemoveFromList,
       Retry, RetryUnregister, RetryRollback, RetryRegister, RetryWaited, FinishWait, Finish, FinishWakeOne, FinishEnd
  <2> QED BY <1>1, <2>1, <2>2, <2>3, <2>4 DEF Worker
<1>2. CASE Disturb
  BY <1>2 DEF Disturb, Stop, ExecError, AbortHalf, UserKill, DeadlockKill, RowWait, gcVars
<1>3. CASE UNCHANGED vars
  BY <1>3 DEF vars
<1> QED BY <1>1, <1>2, <1>3 DEF Next, Terminated

\* Parallel replication with group commit implements CommitOrder: the binary log
\* has the groups of each domain in the order of the master, and the engines
\* commit in the order of the binary log, never ahead of it.
THEOREM CommitOrderRefined ==
  ASSUME Regular
  PROVE  Spec => CommitsInOrder
<1>1. Init => Abstract!Init
  BY DEF Init, GCInit, Abstract!Init
<1>2. AllInv /\ [Next]_vars => [Abstract!Next]_<<binlog, IF optimize THEN engine ELSE <<>> >>
  BY StepRefines
<1>3. Spec => Abstract!Init /\ [][Abstract!Next]_<<binlog, IF optimize THEN engine ELSE <<>> >>
  BY <1>1, <1>2, GroupsInvariant, PTL DEF Spec
<1> QED BY <1>3, PTL DEF CommitsInOrder, Abstract!Spec
=============================================================================
