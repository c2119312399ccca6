---------------------------- MODULE PrLockProofs ----------------------------
(***************************************************************************)
(* Proofs about the reader-preferring rw lock of module PrLock: a writer   *)
(* excludes everyone else, readers are counted exactly and no wake-up of a *)
(* writer is lost, for any number of threads and locks and any depth of a  *)
(* search for deadlocks.                                                   *)
(***************************************************************************)
EXTENDS PrLock, FiniteSetTheorems, TLAPS

USE PrLockAssumption

-----------------------------------------------------------------------------
(* The inductive invariant *)

\* The threads that have counted themselves in writers_waiting_readers of l
Waiters(l) == {u \in Thread : pc[u] \in {"asleep", "woken"} /\ want[u] = l}

\* They are counted exactly
WaitersOK == \A l \in Lock : IsFiniteSet(Waiters(l)) /\ waiting[l] = Cardinality(Waiters(l))

\* The holders of a lock are finitely many, so that they can be counted
HoldsOK == \A l \in Lock : IsFiniteSet(Holds(l))

\* A thread that asks for one more lock has room for it and writes none; one that
\* is outside, or waits to write, holds none
ThreadOK(t) ==
  /\ pc[t] \in {"idle", "wrlock", "asleep", "woken"} => path[t] = <<>>
  /\ pc[t] \in {"locked", "unlock_wr", "unlock_rd"} => path[t] # <<>>
  /\ pc[t] = "rdlock" => /\ Len(path[t]) < MaxDepth
                         /\ \A i \in 1 .. Len(path[t]) : ~writer[path[t][i]]

IInv ==
  /\ TypeOK
  /\ WaitersOK /\ HoldsOK
  /\ \A t \in Thread : ThreadOK(t)
  /\ Exclusive /\ NoLostWakeup

-----------------------------------------------------------------------------
(* Paths *)

\* A path is a sequence of locks.
LEMMA PathFacts ==
  ASSUME NEW s \in BoundedSeq(Lock, MaxDepth)
  PROVE  /\ s \in Seq(Lock) /\ Len(s) \in 0 .. MaxDepth /\ DOMAIN s = 1 .. Len(s)
         /\ s # <<>> => Len(s) > 0 /\ Last(s) \in Lock /\ Last(s) = s[Len(s)]
         /\ \A i \in 1 .. Len(s) : s[i] \in Lock
<1>1. PICK m \in 0 .. MaxDepth : s \in [1 .. m -> Lock]
  BY DEF BoundedSeq, SeqOf
<1>2. s \in Seq(Lock) /\ Len(s) = m
  BY <1>1
<1> QED BY <1>1, <1>2 DEF Last

\* A sequence of locks that is short enough is a path.
LEMMA IsPath ==
  ASSUME NEW s \in Seq(Lock), Len(s) <= MaxDepth
  PROVE  s \in BoundedSeq(Lock, MaxDepth)
<1>1. s \in [1 .. Len(s) -> Lock] /\ Len(s) \in 0 .. MaxDepth
  OBVIOUS
<1> QED BY <1>1 DEF BoundedSeq, SeqOf

\* One lock more is held: in one more place.
LEMMA HoldsPush ==
  ASSUME TypeOK, NEW t \in Thread, NEW l \in Lock, Len(path[t]) < MaxDepth,
         path' = [path EXCEPT ![t] = Append(path[t], l)]
  PROVE  /\ path' \in [Thread -> BoundedSeq(Lock, MaxDepth)]
         /\ Len(path'[t]) = Len(path[t]) + 1 /\ path'[t][Len(path[t]) + 1] = l
         /\ \A i \in 1 .. Len(path[t]) : path'[t][i] = path[t][i]
         /\ <<t, Len(path[t]) + 1>> \notin Holds(l)
         /\ Holds(l)' = Holds(l) \cup {<<t, Len(path[t]) + 1>>}
         /\ \A m \in Lock \ {l} : Holds(m)' = Holds(m)
<1> DEFINE n == Len(path[t])
<1>1. \A u \in Thread : /\ path[u] \in Seq(Lock) /\ Len(path[u]) \in 0 .. MaxDepth
                        /\ DOMAIN path[u] = 1 .. Len(path[u])
  BY PathFacts DEF TypeOK
<1>2. /\ Append(path[t], l) \in Seq(Lock) /\ Len(Append(path[t], l)) = n + 1
      /\ Append(path[t], l)[n + 1] = l /\ \A i \in 1 .. n : Append(path[t], l)[i] = path[t][i]
  BY <1>1
<1>3. path'[t] = Append(path[t], l) /\ \A u \in Thread \ {t} : path'[u] = path[u]
  BY DEF TypeOK
<1>4. path' \in [Thread -> BoundedSeq(Lock, MaxDepth)]
  <2>1. Len(Append(path[t], l)) <= MaxDepth
    BY <1>1, <1>2
  <2>2. Append(path[t], l) \in BoundedSeq(Lock, MaxDepth)
    BY <1>2, <2>1, IsPath
  <2> QED BY <2>2 DEF TypeOK
<1>5. DOMAIN path'[t] = 1 .. n + 1
  BY <1>1, <1>2, <1>3
<1>6. <<t, n + 1>> \notin Holds(l)
  BY <1>1 DEF Holds
<1>7. ASSUME NEW h \in Thread \X (1 .. MaxDepth), NEW m \in Lock
      PROVE  h \in Holds(m)' <=> h \in Holds(m) \/ (m = l /\ h = <<t, n + 1>>)
  <2>1. h[1] \in Thread /\ h[2] \in 1 .. MaxDepth /\ h = <<h[1], h[2]>>
    OBVIOUS
  <2>2. CASE h[1] # t
    BY <1>3, <2>1, <2>2 DEF Holds
  <2>3. CASE h[1] = t /\ h[2] <= n
    <3>1. h[2] \in DOMAIN path[t] /\ h[2] \in DOMAIN path'[t] /\ path'[t][h[2]] = path[t][h[2]]
      BY <1>1, <1>2, <1>3, <1>5, <2>1, <2>3
    <3> QED BY <1>1, <2>1, <2>3, <3>1 DEF Holds
  <2>4. CASE h[1] = t /\ h[2] = n + 1
    <3>1. h[2] \notin DOMAIN path[t] /\ h[2] \in DOMAIN path'[t] /\ path'[t][h[2]] = l
      BY <1>1, <1>2, <1>3, <1>5, <2>1, <2>4
    <3> QED BY <2>1, <2>4, <3>1 DEF Holds
  <2>5. CASE h[1] = t /\ h[2] > n + 1
    <3>1. h[2] \notin DOMAIN path[t] /\ h[2] \notin DOMAIN path'[t] /\ h[2] # n + 1
      BY <1>1, <1>5, <2>1, <2>5
    <3> QED BY <2>1, <2>5, <3>1 DEF Holds
  <2> QED BY <1>1, <2>1, <2>2, <2>3, <2>4, <2>5
<1>8. <<t, n + 1>> \in Thread \X (1 .. MaxDepth)
  BY <1>1
<1>9. \A m \in Lock : Holds(m)' \subseteq Thread \X (1 .. MaxDepth)
                      /\ Holds(m) \subseteq Thread \X (1 .. MaxDepth)
  BY DEF Holds
<1>10. Holds(l)' = Holds(l) \cup {<<t, n + 1>>}
  BY <1>7, <1>8, <1>9
<1>11. \A m \in Lock \ {l} : Holds(m)' = Holds(m)
  BY <1>7, <1>9
<1>12. Len(path'[t]) = n + 1 /\ path'[t][n + 1] = l /\ \A i \in 1 .. n : path'[t][i] = path[t][i]
  BY <1>2, <1>3
<1> QED BY <1>4, <1>6, <1>10, <1>11, <1>12

\* The last lock of a path is released: in one place less.
LEMMA HoldsPop ==
  ASSUME TypeOK, NEW t \in Thread, path[t] # <<>>,
         path' = [path EXCEPT ![t] = Front(path[t])]
  PROVE  /\ path' \in [Thread -> BoundedSeq(Lock, MaxDepth)]
         /\ Len(path'[t]) = Len(path[t]) - 1
         /\ \A i \in 1 .. Len(path'[t]) : path'[t][i] = path[t][i]
         /\ <<t, Len(path[t])>> \in Holds(Last(path[t]))
         /\ \A m \in Lock : Holds(m)' = Holds(m) \ {<<t, Len(path[t])>>}
         /\ \A m \in Lock \ {Last(path[t])} : Holds(m)' = Holds(m)
<1> DEFINE n == Len(path[t])
<1>1. \A u \in Thread : /\ path[u] \in Seq(Lock) /\ Len(path[u]) \in 0 .. MaxDepth
                        /\ DOMAIN path[u] = 1 .. Len(path[u])
  BY PathFacts DEF TypeOK
<1>2. n \in 1 .. MaxDepth /\ Last(path[t]) = path[t][n]
  BY PathFacts DEF TypeOK
<1>3. /\ Front(path[t]) \in Seq(Lock) /\ Len(Front(path[t])) = n - 1
      /\ \A i \in 1 .. n - 1 : Front(path[t])[i] = path[t][i]
  BY <1>1, <1>2 DEF Front
<1>4. path'[t] = Front(path[t]) /\ \A u \in Thread \ {t} : path'[u] = path[u]
  BY DEF TypeOK
<1>5. path' \in [Thread -> BoundedSeq(Lock, MaxDepth)]
  BY <1>1, <1>2, <1>3, IsPath DEF TypeOK
<1>6. DOMAIN path'[t] = 1 .. n - 1
  BY <1>3, <1>4
<1>7. <<t, n>> \in Holds(Last(path[t]))
  BY <1>1, <1>2 DEF Holds
<1>8. ASSUME NEW h \in Thread \X (1 .. MaxDepth), NEW m \in Lock
      PROVE  h \in Holds(m)' <=> h \in Holds(m) /\ h # <<t, n>>
  <2>1. h[1] \in Thread /\ h[2] \in 1 .. MaxDepth /\ h = <<h[1], h[2]>>
    OBVIOUS
  <2>2. CASE h[1] # t
    BY <1>4, <2>1, <2>2 DEF Holds
  <2>3. CASE h[1] = t /\ h[2] < n
    <3>1. h[2] \in DOMAIN path[t] /\ h[2] \in DOMAIN path'[t] /\ path'[t][h[2]] = path[t][h[2]]
      BY <1>1, <1>2, <1>3, <1>4, <1>6, <2>1, <2>3
    <3> QED BY <1>1, <2>1, <2>3, <3>1 DEF Holds
  <2>4. CASE h[1] = t /\ h[2] >= n
    <3>1. h[2] \notin DOMAIN path'[t] /\ (h[2] \in DOMAIN path[t] => h[2] = n)
      BY <1>1, <1>2, <1>6, <2>1, <2>4
    <3> QED BY <2>1, <2>4, <3>1 DEF Holds
  <2> QED BY <1>2, <2>1, <2>2, <2>3, <2>4
<1>9. \A m \in Lock : Holds(m)' \subseteq Thread \X (1 .. MaxDepth)
                      /\ Holds(m) \subseteq Thread \X (1 .. MaxDepth)
  BY DEF Holds
<1>10. \A m \in Lock : Holds(m)' = Holds(m) \ {<<t, n>>}
  BY <1>8, <1>9
<1>11. \A m \in Lock \ {Last(path[t])} : <<t, n>> \notin Holds(m)
  BY <1>2 DEF Holds
<1>12. \A m \in Lock \ {Last(path[t])} : Holds(m)' = Holds(m)
  BY <1>10, <1>11
<1>13. Len(path'[t]) = n - 1 /\ \A i \in 1 .. Len(path'[t]) : path'[t][i] = path[t][i]
  BY <1>3, <1>4
<1> QED BY <1>5, <1>7, <1>10, <1>12, <1>13


-----------------------------------------------------------------------------
(* What the parts of the actions do *)

Pcs == {"idle", "rdlock", "wrlock", "asleep", "woken", "locked", "unlock_wr", "unlock_rd"}

\* A thread with a lock that is written anywhere in its path is the writer, and
\* holds nothing else.
LEMMA WriterAlone ==
  ASSUME IInv, NEW t \in Thread, NEW i \in 1 .. Len(path[t]), writer[path[t][i]]
  PROVE  /\ mutex[path[t][i]] = t /\ path[t] = <<path[t][i]>> /\ i = 1
         /\ Holds(path[t][i]) = {<<t, 1>>} /\ readers[path[t][i]] = 0
<1>1. Len(path[t]) \in 0 .. MaxDepth /\ DOMAIN path[t] = 1 .. Len(path[t]) /\ path[t][i] \in Lock
  BY PathFacts DEF IInv, TypeOK
<1>2. <<t, i>> \in Holds(path[t][i])
  BY <1>1 DEF Holds
<1>3. /\ path[mutex[path[t][i]]] = <<path[t][i]>> /\ readers[path[t][i]] = 0
      /\ Holds(path[t][i]) = {<<mutex[path[t][i]], 1>>}
  BY <1>1 DEF IInv, Exclusive
<1>4. t = mutex[path[t][i]] /\ i = 1
  BY <1>2, <1>3
<1> QED BY <1>3, <1>4

\* The lock a thread is about to release.
LEMMA LastFacts ==
  ASSUME IInv, NEW t \in Thread, pc[t] \in {"locked", "unlock_wr", "unlock_rd"}
  PROVE  /\ path[t] # <<>> /\ Len(path[t]) \in 1 .. MaxDepth
         /\ Last(path[t]) \in Lock /\ Last(path[t]) = path[t][Len(path[t])]
         /\ <<t, Len(path[t])>> \in Holds(Last(path[t]))
<1>1. path[t] # <<>>
  BY DEF IInv, ThreadOK
<1>2. /\ Len(path[t]) \in 1 .. MaxDepth /\ DOMAIN path[t] = 1 .. Len(path[t])
      /\ Last(path[t]) \in Lock /\ Last(path[t]) = path[t][Len(path[t])]
  BY <1>1, PathFacts DEF IInv, TypeOK
<1> QED BY <1>1, <1>2 DEF Holds

\* Signal() wakes one of the threads that sleep on the lock, if there is one.
LEMMA SignalFacts ==
  ASSUME TypeOK, NEW t \in Thread, NEW l \in Lock, NEW where \in {"idle", "locked"},
         pc[t] \notin {"asleep", "woken"}, Signal(t, l, where)
  PROVE  /\ pc' \in [Thread -> Pcs] /\ pc'[t] = where
         /\ \A u \in Thread \ {t} : \/ pc'[u] = pc[u]
                                    \/ pc[u] = "asleep" /\ want[u] = l /\ pc'[u] = "woken"
         /\ Sleepers(l) # {} => \E u \in Thread : pc'[u] = "woken" /\ want[u] = l
<1>1. CASE Sleepers(l) = {}
  BY <1>1 DEF Signal, Goto, TypeOK, Pcs
<1>2. CASE Sleepers(l) # {}
  <2>1. PICK u \in Sleepers(l) : pc' = [pc EXCEPT ![u] = "woken", ![t] = where]
    BY <1>2 DEF Signal
  <2>2. u \in Thread /\ u # t /\ pc[u] = "asleep" /\ want[u] = l
    BY <2>1 DEF Sleepers
  <2>3. /\ pc' \in [Thread -> Pcs] /\ pc'[t] = where /\ pc'[u] = "woken"
        /\ \A v \in Thread \ {t, u} : pc'[v] = pc[v]
    BY <2>1, <2>2 DEF TypeOK, Pcs
  <2> QED BY <2>2, <2>3
<1> QED BY <1>1, <1>2

\* Who waits is as it was where a thread that does not wait moves to a place
\* where it does not either, and others at most wake.
LEMMA WaitersSame ==
  ASSUME IInv, NEW t \in Thread, waiting' = waiting,
         pc[t] \notin {"asleep", "woken"}, pc'[t] \notin {"asleep", "woken"},
         \A u \in Thread \ {t} :
            /\ want'[u] = want[u]
            /\ pc'[u] = pc[u] \/ (pc[u] = "asleep" /\ pc'[u] = "woken")
  PROVE  WaitersOK'
<1>1. ASSUME NEW l \in Lock PROVE Waiters(l)' = Waiters(l)
  BY DEF Waiters
<1> QED BY <1>1 DEF IInv, WaitersOK

\* A path that is left alone is held as it was.
LEMMA HoldsSame == ASSUME path' = path PROVE \A l \in Lock : Holds(l)' = Holds(l)
BY DEF Holds

\* Threads other than t keep what the invariant says of them, where they stay or
\* wake and no lock of theirs becomes written.
LEMMA OthersOK ==
  ASSUME IInv, NEW t \in Thread, NEW u \in Thread \ {t}, path'[u] = path[u],
         pc'[u] = pc[u] \/ (pc[u] = "asleep" /\ pc'[u] = "woken"),
         \A i \in 1 .. Len(path[u]) : ~writer[path[u][i]] => ~writer'[path[u][i]]
  PROVE  ThreadOK(u)'
BY DEF IInv, ThreadOK

-----------------------------------------------------------------------------
(* Every action keeps the invariant *)

\* A caller asks for a lock, or is about to release one: a search never asks for
\* a lock while it writes one, and who releases a lock is recognised.
LEMMA CallInv ==
  ASSUME IInv, NEW t \in Thread, Visit(t) \/ Change(t) \/ Unlock(t)
  PROVE  IInv'
<1>1. UNCHANGED <<lockVars, path>> /\ pc[t] \in {"idle", "locked"}
  BY DEF Visit, Change, Unlock
<1>2. /\ want' \in [Thread -> Lock] /\ pc' \in [Thread -> Pcs]
      /\ \A u \in Thread \ {t} : want'[u] = want[u] /\ pc'[u] = pc[u]
      /\ pc'[t] \in {"rdlock", "wrlock", "unlock_wr", "unlock_rd"}
  BY DEF Visit, Change, Unlock, Goto, IInv, TypeOK, Pcs
<1> USE <1>1 DEF lockVars
<1>3. TypeOK'
  BY <1>2 DEF IInv, TypeOK, Pcs
<1>4. WaitersOK'
  BY <1>2, WaitersSame
<1>5. HoldsOK' /\ \A l \in Lock : Holds(l)' = Holds(l)
  BY HoldsSame DEF IInv, HoldsOK
<1>6. pc[t] = "locked" =>
         /\ Len(path[t]) \in 1 .. MaxDepth
         /\ Last(path[t]) \in Lock /\ Last(path[t]) = path[t][Len(path[t])]
  BY LastFacts
<1>7. ThreadOK(t)'
  <2>1. CASE Visit(t)
    <3>1. pc'[t] = "rdlock" /\ Len(path[t]) < MaxDepth
      BY <2>1 DEF Visit, Goto, IInv, TypeOK
    <3>2. ASSUME NEW i \in 1 .. Len(path[t]), writer[path[t][i]] PROVE FALSE
      <4>1. path[t] = <<path[t][i]>>
        BY <3>2, WriterAlone
      <4>2. Last(path[t]) = path[t][i] /\ path[t] # <<>>
        BY <4>1 DEF Last
      <4> QED BY <2>1, <3>2, <4>2 DEF Visit, IInv, ThreadOK
    <3> QED BY <3>1, <3>2 DEF ThreadOK
  <2>2. CASE Change(t)
    BY <2>2 DEF Change, Goto, IInv, TypeOK, ThreadOK
  <2>3. CASE Unlock(t)
    BY <2>3 DEF Unlock, Goto, IInv, TypeOK, ThreadOK
  <2> QED BY <2>1, <2>2, <2>3
<1>8. \A u \in Thread \ {t} : ThreadOK(u)'
  BY <1>2, OthersOK
<1>9. pc'[t] = "unlock_wr" => pc[t] = "locked" /\ writer[Last(path[t])]
  BY <1>2 DEF Visit, Change, Unlock, Goto, IInv, TypeOK
<1>10. pc'[t] = "unlock_rd" => pc[t] = "locked" /\ ~writer[Last(path[t])]
  BY <1>2 DEF Visit, Change, Unlock, Goto, IInv, TypeOK
<1>11. Exclusive'
  <2> SUFFICES ASSUME NEW l \in Lock
               PROVE  /\ writer[l] => pc'[mutex[l]] # "unlock_rd"
                      /\ ~writer[l] => \A u \in Thread : pc'[u] = "unlock_wr" => Last(path[u]) # l
    BY <1>5 DEF Exclusive, IInv, Free
  <2>1. ASSUME writer[l] PROVE pc'[mutex[l]] # "unlock_rd"
    <3>1. mutex[l] \in Thread /\ path[mutex[l]] = <<l>> /\ pc[mutex[l]] # "unlock_rd"
      BY <2>1 DEF IInv, Exclusive
    <3>2. Last(path[mutex[l]]) = l
      BY <3>1 DEF Last
    <3> QED BY <1>2, <1>10, <2>1, <3>1, <3>2
  <2>2. ASSUME ~writer[l], NEW u \in Thread, pc'[u] = "unlock_wr" PROVE Last(path[u]) # l
    BY <1>2, <1>9, <2>2 DEF IInv, Exclusive
  <2> QED BY <2>1, <2>2
<1>12. NoLostWakeup'
  BY <1>2 DEF IInv, NoLostWakeup, Sleepers
<1> QED BY <1>3, <1>4, <1>5, <1>7, <1>8, <1>11, <1>12 DEF IInv

\* A writer that wakes without a signal is still counted.
LEMMA SpuriousWakeInv == ASSUME IInv, NEW t \in Thread, SpuriousWake(t) PROVE IInv'
<1>1. /\ UNCHANGED <<lockVars, path, want>> /\ pc[t] = "asleep" /\ pc'[t] = "woken"
      /\ pc' \in [Thread -> Pcs] /\ \A u \in Thread \ {t} : pc'[u] = pc[u]
  BY DEF SpuriousWake, Goto, IInv, TypeOK, Pcs
<1> USE <1>1 DEF lockVars
<1>2. TypeOK' BY DEF IInv, TypeOK, Pcs
<1>3. \A l \in Lock : Waiters(l)' = Waiters(l) BY DEF Waiters
<1>4. WaitersOK' BY <1>3 DEF IInv, WaitersOK
<1>5. HoldsOK' /\ \A l \in Lock : Holds(l)' = Holds(l)
  BY HoldsSame DEF IInv, HoldsOK
<1>6. \A u \in Thread : ThreadOK(u)' BY DEF IInv, ThreadOK
<1>7. Exclusive' BY <1>5 DEF IInv, Exclusive, Free
<1>8. NoLostWakeup' BY DEF IInv, NoLostWakeup, Sleepers
<1> QED BY <1>2, <1>4, <1>5, <1>6, <1>7, <1>8 DEF IInv

\* rw_pr_rdlock() adds one reader to a lock that nobody writes.
LEMMA RdLockInv == ASSUME IInv, NEW t \in Thread, RdLock(t) PROVE IInv'
<1>1. PICK l \in Lock : l = want[t]
  BY DEF IInv, TypeOK
<1>2. /\ pc[t] = "rdlock" /\ Free(l)
      /\ readers' = [readers EXCEPT ![l] = @ + 1]
      /\ path' = [path EXCEPT ![t] = Append(path[t], l)]
      /\ UNCHANGED <<mutex, waiting, writer, want>>
  BY <1>1 DEF RdLock
<1>3. /\ pc' \in [Thread -> Pcs] /\ pc'[t] = "locked"
      /\ \A u \in Thread \ {t} : pc'[u] = pc[u]
  BY DEF RdLock, Goto, IInv, TypeOK, Pcs
<1>4. ~writer[l]
  BY <1>2 DEF IInv, Exclusive, Free, TypeOK
<1>5. Len(path[t]) < MaxDepth /\ \A i \in 1 .. Len(path[t]) : ~writer[path[t][i]]
  BY <1>2 DEF IInv, ThreadOK
<1>6. /\ path' \in [Thread -> BoundedSeq(Lock, MaxDepth)]
      /\ Len(path'[t]) = Len(path[t]) + 1
      /\ <<t, Len(path[t]) + 1>> \notin Holds(l)
      /\ Holds(l)' = Holds(l) \cup {<<t, Len(path[t]) + 1>>}
      /\ \A m \in Lock \ {l} : Holds(m)' = Holds(m)
  BY <1>2, <1>5, HoldsPush DEF IInv
<1>7. \A u \in Thread \ {t} : path'[u] = path[u]
  BY <1>2 DEF IInv, TypeOK
<1>8. TypeOK'
  BY <1>2, <1>3, <1>6 DEF IInv, TypeOK, Pcs
<1>9. WaitersOK'
  BY <1>2, <1>3, WaitersSame
<1>10. /\ IsFiniteSet(Holds(l)') /\ Cardinality(Holds(l)') = Cardinality(Holds(l)) + 1
  <2> DEFINE h == <<t, Len(path[t]) + 1>>
  <2>1. IsFiniteSet(Holds(l))
    BY DEF IInv, HoldsOK
  <2>2. h \notin Holds(l) /\ Holds(l)' = Holds(l) \cup {h}
    BY <1>6
  <2> HIDE DEF h
  <2>3. /\ IsFiniteSet(Holds(l) \cup {h})
        /\ Cardinality(Holds(l) \cup {h}) = Cardinality(Holds(l)) + 1
    BY <2>1, <2>2, FS_AddElement
  <2> QED BY <2>2, <2>3
<1>11. HoldsOK'
  BY <1>6, <1>10 DEF IInv, HoldsOK
<1>12. ThreadOK(t)'
  <2>1. Len(path[t]) \in Nat
    BY PathFacts DEF IInv, TypeOK
  <2>2. path'[t] # <<>>
    BY <1>6, <2>1
  <2> QED BY <1>3, <2>2 DEF ThreadOK
<1>13. \A u \in Thread \ {t} : ThreadOK(u)'
  BY <1>2, <1>3, <1>7, OthersOK
<1>14. Exclusive'
  <2>1. ASSUME NEW m \in Lock, writer[m]
        PROVE  /\ mutex[m] \in Thread \ {t} /\ path'[mutex[m]] = <<m>>
               /\ Holds(m)' = {<<mutex[m], 1>>}
               /\ readers'[m] = 0 /\ pc'[mutex[m]] # "unlock_rd"
    <3>1. /\ m # l /\ mutex[m] \in Thread /\ path[mutex[m]] = <<m>>
          /\ Holds(m) = {<<mutex[m], 1>>}
          /\ readers[m] = 0 /\ pc[mutex[m]] # "unlock_rd"
      BY <1>4, <2>1 DEF IInv, Exclusive
    <3>2. mutex[m] # t
      <4> SUFFICES ASSUME mutex[m] = t PROVE FALSE
        OBVIOUS
      <4>1. 1 \in 1 .. Len(path[t]) /\ path[t][1] = m
        BY <3>1
      <4> QED BY <1>5, <2>1, <4>1
    <3> QED BY <1>2, <1>3, <1>6, <1>7, <3>1, <3>2 DEF IInv, TypeOK
  <2>2. ASSUME NEW m \in Lock, ~writer[m]
        PROVE  /\ mutex[m] = NoThread
               /\ readers'[m] = Cardinality(Holds(m)')
               /\ \A u \in Thread : pc'[u] = "unlock_wr" => Last(path'[u]) # m
    <3>1. /\ mutex[m] = NoThread /\ readers[m] = Cardinality(Holds(m))
          /\ \A u \in Thread : pc[u] = "unlock_wr" => Last(path[u]) # m
      BY <2>2 DEF IInv, Exclusive, Free
    <3>2. readers'[m] = Cardinality(Holds(m)')
      BY <1>2, <1>6, <1>10, <3>1 DEF IInv, TypeOK
    <3> QED BY <1>3, <1>7, <3>1, <3>2
  <2> QED BY <1>2, <2>1, <2>2 DEF Exclusive, Free
<1>15. NoLostWakeup'
  <2>1. ASSUME NEW m \in Lock PROVE Sleepers(m)' = Sleepers(m)
    BY <1>2, <1>3 DEF Sleepers
  <2>2. ASSUME NEW m \in Lock PROVE readers[m] > 0 => readers'[m] > 0
    BY <1>2 DEF IInv, TypeOK
  <2>3. \A u \in Thread : pc[u] = "woken" => pc'[u] = "woken"
    BY <1>2, <1>3
  <2> QED BY <1>2, <2>1, <2>2, <2>3 DEF IInv, NoLostWakeup
<1> QED BY <1>8, <1>9, <1>11, <1>12, <1>13, <1>14, <1>15 DEF IInv

\* A thread that finds no readers becomes the one holder of the lock.
LEMMA BecomeWriterInv ==
  ASSUME IInv, NEW t \in Thread, NEW l \in Lock, l = want[t], pc[t] \in {"wrlock", "woken"},
         Free(l), readers[l] = 0, BecomeWriter(t, l), UNCHANGED <<readers, want>>,
         waiting' = IF pc[t] = "woken" THEN [waiting EXCEPT ![l] = @ - 1] ELSE waiting
  PROVE  IInv'
<1>1. /\ pc' \in [Thread -> Pcs] /\ pc'[t] = "locked"
      /\ \A u \in Thread \ {t} : pc'[u] = pc[u]
  BY DEF BecomeWriter, Goto, IInv, TypeOK, Pcs
<1>2. path[t] = <<>>
  BY DEF IInv, ThreadOK
<1>3. path' = [path EXCEPT ![t] = Append(path[t], l)] /\ Len(path[t]) = 0
  BY <1>2 DEF BecomeWriter
<1>4. ~writer[l]
  BY DEF IInv, Exclusive, Free, TypeOK
<1>5. Holds(l) = {}
  BY <1>4, FS_EmptySet DEF IInv, Exclusive, HoldsOK
<1>6. Len(path[t]) < MaxDepth
  BY <1>3
<1>7. /\ path' \in [Thread -> BoundedSeq(Lock, MaxDepth)]
      /\ Holds(l)' = Holds(l) \cup {<<t, Len(path[t]) + 1>>}
      /\ \A m \in Lock \ {l} : Holds(m)' = Holds(m)
  BY <1>3, <1>6, HoldsPush DEF IInv
<1>8. Holds(l)' = {<<t, 1>>} /\ path'[t] = <<l>>
  BY <1>3, <1>5, <1>7 DEF BecomeWriter, IInv, TypeOK
<1>9. /\ mutex'[l] = t /\ writer'[l] = TRUE
      /\ mutex' \in [Lock -> Thread \union {NoThread}] /\ writer' \in [Lock -> BOOLEAN]
      /\ \A m \in Lock \ {l} : mutex'[m] = mutex[m] /\ writer'[m] = writer[m]
      /\ \A u \in Thread \ {t} : path'[u] = path[u]
  BY DEF BecomeWriter, IInv, TypeOK
<1>10. WaitersOK' /\ waiting' \in [Lock -> Nat]
  <2>1. CASE pc[t] = "wrlock"
    BY <1>1, <2>1, WaitersSame DEF IInv, TypeOK
  <2>2. CASE pc[t] = "woken"
    <3>1. t \in Waiters(l) /\ Waiters(l)' = Waiters(l) \ {t}
      BY <1>1, <2>2 DEF Waiters
    <3>2. \A m \in Lock \ {l} : Waiters(m)' = Waiters(m)
      BY <1>1, <2>2 DEF Waiters
    <3>3. IsFiniteSet(Waiters(l)') /\ Cardinality(Waiters(l)') = Cardinality(Waiters(l)) - 1
      <4>1. IsFiniteSet(Waiters(l))
        BY DEF IInv, WaitersOK
      <4>2. /\ IsFiniteSet(Waiters(l) \ {t})
            /\ Cardinality(Waiters(l) \ {t}) = Cardinality(Waiters(l)) - 1
        BY <3>1, <4>1, FS_RemoveElement
      <4> QED BY <3>1, <4>2
    <3>4. Cardinality(Waiters(l)') \in Nat
      BY <3>3, FS_CardinalityType
    <3>5. waiting'[l] = Cardinality(Waiters(l)') /\ \A m \in Lock \ {l} : waiting'[m] = waiting[m]
      BY <2>2, <3>3 DEF IInv, TypeOK, WaitersOK
    <3>6. waiting' \in [Lock -> Nat]
      BY <2>2, <3>4, <3>5 DEF IInv, TypeOK
    <3> QED BY <3>2, <3>3, <3>5, <3>6 DEF IInv, WaitersOK
  <2> QED BY <2>1, <2>2
<1>11. TypeOK'
  BY <1>1, <1>7, <1>9, <1>10 DEF IInv, TypeOK, Pcs
<1>12. HoldsOK'
  <2>1. IsFiniteSet({<<t, 1>>})
    BY FS_Singleton
  <2> QED BY <1>7, <1>8, <2>1 DEF IInv, HoldsOK
<1>13. ThreadOK(t)'
  BY <1>1, <1>8 DEF ThreadOK
<1>14. ASSUME NEW u \in Thread \ {t} PROVE ThreadOK(u)'
  <2>1. ASSUME NEW i \in 1 .. Len(path[u]), ~writer[path[u][i]] PROVE ~writer'[path[u][i]]
    <3>1. Len(path[u]) \in 0 .. MaxDepth /\ DOMAIN path[u] = 1 .. Len(path[u]) /\ path[u][i] \in Lock
      BY PathFacts DEF IInv, TypeOK
    <3>2. <<u, i>> \in Holds(path[u][i])
      BY <3>1 DEF Holds
    <3> QED BY <1>5, <1>9, <2>1, <3>1, <3>2
  <2> QED BY <1>1, <1>9, <2>1, OthersOK
<1>15. Exclusive'
  <2>1. ASSUME NEW m \in Lock, writer'[m]
        PROVE  /\ mutex'[m] \in Thread /\ path'[mutex'[m]] = <<m>>
               /\ Holds(m)' = {<<mutex'[m], 1>>}
               /\ readers[m] = 0 /\ pc'[mutex'[m]] # "unlock_rd"
    <3>1. CASE m = l
      BY <1>1, <1>8, <1>9, <3>1
    <3>2. CASE m # l
      <4>1. /\ mutex[m] \in Thread /\ path[mutex[m]] = <<m>>
            /\ Holds(m) = {<<mutex[m], 1>>}
            /\ readers[m] = 0 /\ pc[mutex[m]] # "unlock_rd"
        BY <1>9, <2>1, <3>2 DEF IInv, Exclusive
      <4>2. mutex[m] # t
        BY <1>2, <4>1
      <4> QED BY <1>1, <1>7, <1>9, <3>2, <4>1, <4>2
    <3> QED BY <3>1, <3>2
  <2>2. ASSUME NEW m \in Lock, ~writer'[m]
        PROVE  /\ mutex'[m] = NoThread
               /\ readers[m] = Cardinality(Holds(m)')
               /\ \A u \in Thread : pc'[u] = "unlock_wr" => Last(path'[u]) # m
    <3>1. m # l /\ ~writer[m]
      BY <1>9, <2>2
    <3>2. /\ mutex[m] = NoThread /\ readers[m] = Cardinality(Holds(m))
          /\ \A u \in Thread : pc[u] = "unlock_wr" => Last(path[u]) # m
      BY <3>1 DEF IInv, Exclusive, Free
    <3> QED BY <1>1, <1>7, <1>9, <3>1, <3>2
  <2> QED BY <2>1, <2>2 DEF Exclusive, Free
<1>16. NoLostWakeup'
  <2> SUFFICES ASSUME NEW m \in Lock, Sleepers(m)' # {}
               PROVE  \/ readers[m] > 0 \/ writer'[m]
                      \/ \E u \in Thread : want[u] = m /\ pc'[u] = "woken"
    BY DEF NoLostWakeup
  <2>1. CASE m = l
    BY <1>9, <2>1
  <2>2. CASE m # l
    <3>1. Sleepers(m) # {}
      BY <1>1 DEF Sleepers
    <3>2. \/ readers[m] > 0 \/ writer[m]
          \/ \E u \in Thread \ {t} : want[u] = m /\ pc[u] = "woken"
      BY <2>2, <3>1 DEF IInv, NoLostWakeup
    <3> QED BY <1>1, <1>9, <2>2, <3>2
  <2> QED BY <2>1, <2>2
<1> QED BY <1>10, <1>11, <1>12, <1>13, <1>14, <1>15, <1>16 DEF IInv

\* rw_pr_wrlock() sleeps only where there are readers, the last of which will
\* wake it.
LEMMA SleepInv ==
  ASSUME IInv, NEW t \in Thread, NEW l \in Lock, l = want[t], pc[t] \in {"wrlock", "woken"},
         Free(l), readers[l] # 0, Goto(t, "asleep"), UNCHANGED <<mutex, writer, path, readers, want>>,
         waiting' = IF pc[t] = "wrlock" THEN [waiting EXCEPT ![l] = @ + 1] ELSE waiting
  PROVE  IInv'
<1>1. /\ pc' \in [Thread -> Pcs] /\ pc'[t] = "asleep"
      /\ \A u \in Thread \ {t} : pc'[u] = pc[u]
  BY DEF Goto, IInv, TypeOK, Pcs
<1>2. \A m \in Lock \ {l} : Waiters(m)' = Waiters(m)
  BY <1>1 DEF Waiters
<1>3. WaitersOK' /\ waiting' \in [Lock -> Nat]
  <2>1. CASE pc[t] = "woken"
    <3>1. Waiters(l)' = Waiters(l)
      BY <1>1, <2>1 DEF Waiters
    <3> QED BY <1>2, <2>1, <3>1 DEF IInv, WaitersOK, TypeOK
  <2>2. CASE pc[t] = "wrlock"
    <3>1. t \notin Waiters(l) /\ Waiters(l)' = Waiters(l) \cup {t}
      BY <1>1, <2>2 DEF Waiters
    <3>2. IsFiniteSet(Waiters(l)') /\ Cardinality(Waiters(l)') = Cardinality(Waiters(l)) + 1
      <4>1. IsFiniteSet(Waiters(l))
        BY DEF IInv, WaitersOK
      <4>2. /\ IsFiniteSet(Waiters(l) \cup {t})
            /\ Cardinality(Waiters(l) \cup {t}) = Cardinality(Waiters(l)) + 1
        BY <3>1, <4>1, FS_AddElement
      <4> QED BY <3>1, <4>2
    <3>3. /\ waiting'[l] = Cardinality(Waiters(l)') /\ waiting' \in [Lock -> Nat]
          /\ \A m \in Lock \ {l} : waiting'[m] = waiting[m]
      BY <2>2, <3>2 DEF IInv, TypeOK, WaitersOK
    <3> QED BY <1>2, <3>2, <3>3 DEF IInv, WaitersOK
  <2> QED BY <2>1, <2>2
<1>4. TypeOK'
  BY <1>1, <1>3 DEF IInv, TypeOK, Pcs
<1>5. HoldsOK' /\ \A m \in Lock : Holds(m)' = Holds(m)
  BY HoldsSame DEF IInv, HoldsOK
<1>6. ThreadOK(t)'
  BY <1>1 DEF IInv, ThreadOK
<1>7. \A u \in Thread \ {t} : ThreadOK(u)'
  BY <1>1, OthersOK
<1>8. Exclusive'
  BY <1>1, <1>5 DEF IInv, Exclusive, Free
<1>9. NoLostWakeup'
  <2> SUFFICES ASSUME NEW m \in Lock, Sleepers(m)' # {}
               PROVE  \/ readers[m] > 0 \/ writer[m]
                      \/ \E u \in Thread : want[u] = m /\ pc'[u] = "woken"
    BY DEF NoLostWakeup
  <2>1. CASE m = l
    BY <2>1 DEF IInv, TypeOK
  <2>2. CASE m # l
    <3>1. Sleepers(m) # {}
      BY <1>1, <2>2 DEF Sleepers
    <3>2. \/ readers[m] > 0 \/ writer[m]
          \/ \E u \in Thread \ {t} : want[u] = m /\ pc[u] = "woken"
      BY <2>2, <3>1 DEF IInv, NoLostWakeup
    <3> QED BY <1>1, <3>2
  <2> QED BY <2>1, <2>2
<1> QED BY <1>3, <1>4, <1>5, <1>6, <1>7, <1>8, <1>9 DEF IInv

\* rw_pr_wrlock() and the end of its wait.
LEMMA WrLockInv == ASSUME IInv, NEW t \in Thread, WrLock(t) \/ WrWake(t) PROVE IInv'
<1>1. PICK l \in Lock : l = want[t]
  BY DEF IInv, TypeOK
<1>2. /\ pc[t] \in {"wrlock", "woken"} /\ Free(l) /\ UNCHANGED <<readers, want>>
  BY <1>1 DEF WrLock, WrWake
<1>3. CASE readers[l] = 0
  <2>1. /\ BecomeWriter(t, l)
        /\ waiting' = IF pc[t] = "woken" THEN [waiting EXCEPT ![l] = @ - 1] ELSE waiting
    BY <1>1, <1>3 DEF WrLock, WrWake
  <2> QED BY <1>1, <1>2, <1>3, <2>1, BecomeWriterInv
<1>4. CASE readers[l] # 0
  <2>1. /\ Goto(t, "asleep") /\ UNCHANGED <<mutex, writer, path>>
        /\ waiting' = IF pc[t] = "wrlock" THEN [waiting EXCEPT ![l] = @ + 1] ELSE waiting
    BY <1>1, <1>4 DEF WrLock, WrWake
  <2> QED BY <1>1, <1>2, <1>4, <2>1, SleepInv
<1> QED BY <1>3, <1>4

\* rw_pr_unlock() by a writer: the lock is free, and if others wait to write it
\* one of them has been woken.
LEMMA UnlockWrInv == ASSUME IInv, NEW t \in Thread, UnlockWr(t) PROVE IInv'
<1>1. PICK l \in Lock : l = Last(path[t])
  BY LastFacts DEF UnlockWr
<1>2. /\ pc[t] = "unlock_wr"
      /\ writer' = [writer EXCEPT ![l] = FALSE] /\ mutex' = [mutex EXCEPT ![l] = NoThread]
      /\ IF waiting[l] # 0 THEN Signal(t, l, Outside(t)) ELSE Goto(t, Outside(t))
      /\ path' = [path EXCEPT ![t] = Front(path[t])]
      /\ UNCHANGED <<readers, waiting, want>>
  BY <1>1 DEF UnlockWr
<1>3. /\ path[t] # <<>> /\ Len(path[t]) \in 1 .. MaxDepth /\ l = path[t][Len(path[t])]
  BY <1>1, <1>2, LastFacts
<1>4. writer[l] /\ mutex[l] = t /\ Len(path[t]) = 1 /\ Holds(l) = {<<t, 1>>} /\ readers[l] = 0
  <2>1. writer[l]
    BY <1>1, <1>2 DEF IInv, Exclusive
  <2>2. PICK i \in 1 .. Len(path[t]) : i = Len(path[t])
    BY <1>3
  <2>3. l = path[t][i] /\ writer[path[t][i]]
    BY <1>3, <2>1, <2>2
  <2>4. mutex[path[t][i]] = t /\ i = 1 /\ Holds(path[t][i]) = {<<t, 1>>} /\ readers[path[t][i]] = 0
    BY <2>3, WriterAlone
  <2> QED BY <2>1, <2>2, <2>3, <2>4
<1>5. Outside(t) = "idle"
  BY <1>4 DEF Outside
<1>6. /\ path' \in [Thread -> BoundedSeq(Lock, MaxDepth)]
      /\ Len(path'[t]) = 0
      /\ Holds(l)' = Holds(l) \ {<<t, 1>>}
      /\ \A m \in Lock \ {l} : Holds(m)' = Holds(m)
  <2>1. /\ path' \in [Thread -> BoundedSeq(Lock, MaxDepth)]
        /\ Len(path'[t]) = Len(path[t]) - 1
        /\ \A m \in Lock : Holds(m)' = Holds(m) \ {<<t, Len(path[t])>>}
        /\ \A m \in Lock \ {Last(path[t])} : Holds(m)' = Holds(m)
    BY <1>2, <1>3, HoldsPop DEF IInv
  <2> QED BY <1>1, <1>4, <2>1
<1>7. path'[t] = <<>> /\ \A u \in Thread \ {t} : path'[u] = path[u]
  <2>1. path'[t] \in Seq(Lock)
    BY <1>6, PathFacts
  <2> QED BY <1>2, <1>6, <2>1 DEF IInv, TypeOK
<1>8. /\ pc' \in [Thread -> Pcs] /\ pc'[t] = "idle"
      /\ \A u \in Thread \ {t} : \/ pc'[u] = pc[u]
                                 \/ pc[u] = "asleep" /\ want[u] = l /\ pc'[u] = "woken"
      /\ Sleepers(l) # {} => \E u \in Thread : pc'[u] = "woken" /\ want[u] = l
  <2>1. CASE waiting[l] # 0
    BY <1>2, <1>5, <2>1, SignalFacts DEF IInv
  <2>2. CASE waiting[l] = 0
    <3>1. Waiters(l) = {}
      BY <2>2, FS_EmptySet DEF IInv, WaitersOK
    <3>2. Sleepers(l) = {}
      BY <3>1 DEF Waiters, Sleepers
    <3> QED BY <1>2, <1>5, <2>2, <3>2 DEF Goto, IInv, TypeOK, Pcs
  <2> QED BY <2>1, <2>2
<1>9. /\ writer' \in [Lock -> BOOLEAN] /\ mutex' \in [Lock -> Thread \union {NoThread}]
      /\ ~writer'[l] /\ mutex'[l] = NoThread
      /\ \A m \in Lock \ {l} : mutex'[m] = mutex[m] /\ writer'[m] = writer[m]
  BY <1>2 DEF IInv, TypeOK
<1>10. TypeOK'
  BY <1>2, <1>6, <1>8, <1>9 DEF IInv, TypeOK, Pcs
<1>11. WaitersOK'
  BY <1>2, <1>8, WaitersSame
<1>12. Holds(l)' = {} /\ HoldsOK'
  <2>1. Holds(l)' = {}
    BY <1>4, <1>6
  <2> QED BY <1>6, <2>1, FS_EmptySet DEF IInv, HoldsOK
<1>13. ThreadOK(t)'
  BY <1>7, <1>8 DEF ThreadOK
<1>14. ASSUME NEW u \in Thread \ {t} PROVE ThreadOK(u)'
  <2>1. \A i \in 1 .. Len(path[u]) : path[u][i] \in Lock
    BY PathFacts DEF IInv, TypeOK
  <2> QED BY <1>7, <1>8, <1>9, <2>1, OthersOK
<1>15. Exclusive'
  <2>1. ASSUME NEW m \in Lock, writer'[m]
        PROVE  /\ mutex'[m] \in Thread /\ path'[mutex'[m]] = <<m>>
               /\ Holds(m)' = {<<mutex'[m], 1>>}
               /\ readers[m] = 0 /\ pc'[mutex'[m]] # "unlock_rd"
    <3>1. m # l /\ writer[m] /\ mutex'[m] = mutex[m]
      BY <1>9, <2>1
    <3>2. /\ mutex[m] \in Thread /\ path[mutex[m]] = <<m>>
          /\ Holds(m) = {<<mutex[m], 1>>}
          /\ readers[m] = 0 /\ pc[mutex[m]] # "unlock_rd"
      BY <3>1 DEF IInv, Exclusive
    <3>3. mutex[m] # t
      BY <1>3, <1>4, <3>1, <3>2
    <3> QED BY <1>6, <1>7, <1>8, <3>1, <3>2, <3>3
  <2>2. ASSUME NEW m \in Lock, ~writer'[m]
        PROVE  /\ mutex'[m] = NoThread
               /\ readers[m] = Cardinality(Holds(m)')
               /\ \A u \in Thread : pc'[u] = "unlock_wr" => Last(path'[u]) # m
    <3>1. CASE m = l
      <4>1. ASSUME NEW u \in Thread, pc'[u] = "unlock_wr", Last(path'[u]) = l PROVE FALSE
        <5>1. u # t /\ pc[u] = "unlock_wr" /\ Last(path[u]) = l
          BY <1>7, <1>8, <4>1
        <5>2. <<u, Len(path[u])>> \in Holds(l)
          BY <5>1, LastFacts
        <5> QED BY <1>4, <5>1, <5>2
      <4> QED BY <1>4, <1>9, <1>12, <3>1, <4>1, FS_EmptySet
    <3>2. CASE m # l
      <4>1. /\ ~writer[m] /\ mutex[m] = NoThread /\ readers[m] = Cardinality(Holds(m))
            /\ \A u \in Thread : pc[u] = "unlock_wr" => Last(path[u]) # m
        BY <1>9, <2>2, <3>2 DEF IInv, Exclusive, Free
      <4> QED BY <1>6, <1>7, <1>8, <1>9, <3>2, <4>1
    <3> QED BY <3>1, <3>2
  <2> QED BY <1>2, <2>1, <2>2 DEF Exclusive, Free
<1>16. NoLostWakeup'
  <2> SUFFICES ASSUME NEW m \in Lock, Sleepers(m)' # {}
               PROVE  \/ readers[m] > 0 \/ writer'[m]
                      \/ \E u \in Thread : want[u] = m /\ pc'[u] = "woken"
    BY <1>2 DEF NoLostWakeup
  <2>1. Sleepers(m) # {}
    BY <1>2, <1>8 DEF Sleepers
  <2>2. CASE m = l
    BY <1>8, <2>1, <2>2
  <2>3. CASE m # l
    <3>1. \/ readers[m] > 0 \/ writer[m]
          \/ \E u \in Thread \ {t} : want[u] = m /\ pc[u] = "woken"
      BY <1>2, <2>1 DEF IInv, NoLostWakeup
    <3> QED BY <1>8, <1>9, <2>3, <3>1
  <2> QED BY <2>2, <2>3
<1> QED BY <1>10, <1>11, <1>12, <1>13, <1>14, <1>15, <1>16 DEF IInv

\* rw_pr_unlock() by a reader: it is counted out, and the last one wakes a
\* writer.
LEMMA UnlockRdInv == ASSUME IInv, NEW t \in Thread, UnlockRd(t) PROVE IInv'
<1>1. PICK l \in Lock : l = Last(path[t])
  BY LastFacts DEF UnlockRd
<1>2. /\ pc[t] = "unlock_rd" /\ Free(l)
      /\ readers' = [readers EXCEPT ![l] = @ - 1]
      /\ IF readers[l] = 1 /\ waiting[l] # 0
           THEN Signal(t, l, Outside(t)) ELSE Goto(t, Outside(t))
      /\ path' = [path EXCEPT ![t] = Front(path[t])]
      /\ UNCHANGED <<mutex, waiting, writer, want>>
  BY <1>1 DEF UnlockRd
<1>3. /\ path[t] # <<>> /\ Len(path[t]) \in 1 .. MaxDepth /\ l = path[t][Len(path[t])]
  BY <1>1, <1>2, LastFacts
<1>4. PICK n \in 1 .. MaxDepth : n = Len(path[t])
  BY <1>3
<1>5. <<t, n>> \in Holds(l) /\ ~writer[l]
  BY <1>1, <1>2, <1>4, LastFacts DEF IInv, Exclusive, Free, TypeOK
<1>6. /\ path' \in [Thread -> BoundedSeq(Lock, MaxDepth)]
      /\ Len(path'[t]) = n - 1
      /\ \A i \in 1 .. n - 1 : path'[t][i] = path[t][i]
      /\ Holds(l)' = Holds(l) \ {<<t, n>>}
      /\ \A m \in Lock \ {l} : Holds(m)' = Holds(m)
  <2>1. /\ path' \in [Thread -> BoundedSeq(Lock, MaxDepth)]
        /\ Len(path'[t]) = Len(path[t]) - 1
        /\ \A i \in 1 .. Len(path'[t]) : path'[t][i] = path[t][i]
        /\ \A m \in Lock : Holds(m)' = Holds(m) \ {<<t, Len(path[t])>>}
        /\ \A m \in Lock \ {Last(path[t])} : Holds(m)' = Holds(m)
    BY <1>2, <1>3, HoldsPop DEF IInv
  <2> QED BY <1>1, <1>4, <2>1
<1>7. \A u \in Thread \ {t} : path'[u] = path[u]
  BY <1>2 DEF IInv, TypeOK
<1>8. IsFiniteSet(Holds(l)') /\ Cardinality(Holds(l)') = readers[l] - 1
      /\ readers[l] - 1 \in Nat
  <2> DEFINE h == <<t, n>>
  <2>1. IsFiniteSet(Holds(l)) /\ readers[l] = Cardinality(Holds(l))
    BY <1>5 DEF IInv, HoldsOK, Exclusive
  <2>2. h \in Holds(l) /\ Holds(l)' = Holds(l) \ {h}
    BY <1>5, <1>6
  <2> HIDE DEF h
  <2>3. /\ IsFiniteSet(Holds(l) \ {h})
        /\ Cardinality(Holds(l) \ {h}) = Cardinality(Holds(l)) - 1
    BY <2>1, <2>2, FS_RemoveElement
  <2>4. Cardinality(Holds(l) \ {h}) \in Nat
    BY <2>3, FS_CardinalityType
  <2> QED BY <2>1, <2>2, <2>3, <2>4
<1>9. /\ readers' \in [Lock -> Nat] /\ readers'[l] = readers[l] - 1
      /\ \A m \in Lock \ {l} : readers'[m] = readers[m]
  BY <1>2, <1>8 DEF IInv, TypeOK
<1>10. /\ Outside(t) \in {"idle", "locked"}
       /\ Outside(t) = "idle" => path'[t] = <<>>
       /\ Outside(t) = "locked" => path'[t] # <<>>
  <2>1. path'[t] \in Seq(Lock)
    BY <1>6, PathFacts
  <2>2. path'[t] = <<>> <=> Len(path'[t]) = 0
    BY <2>1
  <2>3. Outside(t) = IF n = 1 THEN "idle" ELSE "locked"
    BY <1>4 DEF Outside
  <2> QED BY <1>6, <2>2, <2>3
<1>11. /\ pc' \in [Thread -> Pcs] /\ pc'[t] = Outside(t)
       /\ \A u \in Thread \ {t} : \/ pc'[u] = pc[u]
                                  \/ pc[u] = "asleep" /\ want[u] = l /\ pc'[u] = "woken"
       /\ Sleepers(l) # {} =>
             readers'[l] > 0 \/ \E u \in Thread : pc'[u] = "woken" /\ want[u] = l
  <2>1. CASE readers[l] = 1 /\ waiting[l] # 0
    BY <1>2, <1>10, <2>1, SignalFacts DEF IInv
  <2>2. CASE ~(readers[l] = 1 /\ waiting[l] # 0)
    <3>1. waiting[l] = 0 => Sleepers(l) = {}
      <4>1. waiting[l] = 0 => Waiters(l) = {}
        BY FS_EmptySet DEF IInv, WaitersOK
      <4> QED BY <4>1 DEF Waiters, Sleepers
    <3>2. readers[l] # 1 => readers'[l] > 0
      BY <1>8, <1>9 DEF IInv, TypeOK
    <3>3. pc' = [pc EXCEPT ![t] = Outside(t)]
      BY <1>2, <2>2 DEF Goto
    <3> QED BY <1>10, <2>2, <3>1, <3>2, <3>3 DEF IInv, TypeOK, Pcs
  <2> QED BY <2>1, <2>2
<1>12. TypeOK'
  BY <1>2, <1>6, <1>9, <1>11 DEF IInv, TypeOK, Pcs
<1>13. WaitersOK'
  BY <1>2, <1>10, <1>11, WaitersSame
<1>14. HoldsOK'
  BY <1>6, <1>8 DEF IInv, HoldsOK
<1>15. ThreadOK(t)'
  BY <1>10, <1>11 DEF ThreadOK
<1>16. ASSUME NEW u \in Thread \ {t} PROVE ThreadOK(u)'
  BY <1>2, <1>7, <1>11, OthersOK
<1>17. Exclusive'
  <2>1. ASSUME NEW m \in Lock, writer[m]
        PROVE  /\ mutex[m] \in Thread /\ path'[mutex[m]] = <<m>>
               /\ Holds(m)' = {<<mutex[m], 1>>}
               /\ readers'[m] = 0 /\ pc'[mutex[m]] # "unlock_rd"
    <3>1. /\ m # l /\ mutex[m] \in Thread /\ path[mutex[m]] = <<m>>
          /\ Holds(m) = {<<mutex[m], 1>>}
          /\ readers[m] = 0 /\ pc[mutex[m]] # "unlock_rd"
      BY <1>5, <2>1 DEF IInv, Exclusive
    <3>2. mutex[m] # t
      BY <1>2, <3>1
    <3> QED BY <1>6, <1>7, <1>9, <1>11, <3>1, <3>2
  <2>2. ASSUME NEW m \in Lock, ~writer[m]
        PROVE  /\ mutex[m] = NoThread
               /\ readers'[m] = Cardinality(Holds(m)')
               /\ \A u \in Thread : pc'[u] = "unlock_wr" => Last(path'[u]) # m
    <3>1. /\ mutex[m] = NoThread /\ readers[m] = Cardinality(Holds(m))
          /\ \A u \in Thread : pc[u] = "unlock_wr" => Last(path[u]) # m
      BY <2>2 DEF IInv, Exclusive, Free
    <3>2. readers'[m] = Cardinality(Holds(m)')
      BY <1>6, <1>8, <1>9, <3>1
    <3>3. \A u \in Thread : pc'[u] = "unlock_wr" => u # t /\ pc[u] = "unlock_wr"
      BY <1>10, <1>11
    <3> QED BY <1>7, <3>1, <3>2, <3>3
  <2> QED BY <1>2, <2>1, <2>2 DEF Exclusive, Free
<1>18. NoLostWakeup'
  <2> SUFFICES ASSUME NEW m \in Lock, Sleepers(m)' # {}
               PROVE  \/ readers'[m] > 0 \/ writer[m]
                      \/ \E u \in Thread : want[u] = m /\ pc'[u] = "woken"
    BY <1>2 DEF NoLostWakeup
  <2>1. Sleepers(m) # {}
    BY <1>2, <1>10, <1>11 DEF Sleepers
  <2>2. CASE m = l
    BY <1>11, <2>1, <2>2
  <2>3. CASE m # l
    <3>1. \/ readers[m] > 0 \/ writer[m]
          \/ \E u \in Thread \ {t} : want[u] = m /\ pc[u] = "woken"
      BY <1>2, <2>1 DEF IInv, NoLostWakeup
    <3> QED BY <1>9, <1>11, <2>3, <3>1
  <2> QED BY <2>2, <2>3
<1> QED BY <1>12, <1>13, <1>14, <1>15, <1>16, <1>17, <1>18 DEF IInv

-----------------------------------------------------------------------------
(* The theorems *)

\* Nobody holds a lock or waits at the start.
LEMMA InitInv == Init => IInv
<1> SUFFICES ASSUME Init PROVE IInv
  OBVIOUS
<1>1. <<>> \in BoundedSeq(Lock, MaxDepth)
  <2>1. <<>> \in Seq(Lock) /\ Len(<<>>) <= MaxDepth
    OBVIOUS
  <2> QED BY <2>1, IsPath
<1>2. TypeOK
  BY <1>1 DEF Init, TypeOK
<1>3. ASSUME NEW l \in Lock PROVE Waiters(l) = {} /\ Holds(l) = {} /\ Sleepers(l) = {}
  BY DEF Init, Waiters, Holds, Sleepers
<1>4. WaitersOK /\ HoldsOK
  BY <1>3, FS_EmptySet DEF Init, WaitersOK, HoldsOK
<1>5. Exclusive
  BY <1>3, FS_EmptySet DEF Init, Exclusive, Free
<1>6. NoLostWakeup
  BY <1>3 DEF NoLostWakeup
<1>7. \A t \in Thread : ThreadOK(t)
  BY DEF Init, ThreadOK
<1> QED BY <1>2, <1>4, <1>5, <1>6, <1>7 DEF IInv

\* Every step keeps the invariant.
LEMMA NextInv == IInv /\ [Next]_vars => IInv'
<1> SUFFICES ASSUME IInv, [Next]_vars PROVE IInv'
  OBVIOUS
<1>1. CASE UNCHANGED vars
  <2> USE <1>1 DEF vars, lockVars
  <2>1. \A l \in Lock : Holds(l)' = Holds(l) /\ Waiters(l)' = Waiters(l) /\ Sleepers(l)' = Sleepers(l)
    BY DEF Holds, Waiters, Sleepers
  <2>2. TypeOK' BY DEF IInv, TypeOK
  <2>3. WaitersOK' /\ HoldsOK' BY <2>1 DEF IInv, WaitersOK, HoldsOK
  <2>4. \A t \in Thread : ThreadOK(t)' BY DEF IInv, ThreadOK
  <2>5. Exclusive' BY <2>1 DEF IInv, Exclusive, Free
  <2>6. NoLostWakeup' BY <2>1 DEF IInv, NoLostWakeup
  <2> QED BY <2>2, <2>3, <2>4, <2>5, <2>6 DEF IInv
<1>2. ASSUME NEW t \in Thread,
             Visit(t) \/ Change(t) \/ Locking(t) \/ SpuriousWake(t) \/ Leaving(t)
      PROVE  IInv'
  BY <1>2, CallInv, RdLockInv, WrLockInv, SpuriousWakeInv, UnlockWrInv, UnlockRdInv
     DEF Locking, Leaving
<1> QED BY <1>1, <1>2 DEF Next

\* The invariant holds in every state that threads can bring the locks into.
THEOREM Invariance == Spec => []IInv
BY InitInv, NextInv, PTL DEF Spec

\* The variables of the locks keep their types: no count ever goes below zero.
THEOREM TypeCorrect == Spec => []TypeOK
<1>1. IInv => TypeOK BY DEF IInv
<1> QED BY <1>1, Invariance, PTL

\* rw_pr_wrlock() excludes everyone else, the readers of a lock are counted
\* exactly, and rw_pr_unlock(), which reads active_writer without the mutex,
\* takes the branch of the one who calls it.
THEOREM WritersExclude == Spec => []Exclusive
<1>1. IInv => Exclusive BY DEF IInv
<1> QED BY <1>1, Invariance, PTL

\* No wake-up of a writer is lost: while writers sleep somebody reads or writes
\* the lock, or one of them is awake.
THEOREM WakeupsAreNotLost == Spec => []NoLostWakeup
<1>1. IInv => NoLostWakeup BY DEF IInv
<1> QED BY <1>1, Invariance, PTL
=============================================================================
