--------------------------- MODULE SemiSyncProofs ---------------------------
(***************************************************************************)
(* Proofs about semi-synchronous replication as modelled by SemiSync: for  *)
(* any number of transactions, slaves, timeouts, kills, disconnects and    *)
(* switches, a commit counted as acknowledged is on a slave, no            *)
(* transaction slips through unlisted, a commit that returns is no longer  *)
(* listed and no sleeping commit is forgotten.                             *)
(***************************************************************************)
EXTENDS SemiSync, TLAPS

USE SemiSyncAssumption DEF Trx, Pos, Where, Nowhere

-----------------------------------------------------------------------------
(* The inductive invariant *)

\* Transactions are written one at a time: at most the last one written is not
\* yet visible to the dump threads
LogOK ==
  /\ end <= written /\ written <= end + 1 /\ since <= written
  /\ \A t \in Trx : /\ trx[t].pc = "start" <=> t > written
                    /\ trx[t].pc = "flushed" <=> t > end /\ t <= written

\* A slave has no more than was sent to it, and that is visible
SlavesOK == \A s \in Slave : got[s] <= dump[s].sent /\ dump[s].sent <= end

\* An acknowledged position is on a slave, and what it covers is not listed
ReplyOK ==
  reply.inited => /\ Received(reply.pos)
                  /\ \A p \in active : p > reply.pos

\* Nothing is listed but transactions that were written, and nothing at all
\* while semi-sync is off
ListOK ==
  /\ \A p \in active : p <= written
  /\ ~on => active = {}

\* The largest commit position is that of the last transaction written since
\* semi-sync was enabled
CommitOK == enabled => commit = IF written > since THEN written ELSE 0

IInv ==
  /\ TypeOK
  /\ LogOK /\ SlavesOK /\ ReplyOK /\ ListOK /\ CommitOK
  /\ AckedMeansReceived /\ NoneSlipsThrough /\ RemovedWhenDone /\ NoForgottenSleeper

-----------------------------------------------------------------------------
(* What the parts of the actions do *)

TrxType == [Trx -> [pc: {"start", "flushed", "written", "asleep", "woken", "late", "ended"},
                    killed: BOOLEAN, result: {"none", "yes", "no"}]]

\* A broadcast wakes whoever sleeps and changes nothing else.
LEMMA WokenFacts ==
  ASSUME NEW ts \in TrxType
  PROVE  /\ Woken(ts) \in TrxType
         /\ \A u \in Trx : /\ Woken(ts)[u].killed = ts[u].killed
                           /\ Woken(ts)[u].result = ts[u].result
                           /\ ts[u].pc = "asleep" => Woken(ts)[u].pc = "woken"
                           /\ ts[u].pc # "asleep" => Woken(ts)[u].pc = ts[u].pc
<1>1. ASSUME NEW u \in Trx
      PROVE  /\ Woken(ts)[u] \in [pc: {"start", "flushed", "written", "asleep", "woken", "late",
                                       "ended"},
                                  killed: BOOLEAN, result: {"none", "yes", "no"}]
             /\ Woken(ts)[u].killed = ts[u].killed
             /\ Woken(ts)[u].result = ts[u].result
             /\ ts[u].pc = "asleep" => Woken(ts)[u].pc = "woken"
             /\ ts[u].pc # "asleep" => Woken(ts)[u].pc = ts[u].pc
  BY DEF Woken, TrxType
<1> QED BY <1>1 DEF Woken, TrxType

\* switch_off() leaves nothing listed, nothing acknowledged and nobody asleep.
LEMMA SwitchOffFacts ==
  ASSUME NEW ts \in TrxType, wait \in Where, reply \in Where, SwitchOff(ts)
  PROVE  /\ on' = FALSE /\ active' = {}
         /\ wait' \in Where /\ reply' \in Where /\ ~reply'.inited
         /\ trx' \in TrxType
         /\ \A u \in Trx : /\ trx'[u].killed = ts[u].killed
                           /\ trx'[u].result = ts[u].result
                           /\ ts[u].pc = "asleep" => trx'[u].pc = "woken"
                           /\ ts[u].pc # "asleep" => trx'[u].pc = ts[u].pc
BY WokenFacts DEF SwitchOff

\* The loop of commitTrx() ends with semi-sync off, the session killed or the
\* position acknowledged, or leads to a sleep that an acknowledgement can end.
LEMMA WaitLoopFacts ==
  ASSUME trx \in TrxType, wait \in Where, reply \in Where, NEW t \in Trx, WaitLoop(t)
  PROVE  /\ trx' \in TrxType /\ wait' \in Where
         /\ \A u \in Trx \ {t} : trx'[u] = trx[u]
         /\ trx'[t].killed = trx[t].killed
         /\ \/ /\ ~on \/ trx[t].killed \/ (reply.inited /\ reply.pos >= t)
               /\ trx'[t].pc = "ended" /\ wait' = wait
               /\ trx'[t].result = IF on THEN "yes" ELSE "no"
            \/ /\ on /\ ~(reply.inited /\ reply.pos >= t)
               /\ trx'[t].pc = "asleep" /\ trx'[t].result = trx[t].result
               /\ wait'.inited /\ wait'.pos <= t
               /\ wait.inited => wait'.pos <= wait.pos
<1>1. CASE ~on \/ trx[t].killed \/ (reply.inited /\ reply.pos >= t)
  <2> DEFINE r == IF on THEN "yes" ELSE "no"
  <2>1. trx' = [trx EXCEPT ![t] = [@ EXCEPT !.pc = "ended", !.result = r]] /\ wait' = wait
    BY <1>1 DEF WaitLoop, Return
  <2>2. r \in {"none", "yes", "no"}
    OBVIOUS
  <2> HIDE DEF r
  <2>3. /\ trx' \in TrxType
        /\ \A u \in Trx \ {t} : trx'[u] = trx[u]
        /\ trx'[t].killed = trx[t].killed /\ trx'[t].pc = "ended" /\ trx'[t].result = r
    BY <2>1, <2>2 DEF TrxType
  <2> QED BY <1>1, <2>1, <2>3 DEF r
<1>2. CASE ~(~on \/ trx[t].killed \/ (reply.inited /\ reply.pos >= t))
  <2>1. trx' = [trx EXCEPT ![t].pc = "asleep"] /\ wait' = MinWait(t)
    BY <1>2 DEF WaitLoop
  <2>2. /\ trx' \in TrxType
        /\ \A u \in Trx \ {t} : trx'[u] = trx[u]
        /\ trx'[t].killed = trx[t].killed /\ trx'[t].pc = "asleep"
        /\ trx'[t].result = trx[t].result
    BY <2>1 DEF TrxType
  <2>3. wait' \in Where /\ wait'.inited /\ wait'.pos <= t /\ (wait.inited => wait'.pos <= wait.pos)
    BY <2>1 DEF MinWait
  <2> QED BY <1>2, <2>2, <2>3
<1> QED BY <1>1, <1>2
-----------------------------------------------------------------------------
(* Every action keeps the invariant *)

\* A broadcast, a kill or the end of a timed wait: some sessions stop sleeping,
\* or are killed, and nothing else changes.
LEMMA AwakeInv ==
  ASSUME IInv, trx' \in TrxType, left' \in 0 .. MaxTroubles,
         UNCHANGED <<state, log, got, since, alive>>,
         \A u \in Trx : /\ trx[u].killed => trx'[u].killed
                        /\ trx'[u].result = trx[u].result
                        /\ \/ trx'[u].pc = trx[u].pc
                           \/ trx[u].pc = "asleep" /\ trx'[u].pc \in {"woken", "late"},
         dump' \in [Slave -> [pc: {"off", "start", "send", "reply", "broadcast"}, sent: Pos]],
         \A s \in Slave : dump'[s].sent = dump[s].sent,
         dump' = dump \/ \A u \in Trx : trx'[u].pc # "asleep"
  PROVE  IInv'
<1> USE DEF IInv, state, log
<1>1. TypeOK' BY DEF TypeOK, TrxType
<1>2. LogOK'
  <2>1. ASSUME NEW u \in Trx
        PROVE  /\ trx'[u].pc = "start" <=> trx[u].pc = "start"
               /\ trx'[u].pc = "flushed" <=> trx[u].pc = "flushed"
    OBVIOUS
  <2> QED BY <2>1 DEF LogOK
<1>3. SlavesOK' BY DEF SlavesOK
<1>4. ReplyOK' /\ ListOK' /\ CommitOK' BY DEF ReplyOK, Received, ListOK, CommitOK
<1>5. AckedMeansReceived' BY DEF AckedMeansReceived, Received, TypeOK, TrxType
<1>6. NoneSlipsThrough' BY DEF NoneSlipsThrough, Received
<1>7. RemovedWhenDone' BY DEF RemovedWhenDone, TypeOK, TrxType
<1>8. NoForgottenSleeper' BY DEF NoForgottenSleeper, TypeOK, TrxType
<1> QED BY <1>1, <1>2, <1>3, <1>4, <1>5, <1>6, <1>7, <1>8

\* The broadcast leaves no sleeper.
LEMMA BroadcastInv == ASSUME IInv, NEW s \in Slave, Broadcast(s) PROVE IInv'
<1>1. trx \in TrxType BY DEF IInv, TypeOK, TrxType
<1>2. trx' = Woken(trx) BY DEF Broadcast
<1>3. dump' \in [Slave -> [pc: {"off", "start", "send", "reply", "broadcast"}, sent: Pos]]
      /\ \A r \in Slave : dump'[r].sent = dump[r].sent
  BY DEF Broadcast, IInv, TypeOK
<1>4. left' \in 0 .. MaxTroubles /\ UNCHANGED <<state, log, got, since, alive>>
  BY DEF Broadcast, IInv, TypeOK
<1>5. trx' \in TrxType BY <1>1, <1>2, WokenFacts
<1>6. ASSUME NEW u \in Trx
      PROVE  /\ trx[u].killed => trx'[u].killed
             /\ trx'[u].result = trx[u].result
             /\ \/ trx'[u].pc = trx[u].pc
                \/ trx[u].pc = "asleep" /\ trx'[u].pc \in {"woken", "late"}
             /\ trx'[u].pc # "asleep"
  BY <1>1, <1>2, WokenFacts
<1> QED BY <1>3, <1>4, <1>5, <1>6, AwakeInv

\* A timed wait that ends, and KILL, concern one session.
LEMMA OneAwakeInv == ASSUME IInv, NEW t \in Trx, TimeIsOver(t) \/ Kill(t) PROVE IInv'
<1>1. trx \in TrxType BY DEF IInv, TypeOK, TrxType
<1>2. /\ left' \in 0 .. MaxTroubles
      /\ UNCHANGED <<state, log, got, since, alive>> /\ dump' = dump
  BY DEF TimeIsOver, Kill, Spend, slaves, IInv, TypeOK
<1>3. dump' \in [Slave -> [pc: {"off", "start", "send", "reply", "broadcast"}, sent: Pos]]
  BY <1>2 DEF IInv, TypeOK
<1>4. /\ trx' \in TrxType
      /\ \A u \in Trx \ {t} : trx'[u] = trx[u]
      /\ trx'[t].killed \/ trx'[t].killed = trx[t].killed
      /\ trx'[t].result = trx[t].result
      /\ \/ trx'[t].pc = trx[t].pc
         \/ trx[t].pc = "asleep" /\ trx'[t].pc \in {"woken", "late"}
  <2>1. CASE TimeIsOver(t)
    BY <1>1, <2>1 DEF TimeIsOver, TrxType
  <2>2. CASE Kill(t)
    <3>1. CASE trx[t].pc = "asleep"
      BY <1>1, <2>2, <3>1 DEF Kill, TrxType
    <3>2. CASE trx[t].pc # "asleep"
      BY <1>1, <2>2, <3>2 DEF Kill, TrxType
    <3> QED BY <3>1, <3>2
  <2> QED BY <2>1, <2>2
<1>5. ASSUME NEW u \in Trx
      PROVE  /\ trx[u].killed => trx'[u].killed
             /\ trx'[u].result = trx[u].result
             /\ \/ trx'[u].pc = trx[u].pc
                \/ trx[u].pc = "asleep" /\ trx'[u].pc \in {"woken", "late"}
  BY <1>1, <1>4 DEF TrxType
<1> QED BY <1>2, <1>3, <1>4, <1>5, AwakeInv

\* commitTrx() returns where a slave has the position, or sleeps with the
\* smallest position waited for at or below its own.
LEMMA WaitLoopInv == ASSUME IInv, NEW t \in Trx, CommitTrx(t) \/ WakeUp(t) PROVE IInv'
<1>1. trx \in TrxType /\ wait \in Where /\ reply \in Where
  BY DEF IInv, TypeOK, TrxType
<1>2. /\ UNCHANGED <<enabled, on, commit, reply, active, log, slaves, since, alive, left>>
      /\ trx[t].pc \in {"written", "woken"} /\ WaitLoop(t)
  BY DEF CommitTrx, WakeUp
<1>3. /\ trx' \in TrxType /\ wait' \in Where
      /\ \A u \in Trx \ {t} : trx'[u] = trx[u]
      /\ trx'[t].killed = trx[t].killed
      /\ \/ /\ ~on \/ trx[t].killed \/ (reply.inited /\ reply.pos >= t)
            /\ trx'[t].pc = "ended" /\ wait' = wait
            /\ trx'[t].result = IF on THEN "yes" ELSE "no"
         \/ /\ on /\ ~(reply.inited /\ reply.pos >= t)
            /\ trx'[t].pc = "asleep" /\ trx'[t].result = trx[t].result
            /\ wait'.inited /\ wait'.pos <= t
            /\ wait.inited => wait'.pos <= wait.pos
  BY <1>1, <1>2, WaitLoopFacts
<1>4. TypeOK'
  BY <1>2, <1>3 DEF IInv, TypeOK, TrxType, log, slaves
<1>5. LogOK'
  <2>1. ASSUME NEW u \in Trx
        PROVE  /\ trx'[u].pc = "start" <=> trx[u].pc = "start"
               /\ trx'[u].pc = "flushed" <=> trx[u].pc = "flushed"
    BY <1>2, <1>3
  <2> QED BY <1>2, <2>1 DEF IInv, LogOK, log
<1>6. SlavesOK' /\ ReplyOK' /\ ListOK' /\ CommitOK' /\ NoneSlipsThrough'
  BY <1>2 DEF IInv, SlavesOK, ReplyOK, ListOK, CommitOK, NoneSlipsThrough, Received, log, slaves
<1>7. AckedMeansReceived'
  <2>1. reply.inited /\ reply.pos >= t => Received(t)
    BY <1>1 DEF IInv, ReplyOK, Received, TypeOK
  <2>2. ASSUME NEW u \in Trx, trx'[u].result = "yes", ~trx'[u].killed PROVE Received(u)
    <3>1. CASE u # t
      BY <1>3, <2>2, <3>1 DEF IInv, AckedMeansReceived
    <3>2. CASE u = t /\ trx'[t].pc = "ended"
      BY <1>3, <2>1, <2>2, <3>2
    <3>3. CASE u = t /\ trx'[t].pc = "asleep"
      BY <1>3, <2>2, <3>3 DEF IInv, AckedMeansReceived
    <3> QED BY <1>3, <3>1, <3>2, <3>3
  <2> QED BY <1>2, <2>2 DEF AckedMeansReceived, Received, slaves
<1>8. RemovedWhenDone'
  <2>1. ~on \/ (reply.inited /\ reply.pos >= t) => t \notin active
    BY <1>1 DEF IInv, ListOK, ReplyOK
  <2>2. ASSUME NEW u \in Trx, trx'[u].pc = "ended", ~trx'[u].killed PROVE u \notin active
    BY <1>3, <2>1, <2>2 DEF IInv, RemovedWhenDone
  <2> QED BY <1>2, <2>2 DEF RemovedWhenDone
<1>9. NoForgottenSleeper'
  <2> SUFFICES ASSUME NEW u \in Trx, trx'[u].pc = "asleep",
                      ~ \E s \in Slave : dump[s].pc = "broadcast"
               PROVE  on /\ wait'.inited /\ wait'.pos <= u /\ (reply.inited => reply.pos < u)
    BY <1>2 DEF NoForgottenSleeper, slaves
  <2>1. CASE u = t
    BY <1>1, <1>3, <2>1
  <2>2. CASE u # t
    <3>1. on /\ wait.inited /\ wait.pos <= u /\ (reply.inited => reply.pos < u)
      BY <1>3, <2>2 DEF IInv, NoForgottenSleeper
    <3>2. wait'.inited /\ wait'.pos <= wait.pos
      BY <1>1, <1>3, <3>1
    <3> QED BY <1>1, <1>3, <3>1, <3>2
  <2> QED BY <2>1, <2>2
<1> QED BY <1>4, <1>5, <1>6, <1>7, <1>8, <1>9 DEF IInv

\* switch_off(), called with the transactions ts, in the state it is called in:
\* what is written and what slaves have is as it was, or one transaction more is
\* written.
LEMMA OffInv ==
  ASSUME IInv, NEW ts \in TrxType, SwitchOff(ts),
         UNCHANGED <<end, got, since>>, alive' \in BOOLEAN, left' \in 0 .. MaxTroubles,
         enabled' \in BOOLEAN, commit' \in Pos, written' \in {written, written + 1} \cap Pos,
         enabled' => commit' = IF written' > since THEN written' ELSE 0,
         dump' \in [Slave -> [pc: {"off", "start", "send", "reply", "broadcast"}, sent: Pos]],
         \A s \in Slave : dump'[s].sent = dump[s].sent,
         written' <= end + 1,
         \A u \in Trx : /\ ts[u].pc = "start" <=> u > written'
                        /\ ts[u].pc = "flushed" <=> u > end /\ u <= written'
                        /\ ts[u].result = "yes" => trx[u].result = "yes"
                        /\ ts[u].killed = trx[u].killed
  PROVE  IInv'
<1>1. trx \in TrxType /\ wait \in Where /\ reply \in Where
  BY DEF IInv, TypeOK, TrxType
<1>2. /\ on' = FALSE /\ active' = {}
      /\ wait' \in Where /\ reply' \in Where /\ ~reply'.inited
      /\ trx' \in TrxType
      /\ \A u \in Trx : /\ trx'[u].killed = ts[u].killed
                        /\ trx'[u].result = ts[u].result
                        /\ ts[u].pc = "asleep" => trx'[u].pc = "woken"
                        /\ ts[u].pc # "asleep" => trx'[u].pc = ts[u].pc
  BY <1>1, SwitchOffFacts
<1>3. TypeOK'
  BY <1>2 DEF IInv, TypeOK, TrxType
<1>4. LogOK'
  <2>1. ASSUME NEW u \in Trx
        PROVE  /\ trx'[u].pc = "start" <=> ts[u].pc = "start"
               /\ trx'[u].pc = "flushed" <=> ts[u].pc = "flushed"
    BY <1>2
  <2>2. end <= written' /\ since <= written'
    BY DEF IInv, LogOK, TypeOK
  <2> QED BY <2>1, <2>2 DEF LogOK
<1>5. SlavesOK'
  BY DEF IInv, SlavesOK
<1>6. ReplyOK' /\ ListOK' /\ CommitOK' /\ NoneSlipsThrough' /\ RemovedWhenDone'
  BY <1>2 DEF ReplyOK, ListOK, CommitOK, NoneSlipsThrough, RemovedWhenDone
<1>7. AckedMeansReceived'
  BY <1>2 DEF IInv, AckedMeansReceived, Received
<1>8. NoForgottenSleeper'
  BY <1>2 DEF NoForgottenSleeper
<1> QED BY <1>3, <1>4, <1>5, <1>6, <1>7, <1>8 DEF IInv

\* writeTranxInBinlog() lists a position beyond any that is acknowledged, or
\* switches semi-sync off.
LEMMA WriteTranxInBinlogInv == ASSUME IInv, NEW t \in Trx, WriteTranxInBinlog(t) PROVE IInv'
<1> DEFINE ts == [trx EXCEPT ![t].pc = "flushed"]
<1>1. trx \in TrxType /\ wait \in Where /\ reply \in Where
  BY DEF IInv, TypeOK, TrxType
<1>2. /\ t = written + 1 /\ written = end /\ written' = t
      /\ commit' = IF enabled THEN t ELSE commit
      /\ UNCHANGED <<enabled, end, slaves, since, alive>>
  BY DEF WriteTranxInBinlog
<1>3. ts \in TrxType /\ ts[t].pc = "flushed" /\ \A u \in Trx \ {t} : ts[u] = trx[u]
  BY <1>1 DEF TrxType
<1>4. \A u \in Trx : ts[u].killed = trx[u].killed /\ ts[u].result = trx[u].result
  BY <1>1 DEF TrxType
<1>5. ASSUME NEW u \in Trx
      PROVE  /\ ts[u].pc = "start" <=> u > written'
             /\ ts[u].pc = "flushed" <=> u > end /\ u <= written'
  BY <1>2, <1>3 DEF IInv, LogOK, TypeOK
<1>6. commit' \in Pos /\ (enabled => commit' = IF written' > since THEN written' ELSE 0)
  BY <1>2 DEF IInv, LogOK, TypeOK
<1>7. CASE SwitchOff(ts) /\ Spend("alloc")
  <2>1. left' \in 0 .. MaxTroubles
    BY <1>7 DEF Spend, IInv, TypeOK
  <2>2. written' \in {written, written + 1} \cap Pos /\ written' <= end + 1
    BY <1>2 DEF IInv, TypeOK
  <2>3. dump' = dump /\ got' = got /\ dump' \in [Slave -> [pc: {"off", "start", "send", "reply", "broadcast"}, sent: Pos]]
    BY <1>2 DEF slaves, IInv, TypeOK
  <2>4. enabled' \in BOOLEAN /\ alive' \in BOOLEAN
    BY <1>2 DEF IInv, TypeOK
  <2> HIDE DEF ts
  <2> QED BY <1>2, <1>3, <1>4, <1>5, <1>6, <1>7, <2>1, <2>2, <2>3, <2>4, OffInv
<1>8. CASE /\ active' = IF enabled /\ on THEN active \union {t} ELSE active
           /\ trx' = ts
           /\ UNCHANGED <<on, reply, wait, left>>
  <2> HIDE DEF ts
  <2> USE <1>1, <1>2, <1>8 DEF slaves
  <2>0. on => enabled
    BY DEF IInv, TypeOK
  <2>1. TypeOK'
    BY <1>3, <1>6, <2>0 DEF IInv, TypeOK, TrxType
  <2>2. LogOK'
    BY <1>5 DEF IInv, LogOK, TypeOK
  <2>3. SlavesOK' /\ CommitOK'
    BY <1>6 DEF IInv, SlavesOK, CommitOK
  <2>4. ReplyOK'
    <3>1. reply.inited => reply.pos <= written
      BY DEF IInv, ReplyOK, Received, SlavesOK, LogOK, TypeOK
    <3> QED BY <3>1 DEF IInv, ReplyOK, Received, TypeOK
  <2>5. ListOK'
    BY <2>0 DEF IInv, ListOK, TypeOK
  <2>6. AckedMeansReceived'
    BY <1>4 DEF IInv, AckedMeansReceived, Received
  <2>7. NoneSlipsThrough'
    BY <2>0 DEF IInv, NoneSlipsThrough, Received, TypeOK
  <2>8. RemovedWhenDone'
    <3>1. ASSUME NEW u \in Trx, trx'[u].pc = "ended" PROVE u # t /\ trx[u].pc = "ended"
      BY <1>3, <3>1
    <3> QED BY <1>4, <3>1 DEF IInv, RemovedWhenDone
  <2>9. NoForgottenSleeper'
    <3>1. ASSUME NEW u \in Trx, trx'[u].pc = "asleep" PROVE trx[u].pc = "asleep"
      BY <1>3, <3>1
    <3> QED BY <3>1 DEF IInv, NoForgottenSleeper
  <2> QED BY <2>1, <2>2, <2>3, <2>4, <2>5, <2>6, <2>7, <2>8, <2>9 DEF IInv
<1> QED BY <1>7, <1>8 DEF WriteTranxInBinlog

\* update_binlog_end_pos() shows the last transaction written to the dump threads.
LEMMA UpdateEndPosInv == ASSUME IInv, NEW t \in Trx, UpdateEndPos(t) PROVE IInv'
<1>1. trx \in TrxType
  BY DEF IInv, TypeOK, TrxType
<1>2. /\ trx[t].pc = "flushed" /\ end' = t /\ trx' = [trx EXCEPT ![t].pc = "written"]
      /\ UNCHANGED <<state, written, slaves, since, alive, left>>
  BY DEF UpdateEndPos
<1>3. /\ trx' \in TrxType /\ trx'[t].pc = "written"
      /\ trx'[t].killed = trx[t].killed /\ trx'[t].result = trx[t].result
      /\ \A u \in Trx \ {t} : trx'[u] = trx[u]
  BY <1>1, <1>2 DEF TrxType
<1>4. t = written /\ end = t - 1
  BY <1>2 DEF IInv, LogOK, TypeOK
<1> USE <1>2 DEF state, slaves
<1>5. TypeOK'
  BY <1>3 DEF IInv, TypeOK, TrxType
<1>6. LogOK'
  BY <1>3, <1>4 DEF IInv, LogOK, TypeOK
<1>7. SlavesOK'
  BY <1>4 DEF IInv, SlavesOK, TypeOK
<1>8. ReplyOK' /\ ListOK' /\ CommitOK' /\ NoneSlipsThrough'
  BY DEF IInv, ReplyOK, ListOK, CommitOK, NoneSlipsThrough, Received
<1>9. AckedMeansReceived' /\ RemovedWhenDone' /\ NoForgottenSleeper'
  <2>1. \A u \in Trx : trx'[u].killed = trx[u].killed /\ trx'[u].result = trx[u].result
    BY <1>3
  <2>2. \A u \in Trx : trx'[u].pc \in {"ended", "asleep"} => trx'[u].pc = trx[u].pc
    BY <1>3
  <2> QED BY <2>1, <2>2
          DEF IInv, AckedMeansReceived, RemovedWhenDone, NoForgottenSleeper, Received
<1> QED BY <1>5, <1>6, <1>7, <1>8, <1>9 DEF IInv

\* What OffInv asks of transactions that are as they were.
LEMMA SameTrx ==
  ASSUME IInv
  PROVE  /\ trx \in TrxType
         /\ \A u \in Trx : /\ trx[u].pc = "start" <=> u > written
                           /\ trx[u].pc = "flushed" <=> u > end /\ u <= written
         /\ written \in {written, written + 1} \cap Pos /\ written <= end + 1
         /\ enabled \in BOOLEAN /\ commit \in Pos /\ left \in 0 .. MaxTroubles
         /\ enabled => commit = IF written > since THEN written ELSE 0
         /\ alive \in BOOLEAN
         /\ dump \in [Slave -> [pc: {"off", "start", "send", "reply", "broadcast"}, sent: Pos]]
BY DEF IInv, TypeOK, TrxType, LogOK, CommitOK

\* A timeout switches semi-sync off: nothing is listed and everyone is woken.
LEMMA TimeOutInv == ASSUME IInv, NEW t \in Trx, TimeOut(t) PROVE IInv'
<1> DEFINE ts == [trx EXCEPT ![t] = [@ EXCEPT !.pc = "ended", !.result = "no"]]
<1>1. trx[t].pc = "late" /\ UNCHANGED <<enabled, commit, log, slaves, since, left>>
  BY DEF TimeOut
<1>2. CASE enabled
  <2>1. SwitchOff(ts) /\ alive' = alive
    BY <1>2 DEF TimeOut
  <2>2. /\ ts \in TrxType /\ ts[t].pc = "ended" /\ ts[t].result = "no"
        /\ ts[t].killed = trx[t].killed /\ \A u \in Trx \ {t} : ts[u] = trx[u]
    BY SameTrx DEF TrxType
  <2> HIDE DEF ts
  <2>3. ASSUME NEW u \in Trx
        PROVE  /\ ts[u].pc = "start" <=> u > written'
               /\ ts[u].pc = "flushed" <=> u > end /\ u <= written'
               /\ ts[u].result = "yes" => trx[u].result = "yes"
               /\ ts[u].killed = trx[u].killed
    BY <1>1, <2>2, SameTrx DEF log
  <2> QED BY <1>1, <2>1, <2>2, <2>3, SameTrx, OffInv DEF log, slaves
<1>3. CASE ~enabled
  <2>1. alive' = FALSE /\ UNCHANGED <<on, active, wait, reply, trx>>
    BY <1>3 DEF TimeOut
  <2> QED BY <1>1, <2>1 DEF log, slaves, IInv, TypeOK, LogOK, SlavesOK, ReplyOK, ListOK, CommitOK,
                            AckedMeansReceived, NoneSlipsThrough, RemovedWhenDone,
                            NoForgottenSleeper, Received
<1> QED BY <1>2, <1>3

\* disableMaster() leaves nothing listed and nobody asleep.
LEMMA DisableMasterInv == ASSUME IInv, DisableMaster PROVE IInv'
<1>1. /\ SwitchOff(trx) /\ enabled' = FALSE /\ commit' = 0
      /\ UNCHANGED <<log, slaves, since, alive>>
  BY DEF DisableMaster
<1>2. left' \in 0 .. MaxTroubles /\ commit' \in Pos
  BY <1>1 DEF DisableMaster, Spend, IInv, TypeOK
<1> QED BY <1>1, <1>2, SameTrx, OffInv DEF log, slaves

\* A slave that is lost has replied to nothing it did not receive; with the last
\* one semi-sync may be switched off.
LEMMA RemoveSlaveInv == ASSUME IInv, NEW s \in Slave, RemoveSlave(s) PROVE IInv'
<1>1. /\ dump[s].pc \in {"send", "reply"} /\ dump' = [dump EXCEPT ![s].pc = "off"]
      /\ UNCHANGED <<enabled, commit, log, got, since, alive>>
  BY DEF RemoveSlave
<1>2. left' \in 0 .. MaxTroubles
  BY DEF RemoveSlave, Spend, IInv, TypeOK
<1>3. /\ dump' \in [Slave -> [pc: {"off", "start", "send", "reply", "broadcast"}, sent: Pos]]
      /\ \A r \in Slave : dump'[r].sent = dump[r].sent
      /\ \A r \in Slave : dump[r].pc = "broadcast" => dump'[r].pc = "broadcast"
  BY <1>1, SameTrx
<1>4. CASE SwitchOff(trx)
  BY <1>1, <1>2, <1>3, <1>4, SameTrx, OffInv DEF log
<1>5. CASE UNCHANGED <<on, active, wait, reply, trx>>
  <2> USE <1>1, <1>5 DEF log
  <2>1. TypeOK' BY <1>2, <1>3 DEF IInv, TypeOK
  <2>2. SlavesOK' BY <1>3 DEF IInv, SlavesOK
  <2>3. NoForgottenSleeper' BY <1>3 DEF IInv, NoForgottenSleeper
  <2> QED BY <2>1, <2>2, <2>3 DEF IInv, LogOK, ReplyOK, ListOK, CommitOK, AckedMeansReceived,
                                  NoneSlipsThrough, RemovedWhenDone, Received
<1> QED BY <1>4, <1>5 DEF RemoveSlave

\* enableMaster() starts from what is written by then.
LEMMA EnableMasterInv == ASSUME IInv, EnableMaster PROVE IInv'
<1>1. /\ ~enabled /\ enabled' = TRUE /\ on' = TRUE /\ commit' = 0 /\ active' = {}
      /\ since' = written /\ UNCHANGED <<trx, log, slaves, alive, left>>
  BY DEF EnableMaster
<1>2. wait' \in Where /\ reply' \in Where /\ ~reply'.inited
  BY DEF EnableMaster, IInv, TypeOK
<1> USE <1>1 DEF log, slaves
<1>3. TypeOK' BY <1>2 DEF IInv, TypeOK
<1>4. LogOK' BY DEF IInv, LogOK, TypeOK
<1>5. NoForgottenSleeper' BY DEF IInv, NoForgottenSleeper, TypeOK
<1>6. NoneSlipsThrough' BY DEF IInv, NoneSlipsThrough, TypeOK
<1> QED BY <1>2, <1>3, <1>4, <1>5, <1>6
        DEF IInv, SlavesOK, ReplyOK, ListOK, CommitOK, AckedMeansReceived, RemovedWhenDone, Received,
            TypeOK

\* A slave connects with what it has, and is sent no more than is visible.
LEMMA SendInv == ASSUME IInv, NEW s \in Slave, AddSlave(s) \/ SendEvent(s) PROVE IInv'
<1>1. UNCHANGED <<state, trx, log, got, since, alive, left>>
  BY DEF AddSlave, SendEvent
<1>2. /\ dump' \in [Slave -> [pc: {"off", "start", "send", "reply", "broadcast"}, sent: Pos]]
      /\ \A r \in Slave \ {s} : dump'[r] = dump[r]
      /\ got[s] <= dump'[s].sent /\ dump'[s].sent <= end
      /\ dump[s].pc # "broadcast"
  <2>1. CASE AddSlave(s)
    BY <2>1 DEF AddSlave, IInv, TypeOK, SlavesOK
  <2>2. CASE SendEvent(s)
    <3>1. /\ dump[s].pc = "send" /\ dump[s].sent + 1 <= end
          /\ \E pc \in {"reply", "send"} :
                dump' = [dump EXCEPT ![s] = [sent |-> dump[s].sent + 1, pc |-> pc]]
      BY <2>2 DEF SendEvent
    <3> QED BY <3>1 DEF IInv, TypeOK, SlavesOK
  <2> QED BY <2>1, <2>2
<1> USE <1>1 DEF state, log
<1>3. TypeOK' BY <1>2 DEF IInv, TypeOK
<1>4. SlavesOK' BY <1>2 DEF IInv, SlavesOK
<1>5. NoForgottenSleeper' BY <1>2 DEF IInv, NoForgottenSleeper
<1> QED BY <1>3, <1>4, <1>5 DEF IInv, LogOK, ReplyOK, ListOK, CommitOK, AckedMeansReceived,
                                NoneSlipsThrough, RemovedWhenDone, Received

\* A slave that receives more keeps what it has.
LEMMA ReceiveEventInv == ASSUME IInv, NEW s \in Slave, ReceiveEvent(s) PROVE IInv'
<1>1. /\ got[s] < dump[s].sent /\ got' = [got EXCEPT ![s] = @ + 1]
      /\ UNCHANGED <<state, trx, log, dump, since, alive, left>>
  BY DEF ReceiveEvent
<1>2. got' \in [Slave -> Pos]
  BY <1>1 DEF IInv, TypeOK
<1>3. ASSUME NEW p \in Pos, Received(p) PROVE Received(p)'
  BY <1>1, <1>3 DEF Received, IInv, TypeOK
<1> USE <1>1 DEF state, log
<1>4. TypeOK' BY <1>2 DEF IInv, TypeOK
<1>5. SlavesOK' BY DEF IInv, SlavesOK, TypeOK
<1>6. ReplyOK' BY <1>3 DEF IInv, ReplyOK, TypeOK
<1>7. AckedMeansReceived' BY <1>3 DEF IInv, AckedMeansReceived
<1>8. NoneSlipsThrough' BY <1>3 DEF IInv, NoneSlipsThrough, TypeOK
<1> QED BY <1>4, <1>5, <1>6, <1>7, <1>8
        DEF IInv, LogOK, ListOK, CommitOK, RemovedWhenDone, NoForgottenSleeper

\* reportReplyBinlog() acknowledges what the slave has; semi-sync goes on only
\* where that is everything committed, and whoever waits for no more is woken.
LEMMA ReportReplyInv == ASSUME IInv, NEW s \in Slave, DumpStart(s) \/ ReadSlaveReply(s) PROVE IInv'
<1>1. /\ dump[s].pc \in {"start", "reply"} /\ ReportReplyBinlog(s, got[s])
      /\ UNCHANGED <<enabled, commit, trx, log, got, since, alive, left>>
  BY DEF DumpStart, ReadSlaveReply
<1>2. PICK p \in Pos : p = got[s]
  BY DEF IInv, TypeOK
<1>3. Received(p)
  BY <1>2 DEF Received
<1>4. PICK pc \in {"send", "broadcast"} : dump' = [dump EXCEPT ![s].pc = pc]
  BY <1>1 DEF ReportReplyBinlog
<1>5. /\ dump' \in [Slave -> [pc: {"off", "start", "send", "reply", "broadcast"}, sent: Pos]]
      /\ \A r \in Slave : dump'[r].sent = dump[r].sent
      /\ \A r \in Slave : dump[r].pc = "broadcast" => dump'[r].pc = "broadcast"
      /\ dump'[s].pc = pc
  BY <1>1, <1>4, SameTrx
<1> USE <1>1 DEF log
<1>6. LogOK' /\ SlavesOK' /\ CommitOK'
  BY <1>5 DEF IInv, LogOK, SlavesOK, CommitOK
<1>7. CASE ~enabled
  <2>1. UNCHANGED <<on, reply, active, wait>>
    BY <1>7 DEF ReportReplyBinlog
  <2>2. TypeOK' BY <1>5, <2>1 DEF IInv, TypeOK
  <2>3. NoForgottenSleeper' BY <1>5, <2>1 DEF IInv, NoForgottenSleeper
  <2> QED BY <1>6, <2>1, <2>2, <2>3 DEF IInv, ReplyOK, ListOK, AckedMeansReceived,
                                        NoneSlipsThrough, RemovedWhenDone, Received
<1>8. CASE enabled
  <2> DEFINE copy == ~reply.inited \/ p >= reply.pos
             acked == IF copy THEN p ELSE reply.pos
  <2>1. /\ on' = (on \/ p >= commit)
        /\ reply' = [inited |-> TRUE, pos |-> acked]
        /\ active' = IF copy THEN {q \in active : q > p} ELSE active
        /\ \/ /\ pc = "broadcast" /\ wait' = [wait EXCEPT !.inited = FALSE]
           \/ /\ wait' = wait /\ (Waiting = {} \/ acked < wait.pos)
    <3>1. wait.pos \in Pos /\ acked \in Pos
      BY <1>2 DEF IInv, TypeOK
    <3>2. pc = IF CanRelease(acked) THEN "broadcast" ELSE "send"
      <4>1. dump' = [dump EXCEPT ![s].pc = IF CanRelease(acked) THEN "broadcast" ELSE "send"]
        BY <1>2, <1>8 DEF ReportReplyBinlog
      <4> QED BY <1>4, <4>1 DEF IInv, TypeOK
    <3> QED BY <1>2, <1>8, <3>1, <3>2 DEF ReportReplyBinlog, Unacknowledged, CanRelease
  <2>2. /\ acked \in Pos /\ Received(acked) /\ (reply.inited => acked >= reply.pos)
        /\ \A q \in active' : q \in active /\ q > acked
        /\ \A q \in active : q \in active' \/ q <= p
    BY <1>2, <1>3, <2>1 DEF IInv, TypeOK, ReplyOK
  <2> HIDE DEF acked, copy
  <2>3. TypeOK'
    <3>1. reply' \in Where /\ wait' \in Where
      BY <2>1, <2>2 DEF IInv, TypeOK
    <3>2. on' \in BOOLEAN
      BY <2>1
    <3> QED BY <1>5, <1>8, <2>2, <3>1, <3>2 DEF IInv, TypeOK
  <2>4. ReplyOK'
    BY <2>1, <2>2 DEF ReplyOK, Received
  <2>5. ListOK'
    BY <2>1, <2>2 DEF IInv, ListOK
  <2>6. AckedMeansReceived'
    BY DEF IInv, AckedMeansReceived, Received
  <2>7. NoneSlipsThrough'
    <3> SUFFICES ASSUME on', NEW q \in (since + 1) .. written PROVE q \in active' \/ Received(q)
      BY DEF NoneSlipsThrough, Received
    <3>1. CASE on
      <4>1. q \in active \/ Received(q)
        BY <3>1 DEF IInv, NoneSlipsThrough
      <4>2. q <= p => Received(q)
        BY <1>2 DEF Received, IInv, TypeOK
      <4> QED BY <2>2, <4>1, <4>2
    <3>2. CASE p >= commit
      <4>1. written > since /\ q <= written
        BY DEF IInv, TypeOK
      <4>2. p >= written
        BY <1>8, <3>2, <4>1 DEF IInv, CommitOK
      <4> QED BY <1>2, <4>1, <4>2 DEF Received, IInv, TypeOK
    <3> QED BY <2>1, <3>1, <3>2
  <2>8. RemovedWhenDone'
    BY <2>2 DEF IInv, RemovedWhenDone
  <2>9. NoForgottenSleeper'
    <3> SUFFICES ASSUME NEW t \in Trx, trx[t].pc = "asleep",
                        ~ \E r \in Slave : dump'[r].pc = "broadcast"
                 PROVE  /\ on' /\ wait'.inited /\ wait'.pos <= t
                        /\ reply'.inited => reply'.pos < t
      BY DEF NoForgottenSleeper
    <3>1. on /\ wait.inited /\ wait.pos <= t
      BY <1>5 DEF IInv, NoForgottenSleeper
    <3>2. Waiting # {}
      BY DEF Waiting
    <3>3. wait' = wait /\ acked < wait.pos
      BY <1>5, <2>1, <3>2
    <3> QED BY <2>1, <2>2, <3>1, <3>3 DEF IInv, TypeOK
  <2> QED BY <1>6, <2>3, <2>4, <2>5, <2>6, <2>7, <2>8, <2>9 DEF IInv
<1> QED BY <1>7, <1>8

-----------------------------------------------------------------------------
(* The theorems *)

\* The plugin starts with nothing written, listed or acknowledged.
LEMMA InitInv == Init => IInv
BY DEF Init, IInv, TypeOK, LogOK, SlavesOK, ReplyOK, ListOK, CommitOK, AckedMeansReceived,
       NoneSlipsThrough, RemovedWhenDone, NoForgottenSleeper, Received

\* Every step keeps the invariant.
LEMMA NextInv == IInv /\ [Next]_vars => IInv'
<1> SUFFICES ASSUME IInv, [Next]_vars PROVE IInv'
  OBVIOUS
<1>1. CASE UNCHANGED vars
  BY <1>1 DEF vars, state, log, slaves, IInv, TypeOK, LogOK, SlavesOK, ReplyOK, ListOK, CommitOK,
              AckedMeansReceived, NoneSlipsThrough, RemovedWhenDone, NoForgottenSleeper, Received
<1>2. CASE Work
  BY <1>2, UpdateEndPosInv, WaitLoopInv, TimeOutInv, SendInv, ReportReplyInv, BroadcastInv,
     ReceiveEventInv DEF Work, Transaction, DumpThread
<1>3. CASE Optional
  BY <1>3, WriteTranxInBinlogInv, OneAwakeInv, RemoveSlaveInv, DisableMasterInv, EnableMasterInv
     DEF Optional
<1>4. CASE Terminated
  BY <1>1, <1>4 DEF Terminated
<1> QED BY <1>1, <1>2, <1>3, <1>4 DEF Next

\* The invariant holds in every state the plugin can reach.
THEOREM Invariance == Spec => []IInv
BY InitInv, NextInv, PTL DEF Spec

\* The variables of the plugin keep their types; while it is disabled it is off
\* and lists nothing.
THEOREM TypeCorrect == Spec => []TypeOK
<1>1. IInv => TypeOK BY DEF IInv
<1> QED BY <1>1, Invariance, PTL

\* A commit that commitTrx() counts as acknowledged, and that was not killed, is
\* on some slave.
THEOREM AcknowledgedIsOnASlave == Spec => []AckedMeansReceived
<1>1. IInv => AckedMeansReceived BY DEF IInv
<1> QED BY <1>1, Invariance, PTL

\* While semi-sync is on, whatever was written since it was enabled is listed or
\* on a slave: reportReplyBinlog() never switches it on too early.
THEOREM NoTransactionSlipsThrough == Spec => []NoneSlipsThrough
<1>1. IInv => NoneSlipsThrough BY DEF IInv
<1> QED BY <1>1, Invariance, PTL

\* The assertion of commitTrx() holds: what returns is not listed any more.
THEOREM ReturnedIsNotListed == Spec => []RemovedWhenDone
<1>1. IInv => RemovedWhenDone BY DEF IInv
<1> QED BY <1>1, Invariance, PTL

\* An acknowledgement that covers a sleeping commit finds it through the smallest
\* position waited for, so that its wake-up is never lost.
THEOREM NoSleeperIsForgotten == Spec => []NoForgottenSleeper
<1>1. IInv => NoForgottenSleeper BY DEF IInv
<1> QED BY <1>1, Invariance, PTL
=============================================================================
