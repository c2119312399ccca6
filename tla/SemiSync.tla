------------------------------ MODULE SemiSync ------------------------------
(***************************************************************************)
(* Semi-synchronous replication: a commit waits until one slave has the    *)
(* transaction, or gives up waiting and switches semi-sync off, and a      *)
(* slave that catches up switches it on again.                             *)
(* (class ReplSemiSyncMaster, plugin/semisync/semisync_master.cc; the hooks *)
(* of semisync_master_plugin.cc; the replies of semisync_slave.cc.)        *)
(*                                                                         *)
(* A transaction is numbered by its place in the log, and its number is    *)
(* its binlog position; 0 is the start of the log.  Every step below but   *)
(* those named "outside" runs under LOCK_binlog_.                          *)
(***************************************************************************)
EXTENDS Integers

CONSTANTS
  MaxTrx,        \* bound: the number of transactions
  Slave,         \* semi-sync slaves
  AfterSync,     \* rpl_semi_sync_master_wait_point = AFTER_SYNC
  WaitNoSlave,   \* rpl_semi_sync_master_wait_no_slave
  Troubles,      \* what may happen: "timeout", "kill", "disconnect", "disable",
                 \* "alloc" (insert_tranx_node() fails)
  MaxTroubles    \* bound: how often, all together

ASSUME SemiSyncAssumption ==
  /\ MaxTrx \in Nat /\ MaxTroubles \in Nat
  /\ AfterSync \in BOOLEAN /\ WaitNoSlave \in BOOLEAN
  /\ Troubles \subseteq {"timeout", "kill", "disconnect", "disable", "alloc"}

VARIABLES
  enabled,   \* master_enabled_; active_tranxs_ is NULL exactly when FALSE
  on,        \* state_
  commit,    \* commit_file_*: the largest position committed, 0 if not inited
  reply,     \* reply_file_*: the largest position a slave has acknowledged
  wait,      \* wait_file_*: the smallest position waited for
  active,    \* active_tranxs_
  trx,       \* where each transaction is
  written,   \* the last position written, under LOCK_log
  end,       \* the last position the dump threads may send (binlog_end_pos)
  dump,      \* the dump thread of each slave
  got,       \* the position each slave has written to its relay log
  since,     \* history: the position at which semi-sync was last enabled
  alive,     \* FALSE once the server has crashed
  left       \* how many troubles are left

state == <<enabled, on, commit, reply, wait, active>>
log == <<written, end>>
slaves == <<dump, got>>
vars == <<state, trx, log, slaves, since, alive, left>>

Trx == 1 .. MaxTrx
Pos == 0 .. MaxTrx
Where == [inited: BOOLEAN, pos: Pos]
Nowhere == [inited |-> FALSE, pos |-> 0]

TypeOK ==
  /\ enabled \in BOOLEAN /\ on \in BOOLEAN
  /\ commit \in Pos /\ reply \in Where /\ wait \in Where
  /\ active \in SUBSET Pos
  /\ ~enabled => ~on /\ active = {}
  /\ trx \in [Trx -> [pc: {"start", "flushed", "written", "asleep", "woken", "late",
                           "ended"},
                      killed: BOOLEAN, result: {"none", "yes", "no"}]]
  /\ written \in Pos /\ end \in Pos
  /\ dump \in [Slave -> [pc: {"off", "start", "send", "reply", "broadcast"}, sent: Pos]]
  /\ got \in [Slave -> Pos] /\ since \in Pos
  /\ alive \in BOOLEAN
  /\ left \in 0 .. MaxTroubles

\* The plugin is initialised with semi-sync enabled; no slave is connected.
Init ==
  /\ enabled = TRUE /\ on = TRUE
  /\ commit = 0 /\ reply = Nowhere /\ wait = Nowhere /\ active = {}
  /\ trx = [t \in Trx |-> [pc |-> "start", killed |-> FALSE,
                           result |-> "none"]]
  /\ written = 0 /\ end = 0
  /\ dump = [s \in Slave |-> [pc |-> "off", sent |-> 0]]
  /\ got = [s \in Slave |-> 0] /\ since = 0
  /\ alive = TRUE
  /\ left = MaxTroubles

Spend(what) == what \in Troubles /\ left > 0 /\ left' = left - 1

\* rpl_semi_sync_master_wait_sessions and rpl_semi_sync_master_clients.
Waiting == {t \in Trx : trx[t].pc \in {"asleep", "woken", "late"}}
Clients == {s \in Slave : dump[s].pc # "off"}

\* COND_binlog_send_ is broadcast.
Woken(ts) == [t \in Trx |-> IF ts[t].pc = "asleep" THEN [ts[t] EXCEPT !.pc = "woken"]
                            ELSE ts[t]]

\* switch_off(), with the waiting transactions ts.
SwitchOff(ts) ==
  /\ on' = FALSE
  /\ active' = {}
  /\ wait' = [wait EXCEPT !.inited = FALSE]
  /\ reply' = [reply EXCEPT !.inited = FALSE]
  /\ trx' = Woken(ts)

-----------------------------------------------------------------------------
(***************************************************************************)
(* A transaction.                                                          *)
(***************************************************************************)

\* Mutant: the largest commit position is only kept while semi-sync is on.
WriteTranxInBinlogOn(t) ==
  LET ts == [trx EXCEPT ![t].pc = "flushed"] IN
  /\ t = written + 1 /\ written = end
  /\ written' = t
  /\ IF enabled /\ on
       THEN commit' = t /\ active' = active \union {t}
       ELSE UNCHANGED <<commit, active>>
  /\ trx' = ts
  /\ UNCHANGED <<enabled, on, reply, wait, end, slaves, since, alive, left>>

\* writeTranxInBinlog(), run by the after_flush hook under LOCK_log: the largest
\* commit position is kept even while semi-sync is off, the list of active
\* transactions only while it is on.  If the list cannot grow, semi-sync goes off.
WriteTranxInBinlog(t) ==
  LET ts == [trx EXCEPT ![t].pc = "flushed"] IN
  /\ t = written + 1 /\ written = end
  /\ written' = t
  /\ commit' = IF enabled THEN t ELSE commit
  /\ \/ /\ active' = IF enabled /\ on THEN active \union {t} ELSE active
        /\ trx' = ts
        /\ UNCHANGED <<on, reply, wait, left>>
     \/ /\ enabled /\ on /\ Spend("alloc")
        /\ SwitchOff(ts)
  /\ UNCHANGED <<enabled, end, slaves, since, alive>>

\* update_binlog_end_pos(), outside: only now may a dump thread send the events.
UpdateEndPos(t) ==
  /\ trx[t].pc = "flushed"
  /\ end' = t
  /\ trx' = [trx EXCEPT ![t].pc = "written"]
  /\ UNCHANGED <<state, written, slaves, since, alive, left>>

\* commitTrx() returns; the status counters tell how ("no" also where semi-sync is
\* disabled and nothing is counted).
Return(t) == trx' = [trx EXCEPT ![t] = [@ EXCEPT !.pc = "ended",
                                          !.result = IF on THEN "yes" ELSE "no"]]

\* Mutant: the smallest position is not moved back.
MinWaitForward(t) == IF wait.inited THEN wait ELSE [inited |-> TRUE, pos |-> t]

\* The smallest position waited for, when transaction t joins in.
MinWait(t) == IF wait.inited /\ t > wait.pos THEN wait ELSE [inited |-> TRUE, pos |-> t]

\* The loop of commitTrx(): leave it when semi-sync is off, the session is killed
\* or a slave has acknowledged the position; else note the smallest position
\* waited for and sleep.
WaitLoop(t) ==
  IF ~on \/ trx[t].killed \/ (reply.inited /\ reply.pos >= t)
    THEN Return(t) /\ UNCHANGED wait
    ELSE /\ wait' = MinWait(t)
         /\ trx' = [trx EXCEPT ![t].pc = "asleep"]

\* The hook after_sync is called in the order of the log while
\* LOCK_after_binlog_sync is held, after_commit by each session on its own.
CommitTrx(t) ==
  /\ trx[t].pc = "written"
  /\ AfterSync => \A u \in 1 .. t - 1 : trx[u].pc = "ended"
  /\ WaitLoop(t)
  /\ UNCHANGED <<enabled, on, commit, reply, active, log, slaves, since, alive, left>>

WakeUp(t) ==
  /\ trx[t].pc = "woken"
  /\ WaitLoop(t)
  /\ UNCHANGED <<enabled, on, commit, reply, active, log, slaves, since, alive, left>>

\* Outside: the time is over, but the thread has not got LOCK_binlog_ back yet.
TimeIsOver(t) ==
  /\ trx[t].pc = "asleep" /\ Spend("timeout")
  /\ trx' = [trx EXCEPT ![t].pc = "late"]
  /\ UNCHANGED <<state, log, slaves, since, alive>>

\* A real timeout switches semi-sync off, whatever happened since; the loop ends
\* as semi-sync is off.  Without the list of active transactions, which disabling
\* deletes, the server crashes.
TimeOut(t) ==
  /\ trx[t].pc = "late"
  /\ IF enabled
       THEN /\ SwitchOff([trx EXCEPT ![t] = [@ EXCEPT !.pc = "ended", !.result = "no"]])
            /\ UNCHANGED alive
       ELSE alive' = FALSE /\ UNCHANGED <<on, active, wait, reply, trx>>
  /\ UNCHANGED <<enabled, commit, log, slaves, since, left>>

\* Outside: KILL wakes the session it is about.
Kill(t) ==
  /\ trx[t].pc \in {"written", "asleep", "woken"} /\ ~trx[t].killed
  /\ Spend("kill")
  /\ trx' = [trx EXCEPT ![t].killed = TRUE,
                         ![t].pc = IF @ = "asleep" THEN "woken" ELSE @]
  /\ UNCHANGED <<state, log, slaves, since, alive>>

-----------------------------------------------------------------------------
(***************************************************************************)
(* The dump thread of a slave, and the slave.                              *)
(***************************************************************************)

\* Mutant: the transaction that ends at p stays listed.
UnacknowledgedFrom(p) == {q \in active : q >= p}

\* clear_active_tranx_nodes(): what a reply up to p leaves in the list.
Unacknowledged(p) == {q \in active : q > p}

\* Does someone wait for no more than the acknowledged position p?  The smallest
\* position waited for is compared whether or not it is still valid.
CanRelease(p) == Waiting # {} /\ p >= wait.pos

\* reportReplyBinlog(): a slave has everything up to p.  Semi-sync is switched on
\* if that is all that was committed; the acknowledged position never goes back;
\* if someone waits for no more than that, the threads are to be woken.
ReportReplyBinlog(s, p) ==
  LET copy == ~reply.inited \/ p >= reply.pos
      acked == IF copy THEN p ELSE reply.pos
  IN
  IF ~enabled
    THEN /\ dump' = [dump EXCEPT ![s].pc = "send"]
         /\ UNCHANGED <<on, reply, active, wait>>
    ELSE /\ on' = (on \/ p >= commit)
         /\ reply' = [inited |-> TRUE, pos |-> acked]
         /\ active' = IF copy THEN Unacknowledged(p) ELSE active
         /\ wait' = IF CanRelease(acked) THEN [wait EXCEPT !.inited = FALSE] ELSE wait
         /\ dump' = [dump EXCEPT ![s].pc = IF CanRelease(acked) THEN "broadcast" ELSE "send"]

\* repl_semi_binlog_dump_start(): one more slave, which asks for what follows the
\* last event it has ...
AddSlave(s) ==
  /\ dump[s].pc = "off"
  /\ dump' = [dump EXCEPT ![s] = [pc |-> "start", sent |-> got[s]]]
  /\ UNCHANGED <<state, trx, log, got, since, alive, left>>

\* ... and so acknowledges everything before.
DumpStart(s) ==
  /\ dump[s].pc = "start"
  /\ ReportReplyBinlog(s, got[s])
  /\ UNCHANGED <<enabled, commit, trx, log, got, since, alive, left>>

\* Outside: the broadcast follows the unlock.
Broadcast(s) ==
  /\ dump[s].pc = "broadcast"
  /\ trx' = Woken(trx)
  /\ dump' = [dump EXCEPT ![s].pc = "send"]
  /\ UNCHANGED <<state, log, got, since, alive, left>>

\* Mutant: only what is waited for is to be acknowledged.
UpdateSyncHeaderWaited(p) ==
  /\ enabled
  /\ IF on THEN /\ ~(reply.inited /\ p <= reply.pos)
               /\ wait.inited /\ p >= wait.pos
               /\ p \in active
     ELSE p >= commit

\* updateSyncHeader(): must the slave acknowledge position p?  While semi-sync is
\* off, only what catches up with the last commit.
UpdateSyncHeader(p) ==
  /\ enabled
  /\ IF on THEN /\ ~(reply.inited /\ p <= reply.pos)
               /\ wait.inited => p >= wait.pos
               /\ p \in active
     ELSE p >= commit

SendEvent(s) ==
  LET p == dump[s].sent + 1 IN
  /\ dump[s].pc = "send" /\ p <= end
  /\ dump' = [dump EXCEPT ![s] = [sent |-> p,
                pc |-> IF UpdateSyncHeader(p) THEN "reply" ELSE "send"]]
  /\ UNCHANGED <<state, trx, log, got, since, alive, left>>

\* The slave writes the next event to its relay log (external), and replies if
\* that was asked for.
ReceiveEvent(s) ==
  /\ dump[s].pc # "off" /\ got[s] < dump[s].sent
  /\ got' = [got EXCEPT ![s] = @ + 1]
  /\ UNCHANGED <<state, trx, log, dump, since, alive, left>>

\* Mutant: what was sent is taken for received.
ReadSlaveReplySent(s) ==
  /\ dump[s].pc = "reply"
  /\ ReportReplyBinlog(s, dump[s].sent)
  /\ UNCHANGED <<enabled, commit, trx, log, got, since, alive, left>>

\* readSlaveReply(): the dump thread waits for the reply before it goes on.
ReadSlaveReply(s) ==
  /\ dump[s].pc = "reply" /\ got[s] = dump[s].sent
  /\ ReportReplyBinlog(s, got[s])
  /\ UNCHANGED <<enabled, commit, trx, log, got, since, alive, left>>

\* remove_slave(): the connection is lost, with the events and the reply on their
\* way.  Semi-sync may be switched off with the last slave.
RemoveSlave(s) ==
  /\ dump[s].pc \in {"send", "reply"} /\ Spend("disconnect")
  /\ dump' = [dump EXCEPT ![s].pc = "off"]
  /\ IF enabled /\ on /\ ~WaitNoSlave /\ Clients = {s}
       THEN SwitchOff(trx)
       ELSE UNCHANGED <<on, active, wait, reply, trx>>
  /\ UNCHANGED <<enabled, commit, log, got, since, alive>>

-----------------------------------------------------------------------------
(***************************************************************************)
(* SET GLOBAL rpl_semi_sync_master_enabled.                                *)
(***************************************************************************)

\* disableMaster(): semi-sync is switched off first so that the waiting commits
\* wake up; the list of active transactions is deleted.
DisableMaster ==
  /\ enabled /\ Spend("disable")
  /\ SwitchOff(trx)
  /\ enabled' = FALSE /\ commit' = 0
  /\ UNCHANGED <<log, slaves, since, alive>>

\* enableMaster(): with a new list, and nothing known of positions.
EnableMaster ==
  /\ ~enabled
  /\ enabled' = TRUE /\ on' = TRUE
  /\ commit' = 0 /\ active' = {}
  /\ wait' = [wait EXCEPT !.inited = FALSE] /\ reply' = [reply EXCEPT !.inited = FALSE]
  /\ since' = written
  /\ UNCHANGED <<trx, log, slaves, alive, left>>

-----------------------------------------------------------------------------
Transaction(t) == UpdateEndPos(t) \/ CommitTrx(t) \/ WakeUp(t) \/ TimeOut(t)

DumpThread(s) == AddSlave(s) \/ DumpStart(s) \/ Broadcast(s) \/ SendEvent(s)
                 \/ ReceiveEvent(s) \/ ReadSlaveReply(s)

Work == alive /\ ((\E t \in Trx : Transaction(t)) \/ (\E s \in Slave : DumpThread(s)))

Optional ==
  /\ alive
  /\ \/ \E t \in Trx : WriteTranxInBinlog(t) \/ TimeIsOver(t) \/ Kill(t)
     \/ \E s \in Slave : RemoveSlave(s)
     \/ DisableMaster \/ EnableMaster

\* The server crashed, or everything was sent and every transaction ended or, if
\* older than the enabling of semi-sync, sleeps on until its time is over.
Terminated ==
  /\ alive => /\ \A t \in Trx : trx[t].pc = "ended" \/ (trx[t].pc = "asleep" /\ t <= since)
              /\ \A s \in Slave : dump[s].pc = "send" /\ got[s] = end
  /\ UNCHANGED vars

Next == Work \/ Optional \/ Terminated

Spec == Init /\ [][Next]_vars

\* While a commit or a dump thread can go on, one of them does, and a slave that
\* lost its connection connects again.  Nothing is assumed of timeouts.
FairSpec == Spec /\ WF_vars(Work)

-----------------------------------------------------------------------------
(***************************************************************************)
(* Properties.                                                             *)
(***************************************************************************)

Received(p) == \E s \in Slave : got[s] >= p

\* A commit that is counted as acknowledged (and was not killed) is on a slave,
\* whatever timeouts, late replies, reconnects and switches happened meanwhile.
AckedMeansReceived ==
  \A t \in Trx : trx[t].result = "yes" /\ ~trx[t].killed => Received(t)

\* While semi-sync is on, every transaction written since it was enabled is either
\* on a slave or listed, so that an acknowledgement will be asked for: none slips
\* through when a slave that catches up switches semi-sync on.
NoneSlipsThrough ==
  on => \A p \in (since + 1) .. written : p \in active \/ Received(p)

\* A commit that returns (not killed) is no longer listed, as commitTrx() asserts.
RemovedWhenDone ==
  \A t \in Trx : trx[t].pc = "ended" /\ ~trx[t].killed => t \notin active

\* A sleeping commit is not acknowledged yet and the smallest position waited for
\* is not beyond it, so that its acknowledgement will wake it; unless a dump
\* thread is just about to broadcast.
NoForgottenSleeper ==
  \A t \in Trx : trx[t].pc = "asleep" =>
    \/ \E s \in Slave : dump[s].pc = "broadcast"
    \/ /\ on /\ wait.inited /\ wait.pos <= t
       /\ reply.inited => reply.pos < t

\* No commit written since semi-sync was enabled sleeps for ever, as slaves come
\* back: its acknowledgement is asked for, comes and wakes it without the help of
\* the timeout.
AckComes ==
  []<>(alive => \A t \in Trx : trx[t].pc = "asleep" => t <= since)

\* A commit whose wait timed out finds the list of active transactions, as
\* switch_off() asserts.
ListWhenSwitchedOff == \A t \in Trx : trx[t].pc = "late" => enabled
=============================================================================
