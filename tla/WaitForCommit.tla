---------------------------- MODULE WaitForCommit ----------------------------
(***************************************************************************)
(* struct wait_for_commit (sql/sql_class.h, sql_class.cc): one transaction *)
(* waits for the commit of a prior one.  A transaction has one such object *)
(* and registers it with the object of the transaction before it.          *)
(*                                                                         *)
(*   waitee   the transaction waited for, NoTrx when there is none         *)
(*   subs     subsequent_commits_list; the order of the list is left out,  *)
(*            a transaction has only one successor in its domain           *)
(*   walk     the waiters a running wakeup_subsequent_commits2() has still *)
(*            to wake up; it took them off subsequent_commits_list         *)
(*   waking   wakeup_subsequent_commits_running                            *)
(*   ready    opaque_pointer is set: ready to be queued by the waitee      *)
(*   started  commit_started                                               *)
(*   werr     wakeup_error                                                 *)
(*   torn     history: entered the queue while its wakeup() was between    *)
(*            its two stores                                               *)
(*   unwait   where a killed waiter is: "locked" between giving up the     *)
(*            wait and getting the lock of its waitee, "woken" when it has *)
(*            to ignore the kill                                           *)
(*                                                                         *)
(* LOCK_wait_commit of an object is held for single steps of the model,    *)
(* but for the steps of its owner that Holding names, and between the two  *)
(* stores of a wakeup(), see HalfWoken.                                    *)
(***************************************************************************)
EXTENDS Integers, FiniteSets

CONSTANTS
    Trx,        \* The transactions: their sub ids, in the order to commit in
    NoTrx       \* The null pointer

VARIABLES
    wfc,        \* The wait_for_commit object of each transaction
    pc          \* Where the thread of each transaction is

WakeupErrors == {"ok", "prior", "kill"}

WfcType ==
    [waitee : Trx \cup {NoTrx}, subs : SUBSET Trx, walk : SUBSET Trx, waking : BOOLEAN,
     ready : BOOLEAN, started : BOOLEAN, werr : WakeupErrors, torn : BOOLEAN,
     unwait : {"no", "locked", "woken"}]

\* reinit()
NewWfc ==
    [waitee |-> NoTrx, subs |-> {}, walk |-> {}, waking |-> FALSE, ready |-> FALSE,
     started |-> FALSE, werr |-> "ok", torn |-> FALSE, unwait |-> "no"]

\* t holds its own LOCK_wait_commit between two steps
Holding(t) == pc[t] = "setready" \/ wfc[t].unwait = "locked"

(* wakeup() has cleared the waitee of t and not yet stored the error.  It   *)
(* holds the lock of t meanwhile, but wait_for_prior_commit(),              *)
(* unregister_wait_for_prior_commit() and queue_for_group_commit() look at  *)
(* both without it.                                                         *)
HalfWoken(t) == wfc[t].waitee = NoTrx /\ \E c \in Trx : t \in wfc[c].walk

\* LOCK_wait_commit of t is held between two steps, by t or by who wakes it up
Locked(t) == Holding(t) \/ HalfWoken(t)

\* register_wait_for_prior_commit(): the objects w after t registered with u
Registered(w, t, u) ==
    IF w[u].waking
      THEN [w EXCEPT ![t].werr = "ok", ![t].waitee = NoTrx]
      ELSE [w EXCEPT ![t].werr = "ok", ![t].waitee = u, ![u].subs = @ \cup {t}]

(* wakeup() of one that sits in the wait of queue_for_group_commit(), by    *)
(* who committed it: it looks under its lock, and sees both stores.         *)
WokenUp(w, t, e) == [w EXCEPT ![t].waitee = NoTrx, ![t].werr = e]

(* wakeup_subsequent_commits2() of c up to its loop: nothing to do when the *)
(* unlocked look at subsequent_commits_list finds it empty.                 *)
ListTaken(w, c) ==
    IF w[c].subs = {}
      THEN w
      ELSE [w EXCEPT ![c].waking = TRUE, ![c].walk = w[c].subs, ![c].subs = {}]

\* One turn of its loop is a wakeup() of a waiter of c: the first store
ClearsWaitee(c) ==
    \E t \in wfc[c].walk :
        /\ wfc[t].waitee # NoTrx
        /\ ~Holding(t)
        /\ wfc' = [wfc EXCEPT ![t].waitee = NoTrx]

\* ... and the second one, of error e, with which it releases the lock
StoresError(c, e) ==
    \E t \in wfc[c].walk :
        /\ wfc[t].waitee = NoTrx
        /\ wfc' = [wfc EXCEPT ![t].werr = e, ![c].walk = @ \ {t}]

WakesOne(c, e) == ClearsWaitee(c) \/ StoresError(c, e)

\* Its end: the list is through, the flag is cleared
WakingOver(c) ==
    /\ wfc[c].walk = {}
    /\ wfc' = [wfc EXCEPT ![c].waking = FALSE]

(* A wait for the waitee is over, by a wakeup or for a kill that took       *)
(* effect: as wait_for_prior_commit() sees it without the lock.             *)
WaitOver(t) ==
    /\ wfc[t].waitee = NoTrx
    /\ wfc[t].unwait # "locked"
    /\ wfc[t].unwait = "woken" => ~HalfWoken(t)

(* A killed waiter leaves its loop: it holds its own LOCK_wait_commit, and   *)
(* has yet to get that of its waitee.  queue_for_group_commit() clears       *)
(* opaque_pointer before, wait_for_prior_commit2() never set it.             *)
GiveUpWait(t) ==
    /\ wfc[t].waitee # NoTrx
    /\ wfc[t].unwait = "no"
    /\ wfc' = [wfc EXCEPT ![t].unwait = "locked", ![t].ready = FALSE]

\* Mutant: a wakeup that is under way is not noticed
RemoveSelfAnyway(t, queued) ==
    LET u == wfc[t].waitee IN
    /\ wfc[t].unwait = "locked"
    /\ ~Locked(u)
    /\ wfc' = [wfc EXCEPT ![u].subs = @ \ {t}, ![t].waitee = NoTrx,
                          ![t].werr = "kill", ![t].unwait = "no"]

(* ... with both locks: the kill is ignored when the waitee is waking its    *)
(* waiters, or (queued) has queued t already; else t takes itself off the    *)
(* list and the wait fails.                                                  *)
RemoveSelf(t, queued) ==
    LET u == wfc[t].waitee IN
    /\ wfc[t].unwait = "locked"
    /\ ~Locked(u)
    /\ IF wfc[u].waking \/ queued
         THEN wfc' = [wfc EXCEPT ![t].unwait = "woken"]
         ELSE wfc' = [wfc EXCEPT ![u].subs = @ \ {t}, ![t].waitee = NoTrx,
                                 ![t].werr = "kill", ![t].unwait = "no"]

(* unregister_wait_for_prior_commit(): takes t off the list of its waitee;   *)
(* when that one is waking its waiters, waits for the wakeup.  With no       *)
(* waitee it only clears the error, which a wakeup half done stores after.   *)
Unregister(t) ==
    LET u == wfc[t].waitee IN
    \/ /\ u = NoTrx
       /\ wfc' = [wfc EXCEPT ![t].werr = "ok", ![t].unwait = "no"]
    \/ /\ u # NoTrx
       /\ ~Locked(u)
       /\ ~wfc[u].waking
       /\ wfc' = [wfc EXCEPT ![u].subs = @ \ {t}, ![t].waitee = NoTrx,
                             ![t].werr = "ok", ![t].unwait = "no"]
=============================================================================
