------------------------------- MODULE MDLMap -------------------------------
(***************************************************************************)
(* The container of metadata locks (MDL_map, sql/mdl.cc): MDL_lock objects *)
(* are created by the first request for a name, removed with the last      *)
(* ticket and recycled for other names, while other threads may have found *)
(* them already.  The hash (mysys/lf_hash.c) and its allocator with pins   *)
(* (mysys/lf_alloc-pin.c) are modelled from how mdl.cc uses them.          *)
(*                                                                         *)
(* A ticket is the fact that a thread is in users[o], in m_granted or in   *)
(* m_waiting; which of the two is the business of module MDL.              *)
(***************************************************************************)
EXTENDS FiniteSets

CONSTANTS
    Thread,    \* connections
    NoThread,  \* no thread
    Key,       \* names of locks
    FixedKeys, \* the names of the GLOBAL and COMMIT namespaces
    Obj,       \* addresses of MDL_lock objects
    FixedObj,  \* FixedObj[k]: m_global_lock, m_commit_lock
    NoObj,     \* NULL
    NoKey      \* key of an object never used

ASSUME MapAssumption ==
    /\ FixedKeys \subseteq Key
    /\ FixedObj \in [FixedKeys -> Obj]
    /\ \A j, k \in FixedKeys : FixedObj[j] = FixedObj[k] => j = k
    /\ NoThread \notin Thread /\ NoObj \notin Obj /\ NoKey \notin Key

VARIABLES
    state,  \* where an object is: free, new, linked (in the hash), dead, fixed
    key,    \* MDL_lock::key
    strat,  \* whether MDL_lock::m_strategy is set
    users,  \* the threads with a ticket on the lock
    wr,     \* the thread that write-locks MDL_lock::m_rwlock
    pc,     \* where a thread is
    want,   \* the name it looks for
    at,     \* the object it works on
    pin     \* the object it pins: LF_PINS

vars == <<state, key, strat, users, wr, pc, want, at, pin>>

\* MDL_map::init(): the locks of the fixed names exist from the start
Init ==
    LET fixed == {FixedObj[k] : k \in FixedKeys}
    IN /\ state = [o \in Obj |-> IF o \in fixed THEN "fixed" ELSE "free"]
       /\ key = [o \in Obj |-> IF o \in fixed THEN CHOOSE k \in FixedKeys : FixedObj[k] = o
                               ELSE NoKey]
       /\ strat = [o \in Obj |-> o \in fixed]
       /\ users = [o \in Obj |-> {}]
       /\ wr = [o \in Obj |-> NoThread]
       /\ pc = [t \in Thread |-> "idle"]
       /\ want = [t \in Thread |-> NoKey]
       /\ at = [t \in Thread |-> NoObj]
       /\ pin = [t \in Thread |-> NoObj]

-----------------------------------------------------------------------------
(* The hash *)

\* o is what lf_hash_search() finds under the name k
InHash(o, k) == state[o] = "linked" /\ key[o] = k

\* Mutant: the object found is not pinned
FoundUnpinned(t, o) == UNCHANGED pin

\* lf_hash_search() pins what it returns
Found(t, o) == pin' = [pin EXCEPT ![t] = o]

\* lf_hash_delete() removes what is stored under the name k
DeleteName(k) ==
    state' = [o \in Obj |-> IF InHash(o, k) THEN "dead" ELSE state[o]]

\* The allocator takes back objects that were freed and that no thread pins
Reclaim(o) ==
    /\ state[o] = "dead"
    /\ \A t \in Thread : pin[t] # o
    /\ state' = [state EXCEPT ![o] = "free"]
    /\ UNCHANGED <<key, strat, users, wr, pc, want, at, pin>>

-----------------------------------------------------------------------------
(* MDL_map::find_or_insert() *)

\* A thread without a ticket on k asks for one; fixed names skip the hash
Request(t, k) ==
    /\ pc[t] = "idle"
    /\ \A o \in Obj : t \in users[o] => key[o] # k
    /\ want' = [want EXCEPT ![t] = k]
    /\ \/ /\ k \in FixedKeys
          /\ at' = [at EXCEPT ![t] = FixedObj[k]]
          /\ pc' = [pc EXCEPT ![t] = "lock"]
       \/ /\ k \notin FixedKeys
          /\ pc' = [pc EXCEPT ![t] = "search"]
          /\ UNCHANGED at
    /\ UNCHANGED <<state, key, strat, users, wr, pin>>

\* lf_hash_search()
Search(t) ==
    /\ pc[t] = "search"
    /\ \/ \E o \in Obj :
             /\ InHash(o, want[t])
             /\ Found(t, o)
             /\ at' = [at EXCEPT ![t] = o]
             /\ pc' = [pc EXCEPT ![t] = "lock"]
       \/ /\ \A o \in Obj : ~InHash(o, want[t])
          /\ pc' = [pc EXCEPT ![t] = "alloc"]
          /\ UNCHANGED <<at, pin>>
    /\ UNCHANGED <<state, key, strat, users, wr, want>>

\* lf_hash_insert(): an object is allocated and lf_hash_initializer() sets its
\* key and its strategy ...
Alloc(t) ==
    /\ pc[t] = "alloc"
    /\ \E o \in Obj :
          /\ state[o] = "free"
          /\ state' = [state EXCEPT ![o] = "new"]
          /\ key' = [key EXCEPT ![o] = want[t]]
          /\ strat' = [strat EXCEPT ![o] = TRUE]
          /\ at' = [at EXCEPT ![t] = o]
    /\ pc' = [pc EXCEPT ![t] = "link"]
    /\ UNCHANGED <<users, wr, want, pin>>

\* ... and linked, or freed if another thread was faster.  Either way the
\* search is repeated.
Link(t) ==
    /\ pc[t] = "link"
    /\ state' = [state EXCEPT ![at[t]] =
                   IF \E o \in Obj : InHash(o, want[t]) THEN "dead" ELSE "linked"]
    /\ at' = [at EXCEPT ![t] = NoObj]
    /\ pc' = [pc EXCEPT ![t] = "search"]
    /\ UNCHANGED <<key, strat, users, wr, want, pin>>

\* m_rwlock is write-locked
WrLock(t) ==
    /\ pc[t] = "lock"
    /\ wr[at[t]] = NoThread
    /\ wr' = [wr EXCEPT ![at[t]] = t]
    /\ pc' = [pc EXCEPT ![t] = "check"]
    /\ UNCHANGED <<state, key, strat, users, want, at, pin>>

\* Mutant: m_strategy is not looked at
TakeAny(t) ==
    /\ pc[t] = "check"
    /\ pc' = [pc EXCEPT ![t] = "have"]
    /\ pin' = [pin EXCEPT ![t] = NoObj]
    /\ UNCHANGED <<state, key, strat, users, wr, want, at>>

\* A lock that was removed in the meantime has no m_strategy: try again
Check(t) ==
    /\ pc[t] = "check"
    /\ \/ /\ strat[at[t]]
          /\ pc' = [pc EXCEPT ![t] = "have"]
          /\ UNCHANGED <<wr, at>>
       \/ /\ ~strat[at[t]]
          /\ wr' = [wr EXCEPT ![at[t]] = NoThread]
          /\ at' = [at EXCEPT ![t] = NoObj]
          /\ pc' = [pc EXCEPT ![t] = "search"]
    /\ pin' = [pin EXCEPT ![t] = NoObj]
    /\ UNCHANGED <<state, key, strat, users, want>>

\* A thread leaves the critical section and returns to its caller
Unlock(t) ==
    /\ wr' = [wr EXCEPT ![at[t]] = NoThread]
    /\ at' = [at EXCEPT ![t] = NoObj]
    /\ want' = [want EXCEPT ![t] = NoKey]
    /\ pc' = [pc EXCEPT ![t] = "idle"]

\* try_acquire_lock_impl(), acquire_lock(): the ticket is granted or queued
AddTicket(t) ==
    /\ pc[t] = "have"
    /\ users' = [users EXCEPT ![at[t]] = @ \cup {t}]
    /\ Unlock(t)
    /\ UNCHANGED <<state, key, strat, pin>>

\* try_acquire_lock(): the ticket of some other thread is in the way
GiveUp(t) ==
    /\ pc[t] = "have"
    /\ users[at[t]] # {}
    /\ Unlock(t)
    /\ UNCHANGED <<state, key, strat, users, pin>>

-----------------------------------------------------------------------------
(* MDL_lock::remove_ticket(), MDL_map::remove() *)

\* The lock is reached through the ticket, without a pin
RemoveStart(t, o) ==
    /\ pc[t] = "idle"
    /\ t \in users[o]
    /\ wr[o] = NoThread
    /\ wr' = [wr EXCEPT ![o] = t]
    /\ at' = [at EXCEPT ![t] = o]
    /\ want' = [want EXCEPT ![t] = key[o]]
    /\ pc' = [pc EXCEPT ![t] = "remove"]
    /\ UNCHANGED <<state, key, strat, users, pin>>

\* Mutant: the strategy of an empty lock is left as it is
KeepStrategy(t) ==
    LET o == at[t]
        last == users[o] = {t} /\ state[o] # "fixed"
    IN /\ pc[t] = "remove"
       /\ users' = [users EXCEPT ![o] = @ \ {t}]
       /\ IF last
          THEN /\ pc' = [pc EXCEPT ![t] = "delete"]
               /\ wr' = [wr EXCEPT ![o] = NoThread]
               /\ UNCHANGED <<at, want, strat>>
          ELSE Unlock(t) /\ UNCHANGED strat
       /\ UNCHANGED <<state, key, pin>>

\* The last ticket takes m_strategy with it; fixed locks stay.  Any other lock
\* is rescheduled, which keeps its tickets.
RemoveTicket(t) ==
    LET o == at[t]
        last == users[o] = {t} /\ state[o] # "fixed"
    IN /\ pc[t] = "remove"
       /\ users' = [users EXCEPT ![o] = @ \ {t}]
       /\ IF last
          THEN /\ strat' = [strat EXCEPT ![o] = FALSE]
               /\ pc' = [pc EXCEPT ![t] = "delete"]
               /\ wr' = [wr EXCEPT ![o] = NoThread]
               /\ UNCHANGED <<at, want>>
          ELSE Unlock(t) /\ UNCHANGED strat
       /\ UNCHANGED <<state, key, pin>>

\* Mutant: the empty lock stays in the hash
DeleteNothing(t) ==
    /\ pc[t] = "delete"
    /\ at' = [at EXCEPT ![t] = NoObj]
    /\ want' = [want EXCEPT ![t] = NoKey]
    /\ pc' = [pc EXCEPT ![t] = "idle"]
    /\ UNCHANGED <<state, key, strat, users, wr, pin>>

\* lf_hash_delete(), with m_rwlock unlocked and the key read from the object
Delete(t) ==
    /\ pc[t] = "delete"
    /\ DeleteName(key[at[t]])
    /\ at' = [at EXCEPT ![t] = NoObj]
    /\ want' = [want EXCEPT ![t] = NoKey]
    /\ pc' = [pc EXCEPT ![t] = "idle"]
    /\ UNCHANGED <<key, strat, users, wr, pin>>

-----------------------------------------------------------------------------
(* MDL_map::get_lock_owner(), mdl_iterate(): readers *)

\* A reader finds the lock of a name and pins it; fixed locks are read without
\* a search
ReadSearch(t, k) ==
    /\ pc[t] = "idle" /\ k \notin FixedKeys
    /\ \E o \in Obj :
          /\ InHash(o, k)
          /\ Found(t, o)
          /\ at' = [at EXCEPT ![t] = o]
    /\ want' = [want EXCEPT ![t] = k]
    /\ pc' = [pc EXCEPT ![t] = "read"]
    /\ UNCHANGED <<state, key, strat, users, wr>>

\* It read-locks m_rwlock, reads m_granted without a look at m_strategy, and
\* unpins
ReadLock(t) ==
    /\ pc[t] = "read"
    /\ wr[at[t]] = NoThread
    /\ pin' = [pin EXCEPT ![t] = NoObj]
    /\ at' = [at EXCEPT ![t] = NoObj]
    /\ want' = [want EXCEPT ![t] = NoKey]
    /\ pc' = [pc EXCEPT ![t] = "idle"]
    /\ UNCHANGED <<state, key, strat, users, wr>>

-----------------------------------------------------------------------------
(* The specification *)

\* A caller enters the container
Call(t) ==
    \/ \E k \in Key : Request(t, k) \/ ReadSearch(t, k)
    \/ \E o \in Obj : RemoveStart(t, o)

\* A thread inside it goes on
Step(t) ==
    \/ Search(t) \/ Alloc(t) \/ Link(t) \/ WrLock(t) \/ Check(t)
    \/ AddTicket(t) \/ GiveUp(t)
    \/ RemoveTicket(t) \/ Delete(t)
    \/ ReadLock(t)

Next ==
    \/ \E t \in Thread : Call(t) \/ Step(t)
    \/ \E o \in Obj : Reclaim(o)

Spec == Init /\ [][Next]_vars

\* Threads inside the container are scheduled; the allocator reclaims
FairSpec ==
    /\ Spec
    /\ \A t \in Thread : WF_vars(Step(t))
    /\ \A o \in Obj : WF_vars(Reclaim(o))

-----------------------------------------------------------------------------
(* Properties *)

ObjState == {"free", "new", "linked", "dead", "fixed"}
MapPc == {"idle", "search", "alloc", "link", "lock", "check", "have", "remove", "delete", "read"}

\* Every variable of the container has its type.
TypeOK ==
    /\ state \in [Obj -> ObjState]
    /\ key \in [Obj -> Key \cup {NoKey}]
    /\ strat \in [Obj -> BOOLEAN]
    /\ users \in [Obj -> SUBSET Thread]
    /\ wr \in [Obj -> Thread \cup {NoThread}]
    /\ pc \in [Thread -> MapPc]
    /\ want \in [Thread -> Key \cup {NoKey}]
    /\ at \in [Thread -> Obj \cup {NoObj}]
    /\ pin \in [Thread -> Obj \cup {NoObj}]

\* An object on which a thread has a ticket, or to which find_or_insert() has
\* led it, is the one lock of that name: two threads are never granted the
\* same name by two objects, however often it is removed and inserted again.
OneLockPerName ==
    LET InUse(o) == users[o] # {} \/ \E t \in Thread : at[t] = o /\ pc[t] \in {"have", "remove"}
    IN \A o \in Obj : InUse(o) =>
          /\ state[o] \in {"linked", "fixed"} /\ strat[o]
          /\ \A p \in Obj : InUse(p) /\ key[p] = key[o] => p = o

\* A thread that found an object under a name still has an object of that name
\* when it locks it, though it may have been removed: get_lock_owner() and
\* mdl_iterate() need not look at m_strategy, since a removed lock is empty.
FoundKeepsName ==
    \A t \in Thread : pc[t] \in {"lock", "check", "have", "remove", "delete", "read"} =>
        /\ key[at[t]] = want[t]
        /\ state[at[t]] \in {"linked", "dead", "fixed"}
        /\ ~strat[at[t]] => users[at[t]] = {}

\* No lock is leaked: an object in the hash without tickets is about to be
\* used or deleted by some thread.
NoLeakedLock ==
    \A o \in Obj : state[o] = "linked" /\ users[o] = {} =>
        \E t \in Thread : \/ pc[t] \in {"search", "lock", "check", "have"} /\ want[t] = key[o]
                          \/ pc[t] = "delete" /\ at[t] = o

\* The retries of find_or_insert() end, for one thread or another.
SomeoneGetsIn ==
    (\E t \in Thread : pc[t] = "search") ~> (\E t \in Thread : pc[t] = "have")

\* The abstract view: the tickets and the critical section of a name
TicketsOf(k) == UNION {users[o] : o \in {p \in Obj : key[p] = k}}
InSection(t, k) == pc[t] \in {"have", "remove"} /\ key[at[t]] = k
SectionOf(k) ==
    IF \E t \in Thread : InSection(t, k) THEN CHOOSE t \in Thread : InSection(t, k) ELSE NoThread

Names == INSTANCE LockNames WITH
            tickets <- [k \in Key |-> TicketsOf(k)],
            section <- [k \in Key |-> SectionOf(k)]

\* The container keeps its promise: locks that are created, removed and
\* recycled look to the lock manager like one lock per name with one mutex.
ImplementsNames == Names!Spec
=============================================================================
