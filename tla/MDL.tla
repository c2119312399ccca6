-------------------------------- MODULE MDL ---------------------------------
(***************************************************************************)
(* The metadata lock manager (sql/mdl.cc, sql/mdl.h): contexts (one per    *)
(* connection) request, wait for, upgrade, downgrade and release tickets   *)
(* on named locks; releasing threads grant the lock to waiters, and every  *)
(* thread about to wait searches the wait-for graph for a deadlock.        *)
(*                                                                         *)
(* A step is a critical section of MDL_lock::m_rwlock, of the wait slot's  *)
(* mutex or of MDL_context::m_LOCK_waiting_for, together with the          *)
(* thread-local work next to it.  reschedule_waiters() holds m_rwlock over *)
(* several steps (one per grant) and the deadlock search holds read locks  *)
(* over several steps (one per node), so a slot may be closed by a         *)
(* timeout, a kill or another search in the middle of either.              *)
(*                                                                         *)
(* Not modelled: Galera (wsrep_on is off), out-of-memory returns,          *)
(* notify_conflicting_locks() (its effects are outside MDL) and waits for  *)
(* a table flush (the other kind of MDL_wait_for_subgraph).                *)
(***************************************************************************)
EXTENDS MDLTypes, Integers, Sequences, FiniteSets, SequencesExt

CONSTANTS
    Ctx,               \* MDL_context objects, one per connection
    NoCtx,             \* no context
    NoTicket,          \* NULL MDL_ticket pointer
    NoKey,             \* m_lock of a ticket that does not exist
    ScopedKeys,        \* keys of GLOBAL, COMMIT and SCHEMA namespaces
    GlobalKeys,        \* the key of the GLOBAL namespace, if the instance has it
    ObjectKeys,        \* keys of the other namespaces
    MaxTickets,        \* bound: tickets a context can have at a time
    Requests,          \* requests the callers make: [key, type, dur]
    LockLists,         \* request lists callers give to acquire_locks()
    Calls,             \* entry points the callers use
    MaxWriteLockCount, \* the max_write_lock_count system variable
    HogBound,          \* bound: m_hog_lock_count saturates here
    MaxSearchDepth,    \* Deadlock_detection_visitor::MAX_SEARCH_DEPTH
    Interrupts,        \* ways a wait can be cut short: TIMEOUT, KILLED
    MayDisconnect      \* whether thd_is_connected() may return false

Keys == ScopedKeys \cup ObjectKeys
Ticket == Ctx \X (1 .. MaxTickets)
Request == [key: Keys, type: LockTypes, dur: Durations]

ASSUME KeyAssumption ==
    /\ Keys \subseteq Nat
    /\ NoKey \notin Keys
    /\ ScopedKeys \cap ObjectKeys = {}
    /\ GlobalKeys \subseteq ScopedKeys
ASSUME NullAssumption ==
    /\ NoCtx \notin Ctx
    /\ NoTicket \notin Ticket
ASSUME BoundAssumption ==
    /\ MaxTickets \in Nat
    /\ MaxWriteLockCount \in Nat \ {0}
    /\ HogBound \in Nat
    /\ MaxSearchDepth \in Nat \ {0, 1}
    /\ MayDisconnect \in BOOLEAN
ASSUME CallerAssumption ==
    /\ Requests \subseteq Request
    /\ \A L \in LockLists : L \subseteq Request /\ IsFiniteSet(L)
    /\ Interrupts \subseteq {"TIMEOUT", "KILLED"}

VARIABLES
    tlock,    \* MDL_ticket::m_lock, as the key of the lock (NoKey: no ticket)
    ttype,    \* MDL_ticket::m_type
    granted,  \* MDL_lock::m_granted: a set, its order is never used
    waiting,  \* MDL_lock::m_waiting: a queue
    gbits,    \* the bitmap of m_granted
    wbits,    \* the bitmap of m_waiting
    hog,      \* MDL_lock::m_hog_lock_count
    rw,       \* the context that write-locks m_rwlock across steps
    slot,     \* MDL_context::m_wait.m_wait_status
    wfor,     \* MDL_context::m_waiting_for
    own,      \* MDL_context::m_tickets[duration], newest first
    pc,       \* where the thread of the context is
    call,     \* the acquiring call in progress: [op, reqs, cur, upg, svp]
    usvp,     \* an MDL_savepoint kept by SQL, and the tickets it protects
    rel,      \* the tickets the thread has still to release
    it,       \* reschedule_waiters(): the iterator
    stack,    \* deadlock search: nodes entered and their edges left to follow
    victim    \* deadlock search: the victim, read-locked until it is told

\* In call[c]: op is the entry point, reqs the requests still to be acquired,
\* cur the ticket waited for or just acquired, upg the ticket to be upgraded
\* and svp the MDL_savepoint the call took when it started.

listVars == <<granted, waiting, gbits, wbits>>
srchVars == <<stack, victim>>
vars == <<tlock, ttype, listVars, hog, rw, slot, wfor, own, pc, call, usvp, rel, it,
          srchVars>>

-----------------------------------------------------------------------------
(* Matrices, bitmaps, savepoints *)

\* m_strategy->incompatible_granted_types_bitmap()[y]
GrantedIncompat(l, y) ==
    IF l \in ScopedKeys THEN ScopedGrantedIncompat(y) ELSE ObjectGrantedIncompat(y)

\* m_strategy->incompatible_waiting_types_bitmap()[y]
WaitingIncompat(l, y) ==
    IF l \in ScopedKeys THEN ScopedWaitingIncompat(y) ELSE ObjectWaitingIncompat(y)

\* m_strategy->hog_lock_types_bitmap()
HogTypes(l) == IF l \in ScopedKeys THEN {} ELSE ObjectHogTypes

\* MDL_ticket::has_stronger_or_equal_type(), for a ticket of type y on l
HasStrongerOrEqualType(l, y, z) == GrantedIncompat(l, z) \subseteq GrantedIncompat(l, y)

\* MDL_ticket::get_ctx()
CtxOf(t) == t[1]

\* Mutant: the waiting matrix is used for granted tickets too
CanGrantByPriority(l, y, c, ignorePriority) ==
    /\ ignorePriority \/ wbits[l] \cap WaitingIncompat(l, y) = {}
    /\ \A t \in granted[l] : CtxOf(t) # c => ttype[t] \notin WaitingIncompat(l, y)

\* MDL_lock::can_grant_lock(), Galera off
CanGrantLock(l, y, c, ignorePriority) ==
    /\ ignorePriority \/ wbits[l] \cap WaitingIncompat(l, y) = {}
    /\ \/ gbits[l] \cap GrantedIncompat(l, y) = {}
       \/ \A t \in granted[l] :
             CtxOf(t) # c => ttype[t] \notin GrantedIncompat(l, y)

\* Mutant: the bit is cleared without a look at the list
ClearBit(bits, y, rest) == bits \ {y}

\* Ticket_list::clear_bit_if_not_in_list(): the bitmap after a ticket of type
\* y is unlinked and the types in the set rest remain in the list
ClearBitIfNotInList(bits, y, rest) == IF y \in rest THEN bits ELSE bits \ {y}

\* The types of a set of tickets
TypesOf(S) == {ttype[t] : t \in S}

\* I_P_List::front()
FrontTicket(s) == IF s = <<>> THEN NoTicket ELSE s[1]

\* MDL_context::mdl_savepoint()
MdlSavepoint(c) ==
    [stmt |-> FrontTicket(own[c][STATEMENT]), trans |-> FrontTicket(own[c][TRANSACTION])]
NoSavepoint == [stmt |-> NoTicket, trans |-> NoTicket]

\* The tickets release_locks_stored_before() meets before the sentinel, in
\* the order of the list; all of the list when the sentinel is not in it
StoredBefore(s, sentinel) ==
    IF \E i \in 1 .. Len(s) : s[i] = sentinel
    THEN SubSeq(s, 1, (CHOOSE i \in 1 .. Len(s) : s[i] = sentinel) - 1)
    ELSE s

\* Mutant: only the statement list is rolled back
StatementSinceSavepoint(c, sv) == StoredBefore(own[c][STATEMENT], sv.stmt)

\* MDL_context::rollback_to_savepoint(): the tickets it releases
SinceSavepoint(c, sv) ==
    StoredBefore(own[c][STATEMENT], sv.stmt) \o StoredBefore(own[c][TRANSACTION], sv.trans)

\* Mutant: no ticket belongs to a savepoint
HasLockNever(c, sv, t) == FALSE

\* MDL_context::has_lock()
HasLock(c, sv, t) == t \notin ToSet(SinceSavepoint(c, sv))

\* MDL_context::find_ticket(): the first ticket that serves the request r,
\* searching the list of the request's own duration first
Serves(r, t) == tlock[t] = r.key /\ HasStrongerOrEqualType(r.key, ttype[t], r.type)
SearchRank(r, d) == (d - r.dur + 3) % 3
FindTicket(c, r, d, i) ==
    /\ Serves(r, own[c][d][i])
    /\ \A j \in 1 .. (i - 1) : ~Serves(r, own[c][d][j])
    /\ \A e \in Durations : SearchRank(r, e) < SearchRank(r, d) =>
          \A j \in 1 .. Len(own[c][e]) : ~Serves(r, own[c][e][j])
NoneFound(c, r) ==
    \A d \in Durations : \A i \in 1 .. Len(own[c][d]) : ~Serves(r, own[c][d][i])

\* MDL_context::is_lock_owner(MDL_key::GLOBAL, "", "", MDL_INTENTION_EXCLUSIVE),
\* which try_acquire_lock_impl() asserts before it takes an exclusive lock
MayRequest(c, r) ==
    r.type = "X" => \A g \in GlobalKeys :
                       ~NoneFound(c, [key |-> g, type |-> "IX", dur |-> TRANSACTION])

\* MDL_ticket::create(): a ticket that does not exist yet.  Allocators reuse
\* addresses, so the ticket of lowest number is taken again.
NewTicket(c, t) ==
    /\ CtxOf(t) = c /\ tlock[t] = NoKey
    /\ \A u \in Ticket : CtxOf(u) = c /\ tlock[u] = NoKey => t[2] <= u[2]

\* Bound: a call starts only if the context has tickets left for all of it
Room(c, n) ==
    Cardinality({t \in Ticket : CtxOf(t) = c /\ tlock[t] = NoKey}) >= n

-----------------------------------------------------------------------------
(* The read-write locks *)

\* Some search read-locks m_LOCK_waiting_for of n
WaitingForIsRead(n) ==
    \E c \in Ctx : victim[c] = n \/ \E i \in 1 .. Len(stack[c]) : stack[c][i].node = n

\* Mutant: the search does not keep the lock it inspects locked
LockNeverRead(l) == FALSE

\* Some search read-locks MDL_lock::m_rwlock of l
LockIsRead(l) ==
    \E c \in Ctx : \E i \in 1 .. Len(stack[c]) : tlock[wfor[stack[c][i].node]] = l

\* m_rwlock of l can be write-locked
CanWriteLock(l) == rw[l] = NoCtx /\ ~LockIsRead(l)

NoCall == [op |-> "none", reqs |-> <<>>, cur |-> NoTicket, upg |-> NoTicket,
           svp |-> NoSavepoint]
NoIter == [key |-> NoKey, i |-> 0, skip |-> FALSE]
NoUserSavepoint == [set |-> FALSE, at |-> NoSavepoint, kept |-> {}]

-----------------------------------------------------------------------------
Init ==
    /\ tlock = [t \in Ticket |-> NoKey]
    /\ ttype = [t \in Ticket |-> "S"]
    /\ granted = [l \in Keys |-> {}]
    /\ waiting = [l \in Keys |-> <<>>]
    /\ gbits = [l \in Keys |-> {}]
    /\ wbits = [l \in Keys |-> {}]
    /\ hog = [l \in Keys |-> 0]
    /\ rw = [l \in Keys |-> NoCtx]
    /\ slot = [c \in Ctx |-> "EMPTY"]
    /\ wfor = [c \in Ctx |-> NoTicket]
    /\ own = [c \in Ctx |-> [d \in Durations |-> <<>>]]
    /\ pc = [c \in Ctx |-> "idle"]
    /\ call = [c \in Ctx |-> NoCall]
    /\ usvp = [c \in Ctx |-> NoUserSavepoint]
    /\ rel = [c \in Ctx |-> <<>>]
    /\ it = [c \in Ctx |-> NoIter]
    /\ stack = [c \in Ctx |-> <<>>]
    /\ victim = [c \in Ctx |-> NoCtx]

-----------------------------------------------------------------------------
(* Acquiring: try_acquire_lock_impl(), clone_ticket(), acquire_lock() *)

\* A call whose first request has been served by ticket t goes on: to the next
\* request of acquire_locks(), to the merge of upgrade_shared_lock(), to the
\* end of HANDLER OPEN, or back to the caller
Acquired(c, k, t) ==
    LET more == Len(k.reqs) > 1
    IN /\ call' = [call EXCEPT ![c] =
                     CASE k.op \in {"upgrade", "handler"} -> [k EXCEPT !.cur = t]
                       [] k.op = "list" /\ more ->
                            [k EXCEPT !.reqs = Tail(k.reqs), !.cur = NoTicket]
                       [] OTHER -> NoCall]
       /\ pc' = [pc EXCEPT ![c] =
                     CASE k.op \in {"upgrade", "handler"} -> k.op
                       [] k.op = "list" /\ more -> "acquire"
                       [] OTHER -> "idle"]

\* Ticket_list::add_ticket() on m_granted, for a ticket just created
AddGranted(t, l, y) ==
    /\ tlock' = [tlock EXCEPT ![t] = l]
    /\ ttype' = [ttype EXCEPT ![t] = y]
    /\ granted' = [granted EXCEPT ![l] = @ \cup {t}]
    /\ gbits' = [gbits EXCEPT ![l] = @ \cup {y}]

\* MDL_ticket::destroy()
Destroy(t) ==
    /\ tlock' = [tlock EXCEPT ![t] = NoKey]
    /\ ttype' = [ttype EXCEPT ![t] = "S"]

\* Mutant: the new ticket replaces the list
PushAlone(c, d, t) == own' = [own EXCEPT ![c][d] = <<t>>]

\* m_tickets[d].push_front(t)
PushFront(c, d, t) == own' = [own EXCEPT ![c][d] = <<t>> \o @]

\* The context has a ticket of the same duration that serves: it is reused
ReuseTicket(c, k, r) ==
    /\ r.dur # EXPLICIT
    /\ \E i \in 1 .. Len(own[c][r.dur]) :
          /\ FindTicket(c, r, r.dur, i)
          /\ Acquired(c, k, own[c][r.dur][i])
    /\ UNCHANGED <<tlock, ttype, listVars, hog, rw, slot, wfor, own, usvp, rel, it, srchVars>>

\* clone_ticket(): the ticket found has another duration, or explicit duration
CloneTicket(c, k, r) ==
    /\ \E d \in Durations : \E i \in 1 .. Len(own[c][d]) :
          FindTicket(c, r, d, i) /\ (d # r.dur \/ r.dur = EXPLICIT)
    /\ CanWriteLock(r.key)
    /\ \E t \in Ticket :
          /\ NewTicket(c, t)
          /\ AddGranted(t, r.key, r.type)
          /\ PushFront(c, r.dur, t)
          /\ Acquired(c, k, t)
    /\ UNCHANGED <<waiting, wbits, hog, rw, slot, wfor, usvp, rel, it, srchVars>>

\* The lock is granted without waiting
GrantAtOnce(c, k, r) ==
    /\ NoneFound(c, r)
    /\ CanWriteLock(r.key)
    /\ CanGrantLock(r.key, r.type, c, FALSE)
    /\ \E t \in Ticket :
          /\ NewTicket(c, t)
          /\ AddGranted(t, r.key, r.type)
          /\ PushFront(c, r.dur, t)
          /\ Acquired(c, k, t)
    /\ UNCHANGED <<waiting, wbits, hog, rw, slot, wfor, usvp, rel, it, srchVars>>

\* acquire_lock() joins the queue and empties its wait slot, under m_rwlock;
\* try_acquire_lock() gives up instead, which changes nothing
Enqueue(c, k, r) ==
    /\ k.op # "try"
    /\ NoneFound(c, r)
    /\ CanWriteLock(r.key)
    /\ ~CanGrantLock(r.key, r.type, c, FALSE)
    /\ \E t \in Ticket :
          /\ NewTicket(c, t)
          /\ tlock' = [tlock EXCEPT ![t] = r.key]
          /\ ttype' = [ttype EXCEPT ![t] = r.type]
          /\ waiting' = [waiting EXCEPT ![r.key] = Append(@, t)]
          /\ wbits' = [wbits EXCEPT ![r.key] = @ \cup {r.type}]
          /\ call' = [call EXCEPT ![c] = [k EXCEPT !.cur = t]]
    /\ slot' = [slot EXCEPT ![c] = "EMPTY"]
    /\ pc' = [pc EXCEPT ![c] = "willwait"]
    /\ UNCHANGED <<granted, gbits, hog, rw, wfor, own, usvp, rel, it, srchVars>>

Acquire(c, k) ==
    LET r == Head(k.reqs)
    IN /\ MayRequest(c, r)
       /\ \/ ReuseTicket(c, k, r)
          \/ CloneTicket(c, k, r)
          \/ GrantAtOnce(c, k, r)
          \/ Enqueue(c, k, r)

\* MDL_context::acquire_lock()
AcquireLock(c, r) ==
    /\ "lock" \in Calls /\ pc[c] = "idle" /\ Room(c, 1)
    /\ Acquire(c, [NoCall EXCEPT !.op = "lock", !.reqs = <<r>>])

\* MDL_context::try_acquire_lock()
TryAcquireLock(c, r) ==
    /\ "try" \in Calls /\ pc[c] = "idle" /\ Room(c, 1)
    /\ Acquire(c, [NoCall EXCEPT !.op = "try", !.reqs = <<r>>])

\* Mutant: the requests are not sorted
UnsortedLists(L) ==
    {q \in [1 .. Cardinality(L) -> L] : \A r \in L : \E i \in DOMAIN q : q[i] = r}

\* The orders of a set of requests my_qsort() may leave: ascending keys
SortedByKey(L) ==
    {q \in [1 .. Cardinality(L) -> L] :
        /\ \A r \in L : \E i \in DOMAIN q : q[i] = r
        /\ \A i, j \in DOMAIN q : i < j => q[i].key <= q[j].key}

\* MDL_context::acquire_locks(): its savepoint, its sort and its first request
AcquireLocks(c, L) ==
    /\ "list" \in Calls /\ pc[c] = "idle" /\ L # {} /\ Room(c, Cardinality(L))
    /\ \E q \in SortedByKey(L) :
          Acquire(c, [NoCall EXCEPT !.op = "list", !.reqs = q, !.svp = MdlSavepoint(c)])

\* ... and its further requests
AcquireNext(c) == pc[c] = "acquire" /\ Acquire(c, call[c])

\* mysql_ha_open(): a transactional lock is taken first
HandlerOpen(c, r) ==
    /\ "handler" \in Calls /\ pc[c] = "idle" /\ Room(c, 2)
    /\ r.type = "SR" /\ r.dur = TRANSACTION
    /\ Acquire(c, [NoCall EXCEPT !.op = "handler", !.reqs = <<r>>, !.svp = MdlSavepoint(c)])

\* ... and then made explicit; a ticket that belongs to a savepoint is left to
\* it and a clone is made explicit instead
HandlerKeep(c) ==
    LET k == call[c]
        r == Head(k.reqs)
    IN /\ pc[c] = "handler"
       /\ \/ /\ HasLock(c, k.svp, k.cur)
             /\ CanWriteLock(r.key)
             /\ \E t \in Ticket :
                   /\ NewTicket(c, t)
                   /\ AddGranted(t, r.key, r.type)
                   /\ PushFront(c, EXPLICIT, t)
          \/ /\ ~HasLock(c, k.svp, k.cur)
             /\ \E i \in 1 .. Len(own[c][TRANSACTION]) :
                   /\ own[c][TRANSACTION][i] = k.cur
                   /\ own' = [own EXCEPT ![c][TRANSACTION] = RemoveAt(@, i),
                                         ![c][EXPLICIT] = <<k.cur>> \o @]
             /\ UNCHANGED <<tlock, ttype, granted, gbits>>
       /\ pc' = [pc EXCEPT ![c] = "idle"]
       /\ call' = [call EXCEPT ![c] = NoCall]
       /\ UNCHANGED <<waiting, wbits, hog, rw, slot, wfor, usvp, rel, it, srchVars>>

\* ... or given up, when the table turns out not to support HANDLER: what came
\* after the savepoint is released
HandlerFail(c) ==
    LET q == SinceSavepoint(c, call[c].svp)
    IN /\ pc[c] = "handler"
       /\ rel' = [rel EXCEPT ![c] = q]
       /\ pc' = [pc EXCEPT ![c] = IF q = <<>> THEN "idle" ELSE "release"]
       /\ call' = [call EXCEPT ![c] = NoCall]
       /\ UNCHANGED <<tlock, ttype, listVars, hog, rw, slot, wfor, own, usvp, it, srchVars>>
-----------------------------------------------------------------------------
(* Waiting: will_wait_for(), find_deadlock(), timed_wait() *)

\* The wait-for edge becomes visible to other threads' searches
WillWaitFor(c) ==
    /\ pc[c] = "willwait"
    /\ ~WaitingForIsRead(c)
    /\ wfor' = [wfor EXCEPT ![c] = call[c].cur]
    /\ pc' = [pc EXCEPT ![c] = "search"]
    /\ UNCHANGED <<tlock, ttype, listVars, hog, rw, slot, own, call, usvp, rel, it, srchVars>>

\* Mutant: pending requests of higher priority are no edges
GrantedEdges(n) ==
    LET t == wfor[n]
        l == tlock[t]
    IN {u \in granted[l] : CtxOf(u) # n /\ ttype[u] \in GrantedIncompat(l, ttype[t])}

\* The tickets that block the wait of n: MDL_lock::visit_subgraph()
Edges(n) ==
    LET t == wfor[n]
        l == tlock[t]
    IN {u \in granted[l] : CtxOf(u) # n /\ ttype[u] \in GrantedIncompat(l, ttype[t])}
         \cup {u \in ToSet(waiting[l]) : CtxOf(u) # n /\ ttype[u] \in WaitingIncompat(l, ttype[t])}

\* MDL_ticket::get_deadlock_weight()
DeadlockWeight(n) ==
    IF tlock[wfor[n]] \in GlobalKeys \/ ttype[wfor[n]] \in DdlTypes THEN 100 ELSE 0

\* opt_change_victim_to() for the nodes of a path, from the deepest back to the
\* start: the node of least weight, and of several the closest to the start
IsVictim(path, i) ==
    /\ \A j \in 1 .. Len(path) : DeadlockWeight(path[i]) <= DeadlockWeight(path[j])
    /\ \A j \in 1 .. (i - 1) : DeadlockWeight(path[j]) > DeadlockWeight(path[i])

\* The search of c found a loop (or went too deep) at node n: it unwinds,
\* keeping a read lock on the victim only
Found(c, n) ==
    LET path == [i \in 1 .. Len(stack[c]) |-> stack[c][i].node] \o <<n>>
    IN /\ \E i \in 1 .. Len(path) :
             IsVictim(path, i) /\ victim' = [victim EXCEPT ![c] = path[i]]
       /\ stack' = [stack EXCEPT ![c] = <<>>]
       /\ pc' = [pc EXCEPT ![c] = "tell"]

\* The search of c visits node n, the frames below n being s.  The node is
\* left at once if it does not wait or if its wait is over; otherwise it is
\* entered, with read locks on its m_waiting_for and on the lock it waits for.
Visit(c, n, s) ==
    \/ /\ wfor[n] = NoTicket
       /\ stack' = [stack EXCEPT ![c] = s]
       /\ pc' = [pc EXCEPT ![c] = IF s = <<>> THEN "wait" ELSE "search"]
       /\ UNCHANGED victim
    \/ /\ wfor[n] # NoTicket
       /\ rw[tlock[wfor[n]]] = NoCtx
       /\ slot[n] # "EMPTY"
       /\ stack' = [stack EXCEPT ![c] = s]
       /\ pc' = [pc EXCEPT ![c] = IF s = <<>> THEN "wait" ELSE "search"]
       /\ UNCHANGED victim
    \/ /\ wfor[n] # NoTicket
       /\ rw[tlock[wfor[n]]] = NoCtx
       /\ slot[n] = "EMPTY"
       /\ IF Len(s) + 1 >= MaxSearchDepth \/ \E u \in Edges(n) : CtxOf(u) = c
             THEN Found(c, n)
             ELSE /\ stack' = [stack EXCEPT ![c] = Append(s, [node |-> n, todo |-> Edges(n)])]
                  /\ UNCHANGED <<pc, victim>>

\* MDL_context::find_deadlock() visits the context itself first
SearchStart(c) ==
    /\ pc[c] = "search" /\ stack[c] = <<>>
    /\ Visit(c, c, <<>>)
    /\ UNCHANGED <<tlock, ttype, listVars, hog, rw, slot, wfor, own, call, usvp, rel, it>>

\* ... and then follows the edges of the node it entered last, one visit per
\* ticket; the order is that of the lists, left open here
SearchFollow(c) ==
    /\ pc[c] = "search" /\ stack[c] # <<>>
    /\ LET top == stack[c][Len(stack[c])]
       IN \E u \in top.todo :
             Visit(c, CtxOf(u), [stack[c] EXCEPT ![Len(stack[c])] =
                                   [node |-> top.node, todo |-> top.todo \ {u}]])
    /\ UNCHANGED <<tlock, ttype, listVars, hog, rw, slot, wfor, own, call, usvp, rel, it>>

\* leave_node(): the locks of the node are released; the search is over when
\* the start node is left
SearchLeave(c) ==
    /\ pc[c] = "search" /\ stack[c] # <<>>
    /\ stack[c][Len(stack[c])].todo = {}
    /\ stack' = [stack EXCEPT ![c] = SubSeq(@, 1, Len(@) - 1)]
    /\ pc' = [pc EXCEPT ![c] = IF Len(stack[c]) = 1 THEN "wait" ELSE "search"]
    /\ UNCHANGED <<tlock, ttype, listVars, hog, rw, slot, wfor, own, call, usvp, rel, it, victim>>

\* The victim is told, unless its wait is over; the search is repeated unless
\* the victim is the searching context itself
TellVictim(c) ==
    LET v == victim[c]
    IN /\ pc[c] = "tell"
       /\ slot' = [slot EXCEPT ![v] = IF @ = "EMPTY" THEN "VICTIM" ELSE @]
       /\ victim' = [victim EXCEPT ![c] = NoCtx]
       /\ pc' = [pc EXCEPT ![c] = IF v = c THEN "wait" ELSE "search"]
       /\ UNCHANGED <<tlock, ttype, listVars, hog, rw, wfor, own, call, usvp, rel, it, stack>>

\* MDL_wait::timed_wait() ends without a status: it closes the slot itself
Interrupt(c, status) ==
    /\ pc[c] = "wait" /\ slot[c] = "EMPTY"
    /\ slot' = [slot EXCEPT ![c] = status]
    /\ UNCHANGED <<tlock, ttype, listVars, hog, rw, wfor, own, pc, call, usvp, rel, it, srchVars>>

\* The client is gone: acquire_lock() takes this for a timeout of its own and
\* leaves the slot as it is
ClientGone(c) ==
    /\ MayDisconnect
    /\ pc[c] = "wait" /\ slot[c] = "EMPTY"
    /\ pc' = [pc EXCEPT ![c] = "gone"]
    /\ UNCHANGED <<tlock, ttype, listVars, hog, rw, slot, wfor, own, call, usvp, rel, it, srchVars>>

\* done_waiting_for() and the GRANTED end of acquire_lock()
WaitGranted(c) ==
    LET k == call[c]
    IN /\ pc[c] = "wait" /\ slot[c] = "GRANTED"
       /\ ~WaitingForIsRead(c)
       /\ wfor' = [wfor EXCEPT ![c] = NoTicket]
       /\ PushFront(c, Head(k.reqs).dur, k.cur)
       /\ Acquired(c, k, k.cur)
       /\ UNCHANGED <<tlock, ttype, listVars, hog, rw, slot, usvp, rel, it, srchVars>>

\* done_waiting_for() of a wait that ended otherwise
WaitAborted(c) ==
    /\ \/ pc[c] = "wait" /\ slot[c] \in {"VICTIM", "TIMEOUT", "KILLED"}
       \/ pc[c] = "gone"
    /\ ~WaitingForIsRead(c)
    /\ wfor' = [wfor EXCEPT ![c] = NoTicket]
    /\ pc' = [pc EXCEPT ![c] = "abort"]
    /\ UNCHANGED <<tlock, ttype, listVars, hog, rw, slot, own, call, usvp, rel, it, srchVars>>
-----------------------------------------------------------------------------
(* Removing tickets: MDL_lock::remove_ticket(), reschedule_waiters() *)

\* After the release of one ticket the thread, which has the tickets of rest
\* still to release, goes on or returns to its caller
Resume(rest) == IF rest = <<>> THEN "idle" ELSE "release"

\* Mutant: the waiters are not rescheduled
NoReschedule(c, l, rest) ==
    /\ pc' = [pc EXCEPT ![c] = Resume(rest)]
    /\ UNCHANGED <<rw, it, hog>>

\* The end of remove_ticket() and of downgrade_lock(), m_rwlock of l being
\* write-locked by c.  An empty lock is removed from the map; its object may be
\* used again for the next lock of this key, with the m_hog_lock_count it had.
\* Any other lock is rescheduled.
RescheduleOrRemove(c, l, rest) ==
    IF granted'[l] = {} /\ waiting'[l] = <<>>
    THEN /\ \E h \in {0, hog[l]} : hog' = [hog EXCEPT ![l] = h]
         /\ pc' = [pc EXCEPT ![c] = Resume(rest)]
         /\ UNCHANGED <<rw, it>>
    ELSE /\ rw' = [rw EXCEPT ![l] = c]
         /\ it' = [it EXCEPT ![c] =
                     [key |-> l, i |-> 1,
                      skip |-> /\ hog[l] >= MaxWriteLockCount
                               /\ wbits'[l] \ HogTypes(l) # {}]]
         /\ pc' = [pc EXCEPT ![c] = "resched"]
         /\ UNCHANGED hog

\* Mutant: a closed wait slot does not stop the grant
GrantableThoughClosed(l, j, skip) ==
    /\ skip => ttype[waiting[l][j]] \notin HogTypes(l)
    /\ CanGrantLock(l, ttype[waiting[l][j]], CtxOf(waiting[l][j]), skip)

\* The waiter at position j of l can be granted the lock
Grantable(l, j, skip) ==
    LET t == waiting[l][j]
    IN /\ skip => ttype[t] \notin HogTypes(l)
       /\ CanGrantLock(l, ttype[t], CtxOf(t), skip)
       /\ slot[CtxOf(t)] = "EMPTY"

\* One turn of the loop of reschedule_waiters(): the next waiter that can be
\* granted the lock is moved to m_granted and woken up
GrantNext(c) ==
    LET l == it[c].key
    IN /\ pc[c] = "resched"
       /\ \E j \in it[c].i .. Len(waiting[l]) :
             LET t == waiting[l][j]
                 left == RemoveAt(waiting[l], j)
             IN /\ Grantable(l, j, it[c].skip)
                /\ \A m \in it[c].i .. (j - 1) : ~Grantable(l, m, it[c].skip)
                /\ slot' = [slot EXCEPT ![CtxOf(t)] = "GRANTED"]
                /\ waiting' = [waiting EXCEPT ![l] = left]
                /\ wbits' = [wbits EXCEPT ![l] =
                               ClearBitIfNotInList(@, ttype[t], TypesOf(ToSet(left)))]
                /\ granted' = [granted EXCEPT ![l] = @ \cup {t}]
                /\ gbits' = [gbits EXCEPT ![l] = @ \cup {ttype[t]}]
                /\ hog' = [hog EXCEPT ![l] =
                             IF ttype[t] \in HogTypes(l) /\ @ < HogBound THEN @ + 1 ELSE @]
                /\ it' = [it EXCEPT ![c] = [key |-> l, i |-> j, skip |-> it[c].skip]]
       /\ UNCHANGED <<tlock, ttype, rw, wfor, own, pc, call, usvp, rel, srchVars>>

\* The loop is over: the count of strong locks starts anew unless weak
\* requests wait, and m_rwlock is unlocked
RescheduleDone(c) ==
    LET l == it[c].key
    IN /\ pc[c] = "resched"
       /\ \A j \in it[c].i .. Len(waiting[l]) : ~Grantable(l, j, it[c].skip)
       /\ hog' = [hog EXCEPT ![l] = IF wbits[l] \ HogTypes(l) = {} THEN 0 ELSE @]
       /\ rw' = [rw EXCEPT ![l] = NoCtx]
       /\ it' = [it EXCEPT ![c] = NoIter]
       /\ pc' = [pc EXCEPT ![c] = Resume(rel[c])]
       /\ UNCHANGED <<tlock, ttype, listVars, slot, wfor, own, call, usvp, rel, srchVars>>

\* acquire_lock() gives up its wait: the ticket is removed from m_waiting, and
\* acquire_locks() and HANDLER OPEN roll back to their savepoint.  A ticket that
\* is in m_granted by now (after ClientGone only) is removed through the wrong
\* list, which ruins the tail pointer of m_waiting and the bitmap of m_granted:
\* the model does not follow the program past that point.
AbortWait(c) ==
    LET t == call[c].cur
        l == tlock[t]
        rest == IF call[c].op \in {"list", "handler"}
                THEN SinceSavepoint(c, call[c].svp) ELSE <<>>
    IN /\ pc[c] = "abort"
       /\ CanWriteLock(l)
       /\ \E j \in 1 .. Len(waiting[l]) :
             /\ waiting[l][j] = t
             /\ waiting' = [waiting EXCEPT ![l] = RemoveAt(@, j)]
       /\ wbits' = [wbits EXCEPT ![l] =
                      ClearBitIfNotInList(@, ttype[t], TypesOf(ToSet(waiting'[l])))]
       /\ Destroy(t)
       /\ call' = [call EXCEPT ![c] = NoCall]
       /\ rel' = [rel EXCEPT ![c] = rest]
       /\ UNCHANGED <<granted, gbits, slot, wfor, own, usvp, srchVars>>
       /\ RescheduleOrRemove(c, l, rest)

\* MDL_context::release_lock(duration, ticket)
ReleaseLock(c) ==
    LET t == rel[c][1]
        l == tlock[t]
    IN /\ pc[c] = "release"
       /\ CanWriteLock(l)
       /\ granted' = [granted EXCEPT ![l] = @ \ {t}]
       /\ gbits' = [gbits EXCEPT ![l] =
                      ClearBitIfNotInList(@, ttype[t], TypesOf(granted[l] \ {t}))]
       /\ Destroy(t)
       /\ \E d \in Durations : \E i \in 1 .. Len(own[c][d]) :
             /\ own[c][d][i] = t
             /\ own' = [own EXCEPT ![c][d] = RemoveAt(@, i)]
       /\ usvp' = [usvp EXCEPT ![c].kept = @ \ {t}]
       /\ rel' = [rel EXCEPT ![c] = Tail(@)]
       /\ UNCHANGED <<waiting, wbits>>
       /\ RescheduleOrRemove(c, l, Tail(rel[c]))
       /\ UNCHANGED <<slot, wfor, call, srchVars>>

\* A call that releases the tickets of q, one after the other
Release(c, q, sv) ==
    /\ pc[c] = "idle" /\ q # <<>>
    /\ rel' = [rel EXCEPT ![c] = q]
    /\ usvp' = [usvp EXCEPT ![c] = sv]
    /\ pc' = [pc EXCEPT ![c] = "release"]
    /\ UNCHANGED <<tlock, ttype, listVars, hog, rw, slot, wfor, own, call, it, srchVars>>

\* MDL_context::release_lock(ticket), for a ticket of explicit duration
ReleaseExplicitLock(c) ==
    /\ "release" \in Calls
    /\ \E i \in 1 .. Len(own[c][EXPLICIT]) : Release(c, <<own[c][EXPLICIT][i]>>, usvp[c])

\* MDL_context::release_all_locks_for_name()
ReleaseAllLocksForName(c) ==
    LET mine == own[c][EXPLICIT]
    IN /\ "name" \in Calls
       /\ \E l \in Keys, n \in 1 .. Len(mine) : \E f \in [1 .. n -> 1 .. Len(mine)] :
             /\ \A i, j \in 1 .. n : i < j => f[i] < f[j]
             /\ \A m \in 1 .. Len(mine) : tlock[mine[m]] = l <=> \E i \in 1 .. n : f[i] = m
             /\ Release(c, [i \in 1 .. n |-> mine[f[i]]], usvp[c])

\* MDL_context::release_statement_locks(); a savepoint taken inside the
\* statement does not outlive it
ReleaseStatementLocks(c) ==
    /\ "statement" \in Calls
    /\ Release(c, own[c][STATEMENT],
               IF usvp[c].at.stmt = NoTicket THEN usvp[c] ELSE NoUserSavepoint)

\* MDL_context::release_transactional_locks(): the transaction and its
\* savepoints end
ReleaseTransactionalLocks(c) ==
    Release(c, own[c][STATEMENT] \o own[c][TRANSACTION], NoUserSavepoint)

\* MDL_context::release_explicit_locks()
ReleaseExplicitLocks(c) ==
    /\ "explicit" \in Calls
    /\ Release(c, own[c][EXPLICIT], usvp[c])

\* MDL_context::rollback_to_savepoint(), from trans_rollback_to_savepoint() or
\* the back-off of open_tables()
RollbackToSavepoint(c) ==
    /\ usvp[c].set
    /\ Release(c, SinceSavepoint(c, usvp[c].at), usvp[c])

-----------------------------------------------------------------------------
(* Upgrade, downgrade, durations *)

\* MDL_context::upgrade_shared_lock(): a new lock of the stronger type is
\* requested, always with transactional duration
UpgradeSharedLock(c) ==
    /\ "upgrade" \in Calls /\ pc[c] = "idle" /\ Room(c, 1)
    /\ \E d \in Durations : \E i \in 1 .. Len(own[c][d]) : \E p \in UpgradePairs :
          LET t == own[c][d][i]
          IN /\ tlock[t] \in ObjectKeys
             /\ ttype[t] = p[1]
             /\ ~HasStrongerOrEqualType(tlock[t], ttype[t], p[2])
             /\ Acquire(c, [op |-> "upgrade", cur |-> NoTicket, upg |-> t,
                            svp |-> MdlSavepoint(c),
                            reqs |-> <<[key |-> tlock[t], type |-> p[2],
                                        dur |-> TRANSACTION]>>])

\* ... and merged into the ticket; no waiter can gain from the merge, which
\* does not reschedule
MergeUpgrade(c) ==
    LET k == call[c]
        t == k.upg
        l == tlock[t]
        y == Head(k.reqs).type
        isNew == ~HasLock(c, k.svp, k.cur)
        others == granted[l] \ ({t} \cup IF isNew THEN {k.cur} ELSE {})
        bits1 == IF isNew
                 THEN ClearBitIfNotInList(gbits[l], ttype[k.cur], TypesOf(granted[l] \ {k.cur}))
                 ELSE gbits[l]
    IN /\ pc[c] = "upgrade"
       /\ CanWriteLock(l)
       /\ granted' = [granted EXCEPT ![l] = others \cup {t}]
       /\ gbits' = [gbits EXCEPT ![l] =
                      ClearBitIfNotInList(bits1, ttype[t], TypesOf(others)) \cup {y}]
       /\ \/ /\ isNew
             /\ \E i \in 1 .. Len(own[c][TRANSACTION]) :
                   /\ own[c][TRANSACTION][i] = k.cur
                   /\ own' = [own EXCEPT ![c][TRANSACTION] = RemoveAt(@, i)]
             /\ tlock' = [tlock EXCEPT ![k.cur] = NoKey]
             /\ ttype' = [ttype EXCEPT ![t] = y, ![k.cur] = "S"]
          \/ /\ ~isNew
             /\ ttype' = [ttype EXCEPT ![t] = y]
             /\ UNCHANGED <<own, tlock>>
       /\ pc' = [pc EXCEPT ![c] = "idle"]
       /\ call' = [call EXCEPT ![c] = NoCall]
       /\ UNCHANGED <<waiting, wbits, hog, rw, slot, wfor, usvp, rel, it, srchVars>>

\* MDL_ticket::downgrade_lock()
DowngradeLock(c) ==
    /\ "downgrade" \in Calls /\ pc[c] = "idle"
    /\ \E d \in Durations : \E i \in 1 .. Len(own[c][d]) : \E p \in DowngradePairs :
          LET t == own[c][d][i]
              l == tlock[t]
          IN /\ l \in ObjectKeys
             /\ ttype[t] = p[1]
             /\ CanWriteLock(l)
             /\ ttype' = [ttype EXCEPT ![t] = p[2]]
             /\ gbits' = [gbits EXCEPT ![l] =
                            ClearBitIfNotInList(@, p[1], TypesOf(granted[l] \ {t})) \cup {p[2]}]
             /\ granted' = [granted EXCEPT ![l] = (@ \ {t}) \cup {t}]
             /\ UNCHANGED <<waiting, wbits>>
             /\ RescheduleOrRemove(c, l, <<>>)
    /\ UNCHANGED <<tlock, slot, wfor, own, call, usvp, rel, srchVars>>

\* set_explicit_duration_for_all_locks(), when LOCK TABLES has its tables (it
\* committed the transaction, and with it the savepoints, before)
SetExplicitDurationForAllLocks(c) ==
    /\ "locktables" \in Calls /\ pc[c] = "idle"
    /\ own' = [own EXCEPT ![c] =
                 [d \in Durations |->
                    IF d = EXPLICIT
                    THEN Reverse(own[c][EXPLICIT]) \o Reverse(own[c][STATEMENT])
                           \o own[c][TRANSACTION]
                    ELSE <<>>]]
    /\ usvp' = [usvp EXCEPT ![c] = NoUserSavepoint]
    /\ UNCHANGED <<tlock, ttype, listVars, hog, rw, slot, wfor, pc, call, rel, it, srchVars>>

\* set_transaction_duration_for_all_locks(), from leave_locked_tables_mode()
SetTransactionDurationForAllLocks(c) ==
    /\ "locktables" \in Calls /\ pc[c] = "idle"
    /\ own[c][STATEMENT] = <<>>
    /\ own' = [own EXCEPT ![c] =
                 [d \in Durations |->
                    IF d = TRANSACTION
                    THEN Reverse(own[c][TRANSACTION]) \o own[c][EXPLICIT]
                    ELSE <<>>]]
    /\ usvp' = [usvp EXCEPT ![c] = NoUserSavepoint]
    /\ UNCHANGED <<tlock, ttype, listVars, hog, rw, slot, wfor, pc, call, rel, it, srchVars>>

\* set_lock_duration(), with which leave_locked_tables_mode() gives the locks
\* of HANDLERs, user locks and the global read lock their duration back
SetLockDuration(c) ==
    /\ "locktables" \in Calls /\ pc[c] = "idle" /\ ~usvp[c].set
    /\ \E i \in 1 .. Len(own[c][TRANSACTION]) :
          own' = [own EXCEPT ![c][TRANSACTION] = RemoveAt(@, i),
                             ![c][EXPLICIT] = <<own[c][TRANSACTION][i]>> \o @]
    /\ UNCHANGED <<tlock, ttype, listVars, hog, rw, slot, wfor, pc, call, usvp, rel, it, srchVars>>

\* mdl_savepoint(), called by trans_savepoint() and at the start of a statement
TakeSavepoint(c) ==
    /\ "savepoint" \in Calls /\ pc[c] = "idle"
    /\ usvp' = [usvp EXCEPT ![c] =
                  [set |-> TRUE, at |-> MdlSavepoint(c),
                   kept |-> ToSet(own[c][STATEMENT]) \cup ToSet(own[c][TRANSACTION])]]
    /\ UNCHANGED <<tlock, ttype, listVars, hog, rw, slot, wfor, own, pc, call, rel, it, srchVars>>

-----------------------------------------------------------------------------
(* The specification *)

\* A caller enters the lock manager
Enter(c) ==
    \/ \E r \in Requests : AcquireLock(c, r) \/ TryAcquireLock(c, r) \/ HandlerOpen(c, r)
    \/ \E L \in LockLists : AcquireLocks(c, L)
    \/ UpgradeSharedLock(c) \/ DowngradeLock(c)
    \/ ReleaseExplicitLock(c) \/ ReleaseAllLocksForName(c) \/ ReleaseStatementLocks(c)
    \/ ReleaseTransactionalLocks(c) \/ ReleaseExplicitLocks(c) \/ RollbackToSavepoint(c)
    \/ SetExplicitDurationForAllLocks(c) \/ SetTransactionDurationForAllLocks(c)
    \/ SetLockDuration(c) \/ TakeSavepoint(c)

\* A thread inside the lock manager goes on
Proceed(c) ==
    \/ AcquireNext(c) \/ HandlerKeep(c) \/ HandlerFail(c) \/ MergeUpgrade(c)
    \/ WillWaitFor(c) \/ SearchStart(c) \/ SearchFollow(c) \/ SearchLeave(c) \/ TellVictim(c)
    \/ WaitGranted(c) \/ WaitAborted(c) \/ AbortWait(c)
    \/ ReleaseLock(c) \/ GrantNext(c) \/ RescheduleDone(c)

\* A wait is cut short from outside
CutShort(c) == ClientGone(c) \/ \E status \in Interrupts : Interrupt(c, status)

Next == \E c \in Ctx : Enter(c) \/ Proceed(c) \/ CutShort(c)

Spec == Init /\ [][Next]_vars

\* Threads inside the lock manager are scheduled, and transactions end
FairSpec ==
    /\ Spec
    /\ \A c \in Ctx : WF_vars(Proceed(c))
    /\ \A c \in Ctx : SF_vars(ReleaseTransactionalLocks(c))
-----------------------------------------------------------------------------
(* Properties *)

PcValues == {"idle", "acquire", "willwait", "search", "tell", "wait", "gone", "abort",
             "upgrade", "handler", "release", "resched"}
OpValues == {"none", "lock", "try", "list", "upgrade", "handler"}
Savepoint == [stmt: Ticket \cup {NoTicket}, trans: Ticket \cup {NoTicket}]
UserSavepoint == [set: BOOLEAN, at: Savepoint, kept: SUBSET Ticket]
CallRecord == [op: OpValues, reqs: Seq(Request), cur: Ticket \cup {NoTicket},
               upg: Ticket \cup {NoTicket}, svp: Savepoint]
Iterator == [key: Keys \cup {NoKey}, i: Nat, skip: BOOLEAN]
Frame == [node: Ctx, todo: SUBSET Ticket]

\* Every variable of the lock manager has its type.
TypeOK ==
    /\ tlock \in [Ticket -> Keys \cup {NoKey}]
    /\ ttype \in [Ticket -> LockTypes]
    /\ granted \in [Keys -> SUBSET Ticket]
    /\ waiting \in [Keys -> Seq(Ticket)]
    /\ gbits \in [Keys -> SUBSET LockTypes]
    /\ wbits \in [Keys -> SUBSET LockTypes]
    /\ hog \in [Keys -> 0 .. HogBound]
    /\ rw \in [Keys -> Ctx \cup {NoCtx}]
    /\ slot \in [Ctx -> WaitStatus]
    /\ wfor \in [Ctx -> Ticket \cup {NoTicket}]
    /\ own \in [Ctx -> [Durations -> Seq(Ticket)]]
    /\ pc \in [Ctx -> PcValues]
    /\ call \in [Ctx -> CallRecord]
    /\ usvp \in [Ctx -> UserSavepoint]
    /\ rel \in [Ctx -> Seq(Ticket)]
    /\ it \in [Ctx -> Iterator]
    /\ stack \in [Ctx -> Seq(Frame)]
    /\ victim \in [Ctx -> Ctx \cup {NoCtx}]

\* Two contexts never hold incompatible locks on the same name: whatever the
\* order of grants by other threads, upgrades, downgrades and clones, the
\* matrices of mdl.cc hold between the tickets in m_granted.
Compatible ==
    \A l \in Keys : \A t, u \in granted[l] :
        CtxOf(t) # CtxOf(u) => ttype[t] \notin GrantedIncompat(l, ttype[u])

\* The bitmaps that can_grant_lock() relies on are exact: no step that moves a
\* ticket, changes its type or drops it leaves a bit behind or loses one.
BitmapsExact ==
    \A l \in Keys : gbits[l] = TypesOf(granted[l]) /\ wbits[l] = TypesOf(ToSet(waiting[l]))

\* A ticket is in m_granted exactly if its context holds it or is about to take
\* it from its wait slot; a ticket in m_waiting belongs to a call that waits.
\* So a grant is never lost and an abandoned request never keeps a lock.
TicketsAccountedFor ==
    /\ \A l \in Keys : \A t \in granted[l] :
          \/ \E d \in Durations : t \in ToSet(own[CtxOf(t)][d])
          \/ /\ call[CtxOf(t)].cur = t /\ slot[CtxOf(t)] = "GRANTED"
             /\ pc[CtxOf(t)] \in {"willwait", "search", "tell", "wait"}
    /\ \A c \in Ctx : \A d \in Durations : \A t \in ToSet(own[c][d]) :
          tlock[t] \in Keys /\ t \in granted[tlock[t]]
    /\ \A l \in Keys : \A t \in ToSet(waiting[l]) :
          /\ call[CtxOf(t)].cur = t /\ slot[CtxOf(t)] # "GRANTED"
          /\ pc[CtxOf(t)] \in {"willwait", "search", "tell", "wait", "gone", "abort"}

\* A request that was given up (killed, timed out, victim, client gone) is not
\* granted behind the back of its thread, which removes it from m_waiting.
AbandonedNotGranted ==
    \A c \in Ctx : pc[c] \in {"gone", "abort"} => call[c].cur \notin granted[tlock[call[c].cur]]

\* Between two critical sections of m_rwlock no waiter is left waiting that the
\* rules allow to have the lock: every release, downgrade and abort wakes all
\* it should.  The one exception is a strong request passed over because of
\* max_write_lock_count, in favour of a weak one whose wait had been cut short:
\* that one is still queued, and its removal will reschedule the lock.
NoMissedGrant ==
    \A l \in Keys : rw[l] = NoCtx =>
        \A j \in 1 .. Len(waiting[l]) : Grantable(l, j, FALSE) =>
            /\ hog[l] >= MaxWriteLockCount
            /\ ttype[waiting[l][j]] \in HogTypes(l)
            /\ \E u \in ToSet(waiting[l]) :
                  ttype[u] \notin HogTypes(l) /\ slot[CtxOf(u)] # "EMPTY"

\* The contexts the pending request of n has to wait for, by the matrices
BlockedBy(n) ==
    LET t == call[n].cur
        l == tlock[t]
    IN {c \in Ctx \ {n} :
          \/ \E u \in granted[l] : CtxOf(u) = c /\ ttype[u] \in GrantedIncompat(l, ttype[t])
          \/ \E j \in 1 .. Len(waiting[l]) :
                /\ CtxOf(waiting[l][j]) = c
                /\ ttype[waiting[l][j]] \in WaitingIncompat(l, ttype[t])}

\* The path of a deadlock search is a path of the wait-for graph for as long as
\* the search stands on it, and none of its nodes has been granted its lock: a
\* loop that is found is a deadlock.
SearchPathIsReal ==
    \A c \in Ctx : \A i \in 1 .. Len(stack[c]) :
        /\ slot[stack[c][i].node] # "GRANTED"
        /\ wfor[stack[c][i].node] # NoTicket
        /\ i < Len(stack[c]) => stack[c][i + 1].node \in BlockedBy(stack[c][i].node)

\* The contexts that have finished their search and wait, undisturbed
AtRest == {c \in Ctx : pc[c] = "wait" /\ slot[c] = "EMPTY"}

\* No set of contexts is left to wait for each other once each of them has
\* searched: whichever edge closed the loop was seen by some search.
NoUndetectedDeadlock ==
    \A D \in SUBSET AtRest : D # {} => \E c \in D : BlockedBy(c) \cap D = {}

\* Contexts that take all their locks in one acquire_locks() call, in the order
\* of the keys, are never victims.
OrderedListsNeverVictims == \A c \in Ctx : slot[c] # "VICTIM"

\* What rollback_to_savepoint() would release is at any time what was taken
\* since the savepoint, and nothing that was there before: tickets reused,
\* cloned, upgraded or made explicit in between do not move the sentinel.
SavepointExact ==
    \A c \in Ctx : usvp[c].set /\ pc[c] = "idle" =>
        ToSet(SinceSavepoint(c, usvp[c].at)) =
            (ToSet(own[c][STATEMENT]) \cup ToSet(own[c][TRANSACTION])) \ usvp[c].kept

\* acquire_locks() is all or nothing: contexts that use nothing else, and start
\* with no locks, hold between calls all the names of one list or none.
ListsAllOrNothing ==
    \A c \in Ctx : pc[c] = "idle" =>
        \E L \in LockLists \cup {{}} :
            {tlock[t] : t \in UNION {ToSet(own[c][d]) : d \in Durations}} = {r.key : r \in L}

\* m_hog_lock_count is back at 0 when the lock has no requests at all, so that
\* the object, which lf_hash recycles without running its constructor, does
\* not count the strong locks of its former name against the next one.
HogCountReset ==
    \A l \in Keys : rw[l] = NoCtx /\ granted[l] = {} /\ waiting[l] = <<>> => hog[l] = 0

\* Every wait ends without a timeout: a deadlock is resolved by a victim, and
\* requests of one priority are served in their order.
WaitsEnd == \A c \in Ctx : pc[c] = "wait" ~> pc[c] # "wait"
=============================================================================
