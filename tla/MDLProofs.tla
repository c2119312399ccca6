------------------------------ MODULE MDLProofs -----------------------------
(***************************************************************************)
(* Proofs about the metadata lock manager of module MDL, for any number of *)
(* contexts, names, tickets and requests and whatever calls the callers    *)
(* make: its variables keep their types, the bitmaps of a lock are exact,  *)
(* two contexts never hold incompatible tickets and savepoints are exact.  *)
(* Then about waits and deadlock searches: every granted ticket is held or *)
(* about to be taken from its wait slot, a request given up is not granted *)
(* behind its thread's back (both unless clients disconnect during a       *)
(* wait), the path of a search stays a path of the wait-for graph while    *)
(* the search stands on it, and no request that could be granted is left   *)
(* waiting.                                                                *)
(***************************************************************************)
EXTENDS MDL, ListLemmas, FiniteSetTheorems

\* The steps of acquire_lock() between the enqueueing of its ticket and the
\* end of its wait
WaitPcs == {"willwait", "search", "tell", "wait", "gone", "abort"}

\* A call that acquires is under way
BusyPcs == WaitPcs \cup {"acquire", "upgrade", "handler"}

\* The context whose m_tickets are o holds t
Has(o, t) == \E d \in Durations : In(o[d], t)

\* A ticket is in one of the lists m_tickets, once
Inj(o) ==
    /\ \A d \in Durations : SeqInj(o[d])
    /\ \A d, e \in Durations : \A t \in Ticket : In(o[d], t) /\ In(o[e], t) => d = e

\* The request that the call of c is about
Req(c) == Head(call[c].reqs)

-----------------------------------------------------------------------------
(* The inductive invariant *)

\* A granted ticket exists and is of the lock
GrantedOK == \A l \in Keys : \A t \in granted[l] : tlock[t] = l

\* A ticket in m_waiting is what the call of its context waits for
WaitingOK ==
    \A l \in Keys :
        /\ SeqInj(waiting[l])
        /\ \A t \in Ticket : In(waiting[l], t) =>
              /\ tlock[t] = l /\ t \notin granted[l]
              /\ call[CtxOf(t)].cur = t /\ pc[CtxOf(t)] \in WaitPcs

\* A ticket that a context holds is its own, exists and is granted
OwnOK(c) ==
    /\ Inj(own[c])
    /\ \A t \in Ticket : Has(own[c], t) =>
          CtxOf(t) = c /\ tlock[t] \in Keys /\ t \in granted[tlock[t]]

\* A call under way has a request, and the kind that its steps expect
CallOK(c) ==
    pc[c] \in BusyPcs =>
        /\ call[c].reqs # <<>>
        /\ call[c].op \in {"upgrade", "handler"} => Req(c).dur = TRANSACTION
        /\ pc[c] = "upgrade" => call[c].op = "upgrade"
        /\ pc[c] = "acquire" => call[c].op = "list"

\* The ticket a call waits for is the one it requested, is not held yet, and
\* is granted when the slot says so
CurOK(c) ==
    pc[c] \in WaitPcs =>
        /\ call[c].cur \in Ticket /\ CtxOf(call[c].cur) = c
        /\ tlock[call[c].cur] = Req(c).key /\ ttype[call[c].cur] = Req(c).type
        /\ ~Has(own[c], call[c].cur)
        /\ slot[c] = "GRANTED" => call[c].cur \in granted[Req(c).key]

\* The ticket to be upgraded is held, and weaker than the new one until the merge
UpgOK(c) ==
    pc[c] \in WaitPcs \cup {"upgrade"} /\ call[c].op = "upgrade" =>
        /\ call[c].upg \in Ticket /\ Has(own[c], call[c].upg)
        /\ tlock[call[c].upg] = Req(c).key
        /\ ~HasStrongerOrEqualType(Req(c).key, ttype[call[c].upg], Req(c).type)
        /\ HasStrongerOrEqualType(Req(c).key, Req(c).type, ttype[call[c].upg])

\* The ticket that serves an upgrade or HANDLER OPEN is held; that of an
\* upgrade is of the type requested unless the context had it before
HeldOK(c) ==
    pc[c] \in {"upgrade", "handler"} =>
        /\ call[c].cur \in Ticket /\ In(own[c][TRANSACTION], call[c].cur)
        /\ tlock[call[c].cur] = Req(c).key
        /\ HasStrongerOrEqualType(Req(c).key, ttype[call[c].cur], Req(c).type)
        /\ pc[c] = "upgrade" => \/ ttype[call[c].cur] = Req(c).type
                                \/ HasLock(c, call[c].svp, call[c].cur)

\* The tickets to be released are held
RelOK(c) ==
    /\ pc[c] \notin {"release", "resched"} => rel[c] = <<>>
    /\ pc[c] = "release" => rel[c] # <<>>
    /\ SeqInj(rel[c])
    /\ \A t \in Ticket : In(rel[c], t) => Has(own[c], t)

\* The iterator of reschedule_waiters() is inside a lock
IterOK(c) == pc[c] = "resched" => it[c].key \in Keys /\ it[c].i >= 1

\* A wait-for edge is that of the call under way
WforOK(c) ==
    wfor[c] # NoTicket => wfor[c] = call[c].cur /\ pc[c] \in {"search", "tell", "wait", "gone"}

\* What the thread of c relies on
ThreadOK(c) ==
    /\ OwnOK(c) /\ CallOK(c) /\ CurOK(c) /\ UpgOK(c) /\ HeldOK(c)
    /\ RelOK(c) /\ IterOK(c) /\ WforOK(c)

IInv ==
    /\ TypeOK
    /\ GrantedOK /\ WaitingOK /\ BitmapsExact /\ Compatible
    /\ \A c \in Ctx : ThreadOK(c)

-----------------------------------------------------------------------------
(* The operators *)

\* The matrices of granted types are symmetric.
LEMMA MatrixSymmetric ==
  \A l \in Keys : \A y, z \in LockTypes :
      y \in GrantedIncompat(l, z) <=> z \in GrantedIncompat(l, y)
BY DEF GrantedIncompat, ScopedGrantedIncompat, ObjectGrantedIncompat, LockTypes

\* release_locks_stored_before() meets elements of the list, each once.
LEMMA StoredBeforeIn ==
  ASSUME NEW S, NEW s \in Seq(S), NEW t, SeqInj(s)
  PROVE  /\ StoredBefore(s, t) \in Seq(S)
         /\ SeqInj(StoredBefore(s, t))
         /\ \A u : In(StoredBefore(s, t), u) => In(s, u)
<1>1. CASE \E i \in 1 .. Len(s) : s[i] = t
  <2>1. PICK n \in 1 .. Len(s) : n = CHOOSE i \in 1 .. Len(s) : s[i] = t
    BY <1>1
  <2>2. StoredBefore(s, t) = SubSeq(s, 1, n - 1)
    BY <1>1, <2>1 DEF StoredBefore
  <2> DEFINE R == SubSeq(s, 1, n - 1)
  <2>3. R \in Seq(S) /\ Len(R) = n - 1 /\ Len(s) \in Nat /\ \A j \in 1 .. n - 1 : R[j] = s[j]
    OBVIOUS
  <2> HIDE DEF R
  <2>4. SeqInj(R) /\ \A u : In(R, u) => In(s, u)
    BY <2>3 DEF SeqInj, In
  <2> QED BY <2>2, <2>3, <2>4 DEF R
<1>2. CASE ~\E i \in 1 .. Len(s) : s[i] = t
  BY <1>2 DEF StoredBefore
<1> QED BY <1>1, <1>2

\* push_front() of a new ticket to one of the lists of a context.
LEMMA OwnPush ==
  ASSUME NEW o \in [Durations -> Seq(Ticket)], Inj(o), NEW d \in Durations,
         NEW t \in Ticket, ~Has(o, t)
  PROVE  LET p == [o EXCEPT ![d] = <<t>> \o @]
         IN /\ p \in [Durations -> Seq(Ticket)]
            /\ Inj(p)
            /\ In(p[d], t)
            /\ \A u \in Ticket : Has(p, u) <=> Has(o, u) \/ u = t
<1> DEFINE p == [o EXCEPT ![d] = <<t>> \o @]
<1>1. /\ p[d] = <<t>> \o o[d] /\ DOMAIN p = Durations
      /\ \A e \in Durations : e # d => p[e] = o[e]
      /\ o[d] \in Seq(Ticket)
  OBVIOUS
<1>2. SeqInj(o[d]) /\ ~In(o[d], t)
  BY DEF Inj, Has
<1>3. /\ <<t>> \o o[d] \in Seq(Ticket)
      /\ SeqInj(<<t>> \o o[d])
      /\ \A u : In(<<t>> \o o[d], u) <=> In(o[d], u) \/ u = t
  BY <1>1, <1>2, PushIn
<1>4. p \in [Durations -> Seq(Ticket)]
  BY <1>3
<1> HIDE DEF p
<1>5. \A e \in Durations, u \in Ticket : In(p[e], u) <=> In(o[e], u) \/ (e = d /\ u = t)
  BY <1>1, <1>3
<1>6. Inj(p)
  <2>1. \A e \in Durations : SeqInj(p[e]) BY <1>1, <1>3 DEF Inj
  <2>2. \A e \in Durations : ~In(o[e], t) BY DEF Has
  <2>3. ASSUME NEW a \in Durations, NEW b \in Durations, NEW u \in Ticket,
               In(p[a], u), In(p[b], u)
        PROVE  a = b
    <3>1. CASE u = t BY <1>5, <2>2, <2>3, <3>1
    <3>2. CASE u # t BY <1>5, <2>3, <3>2 DEF Inj
    <3> QED BY <3>1, <3>2
  <2> QED BY <2>1, <2>3 DEF Inj
<1>7. \A u \in Ticket : Has(p, u) <=> Has(o, u) \/ u = t
  BY <1>5 DEF Has
<1> QED BY <1>4, <1>5, <1>6, <1>7 DEF p

\* remove() of a ticket from one of the lists of a context.
LEMMA OwnRemove ==
  ASSUME NEW o \in [Durations -> Seq(Ticket)], Inj(o), NEW d \in Durations,
         NEW i \in 1 .. Len(o[d])
  PROVE  LET p == [o EXCEPT ![d] = RemoveAt(@, i)]
         IN /\ p \in [Durations -> Seq(Ticket)]
            /\ Inj(p)
            /\ o[d][i] \in Ticket /\ Has(o, o[d][i])
            /\ \A u \in Ticket : Has(p, u) <=> Has(o, u) /\ u # o[d][i]
            /\ \A e \in Durations, u \in Ticket : In(p[e], u) <=> In(o[e], u) /\ u # o[d][i]
<1> DEFINE p == [o EXCEPT ![d] = RemoveAt(@, i)]
           t == o[d][i]
<1>1. /\ p[d] = RemoveAt(o[d], i) /\ DOMAIN p = Durations
      /\ \A e \in Durations : e # d => p[e] = o[e]
      /\ o[d] \in Seq(Ticket) /\ t \in Ticket
  OBVIOUS
<1>2. SeqInj(o[d]) /\ In(o[d], t)
  BY DEF Inj, In
<1>3. /\ RemoveAt(o[d], i) \in Seq(Ticket)
      /\ SeqInj(RemoveAt(o[d], i))
      /\ \A u : In(RemoveAt(o[d], i), u) <=> In(o[d], u) /\ u # t
  BY <1>1, <1>2, RemoveAtIn
<1>4. p \in [Durations -> Seq(Ticket)]
  BY <1>3
<1> HIDE DEF p, t
<1>5. \A e \in Durations, u \in Ticket : In(p[e], u) <=> In(o[e], u) /\ (e = d => u # t)
  BY <1>1, <1>3
<1>6. \A e \in Durations : e # d => ~In(o[e], t)
  BY <1>1, <1>2 DEF Inj
<1>7. Inj(p)
  BY <1>1, <1>3, <1>5 DEF Inj
<1>8. \A u \in Ticket : Has(p, u) <=> Has(o, u) /\ u # t
  BY <1>5, <1>6 DEF Has
<1> QED BY <1>1, <1>2, <1>4, <1>5, <1>6, <1>7, <1>8 DEF p, t, Has

\* set_lock_duration(): a transactional ticket becomes an explicit one.
LEMMA OwnMove ==
  ASSUME NEW o \in [Durations -> Seq(Ticket)], Inj(o), NEW i \in 1 .. Len(o[TRANSACTION])
  PROVE  LET p == [o EXCEPT ![TRANSACTION] = RemoveAt(@, i),
                            ![EXPLICIT] = <<o[TRANSACTION][i]>> \o @]
         IN /\ p \in [Durations -> Seq(Ticket)]
            /\ Inj(p)
            /\ \A u \in Ticket : Has(p, u) <=> Has(o, u)
<1> DEFINE q == [o EXCEPT ![TRANSACTION] = RemoveAt(@, i)]
           t == o[TRANSACTION][i]
           p == [q EXCEPT ![EXPLICIT] = <<t>> \o @]
<1>0. TRANSACTION \in Durations /\ EXPLICIT \in Durations /\ TRANSACTION # EXPLICIT
  BY DEF Durations, TRANSACTION, EXPLICIT
<1>1. /\ q \in [Durations -> Seq(Ticket)] /\ Inj(q) /\ t \in Ticket /\ Has(o, t)
      /\ \A u \in Ticket : Has(q, u) <=> Has(o, u) /\ u # t
  BY <1>0, OwnRemove
<1>2. p = [o EXCEPT ![TRANSACTION] = RemoveAt(@, i), ![EXPLICIT] = <<t>> \o @]
  BY <1>0
<1> HIDE DEF q, t
<1>3. /\ p \in [Durations -> Seq(Ticket)] /\ Inj(p)
      /\ \A u \in Ticket : Has(p, u) <=> Has(q, u) \/ u = t
  BY <1>0, <1>1, OwnPush
<1> HIDE DEF p
<1> QED BY <1>1, <1>2, <1>3 DEF t

-----------------------------------------------------------------------------
(* The initial state *)

\* The lock manager starts in the invariant.
LEMMA InitInv == Init => IInv
<1> SUFFICES ASSUME Init PROVE IInv
  OBVIOUS
<1>1. TypeOK
  <2> USE NullAssumption, BoundAssumption DEF Init
  <2>1. NoCall \in CallRecord
    BY EmptySeq DEF NoCall, CallRecord, OpValues, NoSavepoint, Savepoint
  <2>2. NoUserSavepoint \in UserSavepoint /\ NoIter \in Iterator
    BY DEF NoUserSavepoint, UserSavepoint, NoSavepoint, Savepoint, NoIter, Iterator
  <2>3. rel \in [Ctx -> Seq(Ticket)] /\ stack \in [Ctx -> Seq(Frame)]
    BY EmptySeq
  <2>4. waiting \in [Keys -> Seq(Ticket)] /\ own \in [Ctx -> [Durations -> Seq(Ticket)]]
    BY EmptySeq
  <2>5. call \in [Ctx -> CallRecord] /\ usvp \in [Ctx -> UserSavepoint] /\ it \in [Ctx -> Iterator]
    BY <2>1, <2>2
  <2>6. /\ pc \in [Ctx -> PcValues] /\ slot \in [Ctx -> WaitStatus]
        /\ ttype \in [Ticket -> LockTypes]
    BY DEF PcValues, WaitStatus, LockTypes
  <2> QED BY <2>3, <2>4, <2>5, <2>6 DEF TypeOK
<1>2. \A c \in Ctx, d \in Durations : own[c][d] = <<>>
  BY DEF Init
<1>3. \A l \in Keys : granted[l] = {} /\ waiting[l] = <<>> /\ gbits[l] = {} /\ wbits[l] = {}
  BY DEF Init
<1>4. \A t : ~In(<<>>, t)
  BY DEF In
<1>5. SeqInj(<<>>)
  BY DEF SeqInj
<1>6. GrantedOK /\ WaitingOK /\ \A c \in Ctx : OwnOK(c)
  BY <1>2, <1>3, <1>4, <1>5 DEF OwnOK, Inj, Has, GrantedOK, WaitingOK
<1>7. \A c \in Ctx : pc[c] = "idle" /\ rel[c] = <<>> /\ wfor[c] = NoTicket
  BY DEF Init
<1>8. \A c \in Ctx : CallOK(c) /\ CurOK(c) /\ UpgOK(c) /\ HeldOK(c) /\ IterOK(c) /\ WforOK(c)
  BY <1>7 DEF CallOK, CurOK, UpgOK, HeldOK, IterOK, WforOK, BusyPcs, WaitPcs
<1>9. \A c \in Ctx : RelOK(c)
  BY <1>4, <1>5, <1>7 DEF RelOK
<1>10. BitmapsExact
  BY <1>3 DEF BitmapsExact, TypesOf, ToSet
<1>11. Compatible
  BY <1>3 DEF Compatible
<1> QED BY <1>1, <1>6, <1>8, <1>9, <1>10, <1>11 DEF IInv, ThreadOK

-----------------------------------------------------------------------------
(* Steps of a waiting thread and of a deadlock search *)

\* A step that changes no list, and of the waiting threads only where they
\* are, keeps the invariant.
LEMMA QuietInv ==
  ASSUME IInv, TypeOK', \A b \in Ctx : WforOK(b)',
         UNCHANGED <<tlock, ttype, listVars, own, call, rel, it>>,
         \A b \in Ctx : pc'[b] = pc[b] \/ (pc[b] \in WaitPcs /\ pc'[b] \in WaitPcs),
         \A b \in Ctx : slot'[b] = "GRANTED" => slot[b] = "GRANTED"
  PROVE  IInv'
<1> USE DEF IInv, ThreadOK, listVars
<1>0. \A b \in Ctx : /\ pc'[b] \in WaitPcs <=> pc[b] \in WaitPcs
                     /\ pc'[b] \notin WaitPcs => pc'[b] = pc[b]
  OBVIOUS
<1>a. \A p \in WaitPcs : p \notin {"upgrade", "handler", "acquire", "release", "resched"}
  BY DEF WaitPcs
<1>1. GrantedOK' /\ BitmapsExact' /\ Compatible'
  BY DEF GrantedOK, BitmapsExact, Compatible, TypesOf
<1>2. WaitingOK'
  <2> SUFFICES ASSUME NEW l \in Keys, NEW t \in Ticket, In(waiting[l], t)
               PROVE  pc'[CtxOf(t)] \in WaitPcs
    BY DEF WaitingOK
  <2>1. CtxOf(t) \in Ctx BY DEF CtxOf, Ticket
  <2> QED BY <1>0, <2>1 DEF WaitingOK
<1>3. ASSUME NEW b \in Ctx PROVE ThreadOK(b)'
  <2>1. OwnOK(b)' BY DEF OwnOK
  <2>2. CallOK(b)' BY <1>0, <1>a DEF CallOK, BusyPcs, Req
  <2>3. CurOK(b)' BY <1>0 DEF CurOK, Req
  <2>4. UpgOK(b)' /\ HeldOK(b)' /\ IterOK(b)'
    BY <1>0, <1>a DEF UpgOK, HeldOK, IterOK, Req, HasLock, SinceSavepoint
  <2>5. RelOK(b)' BY <1>0, <1>a DEF RelOK
  <2> QED BY <2>1, <2>2, <2>3, <2>4, <2>5
<1> QED BY <1>1, <1>2, <1>3

\* The request of a call under way.
LEMMA ReqType ==
  ASSUME IInv, NEW c \in Ctx, pc[c] \in BusyPcs
  PROVE  /\ Req(c) \in Request /\ Req(c).key \in Keys /\ Req(c).type \in LockTypes
         /\ Req(c).dur \in Durations /\ call[c].reqs # <<>>
<1>1. call[c].reqs \in Seq(Request) /\ call[c].reqs # <<>>
  BY DEF IInv, ThreadOK, CallOK, TypeOK, CallRecord
<1>2. Req(c) \in Request
  BY <1>1, HeadTailProperties DEF Req
<1> QED BY <1>1, <1>2 DEF Request

\* A thread that waits for something waits for an existing ticket of a lock.
LEMMA WforFacts ==
  ASSUME IInv, NEW c \in Ctx, wfor[c] # NoTicket
  PROVE  wfor[c] \in Ticket /\ tlock[wfor[c]] \in Keys /\ pc[c] \in WaitPcs
<1> USE DEF IInv, ThreadOK
<1>1. wfor[c] = call[c].cur /\ pc[c] \in {"search", "tell", "wait", "gone"}
  BY DEF WforOK
<1>2. pc[c] \in WaitPcs /\ pc[c] \in BusyPcs
  BY <1>1 DEF WaitPcs, BusyPcs
<1>3. wfor[c] \in Ticket /\ tlock[wfor[c]] = Req(c).key
  BY <1>1, <1>2 DEF CurOK
<1> QED BY <1>2, <1>3, ReqType

\* will_wait_for() and done_waiting_for() of an aborted wait.
LEMMA WillWaitForInv ==
  ASSUME IInv, NEW c \in Ctx, WillWaitFor(c) \/ WaitAborted(c)
  PROVE  IInv'
<1> USE DEF IInv, ThreadOK
<1>1. call[c].cur \in Ticket \cup {NoTicket}
  BY DEF TypeOK, CallRecord
<1>2. TypeOK'
  BY <1>1 DEF TypeOK, WillWaitFor, WaitAborted, PcValues, listVars, srchVars
<1>3. \A b \in Ctx : WforOK(b)'
  BY ZenonT(40) DEF WforOK, TypeOK, WillWaitFor, WaitAborted
<1>4. \A b \in Ctx : pc'[b] = pc[b] \/ (pc[b] \in WaitPcs /\ pc'[b] \in WaitPcs)
  BY DEF TypeOK, WillWaitFor, WaitAborted, WaitPcs
<1> QED BY <1>2, <1>3, <1>4, QuietInv DEF WillWaitFor, WaitAborted

\* timed_wait() closes its slot, or the client is found to be gone.
LEMMA CutShortInv ==
  ASSUME IInv, NEW c \in Ctx, CutShort(c)
  PROVE  IInv'
<1> USE DEF IInv, ThreadOK
<1>1. CASE ClientGone(c)
  <2>1. TypeOK' BY <1>1 DEF TypeOK, ClientGone, PcValues, listVars, srchVars
  <2>2. \A b \in Ctx : WforOK(b)' BY <1>1 DEF WforOK, TypeOK, ClientGone
  <2>3. \A b \in Ctx : pc'[b] = pc[b] \/ (pc[b] \in WaitPcs /\ pc'[b] \in WaitPcs)
    BY <1>1 DEF TypeOK, ClientGone, WaitPcs
  <2> QED BY <1>1, <2>1, <2>2, <2>3, QuietInv DEF ClientGone
<1>2. ASSUME NEW status \in Interrupts, Interrupt(c, status)
      PROVE  IInv'
  <2>0. status \in {"TIMEOUT", "KILLED"} BY CallerAssumption
  <2>1. TypeOK' BY <1>2, <2>0 DEF TypeOK, Interrupt, WaitStatus, listVars, srchVars
  <2>2. \A b \in Ctx : WforOK(b)' BY <1>2 DEF WforOK, Interrupt
  <2>3. \A b \in Ctx : slot'[b] = "GRANTED" => slot[b] = "GRANTED"
    BY <1>2, <2>0 DEF TypeOK, Interrupt
  <2> QED BY <1>2, <2>1, <2>2, <2>3, QuietInv DEF Interrupt
<1> QED BY <1>1, <1>2 DEF CutShort

\* The search visits a node: only its own stack, victim and place change.
LEMMA VisitFacts ==
  ASSUME IInv, NEW c \in Ctx, NEW n \in Ctx, NEW s \in Seq(Frame), Visit(c, n, s),
         pc[c] = "search"
  PROVE  /\ stack' \in [Ctx -> Seq(Frame)]
         /\ victim' \in [Ctx -> Ctx \cup {NoCtx}]
         /\ \E p \in {"search", "tell", "wait"} : pc' = [pc EXCEPT ![c] = p]
<1> USE DEF IInv
<1>1. stack \in [Ctx -> Seq(Frame)] /\ victim \in [Ctx -> Ctx \cup {NoCtx}]
      /\ pc \in [Ctx -> PcValues]
  BY DEF TypeOK
<1>2. CASE wfor[n] = NoTicket \/ slot[n] # "EMPTY"
  <2>1. /\ stack' = [stack EXCEPT ![c] = s] /\ victim' = victim
        /\ pc' = [pc EXCEPT ![c] = IF s = <<>> THEN "wait" ELSE "search"]
    BY <1>2 DEF Visit
  <2> QED BY <1>1, <2>1
<1>3. CASE wfor[n] # NoTicket /\ slot[n] = "EMPTY"
  <2>1. Edges(n) \subseteq Ticket
    <3>1. tlock[wfor[n]] \in Keys BY <1>3, WforFacts
    <3>2. /\ granted[tlock[wfor[n]]] \subseteq Ticket
          /\ waiting[tlock[wfor[n]]] \in Seq(Ticket)
      BY <3>1 DEF TypeOK
    <3>3. ToSet(waiting[tlock[wfor[n]]]) \subseteq Ticket
      BY <3>2 DEF ToSet
    <3> QED BY <3>2, <3>3 DEF Edges
  <2>2. CASE Len(s) + 1 >= MaxSearchDepth \/ \E u \in Edges(n) : CtxOf(u) = c
    <3>1. Found(c, n) BY <1>3, <2>2 DEF Visit
    <3> DEFINE path == [i \in 1 .. Len(stack[c]) |-> stack[c][i].node] \o <<n>>
    <3>2. [i \in 1 .. Len(stack[c]) |-> stack[c][i].node] \in Seq(Ctx)
      <4>1. stack[c] \in Seq(Frame) /\ Len(stack[c]) \in Nat BY <1>1
      <4>2. \A i \in 1 .. Len(stack[c]) : stack[c][i] \in Frame BY <4>1
      <4>3. \A i \in 1 .. Len(stack[c]) : stack[c][i].node \in Ctx BY <4>2 DEF Frame
      <4> QED BY <4>1, <4>3
    <3>3. path \in Seq(Ctx)
      BY <3>2
    <3>4. \E i \in 1 .. Len(path) : victim' = [victim EXCEPT ![c] = path[i]]
      BY <3>1 DEF Found
    <3> HIDE DEF path
    <3>5. victim' \in [Ctx -> Ctx \cup {NoCtx}]
      BY <3>3, <3>4, <1>1
    <3>6. stack' = [stack EXCEPT ![c] = <<>>] /\ pc' = [pc EXCEPT ![c] = "tell"]
      BY <3>1 DEF Found
    <3>7. stack' \in [Ctx -> Seq(Frame)]
      BY <1>1, <3>6, EmptySeq
    <3> QED BY <3>5, <3>6, <3>7
  <2>3. CASE ~(Len(s) + 1 >= MaxSearchDepth \/ \E u \in Edges(n) : CtxOf(u) = c)
    <3>1. /\ stack' = [stack EXCEPT ![c] = Append(s, [node |-> n, todo |-> Edges(n)])]
          /\ pc' = pc /\ victim' = victim
      BY <1>3, <2>3 DEF Visit
    <3>2. [node |-> n, todo |-> Edges(n)] \in Frame BY <2>1 DEF Frame
    <3>3. Append(s, [node |-> n, todo |-> Edges(n)]) \in Seq(Frame) BY <3>2
    <3>4. pc' = [pc EXCEPT ![c] = "search"] BY <3>1, <1>1
    <3> QED BY <1>1, <3>1, <3>3, <3>4
  <2> QED BY <2>2, <2>3
<1> QED BY <1>2, <1>3

\* The steps of a deadlock search.
LEMMA SearchInv ==
  ASSUME IInv, NEW c \in Ctx,
         SearchStart(c) \/ SearchFollow(c) \/ SearchLeave(c) \/ TellVictim(c)
  PROVE  IInv'
<1> USE DEF IInv, ThreadOK
<1>1. /\ stack' \in [Ctx -> Seq(Frame)]
      /\ victim' \in [Ctx -> Ctx \cup {NoCtx}]
      /\ \E p \in {"search", "tell", "wait"} : pc' = [pc EXCEPT ![c] = p]
      /\ pc[c] \in {"search", "tell", "wait"}
  <2>0. stack \in [Ctx -> Seq(Frame)] /\ victim \in [Ctx -> Ctx \cup {NoCtx}]
    BY DEF TypeOK
  <2>1. CASE SearchStart(c)
    BY <2>1, VisitFacts, EmptySeq DEF SearchStart
  <2>2. CASE SearchFollow(c)
    <3> DEFINE top == stack[c][Len(stack[c])]
    <3>1. stack[c] \in Seq(Frame) /\ stack[c] # <<>> BY <2>0, <2>2 DEF SearchFollow
    <3>2. Len(stack[c]) \in 1 .. Len(stack[c]) BY <3>1
    <3>3. top \in Frame BY <3>1, <3>2
    <3>4. PICK u \in top.todo :
             Visit(c, CtxOf(u), [stack[c] EXCEPT ![Len(stack[c])] =
                                   [node |-> top.node, todo |-> top.todo \ {u}]])
      BY <2>2 DEF SearchFollow
    <3>5. CtxOf(u) \in Ctx /\ [node |-> top.node, todo |-> top.todo \ {u}] \in Frame
      BY <3>3, <3>4 DEF Frame, Ticket, CtxOf
    <3> HIDE DEF top
    <3>6. [stack[c] EXCEPT ![Len(stack[c])] = [node |-> top.node, todo |-> top.todo \ {u}]]
            \in Seq(Frame)
      BY <3>1, <3>2, <3>5, ExceptSeq
    <3>7. pc[c] = "search" BY <2>2 DEF SearchFollow
    <3> QED BY <3>4, <3>5, <3>6, <3>7, VisitFacts
  <2>3. CASE SearchLeave(c)
    <3>1. stack[c] \in Seq(Frame) /\ stack[c] # <<>> BY <2>0, <2>3 DEF SearchLeave
    <3>2. SubSeq(stack[c], 1, Len(stack[c]) - 1) \in Seq(Frame) BY <3>1
    <3> QED BY <2>0, <2>3, <3>2 DEF SearchLeave
  <2>4. CASE TellVictim(c)
    BY <2>0, <2>4 DEF TellVictim
  <2> QED BY <2>1, <2>2, <2>3, <2>4
<1>2. /\ UNCHANGED <<tlock, ttype, listVars, hog, rw, wfor, own, call, usvp, rel, it>>
      /\ slot' \in [Ctx -> WaitStatus]
      /\ \A b \in Ctx : slot'[b] = "GRANTED" => slot[b] = "GRANTED"
  BY DEF SearchStart, SearchFollow, SearchLeave, TellVictim, TypeOK, WaitStatus
<1>3. TypeOK'
  BY <1>1, <1>2 DEF TypeOK, PcValues, listVars
<1>4. \A b \in Ctx : WforOK(b)'
  BY <1>1, <1>2 DEF WforOK, TypeOK
<1>5. \A b \in Ctx : pc'[b] = pc[b] \/ (pc[b] \in WaitPcs /\ pc'[b] \in WaitPcs)
  BY <1>1 DEF TypeOK, WaitPcs
<1> QED BY <1>2, <1>3, <1>4, <1>5, QuietInv

-----------------------------------------------------------------------------
(* Frames *)

\* What a thread relies on is not disturbed by a step of another thread that
\* leaves its own tickets alone and sets its slot to GRANTED only with a grant.
LEMMA OtherThread ==
  ASSUME IInv, NEW b \in Ctx, ThreadOK(b),
         own'[b] = own[b], call'[b] = call[b], pc'[b] = pc[b], rel'[b] = rel[b],
         it'[b] = it[b] \/ IterOK(b)', wfor'[b] = wfor[b],
         \A t \in Ticket : CtxOf(t) = b => tlock'[t] = tlock[t] /\ ttype'[t] = ttype[t],
         \A l \in Keys : \A t \in granted[l] : CtxOf(t) = b => t \in granted'[l],
         slot'[b] = "GRANTED" => slot[b] = "GRANTED" \/ call[b].cur \in granted'[Req(b).key]
  PROVE  ThreadOK(b)'
<1> USE DEF ThreadOK
<1>0. Req(b)' = Req(b) BY DEF Req
<1>1. OwnOK(b)' BY DEF OwnOK
<1>2. CallOK(b)' BY <1>0 DEF CallOK
<1>3. CurOK(b)'
  <2> SUFFICES ASSUME pc[b] \in WaitPcs PROVE CurOK(b)' BY DEF CurOK
  <2>1. Req(b).key \in Keys BY ReqType DEF BusyPcs
  <2> QED BY <1>0, <2>1 DEF CurOK
<1>4. UpgOK(b)' BY <1>0 DEF UpgOK, OwnOK
<1>5. HeldOK(b)'
  <2>1. TRANSACTION \in Durations BY DEF TRANSACTION, Durations
  <2>2. HasLock(b, call[b].svp, call[b].cur) => HasLock(b, call[b].svp, call[b].cur)'
    BY DEF HasLock, SinceSavepoint
  <2> QED BY <1>0, <2>1, <2>2 DEF HeldOK, OwnOK, Has
<1>6. RelOK(b)' /\ IterOK(b)' /\ WforOK(b)' BY DEF RelOK, IterOK, WforOK
<1> QED BY <1>1, <1>2, <1>3, <1>4, <1>5, <1>6

\* A ticket that does not exist is in no list and no call waits for it.
LEMMA NewTicketFacts ==
  ASSUME IInv, NEW c \in Ctx, NEW t \in Ticket, NewTicket(c, t)
  PROVE  /\ CtxOf(t) = c /\ tlock[t] = NoKey
         /\ \A l \in Keys : t \notin granted[l] /\ ~In(waiting[l], t)
         /\ \A b \in Ctx : ~Has(own[b], t)
<1> USE DEF IInv, ThreadOK
<1>1. CtxOf(t) = c /\ tlock[t] = NoKey /\ NoKey \notin Keys
  BY KeyAssumption DEF NewTicket
<1>2. \A l \in Keys : t \notin granted[l] /\ ~In(waiting[l], t)
  BY <1>1 DEF GrantedOK, WaitingOK
<1>3. \A b \in Ctx : ~Has(own[b], t)
  BY <1>1 DEF OwnOK
<1> QED BY <1>1, <1>2, <1>3

\* A ticket of type y on l for c would be compatible with those of others.
Safe(c, l, y) == \A u \in granted[l] : CtxOf(u) # c => ttype[u] \notin GrantedIncompat(l, y)

\* can_grant_lock() answers yes only if the lock is compatible.
LEMMA CanGrantIsSafe ==
  ASSUME IInv, NEW c \in Ctx, NEW l \in Keys, NEW y \in LockTypes, NEW p,
         CanGrantLock(l, y, c, p)
  PROVE  Safe(c, l, y)
BY DEF IInv, BitmapsExact, TypesOf, CanGrantLock, Safe

\* A ticket may be added beside one of the same context that is as strong.
LEMMA StrongerIsSafe ==
  ASSUME IInv, NEW c \in Ctx, NEW l \in Keys, NEW y \in LockTypes, NEW t \in granted[l],
         CtxOf(t) = c, HasStrongerOrEqualType(l, ttype[t], y)
  PROVE  Safe(c, l, y)
<1> SUFFICES ASSUME NEW u \in granted[l], CtxOf(u) # c PROVE ttype[u] \notin GrantedIncompat(l, y)
  BY DEF Safe
<1>1. ttype[u] \notin GrantedIncompat(l, ttype[t])
  BY DEF IInv, Compatible
<1> QED BY <1>1 DEF HasStrongerOrEqualType

\* A ticket of a safe type, new in m_granted or with a new type there, keeps
\* the lock compatible.
LEMMA CompatibleKept ==
  ASSUME IInv, NEW l \in Keys, NEW t \in Ticket, NEW y \in LockTypes, Safe(CtxOf(t), l, y),
         \A k \in Keys : granted'[k] \subseteq Ticket,
         granted'[l] \subseteq granted[l] \cup {t},
         \A k \in Keys : k # l => granted'[k] \subseteq granted[k],
         \A k \in Keys : k # l => t \notin granted'[k],
         \A k \in Keys : \A u \in granted'[k] : u # t => ttype'[u] = ttype[u],
         ttype'[t] = y
  PROVE  Compatible'
<1> SUFFICES ASSUME NEW k \in Keys, NEW u \in granted'[k], NEW v \in granted'[k],
                    CtxOf(u) # CtxOf(v)
             PROVE  ttype'[u] \notin GrantedIncompat(k, ttype'[v])
  BY DEF Compatible
<1>0. ttype \in [Ticket -> LockTypes] /\ u \in Ticket /\ v \in Ticket BY DEF IInv, TypeOK
<1>1. CASE u # t /\ v # t
  <2>1. u \in granted[k] /\ v \in granted[k] BY <1>1
  <2>2. ttype'[u] = ttype[u] /\ ttype'[v] = ttype[v] BY <1>1
  <2> QED BY <2>1, <2>2 DEF IInv, Compatible
<1>2. CASE v = t
  <2>1. k = l /\ u \in granted[l] /\ u # t BY <1>2
  <2>2. ttype'[u] = ttype[u] BY <2>1
  <2> QED BY <1>2, <2>1, <2>2 DEF Safe
<1>3. CASE u = t
  <2>1. k = l /\ v \in granted[l] /\ v # t BY <1>3
  <2>2. ttype'[v] = ttype[v] /\ ttype[v] \in LockTypes BY <1>0, <2>1
  <2>3. ttype[v] \notin GrantedIncompat(l, y) BY <1>3, <2>1 DEF Safe
  <2> QED BY <1>3, <2>1, <2>2, <2>3, MatrixSymmetric
<1> QED BY <1>1, <1>2, <1>3

-----------------------------------------------------------------------------
(* Acquiring *)

\* The call k of c is fit to go on with its first request.
Asks(c, k) ==
    /\ k \in CallRecord /\ k.reqs # <<>>
    /\ k.op \in {"upgrade", "handler"} => Head(k.reqs).dur = TRANSACTION
    /\ k.op = "upgrade" =>
          /\ k.upg \in Ticket /\ Has(own[c], k.upg) /\ tlock[k.upg] = Head(k.reqs).key
          /\ ~HasStrongerOrEqualType(Head(k.reqs).key, ttype[k.upg], Head(k.reqs).type)
          /\ HasStrongerOrEqualType(Head(k.reqs).key, Head(k.reqs).type, ttype[k.upg])

\* The first request of such a call.
LEMMA AsksType ==
  ASSUME NEW c \in Ctx, NEW k, Asks(c, k)
  PROVE  /\ Head(k.reqs) \in Request /\ Head(k.reqs).key \in Keys
         /\ Head(k.reqs).type \in LockTypes /\ Head(k.reqs).dur \in Durations
<1>1. k.reqs \in Seq(Request) /\ k.reqs # <<>>
  BY DEF Asks, CallRecord
<1>2. Head(k.reqs) \in Request
  BY <1>1, HeadTailProperties
<1> QED BY <1>2 DEF Request

\* The end of an acquisition by ticket t leaves the thread in a good state.
LEMMA AcquiredFacts ==
  ASSUME IInv, NEW c \in Ctx, NEW k, Asks(c, k), NEW t \in Ticket, Acquired(c, k, t),
         In(own'[c][Head(k.reqs).dur], t), tlock'[t] = Head(k.reqs).key,
         HasStrongerOrEqualType(Head(k.reqs).key, ttype'[t], Head(k.reqs).type),
         \/ ttype'[t] = Head(k.reqs).type
         \/ own' = own /\ (k.op = "upgrade" => HasLock(c, k.svp, t)),
         \A u \in Ticket : Has(own[c], u) =>
            Has(own'[c], u) /\ tlock'[u] = tlock[u] /\ ttype'[u] = ttype[u]
  PROVE  /\ call' \in [Ctx -> CallRecord] /\ pc' \in [Ctx -> PcValues]
         /\ \A b \in Ctx \ {c} : call'[b] = call[b] /\ pc'[b] = pc[b]
         /\ pc'[c] \in {"idle", "acquire", "upgrade", "handler"}
         /\ CallOK(c)' /\ UpgOK(c)' /\ HeldOK(c)'
<1> DEFINE more == Len(k.reqs) > 1
<1>0. /\ call \in [Ctx -> CallRecord] /\ pc \in [Ctx -> PcValues]
      /\ k \in CallRecord /\ k.reqs \in Seq(Request) /\ k.reqs # <<>>
  BY DEF IInv, TypeOK, Asks, CallRecord
<1>1. CASE k.op \in {"upgrade", "handler"}
  <2>1. call' = [call EXCEPT ![c] = [k EXCEPT !.cur = t]] /\ pc' = [pc EXCEPT ![c] = k.op]
    BY <1>1 DEF Acquired
  <2>2. [k EXCEPT !.cur = t] \in CallRecord /\ k.op \in PcValues
    BY <1>0, <1>1 DEF CallRecord, PcValues
  <2>3. /\ call'[c].reqs = k.reqs /\ call'[c].op = k.op /\ call'[c].upg = k.upg
        /\ call'[c].cur = t /\ call'[c].svp = k.svp /\ pc'[c] = k.op
    BY <1>0, <2>1 DEF CallRecord
  <2>4. Req(c)' = Head(k.reqs)
    BY <2>3 DEF Req
  <2>5. CallOK(c)'
    BY <1>0, <1>1, <2>3, <2>4 DEF CallOK, Asks
  <2>6. HeldOK(c)'
    <3>1. k.op = "upgrade" => ttype'[t] = Head(k.reqs).type \/ HasLock(c, call[c].svp, t)'
      BY <2>3 DEF HasLock, SinceSavepoint
    <3> QED BY <1>1, <2>3, <2>4, <3>1 DEF HeldOK, Asks
  <2>7. UpgOK(c)'
    BY <2>3, <2>4 DEF UpgOK, Asks
  <2> QED BY <1>0, <1>1, <2>1, <2>2, <2>3, <2>5, <2>6, <2>7
<1>2. CASE k.op = "list" /\ more
  <2>1. /\ call' = [call EXCEPT ![c] = [k EXCEPT !.reqs = Tail(k.reqs), !.cur = NoTicket]]
        /\ pc' = [pc EXCEPT ![c] = "acquire"]
    BY <1>2 DEF Acquired
  <2>2. Tail(k.reqs) \in Seq(Request) /\ Tail(k.reqs) # <<>>
    BY <1>0, <1>2, TailNotEmpty
  <2>3. [k EXCEPT !.reqs = Tail(k.reqs), !.cur = NoTicket] \in CallRecord
    BY <1>0, <2>2 DEF CallRecord
  <2>4. call'[c].reqs = Tail(k.reqs) /\ call'[c].op = "list" /\ pc'[c] = "acquire"
    BY <1>0, <1>2, <2>1 DEF CallRecord
  <2>5. CallOK(c)' /\ UpgOK(c)' /\ HeldOK(c)'
    BY <2>2, <2>4 DEF CallOK, UpgOK, HeldOK, WaitPcs
  <2> QED BY <1>0, <2>1, <2>3, <2>4, <2>5 DEF PcValues
<1>3. CASE k.op \notin {"upgrade", "handler"} /\ ~(k.op = "list" /\ more)
  <2>1. call' = [call EXCEPT ![c] = NoCall] /\ pc' = [pc EXCEPT ![c] = "idle"]
    BY <1>3 DEF Acquired
  <2>2. NoCall \in CallRecord
    BY EmptySeq DEF NoCall, CallRecord, OpValues, NoSavepoint, Savepoint
  <2>3. CallOK(c)' /\ UpgOK(c)' /\ HeldOK(c)'
    BY <1>0, <2>1 DEF CallOK, UpgOK, HeldOK, WaitPcs, BusyPcs
  <2> QED BY <1>0, <2>1, <2>2, <2>3 DEF PcValues
<1> QED BY <1>1, <1>2, <1>3

\* A new granted ticket: what the step does to the tickets of its context.
LEMMA GrantNewFacts ==
  ASSUME IInv, NEW c \in Ctx, NEW l \in Keys, NEW y \in LockTypes, NEW d \in Durations,
         NEW t \in Ticket, NewTicket(c, t), AddGranted(t, l, y), PushFront(c, d, t)
  PROVE  /\ own' \in [Ctx -> [Durations -> Seq(Ticket)]] /\ Inj(own'[c]) /\ In(own'[c][d], t)
         /\ \A u \in Ticket : Has(own'[c], u) <=> Has(own[c], u) \/ u = t
         /\ \A b \in Ctx \ {c} : own'[b] = own[b]
         /\ tlock'[t] = l /\ ttype'[t] = y
         /\ \A u \in Ticket \ {t} : tlock'[u] = tlock[u] /\ ttype'[u] = ttype[u]
         /\ ~Has(own[c], t)
<1>1. own \in [Ctx -> [Durations -> Seq(Ticket)]] /\ Inj(own[c]) /\ ~Has(own[c], t)
  BY NewTicketFacts DEF IInv, TypeOK, ThreadOK, OwnOK
<1>2. own' = [own EXCEPT ![c] = [own[c] EXCEPT ![d] = <<t>> \o @]]
  BY <1>1 DEF PushFront
<1> DEFINE p == [own[c] EXCEPT ![d] = <<t>> \o @]
<1>3. /\ p \in [Durations -> Seq(Ticket)] /\ Inj(p) /\ In(p[d], t)
      /\ \A u \in Ticket : Has(p, u) <=> Has(own[c], u) \/ u = t
  BY <1>1, OwnPush
<1> HIDE DEF p
<1>4. own' = [own EXCEPT ![c] = p] BY <1>2 DEF p
<1>5. own'[c] = p /\ \A b \in Ctx \ {c} : own'[b] = own[b] BY <1>1, <1>4
<1>6. /\ tlock'[t] = l /\ ttype'[t] = y
      /\ \A u \in Ticket \ {t} : tlock'[u] = tlock[u] /\ ttype'[u] = ttype[u]
  BY DEF IInv, TypeOK, AddGranted
<1>7. own' \in [Ctx -> [Durations -> Seq(Ticket)]] BY <1>1, <1>3, <1>4
<1> QED BY <1>1, <1>3, <1>5, <1>6, <1>7

\* A step that grants a new ticket at once keeps the invariant.
LEMMA GrantNewInv ==
  ASSUME IInv, NEW c \in Ctx, NEW l \in Keys, NEW y \in LockTypes, NEW d \in Durations,
         NEW t \in Ticket, NewTicket(c, t), AddGranted(t, l, y), PushFront(c, d, t),
         Safe(c, l, y),
         UNCHANGED <<waiting, wbits, hog, rw, slot, wfor, usvp, rel, it, srchVars>>,
         pc[c] \notin WaitPcs \cup {"release", "resched"},
         call' \in [Ctx -> CallRecord], pc' \in [Ctx -> PcValues],
         \A b \in Ctx \ {c} : call'[b] = call[b] /\ pc'[b] = pc[b],
         pc'[c] \in {"idle", "acquire", "upgrade", "handler"},
         CallOK(c)', UpgOK(c)', HeldOK(c)'
  PROVE  IInv'
<1>0. /\ CtxOf(t) = c /\ tlock[t] = NoKey
      /\ \A k \in Keys : t \notin granted[k] /\ ~In(waiting[k], t)
      /\ \A b \in Ctx : ~Has(own[b], t)
  BY NewTicketFacts
<1>1. /\ own' \in [Ctx -> [Durations -> Seq(Ticket)]] /\ Inj(own'[c]) /\ In(own'[c][d], t)
      /\ \A u \in Ticket : Has(own'[c], u) <=> Has(own[c], u) \/ u = t
      /\ \A b \in Ctx \ {c} : own'[b] = own[b]
      /\ tlock'[t] = l /\ ttype'[t] = y
      /\ \A u \in Ticket \ {t} : tlock'[u] = tlock[u] /\ ttype'[u] = ttype[u]
  BY GrantNewFacts
<1>2. /\ granted'[l] = granted[l] \cup {t} /\ gbits'[l] = gbits[l] \cup {y}
      /\ \A k \in Keys \ {l} : granted'[k] = granted[k] /\ gbits'[k] = gbits[k]
      /\ \A k \in Keys : granted[k] \subseteq Ticket /\ waiting[k] \in Seq(Ticket)
  BY DEF IInv, TypeOK, AddGranted
<1>3. TypeOK'
  BY <1>1 DEF IInv, TypeOK, AddGranted, srchVars
<1>4. GrantedOK'
  <2> SUFFICES ASSUME NEW k \in Keys, NEW u \in granted'[k] PROVE tlock'[u] = k
    BY DEF GrantedOK
  <2>1. CASE u = t BY <1>0, <1>1, <1>2, <2>1
  <2>2. CASE u # t
    <3>1. u \in granted[k] /\ u \in Ticket BY <1>2, <2>2
    <3> QED BY <1>1, <2>2, <3>1 DEF IInv, GrantedOK
  <2> QED BY <2>1, <2>2
<1>5. WaitingOK'
  <2> SUFFICES ASSUME NEW k \in Keys, NEW u \in Ticket, In(waiting[k], u)
               PROVE  /\ tlock'[u] = k /\ u \notin granted'[k]
                      /\ call'[CtxOf(u)].cur = u /\ pc'[CtxOf(u)] \in WaitPcs
    BY DEF IInv, WaitingOK
  <2>1. /\ tlock[u] = k /\ u \notin granted[k]
        /\ call[CtxOf(u)].cur = u /\ pc[CtxOf(u)] \in WaitPcs
    BY DEF IInv, WaitingOK
  <2>2. u # t /\ CtxOf(u) # c /\ CtxOf(u) \in Ctx
    BY <1>0, <2>1 DEF Ticket, CtxOf
  <2> QED BY <1>1, <1>2, <2>1, <2>2, ZenonT(40)
<1>6. BitmapsExact'
  <2>1. \A k \in Keys : \A u \in granted[k] : ttype'[u] = ttype[u]
    BY <1>0, <1>1, <1>2
  <2>2. \A k \in Keys : \A u \in ToSet(waiting[k]) : ttype'[u] = ttype[u]
    <3> SUFFICES ASSUME NEW k \in Keys, NEW u \in ToSet(waiting[k]) PROVE u \in Ticket \ {t}
      BY <1>1
    <3>1. In(waiting[k], u) /\ u \in Ticket BY <1>2 DEF ToSet, In
    <3> QED BY <3>1, <1>0
  <2>3. ASSUME NEW k \in Keys PROVE gbits'[k] = {ttype'[u] : u \in granted'[k]}
    <3>1. gbits[k] = {ttype[u] : u \in granted[k]} BY DEF IInv, BitmapsExact, TypesOf
    <3>2. {ttype[u] : u \in granted[k]} = {ttype'[u] : u \in granted[k]} BY <2>1
    <3>3. CASE k # l BY <1>2, <3>1, <3>2, <3>3
    <3>4. CASE k = l
      <4>1. {ttype'[u] : u \in granted[l] \cup {t}} = {ttype'[u] : u \in granted[l]} \cup {ttype'[t]}
        OBVIOUS
      <4> QED BY <1>1, <1>2, <3>1, <3>2, <3>4, <4>1
    <3> QED BY <3>3, <3>4
  <2>4. ASSUME NEW k \in Keys PROVE wbits'[k] = {ttype'[u] : u \in ToSet(waiting[k])}
    BY <2>2 DEF IInv, BitmapsExact, TypesOf
  <2> QED BY <2>3, <2>4 DEF BitmapsExact, TypesOf
<1>7. Compatible'
  <2>1. \A k \in Keys : granted'[k] \subseteq Ticket BY <1>2
  <2>2. \A k \in Keys : \A u \in granted'[k] : u # t => ttype'[u] = ttype[u] BY <1>1, <2>1
  <2>3. \A k \in Keys : k # l => granted'[k] \subseteq granted[k] /\ t \notin granted'[k]
    BY <1>0, <1>2
  <2>4. Safe(CtxOf(t), l, y) /\ granted'[l] \subseteq granted[l] \cup {t} /\ ttype'[t] = y
    BY <1>0, <1>1, <1>2
  <2> QED BY <2>1, <2>2, <2>3, <2>4, CompatibleKept
<1>8. ThreadOK(c)'
  <2>1. OwnOK(c)'
    BY <1>0, <1>1, <1>2 DEF IInv, ThreadOK, OwnOK
  <2>2. CurOK(c)' /\ IterOK(c)'
    BY DEF CurOK, IterOK, WaitPcs
  <2>3. WforOK(c)'
    BY DEF IInv, ThreadOK, WforOK, WaitPcs
  <2>4. RelOK(c)'
    BY <1>1 DEF IInv, ThreadOK, RelOK
  <2> QED BY <2>1, <2>2, <2>3, <2>4 DEF ThreadOK
<1>9. ASSUME NEW b \in Ctx \ {c} PROVE ThreadOK(b)'
  <2>1. \A u \in Ticket : CtxOf(u) = b => tlock'[u] = tlock[u] /\ ttype'[u] = ttype[u]
    BY <1>0, <1>1
  <2>2. \A k \in Keys : \A u \in granted[k] : u \in granted'[k] BY <1>2
  <2>3. ThreadOK(b) BY DEF IInv
  <2> QED BY <1>1, <2>1, <2>2, <2>3, OtherThread
<1> QED BY <1>3, <1>4, <1>5, <1>6, <1>7, <1>8, <1>9 DEF IInv

\* A step of c that changes neither locks nor slots.
LEMMA LocalInv ==
  ASSUME IInv, TypeOK', NEW c \in Ctx, UNCHANGED <<tlock, ttype, listVars, slot>>,
         \A b \in Ctx \ {c} : /\ own'[b] = own[b] /\ call'[b] = call[b] /\ pc'[b] = pc[b]
                              /\ rel'[b] = rel[b] /\ it'[b] = it[b] /\ wfor'[b] = wfor[b],
         \A l \in Keys : \A t \in Ticket : In(waiting[l], t) => CtxOf(t) # c,
         ThreadOK(c)'
  PROVE  IInv'
<1> USE DEF listVars
<1>1. GrantedOK' /\ BitmapsExact' /\ Compatible'
  BY DEF IInv, GrantedOK, BitmapsExact, Compatible, TypesOf
<1>2. WaitingOK'
  <2> SUFFICES ASSUME NEW l \in Keys, NEW t \in Ticket, In(waiting[l], t)
               PROVE  call'[CtxOf(t)] = call[CtxOf(t)] /\ pc'[CtxOf(t)] = pc[CtxOf(t)]
    BY DEF IInv, WaitingOK
  <2>1. CtxOf(t) \in Ctx \ {c} BY DEF CtxOf, Ticket
  <2> QED BY <2>1
<1>3. ASSUME NEW b \in Ctx \ {c} PROVE ThreadOK(b)'
  <2>1. ThreadOK(b) BY DEF IInv
  <2> QED BY <2>1, OtherThread
<1> QED BY <1>1, <1>2, <1>3 DEF IInv

\* A thread that is not waiting has no ticket in a queue.
LEMMA NotWaiting ==
  ASSUME IInv, NEW c \in Ctx, pc[c] \notin WaitPcs
  PROVE  \A l \in Keys : \A t \in Ticket : In(waiting[l], t) => CtxOf(t) # c
BY DEF IInv, WaitingOK

\* The savepoint of a call is taken when it starts.
FreshSavepoint(c, k) ==
    IF pc[c] = "acquire" THEN k = call[c]
    ELSE k.op \in {"list", "handler", "upgrade"} => k.svp = MdlSavepoint(c)

\* Nothing is newer than a savepoint just taken.
LEMMA NothingSince ==
  ASSUME IInv, NEW c \in Ctx
  PROVE  \A t : HasLock(c, MdlSavepoint(c), t)
<1>1. /\ own[c][STATEMENT] \in Seq(Ticket) /\ SeqInj(own[c][STATEMENT])
      /\ own[c][TRANSACTION] \in Seq(Ticket) /\ SeqInj(own[c][TRANSACTION])
  BY DEF IInv, TypeOK, ThreadOK, OwnOK, Inj, Durations, STATEMENT, TRANSACTION
<1>2. ASSUME NEW s \in Seq(Ticket), SeqInj(s) PROVE StoredBefore(s, FrontTicket(s)) = <<>>
  <2>1. CASE s = <<>> BY <2>1 DEF StoredBefore
  <2>2. CASE s # <<>>
    <3>1. Len(s) \in Nat /\ 1 \in 1 .. Len(s) /\ FrontTicket(s) = s[1]
      BY <2>2 DEF FrontTicket
    <3>2. (CHOOSE i \in 1 .. Len(s) : s[i] = s[1]) = 1
      <4>1. (CHOOSE i \in 1 .. Len(s) : s[i] = s[1]) \in 1 .. Len(s)
            /\ s[CHOOSE i \in 1 .. Len(s) : s[i] = s[1]] = s[1]
        BY <3>1
      <4> QED BY <1>2, <3>1, <4>1 DEF SeqInj
    <3>3. StoredBefore(s, FrontTicket(s)) = SubSeq(s, 1, 1 - 1)
      BY <3>1, <3>2 DEF StoredBefore
    <3> QED BY <3>1, <3>3
  <2> QED BY <2>1, <2>2
<1>3. SinceSavepoint(c, MdlSavepoint(c)) = <<>> \o <<>>
  BY <1>1, <1>2 DEF SinceSavepoint, MdlSavepoint
<1>4. ToSet(<<>> \o <<>>) = {} BY DEF ToSet
<1> QED BY <1>3, <1>4 DEF HasLock

\* try_acquire_lock_impl() finds a ticket to reuse.
LEMMA ReuseInv ==
  ASSUME IInv, NEW c \in Ctx, NEW k, Asks(c, k), FreshSavepoint(c, k),
         pc[c] \in {"idle", "acquire"}, ReuseTicket(c, k, Head(k.reqs))
  PROVE  IInv'
<1> DEFINE r == Head(k.reqs)
<1>0. /\ r \in Request /\ r.key \in Keys /\ r.type \in LockTypes /\ r.dur \in Durations
  BY AsksType
<1> HIDE DEF r
<1>1. PICK i \in 1 .. Len(own[c][r.dur]) :
         Serves(r, own[c][r.dur][i]) /\ Acquired(c, k, own[c][r.dur][i])
  BY DEF ReuseTicket, FindTicket, r
<1> DEFINE t == own[c][r.dur][i]
<1>2. own[c][r.dur] \in Seq(Ticket) BY <1>0 DEF IInv, TypeOK
<1>3. t \in Ticket /\ In(own[c][r.dur], t) BY <1>2 DEF In
<1>4. UNCHANGED <<tlock, ttype, listVars, hog, rw, slot, wfor, own, usvp, rel, it, srchVars>>
  BY DEF ReuseTicket
<1>5. tlock[t] = r.key /\ HasStrongerOrEqualType(r.key, ttype[t], r.type) BY <1>1 DEF Serves
<1> HIDE DEF t
<1>a. Acquired(c, k, t) BY <1>1 DEF t
<1>6. /\ call' \in [Ctx -> CallRecord] /\ pc' \in [Ctx -> PcValues]
      /\ \A b \in Ctx \ {c} : call'[b] = call[b] /\ pc'[b] = pc[b]
      /\ pc'[c] \in {"idle", "acquire", "upgrade", "handler"}
      /\ CallOK(c)' /\ UpgOK(c)' /\ HeldOK(c)'
  <2>1. k.op = "upgrade" => HasLock(c, k.svp, t)
    <3>1. pc[c] = "acquire" => k.op = "list"
      BY DEF FreshSavepoint, IInv, ThreadOK, CallOK, BusyPcs
    <3> QED BY <3>1, NothingSince DEF FreshSavepoint
  <2> QED BY <1>a, <1>3, <1>4, <1>5, <2>1, AcquiredFacts DEF r
<1>7. TypeOK' BY <1>4, <1>6 DEF IInv, TypeOK, listVars, srchVars
<1>8. ThreadOK(c)'
  <2>1. OwnOK(c)' BY <1>4 DEF IInv, ThreadOK, OwnOK, listVars
  <2>2. CurOK(c)' /\ IterOK(c)' BY <1>6 DEF CurOK, IterOK, WaitPcs
  <2>3. WforOK(c)' BY <1>4 DEF IInv, ThreadOK, WforOK
  <2>4. RelOK(c)' BY <1>4, <1>6 DEF IInv, ThreadOK, RelOK
  <2> QED BY <1>6, <2>1, <2>2, <2>3, <2>4 DEF ThreadOK
<1>9. pc[c] \notin WaitPcs BY DEF WaitPcs
<1> QED BY <1>4, <1>6, <1>7, <1>8, <1>9, NotWaiting, LocalInv

\* clone_ticket() or an immediate grant.
LEMMA GrantInv ==
  ASSUME IInv, NEW c \in Ctx, NEW k, Asks(c, k), pc[c] \in {"idle", "acquire"},
         CloneTicket(c, k, Head(k.reqs)) \/ GrantAtOnce(c, k, Head(k.reqs))
  PROVE  IInv'
<1> DEFINE r == Head(k.reqs)
<1>0. /\ r \in Request /\ r.key \in Keys /\ r.type \in LockTypes /\ r.dur \in Durations
  BY AsksType
<1>1. Safe(c, r.key, r.type)
  <2>1. CASE CloneTicket(c, k, r)
    <3>1. PICK d \in Durations : \E i \in 1 .. Len(own[c][d]) : Serves(r, own[c][d][i])
      BY <2>1 DEF CloneTicket, FindTicket
    <3>2. PICK i \in 1 .. Len(own[c][d]) : Serves(r, own[c][d][i])
      BY <3>1
    <3>3. own[c][d] \in Seq(Ticket) BY DEF IInv, TypeOK
    <3>4. own[c][d][i] \in Ticket /\ Has(own[c], own[c][d][i]) BY <3>3 DEF Has, In
    <3>5. CtxOf(own[c][d][i]) = c /\ own[c][d][i] \in granted[tlock[own[c][d][i]]]
      BY <3>4 DEF IInv, ThreadOK, OwnOK
    <3> QED BY <1>0, <3>2, <3>5, StrongerIsSafe DEF Serves
  <2>2. CASE GrantAtOnce(c, k, r)
    BY <1>0, <2>2, CanGrantIsSafe DEF GrantAtOnce
  <2> QED BY <2>1, <2>2
<1>2. PICK t \in Ticket : /\ NewTicket(c, t) /\ AddGranted(t, r.key, r.type)
                          /\ PushFront(c, r.dur, t) /\ Acquired(c, k, t)
  BY DEF CloneTicket, GrantAtOnce
<1>3. UNCHANGED <<waiting, wbits, hog, rw, slot, wfor, usvp, rel, it, srchVars>>
  BY DEF CloneTicket, GrantAtOnce
<1> HIDE DEF r
<1>4. /\ In(own'[c][r.dur], t) /\ tlock'[t] = r.key /\ ttype'[t] = r.type
      /\ \A u \in Ticket : Has(own[c], u) =>
            Has(own'[c], u) /\ tlock'[u] = tlock[u] /\ ttype'[u] = ttype[u]
  BY <1>0, <1>2, GrantNewFacts
<1>5. HasStrongerOrEqualType(r.key, ttype'[t], r.type)
  BY <1>4 DEF HasStrongerOrEqualType
<1>6. /\ call' \in [Ctx -> CallRecord] /\ pc' \in [Ctx -> PcValues]
      /\ \A b \in Ctx \ {c} : call'[b] = call[b] /\ pc'[b] = pc[b]
      /\ pc'[c] \in {"idle", "acquire", "upgrade", "handler"}
      /\ CallOK(c)' /\ UpgOK(c)' /\ HeldOK(c)'
  BY <1>2, <1>4, <1>5, AcquiredFacts DEF r
<1>7. pc[c] \notin WaitPcs \cup {"release", "resched"} BY DEF WaitPcs
<1> QED BY <1>0, <1>1, <1>2, <1>3, <1>6, <1>7, GrantNewInv

\* acquire_lock() joins the queue.
LEMMA EnqueueInv ==
  ASSUME IInv, NEW c \in Ctx, NEW k, Asks(c, k), pc[c] \in {"idle", "acquire"},
         Enqueue(c, k, Head(k.reqs))
  PROVE  IInv'
<1> DEFINE r == Head(k.reqs)
<1>0. /\ r \in Request /\ r.key \in Keys /\ r.type \in LockTypes /\ r.dur \in Durations
      /\ k \in CallRecord /\ k.reqs # <<>>
  BY AsksType DEF Asks
<1>1. PICK t \in Ticket :
         /\ NewTicket(c, t)
         /\ tlock' = [tlock EXCEPT ![t] = r.key]
         /\ ttype' = [ttype EXCEPT ![t] = r.type]
         /\ waiting' = [waiting EXCEPT ![r.key] = Append(@, t)]
         /\ wbits' = [wbits EXCEPT ![r.key] = @ \cup {r.type}]
         /\ call' = [call EXCEPT ![c] = [k EXCEPT !.cur = t]]
  BY DEF Enqueue
<1>2. /\ slot' = [slot EXCEPT ![c] = "EMPTY"]
      /\ pc' = [pc EXCEPT ![c] = "willwait"]
      /\ UNCHANGED <<granted, gbits, hog, rw, wfor, own, usvp, rel, it, srchVars>>
  BY DEF Enqueue
<1>3. /\ CtxOf(t) = c /\ tlock[t] = NoKey
      /\ \A l \in Keys : t \notin granted[l] /\ ~In(waiting[l], t)
      /\ \A b \in Ctx : ~Has(own[b], t)
  BY <1>1, NewTicketFacts
<1>4. /\ call'[c].cur = t /\ call'[c].reqs = k.reqs /\ call'[c].op = k.op
      /\ call'[c].upg = k.upg /\ [k EXCEPT !.cur = t] \in CallRecord
  BY <1>0, <1>1 DEF IInv, TypeOK, CallRecord
<1>a. Req(c)' = r BY <1>4 DEF Req
<1>b. waiting[r.key] \in Seq(Ticket) /\ SeqInj(waiting[r.key]) /\ ~In(waiting[r.key], t)
  BY <1>0, <1>3 DEF IInv, TypeOK, WaitingOK
<1>c. /\ Append(waiting[r.key], t) \in Seq(Ticket)
      /\ SeqInj(Append(waiting[r.key], t))
      /\ \A u : In(Append(waiting[r.key], t), u) <=> In(waiting[r.key], u) \/ u = t
  BY <1>b, AppendIn
<1>5. TypeOK'
  BY <1>0, <1>1, <1>2, <1>4, <1>c DEF IInv, TypeOK, PcValues, WaitStatus, srchVars
<1>d. /\ tlock'[t] = r.key /\ ttype'[t] = r.type
      /\ \A u \in Ticket \ {t} : tlock'[u] = tlock[u] /\ ttype'[u] = ttype[u]
      /\ waiting'[r.key] = Append(waiting[r.key], t)
      /\ \A l \in Keys \ {r.key} : waiting'[l] = waiting[l] /\ wbits'[l] = wbits[l]
      /\ wbits'[r.key] = wbits[r.key] \cup {r.type}
      /\ pc'[c] = "willwait" /\ slot'[c] = "EMPTY"
      /\ \A b \in Ctx \ {c} : call'[b] = call[b] /\ pc'[b] = pc[b] /\ slot'[b] = slot[b]
      /\ \A l \in Keys : granted[l] \subseteq Ticket /\ waiting[l] \in Seq(Ticket)
  BY <1>0, <1>1, <1>2 DEF IInv, TypeOK
<1> HIDE DEF r
<1>6. GrantedOK'
  BY <1>2, <1>3, <1>d DEF IInv, GrantedOK
<1>7. WaitingOK'
  <2>1. ASSUME NEW l \in Keys PROVE SeqInj(waiting'[l])
    <3>1. CASE l = r.key BY <1>c, <1>d, <3>1
    <3>2. CASE l # r.key BY <1>d, <3>2 DEF IInv, WaitingOK
    <3> QED BY <3>1, <3>2
  <2>2. ASSUME NEW l \in Keys, NEW u \in Ticket, In(waiting'[l], u)
        PROVE  /\ tlock'[u] = l /\ u \notin granted'[l]
               /\ call'[CtxOf(u)].cur = u /\ pc'[CtxOf(u)] \in WaitPcs
    <3>1. CASE u = t
      <4>1. l = r.key BY <1>3, <1>d, <2>2, <3>1
      <4> QED BY <1>2, <1>3, <1>4, <1>d, <3>1, <4>1 DEF WaitPcs
    <3>2. CASE u # t
      <4>1. In(waiting[l], u) BY <1>c, <1>d, <2>2, <3>2
      <4>2. /\ tlock[u] = l /\ u \notin granted[l]
            /\ call[CtxOf(u)].cur = u /\ pc[CtxOf(u)] \in WaitPcs
        BY <4>1 DEF IInv, WaitingOK
      <4>3. CtxOf(u) \in Ctx /\ CtxOf(u) # c BY <4>2 DEF CtxOf, Ticket, WaitPcs
      <4> QED BY <1>2, <1>d, <3>2, <4>2, <4>3
    <3> QED BY <3>1, <3>2
  <2> QED BY <2>1, <2>2 DEF WaitingOK
<1>8. BitmapsExact'
  <2>1. \A l \in Keys : \A u \in granted[l] : ttype'[u] = ttype[u]
    BY <1>3, <1>d
  <2>2. \A l \in Keys : \A u \in ToSet(waiting[l]) : ttype'[u] = ttype[u]
    <3> SUFFICES ASSUME NEW l \in Keys, NEW u \in ToSet(waiting[l]) PROVE u \in Ticket \ {t}
      BY <1>d
    <3>1. In(waiting[l], u) /\ u \in Ticket BY <1>d DEF ToSet, In
    <3> QED BY <3>1, <1>3
  <2>3. ASSUME NEW l \in Keys PROVE gbits'[l] = {ttype'[u] : u \in granted'[l]}
    BY <1>2, <2>1 DEF IInv, BitmapsExact, TypesOf
  <2>4. ASSUME NEW l \in Keys PROVE wbits'[l] = {ttype'[u] : u \in ToSet(waiting'[l])}
    <3>1. wbits[l] = {ttype'[u] : u \in ToSet(waiting[l])}
      BY <2>2 DEF IInv, BitmapsExact, TypesOf
    <3>2. CASE l # r.key BY <1>d, <3>1, <3>2
    <3>3. CASE l = r.key
      <4>1. ToSet(waiting'[l]) = ToSet(waiting[l]) \cup {t}
        <5>1. \A u : u \in ToSet(waiting[l]) <=> In(waiting[l], u) BY <1>d, ToSetIn
        <5>2. \A u : u \in ToSet(waiting'[l]) <=> In(waiting'[l], u) BY <1>c, <1>d, <3>3, ToSetIn
        <5> QED BY <1>c, <1>d, <3>3, <5>1, <5>2
      <4> QED BY <1>d, <3>1, <3>3, <4>1
    <3> QED BY <3>2, <3>3
  <2> QED BY <2>3, <2>4 DEF BitmapsExact, TypesOf
<1>9. Compatible'
  BY <1>2, <1>3, <1>d DEF IInv, Compatible
<1>10. ThreadOK(c)'
  <2>1. OwnOK(c)'
    BY <1>2, <1>3, <1>d DEF IInv, ThreadOK, OwnOK
  <2>2. CallOK(c)'
    BY <1>0, <1>4, <1>a, <1>d DEF CallOK, Asks, r
  <2>3. CurOK(c)'
    BY <1>2, <1>3, <1>4, <1>a, <1>d DEF CurOK
  <2>4. UpgOK(c)'
    <3>1. k.op = "upgrade" => k.upg # t BY <1>3 DEF Asks
    <3> QED BY <1>2, <1>4, <1>a, <1>d, <3>1 DEF UpgOK, Asks, r
  <2>5. HeldOK(c)' /\ IterOK(c)' BY <1>d DEF HeldOK, IterOK
  <2>6. RelOK(c)' BY <1>2, <1>d DEF IInv, ThreadOK, RelOK
  <2>7. WforOK(c)' BY <1>2 DEF IInv, ThreadOK, WforOK
  <2> QED BY <2>1, <2>2, <2>3, <2>4, <2>5, <2>6, <2>7 DEF ThreadOK
<1>11. ASSUME NEW b \in Ctx \ {c} PROVE ThreadOK(b)'
  <2>1. \A u \in Ticket : CtxOf(u) = b => tlock'[u] = tlock[u] /\ ttype'[u] = ttype[u]
    BY <1>3, <1>d
  <2>2. ThreadOK(b) BY DEF IInv
  <2> QED BY <1>2, <1>d, <2>1, <2>2, OtherThread
<1> QED BY <1>5, <1>6, <1>7, <1>8, <1>9, <1>10, <1>11 DEF IInv

\* set_lock_duration() as a step: the context holds what it held.
LEMMA MoveFacts ==
  ASSUME IInv, NEW c \in Ctx, NEW i \in 1 .. Len(own[c][TRANSACTION]),
         own' = [own EXCEPT ![c][TRANSACTION] = RemoveAt(@, i),
                            ![c][EXPLICIT] = <<own[c][TRANSACTION][i]>> \o @]
  PROVE  /\ own' \in [Ctx -> [Durations -> Seq(Ticket)]] /\ Inj(own'[c])
         /\ \A u \in Ticket : Has(own'[c], u) <=> Has(own[c], u)
         /\ \A b \in Ctx \ {c} : own'[b] = own[b]
<1> DEFINE o == own[c]
           p == [o EXCEPT ![TRANSACTION] = RemoveAt(@, i),
                          ![EXPLICIT] = <<o[TRANSACTION][i]>> \o @]
<1>1. own \in [Ctx -> [Durations -> Seq(Ticket)]] /\ o \in [Durations -> Seq(Ticket)] /\ Inj(o)
  BY DEF IInv, TypeOK, ThreadOK, OwnOK
<1>2. own' = [own EXCEPT ![c] = p] BY <1>1 DEF TRANSACTION, EXPLICIT, Durations
<1> HIDE DEF o
<1>3. /\ p \in [Durations -> Seq(Ticket)] /\ Inj(p)
      /\ \A u \in Ticket : Has(p, u) <=> Has(o, u)
  BY <1>1, OwnMove DEF o
<1> HIDE DEF p
<1> QED BY <1>1, <1>2, <1>3 DEF o

\* The removal of a ticket from a list of its context, as a step.
LEMMA RemoveFacts ==
  ASSUME IInv, NEW c \in Ctx, NEW d \in Durations, NEW i \in 1 .. Len(own[c][d]),
         own' = [own EXCEPT ![c][d] = RemoveAt(@, i)]
  PROVE  /\ own' \in [Ctx -> [Durations -> Seq(Ticket)]] /\ Inj(own'[c])
         /\ \A u \in Ticket : Has(own'[c], u) <=> Has(own[c], u) /\ u # own[c][d][i]
         /\ \A b \in Ctx \ {c} : own'[b] = own[b]
<1> DEFINE o == own[c]
           p == [o EXCEPT ![d] = RemoveAt(@, i)]
<1>1. own \in [Ctx -> [Durations -> Seq(Ticket)]] /\ o \in [Durations -> Seq(Ticket)] /\ Inj(o)
  BY DEF IInv, TypeOK, ThreadOK, OwnOK
<1>2. own' = [own EXCEPT ![c] = p] BY <1>1
<1> HIDE DEF o
<1>3. /\ p \in [Durations -> Seq(Ticket)] /\ Inj(p)
      /\ \A u \in Ticket : Has(p, u) <=> Has(o, u) /\ u # o[d][i]
  BY <1>1, OwnRemove DEF o
<1> HIDE DEF p
<1> QED BY <1>1, <1>2, <1>3 DEF o

\* The first request of a call that is fit to go on.
LEMMA AcquireInv ==
  ASSUME IInv, NEW c \in Ctx, NEW k, Asks(c, k), FreshSavepoint(c, k),
         pc[c] \in {"idle", "acquire"}, Acquire(c, k)
  PROVE  IInv'
BY ReuseInv, GrantInv, EnqueueInv DEF Acquire

\* mdl_savepoint() returns tickets of the context or NULL.
LEMMA MdlSavepointType ==
  ASSUME TypeOK, NEW c \in Ctx
  PROVE  MdlSavepoint(c) \in Savepoint
<1>1. own[c][STATEMENT] \in Seq(Ticket) /\ own[c][TRANSACTION] \in Seq(Ticket)
  BY DEF TypeOK, Durations, STATEMENT, TRANSACTION
<1>2. ASSUME NEW s \in Seq(Ticket) PROVE FrontTicket(s) \in Ticket \cup {NoTicket}
  BY DEF FrontTicket
<1> QED BY <1>1, <1>2 DEF MdlSavepoint, Savepoint

\* A call that is fit to go on makes its first request.
Asking(c) ==
    pc[c] \in {"idle", "acquire"} /\ \E k : Asks(c, k) /\ FreshSavepoint(c, k) /\ Acquire(c, k)

\* The callers with a single request.
LEMMA SingleAsks ==
  ASSUME IInv, NEW c \in Ctx, NEW r \in Requests,
         AcquireLock(c, r) \/ TryAcquireLock(c, r) \/ HandlerOpen(c, r)
  PROVE  Asking(c)
<1>0. r \in Request /\ <<r>> \in Seq(Request) /\ <<r>> # <<>> /\ Head(<<r>>) = r
  BY CallerAssumption
<1>1. MdlSavepoint(c) \in Savepoint /\ NoSavepoint \in Savepoint
  BY MdlSavepointType DEF IInv, NoSavepoint, Savepoint
<1>2. ASSUME NEW op \in {"lock", "try"}
      PROVE  /\ Asks(c, [NoCall EXCEPT !.op = op, !.reqs = <<r>>])
             /\ [NoCall EXCEPT !.op = op, !.reqs = <<r>>].op = op
  BY <1>0, <1>1 DEF Asks, NoCall, CallRecord, OpValues
<1>3. ASSUME r.dur = TRANSACTION
      PROVE  /\ Asks(c, [NoCall EXCEPT !.op = "handler", !.reqs = <<r>>, !.svp = MdlSavepoint(c)])
             /\ [NoCall EXCEPT !.op = "handler", !.reqs = <<r>>, !.svp = MdlSavepoint(c)].svp
                   = MdlSavepoint(c)
  BY <1>0, <1>1, <1>3 DEF Asks, NoCall, CallRecord, OpValues
<1>4. CASE AcquireLock(c, r)
  BY <1>2, <1>4 DEF AcquireLock, Asking, FreshSavepoint
<1>5. CASE TryAcquireLock(c, r)
  BY <1>2, <1>5 DEF TryAcquireLock, Asking, FreshSavepoint
<1>6. CASE HandlerOpen(c, r)
  BY <1>3, <1>6 DEF HandlerOpen, Asking, FreshSavepoint
<1> QED BY <1>4, <1>5, <1>6

\* acquire_locks(), its first request and the further ones.
LEMMA ListAsks ==
  ASSUME IInv, NEW c \in Ctx, AcquireNext(c) \/ \E L \in LockLists : AcquireLocks(c, L)
  PROVE  Asking(c)
<1>1. CASE AcquireNext(c)
  <2>1. /\ call[c] \in CallRecord /\ call[c].reqs # <<>> /\ call[c].op = "list"
        /\ pc[c] = "acquire"
    BY <1>1 DEF IInv, TypeOK, ThreadOK, CallOK, AcquireNext, BusyPcs
  <2>2. Asks(c, call[c]) BY <2>1 DEF Asks
  <2> QED BY <1>1, <2>1, <2>2 DEF AcquireNext, Asking, FreshSavepoint
<1>2. ASSUME NEW L \in LockLists, AcquireLocks(c, L) PROVE Asking(c)
  <2>1. L \subseteq Request /\ IsFiniteSet(L) /\ L # {}
    BY <1>2, CallerAssumption DEF AcquireLocks
  <2>2. Cardinality(L) \in Nat /\ Cardinality(L) # 0
    BY <2>1, FS_CardinalityType, FS_EmptySet
  <2>3. PICK q \in SortedByKey(L) :
           Acquire(c, [NoCall EXCEPT !.op = "list", !.reqs = q, !.svp = MdlSavepoint(c)])
    BY <1>2 DEF AcquireLocks
  <2>4. q \in [1 .. Cardinality(L) -> Request]
    BY <2>1, <2>3 DEF SortedByKey
  <2>5. q \in Seq(Request) /\ q # <<>>
    BY <2>2, <2>4
  <2>6. MdlSavepoint(c) \in Savepoint BY MdlSavepointType DEF IInv
  <2> DEFINE k == [NoCall EXCEPT !.op = "list", !.reqs = q, !.svp = MdlSavepoint(c)]
  <2>7. Asks(c, k) /\ k.svp = MdlSavepoint(c)
    BY <2>5, <2>6 DEF Asks, NoCall, CallRecord, OpValues
  <2>8. Acquire(c, k) /\ pc[c] = "idle" BY <1>2, <2>3 DEF AcquireLocks
  <2> HIDE DEF k
  <2> QED BY <2>7, <2>8 DEF Asking, FreshSavepoint
<1> QED BY <1>1, <1>2

\* upgrade_shared_lock() requests its stronger lock.
LEMMA UpgradeAsks ==
  ASSUME IInv, NEW c \in Ctx, UpgradeSharedLock(c)
  PROVE  Asking(c)
<1>1. PICK d \in Durations : \E i \in 1 .. Len(own[c][d]) : \E p \in UpgradePairs :
          LET t == own[c][d][i]
          IN /\ tlock[t] \in ObjectKeys
             /\ ttype[t] = p[1]
             /\ ~HasStrongerOrEqualType(tlock[t], ttype[t], p[2])
             /\ Acquire(c, [op |-> "upgrade", cur |-> NoTicket, upg |-> t,
                            svp |-> MdlSavepoint(c),
                            reqs |-> <<[key |-> tlock[t], type |-> p[2],
                                        dur |-> TRANSACTION]>>])
  BY DEF UpgradeSharedLock
<1>2. PICK i \in 1 .. Len(own[c][d]) : \E p \in UpgradePairs :
          LET t == own[c][d][i]
          IN /\ tlock[t] \in ObjectKeys
             /\ ttype[t] = p[1]
             /\ ~HasStrongerOrEqualType(tlock[t], ttype[t], p[2])
             /\ Acquire(c, [op |-> "upgrade", cur |-> NoTicket, upg |-> t,
                            svp |-> MdlSavepoint(c),
                            reqs |-> <<[key |-> tlock[t], type |-> p[2],
                                        dur |-> TRANSACTION]>>])
  BY <1>1
<1> DEFINE t == own[c][d][i]
<1>3. own[c][d] \in Seq(Ticket) BY DEF IInv, TypeOK
<1>4. t \in Ticket /\ Has(own[c], t) BY <1>3 DEF Has, In
<1> HIDE DEF t
<1>5. PICK p \in UpgradePairs :
          /\ tlock[t] \in ObjectKeys
          /\ ttype[t] = p[1]
          /\ ~HasStrongerOrEqualType(tlock[t], ttype[t], p[2])
          /\ Acquire(c, [op |-> "upgrade", cur |-> NoTicket, upg |-> t, svp |-> MdlSavepoint(c),
                         reqs |-> <<[key |-> tlock[t], type |-> p[2], dur |-> TRANSACTION]>>])
  BY <1>2 DEF t
<1> DEFINE r == [key |-> tlock[t], type |-> p[2], dur |-> TRANSACTION]
           k == [op |-> "upgrade", cur |-> NoTicket, upg |-> t, svp |-> MdlSavepoint(c),
                 reqs |-> <<r>>]
<1>6. r \in Request
  BY <1>5 DEF Request, Keys, UpgradePairs, LockTypes, Durations, TRANSACTION
<1>7. MdlSavepoint(c) \in Savepoint BY MdlSavepointType DEF IInv
<1>8. r.key = tlock[t] /\ r.type = p[2] /\ r.dur = TRANSACTION OBVIOUS
<1> HIDE DEF r
<1>9. <<r>> \in Seq(Request) /\ <<r>> # <<>> /\ Head(<<r>>) = r BY <1>6
<1>a. k \in CallRecord
  BY <1>4, <1>7, <1>9 DEF CallRecord, OpValues
<1>b. k.op = "upgrade" /\ k.upg = t /\ k.reqs = <<r>> /\ k.svp = MdlSavepoint(c)
  OBVIOUS
<1>c. pc[c] = "idle" /\ Acquire(c, k) BY <1>5 DEF UpgradeSharedLock, r
<1> HIDE DEF k
<1>d. HasStrongerOrEqualType(r.key, r.type, ttype[t])
  <2>1. tlock[t] \notin ScopedKeys BY <1>5, KeyAssumption
  <2> QED
    BY <1>5, <1>8, <2>1
    DEF HasStrongerOrEqualType, GrantedIncompat, ObjectGrantedIncompat, UpgradePairs
<1>e. Asks(c, k)
  BY <1>4, <1>5, <1>8, <1>9, <1>a, <1>b, <1>d DEF Asks
<1> QED BY <1>b, <1>c, <1>e DEF Asking, FreshSavepoint

\* The GRANTED end of acquire_lock().
LEMMA WaitGrantedInv ==
  ASSUME IInv, NEW c \in Ctx, WaitGranted(c)
  PROVE  IInv'
<1> DEFINE k == call[c]
           r == Head(k.reqs)
           t == k.cur
<1>0. pc[c] = "wait" /\ slot[c] = "GRANTED" /\ pc[c] \in WaitPcs /\ pc[c] \in BusyPcs
  BY DEF WaitGranted, WaitPcs, BusyPcs
<1>1. Req(c) = r BY DEF Req
<1>2. Asks(c, k)
  BY <1>0, <1>1 DEF IInv, ThreadOK, TypeOK, CallOK, UpgOK, Asks
<1>3. /\ r \in Request /\ r.key \in Keys /\ r.type \in LockTypes /\ r.dur \in Durations
  BY <1>2, AsksType
<1>4. /\ t \in Ticket /\ CtxOf(t) = c /\ tlock[t] = r.key /\ ttype[t] = r.type
      /\ ~Has(own[c], t) /\ t \in granted[r.key]
  BY <1>0, <1>1 DEF IInv, ThreadOK, CurOK
<1>5. /\ wfor' = [wfor EXCEPT ![c] = NoTicket] /\ PushFront(c, r.dur, t) /\ Acquired(c, k, t)
      /\ UNCHANGED <<tlock, ttype, listVars, hog, rw, slot, usvp, rel, it, srchVars>>
  BY DEF WaitGranted
<1> DEFINE p == [own[c] EXCEPT ![r.dur] = <<t>> \o @]
<1>6. own \in [Ctx -> [Durations -> Seq(Ticket)]] /\ Inj(own[c])
  BY DEF IInv, TypeOK, ThreadOK, OwnOK
<1>7. own' = [own EXCEPT ![c] = p] BY <1>5, <1>6 DEF PushFront
<1>8. /\ p \in [Durations -> Seq(Ticket)] /\ Inj(p) /\ In(p[r.dur], t)
      /\ \A u \in Ticket : Has(p, u) <=> Has(own[c], u) \/ u = t
  <2> HIDE DEF r, t
  <2>1. own[c] \in [Durations -> Seq(Ticket)] BY <1>6
  <2> QED BY <1>3, <1>4, <1>6, <2>1, OwnPush
<1> HIDE DEF p
<1>9. own'[c] = p /\ \A b \in Ctx \ {c} : own'[b] = own[b] BY <1>6, <1>7
<1>10. HasStrongerOrEqualType(r.key, ttype'[t], r.type)
  BY <1>4, <1>5 DEF HasStrongerOrEqualType
<1>11. /\ call' \in [Ctx -> CallRecord] /\ pc' \in [Ctx -> PcValues]
       /\ \A b \in Ctx \ {c} : call'[b] = call[b] /\ pc'[b] = pc[b]
       /\ pc'[c] \in {"idle", "acquire", "upgrade", "handler"}
       /\ CallOK(c)' /\ UpgOK(c)' /\ HeldOK(c)'
  <2>1. /\ In(own'[c][r.dur], t) /\ tlock'[t] = r.key
        /\ \A u \in Ticket : Has(own[c], u) =>
              Has(own'[c], u) /\ tlock'[u] = tlock[u] /\ ttype'[u] = ttype[u]
    BY <1>4, <1>5, <1>8, <1>9
  <2> HIDE DEF k, t
  <2> QED BY <1>2, <1>4, <1>5, <1>10, <2>1, AcquiredFacts
<1>12. wfor' \in [Ctx -> Ticket \cup {NoTicket}] /\ wfor'[c] = NoTicket
       /\ \A b \in Ctx \ {c} : wfor'[b] = wfor[b]
  BY <1>5 DEF IInv, TypeOK
<1>13. own' \in [Ctx -> [Durations -> Seq(Ticket)]] BY <1>6, <1>7, <1>8
<1>14. TypeOK' BY <1>5, <1>11, <1>12, <1>13 DEF IInv, TypeOK, listVars, srchVars
<1>15. ThreadOK(c)'
  <2>1. OwnOK(c)' BY <1>3, <1>4, <1>5, <1>8, <1>9 DEF IInv, ThreadOK, OwnOK, listVars
  <2>2. CurOK(c)' /\ IterOK(c)' BY <1>11 DEF CurOK, IterOK, WaitPcs
  <2>3. WforOK(c)' BY <1>12 DEF WforOK
  <2>4. RelOK(c)' BY <1>0, <1>5, <1>8, <1>9, <1>11 DEF IInv, ThreadOK, RelOK
  <2> QED BY <1>11, <2>1, <2>2, <2>3, <2>4 DEF ThreadOK
<1>16. \A l \in Keys : \A u \in Ticket : In(waiting[l], u) => CtxOf(u) # c
  BY <1>4 DEF IInv, WaitingOK
<1> QED BY <1>5, <1>9, <1>11, <1>12, <1>14, <1>15, <1>16, LocalInv

\* HANDLER OPEN makes its lock explicit.
LEMMA HandlerKeepInv ==
  ASSUME IInv, NEW c \in Ctx, HandlerKeep(c)
  PROVE  IInv'
<1> DEFINE k == call[c]
           r == Head(k.reqs)
<1>0. pc[c] = "handler" /\ pc[c] \notin WaitPcs /\ pc[c] \in BusyPcs
  BY DEF HandlerKeep, WaitPcs, BusyPcs
<1>1. Req(c) = r BY DEF Req
<1>2. r.key \in Keys /\ r.type \in LockTypes BY <1>0, <1>1, ReqType
<1>3. /\ pc' = [pc EXCEPT ![c] = "idle"] /\ call' = [call EXCEPT ![c] = NoCall]
      /\ UNCHANGED <<waiting, wbits, hog, rw, slot, wfor, usvp, rel, it, srchVars>>
  BY DEF HandlerKeep
<1>4. NoCall \in CallRecord
  BY EmptySeq DEF NoCall, CallRecord, OpValues, NoSavepoint, Savepoint
<1>5. /\ call' \in [Ctx -> CallRecord] /\ pc' \in [Ctx -> PcValues]
      /\ \A b \in Ctx \ {c} : call'[b] = call[b] /\ pc'[b] = pc[b]
      /\ pc'[c] = "idle"
  BY <1>3, <1>4 DEF IInv, TypeOK, PcValues
<1>6. CallOK(c)' /\ UpgOK(c)' /\ HeldOK(c)' /\ CurOK(c)' /\ IterOK(c)'
  BY <1>5 DEF CallOK, UpgOK, HeldOK, CurOK, IterOK, WaitPcs, BusyPcs
<1>7. /\ k.cur \in Ticket /\ In(own[c][TRANSACTION], k.cur) /\ tlock[k.cur] = r.key
      /\ HasStrongerOrEqualType(r.key, ttype[k.cur], r.type)
  BY <1>0, <1>1 DEF IInv, ThreadOK, HeldOK
<1>8. CASE \E t \in Ticket : /\ NewTicket(c, t) /\ AddGranted(t, r.key, r.type)
                             /\ PushFront(c, EXPLICIT, t)
  <2>1. Has(own[c], k.cur) BY <1>7 DEF Has, Durations, TRANSACTION
  <2>2. CtxOf(k.cur) = c /\ k.cur \in granted[r.key]
    BY <1>7, <2>1 DEF IInv, ThreadOK, OwnOK
  <2>3. Safe(c, r.key, r.type) BY <1>2, <1>7, <2>2, StrongerIsSafe
  <2>4. EXPLICIT \in Durations BY DEF EXPLICIT, Durations
  <2> HIDE DEF r
  <2> QED BY <1>0, <1>2, <1>3, <1>5, <1>6, <1>8, <2>3, <2>4, GrantNewInv
<1>9. CASE /\ \E i \in 1 .. Len(own[c][TRANSACTION]) :
                 /\ own[c][TRANSACTION][i] = k.cur
                 /\ own' = [own EXCEPT ![c][TRANSACTION] = RemoveAt(@, i),
                                       ![c][EXPLICIT] = <<k.cur>> \o @]
           /\ UNCHANGED <<tlock, ttype, granted, gbits>>
  <2>1. PICK i \in 1 .. Len(own[c][TRANSACTION]) :
                 /\ own[c][TRANSACTION][i] = k.cur
                 /\ own' = [own EXCEPT ![c][TRANSACTION] = RemoveAt(@, i),
                                       ![c][EXPLICIT] = <<k.cur>> \o @]
    BY <1>9
  <2>2. /\ own' \in [Ctx -> [Durations -> Seq(Ticket)]] /\ Inj(own'[c])
        /\ \A u \in Ticket : Has(own'[c], u) <=> Has(own[c], u)
        /\ \A b \in Ctx \ {c} : own'[b] = own[b]
    BY <2>1, MoveFacts
  <2>3. TypeOK' BY <1>3, <1>5, <1>9, <2>2 DEF IInv, TypeOK, srchVars
  <2>4. ThreadOK(c)'
    <3>1. OwnOK(c)' BY <1>9, <2>2 DEF IInv, ThreadOK, OwnOK
    <3>2. WforOK(c)' BY <1>0, <1>3 DEF IInv, ThreadOK, WforOK
    <3>3. RelOK(c)' BY <1>0, <1>3, <1>5, <2>2 DEF IInv, ThreadOK, RelOK
    <3> QED BY <1>6, <3>1, <3>2, <3>3 DEF ThreadOK
  <2> QED BY <1>0, <1>3, <1>5, <1>9, <2>2, <2>3, <2>4, NotWaiting, LocalInv DEF listVars
<1> QED BY <1>8, <1>9 DEF HandlerKeep

-----------------------------------------------------------------------------
(* Steps of the caller that touch its own lists only *)

\* No ticket is in two lists of a context.
LEMMA ListsDisjoint ==
  ASSUME NEW o \in [Durations -> Seq(Ticket)], Inj(o)
  PROVE  \A d, e \in Durations : d # e => \A u : ~(In(o[d], u) /\ In(o[e], u))
<1>1. \A d \in Durations : \A u : In(o[d], u) => u \in Ticket BY DEF In
<1> QED BY <1>1 DEF Inj

\* rollback_to_savepoint() releases tickets of the context, each once.
LEMMA SinceSavepointFacts ==
  ASSUME IInv, NEW c \in Ctx, NEW sv
  PROVE  /\ SinceSavepoint(c, sv) \in Seq(Ticket) /\ SeqInj(SinceSavepoint(c, sv))
         /\ \A u \in Ticket : In(SinceSavepoint(c, sv), u) => Has(own[c], u)
<1>0. own[c] \in [Durations -> Seq(Ticket)] /\ Inj(own[c])
  BY DEF IInv, TypeOK, ThreadOK, OwnOK
<1>1. STATEMENT \in Durations /\ TRANSACTION \in Durations /\ STATEMENT # TRANSACTION
  BY DEF STATEMENT, TRANSACTION, Durations
<1>2. /\ own[c][STATEMENT] \in Seq(Ticket) /\ SeqInj(own[c][STATEMENT])
      /\ own[c][TRANSACTION] \in Seq(Ticket) /\ SeqInj(own[c][TRANSACTION])
  BY <1>0, <1>1 DEF Inj
<1> DEFINE p == StoredBefore(own[c][STATEMENT], sv.stmt)
           q == StoredBefore(own[c][TRANSACTION], sv.trans)
<1>3. p \in Seq(Ticket) /\ SeqInj(p) /\ \A u : In(p, u) => In(own[c][STATEMENT], u)
  BY <1>2, StoredBeforeIn
<1>4. q \in Seq(Ticket) /\ SeqInj(q) /\ \A u : In(q, u) => In(own[c][TRANSACTION], u)
  BY <1>2, StoredBeforeIn
<1> HIDE DEF p, q
<1>5. \A u : ~(In(p, u) /\ In(q, u))
  BY <1>0, <1>1, <1>3, <1>4, ListsDisjoint
<1>6. /\ p \o q \in Seq(Ticket) /\ SeqInj(p \o q)
      /\ \A u : In(p \o q, u) <=> In(p, u) \/ In(q, u)
  BY <1>3, <1>4, <1>5, ConcatIn
<1>7. \A u \in Ticket : In(p \o q, u) => Has(own[c], u)
  BY <1>1, <1>3, <1>4, <1>6 DEF Has
<1> QED BY <1>6, <1>7 DEF SinceSavepoint, p, q

\* A release call starts on tickets that its context holds.
LEMMA ReleaseStartInv ==
  ASSUME IInv, NEW c \in Ctx, NEW q \in Seq(Ticket), SeqInj(q),
         \A u \in Ticket : In(q, u) => Has(own[c], u),
         NEW sv \in UserSavepoint, Release(c, q, sv)
  PROVE  IInv'
<1>1. /\ pc[c] = "idle" /\ q # <<>>
      /\ rel' = [rel EXCEPT ![c] = q] /\ usvp' = [usvp EXCEPT ![c] = sv]
      /\ pc' = [pc EXCEPT ![c] = "release"]
      /\ UNCHANGED <<tlock, ttype, listVars, hog, rw, slot, wfor, own, call, it, srchVars>>
  BY DEF Release
<1>2. TypeOK' BY <1>1 DEF IInv, TypeOK, PcValues, listVars, srchVars
<1>3. /\ pc'[c] = "release" /\ rel'[c] = q
      /\ \A b \in Ctx \ {c} : pc'[b] = pc[b] /\ rel'[b] = rel[b]
  BY <1>1 DEF IInv, TypeOK
<1>4. ThreadOK(c)'
  <2>1. OwnOK(c)' BY <1>1 DEF IInv, ThreadOK, OwnOK, listVars
  <2>2. CallOK(c)' /\ CurOK(c)' /\ UpgOK(c)' /\ HeldOK(c)' /\ IterOK(c)'
    BY <1>3 DEF CallOK, CurOK, UpgOK, HeldOK, IterOK, WaitPcs, BusyPcs
  <2>3. WforOK(c)' BY <1>1 DEF IInv, ThreadOK, WforOK
  <2>4. RelOK(c)' BY <1>1, <1>3 DEF RelOK
  <2> QED BY <2>1, <2>2, <2>3, <2>4 DEF ThreadOK
<1>5. pc[c] \notin WaitPcs BY <1>1 DEF WaitPcs
<1> QED BY <1>1, <1>2, <1>3, <1>4, <1>5, NotWaiting, LocalInv

\* HANDLER OPEN that fails late releases what it took.
LEMMA HandlerFailInv ==
  ASSUME IInv, NEW c \in Ctx, HandlerFail(c)
  PROVE  IInv'
<1> DEFINE q == SinceSavepoint(c, call[c].svp)
<1>1. /\ q \in Seq(Ticket) /\ SeqInj(q)
      /\ \A u \in Ticket : In(q, u) => Has(own[c], u)
  BY SinceSavepointFacts
<1>2. /\ pc[c] = "handler"
      /\ rel' = [rel EXCEPT ![c] = q]
      /\ pc' = [pc EXCEPT ![c] = IF q = <<>> THEN "idle" ELSE "release"]
      /\ call' = [call EXCEPT ![c] = NoCall]
      /\ UNCHANGED <<tlock, ttype, listVars, hog, rw, slot, wfor, own, usvp, it, srchVars>>
  BY DEF HandlerFail
<1> HIDE DEF q
<1>3. NoCall \in CallRecord
  BY EmptySeq DEF NoCall, CallRecord, OpValues, NoSavepoint, Savepoint
<1>4. TypeOK' BY <1>1, <1>2, <1>3 DEF IInv, TypeOK, PcValues, listVars, srchVars
<1>5. /\ pc'[c] = (IF q = <<>> THEN "idle" ELSE "release") /\ rel'[c] = q
      /\ \A b \in Ctx \ {c} : pc'[b] = pc[b] /\ rel'[b] = rel[b] /\ call'[b] = call[b]
  BY <1>2 DEF IInv, TypeOK
<1>6. ThreadOK(c)'
  <2>1. OwnOK(c)' BY <1>2 DEF IInv, ThreadOK, OwnOK, listVars
  <2>2. CallOK(c)' /\ CurOK(c)' /\ UpgOK(c)' /\ HeldOK(c)' /\ IterOK(c)'
    BY <1>5 DEF CallOK, CurOK, UpgOK, HeldOK, IterOK, WaitPcs, BusyPcs
  <2>3. wfor[c] = NoTicket BY <1>2 DEF IInv, ThreadOK, WforOK
  <2>4. WforOK(c)' BY <1>2, <2>3 DEF WforOK
  <2>5. RelOK(c)' BY <1>1, <1>2, <1>5 DEF RelOK
  <2> QED BY <2>1, <2>2, <2>4, <2>5 DEF ThreadOK
<1>7. pc[c] \notin WaitPcs BY <1>2 DEF WaitPcs
<1> QED BY <1>2, <1>4, <1>5, <1>6, <1>7, NotWaiting, LocalInv

\* The calls that release tickets.
LEMMA ReleaseCallsInv ==
  ASSUME IInv, NEW c \in Ctx,
         \/ ReleaseExplicitLock(c) \/ ReleaseAllLocksForName(c) \/ ReleaseStatementLocks(c)
         \/ ReleaseTransactionalLocks(c) \/ ReleaseExplicitLocks(c) \/ RollbackToSavepoint(c)
  PROVE  IInv'
<1>0. own[c] \in [Durations -> Seq(Ticket)] /\ Inj(own[c])
  BY DEF IInv, TypeOK, ThreadOK, OwnOK
<1>1. /\ STATEMENT \in Durations /\ TRANSACTION \in Durations /\ EXPLICIT \in Durations
      /\ STATEMENT # TRANSACTION
  BY DEF STATEMENT, TRANSACTION, EXPLICIT, Durations
<1>2. \A d \in Durations : /\ own[c][d] \in Seq(Ticket) /\ SeqInj(own[c][d])
                           /\ \A u \in Ticket : In(own[c][d], u) => Has(own[c], u)
  BY <1>0 DEF Inj, Has
<1>3. usvp[c] \in UserSavepoint /\ NoUserSavepoint \in UserSavepoint
  BY DEF IInv, TypeOK, NoUserSavepoint, UserSavepoint, NoSavepoint, Savepoint
<1>4. CASE ReleaseExplicitLock(c)
  <2>1. PICK i \in 1 .. Len(own[c][EXPLICIT]) : Release(c, <<own[c][EXPLICIT][i]>>, usvp[c])
    BY <1>4 DEF ReleaseExplicitLock
  <2> DEFINE t == own[c][EXPLICIT][i]
  <2>2. t \in Ticket /\ In(own[c][EXPLICIT], t) BY <1>1, <1>2 DEF In
  <2>a. Release(c, <<t>>, usvp[c]) BY <2>1
  <2> HIDE DEF t
  <2>3. <<t>> \in Seq(Ticket) /\ SeqInj(<<t>>) /\ \A u : In(<<t>>, u) => u = t
    BY <2>2 DEF SeqInj, In
  <2> QED BY <1>1, <1>2, <1>3, <2>a, <2>2, <2>3, ReleaseStartInv
<1>5. CASE ReleaseAllLocksForName(c)
  <2> DEFINE mine == own[c][EXPLICIT]
  <2>0. mine \in Seq(Ticket) /\ SeqInj(mine) /\ Len(mine) \in Nat BY <1>1, <1>2
  <2>1. PICK n \in 1 .. Len(mine) : \E f \in [1 .. n -> 1 .. Len(mine)] :
            /\ \A i, j \in 1 .. n : i < j => f[i] < f[j]
            /\ Release(c, [i \in 1 .. n |-> mine[f[i]]], usvp[c])
    BY <1>5 DEF ReleaseAllLocksForName
  <2>2. PICK f \in [1 .. n -> 1 .. Len(mine)] :
            /\ \A i, j \in 1 .. n : i < j => f[i] < f[j]
            /\ Release(c, [i \in 1 .. n |-> mine[f[i]]], usvp[c])
    BY <2>1
  <2> DEFINE q == [i \in 1 .. n |-> mine[f[i]]]
  <2>a. \A u \in Ticket : In(mine, u) => Has(own[c], u) BY <1>1, <1>2
  <2>b. n \in Nat BY <2>0
  <2> HIDE DEF mine
  <2>3. \A i \in 1 .. n : mine[f[i]] \in Ticket BY <2>0
  <2>4. q \in Seq(Ticket) /\ Len(q) = n /\ \A i \in 1 .. n : q[i] = mine[f[i]]
    BY <2>3, <2>b
  <2>c. Release(c, q, usvp[c]) BY <2>2
  <2> HIDE DEF q
  <2>5. SeqInj(q)
    <3> SUFFICES ASSUME NEW i \in 1 .. n, NEW j \in 1 .. n, q[i] = q[j] PROVE i = j
      BY <2>4 DEF SeqInj
    <3>0. f[i] \in 1 .. Len(mine) /\ f[j] \in 1 .. Len(mine) /\ mine[f[i]] = mine[f[j]]
      BY <2>4
    <3>1. f[i] \in 1 .. Len(mine) /\ f[j] \in 1 .. Len(mine) /\ f[i] = f[j]
      BY <2>0, <3>0 DEF SeqInj
    <3>2. ~(i < j) /\ ~(j < i) BY <2>2, <3>1
    <3> QED BY <3>2
  <2>6. \A u \in Ticket : In(q, u) => In(mine, u)
    BY <2>4 DEF In
  <2> QED BY <1>3, <2>c, <2>4, <2>5, <2>6, <2>a, ReleaseStartInv
<1>6. CASE ReleaseStatementLocks(c)
  BY <1>1, <1>2, <1>3, <1>6, ReleaseStartInv DEF ReleaseStatementLocks
<1>7. CASE ReleaseTransactionalLocks(c)
  <2> DEFINE q == own[c][STATEMENT] \o own[c][TRANSACTION]
  <2>0. \A u : ~(In(own[c][STATEMENT], u) /\ In(own[c][TRANSACTION], u))
    BY <1>0, <1>1, ListsDisjoint
  <2>a. /\ q \in Seq(Ticket) /\ SeqInj(q)
        /\ \A u : In(q, u) <=> In(own[c][STATEMENT], u) \/ In(own[c][TRANSACTION], u)
    BY <1>1, <1>2, <2>0, ConcatIn
  <2>1. q \in Seq(Ticket) /\ SeqInj(q) /\ \A u \in Ticket : In(q, u) => Has(own[c], u)
    BY <1>1, <1>2, <2>a
  <2>2. Release(c, q, NoUserSavepoint) BY <1>7 DEF ReleaseTransactionalLocks
  <2> HIDE DEF q
  <2> QED BY <1>3, <2>1, <2>2, ReleaseStartInv
<1>8. CASE ReleaseExplicitLocks(c)
  BY <1>1, <1>2, <1>3, <1>8, ReleaseStartInv DEF ReleaseExplicitLocks
<1>9. CASE RollbackToSavepoint(c)
  BY <1>3, <1>9, SinceSavepointFacts, ReleaseStartInv DEF RollbackToSavepoint
<1> QED BY <1>4, <1>5, <1>6, <1>7, <1>8, <1>9

\* A context rearranges its lists between calls, or takes a savepoint
Rearranges(c) ==
    /\ pc[c] = "idle"
    /\ own' \in [Ctx -> [Durations -> Seq(Ticket)]] /\ Inj(own'[c])
    /\ \A u \in Ticket : Has(own'[c], u) <=> Has(own[c], u)
    /\ \A b \in Ctx \ {c} : own'[b] = own[b]
    /\ usvp' \in [Ctx -> UserSavepoint]
    /\ UNCHANGED <<tlock, ttype, listVars, hog, rw, slot, wfor, pc, call, rel, it, srchVars>>

\* A context between calls may rearrange its lists.
LEMMA RearrangeInv ==
  ASSUME IInv, NEW c \in Ctx, Rearranges(c)
  PROVE  IInv'
<1> USE DEF Rearranges
<1>1. TypeOK' BY DEF IInv, TypeOK, listVars, srchVars
<1>2. ThreadOK(c)'
  <2>1. OwnOK(c)' BY DEF IInv, ThreadOK, OwnOK, listVars
  <2>2. CallOK(c)' /\ CurOK(c)' /\ UpgOK(c)' /\ HeldOK(c)' /\ IterOK(c)'
    BY DEF CallOK, CurOK, UpgOK, HeldOK, IterOK, WaitPcs, BusyPcs
  <2>3. WforOK(c)' BY DEF IInv, ThreadOK, WforOK
  <2>4. RelOK(c)' BY DEF IInv, ThreadOK, RelOK
  <2> QED BY <2>1, <2>2, <2>3, <2>4 DEF ThreadOK
<1>3. pc[c] \notin WaitPcs BY DEF WaitPcs
<1> QED BY <1>1, <1>2, <1>3, NotWaiting, LocalInv

\* One list takes all tickets of a context: the others are empty after it.
LEMMA CollectFacts ==
  ASSUME IInv, NEW c \in Ctx, NEW d \in Durations, NEW s \in Seq(Ticket), SeqInj(s),
         \A u \in Ticket : In(s, u) <=> Has(own[c], u),
         own' = [own EXCEPT ![c] = [e \in Durations |-> IF e = d THEN s ELSE <<>>]]
  PROVE  /\ own' \in [Ctx -> [Durations -> Seq(Ticket)]] /\ Inj(own'[c])
         /\ \A u \in Ticket : Has(own'[c], u) <=> Has(own[c], u)
         /\ \A b \in Ctx \ {c} : own'[b] = own[b]
<1> DEFINE p == [e \in Durations |-> IF e = d THEN s ELSE <<>>]
<1>1. own \in [Ctx -> [Durations -> Seq(Ticket)]] BY DEF IInv, TypeOK
<1>2. p \in [Durations -> Seq(Ticket)] BY EmptySeq
<1>3. p[d] = s /\ \A e \in Durations : e # d => p[e] = <<>> OBVIOUS
<1>4. own' = [own EXCEPT ![c] = p] OBVIOUS
<1> HIDE DEF p
<1>5. \A u : ~In(<<>>, u) BY DEF In
<1>6. SeqInj(<<>>) BY DEF SeqInj
<1>7. Inj(p) BY <1>3, <1>5, <1>6 DEF Inj
<1>8. \A u \in Ticket : Has(p, u) <=> In(s, u) BY <1>3, <1>5 DEF Has
<1> QED BY <1>1, <1>2, <1>4, <1>7, <1>8

\* The calls that change durations or take a savepoint.
LEMMA DurationsRearrange ==
  ASSUME IInv, NEW c \in Ctx,
         \/ SetExplicitDurationForAllLocks(c) \/ SetTransactionDurationForAllLocks(c)
         \/ SetLockDuration(c) \/ TakeSavepoint(c)
  PROVE  Rearranges(c)
<1>0. /\ own \in [Ctx -> [Durations -> Seq(Ticket)]]
      /\ own[c] \in [Durations -> Seq(Ticket)] /\ Inj(own[c])
  BY DEF IInv, TypeOK, ThreadOK, OwnOK
<1>1. /\ STATEMENT \in Durations /\ TRANSACTION \in Durations /\ EXPLICIT \in Durations
      /\ STATEMENT # TRANSACTION /\ STATEMENT # EXPLICIT /\ TRANSACTION # EXPLICIT
      /\ Durations = {STATEMENT, TRANSACTION, EXPLICIT}
  BY DEF STATEMENT, TRANSACTION, EXPLICIT, Durations
<1>2. \A d \in Durations : own[c][d] \in Seq(Ticket) /\ SeqInj(own[c][d])
  BY <1>0 DEF Inj
<1>3. usvp \in [Ctx -> UserSavepoint] /\ NoUserSavepoint \in UserSavepoint
  BY DEF IInv, TypeOK, NoUserSavepoint, UserSavepoint, NoSavepoint, Savepoint
<1> DEFINE S == own[c][STATEMENT]
           T == own[c][TRANSACTION]
           E == own[c][EXPLICIT]
<1>4. \A u \in Ticket : Has(own[c], u) <=> In(S, u) \/ In(T, u) \/ In(E, u)
  BY <1>1 DEF Has
<1>5. /\ Reverse(S) \in Seq(Ticket) /\ SeqInj(Reverse(S)) /\ \A u : In(Reverse(S), u) <=> In(S, u)
      /\ Reverse(T) \in Seq(Ticket) /\ SeqInj(Reverse(T)) /\ \A u : In(Reverse(T), u) <=> In(T, u)
      /\ Reverse(E) \in Seq(Ticket) /\ SeqInj(Reverse(E)) /\ \A u : In(Reverse(E), u) <=> In(E, u)
  BY <1>1, <1>2, ReverseIn
<1>a. \A u : /\ ~(In(S, u) /\ In(T, u)) /\ ~(In(S, u) /\ In(E, u)) /\ ~(In(T, u) /\ In(E, u))
  BY <1>0, <1>1, ListsDisjoint
<1>b. S \in Seq(Ticket) /\ SeqInj(S) /\ T \in Seq(Ticket) /\ SeqInj(T) /\ E \in Seq(Ticket) /\ SeqInj(E)
  BY <1>1, <1>2
<1>6. CASE SetExplicitDurationForAllLocks(c)
  <2> DEFINE q == Reverse(E) \o Reverse(S)
             s == q \o T
  <2>1. /\ q \in Seq(Ticket) /\ SeqInj(q) /\ \A u : In(q, u) <=> In(E, u) \/ In(S, u)
    <3> HIDE DEF S, E
    <3>1. \A u : ~(In(Reverse(E), u) /\ In(Reverse(S), u)) BY <1>5, <1>a
    <3>2. /\ q \in Seq(Ticket) /\ SeqInj(q)
          /\ \A u : In(q, u) <=> In(Reverse(E), u) \/ In(Reverse(S), u)
      BY <1>5, <3>1, ConcatIn
    <3> QED BY <1>5, <3>2
  <2> HIDE DEF q
  <2>2. \A u : ~(In(q, u) /\ In(T, u)) BY <1>a, <2>1
  <2>3. s \in Seq(Ticket) /\ SeqInj(s) /\ \A u : In(s, u) <=> In(q, u) \/ In(T, u)
    BY <1>1, <1>2, <2>1, <2>2, ConcatIn
  <2>4. /\ own' = [own EXCEPT ![c] = [e \in Durations |-> IF e = EXPLICIT THEN s ELSE <<>>]]
        /\ pc[c] = "idle" /\ usvp' = [usvp EXCEPT ![c] = NoUserSavepoint]
        /\ UNCHANGED <<tlock, ttype, listVars, hog, rw, slot, wfor, pc, call, rel, it, srchVars>>
    BY <1>6 DEF SetExplicitDurationForAllLocks, q
  <2> HIDE DEF s, S, T, E
  <2>5. \A u \in Ticket : In(s, u) <=> Has(own[c], u) BY <1>4, <2>1, <2>3
  <2>6. usvp' \in [Ctx -> UserSavepoint] BY <1>3, <2>4
  <2>7. /\ own' \in [Ctx -> [Durations -> Seq(Ticket)]] /\ Inj(own'[c])
        /\ \A u \in Ticket : Has(own'[c], u) <=> Has(own[c], u)
        /\ \A b \in Ctx \ {c} : own'[b] = own[b]
    BY <1>1, <2>3, <2>4, <2>5, CollectFacts
  <2> QED BY <2>4, <2>6, <2>7 DEF Rearranges
<1>7. CASE SetTransactionDurationForAllLocks(c)
  <2> DEFINE s == Reverse(T) \o E
  <2>1. /\ s \in Seq(Ticket) /\ SeqInj(s) /\ \A u : In(s, u) <=> In(T, u) \/ In(E, u)
    <3> HIDE DEF T, E
    <3>1. \A u : ~(In(Reverse(T), u) /\ In(E, u)) BY <1>5, <1>a
    <3>2. /\ s \in Seq(Ticket) /\ SeqInj(s)
          /\ \A u : In(s, u) <=> In(Reverse(T), u) \/ In(E, u)
      BY <1>5, <1>b, <3>1, ConcatIn
    <3> QED BY <1>5, <3>2
  <2>4. /\ own' = [own EXCEPT ![c] = [e \in Durations |-> IF e = TRANSACTION THEN s ELSE <<>>]]
        /\ pc[c] = "idle" /\ usvp' = [usvp EXCEPT ![c] = NoUserSavepoint] /\ S = <<>>
        /\ UNCHANGED <<tlock, ttype, listVars, hog, rw, slot, wfor, pc, call, rel, it, srchVars>>
    BY <1>7 DEF SetTransactionDurationForAllLocks
  <2>a. \A u : ~In(<<>>, u) BY DEF In
  <2> HIDE DEF s, S, T, E
  <2>5. \A u \in Ticket : In(s, u) <=> Has(own[c], u) BY <1>4, <2>1, <2>4, <2>a
  <2>6. usvp' \in [Ctx -> UserSavepoint] BY <1>3, <2>4
  <2>7. /\ own' \in [Ctx -> [Durations -> Seq(Ticket)]] /\ Inj(own'[c])
        /\ \A u \in Ticket : Has(own'[c], u) <=> Has(own[c], u)
        /\ \A b \in Ctx \ {c} : own'[b] = own[b]
    BY <1>1, <2>1, <2>4, <2>5, CollectFacts
  <2> QED BY <2>4, <2>6, <2>7 DEF Rearranges
<1>8. CASE SetLockDuration(c)
  <2>1. PICK i \in 1 .. Len(own[c][TRANSACTION]) :
          own' = [own EXCEPT ![c][TRANSACTION] = RemoveAt(@, i),
                             ![c][EXPLICIT] = <<own[c][TRANSACTION][i]>> \o @]
    BY <1>8 DEF SetLockDuration
  <2>2. /\ own' \in [Ctx -> [Durations -> Seq(Ticket)]] /\ Inj(own'[c])
        /\ \A u \in Ticket : Has(own'[c], u) <=> Has(own[c], u)
        /\ \A b \in Ctx \ {c} : own'[b] = own[b]
    BY <2>1, MoveFacts
  <2> QED BY <1>3, <1>8, <2>2 DEF SetLockDuration, Rearranges
<1>9. CASE TakeSavepoint(c)
  <2>1. MdlSavepoint(c) \in Savepoint BY MdlSavepointType DEF IInv
  <2>2. ToSet(S) \subseteq Ticket /\ ToSet(T) \subseteq Ticket BY <1>1, <1>2, ToSetIn
  <2>3. [set |-> TRUE, at |-> MdlSavepoint(c), kept |-> ToSet(S) \cup ToSet(T)] \in UserSavepoint
    BY <2>1, <2>2 DEF UserSavepoint
  <2>4. usvp' \in [Ctx -> UserSavepoint] BY <1>3, <1>9, <2>3 DEF TakeSavepoint
  <2> QED BY <1>0, <1>9, <2>4 DEF TakeSavepoint, Rearranges
<1> QED BY <1>6, <1>7, <1>8, <1>9

-----------------------------------------------------------------------------
(* Rescheduling and the removal of tickets *)

\* clear_bit_if_not_in_list() keeps the bitmap of a list exact when a ticket t
\* leaves the set S.
LEMMA ClearBitExact ==
  ASSUME NEW f, NEW S, NEW t \in S
  PROVE  ClearBitIfNotInList({f[u] : u \in S}, f[t], {f[u] : u \in S \ {t}})
           = {f[u] : u \in S \ {t}}
<1>1. CASE f[t] \in {f[u] : u \in S \ {t}}
  BY <1>1 DEF ClearBitIfNotInList
<1>2. CASE f[t] \notin {f[u] : u \in S \ {t}}
  BY <1>2 DEF ClearBitIfNotInList
<1> QED BY <1>1, <1>2

\* Fewer granted tickets of the same types are compatible.
LEMMA CompatibleShrinks ==
  ASSUME IInv, \A l \in Keys : granted'[l] \subseteq granted[l],
         \A l \in Keys : \A u \in granted'[l] : ttype'[u] = ttype[u]
  PROVE  Compatible'
BY DEF IInv, Compatible

\* How remove_ticket() and downgrade_lock() end.
LEMMA RescheduleFacts ==
  ASSUME TypeOK, NEW c \in Ctx, NEW l \in Keys, NEW rest, RescheduleOrRemove(c, l, rest)
  PROVE  /\ hog' \in [Keys -> 0 .. HogBound] /\ rw' \in [Keys -> Ctx \cup {NoCtx}]
         /\ it' \in [Ctx -> Iterator] /\ pc' \in [Ctx -> PcValues]
         /\ \A b \in Ctx \ {c} : it'[b] = it[b] /\ pc'[b] = pc[b]
         /\ pc'[c] \in {"idle", "release", "resched"}
         /\ pc'[c] = "idle" => rest = <<>>
         /\ pc'[c] = "release" => rest # <<>>
         /\ IterOK(c)'
<1>0. /\ hog \in [Keys -> 0 .. HogBound] /\ rw \in [Keys -> Ctx \cup {NoCtx}]
      /\ it \in [Ctx -> Iterator] /\ pc \in [Ctx -> PcValues] /\ HogBound \in Nat
  BY BoundAssumption DEF TypeOK
<1>1. CASE granted'[l] = {} /\ waiting'[l] = <<>>
  <2>1. /\ \E h \in {0, hog[l]} : hog' = [hog EXCEPT ![l] = h]
        /\ pc' = [pc EXCEPT ![c] = Resume(rest)]
        /\ UNCHANGED <<rw, it>>
    BY <1>1 DEF RescheduleOrRemove
  <2>2. /\ Resume(rest) \in {"idle", "release"} /\ Resume(rest) \in PcValues
        /\ Resume(rest) = "idle" => rest = <<>>
        /\ Resume(rest) = "release" => rest # <<>>
    BY DEF Resume, PcValues
  <2>3. hog' \in [Keys -> 0 .. HogBound] BY <1>0, <2>1
  <2>4. pc'[c] = Resume(rest) /\ pc' \in [Ctx -> PcValues] /\ \A b \in Ctx \ {c} : pc'[b] = pc[b]
    BY <1>0, <2>1, <2>2
  <2> QED BY <1>0, <2>1, <2>2, <2>3, <2>4 DEF IterOK
<1>2. CASE ~(granted'[l] = {} /\ waiting'[l] = <<>>)
  <2> DEFINE sk == hog[l] >= MaxWriteLockCount /\ wbits'[l] \ HogTypes(l) # {}
             new == [key |-> l, i |-> 1, skip |-> sk]
  <2>1. /\ rw' = [rw EXCEPT ![l] = c] /\ it' = [it EXCEPT ![c] = new]
        /\ pc' = [pc EXCEPT ![c] = "resched"] /\ hog' = hog
    BY <1>2 DEF RescheduleOrRemove
  <2>2. sk \in BOOLEAN OBVIOUS
  <2> HIDE DEF sk
  <2>3. new \in Iterator /\ new.key = l /\ new.i = 1 BY <2>2 DEF Iterator
  <2> HIDE DEF new
  <2>4. it'[c] = new /\ it' \in [Ctx -> Iterator] /\ \A b \in Ctx \ {c} : it'[b] = it[b]
    BY <1>0, <2>1, <2>3
  <2>5. /\ pc'[c] = "resched" /\ pc' \in [Ctx -> PcValues]
        /\ \A b \in Ctx \ {c} : pc'[b] = pc[b]
    BY <1>0, <2>1 DEF PcValues
  <2> QED BY <1>0, <2>1, <2>3, <2>4, <2>5 DEF IterOK
<1> QED BY <1>1, <1>2

\* The end of reschedule_waiters().
LEMMA RescheduleDoneInv ==
  ASSUME IInv, NEW c \in Ctx, RescheduleDone(c)
  PROVE  IInv'
<1>1. /\ pc[c] = "resched" /\ it[c].key \in Keys /\ rel[c] \in Seq(Ticket)
  BY DEF RescheduleDone, IInv, TypeOK, ThreadOK, IterOK
<1>2. /\ rw' = [rw EXCEPT ![it[c].key] = NoCtx] /\ it' = [it EXCEPT ![c] = NoIter]
      /\ pc' = [pc EXCEPT ![c] = Resume(rel[c])]
      /\ UNCHANGED <<tlock, ttype, listVars, slot, wfor, own, call, usvp, rel, srchVars>>
  BY DEF RescheduleDone
<1>3. /\ Resume(rel[c]) \in {"idle", "release"} /\ Resume(rel[c]) \in PcValues
      /\ Resume(rel[c]) = "idle" => rel[c] = <<>>
      /\ Resume(rel[c]) = "release" => rel[c] # <<>>
  BY DEF Resume, PcValues
<1>4. hog' \in [Keys -> 0 .. HogBound]
  BY <1>1, BoundAssumption DEF RescheduleDone, IInv, TypeOK
<1>5. NoIter \in Iterator BY DEF NoIter, Iterator
<1>6. TypeOK' BY <1>1, <1>2, <1>3, <1>4, <1>5 DEF IInv, TypeOK, listVars, srchVars
<1>7. /\ pc'[c] = Resume(rel[c])
      /\ \A b \in Ctx \ {c} : pc'[b] = pc[b] /\ it'[b] = it[b]
  BY <1>2 DEF IInv, TypeOK
<1>8. ThreadOK(c)'
  <2>1. OwnOK(c)' BY <1>2 DEF IInv, ThreadOK, OwnOK, listVars
  <2>2. CallOK(c)' /\ CurOK(c)' /\ UpgOK(c)' /\ HeldOK(c)' /\ IterOK(c)'
    BY <1>3, <1>7 DEF CallOK, CurOK, UpgOK, HeldOK, IterOK, WaitPcs, BusyPcs
  <2>3. WforOK(c)' BY <1>1, <1>2 DEF IInv, ThreadOK, WforOK
  <2>4. RelOK(c)' BY <1>2, <1>3, <1>7 DEF IInv, ThreadOK, RelOK
  <2> QED BY <2>1, <2>2, <2>3, <2>4 DEF ThreadOK
<1>9. pc[c] \notin WaitPcs BY <1>1 DEF WaitPcs
<1> QED BY <1>2, <1>6, <1>7, <1>8, <1>9, NotWaiting, LocalInv

\* reschedule_waiters() grants the lock to a waiter.
LEMMA GrantNextInv ==
  ASSUME IInv, NEW c \in Ctx, GrantNext(c)
  PROVE  IInv'
<1> DEFINE l == it[c].key
<1>1. pc[c] = "resched" /\ l \in Keys /\ it[c].i >= 1 /\ it[c] \in Iterator
  BY DEF GrantNext, IInv, TypeOK, ThreadOK, IterOK
<1>2. /\ waiting[l] \in Seq(Ticket) /\ SeqInj(waiting[l]) /\ Len(waiting[l]) \in Nat
      /\ it[c].i \in Nat /\ it[c].skip \in BOOLEAN
  BY <1>1 DEF IInv, TypeOK, WaitingOK, Iterator
<1>3. UNCHANGED <<tlock, ttype, rw, wfor, own, pc, call, usvp, rel, srchVars>>
  BY DEF GrantNext
<1>4. PICK j \in it[c].i .. Len(waiting[l]) :
             LET t == waiting[l][j]
                 left == RemoveAt(waiting[l], j)
             IN /\ Grantable(l, j, it[c].skip)
                /\ slot' = [slot EXCEPT ![CtxOf(t)] = "GRANTED"]
                /\ waiting' = [waiting EXCEPT ![l] = left]
                /\ wbits' = [wbits EXCEPT ![l] =
                               ClearBitIfNotInList(@, ttype[t], TypesOf(ToSet(left)))]
                /\ granted' = [granted EXCEPT ![l] = @ \cup {t}]
                /\ gbits' = [gbits EXCEPT ![l] = @ \cup {ttype[t]}]
                /\ hog' = [hog EXCEPT ![l] =
                             IF ttype[t] \in HogTypes(l) /\ @ < HogBound THEN @ + 1 ELSE @]
                /\ it' = [it EXCEPT ![c] = [key |-> l, i |-> j, skip |-> it[c].skip]]
  BY DEF GrantNext
<1> DEFINE t == waiting[l][j]
           left == RemoveAt(waiting[l], j)
<1>5. j \in 1 .. Len(waiting[l]) /\ j \in Nat /\ j >= 1 BY <1>1, <1>2
<1>6. t \in Ticket /\ In(waiting[l], t) BY <1>2, <1>5 DEF In
<1>7. /\ left \in Seq(Ticket) /\ SeqInj(left)
      /\ \A u : In(left, u) <=> In(waiting[l], u) /\ u # t
  BY <1>2, <1>5, RemoveAtIn
<1>8. [key |-> l, i |-> j, skip |-> it[c].skip] \in Iterator
  BY <1>1, <1>2, <1>5 DEF Iterator
<1>a. Safe(CtxOf(t), l, ttype[t]) /\ CtxOf(t) \in Ctx /\ ttype[t] \in LockTypes
  <2>1. CtxOf(t) \in Ctx /\ ttype[t] \in LockTypes BY <1>6 DEF CtxOf, Ticket, IInv, TypeOK
  <2>2. CanGrantLock(l, ttype[t], CtxOf(t), it[c].skip) BY <1>4 DEF Grantable
  <2> QED BY <1>1, <2>1, <2>2, CanGrantIsSafe
<1> HIDE DEF l, t, left
<1>b. /\ slot' = [slot EXCEPT ![CtxOf(t)] = "GRANTED"]
      /\ waiting' = [waiting EXCEPT ![l] = left]
      /\ wbits' = [wbits EXCEPT ![l] = ClearBitIfNotInList(@, ttype[t], TypesOf(ToSet(left)))]
      /\ granted' = [granted EXCEPT ![l] = @ \cup {t}]
      /\ gbits' = [gbits EXCEPT ![l] = @ \cup {ttype[t]}]
      /\ hog' = [hog EXCEPT ![l] =
                   IF ttype[t] \in HogTypes(l) /\ @ < HogBound THEN @ + 1 ELSE @]
      /\ it' = [it EXCEPT ![c] = [key |-> l, i |-> j, skip |-> it[c].skip]]
  BY <1>4 DEF l, t, left
<1>c. /\ tlock[t] = l /\ t \notin granted[l]
      /\ call[CtxOf(t)].cur = t /\ pc[CtxOf(t)] \in WaitPcs
  BY <1>1, <1>6 DEF IInv, WaitingOK
<1>d. /\ waiting'[l] = left /\ granted'[l] = granted[l] \cup {t}
      /\ gbits'[l] = gbits[l] \cup {ttype[t]}
      /\ wbits'[l] = ClearBitIfNotInList(wbits[l], ttype[t], TypesOf(ToSet(left)))
      /\ \A k \in Keys \ {l} : /\ waiting'[k] = waiting[k] /\ granted'[k] = granted[k]
                               /\ gbits'[k] = gbits[k] /\ wbits'[k] = wbits[k]
      /\ \A k \in Keys : granted[k] \subseteq Ticket
      /\ it'[c].key = l /\ it'[c].i = j
      /\ \A b \in Ctx \ {c} : it'[b] = it[b]
      /\ slot'[CtxOf(t)] = "GRANTED" /\ \A b \in Ctx : b # CtxOf(t) => slot'[b] = slot[b]
  BY <1>1, <1>a, <1>b DEF IInv, TypeOK
<1>9. TypeOK'
  <2>1. hog' \in [Keys -> 0 .. HogBound]
    <3>1. hog \in [Keys -> 0 .. HogBound] /\ HogBound \in Nat BY BoundAssumption DEF IInv, TypeOK
    <3>2. hog[l] \in 0 .. HogBound BY <1>1, <3>1
    <3>3. (IF ttype[t] \in HogTypes(l) /\ hog[l] < HogBound THEN hog[l] + 1 ELSE hog[l])
            \in 0 .. HogBound
      BY <3>1, <3>2
    <3> QED BY <1>b, <3>1, <3>3
  <2>2. wbits' \in [Keys -> SUBSET LockTypes]
    BY <1>b DEF IInv, TypeOK, ClearBitIfNotInList
  <2>3. waiting' \in [Keys -> Seq(Ticket)] /\ it' \in [Ctx -> Iterator]
    BY <1>7, <1>8, <1>b DEF IInv, TypeOK
  <2>4. slot' \in [Ctx -> WaitStatus] /\ granted' \in [Keys -> SUBSET Ticket]
        /\ gbits' \in [Keys -> SUBSET LockTypes]
    BY <1>6, <1>a, <1>b DEF IInv, TypeOK, WaitStatus
  <2> QED BY <1>3, <2>1, <2>2, <2>3, <2>4 DEF IInv, TypeOK, srchVars
<1>10. GrantedOK'
  BY <1>1, <1>3, <1>c, <1>d DEF IInv, GrantedOK
<1>11. WaitingOK'
  <2> SUFFICES ASSUME NEW k \in Keys
               PROVE  /\ SeqInj(waiting'[k])
                      /\ \A u \in Ticket : In(waiting'[k], u) =>
                            In(waiting[k], u) /\ (u \in granted'[k] => u \in granted[k])
    BY <1>3 DEF IInv, WaitingOK
  <2>1. CASE k = l BY <1>7, <1>d, <2>1
  <2>2. CASE k # l BY <1>d, <2>2 DEF IInv, WaitingOK
  <2> QED BY <2>1, <2>2
<1>12. BitmapsExact'
  <2>1. gbits'[l] = {ttype[u] : u \in granted'[l]}
    <3>1. gbits[l] = {ttype[u] : u \in granted[l]} BY <1>1 DEF IInv, BitmapsExact, TypesOf
    <3>2. {ttype[u] : u \in granted[l] \cup {t}} = {ttype[u] : u \in granted[l]} \cup {ttype[t]}
      OBVIOUS
    <3> QED BY <1>d, <3>1, <3>2
  <2>2. wbits'[l] = {ttype[u] : u \in ToSet(waiting'[l])}
    <3>1. wbits[l] = {ttype[u] : u \in ToSet(waiting[l])} BY <1>1 DEF IInv, BitmapsExact, TypesOf
    <3>a. \A u : u \in ToSet(waiting[l]) <=> In(waiting[l], u) BY <1>2, ToSetIn DEF l
    <3>b. \A u : u \in ToSet(left) <=> In(left, u) BY <1>7, ToSetIn
    <3>2. ToSet(left) = ToSet(waiting[l]) \ {t} /\ t \in ToSet(waiting[l])
      BY <1>6, <1>7, <3>a, <3>b
    <3>3. wbits'[l] = ClearBitIfNotInList({ttype[u] : u \in ToSet(waiting[l])}, ttype[t],
                                          {ttype[u] : u \in ToSet(waiting[l]) \ {t}})
      BY <1>d, <3>1, <3>2 DEF TypesOf
    <3>4. wbits'[l] = {ttype[u] : u \in ToSet(waiting[l]) \ {t}}
      <4> DEFINE S == ToSet(waiting[l])
      <4>1. t \in S BY <3>2
      <4>2. wbits'[l] = ClearBitIfNotInList({ttype[u] : u \in S}, ttype[t],
                                            {ttype[u] : u \in S \ {t}})
        BY <3>3
      <4> HIDE DEF S
      <4>3. wbits'[l] = {ttype[u] : u \in S \ {t}} BY <4>1, <4>2, ClearBitExact
      <4> QED BY <4>3 DEF S
    <3> QED BY <1>d, <3>2, <3>4
  <2>3. \A k \in Keys \ {l} : /\ gbits'[k] = {ttype[u] : u \in granted'[k]}
                              /\ wbits'[k] = {ttype[u] : u \in ToSet(waiting'[k])}
    BY <1>d DEF IInv, BitmapsExact, TypesOf
  <2> QED BY <1>3, <2>1, <2>2, <2>3 DEF BitmapsExact, TypesOf
<1>13. Compatible'
  <2>1. \A k \in Keys : granted'[k] \subseteq Ticket BY <1>6, <1>d
  <2>2. \A k \in Keys : k # l => granted'[k] \subseteq granted[k] /\ t \notin granted'[k]
    BY <1>c, <1>d DEF IInv, GrantedOK
  <2> QED BY <1>1, <1>3, <1>6, <1>a, <1>d, <2>1, <2>2, CompatibleKept DEF l
<1>14. ASSUME NEW b \in Ctx PROVE ThreadOK(b)'
  <2>1. ThreadOK(b) BY DEF IInv
  <2>2. \A k \in Keys : \A u \in granted[k] : u \in granted'[k] BY <1>d
  <2>3. it'[b] = it[b] \/ IterOK(b)' BY <1>1, <1>5, <1>d DEF IterOK, l
  <2>4. slot'[b] = "GRANTED" => slot[b] = "GRANTED" \/ call[b].cur \in granted'[Req(b).key]
    <3>1. CASE b # CtxOf(t) BY <1>d, <3>1
    <3>2. CASE b = CtxOf(t)
      <4>1. tlock[call[b].cur] = Req(b).key BY <1>c, <2>1, <3>2 DEF ThreadOK, CurOK
      <4> QED BY <1>c, <1>d, <3>2, <4>1
    <3> QED BY <3>1, <3>2
  <2> QED BY <1>3, <2>1, <2>2, <2>3, <2>4, OtherThread
<1> QED BY <1>9, <1>10, <1>11, <1>12, <1>13, <1>14 DEF IInv

\* acquire_lock() gives up its ticket.
LEMMA AbortWaitInv ==
  ASSUME IInv, NEW c \in Ctx, AbortWait(c)
  PROVE  IInv'
<1> DEFINE t == call[c].cur
           l == tlock[t]
           rest == IF call[c].op \in {"list", "handler"}
                   THEN SinceSavepoint(c, call[c].svp) ELSE <<>>
<1>1. pc[c] = "abort" /\ pc[c] \in WaitPcs /\ pc[c] \in BusyPcs
  BY DEF AbortWait, WaitPcs, BusyPcs
<1>2. /\ t \in Ticket /\ CtxOf(t) = c /\ ~Has(own[c], t) /\ l \in Keys
  BY <1>1, ReqType DEF IInv, ThreadOK, CurOK
<1>3. /\ wbits' = [wbits EXCEPT ![l] =
                     ClearBitIfNotInList(@, ttype[t], TypesOf(ToSet(waiting'[l])))]
      /\ tlock' = [tlock EXCEPT ![t] = NoKey] /\ ttype' = [ttype EXCEPT ![t] = "S"]
      /\ call' = [call EXCEPT ![c] = NoCall] /\ rel' = [rel EXCEPT ![c] = rest]
      /\ UNCHANGED <<granted, gbits, slot, wfor, own, usvp, srchVars>>
      /\ RescheduleOrRemove(c, l, rest)
  BY DEF AbortWait, Destroy
<1>4. PICK j \in 1 .. Len(waiting[l]) :
         waiting[l][j] = t /\ waiting' = [waiting EXCEPT ![l] = RemoveAt(@, j)]
  BY DEF AbortWait
<1>5. /\ rest \in Seq(Ticket) /\ SeqInj(rest)
      /\ \A u \in Ticket : In(rest, u) => Has(own[c], u)
  <2>1. /\ SinceSavepoint(c, call[c].svp) \in Seq(Ticket)
        /\ SeqInj(SinceSavepoint(c, call[c].svp))
        /\ \A u \in Ticket : In(SinceSavepoint(c, call[c].svp), u) => Has(own[c], u)
    BY SinceSavepointFacts
  <2>2. <<>> \in Seq(Ticket) /\ SeqInj(<<>>) /\ \A u : ~In(<<>>, u)
    BY EmptySeq DEF SeqInj, In
  <2> QED BY <2>1, <2>2
<1> HIDE DEF rest
<1>6. /\ hog' \in [Keys -> 0 .. HogBound] /\ rw' \in [Keys -> Ctx \cup {NoCtx}]
      /\ it' \in [Ctx -> Iterator] /\ pc' \in [Ctx -> PcValues]
      /\ \A b \in Ctx \ {c} : it'[b] = it[b] /\ pc'[b] = pc[b]
      /\ pc'[c] \in {"idle", "release", "resched"}
      /\ pc'[c] = "idle" => rest = <<>>
      /\ pc'[c] = "release" => rest # <<>>
      /\ IterOK(c)'
  BY <1>2, <1>3, RescheduleFacts DEF IInv
<1>7. waiting[l] \in Seq(Ticket) /\ SeqInj(waiting[l])
  BY <1>2 DEF IInv, TypeOK, WaitingOK
<1> DEFINE left == RemoveAt(waiting[l], j)
<1>8. /\ left \in Seq(Ticket) /\ SeqInj(left)
      /\ \A u : In(left, u) <=> In(waiting[l], u) /\ u # t
  BY <1>4, <1>7, RemoveAtIn
<1>9. NoCall \in CallRecord
  BY EmptySeq DEF NoCall, CallRecord, OpValues, NoSavepoint, Savepoint
<1>a. In(waiting[l], t) BY <1>4 DEF In
<1> HIDE DEF left
<1>b. /\ waiting'[l] = left /\ \A k \in Keys \ {l} : waiting'[k] = waiting[k] /\ wbits'[k] = wbits[k]
      /\ wbits'[l] = ClearBitIfNotInList(wbits[l], ttype[t], TypesOf(ToSet(left)))
      /\ tlock'[t] = NoKey
      /\ \A u \in Ticket \ {t} : tlock'[u] = tlock[u] /\ ttype'[u] = ttype[u]
      /\ \A b \in Ctx \ {c} : call'[b] = call[b] /\ rel'[b] = rel[b]
      /\ rel'[c] = rest
      /\ \A k \in Keys : granted[k] \subseteq Ticket /\ waiting[k] \in Seq(Ticket)
  BY <1>2, <1>3, <1>4 DEF IInv, TypeOK, left
<1>c. \A k \in Keys : t \notin granted[k]
  BY <1>2, <1>a DEF IInv, GrantedOK, WaitingOK
<1>d. \A k \in Keys : In(waiting[k], t) => k = l
  BY <1>2 DEF IInv, WaitingOK
<1>e. \A k \in Keys : \A u \in Ticket : In(waiting[k], u) /\ CtxOf(u) = c => u = t
  BY DEF IInv, WaitingOK
<1> HIDE DEF t, l
<1>f. \A k \in Keys : \A u \in Ticket : In(waiting'[k], u) => In(waiting[k], u) /\ u # t
  <2> SUFFICES ASSUME NEW k \in Keys, NEW u \in Ticket, In(waiting'[k], u)
               PROVE  In(waiting[k], u) /\ u # t
    OBVIOUS
  <2>1. CASE k = l BY <1>8, <1>b, <2>1
  <2>2. CASE k # l BY <1>b, <1>d, <2>2
  <2> QED BY <2>1, <2>2
<1>10. TypeOK'
  <2>1. /\ tlock' \in [Ticket -> Keys \cup {NoKey}] /\ ttype' \in [Ticket -> LockTypes]
        /\ waiting' \in [Keys -> Seq(Ticket)] /\ wbits' \in [Keys -> SUBSET LockTypes]
        /\ call' \in [Ctx -> CallRecord] /\ rel' \in [Ctx -> Seq(Ticket)]
    BY <1>3, <1>4, <1>5, <1>8, <1>9 DEF IInv, TypeOK, LockTypes, ClearBitIfNotInList, left, t, l
  <2> QED BY <1>3, <1>6, <2>1 DEF IInv, TypeOK, srchVars
<1>11. GrantedOK'
  BY <1>3, <1>b, <1>c DEF IInv, GrantedOK
<1>12. WaitingOK'
  <2> SUFFICES ASSUME NEW k \in Keys
               PROVE  /\ SeqInj(waiting'[k])
                      /\ \A u \in Ticket : In(waiting'[k], u) =>
                            /\ tlock'[u] = k /\ u \notin granted'[k]
                            /\ call'[CtxOf(u)].cur = u /\ pc'[CtxOf(u)] \in WaitPcs
    BY DEF WaitingOK
  <2>1. SeqInj(waiting'[k])
    <3>1. CASE k = l BY <1>8, <1>b, <3>1
    <3>2. CASE k # l BY <1>b, <3>2 DEF IInv, WaitingOK
    <3> QED BY <3>1, <3>2
  <2>2. ASSUME NEW u \in Ticket, In(waiting'[k], u)
        PROVE  /\ tlock'[u] = k /\ u \notin granted'[k]
               /\ call'[CtxOf(u)].cur = u /\ pc'[CtxOf(u)] \in WaitPcs
    <3>1. In(waiting[k], u) /\ u # t BY <1>f, <2>2
    <3>2. CtxOf(u) \in Ctx /\ CtxOf(u) # c BY <1>e, <3>1 DEF Ticket, CtxOf
    <3> QED BY <1>3, <1>6, <1>b, <3>1, <3>2 DEF IInv, WaitingOK
  <2> QED BY <2>1, <2>2
<1>13. BitmapsExact'
  <2>1. \A k \in Keys : gbits'[k] = {ttype'[u] : u \in granted'[k]}
    <3>1. \A k \in Keys : \A u \in granted[k] : ttype'[u] = ttype[u] BY <1>b, <1>c
    <3> QED BY <1>3, <3>1 DEF IInv, BitmapsExact, TypesOf
  <2>a. \A k \in Keys : \A u : u \in ToSet(waiting[k]) <=> In(waiting[k], u)
    BY <1>b, ToSetIn
  <2>b. \A k \in Keys : \A u \in ToSet(waiting[k]) : u \in Ticket
    BY <1>b, ToSetIn
  <2>2. wbits'[l] = {ttype'[u] : u \in ToSet(waiting'[l])}
    <3> DEFINE S == ToSet(waiting[l])
    <3>1. wbits[l] = {ttype[u] : u \in S} BY <1>2 DEF IInv, BitmapsExact, TypesOf, l
    <3>b. \A u : u \in ToSet(left) <=> In(left, u) BY <1>8, ToSetIn
    <3>c. l \in Keys BY <1>2 DEF l
    <3>2. ToSet(left) = S \ {t} /\ t \in S
      BY <1>8, <1>a, <2>a, <3>b, <3>c
    <3>e. \A u \in S : u \in Ticket BY <2>b, <3>c
    <3> HIDE DEF S
    <3>3. wbits'[l] = ClearBitIfNotInList({ttype[u] : u \in S}, ttype[t], {ttype[u] : u \in S \ {t}})
      BY <1>b, <3>1, <3>2 DEF TypesOf
    <3>4. wbits'[l] = {ttype[u] : u \in S \ {t}} BY <3>2, <3>3, ClearBitExact
    <3>5. \A u \in S \ {t} : ttype'[u] = ttype[u] BY <1>b, <3>e
    <3> QED BY <1>b, <3>2, <3>4, <3>5
  <2>3. ASSUME NEW k \in Keys \ {l} PROVE wbits'[k] = {ttype'[u] : u \in ToSet(waiting'[k])}
    <3>1. \A u \in ToSet(waiting[k]) : u \in Ticket \ {t} BY <1>d, <2>a, <2>b
    <3>2. \A u \in ToSet(waiting[k]) : ttype'[u] = ttype[u] BY <1>b, <3>1
    <3> QED BY <1>b, <3>2 DEF IInv, BitmapsExact, TypesOf
  <2> QED BY <2>1, <2>2, <2>3 DEF BitmapsExact, TypesOf
<1>14. Compatible'
  BY <1>3, <1>b, <1>c, CompatibleShrinks
<1>15. ThreadOK(c)'
  <2>1. OwnOK(c)' BY <1>2, <1>3, <1>b DEF IInv, ThreadOK, OwnOK, t
  <2>2. CallOK(c)' /\ CurOK(c)' /\ UpgOK(c)' /\ HeldOK(c)'
    BY <1>6 DEF CallOK, CurOK, UpgOK, HeldOK, WaitPcs, BusyPcs
  <2>3. WforOK(c)' BY <1>1, <1>3 DEF IInv, ThreadOK, WforOK
  <2>4. RelOK(c)' BY <1>3, <1>5, <1>6, <1>b DEF RelOK
  <2> QED BY <1>6, <2>1, <2>2, <2>3, <2>4 DEF ThreadOK
<1>16. ASSUME NEW b \in Ctx \ {c} PROVE ThreadOK(b)'
  <2>1. ThreadOK(b) BY DEF IInv
  <2>2. \A u \in Ticket : CtxOf(u) = b => tlock'[u] = tlock[u] /\ ttype'[u] = ttype[u]
    BY <1>2, <1>b DEF t
  <2> QED BY <1>3, <1>6, <1>b, <2>1, <2>2, OtherThread
<1> QED BY <1>10, <1>11, <1>12, <1>13, <1>14, <1>15, <1>16 DEF IInv

\* A ticket that is held or granted is in no queue.
LEMMA HeldNotWaiting ==
  ASSUME IInv, NEW l \in Keys, NEW t \in granted[l]
  PROVE  \A k \in Keys : ~In(waiting[k], t)
<1>1. t \in Ticket /\ tlock[t] = l BY DEF IInv, TypeOK, GrantedOK
<1> QED BY <1>1 DEF IInv, WaitingOK

\* release_lock() of one ticket.
LEMMA ReleaseLockInv ==
  ASSUME IInv, NEW c \in Ctx, ReleaseLock(c)
  PROVE  IInv'
<1> DEFINE t == rel[c][1]
           l == tlock[t]
           rest == Tail(rel[c])
<1>1. pc[c] = "release" /\ pc[c] \notin WaitPcs BY DEF ReleaseLock, WaitPcs
<1>2. rel[c] \in Seq(Ticket) /\ rel[c] # <<>> /\ SeqInj(rel[c])
  BY <1>1 DEF IInv, TypeOK, ThreadOK, RelOK
<1>3. /\ rest \in Seq(Ticket) /\ t \in Ticket /\ In(rel[c], t) /\ SeqInj(rest)
      /\ \A u : In(rest, u) => In(rel[c], u) /\ u # t
  BY <1>2, TailIn
<1>4. /\ Has(own[c], t) /\ CtxOf(t) = c /\ l \in Keys /\ t \in granted[l]
  BY <1>3 DEF IInv, ThreadOK, RelOK, OwnOK
<1>5. /\ granted' = [granted EXCEPT ![l] = @ \ {t}]
      /\ gbits' = [gbits EXCEPT ![l] =
                     ClearBitIfNotInList(@, ttype[t], TypesOf(granted[l] \ {t}))]
      /\ tlock' = [tlock EXCEPT ![t] = NoKey] /\ ttype' = [ttype EXCEPT ![t] = "S"]
      /\ usvp' = [usvp EXCEPT ![c].kept = @ \ {t}]
      /\ rel' = [rel EXCEPT ![c] = rest]
      /\ UNCHANGED <<waiting, wbits, slot, wfor, call, srchVars>>
      /\ RescheduleOrRemove(c, l, rest)
  BY DEF ReleaseLock, Destroy
<1>6. PICK d \in Durations : \E i \in 1 .. Len(own[c][d]) :
             own[c][d][i] = t /\ own' = [own EXCEPT ![c][d] = RemoveAt(@, i)]
  BY DEF ReleaseLock
<1>7. PICK i \in 1 .. Len(own[c][d]) :
             own[c][d][i] = t /\ own' = [own EXCEPT ![c][d] = RemoveAt(@, i)]
  BY <1>6
<1>8. /\ own' \in [Ctx -> [Durations -> Seq(Ticket)]] /\ Inj(own'[c])
      /\ \A u \in Ticket : Has(own'[c], u) <=> Has(own[c], u) /\ u # t
      /\ \A b \in Ctx \ {c} : own'[b] = own[b]
  <2> HIDE DEF t
  <2>1. own' = [own EXCEPT ![c][d] = RemoveAt(@, i)] /\ own[c][d][i] = t BY <1>7
  <2>2. /\ own' \in [Ctx -> [Durations -> Seq(Ticket)]] /\ Inj(own'[c])
        /\ \A u \in Ticket : Has(own'[c], u) <=> Has(own[c], u) /\ u # own[c][d][i]
        /\ \A b \in Ctx \ {c} : own'[b] = own[b]
    BY <2>1, RemoveFacts
  <2> QED BY <2>1, <2>2
<1> HIDE DEF rest
<1>9. /\ hog' \in [Keys -> 0 .. HogBound] /\ rw' \in [Keys -> Ctx \cup {NoCtx}]
      /\ it' \in [Ctx -> Iterator] /\ pc' \in [Ctx -> PcValues]
      /\ \A b \in Ctx \ {c} : it'[b] = it[b] /\ pc'[b] = pc[b]
      /\ pc'[c] \in {"idle", "release", "resched"}
      /\ pc'[c] = "idle" => rest = <<>>
      /\ pc'[c] = "release" => rest # <<>>
      /\ IterOK(c)'
  BY <1>4, <1>5, RescheduleFacts DEF IInv
<1> HIDE DEF l, t
<1>a. /\ granted'[l] = granted[l] \ {t}
      /\ gbits'[l] = ClearBitIfNotInList(gbits[l], ttype[t], TypesOf(granted[l] \ {t}))
      /\ \A k \in Keys \ {l} : granted'[k] = granted[k] /\ gbits'[k] = gbits[k]
      /\ tlock'[t] = NoKey
      /\ \A u \in Ticket \ {t} : tlock'[u] = tlock[u] /\ ttype'[u] = ttype[u]
      /\ \A b \in Ctx \ {c} : rel'[b] = rel[b]
      /\ rel'[c] = rest
      /\ \A k \in Keys : granted[k] \subseteq Ticket /\ waiting[k] \in Seq(Ticket)
  BY <1>3, <1>4, <1>5 DEF IInv, TypeOK
<1>b. \A k \in Keys : t \in granted[k] => k = l
  BY DEF IInv, GrantedOK, l
<1>c. \A k \in Keys : ~In(waiting[k], t)
  BY <1>4, HeldNotWaiting
<1>d. \A k \in Keys : \A u \in granted'[k] : u \in granted[k] /\ u \in Ticket \ {t}
  <2> SUFFICES ASSUME NEW k \in Keys, NEW u \in granted'[k]
               PROVE u \in granted[k] /\ u \in Ticket \ {t}
    OBVIOUS
  <2>1. CASE k = l BY <1>a, <2>1
  <2>2. CASE k # l BY <1>a, <1>b, <2>2
  <2> QED BY <2>1, <2>2
<1>10. TypeOK'
  <2>1. /\ tlock' \in [Ticket -> Keys \cup {NoKey}] /\ ttype' \in [Ticket -> LockTypes]
        /\ granted' \in [Keys -> SUBSET Ticket] /\ gbits' \in [Keys -> SUBSET LockTypes]
        /\ rel' \in [Ctx -> Seq(Ticket)]
    BY <1>3, <1>5 DEF IInv, TypeOK, LockTypes, ClearBitIfNotInList
  <2>2. usvp' \in [Ctx -> UserSavepoint]
    BY <1>5 DEF IInv, TypeOK, UserSavepoint
  <2> QED BY <1>5, <1>8, <1>9, <2>1, <2>2 DEF IInv, TypeOK, srchVars
<1>11. GrantedOK'
  BY <1>a, <1>d DEF IInv, GrantedOK
<1>12. WaitingOK'
  <2> SUFFICES ASSUME NEW k \in Keys, NEW u \in Ticket, In(waiting[k], u)
               PROVE  /\ tlock'[u] = k /\ u \notin granted'[k]
                      /\ call'[CtxOf(u)].cur = u /\ pc'[CtxOf(u)] \in WaitPcs
    BY <1>5 DEF IInv, WaitingOK
  <2>1. u # t /\ CtxOf(u) # c /\ CtxOf(u) \in Ctx
    BY <1>1, <1>c, NotWaiting DEF Ticket, CtxOf
  <2>2. /\ tlock[u] = k /\ u \notin granted[k]
        /\ call[CtxOf(u)].cur = u /\ pc[CtxOf(u)] \in WaitPcs
    BY DEF IInv, WaitingOK
  <2> QED BY <1>5, <1>9, <1>a, <1>d, <2>1, <2>2
<1>13. BitmapsExact'
  <2>1. ASSUME NEW k \in Keys PROVE gbits'[k] = {ttype'[u] : u \in granted'[k]}
    <3>0. gbits[k] = {ttype[u] : u \in granted[k]} BY DEF IInv, BitmapsExact, TypesOf
    <3>1. \A u \in granted'[k] : ttype'[u] = ttype[u] BY <1>a, <1>d
    <3>2. CASE k # l BY <1>a, <3>0, <3>1, <3>2
    <3>3. CASE k = l
      <4> DEFINE S == granted[l]
      <4>1. t \in S BY <1>4 DEF l, t
      <4>2. gbits'[l] = ClearBitIfNotInList({ttype[u] : u \in S}, ttype[t],
                                            {ttype[u] : u \in S \ {t}})
        BY <1>a, <3>0, <3>3 DEF TypesOf
      <4>3. granted'[l] = S \ {t} BY <1>a
      <4> HIDE DEF S
      <4>4. gbits'[l] = {ttype[u] : u \in S \ {t}} BY <4>1, <4>2, ClearBitExact
      <4> QED BY <3>1, <3>3, <4>3, <4>4
    <3> QED BY <3>2, <3>3
  <2>2. ASSUME NEW k \in Keys PROVE wbits'[k] = {ttype'[u] : u \in ToSet(waiting'[k])}
    <3>1. \A u \in ToSet(waiting[k]) : u \in Ticket /\ In(waiting[k], u) BY <1>a, ToSetIn
    <3>2. \A u \in ToSet(waiting[k]) : ttype'[u] = ttype[u] BY <1>a, <1>c, <3>1
    <3> QED BY <1>5, <3>2 DEF IInv, BitmapsExact, TypesOf
  <2> QED BY <2>1, <2>2 DEF BitmapsExact, TypesOf
<1>14. Compatible'
  BY <1>a, <1>d, CompatibleShrinks
<1>15. ThreadOK(c)'
  <2>1. OwnOK(c)'
    <3> SUFFICES ASSUME NEW u \in Ticket, Has(own[c], u), u # t
                 PROVE  CtxOf(u) = c /\ tlock'[u] \in Keys /\ u \in granted'[tlock'[u]]
      BY <1>8 DEF OwnOK
    <3>1. CtxOf(u) = c /\ tlock[u] \in Keys /\ u \in granted[tlock[u]]
      BY DEF IInv, ThreadOK, OwnOK
    <3> QED BY <1>a, <3>1
  <2>2. CallOK(c)' /\ CurOK(c)' /\ UpgOK(c)' /\ HeldOK(c)'
    BY <1>9 DEF CallOK, CurOK, UpgOK, HeldOK, WaitPcs, BusyPcs
  <2>3. WforOK(c)' BY <1>1, <1>5 DEF IInv, ThreadOK, WforOK
  <2>4. RelOK(c)' BY <1>3, <1>8, <1>9, <1>a DEF IInv, ThreadOK, RelOK
  <2> QED BY <1>9, <2>1, <2>2, <2>3, <2>4 DEF ThreadOK
<1>16. ASSUME NEW b \in Ctx \ {c} PROVE ThreadOK(b)'
  <2>1. ThreadOK(b) BY DEF IInv
  <2>2. \A u \in Ticket : CtxOf(u) = b => u # t BY <1>4 DEF t
  <2>3. \A u \in Ticket : CtxOf(u) = b => tlock'[u] = tlock[u] /\ ttype'[u] = ttype[u]
    BY <1>a, <2>2
  <2>4. \A k \in Keys : \A u \in granted[k] : CtxOf(u) = b => u \in granted'[k]
    BY <1>a, <2>2
  <2> QED BY <1>5, <1>8, <1>9, <1>a, <2>1, <2>3, <2>4, OtherThread
<1> QED BY <1>10, <1>11, <1>12, <1>13, <1>14, <1>15, <1>16 DEF IInv

\* The type of a held ticket t of c on l becomes y, and the tickets of c on l
\* that are not in G go: the tickets and lists after such a step.
Retyped(c, t, l, y, G) ==
  /\ G \in SUBSET granted[l] /\ CtxOf(t) = c /\ tlock[t] = l /\ t \in granted[l] /\ t \notin G
  /\ Safe(c, l, y)
  /\ \A u \in granted[l] : u \notin G => CtxOf(u) = c
  /\ granted' = [granted EXCEPT ![l] = G \cup {t}]
  /\ gbits' = [gbits EXCEPT ![l] = {ttype[u] : u \in G} \cup {y}]
  /\ ttype'[t] = y /\ tlock'[t] = l
  /\ \A u \in Ticket : CtxOf(u) # c \/ u \in G => tlock'[u] = tlock[u] /\ ttype'[u] = ttype[u]
  /\ \A k \in Keys : \A u \in granted[k] :
        k # l => tlock'[u] = tlock[u] /\ ttype'[u] = ttype[u]
  /\ pc[c] \notin WaitPcs /\ UNCHANGED <<waiting, wbits>>
  /\ \A b \in Ctx \ {c} : call'[b] = call[b] /\ pc'[b] = pc[b]

\* Such a step keeps what the invariant says of the lists of the locks.
LEMMA RetypeFacts ==
  ASSUME IInv, NEW c \in Ctx, NEW t \in Ticket, NEW l \in Keys, NEW y \in LockTypes, NEW G,
         Retyped(c, t, l, y, G)
  PROVE  GrantedOK' /\ WaitingOK' /\ BitmapsExact' /\ Compatible'
<1> USE DEF Retyped
<1>1. /\ granted'[l] = G \cup {t} /\ gbits'[l] = {ttype[u] : u \in G} \cup {y}
      /\ \A k \in Keys \ {l} : granted'[k] = granted[k] /\ gbits'[k] = gbits[k]
      /\ \A k \in Keys : granted[k] \subseteq Ticket /\ waiting[k] \in Seq(Ticket)
  BY DEF IInv, TypeOK
<1>2. \A k \in Keys : \A u \in granted'[k] : /\ u \in granted[k] /\ u \in Ticket
                                             /\ tlock'[u] = k
                                             /\ u # t => ttype'[u] = ttype[u]
  <2> SUFFICES ASSUME NEW k \in Keys, NEW u \in granted'[k]
               PROVE  /\ u \in granted[k] /\ u \in Ticket /\ tlock'[u] = k
                      /\ u # t => ttype'[u] = ttype[u]
    OBVIOUS
  <2>1. CASE k # l BY <1>1, <2>1 DEF IInv, GrantedOK
  <2>2. CASE k = l /\ u # t
    <3>1. u \in G /\ u \in granted[l] /\ u \in Ticket BY <1>1, <2>2
    <3> QED BY <2>2, <3>1 DEF IInv, GrantedOK
  <2>3. CASE k = l /\ u = t BY <1>1, <2>3
  <2> QED BY <2>1, <2>2, <2>3
<1>3. GrantedOK' BY <1>2 DEF GrantedOK
<1>4. \A k \in Keys : \A u \in Ticket : In(waiting[k], u) =>
         CtxOf(u) # c /\ CtxOf(u) \in Ctx /\ tlock'[u] = tlock[u] /\ ttype'[u] = ttype[u]
  <2>1. \A u \in Ticket : CtxOf(u) \in Ctx BY DEF Ticket, CtxOf
  <2> QED BY <2>1, NotWaiting
<1>5. WaitingOK'
  <2> SUFFICES ASSUME NEW k \in Keys, NEW u \in Ticket, In(waiting[k], u)
               PROVE  /\ tlock'[u] = k /\ u \notin granted'[k]
                      /\ call'[CtxOf(u)].cur = u /\ pc'[CtxOf(u)] \in WaitPcs
    BY DEF IInv, WaitingOK
  <2>1. /\ tlock[u] = k /\ u \notin granted[k]
        /\ call[CtxOf(u)].cur = u /\ pc[CtxOf(u)] \in WaitPcs
    BY DEF IInv, WaitingOK
  <2> QED BY <1>2, <1>4, <2>1
<1>6. BitmapsExact'
  <2>1. ASSUME NEW k \in Keys PROVE gbits'[k] = {ttype'[u] : u \in granted'[k]}
    <3>1. CASE k # l
      <4>1. gbits[k] = {ttype[u] : u \in granted[k]} BY DEF IInv, BitmapsExact, TypesOf
      <4>2. \A u \in granted[k] : ttype'[u] = ttype[u] BY <3>1
      <4> QED BY <1>1, <3>1, <4>1, <4>2
    <3>2. CASE k = l
      <4>1. \A u \in G : ttype'[u] = ttype[u] BY <1>1
      <4>2. {ttype'[u] : u \in G \cup {t}} = {ttype'[u] : u \in G} \cup {ttype'[t]} OBVIOUS
      <4>3. {ttype'[u] : u \in G} = {ttype[u] : u \in G} BY <4>1
      <4> QED BY <1>1, <3>2, <4>2, <4>3
    <3> QED BY <3>1, <3>2
  <2>2. ASSUME NEW k \in Keys PROVE wbits'[k] = {ttype'[u] : u \in ToSet(waiting'[k])}
    <3>1. \A u \in ToSet(waiting[k]) : u \in Ticket /\ In(waiting[k], u) BY <1>1, ToSetIn
    <3>2. \A u \in ToSet(waiting[k]) : ttype'[u] = ttype[u] BY <1>4, <3>1
    <3> QED BY <3>2 DEF IInv, BitmapsExact, TypesOf
  <2> QED BY <2>1, <2>2 DEF BitmapsExact, TypesOf
<1>7. Compatible'
  <2>1. \A k \in Keys : granted'[k] \subseteq Ticket BY <1>2
  <2>2. granted'[l] \subseteq granted[l] \cup {t} BY <1>2
  <2>3. \A k \in Keys : k # l => granted'[k] \subseteq granted[k] /\ t \notin granted'[k]
    BY <1>1 DEF IInv, GrantedOK
  <2>4. \A k \in Keys : \A u \in granted'[k] : u # t => ttype'[u] = ttype[u] BY <1>2
  <2> QED BY <2>1, <2>2, <2>3, <2>4, CompatibleKept
<1> QED BY <1>3, <1>5, <1>6, <1>7

\* A downgrade is to a weaker type.
LEMMA DowngradeIsWeaker ==
  \A l \in ObjectKeys : \A p \in DowngradePairs :
      HasStrongerOrEqualType(l, p[1], p[2]) /\ p[1] \in LockTypes /\ p[2] \in LockTypes
<1> SUFFICES ASSUME NEW l \in ObjectKeys, NEW p \in DowngradePairs
             PROVE  HasStrongerOrEqualType(l, p[1], p[2]) /\ p[1] \in LockTypes /\ p[2] \in LockTypes
  OBVIOUS
<1>1. l \notin ScopedKeys BY KeyAssumption
<1>2. \A y : GrantedIncompat(l, y) = ObjectGrantedIncompat(y) BY <1>1 DEF GrantedIncompat
<1>3. p[1] \in LockTypes /\ p[2] \in LockTypes BY DEF DowngradePairs, LockTypes
<1>4. ObjectGrantedIncompat(p[2]) \subseteq ObjectGrantedIncompat(p[1])
  BY DEF DowngradePairs, ObjectGrantedIncompat
<1> QED BY <1>2, <1>3, <1>4 DEF HasStrongerOrEqualType

\* downgrade_lock().
LEMMA DowngradeInv ==
  ASSUME IInv, NEW c \in Ctx, DowngradeLock(c)
  PROVE  IInv'
<1>1. pc[c] = "idle" /\ pc[c] \notin WaitPcs
      /\ UNCHANGED <<tlock, slot, wfor, own, call, usvp, rel, srchVars>>
  BY DEF DowngradeLock, WaitPcs
<1>2. PICK d \in Durations : \E i \in 1 .. Len(own[c][d]) : \E p \in DowngradePairs :
          LET t == own[c][d][i]
              l == tlock[t]
          IN /\ l \in ObjectKeys
             /\ ttype[t] = p[1]
             /\ ttype' = [ttype EXCEPT ![t] = p[2]]
             /\ gbits' = [gbits EXCEPT ![l] =
                            ClearBitIfNotInList(@, p[1], TypesOf(granted[l] \ {t})) \cup {p[2]}]
             /\ granted' = [granted EXCEPT ![l] = (@ \ {t}) \cup {t}]
             /\ UNCHANGED <<waiting, wbits>>
             /\ RescheduleOrRemove(c, l, <<>>)
  BY ZenonT(40) DEF DowngradeLock
<1>3. PICK i \in 1 .. Len(own[c][d]) : \E p \in DowngradePairs :
          LET t == own[c][d][i]
              l == tlock[t]
          IN /\ l \in ObjectKeys
             /\ ttype[t] = p[1]
             /\ ttype' = [ttype EXCEPT ![t] = p[2]]
             /\ gbits' = [gbits EXCEPT ![l] =
                            ClearBitIfNotInList(@, p[1], TypesOf(granted[l] \ {t})) \cup {p[2]}]
             /\ granted' = [granted EXCEPT ![l] = (@ \ {t}) \cup {t}]
             /\ UNCHANGED <<waiting, wbits>>
             /\ RescheduleOrRemove(c, l, <<>>)
  BY <1>2
<1> DEFINE t == own[c][d][i]
           l == tlock[t]
<1>4. own[c][d] \in Seq(Ticket) BY DEF IInv, TypeOK
<1>5. t \in Ticket /\ Has(own[c], t) BY <1>4 DEF Has, In
<1> HIDE DEF t
<1>6. CtxOf(t) = c /\ l \in Keys /\ t \in granted[l]
  BY <1>5 DEF IInv, ThreadOK, OwnOK
<1>7. PICK p \in DowngradePairs :
             /\ l \in ObjectKeys
             /\ ttype[t] = p[1]
             /\ ttype' = [ttype EXCEPT ![t] = p[2]]
             /\ gbits' = [gbits EXCEPT ![l] =
                            ClearBitIfNotInList(@, p[1], TypesOf(granted[l] \ {t})) \cup {p[2]}]
             /\ granted' = [granted EXCEPT ![l] = (@ \ {t}) \cup {t}]
             /\ UNCHANGED <<waiting, wbits>>
             /\ RescheduleOrRemove(c, l, <<>>)
  BY <1>3 DEF t
<1> DEFINE G == granted[l] \ {t}
<1>8. HasStrongerOrEqualType(l, p[1], p[2]) /\ p[2] \in LockTypes
  BY <1>7, DowngradeIsWeaker
<1>9. Safe(c, l, p[2]) BY <1>6, <1>7, <1>8, StrongerIsSafe
<1>10. /\ hog' \in [Keys -> 0 .. HogBound] /\ rw' \in [Keys -> Ctx \cup {NoCtx}]
       /\ it' \in [Ctx -> Iterator] /\ pc' \in [Ctx -> PcValues]
       /\ \A b \in Ctx \ {c} : it'[b] = it[b] /\ pc'[b] = pc[b]
       /\ pc'[c] \in {"idle", "release", "resched"}
       /\ pc'[c] # "release"
       /\ IterOK(c)'
  BY <1>6, <1>7, RescheduleFacts DEF IInv
<1>11. ttype'[t] = p[2] /\ \A u \in Ticket \ {t} : ttype'[u] = ttype[u]
  BY <1>5, <1>7 DEF IInv, TypeOK
<1>12. gbits[l] = {ttype[u] : u \in granted[l]} BY <1>6 DEF IInv, BitmapsExact, TypesOf
<1>13. gbits' = [gbits EXCEPT ![l] = {ttype[u] : u \in G} \cup {p[2]}]
  <2> DEFINE S == granted[l]
  <2>1. ClearBitIfNotInList(gbits[l], p[1], TypesOf(granted[l] \ {t})) = {ttype[u] : u \in S \ {t}}
    <3>1. t \in S BY <1>6
    <3>2. ClearBitIfNotInList(gbits[l], p[1], TypesOf(granted[l] \ {t}))
            = ClearBitIfNotInList({ttype[u] : u \in S}, ttype[t], {ttype[u] : u \in S \ {t}})
      BY <1>7, <1>12 DEF TypesOf
    <3> HIDE DEF S
    <3> QED BY <3>1, <3>2, ClearBitExact
  <2> QED BY <1>7, <2>1
<1>14. granted' = [granted EXCEPT ![l] = G \cup {t}] BY <1>7
<1>15. \A k \in Keys : \A u \in granted[k] : k # l => u \in Ticket \ {t}
  BY DEF IInv, TypeOK, GrantedOK
<1>a. G \in SUBSET granted[l] /\ t \notin G /\ G \subseteq Ticket
  BY <1>6 DEF IInv, TypeOK
<1>b. \A u \in granted[l] : u \notin G => CtxOf(u) = c BY <1>6
<1> HIDE DEF l, G
<1>c. \A u \in Ticket : CtxOf(u) # c \/ u \in G => tlock'[u] = tlock[u] /\ ttype'[u] = ttype[u]
  BY <1>1, <1>6, <1>11, <1>a
<1>d. \A k \in Keys : \A u \in granted[k] : k # l => tlock'[u] = tlock[u] /\ ttype'[u] = ttype[u]
  BY <1>1, <1>11, <1>15
<1>16. GrantedOK' /\ WaitingOK' /\ BitmapsExact' /\ Compatible'
  <2>1. /\ tlock[t] = l /\ tlock'[t] = l /\ UNCHANGED <<waiting, wbits>>
        /\ \A b \in Ctx \ {c} : call'[b] = call[b] /\ pc'[b] = pc[b]
    BY <1>1, <1>7, <1>10 DEF l
  <2>2. Retyped(c, t, l, p[2], G)
    BY <1>1, <1>6, <1>9, <1>11, <1>13, <1>14, <1>a, <1>b, <1>c, <1>d, <2>1 DEF Retyped
  <2> QED BY <1>5, <1>6, <1>8, <2>2, RetypeFacts
<1>17. TypeOK'
  <2>1. ttype' \in [Ticket -> LockTypes] BY <1>5, <1>7, <1>8 DEF IInv, TypeOK
  <2>3. granted' \in [Keys -> SUBSET Ticket] BY <1>5, <1>14, <1>a DEF IInv, TypeOK
  <2>2. gbits' \in [Keys -> SUBSET LockTypes]
    <3>1. {ttype[u] : u \in G} \subseteq LockTypes BY <1>a DEF IInv, TypeOK
    <3> QED BY <1>8, <1>13, <3>1 DEF IInv, TypeOK
  <2> QED BY <1>1, <1>7, <1>10, <2>1, <2>2, <2>3 DEF IInv, TypeOK, srchVars
<1>18. \A k \in Keys : \A u \in granted[k] : u \in granted'[k]
  <2>1. granted'[l] = granted[l] /\ \A k \in Keys \ {l} : granted'[k] = granted[k]
    BY <1>6, <1>14 DEF IInv, TypeOK, G, l
  <2> QED BY <2>1
<1>19. ThreadOK(c)'
  <2>1. OwnOK(c)' BY <1>1, <1>18 DEF IInv, ThreadOK, OwnOK
  <2>2. CallOK(c)' /\ CurOK(c)' /\ UpgOK(c)' /\ HeldOK(c)'
    BY <1>10 DEF CallOK, CurOK, UpgOK, HeldOK, WaitPcs, BusyPcs
  <2>3. WforOK(c)' BY <1>1 DEF IInv, ThreadOK, WforOK
  <2>4. RelOK(c)' BY <1>1, <1>10 DEF IInv, ThreadOK, RelOK
  <2> QED BY <1>10, <2>1, <2>2, <2>3, <2>4 DEF ThreadOK
<1>20. ASSUME NEW b \in Ctx \ {c} PROVE ThreadOK(b)'
  <2>1. ThreadOK(b) BY DEF IInv
  <2> QED BY <1>1, <1>10, <1>18, <1>c, <2>1, OtherThread
<1> QED BY <1>16, <1>17, <1>19, <1>20 DEF IInv

\* upgrade_shared_lock() merges the new lock into the ticket.
LEMMA MergeInv ==
  ASSUME IInv, NEW c \in Ctx, MergeUpgrade(c)
  PROVE  IInv'
<1> DEFINE k == call[c]
           t == k.upg
           n == k.cur
           l == tlock[t]
           y == Head(k.reqs).type
           isNew == ~HasLock(c, k.svp, k.cur)
           G == granted[l] \ ({t} \cup IF isNew THEN {n} ELSE {})
<1>1. pc[c] = "upgrade" /\ pc[c] \notin WaitPcs /\ pc[c] \in BusyPcs /\ k.op = "upgrade"
  BY DEF MergeUpgrade, WaitPcs, BusyPcs, IInv, ThreadOK, CallOK
<1>2. Req(c).key \in Keys /\ y \in LockTypes /\ Req(c).type = y BY <1>1, ReqType DEF Req
<1>3. /\ t \in Ticket /\ Has(own[c], t) /\ l = Req(c).key
      /\ ~HasStrongerOrEqualType(l, ttype[t], y)
  BY <1>1, <1>2 DEF IInv, ThreadOK, UpgOK
<1>4. /\ n \in Ticket /\ In(own[c][TRANSACTION], n) /\ tlock[n] = l
      /\ HasStrongerOrEqualType(l, ttype[n], y)
  BY <1>1, <1>2, <1>3 DEF IInv, ThreadOK, HeldOK
<1>5. n # t /\ Has(own[c], n) BY <1>3, <1>4 DEF Has, Durations, TRANSACTION
<1>6. /\ CtxOf(t) = c /\ CtxOf(n) = c /\ l \in Keys /\ t \in granted[l] /\ n \in granted[l]
  BY <1>3, <1>4, <1>5 DEF IInv, ThreadOK, OwnOK
<1>7. Safe(c, l, y) BY <1>2, <1>4, <1>6, StrongerIsSafe
<1>8. /\ granted' = [granted EXCEPT ![l] = G \cup {t}]
      /\ pc' = [pc EXCEPT ![c] = "idle"] /\ call' = [call EXCEPT ![c] = NoCall]
      /\ UNCHANGED <<waiting, wbits, hog, rw, slot, wfor, usvp, rel, it, srchVars>>
  BY DEF MergeUpgrade
<1>9. gbits[l] = {ttype[u] : u \in granted[l]} BY <1>6 DEF IInv, BitmapsExact, TypesOf
<1>10. gbits' = [gbits EXCEPT ![l] = {ttype[u] : u \in G} \cup {y}]
  <2> DEFINE bits1 == IF isNew
                      THEN ClearBitIfNotInList(gbits[l], ttype[n], TypesOf(granted[l] \ {n}))
                      ELSE gbits[l]
             S == granted[l]
             R == IF isNew THEN S \ {n} ELSE S
  <2>1. gbits' = [gbits EXCEPT ![l] =
                    ClearBitIfNotInList(bits1, ttype[t], TypesOf(G)) \cup {y}]
    BY DEF MergeUpgrade
  <2>2. bits1 = {ttype[u] : u \in R}
    <3>1. ClearBitIfNotInList(gbits[l], ttype[n], TypesOf(granted[l] \ {n}))
            = ClearBitIfNotInList({ttype[u] : u \in S}, ttype[n], {ttype[u] : u \in S \ {n}})
      BY <1>9 DEF TypesOf
    <3>2. n \in S BY <1>6
    <3>3. gbits[l] = {ttype[u] : u \in S} BY <1>9
    <3> HIDE DEF S, isNew
    <3>4. ClearBitIfNotInList({ttype[u] : u \in S}, ttype[n], {ttype[u] : u \in S \ {n}})
            = {ttype[u] : u \in S \ {n}}
      BY <3>2, ClearBitExact
    <3>5. CASE isNew BY <3>1, <3>4, <3>5
    <3>6. CASE ~isNew BY <3>3, <3>6
    <3> QED BY <3>5, <3>6
  <2>3. G = R \ {t} /\ t \in R
    <3> HIDE DEF isNew
    <3>1. CASE isNew BY <1>5, <1>6, <3>1
    <3>2. CASE ~isNew BY <1>5, <1>6, <3>2
    <3> QED BY <3>1, <3>2
  <2>4. TypesOf(G) = {ttype[u] : u \in R \ {t}}
    <3> HIDE DEF G, R
    <3> QED BY <2>3 DEF TypesOf
  <2> HIDE DEF R, bits1, G
  <2>5. ClearBitIfNotInList(bits1, ttype[t], TypesOf(G)) = {ttype[u] : u \in G}
    <3>1. ClearBitIfNotInList({ttype[u] : u \in R}, ttype[t], {ttype[u] : u \in R \ {t}})
            = {ttype[u] : u \in R \ {t}}
      BY <2>3, ClearBitExact
    <3> QED BY <2>2, <2>3, <2>4, <3>1
  <2> QED BY <2>1, <2>5
<1>a. G \in SUBSET granted[l] /\ t \notin G /\ G \subseteq Ticket
  BY <1>6 DEF IInv, TypeOK
<1>b. \A u \in granted[l] : u \notin G => CtxOf(u) = c
  <2> HIDE DEF isNew
  <2> QED BY <1>6
<1>11. \/ /\ isNew
          /\ \E i \in 1 .. Len(own[c][TRANSACTION]) :
                /\ own[c][TRANSACTION][i] = n
                /\ own' = [own EXCEPT ![c][TRANSACTION] = RemoveAt(@, i)]
          /\ tlock' = [tlock EXCEPT ![n] = NoKey]
          /\ ttype' = [ttype EXCEPT ![t] = y, ![n] = "S"]
       \/ /\ ~isNew
          /\ ttype' = [ttype EXCEPT ![t] = y]
          /\ UNCHANGED <<own, tlock>>
  BY DEF MergeUpgrade
<1>c. isNew => n \notin G OBVIOUS
<1> HIDE DEF isNew, y, G
<1>12. /\ own' \in [Ctx -> [Durations -> Seq(Ticket)]] /\ Inj(own'[c])
       /\ \A u \in Ticket : Has(own'[c], u) => Has(own[c], u) /\ (isNew => u # n)
       /\ \A b \in Ctx \ {c} : own'[b] = own[b]
  <2>1. CASE isNew
    <3>1. PICK i \in 1 .. Len(own[c][TRANSACTION]) :
                /\ own[c][TRANSACTION][i] = n
                /\ own' = [own EXCEPT ![c][TRANSACTION] = RemoveAt(@, i)]
      BY <1>11, <2>1
    <3>2. TRANSACTION \in Durations BY DEF TRANSACTION, Durations
    <3>3. /\ own' \in [Ctx -> [Durations -> Seq(Ticket)]] /\ Inj(own'[c])
          /\ \A u \in Ticket : Has(own'[c], u) <=> Has(own[c], u) /\ u # own[c][TRANSACTION][i]
          /\ \A b \in Ctx \ {c} : own'[b] = own[b]
      BY <3>1, <3>2, RemoveFacts
    <3>4. own[c][TRANSACTION][i] = n BY <3>1
    <3> HIDE DEF n
    <3> QED BY <3>3, <3>4
  <2>2. CASE ~isNew
    BY <1>11, <2>2 DEF IInv, TypeOK, ThreadOK, OwnOK
  <2> QED BY <2>1, <2>2
<1>13. /\ ttype'[t] = y /\ tlock'[t] = tlock[t]
       /\ \A u \in Ticket \ {t, n} : tlock'[u] = tlock[u] /\ ttype'[u] = ttype[u]
       /\ ~isNew => tlock'[n] = tlock[n] /\ ttype'[n] = ttype[n]
  <2> HIDE DEF t, n
  <2>0. tlock \in [Ticket -> Keys \cup {NoKey}] /\ ttype \in [Ticket -> LockTypes]
    BY DEF IInv, TypeOK
  <2>1. CASE isNew BY <1>3, <1>4, <1>5, <1>11, <2>0, <2>1
  <2>2. CASE ~isNew BY <1>3, <1>4, <1>5, <1>11, <2>0, <2>2
  <2> QED BY <2>1, <2>2
<1>14. \A j \in Keys : \A u \in granted[j] : j # l => u \in Ticket \ {t, n}
  BY <1>4 DEF IInv, TypeOK, GrantedOK
<1>15. /\ call' \in [Ctx -> CallRecord] /\ pc' \in [Ctx -> PcValues]
       /\ \A b \in Ctx \ {c} : call'[b] = call[b] /\ pc'[b] = pc[b]
       /\ pc'[c] = "idle"
  <2>1. NoCall \in CallRecord
    BY EmptySeq DEF NoCall, CallRecord, OpValues, NoSavepoint, Savepoint
  <2> QED BY <1>8, <2>1 DEF IInv, TypeOK, PcValues
<1> HIDE DEF t, n, k
<1>d. \A u \in Ticket : CtxOf(u) # c \/ u \in G => tlock'[u] = tlock[u] /\ ttype'[u] = ttype[u]
  <2> SUFFICES ASSUME NEW u \in Ticket, CtxOf(u) # c \/ u \in G
               PROVE  tlock'[u] = tlock[u] /\ ttype'[u] = ttype[u]
    OBVIOUS
  <2>1. u # t /\ (isNew => u # n) BY <1>6, <1>a, <1>c
  <2> QED BY <1>13, <2>1
<1>e. \A j \in Keys : \A u \in granted[j] : j # l => tlock'[u] = tlock[u] /\ ttype'[u] = ttype[u]
  BY <1>13, <1>14
<1>16. GrantedOK' /\ WaitingOK' /\ BitmapsExact' /\ Compatible'
  <2> HIDE DEF l
  <2>1. tlock[t] = l /\ tlock'[t] = l BY <1>13 DEF l
  <2>2. Retyped(c, t, l, y, G)
    BY <1>1, <1>3, <1>6, <1>7, <1>8, <1>10, <1>13, <1>15, <1>a, <1>b, <1>d, <1>e, <2>1 DEF Retyped
  <2> QED BY <1>2, <1>3, <1>6, <2>2, RetypeFacts
<1>17. TypeOK'
  <2>1. tlock' \in [Ticket -> Keys \cup {NoKey}] /\ ttype' \in [Ticket -> LockTypes]
    BY <1>2, <1>11 DEF IInv, TypeOK, LockTypes
  <2>2. granted' \in [Keys -> SUBSET Ticket]
    BY <1>3, <1>8, <1>a DEF IInv, TypeOK
  <2>3. gbits' \in [Keys -> SUBSET LockTypes]
    <3>1. {ttype[u] : u \in G} \subseteq LockTypes BY <1>a DEF IInv, TypeOK
    <3> QED BY <1>2, <1>10, <3>1 DEF IInv, TypeOK
  <2> QED BY <1>8, <1>12, <1>15, <2>1, <2>2, <2>3 DEF IInv, TypeOK, srchVars
<1>18. /\ granted'[l] = G \cup {t} /\ \A j \in Keys \ {l} : granted'[j] = granted[j]
  BY <1>6, <1>8 DEF IInv, TypeOK
<1>19. ThreadOK(c)'
  <2>1. OwnOK(c)'
    <3> SUFFICES ASSUME NEW u \in Ticket, Has(own[c], u), isNew => u # n
                 PROVE  CtxOf(u) = c /\ tlock'[u] \in Keys /\ u \in granted'[tlock'[u]]
      BY <1>12 DEF OwnOK
    <3>1. CtxOf(u) = c /\ tlock[u] \in Keys /\ u \in granted[tlock[u]]
      BY DEF IInv, ThreadOK, OwnOK
    <3>2. tlock'[u] = tlock[u] BY <1>13
    <3>3. CASE tlock[u] # l BY <1>18, <3>1, <3>2, <3>3
    <3>4. CASE tlock[u] = l
      <4>1. u \in G \cup {t} BY <3>1, <3>4 DEF G, t, n, l, k
      <4> QED BY <1>18, <3>1, <3>2, <3>4, <4>1
    <3> QED BY <3>3, <3>4
  <2>2. CallOK(c)' /\ CurOK(c)' /\ UpgOK(c)' /\ HeldOK(c)' /\ IterOK(c)'
    BY <1>15 DEF CallOK, CurOK, UpgOK, HeldOK, IterOK, WaitPcs, BusyPcs
  <2>3. WforOK(c)' BY <1>1, <1>8 DEF IInv, ThreadOK, WforOK
  <2>4. RelOK(c)'
    <3>1. rel[c] = <<>> BY <1>1 DEF IInv, ThreadOK, RelOK
    <3>2. SeqInj(<<>>) /\ \A u : ~In(<<>>, u) BY DEF SeqInj, In
    <3> QED BY <1>8, <1>15, <3>1, <3>2 DEF RelOK
  <2> QED BY <2>1, <2>2, <2>3, <2>4 DEF ThreadOK
<1>20. ASSUME NEW b \in Ctx \ {c} PROVE ThreadOK(b)'
  <2>1. ThreadOK(b) BY DEF IInv
  <2>2. \A j \in Keys : \A u \in granted[j] : CtxOf(u) = b => u \in granted'[j]
    BY <1>18, <1>b
  <2>3. \A u \in Ticket : CtxOf(u) = b => tlock'[u] = tlock[u] /\ ttype'[u] = ttype[u]
    BY <1>d
  <2> QED BY <1>8, <1>12, <1>15, <2>1, <2>2, <2>3, OtherThread
<1> QED BY <1>16, <1>17, <1>19, <1>20 DEF IInv

-----------------------------------------------------------------------------
(* The theorems *)

\* Every step keeps the invariant.
LEMMA NextInv == IInv /\ [Next]_vars => IInv'
<1> SUFFICES ASSUME IInv, [Next]_vars PROVE IInv'
  OBVIOUS
<1>1. CASE UNCHANGED vars
  <2> USE <1>1 DEF vars, listVars, srchVars
  <2>1. TypeOK' BY DEF IInv, TypeOK
  <2>2. \A b \in Ctx : WforOK(b)' BY DEF IInv, ThreadOK, WforOK
  <2> QED BY <2>1, <2>2, QuietInv
<1>0. ASSUME NEW c \in Ctx, Asking(c) PROVE IInv'
  BY <1>0, AcquireInv DEF Asking
<1>2. ASSUME NEW c \in Ctx, Enter(c) PROVE IInv'
  <2>1. ASSUME NEW r \in Requests, AcquireLock(c, r) \/ TryAcquireLock(c, r) \/ HandlerOpen(c, r)
        PROVE  IInv'
    BY <1>0, <2>1, SingleAsks
  <2>2. CASE \E L \in LockLists : AcquireLocks(c, L)
    BY <1>0, <2>2, ListAsks
  <2>3. CASE \/ SetExplicitDurationForAllLocks(c) \/ SetTransactionDurationForAllLocks(c)
             \/ SetLockDuration(c) \/ TakeSavepoint(c)
    BY <2>3, DurationsRearrange, RearrangeInv
  <2> QED
    BY <1>0, <1>2, <2>1, <2>2, <2>3, UpgradeAsks, DowngradeInv, ReleaseCallsInv DEF Enter
<1>3. ASSUME NEW c \in Ctx, Proceed(c) PROVE IInv'
  BY <1>0, <1>3, ListAsks, HandlerKeepInv, HandlerFailInv, MergeInv, WillWaitForInv, SearchInv,
     WaitGrantedInv, AbortWaitInv, ReleaseLockInv, GrantNextInv, RescheduleDoneInv DEF Proceed
<1>4. ASSUME NEW c \in Ctx, CutShort(c) PROVE IInv'
  BY <1>4, CutShortInv
<1> QED BY <1>1, <1>2, <1>3, <1>4 DEF Next

\* The invariant holds in every state the lock manager can reach.
THEOREM Invariance == Spec => []IInv
BY InitInv, NextInv, PTL DEF Spec

\* The variables of the lock manager keep their types: no list, slot, iterator
\* or search frame ever holds anything else, whatever the callers do.
THEOREM TypeCorrect == Spec => []TypeOK
<1>1. IInv => TypeOK BY DEF IInv
<1> QED BY <1>1, Invariance, PTL

\* Mutual exclusion: two contexts never hold tickets on one lock that the
\* granted matrix of mdl.cc declares incompatible.
THEOREM MutualExclusion == Spec => []Compatible
<1>1. IInv => Compatible BY DEF IInv
<1> QED BY <1>1, Invariance, PTL

\* The bitmaps of m_granted and m_waiting are at any time the set of types in
\* the list, so that the fast path of can_grant_lock() is never wrong.
THEOREM BitmapsAreExact == Spec => []BitmapsExact
<1>1. IInv => BitmapsExact BY DEF IInv
<1> QED BY <1>1, Invariance, PTL

-----------------------------------------------------------------------------
(* Savepoints *)

USE NullAssumption

\* In the list s, newest first, the tickets of K are those from x on
Marks(s, x, K) == \A i \in 1 .. Len(s) : s[i] \in K <=> \E n \in 1 .. i : s[n] = x

\* No ticket of K is in front of x
Guards(s, x, K) == \A i \in 1 .. Len(s) : s[i] \in K => \E n \in 1 .. i : s[n] = x

\* A context that holds o still holds all that its savepoint sv protects, and
\* the sentinels of sv are where these tickets begin
KeptIn(o, sv) ==
    /\ ~sv.set => sv.kept = {} /\ sv.at = NoSavepoint
    /\ \A t \in sv.kept : In(o[STATEMENT], t) \/ In(o[TRANSACTION], t)
    /\ sv.at.stmt \in sv.kept \cup {NoTicket} /\ sv.at.trans \in sv.kept \cup {NoTicket}
    /\ Marks(o[STATEMENT], sv.at.stmt, sv.kept)
    /\ Marks(o[TRANSACTION], sv.at.trans, sv.kept)

\* A roll back to v, the savepoint of a call, meets no ticket of K
GuardIn(o, v, K) == Guards(o[STATEMENT], v.stmt, K) /\ Guards(o[TRANSACTION], v.trans, K)

\* A call at p with the record k may still look at its own savepoint
Rolls(p, k) ==
    \/ p \in {"acquire", "upgrade", "handler"}
    \/ p \in WaitPcs /\ k.op \in {"list", "handler", "upgrade"}

\* What a savepoint of SQL protects is neither released nor in front of the
\* savepoint of a call
SavedIn(o, sv, r, p, k) ==
    /\ KeptIn(o, sv)
    /\ \A t \in sv.kept : ~In(r, t)
    /\ Rolls(p, k) => GuardIn(o, k.svp, sv.kept)

SavedOK(c) == SavedIn(own[c], usvp[c], rel[c], pc[c], call[c])

SInv == IInv /\ \A c \in Ctx : SavedOK(c)

\* A step of c leaves the rest to the other contexts
Private(c) ==
    \A b \in Ctx \ {c} : /\ own'[b] = own[b] /\ usvp'[b] = usvp[b] /\ rel'[b] = rel[b]
                         /\ pc'[b] = pc[b] /\ call'[b] = call[b]

\* What a step of c has to show
SavedAfter(c) == Private(c) /\ SavedIn(own'[c], usvp'[c], rel'[c], pc'[c], call'[c])

\* release_locks_stored_before() meets exactly the tickets in front of the sentinel.
LEMMA StoredBeforeExact ==
  ASSUME NEW S, NEW s \in Seq(S), NEW x, SeqInj(s)
  PROVE  \A i \in 1 .. Len(s) :
            In(StoredBefore(s, x), s[i]) <=> ~\E n \in 1 .. i : s[n] = x
<1>0. Len(s) \in Nat OBVIOUS
<1>1. CASE \E i \in 1 .. Len(s) : s[i] = x
  <2>1. PICK m \in 1 .. Len(s) : m = CHOOSE i \in 1 .. Len(s) : s[i] = x
    BY <1>1
  <2>2. s[m] = x BY <1>1, <2>1
  <2>3. StoredBefore(s, x) = SubSeq(s, 1, m - 1) BY <1>1, <2>1 DEF StoredBefore
  <2> DEFINE R == SubSeq(s, 1, m - 1)
  <2>4. Len(R) = m - 1 /\ \A j \in 1 .. m - 1 : R[j] = s[j] BY <1>0
  <2> HIDE DEF R
  <2>5. ASSUME NEW i \in 1 .. Len(s) PROVE In(R, s[i]) <=> i < m
    <3>1. In(R, s[i]) => i < m
      <4>1. ASSUME NEW j \in 1 .. Len(R), R[j] = s[i] PROVE i < m
        <5>1. j \in 1 .. m - 1 /\ j \in 1 .. Len(s) /\ s[j] = s[i] BY <1>0, <2>4, <4>1
        <5>2. j = i BY <5>1 DEF SeqInj
        <5> QED BY <1>0, <5>1, <5>2
      <4> QED BY <4>1 DEF In
    <3>2. i < m => In(R, s[i])
      <4>1. ASSUME i < m PROVE i \in 1 .. Len(R) /\ R[i] = s[i] BY <1>0, <2>4, <4>1
      <4> QED BY <4>1 DEF In
    <3> QED BY <3>1, <3>2
  <2>6. ASSUME NEW i \in 1 .. Len(s) PROVE (\E n \in 1 .. i : s[n] = x) <=> m <= i
    <3>1. ASSUME NEW n \in 1 .. i, s[n] = x PROVE m <= i
      <4>1. n \in 1 .. Len(s) BY <1>0
      <4>2. n = m BY <2>2, <3>1, <4>1 DEF SeqInj
      <4> QED BY <4>2
    <3>2. m <= i => m \in 1 .. i BY <1>0
    <3> QED BY <2>2, <3>1, <3>2
  <2> QED BY <1>0, <2>3, <2>5, <2>6 DEF R
<1>2. CASE ~\E i \in 1 .. Len(s) : s[i] = x
  <2>1. StoredBefore(s, x) = s BY <1>2 DEF StoredBefore
  <2>2. \A i \in 1 .. Len(s) : \A n \in 1 .. i : n \in 1 .. Len(s) BY <1>0
  <2> QED BY <1>2, <2>1, <2>2 DEF In
<1> QED BY <1>1, <1>2

\* What comes first in a list guards all of it; a savepoint just taken marks it.
LEMMA FrontGuards ==
  ASSUME NEW S, NEW s \in Seq(S), NEW K
  PROVE  /\ Guards(s, FrontTicket(s), K)
         /\ (\A u : In(s, u) => u \in K) => Marks(s, FrontTicket(s), K)
<1>0. Len(s) \in Nat /\ (s # <<>> => FrontTicket(s) = s[1]) BY DEF FrontTicket
<1>1. ASSUME NEW i \in 1 .. Len(s) PROVE (\E n \in 1 .. i : s[n] = FrontTicket(s)) /\ In(s, s[i])
  <2>1. s # <<>> /\ 1 \in 1 .. i BY <1>0
  <2> QED BY <1>0, <2>1 DEF In
<1> QED BY <1>1 DEF Guards, Marks

\* A new ticket in front of a list changes nothing behind it.
LEMMA PushMarks ==
  ASSUME NEW S, NEW s \in Seq(S), NEW t \in S, NEW K, t \notin K
  PROVE  /\ \A x : Marks(s, x, K) /\ t # x => Marks(<<t>> \o s, x, K)
         /\ \A x : Guards(s, x, K) => Guards(<<t>> \o s, x, K)
<1> DEFINE R == <<t>> \o s
<1>1. /\ Len(s) \in Nat /\ Len(R) = Len(s) + 1
      /\ R[1] = t /\ \A j \in 1 .. Len(s) : R[j + 1] = s[j]
  OBVIOUS
<1> HIDE DEF R
<1>2. ASSUME NEW x, NEW i \in 1 .. Len(R), i # 1
      PROVE  /\ i - 1 \in 1 .. Len(s) /\ R[i] = s[i - 1]
             /\ (\E n \in 1 .. i - 1 : s[n] = x) => \E n \in 1 .. i : R[n] = x
             /\ t # x => ((\E n \in 1 .. i : R[n] = x) => \E n \in 1 .. i - 1 : s[n] = x)
  <2>0. i - 1 \in 1 .. Len(s) BY <1>1, <1>2
  <2>1. R[(i - 1) + 1] = s[i - 1] BY <1>1, <2>0
  <2>2. ASSUME NEW n \in 1 .. i - 1, s[n] = x PROVE \E m \in 1 .. i : R[m] = x
    <3>1. n \in 1 .. Len(s) /\ n + 1 \in 1 .. i BY <1>1, <2>0
    <3> QED BY <1>1, <2>2, <3>1
  <2>3. ASSUME t # x, NEW n \in 1 .. i, R[n] = x PROVE \E m \in 1 .. i - 1 : s[m] = x
    <3>1. n # 1 BY <1>1, <2>3
    <3>2. n - 1 \in 1 .. i - 1 /\ n - 1 \in 1 .. Len(s) /\ (n - 1) + 1 = n BY <1>1, <2>0, <3>1
    <3>3. R[(n - 1) + 1] = s[n - 1] BY <1>1, <3>2
    <3> QED BY <2>3, <3>2, <3>3
  <2>4. (i - 1) + 1 = i BY <2>0
  <2> QED BY <2>0, <2>1, <2>2, <2>3, <2>4
<1>3. ASSUME NEW x, Marks(s, x, K), t # x PROVE Marks(R, x, K)
  <2> SUFFICES ASSUME NEW i \in 1 .. Len(R) PROVE R[i] \in K <=> \E n \in 1 .. i : R[n] = x
    BY DEF Marks
  <2>1. CASE i = 1
    <3>1. \A n \in 1 .. i : n = 1 BY <2>1
    <3> QED BY <1>1, <1>3, <2>1, <3>1
  <2>2. CASE i # 1
    <3>1. s[i - 1] \in K <=> \E n \in 1 .. i - 1 : s[n] = x BY <1>2, <1>3, <2>2 DEF Marks
    <3> QED BY <1>2, <1>3, <2>2, <3>1
  <2> QED BY <2>1, <2>2
<1>4. ASSUME NEW x, Guards(s, x, K) PROVE Guards(R, x, K)
  <2> SUFFICES ASSUME NEW i \in 1 .. Len(R), R[i] \in K PROVE \E n \in 1 .. i : R[n] = x
    BY DEF Guards
  <2>1. i # 1 BY <1>1
  <2>2. s[i - 1] \in K => \E n \in 1 .. i - 1 : s[n] = x BY <1>2, <1>4, <2>1 DEF Guards
  <2> QED BY <1>2, <2>1, <2>2
<1> QED BY <1>3, <1>4 DEF R

\* The removal of a ticket that is neither marked nor the mark.
LEMMA RemoveMarks ==
  ASSUME NEW S, NEW s \in Seq(S), NEW j \in 1 .. Len(s), NEW x, NEW K,
         Marks(s, x, K), s[j] \notin K, s[j] # x
  PROVE  Marks(RemoveAt(s, j), x, K)
<1> DEFINE R == RemoveAt(s, j)
<1>1. /\ Len(R) = Len(s) - 1 /\ Len(s) \in Nat
      /\ \A i \in 1 .. Len(s) - 1 : R[i] = IF i < j THEN s[i] ELSE s[i + 1]
  BY RemoveAtFacts
<1> HIDE DEF R
<1> SUFFICES ASSUME NEW i \in 1 .. Len(R) PROVE R[i] \in K <=> \E n \in 1 .. i : R[n] = x
  BY DEF Marks, R
<1> DEFINE m == IF i < j THEN i ELSE i + 1
<1>2. m \in 1 .. Len(s) /\ R[i] = s[m] BY <1>1
<1>3. ASSUME NEW n \in 1 .. i, R[n] = x PROVE \E h \in 1 .. m : s[h] = x
  <2>1. CASE n < j
    <3>1. n \in 1 .. m /\ R[n] = s[n] BY <1>1, <2>1
    <3> QED BY <1>3, <3>1
  <2>2. CASE ~(n < j)
    <3>1. n + 1 \in 1 .. m /\ R[n] = s[n + 1] BY <1>1, <2>2
    <3> QED BY <1>3, <3>1
  <2> QED BY <2>1, <2>2
<1>4. ASSUME NEW h \in 1 .. m, s[h] = x PROVE \E n \in 1 .. i : R[n] = x
  <2>0. h # j BY <1>4
  <2>1. CASE h < j
    <3>1. h \in 1 .. i /\ R[h] = s[h] BY <1>1, <2>1
    <3> QED BY <1>4, <3>1
  <2>2. CASE h > j
    <3>1. h - 1 \in 1 .. i /\ h - 1 \in 1 .. Len(s) - 1 /\ ~(h - 1 < j) /\ (h - 1) + 1 = h
      BY <1>1, <2>2
    <3>2. R[h - 1] = s[h] BY <1>1, <3>1
    <3> QED BY <1>4, <3>1, <3>2
  <2> QED BY <2>0, <2>1, <2>2
<1>5. s[m] \in K <=> \E h \in 1 .. m : s[h] = x BY <1>2 DEF Marks
<1> QED BY <1>2, <1>3, <1>4, <1>5

\* push_front() of a ticket that no savepoint protects.
LEMMA KeptPush ==
  ASSUME NEW o \in [Durations -> Seq(Ticket)], NEW d \in Durations, NEW t \in Ticket,
         NEW sv, KeptIn(o, sv), t \notin sv.kept
  PROVE  LET p == [o EXCEPT ![d] = <<t>> \o @]
         IN KeptIn(p, sv) /\ \A v : GuardIn(o, v, sv.kept) => GuardIn(p, v, sv.kept)
<1> DEFINE p == [o EXCEPT ![d] = <<t>> \o @]
<1>0. STATEMENT \in Durations /\ TRANSACTION \in Durations
  BY DEF STATEMENT, TRANSACTION, Durations
<1>1. /\ p[d] = <<t>> \o o[d] /\ \A e \in Durations : e # d => p[e] = o[e]
      /\ \A e \in Durations : o[e] \in Seq(Ticket)
  OBVIOUS
<1>2. t # sv.at.stmt /\ t # sv.at.trans
  BY DEF KeptIn, Ticket
<1>3. ASSUME NEW e \in Durations
      PROVE  /\ \A x : Marks(o[e], x, sv.kept) /\ t # x => Marks(p[e], x, sv.kept)
             /\ \A x : Guards(o[e], x, sv.kept) => Guards(p[e], x, sv.kept)
  <2>1. CASE e = d
    <3>1. /\ \A x : Marks(o[d], x, sv.kept) /\ t # x => Marks(<<t>> \o o[d], x, sv.kept)
          /\ \A x : Guards(o[d], x, sv.kept) => Guards(<<t>> \o o[d], x, sv.kept)
      BY <1>1, PushMarks
    <3> QED BY <1>1, <2>1, <3>1
  <2>2. CASE e # d BY <1>1, <2>2
  <2> QED BY <2>1, <2>2
<1>4. \A e \in Durations : \A u : In(o[e], u) => In(p[e], u)
  <2> DEFINE s == o[d]
             R == <<t>> \o s
  <2>1. s \in Seq(Ticket) /\ p[d] = R BY <1>1
  <2> HIDE DEF s, p
  <2>2. /\ Len(s) \in Nat /\ Len(R) = Len(s) + 1 /\ \A j \in 1 .. Len(s) : R[j + 1] = s[j]
    BY <2>1
  <2> HIDE DEF R
  <2>3. ASSUME NEW u, NEW i \in 1 .. Len(s), s[i] = u PROVE In(R, u)
    <3>1. i + 1 \in 1 .. Len(R) /\ R[i + 1] = u BY <2>2, <2>3
    <3> QED BY <3>1 DEF In
  <2>4. \A u : In(o[d], u) => In(p[d], u) BY <2>1, <2>3 DEF In, s
  <2> QED BY <1>1, <2>4
<1> HIDE DEF p
<1>5. KeptIn(p, sv)
  <2>1. Marks(p[STATEMENT], sv.at.stmt, sv.kept) BY <1>0, <1>2, <1>3 DEF KeptIn
  <2>2. Marks(p[TRANSACTION], sv.at.trans, sv.kept) BY <1>0, <1>2, <1>3 DEF KeptIn
  <2>3. \A u \in sv.kept : In(p[STATEMENT], u) \/ In(p[TRANSACTION], u)
    BY <1>0, <1>4 DEF KeptIn
  <2> QED BY <2>1, <2>2, <2>3 DEF KeptIn
<1>6. \A v : GuardIn(o, v, sv.kept) => GuardIn(p, v, sv.kept)
  BY <1>0, <1>3 DEF GuardIn
<1> QED BY <1>5, <1>6 DEF p

\* remove() of such a ticket.
LEMMA KeptRemove ==
  ASSUME NEW o \in [Durations -> Seq(Ticket)], Inj(o), NEW d \in Durations,
         NEW i \in 1 .. Len(o[d]), NEW sv, KeptIn(o, sv), o[d][i] \notin sv.kept,
         sv.kept \subseteq Ticket
  PROVE  KeptIn([o EXCEPT ![d] = RemoveAt(@, i)], sv)
<1> DEFINE p == [o EXCEPT ![d] = RemoveAt(@, i)]
           t == o[d][i]
<1>0. STATEMENT \in Durations /\ TRANSACTION \in Durations
  BY DEF STATEMENT, TRANSACTION, Durations
<1>1. /\ p[d] = RemoveAt(o[d], i) /\ \A e \in Durations : e # d => p[e] = o[e]
      /\ o[d] \in Seq(Ticket) /\ t \in Ticket
  OBVIOUS
<1>2. t # sv.at.stmt /\ t # sv.at.trans
  BY <1>1 DEF KeptIn, Ticket
<1>3. \A x : Marks(o[d], x, sv.kept) /\ t # x => Marks(RemoveAt(o[d], i), x, sv.kept)
  BY <1>1, RemoveMarks
<1>4. \A e \in Durations, u \in Ticket : In(p[e], u) <=> In(o[e], u) /\ u # t
  BY OwnRemove
<1> HIDE DEF p, t
<1>5. \A e \in Durations : \A x : Marks(o[e], x, sv.kept) /\ t # x => Marks(p[e], x, sv.kept)
  BY <1>1, <1>3
<1>6. \A u \in sv.kept : u \in Ticket /\ u # t BY DEF t
<1>7. KeptIn(p, sv) BY <1>0, <1>2, <1>4, <1>5, <1>6 DEF KeptIn
<1> QED BY <1>7 DEF p

\* What rollback_to_savepoint() would release.
LEMMA SinceExact ==
  ASSUME IInv, NEW c \in Ctx, NEW v
  PROVE  \A u : In(SinceSavepoint(c, v), u) <=>
            \E d \in {STATEMENT, TRANSACTION} : \E i \in 1 .. Len(own[c][d]) :
               /\ own[c][d][i] = u
               /\ ~\E n \in 1 .. i : own[c][d][n] = IF d = STATEMENT THEN v.stmt ELSE v.trans
<1>0. own[c] \in [Durations -> Seq(Ticket)] /\ Inj(own[c])
  BY DEF IInv, TypeOK, ThreadOK, OwnOK
<1>1. STATEMENT \in Durations /\ TRANSACTION \in Durations /\ STATEMENT # TRANSACTION
  BY DEF STATEMENT, TRANSACTION, Durations
<1> DEFINE a == own[c][STATEMENT]
           b == own[c][TRANSACTION]
           p == StoredBefore(a, v.stmt)
           q == StoredBefore(b, v.trans)
<1>2. a \in Seq(Ticket) /\ SeqInj(a) /\ b \in Seq(Ticket) /\ SeqInj(b) BY <1>0, <1>1 DEF Inj
<1>3. \A u : ~(In(a, u) /\ In(b, u)) BY <1>0, <1>1, ListsDisjoint
<1> HIDE DEF a, b
<1>4. /\ p \in Seq(Ticket) /\ SeqInj(p) /\ \A u : In(p, u) => In(a, u)
      /\ \A i \in 1 .. Len(a) : In(p, a[i]) <=> ~\E n \in 1 .. i : a[n] = v.stmt
  BY <1>2, StoredBeforeIn, StoredBeforeExact
<1>5. /\ q \in Seq(Ticket) /\ SeqInj(q) /\ \A u : In(q, u) => In(b, u)
      /\ \A i \in 1 .. Len(b) : In(q, b[i]) <=> ~\E n \in 1 .. i : b[n] = v.trans
  BY <1>2, StoredBeforeIn, StoredBeforeExact
<1> HIDE DEF p, q
<1>6. \A u : In(p \o q, u) <=> In(p, u) \/ In(q, u) BY <1>3, <1>4, <1>5, ConcatIn
<1>7. \A u : In(p, u) <=> \E i \in 1 .. Len(a) : a[i] = u /\ ~\E n \in 1 .. i : a[n] = v.stmt
  BY <1>4 DEF In
<1>8. \A u : In(q, u) <=> \E i \in 1 .. Len(b) : b[i] = u /\ ~\E n \in 1 .. i : b[n] = v.trans
  BY <1>5 DEF In
<1>9. SinceSavepoint(c, v) = p \o q BY DEF SinceSavepoint, p, q, a, b
<1> QED BY <1>1, <1>6, <1>7, <1>8, <1>9 DEF a, b

\* A roll back to a guarded savepoint, and one to the savepoint that marks them,
\* spare the protected tickets.
LEMMA SinceSpares ==
  ASSUME IInv, NEW c \in Ctx, NEW v, NEW K, GuardIn(own[c], v, K)
  PROVE  \A t \in K : ~In(SinceSavepoint(c, v), t)
<1> SUFFICES ASSUME NEW t \in K, In(SinceSavepoint(c, v), t) PROVE FALSE
  OBVIOUS
<1>1. STATEMENT # TRANSACTION BY DEF STATEMENT, TRANSACTION
<1>2. \E d \in {STATEMENT, TRANSACTION} : \E i \in 1 .. Len(own[c][d]) :
         /\ own[c][d][i] = t
         /\ ~\E n \in 1 .. i : own[c][d][n] = IF d = STATEMENT THEN v.stmt ELSE v.trans
  BY SinceExact
<1> QED BY <1>1, <1>2 DEF GuardIn, Guards

LEMMA MarksGuard ==
  ASSUME NEW o, NEW sv, KeptIn(o, sv)
  PROVE  GuardIn(o, sv.at, sv.kept)
BY DEF KeptIn, GuardIn, Marks, Guards

\* A protected ticket is held, and belongs to the savepoint of any call.
LEMMA KeptIsHeld ==
  ASSUME IInv, NEW c \in Ctx, KeptIn(own[c], usvp[c])
  PROVE  /\ usvp[c].kept \subseteq Ticket
         /\ \A t \in usvp[c].kept : Has(own[c], t) /\ ~In(own[c][EXPLICIT], t)
<1>0. /\ own[c] \in [Durations -> Seq(Ticket)] /\ Inj(own[c])
      /\ usvp[c].kept \subseteq Ticket
  BY DEF IInv, TypeOK, ThreadOK, OwnOK, UserSavepoint
<1>1. /\ STATEMENT \in Durations /\ TRANSACTION \in Durations /\ EXPLICIT \in Durations
      /\ STATEMENT # EXPLICIT /\ TRANSACTION # EXPLICIT
  BY DEF STATEMENT, TRANSACTION, EXPLICIT, Durations
<1>2. \A u : /\ ~(In(own[c][STATEMENT], u) /\ In(own[c][EXPLICIT], u))
             /\ ~(In(own[c][TRANSACTION], u) /\ In(own[c][EXPLICIT], u))
  BY <1>0, <1>1, ListsDisjoint
<1> QED BY <1>0, <1>1, <1>2 DEF KeptIn, Has

\* A ticket that is newer than a guarded savepoint is not protected.
LEMMA NewerNotKept ==
  ASSUME IInv, NEW c \in Ctx, NEW v, NEW K, GuardIn(own[c], v, K), NEW t, ~HasLock(c, v, t)
  PROVE  t \notin K
<1>1. SinceSavepoint(c, v) \in Seq(Ticket) BY SinceSavepointFacts
<1>2. t \in ToSet(SinceSavepoint(c, v)) BY DEF HasLock
<1>3. In(SinceSavepoint(c, v), t)
  <2> DEFINE q == SinceSavepoint(c, v)
  <2>1. q \in Seq(Ticket) /\ t \in ToSet(q) BY <1>1, <1>2
  <2> HIDE DEF q
  <2>2. In(q, t) BY <2>1, ToSetIn
  <2> QED BY <2>2 DEF q
<1> QED BY <1>3, SinceSpares

\* Without a savepoint nothing is protected.
LEMMA NoneKept ==
  ASSUME NEW o \in [Durations -> Seq(Ticket)]
  PROVE  KeptIn(o, NoUserSavepoint) /\ NoUserSavepoint.kept = {}
<1>1. /\ NoUserSavepoint.kept = {} /\ NoUserSavepoint.at = NoSavepoint
      /\ NoSavepoint.stmt = NoTicket /\ NoSavepoint.trans = NoTicket
  BY DEF NoUserSavepoint, NoSavepoint
<1>2. ASSUME NEW s \in Seq(Ticket) PROVE Marks(s, NoTicket, {})
  <2>1. \A i \in 1 .. Len(s) : \A n \in 1 .. i : n \in 1 .. Len(s) /\ s[n] \in Ticket
    OBVIOUS
  <2>2. NoTicket \notin Ticket BY DEF Ticket
  <2> QED BY <2>1, <2>2 DEF Marks
<1>3. o[STATEMENT] \in Seq(Ticket) /\ o[TRANSACTION] \in Seq(Ticket)
  BY DEF STATEMENT, TRANSACTION, Durations
<1> QED BY <1>1, <1>2, <1>3 DEF KeptIn

\* A step of c on what it holds and saved.
LEMMA OwnSaved ==
  ASSUME SInv, NEW c \in Ctx, SavedAfter(c)
  PROVE  \A b \in Ctx : SavedOK(b)'
<1> SUFFICES ASSUME NEW b \in Ctx PROVE SavedOK(b)'
  OBVIOUS
<1>1. CASE b = c BY <1>1 DEF SavedAfter, SavedOK
<1>2. CASE b # c BY <1>2 DEF SInv, SavedAfter, Private, SavedOK
<1> QED BY <1>1, <1>2

\* A step that changes neither, and starts no call.
LEMMA QuietSaved ==
  ASSUME SInv, UNCHANGED <<own, usvp, rel, call>>,
         \A b \in Ctx : \/ pc'[b] = pc[b]
                        \/ pc[b] \in WaitPcs /\ pc'[b] \in WaitPcs
                        \/ pc'[b] \in {"idle", "release", "resched"}
  PROVE  \A b \in Ctx : SavedOK(b)'
<1> SUFFICES ASSUME NEW b \in Ctx PROVE SavedOK(b)'
  OBVIOUS
<1>1. Rolls(pc'[b], call[b]) => Rolls(pc[b], call[b]) BY DEF Rolls, WaitPcs
<1>2. SavedOK(b) BY DEF SInv
<1> QED BY <1>1, <1>2 DEF SavedOK, SavedIn

\* A call keeps its savepoint when a request of it has been served.
LEMMA AcquiredRolls ==
  ASSUME TypeOK, NEW c \in Ctx, NEW k \in CallRecord, NEW t, Acquired(c, k, t)
  PROVE  /\ \A b \in Ctx \ {c} : pc'[b] = pc[b] /\ call'[b] = call[b]
         /\ Rolls(pc'[c], call'[c]) =>
               k.op \in {"list", "handler", "upgrade"} /\ call'[c].svp = k.svp
<1>0. pc \in [Ctx -> PcValues] /\ call \in [Ctx -> CallRecord] BY DEF TypeOK
<1>1. CASE k.op \in {"upgrade", "handler"}
  <2>1. call' = [call EXCEPT ![c] = [k EXCEPT !.cur = t]] /\ pc' = [pc EXCEPT ![c] = k.op]
    BY <1>1 DEF Acquired
  <2> QED BY <1>0, <1>1, <2>1 DEF CallRecord
<1>2. CASE k.op = "list" /\ Len(k.reqs) > 1
  <2>1. /\ call' = [call EXCEPT ![c] = [k EXCEPT !.reqs = Tail(k.reqs), !.cur = NoTicket]]
        /\ pc' = [pc EXCEPT ![c] = "acquire"]
    BY <1>2 DEF Acquired
  <2> QED BY <1>0, <1>2, <2>1 DEF CallRecord
<1>3. CASE k.op \notin {"upgrade", "handler"} /\ ~(k.op = "list" /\ Len(k.reqs) > 1)
  <2>1. call' = [call EXCEPT ![c] = NoCall] /\ pc' = [pc EXCEPT ![c] = "idle"]
    BY <1>3 DEF Acquired
  <2> QED BY <1>0, <2>1 DEF Rolls, WaitPcs
<1> QED BY <1>1, <1>2, <1>3

\* A savepoint that a call has just taken, or took when it began, is behind the
\* tickets taken since but before those of the savepoint of SQL.
LEMMA CallGuards ==
  ASSUME SInv, NEW c \in Ctx, NEW k, FreshSavepoint(c, k), pc[c] \in {"idle", "acquire"},
         k.op \in {"list", "handler", "upgrade"}
  PROVE  GuardIn(own[c], k.svp, usvp[c].kept)
<1>1. CASE pc[c] = "acquire"
  BY <1>1 DEF SInv, SavedOK, SavedIn, Rolls, FreshSavepoint
<1>2. CASE pc[c] # "acquire"
  <2>1. k.svp = MdlSavepoint(c) BY <1>2 DEF FreshSavepoint
  <2>2. k.svp.stmt = FrontTicket(own[c][STATEMENT]) /\ k.svp.trans = FrontTicket(own[c][TRANSACTION])
    BY <2>1 DEF MdlSavepoint
  <2>3. own[c][STATEMENT] \in Seq(Ticket) /\ own[c][TRANSACTION] \in Seq(Ticket)
    BY DEF SInv, IInv, TypeOK, STATEMENT, TRANSACTION, Durations
  <2>4. /\ Guards(own[c][STATEMENT], FrontTicket(own[c][STATEMENT]), usvp[c].kept)
        /\ Guards(own[c][TRANSACTION], FrontTicket(own[c][TRANSACTION]), usvp[c].kept)
    BY <2>3, FrontGuards
  <2> QED BY <2>2, <2>4 DEF GuardIn
<1> QED BY <1>1, <1>2

\* A call whose request is served, by a ticket that it has or a new one.
LEMMA PushSaved ==
  ASSUME SInv, NEW c \in Ctx, NEW k \in CallRecord, NEW t \in Ticket, Acquired(c, k, t),
         k.op \in {"list", "handler", "upgrade"} => GuardIn(own[c], k.svp, usvp[c].kept),
         UNCHANGED <<usvp, rel>>,
         \/ own' = own
         \/ ~Has(own[c], t) /\ \E d \in Durations : PushFront(c, d, t)
  PROVE  \A b \in Ctx : SavedOK(b)'
<1>0. IInv /\ TypeOK /\ own \in [Ctx -> [Durations -> Seq(Ticket)]] BY DEF SInv, IInv, TypeOK
<1>1. SavedIn(own[c], usvp[c], rel[c], pc[c], call[c]) BY DEF SInv, SavedOK
<1>2. KeptIn(own[c], usvp[c]) /\ \A u \in usvp[c].kept : ~In(rel[c], u) BY <1>1 DEF SavedIn
<1>3. /\ \A b \in Ctx \ {c} : pc'[b] = pc[b] /\ call'[b] = call[b]
      /\ Rolls(pc'[c], call'[c]) =>
            k.op \in {"list", "handler", "upgrade"} /\ call'[c].svp = k.svp
  BY <1>0, AcquiredRolls
<1>4. /\ \A b \in Ctx \ {c} : own'[b] = own[b]
      /\ KeptIn(own'[c], usvp[c])
      /\ \A v : GuardIn(own[c], v, usvp[c].kept) => GuardIn(own'[c], v, usvp[c].kept)
  <2>1. CASE own' = own BY <1>2, <2>1
  <2>2. CASE ~Has(own[c], t) /\ \E d \in Durations : PushFront(c, d, t)
    <3>1. PICK d \in Durations : own' = [own EXCEPT ![c][d] = <<t>> \o @] BY <2>2 DEF PushFront
    <3>2. /\ \A b \in Ctx \ {c} : own'[b] = own[b]
          /\ own'[c] = [own[c] EXCEPT ![d] = <<t>> \o @] /\ own[c] \in [Durations -> Seq(Ticket)]
      BY <1>0, <3>1
    <3>3. t \notin usvp[c].kept BY <1>0, <1>2, <2>2, KeptIsHeld
    <3>4. /\ KeptIn([own[c] EXCEPT ![d] = <<t>> \o @], usvp[c])
          /\ \A v : GuardIn(own[c], v, usvp[c].kept) =>
                GuardIn([own[c] EXCEPT ![d] = <<t>> \o @], v, usvp[c].kept)
      BY <1>2, <3>2, <3>3, KeptPush
    <3> QED BY <3>2, <3>4
  <2> QED BY <2>1, <2>2
<1>5. Rolls(pc'[c], call'[c]) => GuardIn(own'[c], call'[c].svp, usvp[c].kept) BY <1>3, <1>4
<1>6. SavedAfter(c) BY <1>2, <1>3, <1>4, <1>5 DEF SavedAfter, Private, SavedIn
<1> QED BY <1>6, OwnSaved

\* try_acquire_lock_impl() for any caller.
LEMMA AcquireSaved ==
  ASSUME SInv, NEW c \in Ctx, Asking(c)
  PROVE  \A b \in Ctx : SavedOK(b)'
<1>0. IInv BY DEF SInv
<1>1. PICK k : Asks(c, k) /\ FreshSavepoint(c, k) /\ Acquire(c, k) BY DEF Asking
<1>2. pc[c] \in {"idle", "acquire"} BY DEF Asking
<1> DEFINE r == Head(k.reqs)
<1>3. k \in CallRecord /\ r.dur \in Durations BY <1>1, AsksType DEF Asks
<1>4. k.op \in {"list", "handler", "upgrade"} => GuardIn(own[c], k.svp, usvp[c].kept)
  BY <1>1, <1>2, CallGuards
<1>5. CASE ReuseTicket(c, k, r)
  <2>1. PICK i \in 1 .. Len(own[c][r.dur]) : Acquired(c, k, own[c][r.dur][i])
    BY <1>5 DEF ReuseTicket
  <2>2. own' = own /\ UNCHANGED <<usvp, rel>> BY <1>5 DEF ReuseTicket
  <2>3. own[c][r.dur][i] \in Ticket BY <1>0, <1>3 DEF IInv, TypeOK
  <2> QED BY <1>3, <1>4, <2>1, <2>2, <2>3, PushSaved
<1>6. CASE CloneTicket(c, k, r) \/ GrantAtOnce(c, k, r)
  <2>1. PICK t \in Ticket : NewTicket(c, t) /\ PushFront(c, r.dur, t) /\ Acquired(c, k, t)
    BY <1>6 DEF CloneTicket, GrantAtOnce
  <2>2. UNCHANGED <<usvp, rel>> BY <1>6 DEF CloneTicket, GrantAtOnce
  <2>3. ~Has(own[c], t) BY <1>0, <2>1, NewTicketFacts
  <2> QED BY <1>3, <1>4, <2>1, <2>2, <2>3, PushSaved
<1>7. CASE Enqueue(c, k, r)
  <2>1. PICK t \in Ticket : call' = [call EXCEPT ![c] = [k EXCEPT !.cur = t]]
    BY <1>7 DEF Enqueue
  <2>2. pc' = [pc EXCEPT ![c] = "willwait"] /\ UNCHANGED <<own, usvp, rel>> BY <1>7 DEF Enqueue
  <2>3. /\ \A b \in Ctx \ {c} : pc'[b] = pc[b] /\ call'[b] = call[b]
        /\ pc'[c] = "willwait" /\ call'[c].op = k.op /\ call'[c].svp = k.svp
    BY <1>0, <1>3, <2>1, <2>2 DEF IInv, TypeOK, CallRecord
  <2>4. Rolls(pc'[c], call'[c]) => GuardIn(own'[c], call'[c].svp, usvp'[c].kept)
    BY <1>4, <2>2, <2>3 DEF Rolls
  <2>5. SavedOK(c) BY DEF SInv
  <2>6. SavedAfter(c) BY <2>2, <2>3, <2>4, <2>5 DEF SavedAfter, Private, SavedOK, SavedIn
  <2> QED BY <2>6, OwnSaved
<1> QED BY <1>1, <1>5, <1>6, <1>7 DEF Acquire

\* acquire_lock() that has waited.
LEMMA WaitGrantedSaved ==
  ASSUME SInv, NEW c \in Ctx, WaitGranted(c)
  PROVE  \A b \in Ctx : SavedOK(b)'
<1> DEFINE k == call[c]
<1>0. IInv BY DEF SInv
<1>1. pc[c] \in WaitPcs /\ pc[c] \in BusyPcs BY DEF WaitGranted, WaitPcs, BusyPcs
<1>2. Head(k.reqs).dur \in Durations BY <1>0, <1>1, ReqType DEF Req
<1>3. k \in CallRecord /\ k.cur \in Ticket /\ ~Has(own[c], k.cur)
  BY <1>0, <1>1 DEF IInv, TypeOK, ThreadOK, CurOK
<1>4. /\ PushFront(c, Head(k.reqs).dur, k.cur) /\ Acquired(c, k, k.cur) /\ UNCHANGED <<usvp, rel>>
  BY DEF WaitGranted
<1>5. k.op \in {"list", "handler", "upgrade"} => GuardIn(own[c], k.svp, usvp[c].kept)
  BY <1>1 DEF SInv, SavedOK, SavedIn, Rolls
<1> HIDE DEF k
<1> QED BY <1>2, <1>3, <1>4, <1>5, PushSaved

\* HANDLER OPEN takes a ticket of its own for explicit, or gives up all it took.
LEMMA HandlerSaved ==
  ASSUME SInv, NEW c \in Ctx, HandlerKeep(c) \/ HandlerFail(c)
  PROVE  \A b \in Ctx : SavedOK(b)'
<1> DEFINE k == call[c]
           r == Head(k.reqs)
           K == usvp[c].kept
<1>0. IInv /\ own \in [Ctx -> [Durations -> Seq(Ticket)]] BY DEF SInv, IInv, TypeOK
<1>1. pc[c] = "handler" BY DEF HandlerKeep, HandlerFail
<1>2. KeptIn(own[c], usvp[c]) /\ (\A u \in K : ~In(rel[c], u)) /\ GuardIn(own[c], k.svp, K)
  BY <1>1 DEF SInv, SavedOK, SavedIn, Rolls
<1>3. own[c] \in [Durations -> Seq(Ticket)] /\ Inj(own[c]) BY <1>0 DEF IInv, ThreadOK, OwnOK
<1>4. K \subseteq Ticket /\ \A u \in K : Has(own[c], u) BY <1>0, <1>2, KeptIsHeld
<1>5. EXPLICIT \in Durations /\ TRANSACTION \in Durations /\ TRANSACTION # EXPLICIT
  BY DEF EXPLICIT, TRANSACTION, Durations
<1>6. CASE HandlerKeep(c)
  <2>1. /\ pc' = [pc EXCEPT ![c] = "idle"] /\ call' = [call EXCEPT ![c] = NoCall]
        /\ UNCHANGED <<usvp, rel>>
    BY <1>6 DEF HandlerKeep
  <2>2. pc'[c] = "idle" /\ \A b \in Ctx \ {c} : pc'[b] = pc[b] /\ call'[b] = call[b]
    BY <1>0, <2>1 DEF IInv, TypeOK
  <2>3. ASSUME KeptIn(own'[c], usvp[c]), \A b \in Ctx \ {c} : own'[b] = own[b]
        PROVE  \A b \in Ctx : SavedOK(b)'
    <3>1. ~Rolls(pc'[c], call'[c]) BY <2>2 DEF Rolls, WaitPcs
    <3>2. SavedAfter(c) BY <1>2, <2>1, <2>2, <2>3, <3>1 DEF SavedAfter, Private, SavedIn
    <3> QED BY <3>2, OwnSaved
  <2>4. CASE \E t \in Ticket : NewTicket(c, t) /\ PushFront(c, EXPLICIT, t)
    <3>1. PICK t \in Ticket : NewTicket(c, t) /\ own' = [own EXCEPT ![c][EXPLICIT] = <<t>> \o @]
      BY <2>4 DEF PushFront
    <3>2. t \notin K BY <1>0, <1>4, <3>1, NewTicketFacts
    <3>3. /\ own'[c] = [own[c] EXCEPT ![EXPLICIT] = <<t>> \o @]
          /\ \A b \in Ctx \ {c} : own'[b] = own[b]
      BY <1>0, <3>1
    <3>4. KeptIn([own[c] EXCEPT ![EXPLICIT] = <<t>> \o @], usvp[c])
      BY <1>2, <1>3, <1>5, <3>2, KeptPush
    <3> QED BY <2>3, <3>3, <3>4
  <2>5. CASE /\ ~HasLock(c, k.svp, k.cur)
             /\ \E i \in 1 .. Len(own[c][TRANSACTION]) :
                   /\ own[c][TRANSACTION][i] = k.cur
                   /\ own' = [own EXCEPT ![c][TRANSACTION] = RemoveAt(@, i),
                                         ![c][EXPLICIT] = <<k.cur>> \o @]
    <3>1. PICK i \in 1 .. Len(own[c][TRANSACTION]) :
                   /\ own[c][TRANSACTION][i] = k.cur
                   /\ own' = [own EXCEPT ![c][TRANSACTION] = RemoveAt(@, i),
                                         ![c][EXPLICIT] = <<k.cur>> \o @]
      BY <2>5
    <3> DEFINE t == k.cur
               o == own[c]
               q == [o EXCEPT ![TRANSACTION] = RemoveAt(@, i)]
               p == [q EXCEPT ![EXPLICIT] = <<t>> \o @]
    <3>2. t \notin K BY <1>0, <1>2, <2>5, NewerNotKept
    <3>3. own'[c] = p /\ \A b \in Ctx \ {c} : own'[b] = own[b] BY <1>0, <1>3, <1>5, <3>1
    <3>4. o[TRANSACTION][i] = t /\ t \in Ticket BY <1>3, <1>5, <3>1
    <3>5. o \in [Durations -> Seq(Ticket)] /\ Inj(o) /\ KeptIn(o, usvp[c]) /\ i \in 1 .. Len(o[TRANSACTION])
      BY <1>2, <1>3
    <3> HIDE DEF o, t
    <3>6. KeptIn(q, usvp[c]) BY <1>4, <1>5, <3>2, <3>4, <3>5, KeptRemove
    <3>7. q \in [Durations -> Seq(Ticket)] BY <1>5, <3>5, OwnRemove
    <3> HIDE DEF q
    <3>8. KeptIn(p, usvp[c]) BY <1>5, <3>2, <3>4, <3>6, <3>7, KeptPush
    <3> QED BY <2>3, <3>3, <3>8
  <2> QED BY <1>6, <2>4, <2>5 DEF HandlerKeep
<1>7. CASE HandlerFail(c)
  <2> DEFINE q == SinceSavepoint(c, k.svp)
  <2>1. /\ rel' = [rel EXCEPT ![c] = q] /\ call' = [call EXCEPT ![c] = NoCall]
        /\ pc' = [pc EXCEPT ![c] = IF q = <<>> THEN "idle" ELSE "release"]
        /\ UNCHANGED <<own, usvp>>
    BY <1>7 DEF HandlerFail
  <2>2. \A u \in K : ~In(q, u) BY <1>0, <1>2, SinceSpares
  <2> HIDE DEF q
  <2>3. /\ rel'[c] = q /\ pc'[c] \in {"idle", "release"}
        /\ \A b \in Ctx \ {c} : rel'[b] = rel[b] /\ pc'[b] = pc[b] /\ call'[b] = call[b]
    BY <1>0, <2>1 DEF IInv, TypeOK
  <2>4. ~Rolls(pc'[c], call'[c]) BY <2>3 DEF Rolls, WaitPcs
  <2>5. SavedAfter(c) BY <1>2, <2>1, <2>2, <2>3, <2>4 DEF SavedAfter, Private, SavedIn
  <2> QED BY <2>5, OwnSaved
<1> QED BY <1>6, <1>7

\* acquire_locks() and HANDLER OPEN that gave up a wait roll back.
LEMMA AbortWaitSaved ==
  ASSUME SInv, NEW c \in Ctx, AbortWait(c)
  PROVE  \A b \in Ctx : SavedOK(b)'
<1> DEFINE k == call[c]
           l == tlock[k.cur]
           K == usvp[c].kept
           rest == IF k.op \in {"list", "handler"} THEN SinceSavepoint(c, k.svp) ELSE <<>>
<1>0. IInv /\ TypeOK BY DEF SInv, IInv
<1>1. pc[c] = "abort" /\ pc[c] \in WaitPcs /\ pc[c] \in BusyPcs BY DEF AbortWait, WaitPcs, BusyPcs
<1>2. KeptIn(own[c], usvp[c]) /\ (Rolls(pc[c], k) => GuardIn(own[c], k.svp, K))
  BY DEF SInv, SavedOK, SavedIn
<1>3. /\ call' = [call EXCEPT ![c] = NoCall] /\ rel' = [rel EXCEPT ![c] = rest]
      /\ UNCHANGED <<own, usvp>> /\ RescheduleOrRemove(c, l, rest)
  BY DEF AbortWait
<1>4. l \in Keys BY <1>0, <1>1, ReqType DEF IInv, ThreadOK, CurOK
<1>5. \A u \in K : ~In(rest, u)
  <2>1. CASE k.op \in {"list", "handler"}
    <3>1. GuardIn(own[c], k.svp, K) BY <1>1, <1>2, <2>1 DEF Rolls
    <3> QED BY <1>0, <2>1, <3>1, SinceSpares
  <2>2. CASE k.op \notin {"list", "handler"}
    <3>1. rest = <<>> BY <2>2
    <3> HIDE DEF rest
    <3> QED BY <3>1 DEF In
  <2> QED BY <2>1, <2>2
<1> HIDE DEF rest, l
<1>6. /\ \A b \in Ctx \ {c} : pc'[b] = pc[b]
      /\ pc'[c] \in {"idle", "release", "resched"}
  BY <1>0, <1>3, <1>4, RescheduleFacts
<1>7. /\ rel'[c] = rest /\ \A b \in Ctx \ {c} : rel'[b] = rel[b] /\ call'[b] = call[b]
  BY <1>0, <1>3 DEF TypeOK
<1>8. ~Rolls(pc'[c], call'[c]) BY <1>6 DEF Rolls, WaitPcs
<1>9. SavedAfter(c) BY <1>2, <1>3, <1>5, <1>6, <1>7, <1>8 DEF SavedAfter, Private, SavedIn
<1> QED BY <1>9, OwnSaved

\* A ticket that is released was not protected.
LEMMA ReleaseLockSaved ==
  ASSUME SInv, NEW c \in Ctx, ReleaseLock(c)
  PROVE  \A b \in Ctx : SavedOK(b)'
<1> DEFINE t == rel[c][1]
           l == tlock[t]
           rest == Tail(rel[c])
           K == usvp[c].kept
<1>0. IInv /\ TypeOK /\ own \in [Ctx -> [Durations -> Seq(Ticket)]] BY DEF SInv, IInv, TypeOK
<1>1. pc[c] = "release" BY DEF ReleaseLock
<1>2. rel[c] \in Seq(Ticket) /\ rel[c] # <<>> /\ SeqInj(rel[c])
  BY <1>0, <1>1 DEF IInv, TypeOK, ThreadOK, RelOK
<1>3. /\ t \in Ticket /\ In(rel[c], t) /\ \A u : In(rest, u) => In(rel[c], u) /\ u # t
  BY <1>2, TailIn
<1>4. l \in Keys BY <1>0, <1>3 DEF IInv, ThreadOK, RelOK, OwnOK
<1>5. KeptIn(own[c], usvp[c]) /\ \A u \in K : ~In(rel[c], u) BY DEF SInv, SavedOK, SavedIn
<1>6. own[c] \in [Durations -> Seq(Ticket)] /\ Inj(own[c]) BY <1>0 DEF IInv, ThreadOK, OwnOK
<1>7. t \notin K /\ K \subseteq Ticket BY <1>0, <1>3, <1>5, KeptIsHeld
<1>8. /\ usvp' = [usvp EXCEPT ![c].kept = @ \ {t}] /\ rel' = [rel EXCEPT ![c] = rest]
      /\ call' = call /\ RescheduleOrRemove(c, l, rest)
  BY DEF ReleaseLock
<1>9. PICK d \in Durations : \E i \in 1 .. Len(own[c][d]) :
             own[c][d][i] = t /\ own' = [own EXCEPT ![c][d] = RemoveAt(@, i)]
  BY DEF ReleaseLock
<1>10. PICK i \in 1 .. Len(own[c][d]) :
             own[c][d][i] = t /\ own' = [own EXCEPT ![c][d] = RemoveAt(@, i)]
  BY <1>9
<1> HIDE DEF t, l, rest
<1>11. usvp'[c] = usvp[c] /\ \A b \in Ctx \ {c} : usvp'[b] = usvp[b]
  <2>1. usvp[c] \in UserSavepoint /\ usvp \in [Ctx -> UserSavepoint] BY <1>0 DEF TypeOK
  <2>2. K \ {t} = K BY <1>7
  <2>3. usvp'[c] = [usvp[c] EXCEPT !.kept = @ \ {t}] /\ \A b \in Ctx \ {c} : usvp'[b] = usvp[b]
    BY <1>8, <2>1
  <2> QED BY <2>1, <2>2, <2>3 DEF UserSavepoint
<1>12. /\ own'[c] = [own[c] EXCEPT ![d] = RemoveAt(@, i)] /\ \A b \in Ctx \ {c} : own'[b] = own[b]
  BY <1>0, <1>10
<1>13. KeptIn(own'[c], usvp[c])
  <2>1. own[c][d][i] \notin K BY <1>7, <1>10
  <2>2. KeptIn([own[c] EXCEPT ![d] = RemoveAt(@, i)], usvp[c])
    BY <1>5, <1>6, <1>7, <2>1, KeptRemove
  <2> QED BY <1>12, <2>2
<1>14. /\ \A b \in Ctx \ {c} : pc'[b] = pc[b]
       /\ pc'[c] \in {"idle", "release", "resched"}
  BY <1>0, <1>4, <1>8, RescheduleFacts
<1>15. rel'[c] = rest /\ \A b \in Ctx \ {c} : rel'[b] = rel[b]
  BY <1>0, <1>8 DEF TypeOK
<1>16. ~Rolls(pc'[c], call'[c]) BY <1>14 DEF Rolls, WaitPcs
<1>17. \A u \in K : ~In(rest, u) BY <1>3, <1>5
<1>18. SavedAfter(c)
  BY <1>8, <1>11, <1>12, <1>13, <1>14, <1>15, <1>16, <1>17 DEF SavedAfter, Private, SavedIn
<1> QED BY <1>18, OwnSaved

\* The calls that release start on tickets that no savepoint protects, or end
\* the savepoint.
LEMMA ReleaseStartSaved ==
  ASSUME SInv, NEW c \in Ctx, NEW q, NEW sv, Release(c, q, sv),
         \/ sv = NoUserSavepoint
         \/ sv = usvp[c] /\ \A u \in usvp[c].kept : ~In(q, u)
  PROVE  \A b \in Ctx : SavedOK(b)'
<1>0. IInv /\ TypeOK BY DEF SInv, IInv
<1>1. /\ rel' = [rel EXCEPT ![c] = q] /\ usvp' = [usvp EXCEPT ![c] = sv]
      /\ pc' = [pc EXCEPT ![c] = "release"] /\ UNCHANGED <<own, call>>
  BY DEF Release
<1>2. /\ rel'[c] = q /\ usvp'[c] = sv /\ pc'[c] = "release"
      /\ \A b \in Ctx \ {c} : rel'[b] = rel[b] /\ usvp'[b] = usvp[b] /\ pc'[b] = pc[b]
  BY <1>0, <1>1 DEF TypeOK
<1>3. ~Rolls(pc'[c], call'[c]) BY <1>2 DEF Rolls, WaitPcs
<1>4. KeptIn(own[c], sv) /\ \A u \in sv.kept : ~In(q, u)
  <2>1. CASE sv = NoUserSavepoint
    <3>1. own[c] \in [Durations -> Seq(Ticket)] BY <1>0 DEF TypeOK
    <3>2. KeptIn(own[c], NoUserSavepoint) /\ NoUserSavepoint.kept = {} BY <3>1, NoneKept
    <3> QED BY <2>1, <3>2
  <2>2. CASE sv = usvp[c] /\ \A u \in usvp[c].kept : ~In(q, u)
    BY <2>2 DEF SInv, SavedOK, SavedIn
  <2> QED BY <2>1, <2>2
<1>5. SavedAfter(c) BY <1>1, <1>2, <1>3, <1>4 DEF SavedAfter, Private, SavedIn
<1> QED BY <1>5, OwnSaved

LEMMA ReleaseCallsSaved ==
  ASSUME SInv, NEW c \in Ctx,
         \/ ReleaseExplicitLock(c) \/ ReleaseAllLocksForName(c) \/ ReleaseStatementLocks(c)
         \/ ReleaseTransactionalLocks(c) \/ ReleaseExplicitLocks(c) \/ RollbackToSavepoint(c)
  PROVE  \A b \in Ctx : SavedOK(b)'
<1> DEFINE K == usvp[c].kept
           E == own[c][EXPLICIT]
<1>0. IInv BY DEF SInv
<1>1. KeptIn(own[c], usvp[c]) BY DEF SInv, SavedOK, SavedIn
<1>2. \A u \in K : ~In(E, u) BY <1>0, <1>1, KeptIsHeld
<1>3. CASE ReleaseExplicitLock(c)
  <2>1. PICK i \in 1 .. Len(E) : Release(c, <<E[i]>>, usvp[c]) BY <1>3 DEF ReleaseExplicitLock
  <2> DEFINE t == E[i]
  <2>2. In(E, t) BY DEF In
  <2>3. Release(c, <<t>>, usvp[c]) BY <2>1
  <2> HIDE DEF t
  <2>4. \A u : In(<<t>>, u) => u = t BY DEF In
  <2> QED BY <1>2, <2>2, <2>3, <2>4, ReleaseStartSaved
<1>4. CASE ReleaseAllLocksForName(c)
  <2>1. PICK n \in 1 .. Len(E) : \E f \in [1 .. n -> 1 .. Len(E)] :
            Release(c, [i \in 1 .. n |-> E[f[i]]], usvp[c])
    BY <1>4 DEF ReleaseAllLocksForName
  <2>2. PICK f \in [1 .. n -> 1 .. Len(E)] : Release(c, [i \in 1 .. n |-> E[f[i]]], usvp[c])
    BY <2>1
  <2> DEFINE q == [i \in 1 .. n |-> E[f[i]]]
  <2>3. E \in Seq(Ticket) BY <1>0 DEF IInv, TypeOK, EXPLICIT, Durations
  <2> HIDE DEF E
  <2>4. n \in Nat /\ \A i \in 1 .. n : E[f[i]] \in Ticket BY <2>3
  <2>5. Len(q) = n /\ \A i \in 1 .. n : q[i] = E[f[i]] BY <2>4
  <2>6. Release(c, q, usvp[c]) BY <2>2
  <2> HIDE DEF q
  <2>7. \A u : In(q, u) => In(E, u) BY <2>5 DEF In
  <2> QED BY <1>2, <2>6, <2>7, ReleaseStartSaved
<1>5. CASE ReleaseStatementLocks(c)
  <2>1. CASE usvp[c].at.stmt = NoTicket
    <3>1. Release(c, own[c][STATEMENT], usvp[c]) BY <1>5, <2>1 DEF ReleaseStatementLocks
    <3>2. own[c][STATEMENT] \in Seq(Ticket) BY <1>0 DEF IInv, TypeOK, STATEMENT, Durations
    <3>3. \A u \in K : ~In(own[c][STATEMENT], u)
      <4> SUFFICES ASSUME NEW i \in 1 .. Len(own[c][STATEMENT]), own[c][STATEMENT][i] \in K
                   PROVE  FALSE
        BY DEF In
      <4>1. PICK n \in 1 .. i : own[c][STATEMENT][n] = NoTicket
        BY <1>1, <2>1 DEF KeptIn, Marks
      <4>2. n \in 1 .. Len(own[c][STATEMENT]) BY <3>2
      <4>3. own[c][STATEMENT][n] \in Ticket BY <3>2, <4>2
      <4> QED BY <4>1, <4>3
    <3> QED BY <3>1, <3>3, ReleaseStartSaved
  <2>2. CASE usvp[c].at.stmt # NoTicket
    <3>1. Release(c, own[c][STATEMENT], NoUserSavepoint) BY <1>5, <2>2 DEF ReleaseStatementLocks
    <3> QED BY <3>1, ReleaseStartSaved
  <2> QED BY <2>1, <2>2
<1>6. CASE ReleaseTransactionalLocks(c)
  BY <1>6, ReleaseStartSaved DEF ReleaseTransactionalLocks
<1>7. CASE ReleaseExplicitLocks(c)
  BY <1>2, <1>7, ReleaseStartSaved DEF ReleaseExplicitLocks
<1>8. CASE RollbackToSavepoint(c)
  <2>1. GuardIn(own[c], usvp[c].at, K) BY <1>1, MarksGuard
  <2>2. \A u \in K : ~In(SinceSavepoint(c, usvp[c].at), u) BY <1>0, <2>1, SinceSpares
  <2> QED BY <1>8, <2>2, ReleaseStartSaved DEF RollbackToSavepoint
<1> QED BY <1>3, <1>4, <1>5, <1>6, <1>7, <1>8

\* Changes of duration end the savepoint; a new savepoint protects all.
LEMMA DurationsSaved ==
  ASSUME SInv, NEW c \in Ctx,
         \/ SetExplicitDurationForAllLocks(c) \/ SetTransactionDurationForAllLocks(c)
         \/ SetLockDuration(c) \/ TakeSavepoint(c)
  PROVE  \A b \in Ctx : SavedOK(b)'
<1>0. IInv BY DEF SInv
<1>1. Rearranges(c) BY <1>0, DurationsRearrange
<1>2. /\ pc[c] = "idle" /\ \A b \in Ctx \ {c} : own'[b] = own[b]
      /\ UNCHANGED <<pc, call, rel>> /\ own' \in [Ctx -> [Durations -> Seq(Ticket)]]
  BY <1>1 DEF Rearranges
<1>3. rel[c] = <<>> BY <1>0, <1>2 DEF IInv, ThreadOK, RelOK
<1>4. ASSUME KeptIn(own'[c], usvp'[c]), \A b \in Ctx \ {c} : usvp'[b] = usvp[b]
      PROVE  \A b \in Ctx : SavedOK(b)'
  <2>1. ~Rolls(pc'[c], call'[c]) BY <1>2 DEF Rolls, WaitPcs
  <2>2. \A u : ~In(rel'[c], u) BY <1>2, <1>3 DEF In
  <2>3. SavedAfter(c) BY <1>2, <1>4, <2>1, <2>2 DEF SavedAfter, Private, SavedIn
  <2> QED BY <2>3, OwnSaved
<1>5. usvp \in [Ctx -> UserSavepoint] /\ own \in [Ctx -> [Durations -> Seq(Ticket)]]
  BY <1>0 DEF IInv, TypeOK
<1>6. KeptIn(own'[c], NoUserSavepoint) BY <1>2, NoneKept
<1>7. CASE SetExplicitDurationForAllLocks(c) \/ SetTransactionDurationForAllLocks(c)
  <2>1. usvp' = [usvp EXCEPT ![c] = NoUserSavepoint]
    BY <1>7 DEF SetExplicitDurationForAllLocks, SetTransactionDurationForAllLocks
  <2>2. usvp'[c] = NoUserSavepoint /\ \A b \in Ctx \ {c} : usvp'[b] = usvp[b] BY <1>5, <2>1
  <2> QED BY <1>4, <1>6, <2>2
<1>8. CASE SetLockDuration(c)
  <2>1. usvp' = usvp /\ ~usvp[c].set BY <1>8 DEF SetLockDuration
  <2>2. usvp[c].kept = {} /\ usvp[c].at = NoSavepoint
    BY <2>1 DEF SInv, SavedOK, SavedIn, KeptIn
  <2>3. usvp[c] = NoUserSavepoint
    BY <1>5, <2>1, <2>2 DEF UserSavepoint, NoUserSavepoint
  <2> QED BY <1>4, <1>6, <2>1, <2>3
<1>9. CASE TakeSavepoint(c)
  <2> DEFINE a == own[c][STATEMENT]
             b == own[c][TRANSACTION]
             K == ToSet(a) \cup ToSet(b)
             sv == [set |-> TRUE, at |-> MdlSavepoint(c), kept |-> K]
  <2>1. usvp' = [usvp EXCEPT ![c] = sv] /\ own' = own BY <1>9 DEF TakeSavepoint
  <2>2. usvp'[c] = sv /\ \A e \in Ctx \ {c} : usvp'[e] = usvp[e] BY <1>5, <2>1
  <2>3. a \in Seq(Ticket) /\ b \in Seq(Ticket) BY <1>5 DEF STATEMENT, TRANSACTION, Durations
  <2>4. sv.set = TRUE /\ sv.kept = K /\ sv.at.stmt = FrontTicket(a) /\ sv.at.trans = FrontTicket(b)
    BY DEF MdlSavepoint
  <2> HIDE DEF a, b, sv
  <2>5. \A u : u \in K <=> In(a, u) \/ In(b, u)
    <3>1. \A u : u \in ToSet(a) <=> In(a, u) BY <2>3, ToSetIn
    <3>2. \A u : u \in ToSet(b) <=> In(b, u) BY <2>3, ToSetIn
    <3> QED BY <3>1, <3>2
  <2> HIDE DEF K
  <2>6. Marks(a, FrontTicket(a), K) /\ Marks(b, FrontTicket(b), K)
    BY <2>3, <2>5, FrontGuards
  <2>7. FrontTicket(a) \in K \cup {NoTicket} /\ FrontTicket(b) \in K \cup {NoTicket}
    <3>1. ASSUME NEW s \in Seq(Ticket) PROVE s = <<>> \/ In(s, s[1])
      <4>1. s # <<>> => 1 \in 1 .. Len(s) OBVIOUS
      <4> QED BY <4>1 DEF In
    <3>2. (a = <<>> \/ In(a, a[1])) /\ (b = <<>> \/ In(b, b[1])) BY <2>3, <3>1
    <3> QED BY <2>5, <3>2 DEF FrontTicket
  <2>8. KeptIn(own[c], sv)
    <3>1. /\ \A t \in sv.kept : In(a, t) \/ In(b, t)
          /\ sv.at.stmt \in sv.kept \cup {NoTicket} /\ sv.at.trans \in sv.kept \cup {NoTicket}
          /\ Marks(a, sv.at.stmt, sv.kept) /\ Marks(b, sv.at.trans, sv.kept)
      BY <2>4, <2>5, <2>6, <2>7
    <3> QED BY <2>4, <3>1 DEF KeptIn, a, b
  <2> QED BY <1>4, <2>1, <2>2, <2>8
<1> QED BY <1>7, <1>8, <1>9

\* The merge of an upgrade removes a ticket that is newer than its savepoint.
LEMMA MergeSaved ==
  ASSUME SInv, NEW c \in Ctx, MergeUpgrade(c)
  PROVE  \A b \in Ctx : SavedOK(b)'
<1> DEFINE k == call[c]
           K == usvp[c].kept
<1>0. IInv /\ own \in [Ctx -> [Durations -> Seq(Ticket)]] BY DEF SInv, IInv, TypeOK
<1>1. pc[c] = "upgrade" BY DEF MergeUpgrade
<1>2. KeptIn(own[c], usvp[c]) /\ (\A u \in K : ~In(rel[c], u)) /\ GuardIn(own[c], k.svp, K)
  BY <1>1 DEF SInv, SavedOK, SavedIn, Rolls
<1>3. own[c] \in [Durations -> Seq(Ticket)] /\ Inj(own[c]) BY <1>0 DEF IInv, ThreadOK, OwnOK
<1>4. K \subseteq Ticket BY <1>0, <1>2, KeptIsHeld
<1>5. TRANSACTION \in Durations BY DEF TRANSACTION, Durations
<1>6. /\ pc' = [pc EXCEPT ![c] = "idle"] /\ call' = [call EXCEPT ![c] = NoCall]
      /\ UNCHANGED <<usvp, rel>>
  BY DEF MergeUpgrade
<1>7. pc'[c] = "idle" /\ \A b \in Ctx \ {c} : pc'[b] = pc[b] /\ call'[b] = call[b]
  BY <1>0, <1>6 DEF IInv, TypeOK
<1>8. KeptIn(own'[c], usvp[c]) /\ \A b \in Ctx \ {c} : own'[b] = own[b]
  <2>1. CASE /\ ~HasLock(c, k.svp, k.cur)
             /\ \E i \in 1 .. Len(own[c][TRANSACTION]) :
                   /\ own[c][TRANSACTION][i] = k.cur
                   /\ own' = [own EXCEPT ![c][TRANSACTION] = RemoveAt(@, i)]
    <3>1. PICK i \in 1 .. Len(own[c][TRANSACTION]) :
                   /\ own[c][TRANSACTION][i] = k.cur
                   /\ own' = [own EXCEPT ![c][TRANSACTION] = RemoveAt(@, i)]
      BY <2>1
    <3>2. k.cur \notin K BY <1>0, <1>2, <2>1, NewerNotKept
    <3>3. /\ own'[c] = [own[c] EXCEPT ![TRANSACTION] = RemoveAt(@, i)]
          /\ \A b \in Ctx \ {c} : own'[b] = own[b]
      BY <1>0, <3>1
    <3>4. own[c][TRANSACTION][i] \notin K BY <3>1, <3>2
    <3>5. KeptIn([own[c] EXCEPT ![TRANSACTION] = RemoveAt(@, i)], usvp[c])
      BY <1>2, <1>3, <1>4, <1>5, <3>4, KeptRemove
    <3> QED BY <3>3, <3>5
  <2>2. CASE own' = own BY <1>2, <2>2
  <2> QED BY <2>1, <2>2 DEF MergeUpgrade
<1>9. ~Rolls(pc'[c], call'[c]) BY <1>7 DEF Rolls, WaitPcs
<1>10. SavedAfter(c) BY <1>2, <1>6, <1>7, <1>8, <1>9 DEF SavedAfter, Private, SavedIn
<1> QED BY <1>10, OwnSaved

\* The steps of waits, searches and reschedule_waiters().
LEMMA OtherStepsSaved ==
  ASSUME SInv, NEW c \in Ctx,
         \/ WillWaitFor(c) \/ WaitAborted(c) \/ CutShort(c) \/ DowngradeLock(c)
         \/ SearchStart(c) \/ SearchFollow(c) \/ SearchLeave(c) \/ TellVictim(c)
         \/ GrantNext(c) \/ RescheduleDone(c)
  PROVE  \A b \in Ctx : SavedOK(b)'
<1>0. IInv /\ TypeOK /\ pc \in [Ctx -> PcValues] BY DEF SInv, IInv, TypeOK
<1>1. CASE WillWaitFor(c) \/ WaitAborted(c) \/ CutShort(c)
  <2>1. UNCHANGED <<own, usvp, rel, call>>
    BY <1>1 DEF WillWaitFor, WaitAborted, CutShort, ClientGone, Interrupt
  <2>2. \A b \in Ctx : pc'[b] = pc[b] \/ (pc[b] \in WaitPcs /\ pc'[b] \in WaitPcs)
    BY <1>0, <1>1 DEF WillWaitFor, WaitAborted, CutShort, ClientGone, Interrupt, WaitPcs
  <2> QED BY <2>1, <2>2, QuietSaved
<1>2. CASE SearchStart(c) \/ SearchFollow(c) \/ SearchLeave(c) \/ TellVictim(c)
  <2>1. UNCHANGED <<own, usvp, rel, call>>
    BY <1>2 DEF SearchStart, SearchFollow, SearchLeave, TellVictim
  <2>2. pc[c] \in WaitPcs /\ \E p \in WaitPcs : pc' = [pc EXCEPT ![c] = p]
    <3>1. pc[c] \in WaitPcs /\ pc = [pc EXCEPT ![c] = pc[c]]
      BY <1>0, <1>2 DEF SearchStart, SearchFollow, SearchLeave, TellVictim, WaitPcs
    <3>2. ASSUME NEW n, NEW s, Visit(c, n, s) PROVE \E p \in WaitPcs : pc' = [pc EXCEPT ![c] = p]
      <4>1. \E p \in {"wait", "search", "tell", pc[c]} : pc' = [pc EXCEPT ![c] = p]
        BY <3>1, <3>2 DEF Visit, Found
      <4> QED BY <3>1, <4>1 DEF WaitPcs
    <3>3. CASE SearchStart(c) BY <3>1, <3>2, <3>3 DEF SearchStart
    <3>4. CASE SearchFollow(c) BY <3>1, <3>2, <3>4 DEF SearchFollow
    <3>5. CASE SearchLeave(c) BY <3>1, <3>5 DEF SearchLeave, WaitPcs
    <3>6. CASE TellVictim(c) BY <3>1, <3>6 DEF TellVictim, WaitPcs
    <3> QED BY <1>2, <3>3, <3>4, <3>5, <3>6
  <2>3. \A b \in Ctx : pc'[b] = pc[b] \/ (pc[b] \in WaitPcs /\ pc'[b] \in WaitPcs)
    BY <1>0, <2>2
  <2> QED BY <2>1, <2>3, QuietSaved
<1>3. CASE GrantNext(c)
  <2>1. UNCHANGED <<own, usvp, rel, call, pc>> BY <1>3 DEF GrantNext
  <2> QED BY <2>1, QuietSaved
<1>4. CASE RescheduleDone(c)
  <2>1. /\ UNCHANGED <<own, usvp, rel, call>> /\ pc' = [pc EXCEPT ![c] = Resume(rel[c])]
    BY <1>4 DEF RescheduleDone
  <2>2. \A b \in Ctx : pc'[b] = pc[b] \/ pc'[b] \in {"idle", "release", "resched"}
    BY <1>0, <2>1 DEF Resume
  <2> QED BY <2>1, <2>2, QuietSaved
<1>5. CASE DowngradeLock(c)
  <2>1. UNCHANGED <<own, usvp, rel, call>> BY <1>5 DEF DowngradeLock
  <2>2. \E l \in ObjectKeys : RescheduleOrRemove(c, l, <<>>) BY <1>5 DEF DowngradeLock
  <2>3. PICK l \in Keys : RescheduleOrRemove(c, l, <<>>) BY <2>2 DEF Keys
  <2>4. /\ \A b \in Ctx \ {c} : pc'[b] = pc[b]
        /\ pc'[c] \in {"idle", "release", "resched"}
    BY <1>0, <2>3, RescheduleFacts
  <2> QED BY <2>1, <2>4, QuietSaved
<1> QED BY <1>1, <1>2, <1>3, <1>4, <1>5

\* Every step keeps what savepoints protect.
LEMMA SavedNext == SInv /\ [Next]_vars => SInv'
<1> SUFFICES ASSUME SInv, [Next]_vars PROVE SInv'
  OBVIOUS
<1>0. IInv /\ IInv' BY NextInv DEF SInv
<1>1. CASE UNCHANGED vars BY <1>0, <1>1, QuietSaved DEF vars, SInv
<1>2. ASSUME NEW c \in Ctx, Enter(c) PROVE \A b \in Ctx : SavedOK(b)'
  <2>1. ASSUME NEW r \in Requests, AcquireLock(c, r) \/ TryAcquireLock(c, r) \/ HandlerOpen(c, r)
        PROVE  \A b \in Ctx : SavedOK(b)'
    BY <1>0, <2>1, SingleAsks, AcquireSaved
  <2>2. CASE (\E L \in LockLists : AcquireLocks(c, L)) \/ UpgradeSharedLock(c)
    BY <1>0, <2>2, ListAsks, UpgradeAsks, AcquireSaved
  <2>3. CASE \/ SetExplicitDurationForAllLocks(c) \/ SetTransactionDurationForAllLocks(c)
             \/ SetLockDuration(c) \/ TakeSavepoint(c)
    BY <2>3, DurationsSaved
  <2>4. CASE \/ ReleaseExplicitLock(c) \/ ReleaseAllLocksForName(c) \/ ReleaseStatementLocks(c)
             \/ ReleaseTransactionalLocks(c) \/ ReleaseExplicitLocks(c) \/ RollbackToSavepoint(c)
    BY <2>4, ReleaseCallsSaved
  <2>5. CASE DowngradeLock(c) BY <2>5, OtherStepsSaved
  <2> QED BY <1>2, <2>1, <2>2, <2>3, <2>4, <2>5 DEF Enter
<1>3. ASSUME NEW c \in Ctx, Proceed(c) PROVE \A b \in Ctx : SavedOK(b)'
  <2>1. CASE AcquireNext(c) BY <1>0, <2>1, ListAsks, AcquireSaved
  <2>2. CASE HandlerKeep(c) \/ HandlerFail(c) BY <2>2, HandlerSaved
  <2>3. CASE MergeUpgrade(c) BY <2>3, MergeSaved
  <2>4. CASE WaitGranted(c) BY <2>4, WaitGrantedSaved
  <2>5. CASE AbortWait(c) BY <2>5, AbortWaitSaved
  <2>6. CASE ReleaseLock(c) BY <2>6, ReleaseLockSaved
  <2>7. CASE \/ WillWaitFor(c) \/ WaitAborted(c)
             \/ SearchStart(c) \/ SearchFollow(c) \/ SearchLeave(c) \/ TellVictim(c)
             \/ GrantNext(c) \/ RescheduleDone(c)
    BY <2>7, OtherStepsSaved
  <2> QED BY <1>3, <2>1, <2>2, <2>3, <2>4, <2>5, <2>6, <2>7 DEF Proceed
<1>4. ASSUME NEW c \in Ctx, CutShort(c) PROVE \A b \in Ctx : SavedOK(b)'
  BY <1>4, OtherStepsSaved
<1> QED BY <1>0, <1>1, <1>2, <1>3, <1>4 DEF Next, SInv

\* Nothing is saved at the start.
LEMMA SavedInit == Init => SInv
<1> SUFFICES ASSUME Init PROVE SInv
  OBVIOUS
<1>1. IInv BY InitInv
<1> SUFFICES ASSUME NEW c \in Ctx PROVE SavedOK(c)
  BY <1>1 DEF SInv
<1>2. /\ usvp[c] = NoUserSavepoint /\ pc[c] = "idle" BY DEF Init
<1>3. own[c] \in [Durations -> Seq(Ticket)] BY <1>1 DEF IInv, TypeOK
<1>4. KeptIn(own[c], usvp[c]) /\ usvp[c].kept = {} BY <1>2, <1>3, NoneKept
<1>5. ~Rolls(pc[c], call[c]) BY <1>2 DEF Rolls, WaitPcs
<1> QED BY <1>4, <1>5 DEF SavedOK, SavedIn

\* Savepoints are exact: whatever is reused, cloned, upgraded, made explicit,
\* given up in a wait or released meanwhile, and whatever savepoints calls take
\* for themselves, rollback_to_savepoint() would release the tickets taken since the
\* savepoint and none that it protects.
THEOREM SavepointsAreExact == Spec => []SavepointExact
<1>1. SInv => SavepointExact
  <2> SUFFICES ASSUME SInv, NEW c \in Ctx
               PROVE  ToSet(SinceSavepoint(c, usvp[c].at)) =
                        (ToSet(own[c][STATEMENT]) \cup ToSet(own[c][TRANSACTION])) \ usvp[c].kept
    BY DEF SavepointExact
  <2> DEFINE a == own[c][STATEMENT]
             b == own[c][TRANSACTION]
             q == SinceSavepoint(c, usvp[c].at)
             K == usvp[c].kept
  <2>0. IInv /\ KeptIn(own[c], usvp[c]) BY DEF SInv, SavedOK, SavedIn
  <2>1. a \in Seq(Ticket) /\ b \in Seq(Ticket) BY <2>0 DEF IInv, TypeOK, STATEMENT, TRANSACTION, Durations
  <2>2. q \in Seq(Ticket) BY <2>0, SinceSavepointFacts
  <2>3. Marks(a, usvp[c].at.stmt, K) /\ Marks(b, usvp[c].at.trans, K) BY <2>0 DEF KeptIn
  <2>4. STATEMENT # TRANSACTION BY DEF STATEMENT, TRANSACTION
  <2>5. \A u : In(q, u) <=>
            \/ \E i \in 1 .. Len(a) : a[i] = u /\ ~\E n \in 1 .. i : a[n] = usvp[c].at.stmt
            \/ \E i \in 1 .. Len(b) : b[i] = u /\ ~\E n \in 1 .. i : b[n] = usvp[c].at.trans
    BY <2>0, <2>4, SinceExact
  <2>6. /\ \A u : u \in ToSet(a) <=> In(a, u)
        /\ \A u : u \in ToSet(b) <=> In(b, u)
        /\ \A u : u \in ToSet(q) <=> In(q, u)
    <3> HIDE DEF a, b, q
    <3> QED BY <2>1, <2>2, ToSetIn
  <2> HIDE DEF a, b, q, K
  <2>7. \A u : In(q, u) <=> (In(a, u) \/ In(b, u)) /\ u \notin K
    BY <2>3, <2>5 DEF In, Marks
  <2>8. \A u : u \in ToSet(q) <=> u \in (ToSet(a) \cup ToSet(b)) \ K BY <2>6, <2>7
  <2>9. ToSet(q) = (ToSet(a) \cup ToSet(b)) \ K BY <2>8
  <2> QED BY <2>9 DEF a, b, q, K
<1> QED BY <1>1, SavedInit, SavedNext, PTL DEF Spec

-----------------------------------------------------------------------------
(***************************************************************************)
(* Waits and deadlock searches                                             *)
(***************************************************************************)
USE NullAssumption

(* The inductive invariants, on top of IInv *)

\* The steps of a wait in which a grant will be noticed
NoticePcs == {"willwait", "search", "tell", "wait"}

\* The context of t is about to take it from its wait slot
Taking(t) ==
    /\ call[CtxOf(t)].cur = t /\ slot[CtxOf(t)] = "GRANTED"
    /\ pc[CtxOf(t)] \in NoticePcs

\* A granted ticket is held, or about to be taken
AccountOK == \A l \in Keys : \A t \in granted[l] : Has(own[CtxOf(t)], t) \/ Taking(t)

\* A wait that is given up has a closed slot, which keeps others from granting
ClosedOK ==
    \A c \in Ctx : /\ pc[c] # "gone"
                   /\ pc[c] = "abort" => slot[c] \in {"VICTIM", "TIMEOUT", "KILLED"}

\* m_rwlock is write-locked across steps by who reschedules the lock
RwOK ==
    /\ \A l \in Keys : rw[l] # NoCtx => pc[rw[l]] = "resched" /\ it[rw[l]].key = l
    /\ \A c \in Ctx : pc[c] = "resched" => rw[it[c].key] = c

\* A node that the search of c has entered waits for a lock that is not written,
\* has not been granted it, and the edges left to follow are edges
NodeOK(f) ==
    /\ wfor[f.node] # NoTicket
    /\ rw[tlock[wfor[f.node]]] = NoCtx
    /\ slot[f.node] # "GRANTED"
    /\ f.todo \subseteq Edges(f.node)

\* Each node of a path but the first blocks the one before it
PathOK(s) ==
    /\ \A i \in 1 .. Len(s) : NodeOK(s[i])
    /\ \A i \in 1 .. Len(s) - 1 : \E u \in Edges(s[i].node) : CtxOf(u) = s[i + 1].node

\* The waiter t of l must wait: a waiter of higher priority or a granted lock of
\* another context is in its way (w, g, y: m_waiting, m_granted, types)
BlockedIn(w, g, y, l, t) ==
    \/ \E u \in Ticket : In(w[l], u) /\ y[u] \in WaitingIncompat(l, y[t])
    \/ \E u \in g[l] : CtxOf(u) # CtxOf(t) /\ y[u] \in GrantedIncompat(l, y[t])

\* reschedule_waiters() may pass t by: its wait is over (s: the slots), it must
\* wait, or it is a strong request and max_write_lock_count can be reached
SettledIn(w, g, y, s, l, t) ==
    \/ s[CtxOf(t)] # "EMPTY"
    \/ BlockedIn(w, g, y, l, t)
    \/ y[t] \in HogTypes(l) /\ HogBound >= MaxWriteLockCount

\* The waiters of l that nobody is about to consider are settled: all of them,
\* or those behind the iterator of who reschedules (r: m_rwlock, i: iterators)
QueueIn(w, g, y, s, r, i, l) ==
    \A j \in 1 .. Len(w[l]) :
        (r[l] = NoCtx \/ j < i[r[l]].i) => SettledIn(w, g, y, s, l, w[l][j])

QueueOK(l) == QueueIn(waiting, granted, ttype, slot, rw, it, l)

\* Strong requests are skipped only if max_write_lock_count can be reached
SkipOK ==
    \A c \in Ctx : pc[c] = "resched" /\ it[c].skip => HogBound >= MaxWriteLockCount

AInv == IInv /\ RwOK /\ AccountOK /\ ClosedOK

PInv == IInv /\ RwOK /\ \A c \in Ctx : PathOK(stack[c])

QInv == IInv /\ RwOK /\ SkipOK /\ \A l \in Keys : QueueOK(l)

-----------------------------------------------------------------------------
(* What a step of a thread leaves alone *)

\* A step of c writes no lock but m, of which it has the write lock, and no
\* wait-for edge but its own, which no search reads
Touches(c, m) ==
    /\ m \in Keys => rw[m] = c \/ CanWriteLock(m)
    /\ \A l \in Keys : l # m =>
          granted'[l] = granted[l] /\ waiting'[l] = waiting[l] /\ rw'[l] = rw[l]
    /\ \A t \in Ticket : tlock[t] \in Keys /\ tlock[t] # m =>
          tlock'[t] = tlock[t] /\ ttype'[t] = ttype[t]
    /\ \A b \in Ctx \ {c} : /\ pc'[b] = pc[b] /\ call'[b] = call[b] /\ own'[b] = own[b]
                            /\ wfor'[b] = wfor[b] /\ it'[b] = it[b] /\ stack'[b] = stack[b]
    /\ wfor'[c] = wfor[c] \/ ~WaitingForIsRead(c)

\* It takes the write lock of m to reschedule it, gives it back, or does neither
RwStep(c, m) ==
    \/ /\ rw' = rw /\ (pc'[c] = "resched" <=> pc[c] = "resched")
       /\ pc[c] = "resched" => it'[c].key = it[c].key
    \/ /\ m \in Keys /\ rw[m] = NoCtx /\ rw' = [rw EXCEPT ![m] = c]
       /\ pc[c] # "resched" /\ pc'[c] = "resched" /\ it'[c].key = m
    \/ /\ rw' = [rw EXCEPT ![it[c].key] = NoCtx]
       /\ pc[c] = "resched" /\ pc'[c] # "resched"

\* A slot in use is filled once, with GRANTED only for a request for m; a wait
\* is given up with a closed slot, or because the client is gone
SlotStep(c, m) ==
    /\ \A b \in Ctx \ {c} : slot'[b] = slot[b] \/ slot[b] = "EMPTY"
    /\ pc[c] \in WaitPcs => slot'[c] = slot[c] \/ slot[c] = "EMPTY"
    /\ \A b \in Ctx : slot'[b] = "GRANTED" =>
          slot[b] = "GRANTED" \/ (m \in Keys /\ tlock[call[b].cur] = m)
    /\ pc'[c] = "gone" => MayDisconnect
    /\ pc'[c] = "abort" => pc[c] = "gone" \/ slot'[c] \in {"VICTIM", "TIMEOUT", "KILLED"}

\* A ticket is granted to a waiter whose slot is empty and then says so, or to
\* c, which holds it; c takes over what was granted to it
GrantStep(c) ==
    \A l \in Keys : \A t \in granted'[l] :
        \/ CtxOf(t) # c /\ t \in granted[l]
        \/ CtxOf(t) # c /\ In(waiting[l], t) /\ slot[CtxOf(t)] = "EMPTY"
             /\ slot'[CtxOf(t)] = "GRANTED"
        \/ CtxOf(t) = c /\ Has(own'[c], t)
        \/ CtxOf(t) = c /\ t \in granted[l] /\ ~Has(own[c], t)
             /\ (Taking(t) => Taking(t)')

\* What a step makes of the waiters of l
QueueAfter(l) == QueueIn(waiting', granted', ttype', slot', rw', it', l)

\* It changes the queue or the granted tickets of m so that the waiters of m stay
\* settled
QueueStep(c, m) ==
    /\ pc[c] = "resched" => m = it[c].key
    /\ pc'[c] = "resched" => \/ pc[c] = "resched" /\ it'[c].skip = it[c].skip
                             \/ it'[c].skip => HogBound >= MaxWriteLockCount
    /\ m \in Keys /\ QueueOK(m) /\ SkipOK => QueueAfter(m)

Effect(c, m) ==
    Touches(c, m) /\ RwStep(c, m) /\ SlotStep(c, m) /\ GrantStep(c) /\ QueueStep(c, m)

\* m_rwlock stays locked by who reschedules.
LEMMA RwKept ==
  ASSUME TypeOK, RwOK, NEW c \in Ctx, NEW m, Touches(c, m), RwStep(c, m),
         \A b \in Ctx : pc[b] = "resched" => it[b].key \in Keys
  PROVE  RwOK'
<1>0. rw \in [Keys -> Ctx \cup {NoCtx}] /\ NoCtx \notin Ctx
  BY DEF TypeOK
<1>a. \A b \in Ctx \ {c} : pc'[b] = pc[b] /\ it'[b] = it[b]
  BY DEF Touches
<1>1. CASE /\ rw' = rw /\ (pc'[c] = "resched" <=> pc[c] = "resched")
           /\ pc[c] = "resched" => it'[c].key = it[c].key
  BY <1>0, <1>1, <1>a DEF RwOK
<1>2. CASE /\ m \in Keys /\ rw[m] = NoCtx /\ rw' = [rw EXCEPT ![m] = c]
           /\ pc[c] # "resched" /\ pc'[c] = "resched" /\ it'[c].key = m
  <2>1. rw'[m] = c /\ \A l \in Keys \ {m} : rw'[l] = rw[l]
    BY <1>0, <1>2
  <2>2. \A l \in Keys : rw'[l] # NoCtx => pc'[rw'[l]] = "resched" /\ it'[rw'[l]].key = l
    <3> TAKE l \in Keys
    <3>1. CASE l = m BY <1>2, <2>1, <3>1
    <3>2. CASE l # m
      <4>1. rw'[l] = rw[l] /\ rw[l] \in Ctx \cup {NoCtx} BY <1>0, <2>1, <3>2
      <4>2. rw[l] # NoCtx => pc[rw[l]] = "resched" /\ it[rw[l]].key = l BY DEF RwOK
      <4> QED BY <1>2, <1>a, <4>1, <4>2
    <3> QED BY <3>1, <3>2
  <2>3. \A b \in Ctx : pc'[b] = "resched" => rw'[it'[b].key] = b
    <3> TAKE b \in Ctx
    <3>1. CASE b = c BY <1>2, <2>1, <3>1
    <3>2. CASE b # c
      <4>1. pc'[b] = pc[b] /\ it'[b] = it[b] BY <1>a, <3>2
      <4>2. pc[b] = "resched" => rw[it[b].key] = b /\ it[b].key \in Keys BY DEF RwOK
      <4> QED BY <1>0, <1>2, <2>1, <4>1, <4>2
    <3> QED BY <3>1, <3>2
  <2> QED BY <2>2, <2>3 DEF RwOK
<1>3. CASE /\ rw' = [rw EXCEPT ![it[c].key] = NoCtx]
           /\ pc[c] = "resched" /\ pc'[c] # "resched"
  <2> DEFINE k == it[c].key
  <2>0. k \in Keys /\ rw[k] = c BY <1>3 DEF RwOK
  <2>1. rw'[k] = NoCtx /\ \A l \in Keys \ {k} : rw'[l] = rw[l]
    BY <1>0, <1>3, <2>0
  <2>a. \A l \in Keys \ {k} : rw[l] # c
    BY <1>0 DEF RwOK
  <2>2. \A l \in Keys : rw'[l] # NoCtx => pc'[rw'[l]] = "resched" /\ it'[rw'[l]].key = l
    <3> SUFFICES ASSUME NEW l \in Keys, rw'[l] # NoCtx
                 PROVE  pc'[rw'[l]] = "resched" /\ it'[rw'[l]].key = l
      OBVIOUS
    <3>1. l # k /\ rw'[l] = rw[l] /\ rw[l] \in Ctx \ {c} BY <1>0, <2>1, <2>a
    <3>2. pc[rw[l]] = "resched" /\ it[rw[l]].key = l BY <3>1 DEF RwOK
    <3> QED BY <1>a, <3>1, <3>2
  <2>3. \A b \in Ctx : pc'[b] = "resched" => rw'[it'[b].key] = b
    <3> SUFFICES ASSUME NEW b \in Ctx, pc'[b] = "resched" PROVE rw'[it'[b].key] = b
      OBVIOUS
    <3>1. b # c /\ pc[b] = "resched" /\ it'[b] = it[b] BY <1>3, <1>a
    <3>2. rw[it[b].key] = b /\ it[b].key \in Keys BY <3>1 DEF RwOK
    <3> QED BY <2>0, <2>1, <3>1, <3>2
  <2> QED BY <2>2, <2>3 DEF RwOK
<1> QED BY <1>1, <1>2, <1>3 DEF RwStep

\* What a step makes of the edges, nodes and paths of the searches
EdgesAfter(n) ==
    {u \in granted'[tlock'[wfor'[n]]] :
         CtxOf(u) # n /\ ttype'[u] \in GrantedIncompat(tlock'[wfor'[n]], ttype'[wfor'[n]])}
      \cup {u \in ToSet(waiting'[tlock'[wfor'[n]]]) :
         CtxOf(u) # n /\ ttype'[u] \in WaitingIncompat(tlock'[wfor'[n]], ttype'[wfor'[n]])}
NodeAfter(f) ==
    /\ wfor'[f.node] # NoTicket
    /\ rw'[tlock'[wfor'[f.node]]] = NoCtx
    /\ slot'[f.node] # "GRANTED"
    /\ f.todo \subseteq EdgesAfter(f.node)
PathAfter(s) ==
    /\ \A i \in 1 .. Len(s) : NodeAfter(s[i])
    /\ \A i \in 1 .. Len(s) - 1 : \E u \in EdgesAfter(s[i].node) : CtxOf(u) = s[i + 1].node

\* They are the edges, nodes and paths of the next state.
LEMMA AfterIsPrime ==
  ASSUME NEW b \in Ctx, PathAfter(stack'[b])
  PROVE  PathOK(stack[b])'
BY DEF PathAfter, NodeAfter, EdgesAfter, PathOK, NodeOK, Edges

\* A step that writes nothing the searches have locked keeps their nodes and
\* the edges of these.
LEMMA NodeKept ==
  ASSUME IInv, NEW c \in Ctx, NEW m \in Keys \cup {NoKey}, Touches(c, m), SlotStep(c, m),
         NEW b \in Ctx, NEW i \in 1 .. Len(stack[b]), NodeOK(stack[b][i])
  PROVE  /\ EdgesAfter(stack[b][i].node) = Edges(stack[b][i].node)
         /\ NodeAfter(stack[b][i])
<1> DEFINE f == stack[b][i]
           n == f.node
           t == wfor[n]
           l == tlock[t]
<1>1. f \in Frame /\ n \in Ctx
  <2>1. stack[b] \in Seq(Frame) BY DEF IInv, TypeOK
  <2>2. f \in Frame BY <2>1
  <2> QED BY <2>2 DEF Frame
<1>2. /\ wfor[n] # NoTicket /\ rw[l] = NoCtx /\ slot[n] # "GRANTED"
      /\ f.todo \subseteq Edges(n)
  BY DEF NodeOK
<1>3. t \in Ticket /\ l \in Keys /\ t = call[n].cur
  BY <1>1, <1>2, WforFacts DEF IInv, ThreadOK, WforOK
<1>4. WaitingForIsRead(n) /\ LockIsRead(l)
  BY DEF WaitingForIsRead, LockIsRead
<1>5. l # m
  <2> SUFFICES ASSUME l = m PROVE FALSE OBVIOUS
  <2>1. rw[m] = c \/ CanWriteLock(m) BY <1>3 DEF Touches
  <2> QED BY <1>2, <1>4, <2>1 DEF CanWriteLock
<1>6. wfor'[n] = t
  <2>1. CASE n = c BY <1>4, <2>1 DEF Touches
  <2>2. CASE n # c BY <1>1, <2>2 DEF Touches
  <2> QED BY <2>1, <2>2
<1>7. /\ tlock'[t] = l /\ ttype'[t] = ttype[t]
      /\ granted'[l] = granted[l] /\ waiting'[l] = waiting[l] /\ rw'[l] = rw[l]
  BY <1>3, <1>5 DEF Touches
<1>8. \A u \in granted[l] \cup ToSet(waiting[l]) : ttype'[u] = ttype[u]
  <2> HIDE DEF l
  <2>1. granted[l] \subseteq Ticket /\ waiting[l] \in Seq(Ticket)
    BY <1>3 DEF IInv, TypeOK
  <2>2. \A u \in ToSet(waiting[l]) : u \in Ticket /\ In(waiting[l], u)
    BY <2>1, ToSetIn
  <2>3. \A u \in ToSet(waiting[l]) : tlock[u] = l
    BY <1>3, <2>2 DEF IInv, WaitingOK
  <2>4. \A u \in granted[l] : tlock[u] = l
    BY <1>3 DEF IInv, GrantedOK
  <2> QED BY <1>3, <1>5, <2>1, <2>2, <2>3, <2>4 DEF Touches
<1>9. slot'[n] # "GRANTED"
  BY <1>1, <1>2, <1>3, <1>5 DEF SlotStep
<1> HIDE DEF l, t, n
<1>10. EdgesAfter(n) = Edges(n)
  BY <1>6, <1>7, <1>8 DEF EdgesAfter, Edges, l, t
<1>11. NodeAfter(f)
  BY <1>2, <1>6, <1>7, <1>9, <1>10 DEF NodeAfter, l, t, n
<1> QED BY <1>10, <1>11 DEF n

\* A search that does not move stands on the same path.
LEMMA PathKept ==
  ASSUME IInv, NEW c \in Ctx, NEW m \in Keys \cup {NoKey}, Touches(c, m), SlotStep(c, m),
         NEW b \in Ctx, stack'[b] = stack[b], PathOK(stack[b])
  PROVE  PathOK(stack[b])'
<1>1. \A i \in 1 .. Len(stack[b]) :
         /\ EdgesAfter(stack[b][i].node) = Edges(stack[b][i].node)
         /\ NodeAfter(stack[b][i])
  BY NodeKept DEF PathOK
<1>2. stack[b] \in Seq(Frame) /\ Len(stack[b]) \in Nat BY DEF IInv, TypeOK
<1>3. PathAfter(stack[b])
  <2>1. \A i \in 1 .. Len(stack[b]) - 1 : i \in 1 .. Len(stack[b]) BY <1>2
  <2> QED BY <1>1, <2>1 DEF PathAfter, PathOK
<1>4. PathAfter(stack'[b]) BY <1>3
<1> QED BY <1>4, AfterIsPrime

\* A wait that is given up keeps its slot closed.
LEMMA ClosedKept ==
  ASSUME TypeOK, ~MayDisconnect, ClosedOK, NEW c \in Ctx, NEW m, Touches(c, m), SlotStep(c, m)
  PROVE  ClosedOK'
<1> SUFFICES ASSUME NEW b \in Ctx
             PROVE  /\ pc'[b] # "gone"
                    /\ pc'[b] = "abort" => slot'[b] \in {"VICTIM", "TIMEOUT", "KILLED"}
  BY DEF ClosedOK
<1>1. CASE b = c BY <1>1 DEF ClosedOK, SlotStep
<1>2. CASE b # c BY <1>2 DEF ClosedOK, SlotStep, Touches
<1> QED BY <1>1, <1>2

\* Granted tickets stay accounted for.
LEMMA AccountKept ==
  ASSUME IInv, TypeOK', AccountOK, ClosedOK, NEW c \in Ctx, NEW m, Effect(c, m)
  PROVE  AccountOK'
<1> SUFFICES ASSUME NEW l \in Keys, NEW t \in granted'[l]
             PROVE  Has(own'[CtxOf(t)], t) \/ Taking(t)'
  BY DEF AccountOK, Has
<1> DEFINE b == CtxOf(t)
<1>1. t \in Ticket /\ b \in Ctx BY DEF TypeOK, CtxOf, Ticket
<1>2. CASE b # c /\ t \in granted[l]
  <2>1. own'[b] = own[b] /\ call'[b] = call[b] /\ pc'[b] = pc[b]
    BY <1>1, <1>2 DEF Effect, Touches
  <2>2. slot[b] = "GRANTED" => slot'[b] = "GRANTED"
    BY <1>1, <1>2 DEF Effect, SlotStep
  <2>3. Has(own[b], t) \/ Taking(t) BY <1>2 DEF AccountOK
  <2> QED BY <2>1, <2>2, <2>3 DEF Taking
<1>3. CASE b # c /\ In(waiting[l], t) /\ slot[b] = "EMPTY" /\ slot'[b] = "GRANTED"
  <2>1. call'[b] = call[b] /\ pc'[b] = pc[b]
    BY <1>1, <1>3 DEF Effect, Touches
  <2>2. call[b].cur = t /\ pc[b] \in WaitPcs BY <1>1, <1>3 DEF IInv, WaitingOK
  <2>3. pc[b] # "gone" /\ pc[b] # "abort" BY <1>1, <1>3 DEF ClosedOK
  <2>4. pc[b] \in NoticePcs BY <2>2, <2>3 DEF WaitPcs, NoticePcs
  <2> QED BY <1>3, <2>1, <2>2, <2>4 DEF Taking
<1>4. CASE b = c /\ Has(own'[c], t)
  BY <1>4
<1>5. CASE b = c /\ t \in granted[l] /\ ~Has(own[c], t) /\ (Taking(t) => Taking(t)')
  BY <1>5 DEF AccountOK
<1> QED BY <1>2, <1>3, <1>4, <1>5 DEF Effect, GrantStep

-----------------------------------------------------------------------------
(* The waiters of a lock *)

\* A request of higher priority also conflicts with a granted lock of its type.
LEMMA PriorityConflicts ==
  \A l \in Keys : \A y \in LockTypes : WaitingIncompat(l, y) \subseteq GrantedIncompat(l, y)
BY DEF WaitingIncompat, GrantedIncompat, ScopedWaitingIncompat, ScopedGrantedIncompat,
       ObjectWaitingIncompat, ObjectGrantedIncompat, LockTypes

\* can_grant_lock() answers no exactly if something is in the way.
LEMMA CanGrantIsExact ==
  ASSUME IInv, NEW l \in Keys, NEW y \in LockTypes, NEW c
  PROVE  /\ CanGrantLock(l, y, c, FALSE) <=>
              /\ \A u \in Ticket : In(waiting[l], u) => ttype[u] \notin WaitingIncompat(l, y)
              /\ \A u \in granted[l] : CtxOf(u) # c => ttype[u] \notin GrantedIncompat(l, y)
         /\ CanGrantLock(l, y, c, TRUE) <=>
              \A u \in granted[l] : CtxOf(u) # c => ttype[u] \notin GrantedIncompat(l, y)
<1>1. waiting[l] \in Seq(Ticket) /\ granted[l] \subseteq Ticket BY DEF IInv, TypeOK
<1>2. \A u : u \in ToSet(waiting[l]) <=> In(waiting[l], u) /\ u \in Ticket
  BY <1>1, ToSetIn
<1>3. /\ gbits[l] = {ttype[u] : u \in granted[l]}
      /\ wbits[l] = {ttype[u] : u \in ToSet(waiting[l])}
  BY DEF IInv, BitmapsExact, TypesOf
<1>4. wbits[l] \cap WaitingIncompat(l, y) = {} <=>
         \A u \in Ticket : In(waiting[l], u) => ttype[u] \notin WaitingIncompat(l, y)
  BY <1>2, <1>3
<1>5. gbits[l] \cap GrantedIncompat(l, y) = {} =>
         \A u \in granted[l] : ttype[u] \notin GrantedIncompat(l, y)
  BY <1>3
<1> QED BY <1>4, <1>5 DEF CanGrantLock

\* The tickets of a queue are of different contexts, which all wait.
LEMMA WaitersDiffer ==
  ASSUME IInv, NEW l \in Keys
  PROVE  /\ waiting[l] \in Seq(Ticket) /\ Len(waiting[l]) \in Nat
         /\ \A j \in 1 .. Len(waiting[l]) :
               /\ waiting[l][j] \in Ticket /\ In(waiting[l], waiting[l][j])
               /\ CtxOf(waiting[l][j]) \in Ctx /\ pc[CtxOf(waiting[l][j])] \in WaitPcs
               /\ tlock[waiting[l][j]] = l /\ ttype[waiting[l][j]] \in LockTypes
         /\ \A j, n \in 1 .. Len(waiting[l]) :
               CtxOf(waiting[l][j]) = CtxOf(waiting[l][n]) => j = n
<1>1. waiting[l] \in Seq(Ticket) /\ Len(waiting[l]) \in Nat /\ ttype \in [Ticket -> LockTypes]
  BY DEF IInv, TypeOK
<1>2. \A j \in 1 .. Len(waiting[l]) : waiting[l][j] \in Ticket /\ In(waiting[l], waiting[l][j])
  BY <1>1 DEF In
<1>3. \A j \in 1 .. Len(waiting[l]) :
         /\ CtxOf(waiting[l][j]) \in Ctx /\ pc[CtxOf(waiting[l][j])] \in WaitPcs
         /\ tlock[waiting[l][j]] = l /\ call[CtxOf(waiting[l][j])].cur = waiting[l][j]
  BY <1>2 DEF IInv, WaitingOK, CtxOf, Ticket
<1>4. SeqInj(waiting[l]) BY DEF IInv, WaitingOK
<1> QED BY <1>1, <1>2, <1>3, <1>4 DEF SeqInj

\* A waiter that the loop of reschedule_waiters() passes by is settled.
LEMMA PassedIsSettled ==
  ASSUME IInv, NEW l \in Keys, NEW j \in 1 .. Len(waiting[l]), NEW skip \in BOOLEAN,
         skip => HogBound >= MaxWriteLockCount, ~Grantable(l, j, skip)
  PROVE  SettledIn(waiting, granted, ttype, slot, l, waiting[l][j])
<1> DEFINE t == waiting[l][j]
<1>1. t \in Ticket /\ ttype[t] \in LockTypes BY WaitersDiffer
<1>2. \/ skip /\ ttype[t] \in HogTypes(l)
      \/ ~CanGrantLock(l, ttype[t], CtxOf(t), skip)
      \/ slot[CtxOf(t)] # "EMPTY"
  BY DEF Grantable
<1> HIDE DEF t
<1>3. ~CanGrantLock(l, ttype[t], CtxOf(t), skip) => BlockedIn(waiting, granted, ttype, l, t)
  <2>1. CASE skip = TRUE BY <1>1, <2>1, CanGrantIsExact DEF BlockedIn
  <2>2. CASE skip = FALSE BY <1>1, <2>2, CanGrantIsExact DEF BlockedIn
  <2> QED BY <2>1, <2>2
<1>4. SettledIn(waiting, granted, ttype, slot, l, t) BY <1>2, <1>3 DEF SettledIn
<1> QED BY <1>4 DEF t

\* A step that keeps the queue of an unlocked l, and lets no waiter pass, keeps
\* its waiters settled.
LEMMA QueueKept ==
  ASSUME IInv, NEW l \in Keys, rw[l] = NoCtx, QueueOK(l), waiting'[l] = waiting[l],
         \A b \in Ctx : pc[b] \in WaitPcs => slot'[b] = slot[b],
         \A u \in Ticket : In(waiting[l], u) => ttype'[u] = ttype[u],
         \A u \in granted[l] : \E v \in granted'[l] :
             /\ CtxOf(v) = CtxOf(u)
             /\ \A y \in LockTypes :
                   ttype[u] \in GrantedIncompat(l, y) => ttype'[v] \in GrantedIncompat(l, y)
  PROVE  QueueAfter(l)
<1> SUFFICES ASSUME NEW j \in 1 .. Len(waiting[l])
             PROVE  SettledIn(waiting', granted', ttype', slot', l, waiting[l][j])
  BY DEF QueueAfter, QueueIn
<1> DEFINE t == waiting[l][j]
<1>1. /\ t \in Ticket /\ In(waiting[l], t) /\ ttype[t] \in LockTypes
      /\ CtxOf(t) \in Ctx /\ pc[CtxOf(t)] \in WaitPcs
  BY WaitersDiffer
<1>2. SettledIn(waiting, granted, ttype, slot, l, t) BY DEF QueueOK, QueueIn
<1> HIDE DEF t
<1>3. slot'[CtxOf(t)] = slot[CtxOf(t)] /\ ttype'[t] = ttype[t] BY <1>1
<1>4. BlockedIn(waiting, granted, ttype, l, t) => BlockedIn(waiting', granted', ttype', l, t)
  <2>1. ASSUME NEW u \in Ticket, In(waiting[l], u), ttype[u] \in WaitingIncompat(l, ttype[t])
        PROVE  BlockedIn(waiting', granted', ttype', l, t)
    BY <1>3, <2>1 DEF BlockedIn
  <2>2. ASSUME NEW u \in granted[l], CtxOf(u) # CtxOf(t),
               ttype[u] \in GrantedIncompat(l, ttype[t])
        PROVE  BlockedIn(waiting', granted', ttype', l, t)
    BY <1>1, <1>3, <2>2 DEF BlockedIn
  <2> QED BY <2>1, <2>2 DEF BlockedIn
<1>5. SettledIn(waiting', granted', ttype', slot', l, t) BY <1>2, <1>3, <1>4 DEF SettledIn
<1> QED BY <1>5 DEF t

\* The end of remove_ticket() and of downgrade_lock() has all waiters considered.
LEMMA ReschedQueue ==
  ASSUME TypeOK, NEW c \in Ctx, NEW l \in Keys, NEW rest, pc[c] # "resched",
         RescheduleOrRemove(c, l, rest)
  PROVE  QueueStep(c, l)
<1>0. /\ rw \in [Keys -> Ctx \cup {NoCtx}] /\ it \in [Ctx -> Iterator] /\ pc \in [Ctx -> PcValues]
      /\ hog \in [Keys -> 0 .. HogBound] /\ HogBound \in Nat /\ MaxWriteLockCount \in Nat
  BY BoundAssumption DEF TypeOK
<1>1. CASE granted'[l] = {} /\ waiting'[l] = <<>>
  <2>1. pc' = [pc EXCEPT ![c] = Resume(rest)] BY <1>1 DEF RescheduleOrRemove
  <2>2. pc'[c] # "resched" BY <1>0, <2>1 DEF Resume
  <2>3. QueueAfter(l) BY <1>1 DEF QueueAfter, QueueIn
  <2> QED BY <2>2, <2>3 DEF QueueStep
<1>2. CASE ~(granted'[l] = {} /\ waiting'[l] = <<>>)
  <2> DEFINE sk == hog[l] >= MaxWriteLockCount /\ wbits'[l] \ HogTypes(l) # {}
  <2>1. /\ rw' = [rw EXCEPT ![l] = c]
        /\ it' = [it EXCEPT ![c] = [key |-> l, i |-> 1, skip |-> sk]]
    BY <1>2 DEF RescheduleOrRemove
  <2>2. sk => HogBound >= MaxWriteLockCount BY <1>0
  <2> HIDE DEF sk
  <2>3. rw'[l] = c /\ it'[c].i = 1 /\ it'[c].skip = sk BY <1>0, <2>1
  <2>4. QueueAfter(l)
    <3> SUFFICES ASSUME NEW j \in 1 .. Len(waiting'[l]), rw'[l] = NoCtx \/ j < it'[rw'[l]].i
                 PROVE  FALSE
      BY DEF QueueAfter, QueueIn
    <3> QED BY <2>3
  <2> QED BY <2>2, <2>3, <2>4 DEF QueueStep
<1> QED BY <1>1, <1>2

\* The other locks: who reschedules them is not c.
LEMMA OtherQueue ==
  ASSUME IInv, RwOK, NEW c \in Ctx, NEW m, Touches(c, m), SlotStep(c, m),
         pc[c] = "resched" => m = it[c].key, NEW l \in Keys, l # m, QueueOK(l)
  PROVE  QueueAfter(l)
<1>1. granted'[l] = granted[l] /\ waiting'[l] = waiting[l] /\ rw'[l] = rw[l]
  BY DEF Touches
<1>2. rw[l] # NoCtx => it'[rw[l]] = it[rw[l]]
  <2> SUFFICES ASSUME rw[l] # NoCtx PROVE it'[rw[l]] = it[rw[l]]
    OBVIOUS
  <2>1. rw[l] \in Ctx BY DEF IInv, TypeOK
  <2>2. pc[rw[l]] = "resched" /\ it[rw[l]].key = l BY DEF RwOK
  <2> QED BY <2>1, <2>2 DEF Touches
<1>3. \A u \in Ticket : In(waiting[l], u) \/ u \in granted[l] => ttype'[u] = ttype[u]
  BY DEF IInv, WaitingOK, GrantedOK, Touches
<1>4. granted[l] \subseteq Ticket BY DEF IInv, TypeOK
<1> SUFFICES ASSUME NEW j \in 1 .. Len(waiting[l]), rw[l] = NoCtx \/ j < it[rw[l]].i
             PROVE  SettledIn(waiting', granted', ttype', slot', l, waiting[l][j])
  BY <1>1, <1>2 DEF QueueAfter, QueueIn
<1> DEFINE t == waiting[l][j]
<1>5. /\ t \in Ticket /\ In(waiting[l], t) /\ CtxOf(t) \in Ctx /\ pc[CtxOf(t)] \in WaitPcs
  BY WaitersDiffer
<1>6. SettledIn(waiting, granted, ttype, slot, l, t) BY DEF QueueOK, QueueIn
<1> HIDE DEF t
<1>7. slot[CtxOf(t)] # "EMPTY" => slot'[CtxOf(t)] # "EMPTY" BY <1>5 DEF SlotStep
<1>8. ttype'[t] = ttype[t] BY <1>3, <1>5
<1>9. BlockedIn(waiting, granted, ttype, l, t) => BlockedIn(waiting', granted', ttype', l, t)
  BY <1>1, <1>3, <1>4, <1>8 DEF BlockedIn
<1>10. SettledIn(waiting', granted', ttype', slot', l, t)
  BY <1>6, <1>7, <1>8, <1>9 DEF SettledIn
<1> QED BY <1>10 DEF t

-----------------------------------------------------------------------------
(* The effects of the actions *)

\* The places of a thread that neither waits nor reschedules
Calm == {"idle", "acquire", "upgrade", "handler", "release"}

\* A step that changes no lock, of a thread that keeps its tickets.
LEMMA LocalEffect ==
  ASSUME IInv, NEW c \in Ctx, pc[c] \in Calm, pc'[c] \in Calm,
         UNCHANGED <<tlock, ttype, listVars, rw, slot, wfor, it, srchVars>>,
         \A b \in Ctx \ {c} : pc'[b] = pc[b] /\ call'[b] = call[b] /\ own'[b] = own[b],
         \A u \in Ticket : Has(own[c], u) => Has(own'[c], u)
  PROVE  Effect(c, NoKey)
<1>0. NoKey \notin Keys BY KeyAssumption
<1>1. Touches(c, NoKey) BY <1>0 DEF Touches, listVars, srchVars
<1>2. RwStep(c, NoKey) BY DEF RwStep, Calm
<1>3. SlotStep(c, NoKey) BY DEF SlotStep, Calm, WaitPcs
<1>4. GrantStep(c)
  <2> SUFFICES ASSUME NEW l \in Keys, NEW t \in granted[l], CtxOf(t) = c, ~Has(own'[c], t)
               PROVE  ~Has(own[c], t) /\ ~Taking(t)
    BY DEF GrantStep, listVars
  <2>1. t \in Ticket BY DEF IInv, TypeOK
  <2> QED BY <2>1 DEF Taking, NoticePcs, Calm
<1>5. QueueStep(c, NoKey) BY <1>0 DEF QueueStep, Calm
<1> QED BY <1>1, <1>2, <1>3, <1>4, <1>5 DEF Effect

\* A new granted ticket, held by its context.
LEMMA GrantEffect ==
  ASSUME IInv, NEW c \in Ctx, pc[c] \in Calm, pc'[c] \in Calm,
         NEW l \in Keys, NEW y \in LockTypes, NEW d \in Durations, NEW t \in Ticket,
         NewTicket(c, t), CanWriteLock(l), AddGranted(t, l, y), PushFront(c, d, t),
         UNCHANGED <<waiting, rw, slot, wfor, it, srchVars>>,
         \A b \in Ctx \ {c} : pc'[b] = pc[b] /\ call'[b] = call[b]
  PROVE  Effect(c, l)
<1>0. NoKey \notin Keys /\ granted \in [Keys -> SUBSET Ticket]
  BY KeyAssumption DEF IInv, TypeOK
<1>a. /\ \A u \in Ticket : Has(own'[c], u) <=> Has(own[c], u) \/ u = t
      /\ \A b \in Ctx \ {c} : own'[b] = own[b]
      /\ \A u \in Ticket \ {t} : tlock'[u] = tlock[u] /\ ttype'[u] = ttype[u]
      /\ CtxOf(t) = c /\ tlock[t] = NoKey
  BY GrantNewFacts, NewTicketFacts
<1>b. \A j \in Keys : granted'[j] = IF j = l THEN granted[j] \cup {t} ELSE granted[j]
  BY <1>0 DEF AddGranted
<1>1. Touches(c, l) BY <1>0, <1>a, <1>b DEF Touches, srchVars
<1>2. RwStep(c, l) BY DEF RwStep, Calm
<1>3. SlotStep(c, l) BY DEF SlotStep, Calm, WaitPcs
<1>4. GrantStep(c)
  <2> SUFFICES ASSUME NEW j \in Keys, NEW u \in granted'[j]
               PROVE  \/ CtxOf(u) # c /\ u \in granted[j]
                      \/ CtxOf(u) = c /\ Has(own'[c], u)
                      \/ CtxOf(u) = c /\ u \in granted[j] /\ ~Has(own[c], u) /\ ~Taking(u)
    BY DEF GrantStep
  <2>1. u \in Ticket /\ (u = t \/ u \in granted[j]) BY <1>0, <1>b
  <2>2. CtxOf(u) = c => ~Taking(u) BY DEF Taking, NoticePcs, Calm
  <2> QED BY <1>a, <2>1, <2>2
<1>5. QueueStep(c, l)
  <2>1. QueueOK(l) => QueueAfter(l)
    <3> SUFFICES ASSUME QueueOK(l) PROVE QueueAfter(l)
      OBVIOUS
    <3>1. \A k \in Keys : t \notin granted[k] /\ ~In(waiting[k], t) BY NewTicketFacts
    <3>2. \A u \in granted[l] : u \in granted'[l] /\ ttype'[u] = ttype[u]
      BY <1>0, <1>a, <1>b, <3>1
    <3>3. \A u \in Ticket : In(waiting[l], u) => ttype'[u] = ttype[u] BY <1>a, <3>1
    <3>4. rw[l] = NoCtx BY DEF CanWriteLock
    <3> QED BY <3>2, <3>3, <3>4, QueueKept
  <2> QED BY <2>1 DEF QueueStep, Calm
<1> QED BY <1>1, <1>2, <1>3, <1>4, <1>5 DEF Effect

\* The end of an acquisition leaves the thread in a calm place.
LEMMA AcquiredEnds ==
  ASSUME TypeOK, NEW c \in Ctx, NEW k, NEW t, Acquired(c, k, t)
  PROVE  /\ pc'[c] \in Calm
         /\ \A b \in Ctx \ {c} : pc'[b] = pc[b] /\ call'[b] = call[b]
<1>1. pc \in [Ctx -> PcValues] /\ call \in [Ctx -> CallRecord] BY DEF TypeOK
<1>2. pc'[c] = CASE k.op \in {"upgrade", "handler"} -> k.op
                 [] k.op = "list" /\ Len(k.reqs) > 1 -> "acquire"
                 [] OTHER -> "idle"
  BY <1>1 DEF Acquired
<1>3. pc'[c] \in Calm BY <1>2 DEF Calm
<1> QED BY <1>1, <1>3 DEF Acquired

\* A request that joins the queue has something in its way, and no request
\* before it loses what is in its way.
LEMMA EnqueueQueue ==
  ASSUME IInv, NEW c \in Ctx, pc[c] \in Calm, NEW l \in Keys, NEW y \in LockTypes,
         NEW t \in Ticket, NewTicket(c, t), rw[l] = NoCtx, ~CanGrantLock(l, y, c, FALSE),
         ttype'[t] = y, \A u \in Ticket \ {t} : ttype'[u] = ttype[u],
         waiting'[l] = Append(waiting[l], t), granted' = granted,
         \A b \in Ctx \ {c} : slot'[b] = slot[b],
         QueueOK(l)
  PROVE  QueueAfter(l)
<1> DEFINE w == waiting[l]
<1>0. CtxOf(t) = c /\ \A k \in Keys : t \notin granted[k] /\ ~In(waiting[k], t)
  BY NewTicketFacts
<1>1. /\ w \in Seq(Ticket) /\ SeqInj(w) /\ granted[l] \subseteq Ticket /\ Len(w) \in Nat
  BY DEF IInv, TypeOK, WaitingOK
<1>2. \A u : In(waiting'[l], u) <=> In(w, u) \/ u = t BY <1>0, <1>1, AppendIn
<1>3. /\ Len(waiting'[l]) = Len(w) + 1 /\ waiting'[l][Len(w) + 1] = t
      /\ \A j \in 1 .. Len(w) : waiting'[l][j] = w[j]
  BY <1>1
<1>4. \A u \in Ticket : In(w, u) \/ u \in granted[l] => ttype'[u] = ttype[u]
  BY <1>0
<1>5. ASSUME NEW j \in 1 .. Len(w)
      PROVE  SettledIn(waiting', granted', ttype', slot', l, w[j])
  <2> DEFINE v == w[j]
  <2>1. /\ v \in Ticket /\ In(w, v) /\ CtxOf(v) \in Ctx /\ pc[CtxOf(v)] \in WaitPcs
    BY WaitersDiffer
  <2>2. SettledIn(waiting, granted, ttype, slot, l, v) BY DEF QueueOK, QueueIn
  <2> HIDE DEF v
  <2>3. CtxOf(v) # c BY <2>1 DEF WaitPcs, Calm
  <2>4. ttype'[v] = ttype[v] /\ slot'[CtxOf(v)] = slot[CtxOf(v)] BY <1>4, <2>1, <2>3
  <2>5. BlockedIn(waiting, granted, ttype, l, v) => BlockedIn(waiting', granted', ttype', l, v)
    BY <1>1, <1>2, <1>4, <2>4 DEF BlockedIn
  <2>6. SettledIn(waiting', granted', ttype', slot', l, v) BY <2>2, <2>4, <2>5 DEF SettledIn
  <2> QED BY <2>6 DEF v
<1>6. BlockedIn(waiting', granted', ttype', l, t)
  <2>1. \/ \E u \in Ticket : In(w, u) /\ ttype[u] \in WaitingIncompat(l, y)
        \/ \E u \in granted[l] : CtxOf(u) # c /\ ttype[u] \in GrantedIncompat(l, y)
    BY CanGrantIsExact
  <2> QED BY <1>0, <1>1, <1>2, <1>4, <2>1 DEF BlockedIn
<1>7. SettledIn(waiting', granted', ttype', slot', l, t) BY <1>6 DEF SettledIn
<1> SUFFICES ASSUME NEW j \in 1 .. Len(waiting'[l])
             PROVE  SettledIn(waiting', granted', ttype', slot', l, waiting'[l][j])
  BY DEF QueueAfter, QueueIn
<1>8. j \in 1 .. Len(w) \/ j = Len(w) + 1 BY <1>1, <1>3
<1> HIDE DEF w
<1> QED BY <1>3, <1>5, <1>7, <1>8

\* The first request of a call.
LEMMA AcquireEffect ==
  ASSUME IInv, NEW c \in Ctx, Asking(c)
  PROVE  stack' = stack /\ \E m \in Keys \cup {NoKey} : Effect(c, m)
<1>1. PICK k : Asks(c, k) /\ Acquire(c, k) BY DEF Asking
<1> DEFINE r == Head(k.reqs)
<1>2. r.key \in Keys /\ r.type \in LockTypes /\ r.dur \in Durations BY <1>1, AsksType
<1>3. pc[c] \in Calm BY DEF Asking, Calm
<1>4. TypeOK BY DEF IInv
<1>5. CASE ReuseTicket(c, k, r)
  <2>1. PICK t : Acquired(c, k, t) BY <1>5 DEF ReuseTicket
  <2>2. UNCHANGED <<tlock, ttype, listVars, rw, slot, wfor, own, it, srchVars>>
    BY <1>5 DEF ReuseTicket
  <2>3. Effect(c, NoKey) BY <1>3, <1>4, <2>1, <2>2, AcquiredEnds, LocalEffect
  <2> QED BY <2>2, <2>3 DEF srchVars
<1>6. CASE CloneTicket(c, k, r) \/ GrantAtOnce(c, k, r)
  <2> HIDE DEF r
  <2>1. PICK t \in Ticket : /\ NewTicket(c, t) /\ AddGranted(t, r.key, r.type)
                            /\ PushFront(c, r.dur, t) /\ Acquired(c, k, t)
    BY <1>6 DEF CloneTicket, GrantAtOnce
  <2>2. CanWriteLock(r.key) /\ UNCHANGED <<waiting, rw, slot, wfor, it, srchVars>>
    BY <1>6 DEF CloneTicket, GrantAtOnce
  <2>3. pc'[c] \in Calm /\ \A b \in Ctx \ {c} : pc'[b] = pc[b] /\ call'[b] = call[b]
    BY <1>4, <2>1, AcquiredEnds
  <2>4. Effect(c, r.key) BY <1>2, <1>3, <2>1, <2>2, <2>3, GrantEffect
  <2> QED BY <1>2, <2>2, <2>4 DEF srchVars
<1>7. CASE Enqueue(c, k, r)
  <2> HIDE DEF r
  <2>1. PICK t \in Ticket : /\ NewTicket(c, t)
                            /\ tlock' = [tlock EXCEPT ![t] = r.key]
                            /\ ttype' = [ttype EXCEPT ![t] = r.type]
                            /\ waiting' = [waiting EXCEPT ![r.key] = Append(@, t)]
                            /\ call' = [call EXCEPT ![c] = [k EXCEPT !.cur = t]]
    BY <1>7 DEF Enqueue
  <2>2. /\ CanWriteLock(r.key) /\ ~CanGrantLock(r.key, r.type, c, FALSE)
        /\ slot' = [slot EXCEPT ![c] = "EMPTY"]
        /\ pc' = [pc EXCEPT ![c] = "willwait"]
        /\ UNCHANGED <<granted, rw, wfor, own, it, stack>>
    BY <1>7 DEF Enqueue, srchVars
  <2>3. tlock[t] = NoKey /\ NoKey \notin Keys BY <2>1, KeyAssumption DEF NewTicket
  <2>4. /\ \A u \in Ticket \ {t} : tlock'[u] = tlock[u] /\ ttype'[u] = ttype[u]
        /\ \A l \in Keys \ {r.key} : waiting'[l] = waiting[l]
        /\ \A b \in Ctx \ {c} : call'[b] = call[b] /\ pc'[b] = pc[b] /\ slot'[b] = slot[b]
        /\ slot'[c] = "EMPTY" /\ pc'[c] = "willwait"
    BY <2>1, <2>2 DEF IInv, TypeOK
  <2>5. Touches(c, r.key) BY <1>2, <2>2, <2>3, <2>4 DEF Touches
  <2>6. RwStep(c, r.key) BY <1>3, <2>2, <2>4 DEF RwStep, Calm
  <2>7. SlotStep(c, r.key) BY <1>3, <2>4 DEF SlotStep, Calm, WaitPcs
  <2>8. GrantStep(c)
    <3>1. ASSUME NEW u, CtxOf(u) = c PROVE ~Taking(u)
      BY <1>3, <3>1 DEF Taking, NoticePcs, Calm
    <3> QED BY <2>2, <3>1 DEF GrantStep
  <2>9. QueueStep(c, r.key)
    <3>1. ASSUME QueueOK(r.key) PROVE QueueAfter(r.key)
      <4>1. rw[r.key] = NoCtx BY <2>2 DEF CanWriteLock
      <4>2. ttype'[t] = r.type /\ waiting'[r.key] = Append(waiting[r.key], t)
        BY <1>2, <2>1 DEF IInv, TypeOK
      <4> QED BY <1>2, <1>3, <2>1, <2>2, <2>4, <3>1, <4>1, <4>2, EnqueueQueue
    <3> QED BY <1>3, <2>4, <3>1 DEF QueueStep, Calm
  <2> QED BY <1>2, <2>2, <2>5, <2>6, <2>7, <2>8, <2>9 DEF Effect
<1> QED BY <1>1, <1>5, <1>6, <1>7 DEF Acquire

\* A step of a thread that waits: no list, ticket or call changes.
LEMMA WaitEffect ==
  ASSUME IInv, NEW c \in Ctx, pc[c] \in WaitPcs, pc'[c] \in WaitPcs,
         UNCHANGED <<tlock, ttype, listVars, rw, own, call, it>>,
         \A b \in Ctx \ {c} : pc'[b] = pc[b] /\ wfor'[b] = wfor[b] /\ stack'[b] = stack[b],
         wfor'[c] = wfor[c] \/ ~WaitingForIsRead(c),
         SlotStep(c, NoKey),
         slot[c] = "GRANTED" /\ pc[c] \in NoticePcs => pc'[c] \in NoticePcs
  PROVE  Effect(c, NoKey)
<1>0. NoKey \notin Keys BY KeyAssumption
<1>1. Touches(c, NoKey) BY <1>0 DEF Touches, listVars
<1>2. RwStep(c, NoKey) BY DEF RwStep, WaitPcs
<1>4. GrantStep(c)
  <2> SUFFICES ASSUME NEW l \in Keys, NEW t \in granted[l], CtxOf(t) = c, ~Has(own[c], t), Taking(t)
               PROVE  Taking(t)'
    BY DEF GrantStep, listVars
  <2>1. slot[c] = "GRANTED" /\ pc[c] \in NoticePcs /\ call[c].cur = t BY DEF Taking
  <2>2. slot'[c] = "GRANTED" BY <2>1 DEF SlotStep
  <2> QED BY <2>1, <2>2 DEF Taking
<1>5. QueueStep(c, NoKey) BY <1>0 DEF QueueStep, WaitPcs
<1> QED BY <1>1, <1>2, <1>4, <1>5 DEF Effect

\* The wait becomes visible, is cut short, or ends without the lock.
LEMMA WaitStepEffect ==
  ASSUME IInv, NEW c \in Ctx, WillWaitFor(c) \/ WaitAborted(c) \/ CutShort(c)
  PROVE  stack' = stack /\ Effect(c, NoKey)
<1>0. /\ pc \in [Ctx -> PcValues] /\ slot \in [Ctx -> WaitStatus]
      /\ wfor \in [Ctx -> Ticket \cup {NoTicket}]
  BY DEF IInv, TypeOK
<1>1. CASE WillWaitFor(c)
  <2>1. SlotStep(c, NoKey) BY <1>0, <1>1 DEF WillWaitFor, SlotStep
  <2> QED BY <1>0, <1>1, <2>1, WaitEffect DEF WillWaitFor, WaitPcs, NoticePcs, srchVars
<1>2. CASE WaitAborted(c)
  <2>1. SlotStep(c, NoKey) BY <1>0, <1>2 DEF WaitAborted, SlotStep
  <2> QED BY <1>0, <1>2, <2>1, WaitEffect DEF WaitAborted, WaitPcs, NoticePcs, srchVars
<1>3. CASE ClientGone(c)
  <2>1. SlotStep(c, NoKey) BY <1>0, <1>3 DEF ClientGone, SlotStep
  <2> QED BY <1>0, <1>3, <2>1, WaitEffect DEF ClientGone, WaitPcs, NoticePcs, srchVars
<1>4. ASSUME NEW status \in Interrupts, Interrupt(c, status)
      PROVE  stack' = stack /\ Effect(c, NoKey)
  <2>0. status \in {"TIMEOUT", "KILLED"} BY CallerAssumption
  <2>1. SlotStep(c, NoKey) BY <1>0, <1>4, <2>0 DEF Interrupt, SlotStep
  <2> QED BY <1>0, <1>4, <2>1, WaitEffect DEF Interrupt, WaitPcs, NoticePcs, srchVars
<1> QED BY <1>1, <1>2, <1>3, <1>4 DEF CutShort

\* The GRANTED end of a wait: the ticket is taken over.
LEMMA WaitGrantedEffect ==
  ASSUME IInv, NEW c \in Ctx, WaitGranted(c)
  PROVE  stack' = stack /\ Effect(c, NoKey)
<1> DEFINE t == call[c].cur
           d == Head(call[c].reqs).dur
<1>0. NoKey \notin Keys /\ TypeOK BY KeyAssumption DEF IInv
<1>1. /\ pc[c] = "wait" /\ ~WaitingForIsRead(c) /\ wfor' = [wfor EXCEPT ![c] = NoTicket]
      /\ PushFront(c, d, t) /\ Acquired(c, call[c], t)
      /\ UNCHANGED <<tlock, ttype, listVars, rw, slot, it, stack>>
  BY DEF WaitGranted, srchVars
<1>2. d \in Durations BY <1>1, ReqType DEF Req, BusyPcs, WaitPcs
<1>3. t \in Ticket /\ ~Has(own[c], t) BY <1>1 DEF IInv, ThreadOK, CurOK, WaitPcs
<1>4. own \in [Ctx -> [Durations -> Seq(Ticket)]] /\ Inj(own[c])
  BY DEF IInv, TypeOK, ThreadOK, OwnOK
<1>5. pc'[c] \in Calm /\ \A b \in Ctx \ {c} : pc'[b] = pc[b] /\ call'[b] = call[b]
  BY <1>0, <1>1, AcquiredEnds
<1> HIDE DEF t, d
<1> DEFINE p == [own[c] EXCEPT ![d] = <<t>> \o @]
<1>6. own' = [own EXCEPT ![c] = p] BY <1>1, <1>4 DEF PushFront
<1>7. \A u \in Ticket : Has(p, u) <=> Has(own[c], u) \/ u = t
  BY <1>2, <1>3, <1>4, OwnPush
<1> HIDE DEF p
<1>8. /\ \A u \in Ticket : Has(own'[c], u) <=> Has(own[c], u) \/ u = t
      /\ \A b \in Ctx \ {c} : own'[b] = own[b]
  BY <1>4, <1>6, <1>7
<1>9. \A b \in Ctx \ {c} : wfor'[b] = wfor[b] BY <1>0, <1>1 DEF TypeOK
<1>10. Touches(c, NoKey) BY <1>0, <1>1, <1>5, <1>8, <1>9 DEF Touches, listVars
<1>11. RwStep(c, NoKey) BY <1>1, <1>5 DEF RwStep, Calm
<1>12. SlotStep(c, NoKey) BY <1>1, <1>5 DEF SlotStep, Calm, WaitPcs
<1>13. GrantStep(c)
  <2> SUFFICES ASSUME NEW l \in Keys, NEW u \in granted[l], CtxOf(u) = c, ~Has(own'[c], u)
               PROVE  ~Has(own[c], u) /\ ~Taking(u)
    BY <1>1 DEF GrantStep, listVars
  <2>1. u \in Ticket BY <1>0 DEF TypeOK
  <2> QED BY <1>8, <2>1 DEF Taking, t
<1>14. QueueStep(c, NoKey) BY <1>0, <1>1, <1>5 DEF QueueStep, Calm
<1> QED BY <1>1, <1>10, <1>11, <1>12, <1>13, <1>14 DEF Effect

\* HANDLER OPEN ends.
LEMMA HandlerEffect ==
  ASSUME IInv, NEW c \in Ctx, HandlerKeep(c) \/ HandlerFail(c)
  PROVE  stack' = stack /\ \E m \in Keys \cup {NoKey} : Effect(c, m)
<1>0. /\ pc[c] = "handler" /\ pc[c] \in Calm /\ pc[c] \in BusyPcs
      /\ pc \in [Ctx -> PcValues] /\ call \in [Ctx -> CallRecord]
  BY DEF HandlerKeep, HandlerFail, Calm, BusyPcs, IInv, TypeOK
<1>1. pc'[c] \in Calm /\ \A b \in Ctx \ {c} : pc'[b] = pc[b] /\ call'[b] = call[b]
  BY <1>0 DEF HandlerKeep, HandlerFail, Calm
<1>2. CASE HandlerFail(c)
  <2>1. UNCHANGED <<tlock, ttype, listVars, rw, slot, wfor, own, it, srchVars>>
    BY <1>2 DEF HandlerFail
  <2>2. Effect(c, NoKey) BY <1>0, <1>1, <2>1, LocalEffect
  <2> QED BY <2>1, <2>2 DEF srchVars
<1>3. CASE HandlerKeep(c)
  <2> DEFINE k == call[c]
             r == Head(k.reqs)
  <2>1. r.key \in Keys /\ r.type \in LockTypes BY <1>0, ReqType DEF Req
  <2>2. UNCHANGED <<waiting, wbits, rw, slot, wfor, it, srchVars>> BY <1>3 DEF HandlerKeep
  <2>3. CASE /\ CanWriteLock(r.key)
             /\ \E t \in Ticket : /\ NewTicket(c, t) /\ AddGranted(t, r.key, r.type)
                                  /\ PushFront(c, EXPLICIT, t)
    <3>1. EXPLICIT \in Durations BY DEF EXPLICIT, Durations
    <3> HIDE DEF r
    <3>2. Effect(c, r.key) BY <1>0, <1>1, <2>1, <2>2, <2>3, <3>1, GrantEffect
    <3> QED BY <2>1, <2>2, <3>2 DEF srchVars
  <2>4. CASE /\ \E i \in 1 .. Len(own[c][TRANSACTION]) :
                  /\ own[c][TRANSACTION][i] = k.cur
                  /\ own' = [own EXCEPT ![c][TRANSACTION] = RemoveAt(@, i),
                                        ![c][EXPLICIT] = <<k.cur>> \o @]
             /\ UNCHANGED <<tlock, ttype, granted, gbits>>
    <3>1. PICK i \in 1 .. Len(own[c][TRANSACTION]) :
             own' = [own EXCEPT ![c][TRANSACTION] = RemoveAt(@, i),
                                ![c][EXPLICIT] = <<own[c][TRANSACTION][i]>> \o @]
      BY <2>4
    <3>2. /\ \A u \in Ticket : Has(own'[c], u) <=> Has(own[c], u)
          /\ \A b \in Ctx \ {c} : own'[b] = own[b]
      BY <3>1, MoveFacts
    <3>3. Effect(c, NoKey) BY <1>0, <1>1, <2>2, <2>4, <3>2, LocalEffect DEF listVars
    <3> QED BY <2>2, <3>3 DEF srchVars
  <2> QED BY <1>3, <2>3, <2>4 DEF HandlerKeep
<1> QED BY <1>2, <1>3

\* The calls that release, and those that change durations.
LEMMA CallEffect ==
  ASSUME IInv, NEW c \in Ctx,
         (\E q, sv : Release(c, q, sv)) \/ Rearranges(c)
  PROVE  stack' = stack /\ Effect(c, NoKey)
<1>0. pc \in [Ctx -> PcValues] BY DEF IInv, TypeOK
<1>1. CASE \E q, sv : Release(c, q, sv)
  <2>1. /\ pc[c] = "idle" /\ pc' = [pc EXCEPT ![c] = "release"]
        /\ UNCHANGED <<tlock, ttype, listVars, rw, slot, wfor, own, call, it, srchVars>>
    BY <1>1 DEF Release
  <2>2. /\ pc[c] \in Calm /\ pc'[c] \in Calm
        /\ \A b \in Ctx \ {c} : pc'[b] = pc[b] /\ call'[b] = call[b]
    BY <1>0, <2>1 DEF Calm
  <2> QED BY <2>1, <2>2, LocalEffect DEF srchVars
<1>2. CASE Rearranges(c)
  <2>1. pc[c] \in Calm /\ pc'[c] \in Calm BY <1>2 DEF Rearranges, Calm
  <2> QED BY <1>2, <2>1, LocalEffect DEF Rearranges, srchVars
<1> QED BY <1>1, <1>2

\* The releasing calls are of that kind.
LEMMA Releases ==
  ASSUME NEW c \in Ctx,
         \/ ReleaseExplicitLock(c) \/ ReleaseAllLocksForName(c) \/ ReleaseStatementLocks(c)
         \/ ReleaseTransactionalLocks(c) \/ ReleaseExplicitLocks(c) \/ RollbackToSavepoint(c)
  PROVE  \E q, sv : Release(c, q, sv)
BY DEF ReleaseExplicitLock, ReleaseAllLocksForName, ReleaseStatementLocks,
       ReleaseTransactionalLocks, ReleaseExplicitLocks, RollbackToSavepoint


\* How the removal of a ticket and a downgrade end.
LEMMA ReschedEnds ==
  ASSUME TypeOK, NEW c \in Ctx, NEW l \in Keys, NEW rest, CanWriteLock(l),
         pc[c] # "resched", RescheduleOrRemove(c, l, rest)
  PROVE  /\ RwStep(c, l) /\ \A k \in Keys \ {l} : rw'[k] = rw[k]
         /\ pc'[c] \notin {"gone", "abort"}
         /\ \A b \in Ctx \ {c} : it'[b] = it[b] /\ pc'[b] = pc[b]
<1>0. rw \in [Keys -> Ctx \cup {NoCtx}] /\ it \in [Ctx -> Iterator] /\ pc \in [Ctx -> PcValues]
  BY DEF TypeOK
<1>1. /\ pc'[c] \in {"idle", "release", "resched"}
      /\ \A b \in Ctx \ {c} : it'[b] = it[b] /\ pc'[b] = pc[b]
  BY RescheduleFacts
<1>2. CASE granted'[l] = {} /\ waiting'[l] = <<>>
  <2>1. pc' = [pc EXCEPT ![c] = Resume(rest)] /\ UNCHANGED <<rw, it>>
    BY <1>2 DEF RescheduleOrRemove
  <2>2. pc'[c] # "resched" BY <1>0, <2>1 DEF Resume
  <2> QED BY <1>1, <2>1, <2>2 DEF RwStep
<1>3. CASE ~(granted'[l] = {} /\ waiting'[l] = <<>>)
  <2>1. PICK s : /\ rw' = [rw EXCEPT ![l] = c] /\ pc' = [pc EXCEPT ![c] = "resched"]
                 /\ it' = [it EXCEPT ![c] = [key |-> l, i |-> 1, skip |-> s]]
    BY <1>3 DEF RescheduleOrRemove
  <2>2. pc'[c] = "resched" /\ it'[c].key = l /\ \A k \in Keys \ {l} : rw'[k] = rw[k]
    BY <1>0, <2>1
  <2>3. rw[l] = NoCtx BY DEF CanWriteLock
  <2> QED BY <1>1, <2>1, <2>2, <2>3 DEF RwStep
<1> QED BY <1>2, <1>3

\* A thread changes or removes tickets of its own of one lock.
LEMMA OwnTicketsEffect ==
  ASSUME IInv, NEW c \in Ctx, pc[c] \notin NoticePcs, NEW l \in Keys, CanWriteLock(l),
         RwStep(c, l), \A k \in Keys \ {l} : rw'[k] = rw[k], pc'[c] \notin {"gone", "abort"},
         \A b \in Ctx \ {c} : it'[b] = it[b] /\ pc'[b] = pc[b] /\ call'[b] = call[b]
                                /\ own'[b] = own[b],
         UNCHANGED <<slot, wfor, srchVars>>,
         \A u \in Ticket : tlock[u] # l => tlock'[u] = tlock[u] /\ ttype'[u] = ttype[u],
         \A k \in Keys \ {l} : granted'[k] = granted[k] /\ waiting'[k] = waiting[k],
         granted'[l] \subseteq granted[l],
         \A k \in Keys : \A u \in granted'[k] : Has(own[c], u) => Has(own'[c], u),
         QueueStep(c, l)
  PROVE  stack' = stack /\ Effect(c, l)
<1>1. Touches(c, l) BY DEF Touches, srchVars
<1>2. SlotStep(c, l) BY DEF SlotStep
<1>3. GrantStep(c)
  <2> SUFFICES ASSUME NEW k \in Keys, NEW u \in granted'[k]
               PROVE  \/ CtxOf(u) # c /\ u \in granted[k]
                      \/ CtxOf(u) = c /\ Has(own'[c], u)
                      \/ CtxOf(u) = c /\ u \in granted[k] /\ ~Has(own[c], u) /\ ~Taking(u)
    BY DEF GrantStep
  <2>1. u \in granted[k]
    <3>1. CASE k = l BY <3>1
    <3>2. CASE k # l BY <3>2
    <3> QED BY <3>1, <3>2
  <2>2. CtxOf(u) = c => ~Taking(u) BY DEF Taking
  <2> QED BY <2>1, <2>2
<1> QED BY <1>1, <1>2, <1>3 DEF Effect, srchVars

\* release_lock() of one ticket.
LEMMA ReleaseLockEffect ==
  ASSUME IInv, NEW c \in Ctx, ReleaseLock(c)
  PROVE  stack' = stack /\ \E m \in Keys \cup {NoKey} : Effect(c, m)
<1> DEFINE t == rel[c][1]
           l == tlock[t]
<1>1. pc[c] = "release" /\ pc[c] \notin NoticePcs BY DEF ReleaseLock, NoticePcs
<1>2. rel[c] \in Seq(Ticket) /\ rel[c] # <<>> /\ SeqInj(rel[c])
  BY <1>1 DEF IInv, TypeOK, ThreadOK, RelOK
<1>3. t \in Ticket /\ In(rel[c], t) BY <1>2, TailIn
<1>4. l \in Keys BY <1>3 DEF IInv, ThreadOK, RelOK, OwnOK
<1>5. /\ CanWriteLock(l) /\ granted' = [granted EXCEPT ![l] = @ \ {t}]
      /\ tlock' = [tlock EXCEPT ![t] = NoKey] /\ ttype' = [ttype EXCEPT ![t] = "S"]
      /\ UNCHANGED <<waiting, slot, wfor, call, srchVars>>
      /\ RescheduleOrRemove(c, l, Tail(rel[c]))
  BY DEF ReleaseLock, Destroy
<1>6. PICK d \in Durations : \E i \in 1 .. Len(own[c][d]) :
             own[c][d][i] = t /\ own' = [own EXCEPT ![c][d] = RemoveAt(@, i)]
  BY DEF ReleaseLock
<1>7. PICK i \in 1 .. Len(own[c][d]) :
             own[c][d][i] = t /\ own' = [own EXCEPT ![c][d] = RemoveAt(@, i)]
  BY <1>6
<1> HIDE DEF t
<1>8. /\ \A u \in Ticket : Has(own'[c], u) <=> Has(own[c], u) /\ u # t
      /\ \A b \in Ctx \ {c} : own'[b] = own[b]
  <2>1. /\ \A u \in Ticket : Has(own'[c], u) <=> Has(own[c], u) /\ u # own[c][d][i]
        /\ \A b \in Ctx \ {c} : own'[b] = own[b]
    BY <1>7, RemoveFacts
  <2> QED BY <1>7, <2>1
<1>9. /\ RwStep(c, l) /\ \A k \in Keys \ {l} : rw'[k] = rw[k]
      /\ pc'[c] \notin {"gone", "abort"}
      /\ \A b \in Ctx \ {c} : it'[b] = it[b] /\ pc'[b] = pc[b]
  BY <1>1, <1>4, <1>5, ReschedEnds DEF IInv
<1>10. /\ granted'[l] = granted[l] \ {t} /\ \A k \in Keys \ {l} : granted'[k] = granted[k]
       /\ \A u \in Ticket \ {t} : tlock'[u] = tlock[u] /\ ttype'[u] = ttype[u]
  BY <1>3, <1>4, <1>5 DEF IInv, TypeOK
<1>11. \A k \in Keys : \A u \in granted'[k] : Has(own[c], u) => Has(own'[c], u)
  <2> SUFFICES ASSUME NEW k \in Keys, NEW u \in granted'[k], Has(own[c], u)
               PROVE  Has(own'[c], u)
    OBVIOUS
  <2>1. u \in granted[k] /\ u \in Ticket /\ (k = l => u # t)
    BY <1>4, <1>10 DEF IInv, TypeOK
  <2>2. u # t BY <1>4, <2>1 DEF IInv, GrantedOK
  <2> QED BY <1>8, <2>1, <2>2
<1>a. \A u \in Ticket : tlock[u] # l => tlock'[u] = tlock[u] /\ ttype'[u] = ttype[u]
  BY <1>10
<1>b. QueueStep(c, l) BY <1>1, <1>4, <1>5, ReschedQueue DEF IInv
<1> HIDE DEF l
<1> QED BY <1>1, <1>4, <1>5, <1>8, <1>9, <1>10, <1>a, <1>b, <1>11, OwnTicketsEffect

\* A wait that is given up takes its ticket from the queue.
LEMMA AbortWaitEffect ==
  ASSUME IInv, NEW c \in Ctx, AbortWait(c)
  PROVE  stack' = stack /\ \E m \in Keys \cup {NoKey} : Effect(c, m)
<1> DEFINE t == call[c].cur
           l == tlock[t]
<1>1. pc[c] = "abort" /\ pc[c] \in WaitPcs /\ pc[c] \in BusyPcs /\ pc[c] \notin NoticePcs
  BY DEF AbortWait, WaitPcs, BusyPcs, NoticePcs
<1>2. t \in Ticket /\ l \in Keys BY <1>1, ReqType DEF IInv, ThreadOK, CurOK
<1>3. PICK j, rest :
         /\ CanWriteLock(l) /\ waiting' = [waiting EXCEPT ![l] = RemoveAt(@, j)]
         /\ tlock' = [tlock EXCEPT ![t] = NoKey] /\ ttype' = [ttype EXCEPT ![t] = "S"]
         /\ call' = [call EXCEPT ![c] = NoCall]
         /\ UNCHANGED <<granted, slot, wfor, own, srchVars>>
         /\ RescheduleOrRemove(c, l, rest)
  BY DEF AbortWait, Destroy
<1>4. /\ RwStep(c, l) /\ \A k \in Keys \ {l} : rw'[k] = rw[k]
      /\ pc'[c] \notin {"gone", "abort"}
      /\ \A b \in Ctx \ {c} : it'[b] = it[b] /\ pc'[b] = pc[b]
  BY <1>1, <1>2, <1>3, ReschedEnds DEF IInv
<1> HIDE DEF t
<1>5. /\ \A k \in Keys \ {l} : waiting'[k] = waiting[k]
      /\ \A u \in Ticket \ {t} : tlock'[u] = tlock[u] /\ ttype'[u] = ttype[u]
      /\ \A b \in Ctx \ {c} : call'[b] = call[b]
  BY <1>2, <1>3 DEF IInv, TypeOK
<1>6. \A u \in Ticket : tlock[u] # l => tlock'[u] = tlock[u] /\ ttype'[u] = ttype[u]
  BY <1>5
<1>7. QueueStep(c, l) BY <1>1, <1>2, <1>3, ReschedQueue DEF IInv
<1> HIDE DEF l
<1> QED BY <1>1, <1>2, <1>3, <1>4, <1>5, <1>6, <1>7, OwnTicketsEffect

\* downgrade_lock().
LEMMA DowngradeEffect ==
  ASSUME IInv, NEW c \in Ctx, DowngradeLock(c)
  PROVE  stack' = stack /\ \E m \in Keys \cup {NoKey} : Effect(c, m)
<1>1. /\ pc[c] = "idle" /\ pc[c] \notin NoticePcs
      /\ UNCHANGED <<tlock, slot, wfor, own, call, srchVars>>
  BY DEF DowngradeLock, NoticePcs
<1>2. PICK d \in Durations : \E i \in 1 .. Len(own[c][d]) : \E p \in DowngradePairs :
          LET t == own[c][d][i]
              l == tlock[t]
          IN /\ CanWriteLock(l)
             /\ ttype' = [ttype EXCEPT ![t] = p[2]]
             /\ granted' = [granted EXCEPT ![l] = (@ \ {t}) \cup {t}]
             /\ UNCHANGED waiting
             /\ RescheduleOrRemove(c, l, <<>>)
  BY ZenonT(40) DEF DowngradeLock
<1>3. PICK i \in 1 .. Len(own[c][d]) : \E p \in DowngradePairs :
          LET t == own[c][d][i]
              l == tlock[t]
          IN /\ CanWriteLock(l)
             /\ ttype' = [ttype EXCEPT ![t] = p[2]]
             /\ granted' = [granted EXCEPT ![l] = (@ \ {t}) \cup {t}]
             /\ UNCHANGED waiting
             /\ RescheduleOrRemove(c, l, <<>>)
  BY <1>2
<1> DEFINE t == own[c][d][i]
           l == tlock[t]
<1>4. own[c][d] \in Seq(Ticket) BY DEF IInv, TypeOK
<1>5. t \in Ticket /\ Has(own[c], t) BY <1>4 DEF Has, In
<1> HIDE DEF t
<1>6. l \in Keys /\ t \in granted[l]
  BY <1>5 DEF IInv, ThreadOK, OwnOK
<1>7. PICK p \in DowngradePairs :
             /\ CanWriteLock(l)
             /\ ttype' = [ttype EXCEPT ![t] = p[2]]
             /\ granted' = [granted EXCEPT ![l] = (@ \ {t}) \cup {t}]
             /\ UNCHANGED waiting
             /\ RescheduleOrRemove(c, l, <<>>)
  BY <1>3 DEF t
<1>8. /\ granted'[l] = granted[l] /\ \A k \in Keys \ {l} : granted'[k] = granted[k]
      /\ \A u \in Ticket \ {t} : ttype'[u] = ttype[u]
  BY <1>5, <1>6, <1>7 DEF IInv, TypeOK
<1>9. /\ RwStep(c, l) /\ \A k \in Keys \ {l} : rw'[k] = rw[k]
      /\ pc'[c] \notin {"gone", "abort"}
      /\ \A b \in Ctx \ {c} : it'[b] = it[b] /\ pc'[b] = pc[b]
  BY <1>1, <1>6, <1>7, ReschedEnds DEF IInv
<1>10. \A u \in Ticket : tlock[u] # l => tlock'[u] = tlock[u] /\ ttype'[u] = ttype[u]
  BY <1>1, <1>8
<1>11. QueueStep(c, l) BY <1>1, <1>6, <1>7, ReschedQueue DEF IInv
<1> HIDE DEF l
<1> QED BY <1>1, <1>6, <1>7, <1>8, <1>9, <1>10, <1>11, OwnTicketsEffect

\* The merge that ends upgrade_shared_lock().
LEMMA MergeEffect ==
  ASSUME IInv, NEW c \in Ctx, MergeUpgrade(c)
  PROVE  stack' = stack /\ \E m \in Keys \cup {NoKey} : Effect(c, m)
<1> DEFINE k == call[c]
           t == k.upg
           n == k.cur
           l == tlock[t]
           y == Req(c).type
           isNew == ~HasLock(c, k.svp, k.cur)
           G == granted[l] \ ({t} \cup IF isNew THEN {n} ELSE {})
<1>1. pc[c] = "upgrade" /\ pc[c] \in BusyPcs /\ pc[c] \notin NoticePcs /\ k.op = "upgrade"
  BY DEF MergeUpgrade, NoticePcs, BusyPcs, IInv, ThreadOK, CallOK
<1>2. Req(c).key \in Keys BY <1>1, ReqType
<1>3. /\ t \in Ticket /\ Has(own[c], t) /\ l = Req(c).key
      /\ ~HasStrongerOrEqualType(l, ttype[t], Req(c).type)
  BY <1>1, <1>2 DEF IInv, ThreadOK, UpgOK
<1>4. /\ n \in Ticket /\ tlock[n] = l /\ HasStrongerOrEqualType(l, ttype[n], Req(c).type)
  BY <1>1, <1>2, <1>3 DEF IInv, ThreadOK, HeldOK
<1>5. n # t BY <1>3, <1>4
<1>6. l \in Keys /\ t \in granted[l] BY <1>2, <1>3 DEF IInv, ThreadOK, OwnOK
<1>7. /\ CanWriteLock(l) /\ granted' = [granted EXCEPT ![l] = G \cup {t}]
      /\ pc' = [pc EXCEPT ![c] = "idle"] /\ call' = [call EXCEPT ![c] = NoCall]
      /\ UNCHANGED <<waiting, rw, slot, wfor, it, srchVars>>
  BY DEF MergeUpgrade
<1>8. \/ /\ isNew
         /\ \E i \in 1 .. Len(own[c][TRANSACTION]) :
               /\ own[c][TRANSACTION][i] = n
               /\ own' = [own EXCEPT ![c][TRANSACTION] = RemoveAt(@, i)]
         /\ tlock' = [tlock EXCEPT ![n] = NoKey]
         /\ ttype' = [ttype EXCEPT ![t] = y, ![n] = "S"]
      \/ /\ ~isNew
         /\ ttype' = [ttype EXCEPT ![t] = y]
         /\ UNCHANGED <<own, tlock>>
  BY DEF MergeUpgrade, Req
<1>a. /\ y \in LockTypes /\ HasStrongerOrEqualType(l, y, ttype[t])
      /\ isNew => ttype[n] = y
  BY <1>1, <1>3, ReqType DEF IInv, ThreadOK, UpgOK, HeldOK
<1>b. CtxOf(t) = c /\ CtxOf(n) = c /\ n \in granted[l]
  <2>1. TRANSACTION \in Durations BY DEF TRANSACTION, Durations
  <2>2. Has(own[c], n) BY <1>1, <2>1 DEF IInv, ThreadOK, HeldOK, Has
  <2> QED BY <1>3, <1>4, <2>2 DEF IInv, ThreadOK, OwnOK
<1>9. /\ granted'[l] \subseteq granted[l] /\ (isNew => n \notin granted'[l])
      /\ t \in granted'[l]
      /\ \A u \in granted[l] : u # n \/ ~isNew => u \in granted'[l]
      /\ \A j \in Keys \ {l} : granted'[j] = granted[j]
  <2>1. granted'[l] = G \cup {t} /\ \A j \in Keys \ {l} : granted'[j] = granted[j]
    BY <1>6, <1>7 DEF IInv, TypeOK
  <2>2. /\ G \subseteq granted[l] /\ (isNew => n \notin G)
        /\ \A u \in granted[l] : u # n \/ ~isNew => u \in G \cup {t}
    OBVIOUS
  <2> QED BY <1>5, <1>6, <2>1, <2>2
<1> HIDE DEF isNew, G, n, y
<1>c. /\ ttype'[t] = y /\ (~isNew => ttype'[n] = ttype[n])
      /\ \A u \in Ticket : u # t /\ u # n => ttype'[u] = ttype[u]
  <2>2. ttype \in [Ticket -> LockTypes]
    BY DEF IInv, TypeOK
  <2> HIDE DEF l, t
  <2>3. CASE isNew BY <1>3, <1>4, <1>5, <1>8, <2>2, <2>3
  <2>4. CASE ~isNew BY <1>3, <1>4, <1>5, <1>8, <2>2, <2>4
  <2> QED BY <2>3, <2>4
<1>d. QueueOK(l) => QueueAfter(l)
  <2> SUFFICES ASSUME QueueOK(l) PROVE QueueAfter(l)
    OBVIOUS
  <2>1. rw[l] = NoCtx /\ waiting'[l] = waiting[l] /\ slot' = slot BY <1>7 DEF CanWriteLock
  <2>2. ~In(waiting[l], t) /\ ~In(waiting[l], n) BY <1>6, <1>b, HeldNotWaiting
  <2>3. \A u \in Ticket : In(waiting[l], u) => ttype'[u] = ttype[u] BY <1>c, <2>2
  <2>4. ASSUME NEW z \in LockTypes, ttype[t] \in GrantedIncompat(l, z)
        PROVE  y \in GrantedIncompat(l, z)
    <3>1. ttype[t] \in LockTypes BY <1>3 DEF IInv, TypeOK
    <3>2. z \in GrantedIncompat(l, ttype[t]) BY <1>6, <2>4, <3>1, MatrixSymmetric
    <3>3. z \in GrantedIncompat(l, y) BY <1>a, <3>2 DEF HasStrongerOrEqualType
    <3> QED BY <1>6, <1>a, <3>3, MatrixSymmetric
  <2>5. ASSUME NEW u \in granted[l]
        PROVE  \E v \in granted'[l] :
                  /\ CtxOf(v) = CtxOf(u)
                  /\ \A z \in LockTypes :
                        ttype[u] \in GrantedIncompat(l, z) => ttype'[v] \in GrantedIncompat(l, z)
    <3>0. u \in Ticket BY <1>6 DEF IInv, TypeOK
    <3> HIDE DEF l, t
    <3>1. CASE u = t BY <1>9, <1>c, <2>4, <3>1
    <3>2. CASE u = n /\ isNew BY <1>9, <1>a, <1>b, <1>c, <3>2
    <3>3. CASE u = n /\ ~isNew BY <1>9, <1>c, <3>3
    <3>4. CASE u # t /\ u # n BY <1>9, <1>c, <3>0, <3>4
    <3> QED BY <3>1, <3>2, <3>3, <3>4
  <2> HIDE DEF l, t
  <2> QED BY <1>6, <2>1, <2>3, <2>5, QueueKept
<1>10. \A u \in Ticket : tlock[u] # l => tlock'[u] = tlock[u] /\ ttype'[u] = ttype[u]
  <2> SUFFICES ASSUME NEW u \in Ticket, tlock[u] # l
               PROVE  tlock'[u] = tlock[u] /\ ttype'[u] = ttype[u]
    OBVIOUS
  <2>1. u # t /\ u # n BY <1>4
  <2>2. tlock \in [Ticket -> Keys \cup {NoKey}] /\ ttype \in [Ticket -> LockTypes]
    BY DEF IInv, TypeOK
  <2> HIDE DEF l, t
  <2>3. CASE isNew BY <1>8, <2>1, <2>2, <2>3
  <2>4. CASE ~isNew BY <1>8, <2>1, <2>2, <2>4
  <2> QED BY <2>3, <2>4
<1>11. /\ \A u \in Ticket : Has(own[c], u) /\ (isNew => u # n) => Has(own'[c], u)
       /\ \A b \in Ctx \ {c} : own'[b] = own[b]
  <2>1. CASE isNew
    <3>1. PICK i \in 1 .. Len(own[c][TRANSACTION]) :
                /\ own[c][TRANSACTION][i] = n
                /\ own' = [own EXCEPT ![c][TRANSACTION] = RemoveAt(@, i)]
      BY <1>8, <2>1
    <3>2. TRANSACTION \in Durations BY DEF TRANSACTION, Durations
    <3>3. /\ \A u \in Ticket : Has(own'[c], u) <=> Has(own[c], u) /\ u # own[c][TRANSACTION][i]
          /\ \A b \in Ctx \ {c} : own'[b] = own[b]
      BY <3>1, <3>2, RemoveFacts
    <3> QED BY <2>1, <3>1, <3>3
  <2>2. CASE ~isNew BY <1>8, <2>2
  <2> QED BY <2>1, <2>2
<1>12. \A j \in Keys : \A u \in granted'[j] : Has(own[c], u) => Has(own'[c], u)
  <2> SUFFICES ASSUME NEW j \in Keys, NEW u \in granted'[j], Has(own[c], u)
               PROVE  Has(own'[c], u)
    OBVIOUS
  <2>0. u \in granted[j]
    <3>1. CASE j = l BY <1>9, <3>1
    <3>2. CASE j # l BY <1>9, <3>2
    <3> QED BY <3>1, <3>2
  <2>1. u \in granted[j] /\ u \in Ticket /\ tlock[u] = j
    BY <2>0 DEF IInv, TypeOK, GrantedOK
  <2>2. isNew => u # n BY <1>4, <1>9, <2>1
  <2> QED BY <1>11, <2>1, <2>2
<1>13. /\ pc'[c] = "idle" /\ \A b \in Ctx \ {c} : pc'[b] = pc[b] /\ call'[b] = call[b]
  BY <1>7 DEF IInv, TypeOK
<1>14. RwStep(c, l) BY <1>1, <1>7, <1>13 DEF RwStep
<1>15. QueueStep(c, l) BY <1>1, <1>13, <1>d DEF QueueStep
<1> HIDE DEF l, t, k
<1> QED BY <1>1, <1>6, <1>7, <1>9, <1>10, <1>11, <1>12, <1>13, <1>14, <1>15, OwnTicketsEffect

\* A waiter that is granted the lock is in the way of those it was in the way of
\* as a waiter.
LEMMA GrantQueue ==
  ASSUME IInv, NEW c \in Ctx, NEW l \in Keys, NEW j \in 1 .. Len(waiting[l]),
         rw'[l] = c, it'[c].i = j, waiting'[l] = RemoveAt(waiting[l], j),
         granted'[l] = granted[l] \cup {waiting[l][j]}, ttype' = ttype,
         \A b \in Ctx \ {CtxOf(waiting[l][j])} : slot'[b] = slot[b],
         \A n \in 1 .. (j - 1) : SettledIn(waiting, granted, ttype, slot, l, waiting[l][n])
  PROVE  QueueAfter(l)
<1> DEFINE w == waiting[l]
           t == w[j]
<1>1. /\ w \in Seq(Ticket) /\ SeqInj(w) /\ Len(w) \in Nat
  BY DEF IInv, TypeOK, WaitingOK
<1>2. \A u : In(waiting'[l], u) <=> In(w, u) /\ u # t BY <1>1, RemoveAtIn
<1>3. /\ Len(waiting'[l]) = Len(w) - 1
      /\ \A n \in 1 .. Len(w) - 1 : n < j => waiting'[l][n] = w[n]
  <2>1. /\ RemoveAt(w, j) \in Seq(Ticket)
        /\ Len(RemoveAt(w, j)) = Len(w) - 1
        /\ \A n \in 1 .. Len(w) - 1 :
             RemoveAt(w, j)[n] = IF n < j THEN w[n] ELSE w[n + 1]
    <3>1. w \in Seq(Ticket) /\ j \in 1 .. Len(w) BY <1>1
    <3> HIDE DEF w
    <3> QED BY ONLY <3>1, RemoveAtFacts
  <2>2. waiting'[l] = RemoveAt(w, j) OBVIOUS
  <2> HIDE DEF w
  <2> QED BY <2>1, <2>2
<1> SUFFICES ASSUME NEW n \in 1 .. Len(waiting'[l]), n < j
             PROVE  SettledIn(waiting', granted', ttype', slot', l, waiting'[l][n])
  BY DEF QueueAfter, QueueIn
<1>4. n \in 1 .. (j - 1) /\ n \in 1 .. Len(w) /\ n # j /\ waiting'[l][n] = w[n]
  BY <1>1, <1>3
<1> DEFINE v == w[n]
<1>5. /\ v \in Ticket /\ ttype[v] \in LockTypes /\ CtxOf(v) \in Ctx /\ CtxOf(v) # CtxOf(t)
  BY <1>4, WaitersDiffer
<1>6. SettledIn(waiting, granted, ttype, slot, l, v) BY <1>4
<1> HIDE DEF v, t
<1>7. slot'[CtxOf(v)] = slot[CtxOf(v)] BY <1>5 DEF t
<1>8. BlockedIn(waiting, granted, ttype, l, v) => BlockedIn(waiting', granted', ttype', l, v)
  <2>0. t \in granted'[l] BY DEF t
  <2>1. ASSUME NEW u \in Ticket, In(w, u), ttype[u] \in WaitingIncompat(l, ttype[v])
        PROVE  BlockedIn(waiting', granted', ttype', l, v)
    <3>1. CASE u = t
      <4>1. ttype[t] \in GrantedIncompat(l, ttype[v]) BY <1>5, <2>1, <3>1, PriorityConflicts
      <4> QED BY <1>5, <2>0, <4>1 DEF BlockedIn
    <3>2. CASE u # t BY <1>2, <2>1, <3>2 DEF BlockedIn
    <3> QED BY <3>1, <3>2
  <2>2. ASSUME NEW u \in granted[l], CtxOf(u) # CtxOf(v), ttype[u] \in GrantedIncompat(l, ttype[v])
        PROVE  BlockedIn(waiting', granted', ttype', l, v)
    BY <2>2 DEF BlockedIn
  <2> QED BY <2>1, <2>2 DEF BlockedIn
<1>9. SettledIn(waiting', granted', ttype', slot', l, v) BY <1>6, <1>7, <1>8 DEF SettledIn
<1> QED BY <1>4, <1>9 DEF v

\* reschedule_waiters() grants the lock to a waiter whose slot is empty.
LEMMA GrantNextEffect ==
  ASSUME IInv, RwOK, NEW c \in Ctx, GrantNext(c)
  PROVE  stack' = stack /\ \E m \in Keys \cup {NoKey} : Effect(c, m)
<1> DEFINE l == it[c].key
<1>1. pc[c] = "resched" /\ l \in Keys /\ it[c].i >= 1 /\ rw[l] = c
  BY DEF GrantNext, IInv, ThreadOK, IterOK, RwOK
<1>2. waiting[l] \in Seq(Ticket) /\ Len(waiting[l]) \in Nat /\ it[c].i \in Nat
  BY <1>1 DEF IInv, TypeOK, Iterator
<1>3. UNCHANGED <<tlock, ttype, rw, wfor, own, pc, call, srchVars>>
  BY DEF GrantNext
<1>4. PICK j \in it[c].i .. Len(waiting[l]) :
             LET t == waiting[l][j]
             IN /\ Grantable(l, j, it[c].skip)
                /\ \A n \in it[c].i .. (j - 1) : ~Grantable(l, n, it[c].skip)
                /\ slot' = [slot EXCEPT ![CtxOf(t)] = "GRANTED"]
                /\ waiting' = [waiting EXCEPT ![l] = RemoveAt(waiting[l], j)]
                /\ granted' = [granted EXCEPT ![l] = @ \cup {t}]
                /\ it' = [it EXCEPT ![c] = [key |-> l, i |-> j, skip |-> it[c].skip]]
  BY DEF GrantNext
<1> DEFINE t == waiting[l][j]
           b == CtxOf(t)
<1>5. j \in 1 .. Len(waiting[l]) BY <1>1, <1>2
<1>6. t \in Ticket /\ In(waiting[l], t) /\ b \in Ctx BY <1>2, <1>5 DEF In, Ticket, CtxOf
<1>7. tlock[t] = l /\ call[b].cur = t /\ b # c
  BY <1>1, <1>6 DEF IInv, WaitingOK, WaitPcs
<1>8. slot[b] = "EMPTY" BY <1>4 DEF Grantable
<1> HIDE DEF l, t
<1>9. /\ slot' = [slot EXCEPT ![b] = "GRANTED"]
      /\ waiting' = [waiting EXCEPT ![l] = RemoveAt(waiting[l], j)]
      /\ granted' = [granted EXCEPT ![l] = @ \cup {t}]
      /\ it' = [it EXCEPT ![c] = [key |-> l, i |-> j, skip |-> it[c].skip]]
  BY <1>4 DEF l, t
<1>10. /\ \A k \in Keys \ {l} : waiting'[k] = waiting[k] /\ granted'[k] = granted[k]
       /\ granted'[l] = granted[l] \cup {t}
       /\ waiting'[l] = RemoveAt(waiting[l], j)
       /\ it'[c].key = l /\ it'[c].i = j /\ it'[c].skip = it[c].skip
       /\ \A a \in Ctx \ {c} : it'[a] = it[a]
       /\ slot'[b] = "GRANTED" /\ \A a \in Ctx \ {b} : slot'[a] = slot[a]
  BY <1>1, <1>6, <1>9 DEF IInv, TypeOK
<1> HIDE DEF b
<1>11. Touches(c, l) BY <1>1, <1>3, <1>10 DEF Touches, srchVars
<1>12. RwStep(c, l) BY <1>1, <1>3, <1>10 DEF RwStep, l
<1>13. SlotStep(c, l) BY <1>1, <1>3, <1>6, <1>7, <1>8, <1>10 DEF SlotStep, WaitPcs
<1>14. GrantStep(c)
  <2> SUFFICES ASSUME NEW k \in Keys, NEW u \in granted'[k]
               PROVE  \/ CtxOf(u) # c /\ u \in granted[k]
                      \/ CtxOf(u) # c /\ In(waiting[k], u) /\ slot[CtxOf(u)] = "EMPTY"
                           /\ slot'[CtxOf(u)] = "GRANTED"
                      \/ CtxOf(u) = c /\ Has(own'[c], u)
                      \/ CtxOf(u) = c /\ u \in granted[k] /\ ~Has(own[c], u) /\ ~Taking(u)
    BY DEF GrantStep
  <2>1. u \in granted[k] \/ (k = l /\ u = t) BY <1>10
  <2>2. CASE k = l /\ u = t BY <1>6, <1>7, <1>8, <1>10, <2>2 DEF b
  <2>3. CASE u \in granted[k]
    <3>1. CtxOf(u) = c => ~Taking(u) BY <1>1 DEF Taking, NoticePcs
    <3> QED BY <1>3, <2>3, <3>1
  <2> QED BY <2>1, <2>2, <2>3
<1>a. \A n \in it[c].i .. (j - 1) : ~Grantable(l, n, it[c].skip) BY <1>4 DEF l
<1>15. ASSUME QueueOK(l), SkipOK PROVE QueueAfter(l)
  <2>1. it[c].skip \in BOOLEAN BY DEF IInv, TypeOK, Iterator
  <2>2. it[c].skip => HogBound >= MaxWriteLockCount BY <1>1, <1>15 DEF SkipOK
  <2>3. ASSUME NEW n \in 1 .. (j - 1)
        PROVE  SettledIn(waiting, granted, ttype, slot, l, waiting[l][n])
    <3>0. n \in 1 .. Len(waiting[l]) BY <1>2, <1>5
    <3>1. CASE n < it[c].i BY <1>1, <1>15, <3>0, <3>1 DEF QueueOK, QueueIn
    <3>2. CASE ~(n < it[c].i)
      <4>1. n \in it[c].i .. (j - 1) BY <1>2, <1>5, <3>2
      <4>2. ~Grantable(l, n, it[c].skip) BY <1>a, <4>1
      <4> QED BY <1>1, <2>1, <2>2, <3>0, <4>2, PassedIsSettled
    <3> QED BY <3>1, <3>2
  <2> QED BY <1>1, <1>3, <1>5, <1>10, <2>3, GrantQueue DEF t, b
<1>16. QueueStep(c, l) BY <1>1, <1>3, <1>10, <1>15 DEF QueueStep, l
<1> QED BY <1>1, <1>3, <1>11, <1>12, <1>13, <1>14, <1>16 DEF Effect, srchVars

\* The end of reschedule_waiters().
LEMMA RescheduleDoneEffect ==
  ASSUME IInv, RwOK, NEW c \in Ctx, RescheduleDone(c)
  PROVE  stack' = stack /\ \E m \in Keys \cup {NoKey} : Effect(c, m)
<1> DEFINE l == it[c].key
<1>1. pc[c] = "resched" /\ l \in Keys /\ rw[l] = c
  BY DEF RescheduleDone, IInv, ThreadOK, IterOK, RwOK
<1>2. /\ rw' = [rw EXCEPT ![l] = NoCtx] /\ it' = [it EXCEPT ![c] = NoIter]
      /\ pc' = [pc EXCEPT ![c] = Resume(rel[c])]
      /\ UNCHANGED <<tlock, ttype, listVars, slot, wfor, own, call, srchVars>>
  BY DEF RescheduleDone
<1>3. /\ \A k \in Keys \ {l} : rw'[k] = rw[k]
      /\ pc'[c] \in {"idle", "release"}
      /\ \A b \in Ctx \ {c} : pc'[b] = pc[b] /\ it'[b] = it[b]
  BY <1>1, <1>2 DEF IInv, TypeOK, Resume
<1>4. RwStep(c, l) BY <1>1, <1>2, <1>3 DEF RwStep
<1> HIDE DEF l
<1>5. Touches(c, l) BY <1>1, <1>2, <1>3 DEF Touches, listVars, srchVars
<1>6. SlotStep(c, l) BY <1>2, <1>3 DEF SlotStep
<1>7. GrantStep(c)
  <2>1. ASSUME NEW u, CtxOf(u) = c PROVE ~Taking(u)
    BY <1>1, <2>1 DEF Taking, NoticePcs
  <2> QED BY <1>2, <2>1 DEF GrantStep, listVars
<1>8. ASSUME QueueOK(l), SkipOK PROVE QueueAfter(l)
  <2>1. it[c].skip \in BOOLEAN /\ it[c].i \in Nat BY DEF IInv, TypeOK, Iterator
  <2>2. it[c].skip => HogBound >= MaxWriteLockCount BY <1>1, <1>8 DEF SkipOK
  <2>3. waiting' = waiting /\ granted' = granted /\ ttype' = ttype /\ slot' = slot
    BY <1>2 DEF listVars
  <2>4. Len(waiting[l]) \in Nat BY <1>1, WaitersDiffer
  <2>a. \A n \in it[c].i .. Len(waiting[l]) : ~Grantable(l, n, it[c].skip)
    BY DEF RescheduleDone, l
  <2>5. ASSUME NEW n \in 1 .. Len(waiting[l])
        PROVE  SettledIn(waiting, granted, ttype, slot, l, waiting[l][n])
    <3>1. CASE n < it[c].i BY <1>1, <1>8, <3>1 DEF QueueOK, QueueIn
    <3>2. CASE ~(n < it[c].i)
      <4>1. n \in it[c].i .. Len(waiting[l]) BY <2>1, <2>4, <3>2
      <4>2. ~Grantable(l, n, it[c].skip) BY <2>a, <4>1
      <4> QED BY <1>1, <2>1, <2>2, <4>2, PassedIsSettled
    <3> QED BY <3>1, <3>2
  <2> QED BY <2>3, <2>5 DEF QueueAfter, QueueIn
<1>9. QueueStep(c, l) BY <1>1, <1>3, <1>8 DEF QueueStep, l
<1> QED BY <1>1, <1>2, <1>4, <1>5, <1>6, <1>7, <1>9 DEF Effect, srchVars

-----------------------------------------------------------------------------
(* The deadlock search *)

\* A step of the search changes nothing that the wait-for graph is made of.
LEMMA SearchEffect ==
  ASSUME IInv, NEW c \in Ctx,
         SearchStart(c) \/ SearchFollow(c) \/ SearchLeave(c) \/ TellVictim(c)
  PROVE  /\ Effect(c, NoKey)
         /\ UNCHANGED <<tlock, ttype, listVars, rw, wfor>>
<1>1. UNCHANGED <<tlock, ttype, listVars, rw, wfor, own, call, it>>
  BY DEF SearchStart, SearchFollow, SearchLeave, TellVictim
<1>2. pc[c] \in {"search", "tell"}
  BY DEF SearchStart, SearchFollow, SearchLeave, TellVictim
<1>3. \E p \in {"search", "tell", "wait"} : pc' = [pc EXCEPT ![c] = p]
  <2>0. stack \in [Ctx -> Seq(Frame)] BY DEF IInv, TypeOK
  <2>1. CASE SearchStart(c)
    BY <2>1, VisitFacts, EmptySeq DEF SearchStart
  <2>2. CASE SearchFollow(c)
    <3> DEFINE top == stack[c][Len(stack[c])]
    <3>1. stack[c] \in Seq(Frame) /\ stack[c] # <<>> BY <2>0, <2>2 DEF SearchFollow
    <3>2. Len(stack[c]) \in 1 .. Len(stack[c]) BY <3>1
    <3>3. top \in Frame BY <3>1, <3>2
    <3>4. PICK u \in top.todo :
             Visit(c, CtxOf(u), [stack[c] EXCEPT ![Len(stack[c])] =
                                   [node |-> top.node, todo |-> top.todo \ {u}]])
      BY <2>2 DEF SearchFollow
    <3>5. CtxOf(u) \in Ctx /\ [node |-> top.node, todo |-> top.todo \ {u}] \in Frame
      BY <3>3, <3>4 DEF Frame, Ticket, CtxOf
    <3> HIDE DEF top
    <3>6. [stack[c] EXCEPT ![Len(stack[c])] = [node |-> top.node, todo |-> top.todo \ {u}]]
            \in Seq(Frame)
      BY <3>1, <3>2, <3>5, ExceptSeq
    <3>7. pc[c] = "search" BY <2>2 DEF SearchFollow
    <3> QED BY <3>4, <3>5, <3>6, <3>7, VisitFacts
  <2>3. CASE SearchLeave(c) BY <2>3 DEF SearchLeave
  <2>4. CASE TellVictim(c) BY <2>4 DEF TellVictim
  <2> QED BY <2>1, <2>2, <2>3, <2>4
<1>4. pc'[c] \in {"search", "tell", "wait"} /\ \A b \in Ctx \ {c} : pc'[b] = pc[b]
  BY <1>3 DEF IInv, TypeOK
<1>5. \A b \in Ctx \ {c} : stack'[b] = stack[b]
  BY DEF SearchStart, SearchFollow, SearchLeave, TellVictim, Visit, Found, IInv, TypeOK
<1>6. \A b \in Ctx : slot'[b] = slot[b] \/ (slot[b] = "EMPTY" /\ slot'[b] = "VICTIM")
  BY DEF SearchStart, SearchFollow, SearchLeave, TellVictim, IInv, TypeOK
<1>7. SlotStep(c, NoKey) BY <1>4, <1>6 DEF SlotStep
<1> QED BY <1>1, <1>2, <1>4, <1>5, <1>7, WaitEffect DEF WaitPcs, NoticePcs

\* The path of a search after it has visited one more node.
LEMMA VisitPath ==
  ASSUME IInv, NEW c \in Ctx, NEW n \in Ctx, NEW s \in Seq(Frame), Visit(c, n, s),
         PathOK(s), s # <<>> => \E u \in Edges(s[Len(s)].node) : CtxOf(u) = n
  PROVE  PathOK(stack'[c])
<1>0. stack \in [Ctx -> Seq(Frame)] /\ Len(s) \in Nat BY DEF IInv, TypeOK
<1>1. PathOK(<<>>) BY DEF PathOK
<1>2. CASE stack' = [stack EXCEPT ![c] = s]
  BY <1>0, <1>2
<1>3. CASE stack' = [stack EXCEPT ![c] = <<>>]
  BY <1>0, <1>1, <1>3
<1>4. CASE /\ wfor[n] # NoTicket /\ rw[tlock[wfor[n]]] = NoCtx /\ slot[n] = "EMPTY"
           /\ stack' = [stack EXCEPT ![c] = Append(s, [node |-> n, todo |-> Edges(n)])]
  <2> DEFINE f == [node |-> n, todo |-> Edges(n)]
             a == Append(s, f)
  <2>1. stack'[c] = a BY <1>0, <1>4
  <2>2. f.node = n /\ f.todo = Edges(n) OBVIOUS
  <2>3. NodeOK(f) BY <1>4, <2>2 DEF NodeOK
  <2> HIDE DEF f
  <2>4. Len(a) = Len(s) + 1 /\ a[Len(s) + 1] = f /\ \A i \in 1 .. Len(s) : a[i] = s[i]
    BY <1>0
  <2> HIDE DEF a
  <2>5. \A i \in 1 .. Len(a) : NodeOK(a[i])
    <3> TAKE i \in 1 .. Len(a)
    <3>1. CASE i = Len(s) + 1 BY <2>3, <2>4, <3>1
    <3>2. CASE i # Len(s) + 1
      <4>1. i \in 1 .. Len(s) BY <1>0, <2>4, <3>2
      <4> QED BY <2>4, <4>1 DEF PathOK
    <3> QED BY <3>1, <3>2
  <2>6. \A i \in 1 .. Len(a) - 1 : \E u \in Edges(a[i].node) : CtxOf(u) = a[i + 1].node
    <3> TAKE i \in 1 .. Len(a) - 1
    <3>0. i \in 1 .. Len(s) /\ a[i] = s[i] BY <1>0, <2>4
    <3>1. CASE i = Len(s)
      <4>1. s # <<>> BY <3>0, <3>1
      <4> QED BY <2>2, <2>4, <3>0, <3>1, <4>1
    <3>2. CASE i # Len(s)
      <4>1. i \in 1 .. Len(s) - 1 /\ i + 1 \in 1 .. Len(s) BY <1>0, <3>0, <3>2
      <4> QED BY <2>4, <3>0, <4>1 DEF PathOK
    <3> QED BY <3>1, <3>2
  <2> QED BY <2>1, <2>5, <2>6 DEF PathOK
<1> QED BY <1>2, <1>3, <1>4 DEF Visit, Found

\* The path of the search of c after a step of it.
LEMMA SearchPath ==
  ASSUME IInv, NEW c \in Ctx, PathOK(stack[c]),
         SearchStart(c) \/ SearchFollow(c) \/ SearchLeave(c)
  PROVE  PathOK(stack'[c])
<1> DEFINE s == stack[c]
           z == Len(s)
<1>0. stack \in [Ctx -> Seq(Frame)] /\ s \in Seq(Frame) /\ z \in Nat BY DEF IInv, TypeOK
<1>1. CASE SearchStart(c)
  <2>1. PathOK(<<>>) BY DEF PathOK
  <2>2. Visit(c, c, <<>>) BY <1>1 DEF SearchStart
  <2> QED BY <2>1, <2>2, VisitPath, EmptySeq
<1>2. CASE SearchFollow(c)
  <2>1. s # <<>> /\ z \in 1 .. z /\ z >= 1 BY <1>0, <1>2 DEF SearchFollow
  <2> DEFINE top == s[z]
  <2>2. top \in Frame /\ NodeOK(top) BY <1>0, <2>1 DEF PathOK
  <2>3. PICK u \in top.todo :
           Visit(c, CtxOf(u), [s EXCEPT ![z] = [node |-> top.node, todo |-> top.todo \ {u}]])
    BY <1>2 DEF SearchFollow
  <2> DEFINE f == [node |-> top.node, todo |-> top.todo \ {u}]
             q == [s EXCEPT ![z] = f]
  <2>4. u \in Edges(top.node) /\ CtxOf(u) \in Ctx /\ f \in Frame
    BY <2>2, <2>3 DEF NodeOK, Frame, Ticket, CtxOf
  <2>5. f.node = top.node /\ NodeOK(f) BY <2>2 DEF NodeOK
  <2> HIDE DEF f, top
  <2>6. q \in Seq(Frame) BY <1>0, <2>1, <2>4, ExceptSeq
  <2>7. Len(q) = z /\ q[z] = f /\ \A i \in 1 .. z : i # z => q[i] = s[i]
    BY <1>0, <2>1
  <2>8. \A i \in 1 .. z : q[i].node = s[i].node /\ NodeOK(q[i])
    <3> TAKE i \in 1 .. z
    <3>1. CASE i = z BY <2>5, <2>7, <3>1 DEF top
    <3>2. CASE i # z BY <2>7, <3>2 DEF PathOK
    <3> QED BY <3>1, <3>2
  <2>9. Visit(c, CtxOf(u), q) BY <2>3 DEF f
  <2> HIDE DEF q, z, s
  <2>10. PathOK(q)
    <3>1. \A i \in 1 .. z - 1 : i \in 1 .. z /\ i + 1 \in 1 .. z BY <1>0
    <3>2. PathOK(s) BY DEF s
    <3> QED BY <2>7, <2>8, <3>1, <3>2 DEF PathOK, z
  <2>11. \E v \in Edges(q[Len(q)].node) : CtxOf(v) = CtxOf(u)
    BY <2>1, <2>4, <2>7, <2>8 DEF top
  <2> QED BY <2>4, <2>6, <2>9, <2>10, <2>11, VisitPath
<1>3. CASE SearchLeave(c)
  <2>1. s # <<>> /\ z >= 1 BY <1>0, <1>3 DEF SearchLeave
  <2> DEFINE q == SubSeq(s, 1, z - 1)
  <2>2. stack'[c] = q BY <1>0, <1>3 DEF SearchLeave
  <2>3. Len(q) = z - 1 /\ \A i \in 1 .. z - 1 : q[i] = s[i]
    <3> HIDE DEF s
    <3>1. PICK k \in 1 .. Len(s) : k = Len(s) BY <1>0, <2>1
    <3>2. Len(SubSeq(s, 1, k - 1)) = k - 1 /\ \A i \in 1 .. k - 1 : SubSeq(s, 1, k - 1)[i] = s[i]
      BY <1>0, <3>1
    <3> QED BY <3>1, <3>2
  <2> HIDE DEF q, z, s
  <2>4. PathOK(s) BY DEF s
  <2>5. \A i \in 1 .. z - 1 : i \in 1 .. z BY <1>0
  <2>6. \A i \in 1 .. (z - 1) - 1 : i \in 1 .. z - 1 /\ i + 1 \in 1 .. z - 1 BY <1>0
  <2> QED BY <2>2, <2>3, <2>4, <2>5, <2>6 DEF PathOK, z
<1> QED BY <1>1, <1>2, <1>3

-----------------------------------------------------------------------------
(* The invariants *)

\* A step of c has an effect of this kind on some lock or on none, and moves on
\* the path of the search of c only if it is a step of that
Footprint(c) ==
    /\ \E m \in Keys \cup {NoKey} : Effect(c, m)
    /\ stack' = stack \/ SearchStart(c) \/ SearchFollow(c) \/ SearchLeave(c)

\* Every step of a thread does.
LEMMA StepEffect ==
  ASSUME IInv, RwOK, NEW c \in Ctx, Enter(c) \/ Proceed(c) \/ CutShort(c)
  PROVE  Footprint(c)
<1>1. Asking(c) => Footprint(c) BY AcquireEffect DEF Footprint
<1>2. ASSUME (\E q, sv : Release(c, q, sv)) \/ Rearranges(c) PROVE Footprint(c)
  <2>1. stack' = stack /\ Effect(c, NoKey) BY <1>2, CallEffect
  <2> QED BY <2>1 DEF Footprint
<1>3. ASSUME WillWaitFor(c) \/ WaitAborted(c) \/ CutShort(c) PROVE Footprint(c)
  <2>1. stack' = stack /\ Effect(c, NoKey) BY <1>3, WaitStepEffect
  <2> QED BY <2>1 DEF Footprint
<1>4. ASSUME WaitGranted(c) PROVE Footprint(c)
  <2>1. stack' = stack /\ Effect(c, NoKey) BY <1>4, WaitGrantedEffect
  <2> QED BY <2>1 DEF Footprint
<1>5. ASSUME SearchStart(c) \/ SearchFollow(c) \/ SearchLeave(c) \/ TellVictim(c) PROVE Footprint(c)
  <2>1. Effect(c, NoKey) BY <1>5, SearchEffect
  <2>2. TellVictim(c) => stack' = stack BY DEF TellVictim
  <2> QED BY <1>5, <2>1, <2>2 DEF Footprint
<1>6. CASE Enter(c)
  <2>1. ASSUME NEW r \in Requests, AcquireLock(c, r) \/ TryAcquireLock(c, r) \/ HandlerOpen(c, r)
        PROVE  Footprint(c)
    <3>1. Asking(c) BY <2>1, SingleAsks
    <3> QED BY <1>1, <3>1
  <2>2. CASE (\E L \in LockLists : AcquireLocks(c, L)) \/ UpgradeSharedLock(c)
    <3>1. Asking(c) BY <2>2, ListAsks, UpgradeAsks
    <3> QED BY <1>1, <3>1
  <2>3. CASE \/ SetExplicitDurationForAllLocks(c) \/ SetTransactionDurationForAllLocks(c)
             \/ SetLockDuration(c) \/ TakeSavepoint(c)
    <3>1. Rearranges(c) BY <2>3, DurationsRearrange
    <3> QED BY <1>2, <3>1
  <2>4. CASE \/ ReleaseExplicitLock(c) \/ ReleaseAllLocksForName(c) \/ ReleaseStatementLocks(c)
             \/ ReleaseTransactionalLocks(c) \/ ReleaseExplicitLocks(c) \/ RollbackToSavepoint(c)
    <3>1. \E q, sv : Release(c, q, sv) BY <2>4, Releases
    <3> QED BY <1>2, <3>1
  <2>5. CASE DowngradeLock(c) BY <2>5, DowngradeEffect DEF Footprint
  <2> QED BY <1>6, <2>1, <2>2, <2>3, <2>4, <2>5 DEF Enter
<1>7. CASE Proceed(c)
  <2>1. CASE AcquireNext(c)
    <3>1. Asking(c) BY <2>1, ListAsks
    <3> QED BY <1>1, <3>1
  <2>2. CASE HandlerKeep(c) \/ HandlerFail(c) BY <2>2, HandlerEffect DEF Footprint
  <2>3. CASE MergeUpgrade(c) BY <2>3, MergeEffect DEF Footprint
  <2>4. CASE AbortWait(c) BY <2>4, AbortWaitEffect DEF Footprint
  <2>5. CASE ReleaseLock(c) BY <2>5, ReleaseLockEffect DEF Footprint
  <2>6. CASE GrantNext(c) BY <2>6, GrantNextEffect DEF Footprint
  <2>7. CASE RescheduleDone(c) BY <2>7, RescheduleDoneEffect DEF Footprint
  <2> QED BY <1>3, <1>4, <1>5, <1>7, <2>1, <2>2, <2>3, <2>4, <2>5, <2>6, <2>7 DEF Proceed
<1>8. CASE CutShort(c) BY <1>3, <1>8
<1> QED BY <1>6, <1>7, <1>8

\* The write lock, the accounts and the closed slots, at the start.
LEMMA WaitInit ==
  Init => /\ IInv /\ RwOK /\ AccountOK /\ ClosedOK /\ \A c \in Ctx : PathOK(stack[c])
          /\ SkipOK /\ \A l \in Keys : QueueOK(l)
<1> SUFFICES ASSUME Init
             PROVE  /\ RwOK /\ AccountOK /\ ClosedOK /\ \A c \in Ctx : PathOK(stack[c])
                    /\ SkipOK /\ \A l \in Keys : QueueOK(l)
  BY InitInv
<1>1. RwOK BY DEF Init, RwOK
<1>2. AccountOK BY DEF Init, AccountOK
<1>3. ClosedOK BY DEF Init, ClosedOK
<1>4. \A c \in Ctx : PathOK(stack[c])
  <2>1. PathOK(<<>>) BY DEF PathOK
  <2> QED BY <2>1 DEF Init
<1>5. SkipOK BY DEF Init, SkipOK
<1>6. \A l \in Keys : QueueOK(l) BY DEF Init, QueueOK, QueueIn
<1> QED BY <1>1, <1>2, <1>3, <1>4, <1>5, <1>6

\* The accounts are kept if no client disconnects during its wait.
LEMMA AccountNext == ~MayDisconnect /\ AInv /\ [Next]_vars => AInv'
<1> SUFFICES ASSUME ~MayDisconnect, AInv, [Next]_vars PROVE AInv'
  OBVIOUS
<1>1. IInv' /\ TypeOK' /\ IInv /\ RwOK
  <2>1. IInv' BY NextInv DEF AInv
  <2> QED BY <2>1 DEF AInv, IInv
<1>2. CASE UNCHANGED vars
  <2> USE <1>2 DEF vars, listVars, srchVars
  <2>1. RwOK' BY DEF AInv, RwOK
  <2>2. AccountOK' BY DEF AInv, AccountOK, Taking
  <2>3. ClosedOK' BY DEF AInv, ClosedOK
  <2> QED BY <1>1, <2>1, <2>2, <2>3 DEF AInv
<1>3. CASE Next
  <2>1. PICK c \in Ctx : Enter(c) \/ Proceed(c) \/ CutShort(c) BY <1>3 DEF Next
  <2>2. PICK m \in Keys \cup {NoKey} : Effect(c, m) BY <1>1, <2>1, StepEffect DEF Footprint
  <2>3. Touches(c, m) /\ RwStep(c, m) /\ SlotStep(c, m) BY <2>2 DEF Effect
  <2>4. \A b \in Ctx : pc[b] = "resched" => it[b].key \in Keys
    BY <1>1 DEF IInv, ThreadOK, IterOK
  <2>5. RwOK' BY <1>1, <2>3, <2>4, RwKept DEF IInv
  <2>6. ClosedOK' BY <1>1, <2>3, ClosedKept DEF AInv, IInv
  <2>7. AccountOK' BY <1>1, <2>2, AccountKept DEF AInv
  <2> QED BY <1>1, <2>5, <2>6, <2>7 DEF AInv
<1> QED BY <1>2, <1>3

\* The paths of the searches are kept.
LEMMA PathNext == PInv /\ [Next]_vars => PInv'
<1> SUFFICES ASSUME PInv, [Next]_vars PROVE PInv'
  OBVIOUS
<1>1. IInv' /\ IInv /\ RwOK
  <2>1. IInv' BY NextInv DEF PInv
  <2> QED BY <2>1 DEF PInv
<1>2. CASE UNCHANGED vars
  <2>1. RwOK' BY <1>2 DEF PInv, RwOK, vars
  <2>2. UNCHANGED <<tlock, ttype, granted, waiting, rw, wfor, slot, stack>>
    BY <1>2 DEF vars, listVars, srchVars
  <2>3. \A n : EdgesAfter(n) = Edges(n) BY <2>2 DEF EdgesAfter, Edges
  <2>4. ASSUME NEW b \in Ctx PROVE PathOK(stack[b])'
    <3>1. PathOK(stack[b]) BY DEF PInv
    <3>2. PathAfter(stack'[b])
      BY <2>2, <2>3, <3>1 DEF PathAfter, PathOK, NodeAfter, NodeOK
    <3> QED BY <3>2, AfterIsPrime
  <2> QED BY <1>1, <2>1, <2>4 DEF PInv
<1>3. CASE Next
  <2>1. PICK c \in Ctx : Enter(c) \/ Proceed(c) \/ CutShort(c) BY <1>3 DEF Next
  <2>2. PICK m \in Keys \cup {NoKey} : Effect(c, m) BY <1>1, <2>1, StepEffect DEF Footprint
  <2>3. Touches(c, m) /\ RwStep(c, m) /\ SlotStep(c, m) BY <2>2 DEF Effect
  <2>4. \A b \in Ctx : pc[b] = "resched" => it[b].key \in Keys
    BY <1>1 DEF IInv, ThreadOK, IterOK
  <2>5. RwOK' BY <1>1, <2>3, <2>4, RwKept DEF IInv
  <2>6. ASSUME NEW b \in Ctx PROVE PathOK(stack[b])'
    <3>1. PathOK(stack[b]) BY DEF PInv
    <3>2. CASE stack'[b] = stack[b] BY <1>1, <2>3, <3>1, <3>2, PathKept
    <3>3. CASE stack'[b] # stack[b]
      <4>1. b = c BY <2>3, <3>3 DEF Touches
      <4>2. SearchStart(c) \/ SearchFollow(c) \/ SearchLeave(c)
        BY <1>1, <2>1, <3>3, StepEffect DEF Footprint
      <4>3. PathOK(stack'[b]) BY <1>1, <3>1, <4>1, <4>2, SearchPath
      <4>4. UNCHANGED <<tlock, ttype, granted, waiting, rw, wfor, slot>>
        BY <4>2 DEF SearchStart, SearchFollow, SearchLeave, listVars
      <4>5. \A n : EdgesAfter(n) = Edges(n) BY <4>4 DEF EdgesAfter, Edges
      <4>6. PathAfter(stack'[b])
        BY <4>3, <4>4, <4>5 DEF PathAfter, PathOK, NodeAfter, NodeOK
      <4> QED BY <4>6, AfterIsPrime
    <3> QED BY <3>2, <3>3
  <2> QED BY <1>1, <2>5, <2>6 DEF PInv
<1> QED BY <1>2, <1>3

\* The waiters stay settled.
LEMMA QueueNext == QInv /\ [Next]_vars => QInv'
<1> SUFFICES ASSUME QInv, [Next]_vars PROVE QInv'
  OBVIOUS
<1>1. IInv' /\ IInv /\ RwOK /\ SkipOK
  <2>1. IInv' BY NextInv DEF QInv
  <2> QED BY <2>1 DEF QInv
<1>2. CASE UNCHANGED vars
  <2> USE <1>2 DEF vars, listVars, srchVars
  <2>1. RwOK' BY DEF QInv, RwOK
  <2>2. SkipOK' BY DEF QInv, SkipOK
  <2>3. \A l \in Keys : QueueOK(l)' BY DEF QInv, QueueOK
  <2> QED BY <1>1, <2>1, <2>2, <2>3 DEF QInv
<1>3. CASE Next
  <2>1. PICK c \in Ctx : Enter(c) \/ Proceed(c) \/ CutShort(c) BY <1>3 DEF Next
  <2>2. PICK m \in Keys \cup {NoKey} : Effect(c, m) BY <1>1, <2>1, StepEffect DEF Footprint
  <2>3. Touches(c, m) /\ RwStep(c, m) /\ SlotStep(c, m) /\ QueueStep(c, m) BY <2>2 DEF Effect
  <2>4. \A b \in Ctx : pc[b] = "resched" => it[b].key \in Keys
    BY <1>1 DEF IInv, ThreadOK, IterOK
  <2>5. RwOK' BY <1>1, <2>3, <2>4, RwKept DEF IInv
  <2>6. SkipOK'
    <3> SUFFICES ASSUME NEW b \in Ctx, pc'[b] = "resched", it'[b].skip
                 PROVE  HogBound >= MaxWriteLockCount
      BY DEF SkipOK
    <3>1. CASE b = c BY <1>1, <2>3, <3>1 DEF QueueStep, SkipOK
    <3>2. CASE b # c BY <1>1, <2>3, <3>2 DEF Touches, SkipOK
    <3> QED BY <3>1, <3>2
  <2>7. ASSUME NEW l \in Keys PROVE QueueAfter(l)
    <3>0. QueueOK(l) BY DEF QInv
    <3>1. CASE l = m BY <1>1, <2>3, <3>0, <3>1 DEF QueueStep
    <3>2. CASE l # m
      <4>1. pc[c] = "resched" => m = it[c].key BY <2>3 DEF QueueStep
      <4> QED BY <1>1, <2>3, <3>0, <3>2, <4>1, OtherQueue
    <3> QED BY <3>1, <3>2
  <2>8. \A l \in Keys : QueueOK(l)' BY <2>7 DEF QueueAfter, QueueOK
  <2> QED BY <1>1, <2>5, <2>6, <2>8 DEF QInv
<1> QED BY <1>2, <1>3

\* A waiter that could be granted the lock, between two critical sections, is a
\* strong one that max_write_lock_count made wait.
LEMMA MissedIsStrong ==
  ASSUME QInv, NEW l \in Keys, rw[l] = NoCtx, NEW j \in 1 .. Len(waiting[l]),
         Grantable(l, j, FALSE)
  PROVE  ttype[waiting[l][j]] \in HogTypes(l) /\ HogBound >= MaxWriteLockCount
<1> DEFINE t == waiting[l][j]
<1>1. IInv BY DEF QInv
<1>2. ttype[t] \in LockTypes BY <1>1, WaitersDiffer
<1>3. slot[CtxOf(t)] = "EMPTY" /\ CanGrantLock(l, ttype[t], CtxOf(t), FALSE) BY DEF Grantable
<1>4. SettledIn(waiting, granted, ttype, slot, l, t) BY DEF QInv, QueueOK, QueueIn
<1> HIDE DEF t
<1>5. ~BlockedIn(waiting, granted, ttype, l, t)
  BY <1>1, <1>2, <1>3, CanGrantIsExact DEF BlockedIn
<1>6. ttype[t] \in HogTypes(l) /\ HogBound >= MaxWriteLockCount BY <1>3, <1>4, <1>5 DEF SettledIn
<1> QED BY <1>6 DEF t

-----------------------------------------------------------------------------
(* The theorems *)

\* No grant is lost and no ticket is kept by nobody: as long as no client
\* disconnects while it waits, a ticket is in m_granted exactly if its context
\* holds it or will take it from its wait slot, and a queued ticket belongs to a
\* call that waits, however timeouts, kills and deadlock victims meet the grants
\* of reschedule_waiters().
THEOREM NoGrantLost == ~MayDisconnect => (Spec => []TicketsAccountedFor)
<1>1. AInv => TicketsAccountedFor
  <2> SUFFICES ASSUME AInv PROVE TicketsAccountedFor
    OBVIOUS
  <2>0. IInv /\ AccountOK /\ own \in [Ctx -> [Durations -> Seq(Ticket)]]
        /\ waiting \in [Keys -> Seq(Ticket)] /\ granted \in [Keys -> SUBSET Ticket]
    BY DEF AInv, IInv, TypeOK
  <2>1. ASSUME NEW c \in Ctx, NEW d \in Durations
        PROVE  \A t : t \in ToSet(own[c][d]) <=> In(own[c][d], t)
    BY <2>0, <2>1, ToSetIn
  <2>2. ASSUME NEW l \in Keys, NEW t \in granted[l]
        PROVE  \/ \E d \in Durations : t \in ToSet(own[CtxOf(t)][d])
               \/ /\ call[CtxOf(t)].cur = t /\ slot[CtxOf(t)] = "GRANTED"
                  /\ pc[CtxOf(t)] \in {"willwait", "search", "tell", "wait"}
    <3>1. CtxOf(t) \in Ctx BY <2>0, <2>2 DEF CtxOf, Ticket
    <3>2. Has(own[CtxOf(t)], t) \/ Taking(t) BY <2>0, <2>2 DEF AccountOK
    <3> QED BY <2>1, <3>1, <3>2 DEF Has, Taking, NoticePcs
  <2>3. ASSUME NEW c \in Ctx, NEW d \in Durations, NEW t \in ToSet(own[c][d])
        PROVE  tlock[t] \in Keys /\ t \in granted[tlock[t]]
    <3>0. own[c][d] \in Seq(Ticket) BY <2>0
    <3>1. own[c][d] \in Seq(Ticket) /\ In(own[c][d], t) BY <3>0, ToSetIn
    <3>2. t \in Ticket /\ Has(own[c], t) BY <3>1 DEF In, Has
    <3> QED BY <2>0, <3>2 DEF IInv, ThreadOK, OwnOK
  <2>4. ASSUME NEW l \in Keys, NEW t \in ToSet(waiting[l])
        PROVE  /\ call[CtxOf(t)].cur = t /\ slot[CtxOf(t)] # "GRANTED"
               /\ pc[CtxOf(t)] \in {"willwait", "search", "tell", "wait", "gone", "abort"}
    <3>1. t \in Ticket /\ In(waiting[l], t) /\ CtxOf(t) \in Ctx
      <4>1. waiting[l] \in Seq(Ticket) /\ In(waiting[l], t) BY <2>0, <2>4, ToSetIn
      <4> QED BY <4>1 DEF In, CtxOf, Ticket
    <3>2. /\ tlock[t] = l /\ t \notin granted[l]
          /\ call[CtxOf(t)].cur = t /\ pc[CtxOf(t)] \in WaitPcs
      BY <2>0, <3>1 DEF IInv, WaitingOK
    <3>3. slot[CtxOf(t)] # "GRANTED"
      BY <2>0, <3>1, <3>2 DEF IInv, ThreadOK, CurOK
    <3> QED BY <3>2, <3>3 DEF WaitPcs
  <2> QED BY <2>2, <2>3, <2>4 DEF TicketsAccountedFor
<1>2. (AInv /\ ~MayDisconnect) /\ [Next]_vars => (AInv /\ ~MayDisconnect)'
  BY AccountNext
<1>3. Init => AInv BY WaitInit DEF AInv
<1> QED BY <1>1, <1>2, <1>3, PTL DEF Spec

\* A request that was given up is not granted behind the back of its thread, as
\* long as no client disconnects while it waits: a closed wait slot is never
\* granted to, so the thread that removes its ticket finds it in m_waiting.
THEOREM GivenUpNotGranted == ~MayDisconnect => (Spec => []AbandonedNotGranted)
<1>1. AInv => AbandonedNotGranted
  <2> SUFFICES ASSUME AInv, NEW c \in Ctx, pc[c] \in {"gone", "abort"},
                      call[c].cur \in granted[tlock[call[c].cur]]
               PROVE  FALSE
    BY DEF AbandonedNotGranted
  <2> DEFINE t == call[c].cur
             l == tlock[t]
  <2>1. IInv /\ AccountOK BY DEF AInv
  <2>2. pc[c] \in WaitPcs /\ pc[c] \in BusyPcs BY DEF WaitPcs, BusyPcs
  <2>3. l \in Keys /\ CtxOf(t) = c /\ ~Has(own[c], t)
    BY <2>1, <2>2, ReqType DEF IInv, ThreadOK, CurOK
  <2>4. Has(own[c], t) \/ Taking(t) BY <2>1, <2>3 DEF AccountOK
  <2> QED BY <2>3, <2>4 DEF Taking, NoticePcs
<1>2. (AInv /\ ~MayDisconnect) /\ [Next]_vars => (AInv /\ ~MayDisconnect)'
  BY AccountNext
<1>3. Init => AInv BY WaitInit DEF AInv
<1> QED BY <1>1, <1>2, <1>3, PTL DEF Spec

\* A deadlock search stands on a path of the wait-for graph at all times: while
\* it holds its read locks no node of the path is granted its lock or stops
\* waiting, and each still blocks the one before it.  So a loop it finds is a
\* deadlock, whatever the other threads do meanwhile.
THEOREM SearchesAreSound == Spec => []SearchPathIsReal
<1>1. PInv => SearchPathIsReal
  <2> SUFFICES ASSUME PInv, NEW c \in Ctx, NEW i \in 1 .. Len(stack[c])
               PROVE  /\ slot[stack[c][i].node] # "GRANTED"
                      /\ wfor[stack[c][i].node] # NoTicket
                      /\ i < Len(stack[c]) => stack[c][i + 1].node \in BlockedBy(stack[c][i].node)
    BY DEF SearchPathIsReal
  <2> DEFINE s == stack[c]
             n == s[i].node
  <2>0. IInv /\ PathOK(s) /\ s \in Seq(Frame) /\ Len(s) \in Nat BY DEF PInv, IInv, TypeOK
  <2>1. NodeOK(s[i]) /\ n \in Ctx
    <3>1. s[i] \in Frame BY <2>0
    <3> QED BY <2>0, <3>1 DEF PathOK, Frame
  <2>2. slot[n] # "GRANTED" /\ wfor[n] # NoTicket BY <2>1 DEF NodeOK
  <2>3. wfor[n] = call[n].cur /\ tlock[wfor[n]] \in Keys
    BY <2>0, <2>1, <2>2, WforFacts DEF IInv, ThreadOK, WforOK
  <2>4. ASSUME i < Len(s) PROVE s[i + 1].node \in BlockedBy(n)
    <3>1. i \in 1 .. Len(s) - 1 BY <2>0, <2>4
    <3>2. PICK u \in Edges(n) : CtxOf(u) = s[i + 1].node BY <2>0, <3>1 DEF PathOK
    <3> DEFINE t == wfor[n]
               l == tlock[t]
    <3>3. \/ u \in granted[l] /\ ttype[u] \in GrantedIncompat(l, ttype[t])
          \/ u \in ToSet(waiting[l]) /\ ttype[u] \in WaitingIncompat(l, ttype[t])
      BY <3>2 DEF Edges
    <3>4. CtxOf(u) # n BY <3>2 DEF Edges
    <3>5. waiting[l] \in Seq(Ticket) /\ granted[l] \subseteq Ticket
      BY <2>0, <2>3 DEF IInv, TypeOK
    <3> HIDE DEF l
    <3>6. u \in ToSet(waiting[l]) =>
             u \in Ticket /\ \E j \in 1 .. Len(waiting[l]) : waiting[l][j] = u
      <4>1. u \in ToSet(waiting[l]) => In(waiting[l], u) BY <3>5, ToSetIn
      <4> QED BY <3>5, <4>1 DEF In
    <3>7. CtxOf(u) \in Ctx BY <3>3, <3>5, <3>6 DEF CtxOf, Ticket
    <3> QED BY <2>3, <3>2, <3>3, <3>4, <3>6, <3>7 DEF BlockedBy, l
  <2> QED BY <2>2, <2>4
<1>2. Init => PInv BY WaitInit DEF PInv
<1> QED BY <1>1, <1>2, PathNext, PTL DEF Spec

\* As long as max_write_lock_count is out of reach, as with its default, no wakeup
\* is missed: whenever nobody is inside a critical section of a lock, every
\* request in its queue whose wait is not over conflicts with a granted lock or
\* with a waiter of higher priority.  A merged upgrade, which does not
\* reschedule, frees nobody; every release, downgrade and abort wakes all it
\* should, though slots are closed while reschedule_waiters() runs.
THEOREM NoWakeupMissed == HogBound < MaxWriteLockCount => (Spec => []NoMissedGrant)
<1>0. HogBound \in Nat /\ MaxWriteLockCount \in Nat BY BoundAssumption
<1>1. QInv /\ HogBound < MaxWriteLockCount => NoMissedGrant
  <2> SUFFICES ASSUME QInv, HogBound < MaxWriteLockCount, NEW l \in Keys, rw[l] = NoCtx,
                      NEW j \in 1 .. Len(waiting[l]), Grantable(l, j, FALSE)
               PROVE  FALSE
    BY DEF NoMissedGrant
  <2>1. HogBound >= MaxWriteLockCount BY MissedIsStrong
  <2> QED BY <1>0, <2>1
<1>2. Init => QInv BY WaitInit DEF QInv
<1>3. (QInv /\ HogBound < MaxWriteLockCount) /\ [Next]_vars
         => (QInv /\ HogBound < MaxWriteLockCount)'
  BY QueueNext
<1> QED BY <1>1, <1>2, <1>3, PTL DEF Spec

\* No weak request is left waiting that could be granted its lock
WeakNotMissed ==
    \A l \in Keys : rw[l] = NoCtx =>
        \A j \in 1 .. Len(waiting[l]) :
            Grantable(l, j, FALSE) => ttype[waiting[l][j]] \in HogTypes(l)

\* Whatever max_write_lock_count is, no weak request (SR, SW, SU, ...) is missed:
\* a round of reschedule_waiters() that skips the strong requests wakes all weak
\* ones that can run.
THEOREM NoWeakRequestMissed == Spec => []WeakNotMissed
<1>1. QInv => WeakNotMissed BY MissedIsStrong DEF WeakNotMissed
<1>2. Init => QInv BY WaitInit DEF QInv
<1> QED BY <1>1, <1>2, QueueNext, PTL DEF Spec
=============================================================================
