-------------------------- MODULE TcLogMmapProofs ---------------------------
(***************************************************************************)
(* Proofs about the mmap log of module TcLogMmap, for any number of        *)
(* transactions, of pages and of XIDs in each of them: free slots are      *)
(* counted exactly, no page is lost or in two places, no session is left   *)
(* asleep, and recovery finds the XIDs it needs when at most one engine    *)
(* takes part in commit checkpoints.                                       *)
(***************************************************************************)
EXTENDS TcLogMmap, FiniteSetTheorems, WellFoundedInduction, ListLemmas, TLAPS

USE MmapAssumption

-----------------------------------------------------------------------------
(* The inductive invariant *)

\* Where a session has not logged its XID yet
Early == {"start", "active_wait", "pool", "overflow", "pool_wait", "store"}

\* Where the logging of the XID is over
Reported == {"logged", "unlog", "hook", "hooked", "notify", "ended"}

\* Where a session has the syncing slot, and where its page is nowhere else
Syncer == {"clear", "sync", "synced", "pooled"}
InSync == {"sync", "synced"}

\* The sessions that count themselves in waiters of page p
Waiters(p) == {u \in Trx : pc[u] \in {"check", "asleep", "woken"} /\ cookie[u].page = p}

\* The mutexes are held where the code holds them
LocksOK(t) ==
  /\ pc[t] \in {"pool", "overflow", "pool_wait", "store", "lock_sync"} => lockActive = t
  /\ pc[t] = "overflow" => lockPool = t
  /\ pc[t] \in {"register", "check"} => lockSync = t

\* There is no active page while one is searched, and room in it where one is used
ActiveOK(t) ==
  /\ pc[t] \in {"pool", "overflow", "pool_wait"} => active = NoPage
  /\ pc[t] = "store" => active # NoPage /\ page[active].free > 0
  /\ pc[t] = "lock_sync" => active = cookie[t].page

\* One session syncs, its own page, which stays active until it is cleared and is
\* in no other place until it is in the pool
SyncOK(t) ==
  /\ pc[t] \in Syncer => syncing = cookie[t].page
  /\ \A u \in Trx : pc[t] \in Syncer /\ pc[u] \in Syncer => t = u
  /\ pc[t] = "clear" => active = syncing
  /\ pc[t] \in InSync => syncing # active /\ ~In(pool, syncing)
  /\ pc[t] = "register" => syncing # NoPage

SomeSyncer == syncing # NoPage => \E t \in Trx : pc[t] \in Syncer

BeingSynced(p) == p = syncing /\ \E t \in Trx : pc[t] \in InSync

\* Every page is somewhere, the active one not in the pool; a dirty page is active
\* or being synced
PagesOK ==
  /\ ~In(pool, active)
  /\ \A p \in Page : p = active \/ In(pool, p) \/ BeingSynced(p)
  /\ \A p \in Page : page[p].state = "DIRTY" => p = active \/ BeingSynced(p)

\* The slot of a session's cookie, once it has one
HasSlot(t) == cookie[t].page \in Page /\ cookie[t].slot \in Slot(cookie[t].page)
Stored(t) == HasSlot(t) /\ data[cookie[t].page][cookie[t].slot] = t

\* A session's XID is in its slot from the moment it is stored until its entry is
\* queued for deletion, and then as long as it is queued
SlotOK(t) ==
  /\ pc[t] \notin Early => HasSlot(t)
  /\ pc[t] \notin Early \union {"hook", "hooked", "notify", "ended"} => Stored(t)

\* A slot holds the XID of the session with that cookie only
DataOK ==
  \A p \in Page : \A s \in Slot(p) :
    data[p][s] # NoTrx =>
      pc[data[p][s]] \notin Early /\ cookie[data[p][s]] = [page |-> p, slot |-> s]

\* An entry waits for its deletion once, and is still in its slot
QueuedOK ==
  /\ \A u \in pending : pc[u] = "ended" /\ ~failed[u] /\ Stored(u)
  /\ \A t, u \in Trx : u \in batch[t].of =>
       /\ pc[u] \in {"hook", "hooked", "notify", "ended"} /\ ~failed[u] /\ Stored(u)
       /\ u \notin pending /\ pc[t] \in {"hook", "hooked", "notify", "ended"}
  /\ \A t, v \in Trx : \A u \in batch[t].of : u \in batch[v].of => t = v

WaitersOK == \A p \in Page : page[p].waiters = Cardinality(Waiters(p))

\* Who sleeps has a dirty page, or one whose sync is just ending
SleepersOK ==
  \A t \in Trx : pc[t] = "asleep" =>
     page[cookie[t].page].state = "DIRTY" \/ cookie[t].page = syncing

\* The errors are those of the sync
FailedOK(t) == failed[t] => pc[t] \in {"synced", "pooled", "logged", "ended"}

\* unlog() makes its own notification last
NotifyOK == \A t \in Trx : decrement.of = <<t, Self>> => pc[t] = "notify"

SessionOK(t) == LocksOK(t) /\ ActiveOK(t) /\ SyncOK(t) /\ SlotOK(t) /\ FailedOK(t)

IInv ==
  /\ TypeOK
  /\ \A t \in Trx : SessionOK(t)
  /\ SomeSyncer /\ PagesOK /\ DataOK /\ QueuedOK /\ WaitersOK /\ SleepersOK /\ NotifyOK
  /\ FreeExact /\ SleepersRemembered

-----------------------------------------------------------------------------
(* What is on disk, and the commit checkpoints with one engine *)

\* The XID of t is in its slot and on disk
OnDisk(t) == Stored(t) /\ disk[cookie[t].page][cookie[t].slot] = t

\* A page that was synced without error holds on disk all XIDs that are in it, and
\* so does the page of the sync that ends well
DiskOK ==
  /\ \A p \in Page : page[p].state = "POOL" =>
       \A s \in Slot(p) : data[p][s] # NoTrx => disk[p][s] = data[p][s]
  /\ \A t \in Trx : pc[t] = "synced" /\ ~failed[t] =>
       \A s \in Slot(syncing) : data[syncing][s] # NoTrx => disk[syncing][s] = data[syncing][s]

\* Logged is on disk, until it is durable in all engines
LoggedOK ==
  \A t \in Trx : pc[t] \in {"synced", "pooled"} \union Reported /\ ~failed[t] =>
     OnDisk(t) \/ \A e \in Checkpoint : t \in durable[e]

\* The notifications that are still to come are counted, also while one is counted
\* down; an engine that has flushed has all entries of the batch
Outstanding(t, n) == notice[<<t, n>>] \in {"asked", "flushed"}
CountOK(t) ==
  /\ batch[t].count = (IF Outstanding(t, Self) THEN 1 ELSE 0)
                      + (IF \E e \in Checkpoint : Outstanding(t, e) THEN 1 ELSE 0)
  /\ pc[t] = "hooked" => batch[t].read = batch[t].count /\ batch[t].asked # Checkpoint
  /\ pc[t] \in {"hook", "hooked", "notify"} <=> Outstanding(t, Self)
  /\ pc[t] = "notify" => batch[t].asked = Checkpoint
  /\ \A e \in Checkpoint : e \in batch[t].asked <=> notice[<<t, e>>] # "none"
  /\ \A e \in Checkpoint : notice[<<t, e>>] \in {"flushed", "done"} => batch[t].of \subseteq durable[e]
  /\ notice[<<t, Self>>] = "done" => batch[t].asked = Checkpoint
  /\ notice[<<t, Self>>] = "none" => batch[t].asked = {}
  /\ notice[<<t, Self>>] # "asked"
  /\ notice[<<t, Self>>] # "none" => pc[t] \in {"hook", "hooked", "notify", "ended"}
  /\ batch[t].deleting => \A n \in Checkpoint \union {Self} : notice[<<t, n>>] = "done"

DecrementOK ==
  \A t \in Trx, n \in Checkpoint \union {Self} : decrement.of = <<t, n>> =>
    decrement.read = batch[t].count /\ notice[<<t, n>>] = "flushed" /\ (n = Self => pc[t] = "notify")

OneEngine == \A e, f \in Checkpoint : e = f

CInv == IInv /\ DiskOK /\ LoggedOK /\ (\A t \in Trx : CountOK(t)) /\ DecrementOK

-----------------------------------------------------------------------------
(* Sets of numbers *)

\* A set of natural numbers that is not empty has a least element, which is Min.
LEMMA MinFacts ==
  ASSUME NEW S \in SUBSET Nat, S # {}
  PROVE  Min(S) \in S /\ \A y \in S : Min(S) <= y
<1> DEFINE R == {ss \in Nat \X Nat : ss[1] < ss[2]}
<1>1. OpToRel(<, Nat) = R
  BY DEF OpToRel
<1>2. PICK x \in S : \A y \in S : ~(<<y, x>> \in R)
  <2>1. IsWellFoundedOn(R, Nat)
    BY <1>1, NatLessThanWellFounded, Zenon
  <2> HIDE DEF R
  <2> QED BY <2>1, WFMin
<1>3. ASSUME NEW y \in S, y < x PROVE FALSE
  <2>1. <<y, x>> \in Nat \X Nat /\ <<y, x>>[1] = y /\ <<y, x>>[2] = x
    OBVIOUS
  <2> QED BY <1>2, <1>3, <2>1
<1>4. x \in Nat /\ \A y \in S : y \in Nat /\ x <= y
  BY <1>3
<1> QED BY <1>4 DEF Min

\* Finitely many natural numbers have an upper bound.
LEMMA Bounded ==
  ASSUME NEW n \in Nat, NEW f \in [1 .. n -> Nat]
  PROVE  \E b \in Nat : \A i \in 1 .. n : f[i] <= b
<1> DEFINE B(m) == \E b \in Nat : \A i \in 1 .. n : i <= m => f[i] <= b
           T == {m \in Nat : ~B(m)}
<1>1. CASE T = {}
  <2>1. B(n)
    BY <1>1
  <2> QED BY <2>1
<1>2. CASE T # {}
  <2>1. PICK m \in T : \A y \in T : m <= y
    BY <1>2, MinFacts
  <2>2. B(0)
    OBVIOUS
  <2>3. m \in Nat /\ m # 0 /\ ~B(m)
    BY <2>1, <2>2
  <2>4. B(m - 1)
    <3>1. m - 1 \in Nat /\ ~(m <= m - 1)
      BY <2>3
    <3>2. m - 1 \notin T
      BY <2>1, <3>1
    <3> QED BY <3>1, <3>2
  <2>5. PICK b \in Nat : \A i \in 1 .. n : i <= m - 1 => f[i] <= b
    BY <2>4
  <2> HIDE DEF T
  <2>6. CASE m \in 1 .. n
    <3> HIDE DEF B
    <3>a. \A i \in 1 .. n : i <= m => i <= m - 1 \/ i = m
      BY <2>6
    <3>b. f[m] \in Nat /\ \A i \in 1 .. n : f[i] \in Nat
      BY <2>6
    <3>1. f[m] \in Nat /\ \A i \in 1 .. n : f[i] \in Nat /\ (i <= m => i <= m - 1 \/ i = m)
      BY <3>a, <3>b
    <3> USE DEF B
    <3>2. CASE f[m] <= b
      BY <2>3, <2>5, <3>1, <3>2
    <3>3. CASE ~(f[m] <= b)
      <4>1. \A i \in 1 .. n : i <= m => f[i] <= f[m]
        BY <2>5, <3>1, <3>3
      <4> QED BY <2>3, <3>1, <4>1
    <3> QED BY <3>2, <3>3
  <2>7. CASE m \notin 1 .. n
    <3>1. \A i \in 1 .. n : i <= m => f[i] <= b
      BY <2>3, <2>5, <2>7
    <3> QED BY <2>3, <3>1
  <2> QED BY <2>6, <2>7
<1> QED BY <1>1, <1>2

\* Finitely many natural numbers, not none, have a greatest one.
LEMMA Greatest ==
  ASSUME NEW n \in Nat, NEW f \in [1 .. n -> Nat], NEW S \in SUBSET (1 .. n), S # {}
  PROVE  \E i \in S : \A j \in S : f[j] <= f[i]
<1> DEFINE U == {b \in Nat : \A j \in S : f[j] <= b}
<1>1. U # {}
  BY Bounded
<1>2. PICK b \in U : \A y \in U : b <= y
  BY <1>1, MinFacts
<1>3. CASE \E i \in S : f[i] = b
  BY <1>2, <1>3
<1>4. CASE ~ \E i \in S : f[i] = b
  <2>1. b \in Nat /\ \A j \in S : f[j] \in Nat /\ f[j] <= b - 1
    BY <1>2, <1>4
  <2>2. b - 1 \in Nat
    <3>1. PICK j \in S : TRUE
      OBVIOUS
    <3> QED BY <2>1, <3>1
  <2>3. b - 1 \in U
    BY <2>1, <2>2
  <2> QED BY <1>2, <2>1, <2>3
<1> QED BY <1>3, <1>4

-----------------------------------------------------------------------------
(* Types *)

Finish == {"hook", "hooked", "notify", "ended"}

\* No page is in the pool twice
LEMMA InjectiveSeq ==
  ASSUME NEW S, NEW s \in Seq(S)
  PROVE  IsInjective(s) <=> SeqInj(s)
<1>1. DOMAIN s = 1 .. Len(s)
  OBVIOUS
<1> QED BY <1>1 DEF SeqInj, IsInjective

\* The parts of the type invariant that are about sessions ...
LEMMA SessionTypes ==
  ASSUME TypeOK
  PROVE  /\ pc \in [Trx -> Place] /\ failed \in [Trx -> BOOLEAN]
         /\ cookie \in [Trx -> [page: Page \union {NoPage}, slot: Nat]]
         /\ lockActive \in Trx \union {NoTrx} /\ lockSync \in Trx \union {NoTrx}
         /\ lockPool \in Trx \union {NoTrx}
BY DEF TypeOK

\* ... and about pages
LEMMA PageTypes ==
  ASSUME TypeOK
  PROVE  /\ DOMAIN data = Page /\ DOMAIN disk = Page /\ DOMAIN page = Page
         /\ active \in Page \union {NoPage} /\ syncing \in Page \union {NoPage}
         /\ pool \in Seq(Page) /\ SeqInj(pool)
         /\ \A p \in Page : /\ data[p] \in [Slot(p) -> Trx \union {NoTrx}]
                             /\ disk[p] \in [Slot(p) -> Trx \union {NoTrx}]
                             /\ page[p] \in [free: 0 .. Size[p], ptr: 1 .. Size[p] + 1,
                                             waiters: Nat, state: {"POOL", "ERROR", "DIRTY"}]
                             /\ Size[p] \in Nat \ {0} /\ p \in Nat \ {0}
<1>1. \A p \in Page : Size[p] \in Nat \ {0} /\ p \in Nat \ {0}
  BY DEF Page
<1>2. pool \in Seq(Page) /\ SeqInj(pool)
  BY InjectiveSeq DEF TypeOK
<1> QED BY <1>1, <1>2 DEF TypeOK

\* Who syncs has a page to sync.
LEMMA SyncerFacts ==
  ASSUME IInv
  PROVE  /\ \A v \in Trx : pc[v] \in Syncer => syncing \in Page /\ syncing # NoPage
         /\ NoPage \notin Page
<1>1. NoPage \notin Page
  BY DEF Page, NoPage
<1>2. \A v \in Trx : pc[v] \in Syncer => syncing \in Page
  BY DEF IInv, SessionOK, SyncOK, SlotOK, HasSlot, Early, Syncer
<1> QED BY <1>1, <1>2

\* Who waits for a sync, or to get in line for one, has a page.
LEMMA CookieFacts ==
  ASSUME IInv, NEW v \in Trx, pc[v] \notin Early
  PROVE  /\ cookie[v].page \in Page /\ cookie[v].slot \in Slot(cookie[v].page)
         /\ cookie[v].page # NoPage
BY SyncerFacts DEF IInv, SessionOK, SlotOK, HasSlot

\* The first page of the pool, or the first of those with most free slots, if one
\* can be used.
LEMMA BestFacts ==
  ASSUME TypeOK, BestInPool # 0
  PROVE  BestInPool \in 1 .. Len(pool) /\ Usable(pool[BestInPool])
<1> DEFINE usable == {i \in DOMAIN pool : Usable(pool[i])}
           best == {i \in usable : \A j \in usable : page[pool[j]].free <= page[pool[i]].free}
           f == [i \in 1 .. Len(pool) |-> page[pool[i]].free]
<1>1. DOMAIN pool = 1 .. Len(pool) /\ Len(pool) \in Nat
  BY PageTypes
<1>2. BestInPool = IF usable = {} THEN 0 ELSE IF 1 \in usable THEN 1 ELSE Min(best)
  BY DEF BestInPool
<1>3. CASE 1 \in usable
  BY <1>1, <1>2, <1>3
<1>4. CASE 1 \notin usable /\ usable # {}
  <2>1. \A i \in 1 .. Len(pool) : pool[i] \in Page /\ page[pool[i]].free \in Nat
    BY <1>1, PageTypes
  <2>2. f \in [1 .. Len(pool) -> Nat]
    BY <2>1
  <2>3. usable \in SUBSET (1 .. Len(pool))
    BY <1>1
  <2>4. PICK i \in usable : \A j \in usable : f[j] <= f[i]
    <3> HIDE DEF usable, f
    <3> QED BY <1>1, <1>4, <2>2, <2>3, Greatest
  <2>5. i \in best
    BY <2>3, <2>4
  <2>6. best \in SUBSET Nat /\ best # {} /\ best \subseteq usable
    BY <1>1, <2>5
  <2>7. Min(best) \in best
    <3> HIDE DEF best
    <3> QED BY <2>6, MinFacts
  <2>8. Min(best) \in usable
    BY <2>6, <2>7
  <2>9. BestInPool = Min(best)
    BY <1>2, <1>4
  <2> QED BY <1>1, <2>8, <2>9
<1> QED BY <1>2, <1>3, <1>4

-----------------------------------------------------------------------------
(* What the parts of the invariant depend on *)

LEMMA SlotFrame ==
  ASSUME NEW v \in Trx, SlotOK(v), UNCHANGED <<data, cookie>>,
         pc'[v] \notin Early => pc[v] \notin Early,
         pc'[v] \notin Early \union Finish => pc[v] \notin Early \union Finish
  PROVE  SlotOK(v)'
BY DEF SlotOK, Stored, HasSlot, Finish

LEMMA PagesFrame ==
  ASSUME PagesOK, UNCHANGED <<active, syncing, pool>>,
         \A p \in Page : page'[p].state = page[p].state,
         \A v \in Trx : pc[v] \in InSync => pc'[v] \in InSync
  PROVE  PagesOK'
BY DEF PagesOK, BeingSynced

LEMMA DataFrame ==
  ASSUME TypeOK, DataOK, UNCHANGED <<data, cookie>>,
         \A v \in Trx : pc'[v] \in Early => pc[v] \in Early
  PROVE  DataOK'
<1>1. \A p \in Page : \A s \in Slot(p) : data[p][s] # NoTrx => data[p][s] \in Trx
  BY PageTypes
<1> QED BY <1>1 DEF DataOK

LEMMA QueuedFrame ==
  ASSUME TypeOK, QueuedOK, UNCHANGED <<data, cookie, pending>>,
         \A v \in Trx : batch'[v].of = batch[v].of,
         \A v \in Trx : pc[v] \in Finish => pc'[v] \in Finish /\ failed'[v] = failed[v],
         \A v \in Trx : pc[v] = "ended" => pc'[v] = "ended"
  PROVE  QueuedOK'
<1>1. pending \subseteq Trx
  BY DEF TypeOK
<1>2. \A v \in Trx : Stored(v)' = Stored(v)
  BY DEF Stored, HasSlot
<1> QED BY <1>1, <1>2 DEF QueuedOK, Finish

LEMMA WaitersFrame ==
  ASSUME WaitersOK, UNCHANGED cookie,
         \A p \in Page : page'[p].waiters = page[p].waiters,
         \A v \in Trx : pc'[v] \in {"check", "asleep", "woken"}
                          <=> pc[v] \in {"check", "asleep", "woken"}
  PROVE  WaitersOK'
<1>1. \A p \in Page : Waiters(p)' = Waiters(p)
  BY DEF Waiters
<1> QED BY <1>1 DEF WaitersOK

LEMMA SleepersFrame ==
  ASSUME TypeOK, SleepersOK, \A t \in Trx : SlotOK(t), UNCHANGED <<cookie, syncing>>,
         \A p \in Page : page'[p].state = page[p].state,
         \A v \in Trx : pc'[v] = "asleep" => pc[v] = "asleep"
  PROVE  SleepersOK'
<1>1. \A v \in Trx : pc[v] = "asleep" => cookie[v].page \in Page
  BY DEF SlotOK, HasSlot, Early
<1> QED BY <1>1 DEF SleepersOK

LEMMA FreeFrame ==
  ASSUME FreeExact, UNCHANGED data,
         \A p \in Page : page'[p].free = page[p].free /\ page'[p].ptr = page[p].ptr
  PROVE  FreeExact'
BY DEF FreeExact

LEMMA RememberedFrame ==
  ASSUME SleepersRemembered, UNCHANGED <<cookie, syncing>>,
         \A v \in Trx : pc'[v] = "asleep" => pc[v] = "asleep",
         \A v \in Trx : pc[v] \in {"woken", "check", "lock_sync"}
                          => pc'[v] \in {"woken", "check", "lock_sync"}
  PROVE  SleepersRemembered'
BY DEF SleepersRemembered, Sleepers

\* While a sync is going on, sleepers are remembered.
LEMMA RememberedSyncing ==
  ASSUME syncing' # NoPage
  PROVE  SleepersRemembered'
BY DEF SleepersRemembered

-----------------------------------------------------------------------------
(* The control structure of a page *)

PageRecord(p) == [free: 0 .. Size[p], ptr: 1 .. Size[p] + 1, waiters: Nat,
                  state: {"POOL", "ERROR", "DIRTY"}]

\* A page q changes in its control structure: of the others nothing.
LEMMA OnePage ==
  ASSUME TypeOK, NEW q \in Page, NEW r \in PageRecord(q), page' = [page EXCEPT ![q] = r]
  PROVE  /\ DOMAIN page' = Page /\ page'[q] = r
         /\ \A p \in Page \ {q} : page'[p] = page[p]
         /\ \A p \in Page : page'[p] \in PageRecord(p)
<1>1. DOMAIN page' = Page /\ page'[q] = r /\ \A p \in Page \ {q} : page'[p] = page[p]
  BY PageTypes
<1>2. \A p \in Page : page[p] \in PageRecord(p)
  BY PageTypes DEF PageRecord
<1> QED BY <1>1, <1>2

LEMMA SlotFacts ==
  ASSUME NEW p \in Page
  PROVE  /\ Size[p] \in Nat \ {0} /\ Slot(p) = 1 .. Size[p] /\ Slot(p) \subseteq Nat
         /\ IsFiniteSet(Slot(p)) /\ Cardinality(Slot(p)) = Size[p]
<1>1. Size[p] \in Nat \ {0} /\ Slot(p) = 1 .. Size[p]
  BY DEF Slot
<1>2. IsFiniteSet(1 .. Size[p]) /\ Cardinality(1 .. Size[p]) = Size[p]
  BY <1>1, FS_Interval
<1> QED BY <1>1, <1>2

\* One slot of one page changes.
SetSlot(q, s, x) == data' = [data EXCEPT ![q][s] = x]

LEMMA OneSlot ==
  ASSUME TypeOK, NEW q \in Page, NEW s \in Slot(q), NEW x \in Trx \union {NoTrx},
         SetSlot(q, s, x)
  PROVE  /\ DOMAIN data' = Page /\ \A p \in Page \ {q} : data'[p] = data[p]
         /\ \A p \in Page : data'[p] \in [Slot(p) -> Trx \union {NoTrx}]
         /\ \A p \in Page : \A y \in Slot(p) :
              data'[p][y] = IF p = q /\ y = s THEN x ELSE data[p][y]
<1>1. DOMAIN data = Page /\ \A p \in Page : data[p] \in [Slot(p) -> Trx \union {NoTrx}]
  BY PageTypes
<1>2. /\ DOMAIN data' = Page /\ \A p \in Page \ {q} : data'[p] = data[p]
      /\ data'[q] = [data[q] EXCEPT ![s] = x]
  BY <1>1 DEF SetSlot
<1>3. data'[q] \in [Slot(q) -> Trx \union {NoTrx}]
  BY <1>1, <1>2
<1>4. \A y \in Slot(q) : data'[q][y] = IF y = s THEN x ELSE data[q][y]
  BY <1>1, <1>2
<1> QED BY <1>1, <1>2, <1>3, <1>4

BatchRecord == [of: SUBSET Trx, count: Int, read: Int, asked: SUBSET Checkpoint,
                deleting: BOOLEAN]

\* One batch changes.
LEMMA OneBatch ==
  ASSUME TypeOK, NEW t \in Trx, NEW b \in BatchRecord, batch' = [batch EXCEPT ![t] = b]
  PROVE  /\ batch' \in [Trx -> BatchRecord]
         /\ batch'[t] = b /\ \A v \in Trx \ {t} : batch'[v] = batch[v]
<1>1. batch \in [Trx -> BatchRecord]
  BY DEF TypeOK, BatchRecord
<1> QED BY <1>1

\* One notification moves on.
LEMMA OneNotice ==
  ASSUME TypeOK, NEW t \in Trx, NEW n \in Checkpoint \union {Self},
         NEW x \in {"none", "asked", "flushed", "done"}, notice' = [notice EXCEPT ![<<t, n>>] = x]
  PROVE  /\ notice' \in [Notices -> {"none", "asked", "flushed", "done"}]
         /\ notice'[<<t, n>>] = x
         /\ \A v \in Trx, m \in Checkpoint \union {Self} :
              v # t \/ m # n => notice'[<<v, m>>] = notice[<<v, m>>]
<1>1. notice \in [Notices -> {"none", "asked", "flushed", "done"}] /\ <<t, n>> \in Notices
  BY DEF TypeOK, Notices
<1>2. notice' \in [Notices -> {"none", "asked", "flushed", "done"}] /\ notice'[<<t, n>>] = x
  BY <1>1
<1>3. ASSUME NEW v \in Trx, NEW m \in Checkpoint \union {Self}, v # t \/ m # n
      PROVE  notice'[<<v, m>>] = notice[<<v, m>>]
  <2>1. <<v, m>> \in Notices /\ <<v, m>> # <<t, n>>
    BY <1>3 DEF Notices
  <2> QED BY <1>1, <2>1
<1> QED BY <1>2, <1>3

\* The buffer is taken over.
Taken(b, o, c) == [b EXCEPT !.of = o, !.count = c]

LEMMA BatchTaken ==
  ASSUME NEW b \in BatchRecord, NEW o \in SUBSET Trx, NEW c \in Int
  PROVE
         LET r == Taken(b, o, c)
         IN  /\ r \in BatchRecord /\ r.of = o /\ r.count = c
             /\ r.read = b.read /\ r.asked = b.asked /\ r.deleting = b.deleting
BY DEF BatchRecord, Taken

\* One more engine is asked.
Asked(b, c, a) == [b EXCEPT !.count = c, !.asked = a]

LEMMA BatchAsked ==
  ASSUME NEW b \in BatchRecord, NEW a \in SUBSET Checkpoint, NEW c \in Int
  PROVE
         LET r == Asked(b, c, a)
         IN  /\ r \in BatchRecord /\ r.of = b.of /\ r.count = c
             /\ r.read = b.read /\ r.asked = a /\ r.deleting = b.deleting
BY DEF BatchRecord, Asked

\* One notification is counted down.
Counted(b, c, d) == [b EXCEPT !.count = c, !.deleting = d]

LEMMA BatchCounted ==
  ASSUME NEW b \in BatchRecord, NEW d \in BOOLEAN, NEW c \in Int
  PROVE
         LET r == Counted(b, c, d)
         IN  /\ r \in BatchRecord /\ r.of = b.of /\ r.count = c
             /\ r.read = b.read /\ r.asked = b.asked /\ r.deleting = d
BY DEF BatchRecord, Counted

\* The count is read.
ReadCount(b, c) == [b EXCEPT !.read = c]

LEMMA BatchRead ==
  ASSUME NEW b \in BatchRecord, NEW c \in Int
  PROVE
         LET r == ReadCount(b, c)
         IN  /\ r \in BatchRecord /\ r.of = b.of /\ r.count = b.count
             /\ r.read = c /\ r.asked = b.asked /\ r.deleting = b.deleting
BY DEF BatchRecord, ReadCount

\* An entry is deleted.
Without(b, o) == [b EXCEPT !.of = o]

LEMMA BatchDeleted ==
  ASSUME NEW b \in BatchRecord, NEW o \in SUBSET Trx
  PROVE
         LET r == Without(b, o)
         IN  /\ r \in BatchRecord /\ r.of = o /\ r.count = b.count
             /\ r.read = b.read /\ r.asked = b.asked /\ r.deleting = b.deleting
BY DEF BatchRecord, Without

\* The slot that log_one_transaction() finds.
LEMMA StoreFacts ==
  ASSUME IInv, NEW t \in Trx, Store(t)
  PROVE  LET s == FirstEmpty(active) IN
         /\ lockActive = t /\ active \in Page /\ page[active].free > 0
         /\ s \in Slot(active) /\ data[active][s] = NoTrx
         /\ \A x \in Slot(active) : data[active][x] = NoTrx => s <= x
<1> DEFINE s == FirstEmpty(active)
           empty == {x \in Slot(active) : data[active][x] = NoTrx}
<1>1. lockActive = t /\ active \in Page /\ page[active].free > 0
  BY PageTypes DEF IInv, Store, SessionOK, LocksOK, ActiveOK
<1>2. /\ page[active].free = Cardinality(empty) /\ \A x \in empty : x >= page[active].ptr
      /\ IsFiniteSet(empty) /\ empty \subseteq Nat
  <2>1. Slot(active) \subseteq Nat /\ IsFiniteSet(Slot(active))
    BY <1>1, SlotFacts
  <2> QED BY <1>1, <2>1, FS_Subset DEF IInv, FreeExact
<1>3. empty = {x \in Slot(active) : x >= page[active].ptr /\ data[active][x] = NoTrx}
  BY <1>2
<1>4. empty # {}
  BY <1>1, <1>2, FS_EmptySet
<1>5. s = Min(empty)
  BY <1>3 DEF FirstEmpty
<1> HIDE DEF s, empty
<1>6. s \in empty /\ \A x \in empty : s <= x
  BY <1>2, <1>4, <1>5, MinFacts
<1> QED BY <1>1, <1>6 DEF s, empty

\* log_one_transaction() takes LOCK_active.
LEMMA LockActiveStep ==
  ASSUME IInv, NEW t \in Trx, LockActive(t)
  PROVE  IInv'
<1>1. UNCHANGED <<data, disk, page, active, syncing, pool, lockSync, lockPool, cookie, failed, pending, batch, notice, decrement, durable, errors>>
  BY DEF LockActive, pageVars, locks, session, checkpoint
<1>2. /\ pc[t] = "start" /\ pc'[t] \in {"active_wait", "pool", "store"} /\ pc' \in [Trx -> Place]
      /\ \A v \in Trx \ {t} : pc'[v] = pc[v]
      /\ IF pc'[t] = "active_wait" THEN lockActive' = lockActive ELSE lockActive' = t
      /\ lockActive = NoTrx
      /\ pc'[t] = "pool" => active = NoPage
      /\ pc'[t] = "store" => active # NoPage /\ page[active].free # 0
  BY SessionTypes DEF IInv, LockActive, Goto, Place
<1>T. TypeOK'
  BY <1>1, <1>2, SessionTypes, ZenonT(40) DEF IInv, TypeOK
<1>L. \A v \in Trx : LocksOK(v)'
  BY <1>1, <1>2, SessionTypes DEF IInv, SessionOK, LocksOK
<1>A. \A v \in Trx : ActiveOK(v)'
  BY <1>1, <1>2, SessionTypes, PageTypes DEF IInv, SessionOK, ActiveOK, LocksOK
<1>S. \A v \in Trx : SyncOK(v)'
  BY <1>1, <1>2, SessionTypes DEF IInv, SessionOK, SyncOK, Syncer, InSync
<1>B. \A v \in Trx : SlotOK(v)'
  BY <1>1, <1>2, SlotFrame DEF IInv, SessionOK, Early, Finish
<1>C. \A v \in Trx : FailedOK(v)'
  BY <1>1, <1>2, SessionTypes DEF IInv, SessionOK, FailedOK
<1>Y. SomeSyncer'
  BY <1>1, <1>2 DEF IInv, SomeSyncer, Syncer
<1>P. PagesOK'
  BY <1>1, <1>2, PagesFrame DEF IInv, InSync
<1>D. DataOK'
  BY <1>1, <1>2, DataFrame DEF IInv, Early
<1>Q. QueuedOK'
  BY <1>1, <1>2, QueuedFrame DEF IInv, Finish
<1>W. WaitersOK'
  BY <1>1, <1>2, WaitersFrame DEF IInv
<1>Z. SleepersOK'
  BY <1>1, <1>2, SleepersFrame DEF IInv, SessionOK
<1>N. NotifyOK'
  BY <1>1, <1>2 DEF IInv, NotifyOK
<1>F. FreeExact'
  BY <1>1, <1>2, FreeFrame DEF IInv
<1>R. SleepersRemembered'
  BY <1>1, <1>2, RememberedFrame DEF IInv
<1> QED BY <1>T, <1>L, <1>A, <1>S, <1>B, <1>C, <1>Y, <1>P, <1>D, <1>Q, <1>W, <1>Z, <1>N, <1>F, <1>R DEF IInv, SessionOK

\* get_active_from_pool()
LEMMA GetActiveFromPoolStep ==
  ASSUME IInv, NEW t \in Trx, GetActiveFromPool(t)
  PROVE  IInv'
<1>1. UNCHANGED <<data, disk, page, syncing, lockActive, lockSync, cookie, failed, pending, batch, notice, decrement, durable, errors>>
  BY DEF GetActiveFromPool, pageVars, locks, session, checkpoint
<1>2. /\ pc[t] = "pool" /\ pc'[t] \in {"store", "overflow"} /\ pc' \in [Trx -> Place]
      /\ \A v \in Trx \ {t} : pc'[v] = pc[v]
      /\ lockPool = NoTrx
      /\ pc'[t] = "overflow" => lockPool' = t /\ UNCHANGED <<active, pool>>
      /\ pc'[t] = "store" => /\ BestInPool # 0 /\ UNCHANGED lockPool
                             /\ active' = pool[BestInPool] /\ pool' = RemoveAt(pool, BestInPool)
  BY SessionTypes DEF IInv, GetActiveFromPool, Goto, Place
<1>3. lockActive = t /\ active = NoPage /\ \A v \in Trx : pc[v] # "clear"
  BY <1>2, SyncerFacts DEF IInv, SessionOK, LocksOK, ActiveOK, SyncOK, Syncer
<1>4. ASSUME pc'[t] = "store"
      PROVE  /\ active' \in Page /\ page[active'].free > 0 /\ In(pool, active')
             /\ pool' \in Seq(Page) /\ SeqInj(pool')
             /\ \A p : In(pool', p) <=> In(pool, p) /\ p # active'
  <2>1. BestInPool \in 1 .. Len(pool) /\ Usable(pool[BestInPool])
    BY <1>2, <1>4, BestFacts DEF IInv
  <2>2. pool \in Seq(Page) /\ SeqInj(pool)
    BY PageTypes DEF IInv
  <2>3. active' \in Page /\ page[active'].free > 0 /\ In(pool, active')
    BY <1>2, <1>4, <2>1, <2>2 DEF Usable, In
  <2> QED BY <1>2, <1>4, <2>1, <2>2, <2>3, RemoveAtIn
<1>T. TypeOK'
  <2>1. /\ active' \in Page \union {NoPage} /\ pool' \in Seq(Page) /\ IsInjective(pool')
        /\ lockPool' \in Trx \union {NoTrx}
    BY <1>2, <1>4, InjectiveSeq, PageTypes, SessionTypes DEF IInv, TypeOK
  <2> QED BY <1>1, <1>2, <2>1 DEF IInv, TypeOK
<1>L. \A v \in Trx : LocksOK(v)'
  BY <1>1, <1>2, SessionTypes DEF IInv, SessionOK, LocksOK
<1>A. \A v \in Trx : ActiveOK(v)'
  BY <1>1, <1>2, <1>3, <1>4, SessionTypes, SyncerFacts DEF IInv, SessionOK, ActiveOK, LocksOK
<1>S. \A v \in Trx : SyncOK(v)'
  <2>1. \A v \in Trx : pc'[v] \in InSync => pc[v] \in InSync /\ ~In(pool, syncing)
    BY <1>2 DEF IInv, SessionOK, SyncOK, InSync
  <2>2. \A v \in Trx : pc'[v] \in InSync => syncing # active' /\ ~In(pool', syncing)
    BY <1>2, <1>4, <2>1 DEF IInv, SessionOK, SyncOK, InSync
  <2> QED BY <1>1, <1>2, <1>3, <2>2 DEF IInv, SessionOK, SyncOK, Syncer, InSync
<1>B. \A v \in Trx : SlotOK(v)'
  BY <1>1, <1>2, SlotFrame DEF IInv, SessionOK, Early, Finish
<1>C. \A v \in Trx : FailedOK(v)'
  BY <1>1, <1>2, SessionTypes DEF IInv, SessionOK, FailedOK
<1>Y. SomeSyncer'
  BY <1>1, <1>2 DEF IInv, SomeSyncer, Syncer
<1>P. PagesOK'
  <2>1. \A p \in Page : BeingSynced(p) => BeingSynced(p)'
    BY <1>1, <1>2 DEF BeingSynced, InSync
  <2>2. CASE pc'[t] = "overflow"
    BY <1>1, <1>2, <2>1, <2>2 DEF IInv, PagesOK
  <2>3. CASE pc'[t] = "store"
    BY <1>1, <1>2, <1>3, <1>4, <2>1, <2>3, SyncerFacts DEF IInv, PagesOK
  <2> QED BY <1>2, <2>2, <2>3
<1>D. DataOK'
  BY <1>1, <1>2, DataFrame DEF IInv, Early
<1>Q. QueuedOK'
  BY <1>1, <1>2, QueuedFrame DEF IInv, Finish
<1>W. WaitersOK'
  BY <1>1, <1>2, WaitersFrame DEF IInv
<1>Z. SleepersOK'
  BY <1>1, <1>2, SleepersFrame DEF IInv, SessionOK
<1>N. NotifyOK'
  BY <1>1, <1>2 DEF IInv, NotifyOK
<1>F. FreeExact'
  BY <1>1, <1>2, FreeFrame DEF IInv
<1>R. SleepersRemembered'
  BY <1>1, <1>2, RememberedFrame DEF IInv
<1> QED BY <1>T, <1>L, <1>A, <1>S, <1>B, <1>C, <1>Y, <1>P, <1>D, <1>Q, <1>W, <1>Z, <1>N, <1>F, <1>R DEF IInv, SessionOK

\* overflow()
LEMMA OverflowStep ==
  ASSUME IInv, NEW t \in Trx, Overflow(t)
  PROVE  IInv'
<1>1. UNCHANGED <<data, disk, page, active, syncing, pool, lockActive, lockSync, cookie, failed, pending, batch, notice, decrement, durable, errors>>
  BY DEF Overflow, pageVars, locks, session, checkpoint
<1>2. /\ pc[t] = "overflow" /\ pc'[t] = "pool_wait" /\ pc' \in [Trx -> Place]
      /\ \A v \in Trx \ {t} : pc'[v] = pc[v]
      /\ lockPool' = NoTrx
  BY SessionTypes DEF IInv, Overflow, Goto, Place
<1>T. TypeOK'
  BY <1>1, <1>2, SessionTypes DEF IInv, TypeOK
<1>L. \A v \in Trx : LocksOK(v)'
  BY <1>1, <1>2, SessionTypes DEF IInv, SessionOK, LocksOK
<1>A. \A v \in Trx : ActiveOK(v)'
  BY <1>1, <1>2, SessionTypes DEF IInv, SessionOK, ActiveOK, LocksOK
<1>S. \A v \in Trx : SyncOK(v)'
  BY <1>1, <1>2, SessionTypes DEF IInv, SessionOK, SyncOK, Syncer, InSync
<1>B. \A v \in Trx : SlotOK(v)'
  BY <1>1, <1>2, SlotFrame DEF IInv, SessionOK, Early, Finish
<1>C. \A v \in Trx : FailedOK(v)'
  BY <1>1, <1>2, SessionTypes DEF IInv, SessionOK, FailedOK
<1>Y. SomeSyncer'
  BY <1>1, <1>2 DEF IInv, SomeSyncer, Syncer
<1>P. PagesOK'
  BY <1>1, <1>2, PagesFrame DEF IInv, InSync
<1>D. DataOK'
  BY <1>1, <1>2, DataFrame DEF IInv, Early
<1>Q. QueuedOK'
  BY <1>1, <1>2, QueuedFrame DEF IInv, Finish
<1>W. WaitersOK'
  BY <1>1, <1>2, WaitersFrame DEF IInv
<1>Z. SleepersOK'
  BY <1>1, <1>2, SleepersFrame DEF IInv, SessionOK
<1>N. NotifyOK'
  BY <1>1, <1>2 DEF IInv, NotifyOK
<1>F. FreeExact'
  BY <1>1, <1>2, FreeFrame DEF IInv
<1>R. SleepersRemembered'
  BY <1>1, <1>2, RememberedFrame DEF IInv
<1> QED BY <1>T, <1>L, <1>A, <1>S, <1>B, <1>C, <1>Y, <1>P, <1>D, <1>Q, <1>W, <1>Z, <1>N, <1>F, <1>R DEF IInv, SessionOK

\* The XID is stored in the first empty slot, which exists.
LEMMA StoreStep ==
  ASSUME IInv, NEW t \in Trx, Store(t)
  PROVE  IInv'
<1>1. UNCHANGED <<disk, active, syncing, pool, lockActive, lockSync, lockPool, failed, pending, batch, notice, decrement, durable, errors>>
  BY DEF Store, pageVars, locks, session, checkpoint
<1> DEFINE s == FirstEmpty(active)
           r == [page[active] EXCEPT !.ptr = s + 1, !.free = page[active].free - 1, !.state = "DIRTY"]
<1>2. /\ pc[t] = "store" /\ pc'[t] = "lock_sync" /\ pc' \in [Trx -> Place]
      /\ \A v \in Trx \ {t} : pc'[v] = pc[v]
      /\ cookie' = [cookie EXCEPT ![t] = [page |-> active, slot |-> s]]
      /\ data' = [data EXCEPT ![active][s] = t]
      /\ page' = [page EXCEPT ![active] = r]
  BY SessionTypes, ZenonT(40) DEF IInv, Store, Goto, Place
<1>3. lockActive = t /\ active \in Page /\ page[active].free > 0
  BY StoreFacts
<1> DEFINE empty == {x \in Slot(active) : data[active][x] = NoTrx}
<1>4. /\ page[active].free = Cardinality(empty) /\ \A x \in empty : x >= page[active].ptr
      /\ IsFiniteSet(empty) /\ empty \subseteq Nat
  <2>1. Slot(active) \subseteq Nat /\ IsFiniteSet(Slot(active))
    BY <1>3, SlotFacts
  <2> QED BY <1>3, <2>1, FS_Subset DEF IInv, FreeExact
<1>5. s \in empty /\ \A x \in empty : s <= x
  BY StoreFacts
<1>6. s \in Slot(active) /\ s \in Nat /\ s >= 1 /\ s <= Size[active] /\ data[active][s] = NoTrx
  BY <1>3, <1>5, PageTypes DEF IInv, Slot
<1> HIDE DEF s
<1>7. /\ r \in PageRecord(active) /\ r.waiters = page[active].waiters /\ r.state = "DIRTY"
      /\ r.free = page[active].free - 1 /\ r.ptr = s + 1
  <2>1. page[active] \in PageRecord(active)
    BY <1>3, PageTypes DEF IInv, PageRecord
  <2>2. page[active].free \in 0 .. Size[active] /\ Size[active] \in Nat
    BY <1>3, PageTypes DEF IInv
  <2>3. page[active].free - 1 \in 0 .. Size[active] /\ s + 1 \in 1 .. Size[active] + 1
    BY <1>3, <1>6, <2>2
  <2> QED BY <2>1, <2>3 DEF PageRecord
<1> HIDE DEF r
<1>8. /\ DOMAIN page' = Page /\ \A p \in Page : page'[p] \in PageRecord(p)
      /\ page'[active] = r /\ \A p \in Page \ {active} : page'[p] = page[p]
  BY <1>2, <1>3, <1>7, OnePage DEF IInv
<1>9. /\ DOMAIN data' = Page /\ \A p \in Page \ {active} : data'[p] = data[p]
      /\ \A p \in Page : data'[p] \in [Slot(p) -> Trx \union {NoTrx}]
      /\ \A p \in Page : \A x \in Slot(p) :
           data'[p][x] = IF p = active /\ x = s THEN t ELSE data[p][x]
  <2>1. TypeOK /\ SetSlot(active, s, t) /\ t \in Trx \union {NoTrx}
    BY <1>2 DEF IInv, SetSlot
  <2>2. active \in Page /\ s \in Slot(active)
    BY <1>3, <1>6
  <2> HIDE DEF empty
  <2> QED BY <2>1, <2>2, OneSlot
<1>10. /\ cookie' \in [Trx -> [page: Page \union {NoPage}, slot: Nat]]
       /\ cookie'[t].page = active /\ cookie'[t].slot = s
       /\ \A v \in Trx \ {t} : cookie'[v] = cookie[v]
  BY <1>2, <1>3, <1>6, SessionTypes DEF IInv
<1>11. \A v \in Trx \ {t} : (HasSlot(v) => HasSlot(v)') /\ (Stored(v) => Stored(v)')
  <2>1. NoTrx \notin Trx /\ \A v \in Trx : Stored(v) => cookie[v].page # active \/ cookie[v].slot # s
    BY <1>6 DEF Stored
  <2> QED BY <1>9, <1>10, <2>1 DEF Stored, HasSlot
<1> HIDE DEF empty
<1>T. TypeOK'
  <2>1. DOMAIN page' = Page /\ \A p \in Page : page'[p] \in PageRecord(p)
    BY <1>8
  <2>2. DOMAIN data' = Page /\ \A p \in Page : data'[p] \in [Slot(p) -> Trx \union {NoTrx}]
    BY <1>9
  <2>3. pc' \in [Trx -> Place] /\ cookie' \in [Trx -> [page: Page \union {NoPage}, slot: Nat]]
    BY <1>2, <1>10
  <2> QED BY <1>1, <2>1, <2>2, <2>3 DEF IInv, TypeOK, PageRecord
<1>L. \A v \in Trx : LocksOK(v)'
  BY <1>1, <1>2, SessionTypes DEF IInv, SessionOK, LocksOK
<1>A. \A v \in Trx : ActiveOK(v)'
  BY <1>1, <1>2, <1>3, <1>10, SessionTypes DEF IInv, SessionOK, ActiveOK, LocksOK
<1>S. \A v \in Trx : SyncOK(v)'
  BY <1>1, <1>2, <1>10, SessionTypes DEF IInv, SessionOK, SyncOK, Syncer, InSync
<1>B. \A v \in Trx : SlotOK(v)'
  <2>1. HasSlot(t)' /\ Stored(t)'
    BY <1>3, <1>6, <1>9, <1>10 DEF HasSlot, Stored
  <2> QED BY <1>2, <1>11, <2>1 DEF IInv, SessionOK, SlotOK
<1>C. \A v \in Trx : FailedOK(v)'
  BY <1>1, <1>2, SessionTypes DEF IInv, SessionOK, FailedOK
<1>Y. SomeSyncer'
  BY <1>1, <1>2 DEF IInv, SomeSyncer, Syncer
<1>P. PagesOK'
  <2>1. \A p \in Page : BeingSynced(p)' = BeingSynced(p)
    BY <1>1, <1>2 DEF BeingSynced, InSync
  <2> QED BY <1>1, <1>3, <1>8, <2>1 DEF IInv, PagesOK
<1>D. DataOK'
  <2>1. \A p \in Page : \A x \in Slot(p) :
          data[p][x] # NoTrx => data[p][x] \in Trx /\ data[p][x] # t
    <3>1. \A p \in Page : \A x \in Slot(p) : data[p][x] # NoTrx => data[p][x] \in Trx
      BY PageTypes DEF IInv
    <3>2. \A p \in Page : \A x \in Slot(p) : data[p][x] # NoTrx => pc[data[p][x]] \notin Early
      BY DEF IInv, DataOK
    <3> QED BY <1>2, <3>1, <3>2 DEF Early
  <2>2. cookie'[t] = [page |-> active, slot |-> s]
    BY <1>2, SessionTypes DEF IInv
  <2> QED BY <1>2, <1>9, <1>10, <2>1, <2>2 DEF IInv, DataOK, Early
<1>Q. QueuedOK'
  <2>1. pending \subseteq Trx /\ \A u \in pending : u # t /\ pc'[u] = pc[u]
    BY <1>2 DEF IInv, TypeOK, QueuedOK
  <2>2. \A v, u \in Trx : u \in batch[v].of => u # t /\ v # t /\ pc'[u] = pc[u] /\ pc'[v] = pc[v]
    BY <1>2 DEF IInv, QueuedOK
  <2> QED BY <1>1, <1>11, <2>1, <2>2 DEF IInv, QueuedOK
<1>W. WaitersOK'
  <2>1. \A p \in Page : page'[p].waiters = page[p].waiters
    BY <1>7, <1>8
  <2>2. \A p \in Page : Waiters(p)' = Waiters(p)
    BY <1>2, <1>10 DEF Waiters
  <2> QED BY <2>1, <2>2 DEF IInv, WaitersOK
<1>Z. SleepersOK'
  <2>1. \A p \in Page : page[p].state = "DIRTY" => page'[p].state = "DIRTY"
    BY <1>7, <1>8
  <2> QED BY <1>1, <1>2, <1>10, <2>1, CookieFacts DEF IInv, SleepersOK, Early
<1>N. NotifyOK'
  BY <1>1, <1>2 DEF IInv, NotifyOK
<1>F. FreeExact'
  <2>1. \A p \in Page \ {active} : page'[p] = page[p] /\ data'[p] = data[p]
    BY <1>8, <1>9
  <2>2. {x \in Slot(active) : data'[active][x] = NoTrx} = empty \ {s}
    BY <1>3, <1>9 DEF empty
  <2>3. Cardinality(empty \ {s}) = Cardinality(empty) - 1
    BY <1>4, <1>5, FS_RemoveElement
  <2>4. page'[active].free = Cardinality(empty \ {s})
    BY <1>4, <1>7, <1>8, <2>3
  <2>5. \A x \in empty \ {s} : x >= page'[active].ptr
    BY <1>4, <1>5, <1>6, <1>7, <1>8
  <2>6. ASSUME NEW p \in Page
        PROVE  LET e == {x \in Slot(p) : data'[p][x] = NoTrx} IN
               page'[p].free = Cardinality(e) /\ \A x \in e : x >= page'[p].ptr
    <3>1. CASE p = active
      BY <2>2, <2>4, <2>5, <3>1
    <3>2. CASE p # active
      BY <2>1, <3>2 DEF IInv, FreeExact
    <3> QED BY <3>1, <3>2
  <2> QED BY <1>1, <2>6 DEF FreeExact
<1>R. SleepersRemembered'
  <2>1. \A p \in Page : Sleepers(p)' = Sleepers(p)
    BY <1>2, <1>10 DEF Sleepers
  <2> QED BY <1>1, <1>2, <1>10, <2>1 DEF IInv, SleepersRemembered
<1> QED BY <1>T, <1>L, <1>A, <1>S, <1>B, <1>C, <1>Y, <1>P, <1>D, <1>Q, <1>W, <1>Z, <1>N, <1>F, <1>R DEF IInv, SessionOK

\* LOCK_sync is taken
LEMMA LockSyncStep ==
  ASSUME IInv, NEW t \in Trx, LockSync(t)
  PROVE  IInv'
<1>1. UNCHANGED <<data, disk, page, active, pool, lockPool, cookie, failed, pending, batch, notice, decrement, durable, errors>>
  BY DEF LockSync, pageVars, locks, session, checkpoint
<1>2. /\ pc[t] = "lock_sync" /\ pc'[t] \in {"clear", "register"} /\ pc' \in [Trx -> Place]
      /\ \A v \in Trx \ {t} : pc'[v] = pc[v]
      /\ lockSync = NoTrx
      /\ pc'[t] = "clear" => /\ syncing = NoPage /\ syncing' = cookie[t].page
                             /\ UNCHANGED <<lockActive, lockSync>>
      /\ pc'[t] = "register" => /\ syncing # NoPage /\ syncing' = syncing
                                /\ lockSync' = t /\ lockActive' = NoTrx
  BY SessionTypes DEF IInv, LockSync, Goto, Place
<1>3. lockActive = t /\ active = cookie[t].page /\ cookie[t].page \in Page /\ NoPage \notin Page
  BY <1>2, CookieFacts, SyncerFacts DEF IInv, SessionOK, LocksOK, ActiveOK, Early
<1>4. pc'[t] = "clear" => \A v \in Trx : pc[v] \notin Syncer
  BY <1>2, SyncerFacts
<1>T. TypeOK'
  <2>1. /\ syncing' \in Page \union {NoPage} /\ lockActive' \in Trx \union {NoTrx}
        /\ lockSync' \in Trx \union {NoTrx}
    BY <1>2, <1>3, PageTypes, SessionTypes DEF IInv
  <2> QED BY <1>1, <1>2, <2>1 DEF IInv, TypeOK
<1>L. \A v \in Trx : LocksOK(v)'
  BY <1>1, <1>2, <1>3, SessionTypes DEF IInv, SessionOK, LocksOK
<1>A. \A v \in Trx : ActiveOK(v)'
  BY <1>1, <1>2, <1>3, SessionTypes DEF IInv, SessionOK, ActiveOK, LocksOK
<1>S. \A v \in Trx : SyncOK(v)'
  BY <1>1, <1>2, <1>3, <1>4, SessionTypes DEF IInv, SessionOK, SyncOK, Syncer, InSync
<1>B. \A v \in Trx : SlotOK(v)'
  BY <1>1, <1>2, SlotFrame DEF IInv, SessionOK, Early, Finish
<1>C. \A v \in Trx : FailedOK(v)'
  BY <1>1, <1>2, SessionTypes DEF IInv, SessionOK, FailedOK
<1>Y. SomeSyncer'
  BY <1>1, <1>2 DEF IInv, SomeSyncer, Syncer
<1>P. PagesOK'
  <2>1. \A p \in Page : BeingSynced(p) => BeingSynced(p)'
    BY <1>1, <1>2, <1>4 DEF BeingSynced, InSync, Syncer
  <2> QED BY <1>1, <2>1 DEF IInv, PagesOK
<1>D. DataOK'
  BY <1>1, <1>2, DataFrame DEF IInv, Early
<1>Q. QueuedOK'
  BY <1>1, <1>2, QueuedFrame DEF IInv, Finish
<1>W. WaitersOK'
  BY <1>1, <1>2, WaitersFrame DEF IInv
<1>Z. SleepersOK'
  BY <1>1, <1>2, <1>3, CookieFacts DEF IInv, SleepersOK, Early
<1>N. NotifyOK'
  BY <1>1, <1>2 DEF IInv, NotifyOK
<1>F. FreeExact'
  BY <1>1, <1>2, FreeFrame DEF IInv
<1>R. SleepersRemembered'
  BY <1>2, <1>3, RememberedSyncing
<1> QED BY <1>T, <1>L, <1>A, <1>S, <1>B, <1>C, <1>Y, <1>P, <1>D, <1>Q, <1>W, <1>Z, <1>N, <1>F, <1>R DEF IInv, SessionOK

\* One waiter more
LEMMA RegisterStep ==
  ASSUME IInv, NEW t \in Trx, Register(t)
  PROVE  IInv'
<1>1. UNCHANGED <<data, disk, active, syncing, pool, lockActive, lockSync, lockPool, cookie, failed, pending, batch, notice, decrement, durable, errors>>
  BY DEF Register, pageVars, locks, session, checkpoint
<1>2. /\ pc[t] = "register" /\ pc'[t] = "check" /\ pc' \in [Trx -> Place]
      /\ \A v \in Trx \ {t} : pc'[v] = pc[v]
  BY SessionTypes DEF IInv, Register, Goto, Place
<1>3. cookie[t].page \in Page /\ syncing # NoPage
  BY <1>2, CookieFacts DEF IInv, SessionOK, SyncOK, Early
<1> DEFINE q == cookie[t].page
           r == [page[q] EXCEPT !.waiters = page[q].waiters + 1]
<1>4. /\ page' = [page EXCEPT ![q] = r]
      /\ r \in PageRecord(q) /\ r.waiters = page[q].waiters + 1
      /\ r.free = page[q].free /\ r.ptr = page[q].ptr /\ r.state = page[q].state
  <2>1. page[q] \in PageRecord(q)
    BY <1>3, PageTypes DEF IInv, PageRecord
  <2>2. page' = [page EXCEPT ![q] = r]
    BY DEF Register
  <2> QED BY <2>1, <2>2 DEF PageRecord
<1> HIDE DEF q, r
<1>5. /\ DOMAIN page' = Page /\ \A p \in Page : page'[p] \in PageRecord(p)
      /\ \A p \in Page : /\ page'[p].free = page[p].free /\ page'[p].ptr = page[p].ptr
                         /\ page'[p].state = page[p].state
                         /\ page'[p].waiters = IF p = q THEN page[p].waiters + 1
                                               ELSE page[p].waiters
  BY <1>3, <1>4, OnePage DEF IInv, q
<1>T. TypeOK'
  BY <1>1, <1>2, <1>5 DEF IInv, TypeOK, PageRecord
<1>L. \A v \in Trx : LocksOK(v)'
  BY <1>1, <1>2, SessionTypes DEF IInv, SessionOK, LocksOK
<1>A. \A v \in Trx : ActiveOK(v)'
  BY <1>1, <1>2, <1>5, SessionTypes, PageTypes DEF IInv, SessionOK, ActiveOK
<1>S. \A v \in Trx : SyncOK(v)'
  BY <1>1, <1>2, SessionTypes DEF IInv, SessionOK, SyncOK, Syncer, InSync
<1>B. \A v \in Trx : SlotOK(v)'
  BY <1>1, <1>2, SlotFrame DEF IInv, SessionOK, Early, Finish
<1>C. \A v \in Trx : FailedOK(v)'
  BY <1>1, <1>2, SessionTypes DEF IInv, SessionOK, FailedOK
<1>Y. SomeSyncer'
  BY <1>1, <1>2 DEF IInv, SomeSyncer, Syncer
<1>P. PagesOK'
  BY <1>1, <1>2, <1>5, PagesFrame DEF IInv, InSync
<1>D. DataOK'
  BY <1>1, <1>2, DataFrame DEF IInv, Early
<1>Q. QueuedOK'
  BY <1>1, <1>2, QueuedFrame DEF IInv, Finish
<1>W. WaitersOK'
  <2>1. IsFiniteSet(Waiters(q)) /\ t \notin Waiters(q)
    BY <1>2, FS_Subset DEF Waiters
  <2>2. \A p \in Page : Waiters(p)' = IF p = q THEN Waiters(p) \cup {t} ELSE Waiters(p)
    BY <1>1, <1>2 DEF Waiters, q
  <2>3. Cardinality(Waiters(q) \cup {t}) = Cardinality(Waiters(q)) + 1
    BY <2>1, FS_AddElement
  <2> QED BY <1>5, <2>2, <2>3 DEF IInv, WaitersOK
<1>Z. SleepersOK'
  BY <1>1, <1>2, <1>5, SleepersFrame DEF IInv, SessionOK
<1>N. NotifyOK'
  BY <1>1, <1>2 DEF IInv, NotifyOK
<1>F. FreeExact'
  BY <1>1, <1>5, FreeFrame DEF IInv
<1>R. SleepersRemembered'
  BY <1>1, <1>3, RememberedSyncing
<1> QED BY <1>T, <1>L, <1>A, <1>S, <1>B, <1>C, <1>Y, <1>P, <1>D, <1>Q, <1>W, <1>Z, <1>N, <1>F, <1>R DEF IInv, SessionOK

\* The wait for the page to be synced
LEMMA CheckStep ==
  ASSUME IInv, NEW t \in Trx, Check(t)
  PROVE  IInv'
<1>1. UNCHANGED <<data, disk, active, pool, lockActive, lockPool, cookie, pending, batch, notice, decrement, durable, errors>>
  BY DEF Check, pageVars, locks, session, checkpoint
<1> DEFINE q == cookie[t].page
           r == [page[q] EXCEPT !.waiters = page[q].waiters - 1]
<1>2. /\ pc[t] = "check" /\ lockSync = t /\ lockSync' = NoTrx
      /\ q \in Page /\ t \in Waiters(q) /\ NoPage \notin Page
  BY CookieFacts, SyncerFacts DEF IInv, Check, Early, Waiters
<1>3. /\ pc'[t] \in {"asleep", "clear", "logged"} /\ pc' \in [Trx -> Place]
      /\ \A v \in Trx \ {t} : pc'[v] = pc[v] \/ (pc[v] = "pool_wait" /\ pc'[v] = "pool")
  BY <1>2, SessionTypes DEF IInv, Check, Goto, SignalPool, Place
<1>4. IsFiniteSet(Waiters(q)) /\ Cardinality(Waiters(q)) \in Nat \ {0}
  BY <1>2, FS_Subset, FS_CardinalityType, FS_EmptySet DEF Waiters
<1>5. page[q].waiters \in Nat \ {0}
  BY <1>2, <1>4 DEF IInv, WaitersOK
<1>6. /\ pc'[t] = "asleep" => /\ page[q].state = "DIRTY" /\ syncing # NoPage
                              /\ UNCHANGED <<page, syncing, failed>>
      /\ pc'[t] = "clear" => /\ page[q].state = "DIRTY" /\ syncing = NoPage /\ syncing' = q
                             /\ ~failed'[t]
      /\ pc'[t] = "logged" => page[q].state # "DIRTY" /\ UNCHANGED syncing
      /\ failed' \in [Trx -> BOOLEAN] /\ \A v \in Trx \ {t} : failed'[v] = failed[v]
  BY <1>2, SessionTypes, Zenon DEF IInv, Check, Goto, SignalPool
<1>7. /\ pc'[t] # "asleep" => page' = [page EXCEPT ![q] = r]
      /\ r \in PageRecord(q) /\ r.waiters = page[q].waiters - 1
      /\ r.free = page[q].free /\ r.ptr = page[q].ptr /\ r.state = page[q].state
  <2>1. page[q] \in PageRecord(q)
    BY <1>2, PageTypes DEF IInv, PageRecord
  <2>2. pc'[t] # "asleep" => page' = [page EXCEPT ![q] = r]
    BY SessionTypes DEF IInv, Check, Goto
  <2> QED BY <1>5, <2>1, <2>2 DEF PageRecord
<1>8. /\ DOMAIN page' = Page /\ \A p \in Page : page'[p] \in PageRecord(p)
      /\ \A p \in Page : /\ page'[p].free = page[p].free /\ page'[p].ptr = page[p].ptr
                         /\ page'[p].state = page[p].state
                         /\ page'[p].waiters = IF p = q /\ pc'[t] # "asleep"
                                               THEN page[p].waiters - 1 ELSE page[p].waiters
  <2> HIDE DEF r
  <2>1. CASE pc'[t] = "asleep"
    BY <1>6, <2>1, PageTypes DEF IInv, PageRecord
  <2>2. CASE pc'[t] # "asleep"
    <3>1. r \in PageRecord(q) /\ page' = [page EXCEPT ![q] = r]
      BY <1>7, <2>2
    <3> QED BY <1>2, <1>7, <2>2, <3>1, OnePage DEF IInv
  <2> QED BY <2>1, <2>2
<1> HIDE DEF q, r
<1>9. pc'[t] = "clear" => q = active /\ \A v \in Trx : pc[v] \notin Syncer
  BY <1>2, <1>6, SyncerFacts DEF IInv, PagesOK, BeingSynced
<1>T. TypeOK'
  <2>1. /\ syncing' \in Page \union {NoPage} /\ lockSync' \in Trx \union {NoTrx}
        /\ failed' \in [Trx -> BOOLEAN]
    BY <1>2, <1>3, <1>6, PageTypes DEF IInv
  <2>2. DOMAIN page' = Page /\ \A p \in Page : page'[p] \in PageRecord(p)
    BY <1>8
  <2> QED BY <1>1, <1>3, <2>1, <2>2 DEF IInv, TypeOK, PageRecord
<1>L. \A v \in Trx : LocksOK(v)'
  BY <1>1, <1>2, <1>3, SessionTypes DEF IInv, SessionOK, LocksOK
<1>A. \A v \in Trx : ActiveOK(v)'
  <2>1. \A v \in Trx : /\ pc'[v] \in {"store", "lock_sync", "overflow", "pool_wait"} => pc'[v] = pc[v]
                       /\ pc'[v] = "pool" => pc[v] \in {"pool", "pool_wait"}
    BY <1>2, <1>3
  <2>2. active \in Page \union {NoPage} /\ \A p \in Page : page'[p].free = page[p].free
    BY <1>8, PageTypes DEF IInv
  <2> QED BY <1>1, <2>1, <2>2 DEF IInv, SessionOK, ActiveOK
<1>S. \A v \in Trx : SyncOK(v)'
  <2>1. CASE pc'[t] = "clear"
    BY <1>1, <1>2, <1>3, <1>6, <1>9, <2>1 DEF IInv, SessionOK, SyncOK, LocksOK, Syncer, InSync, q
  <2>2. CASE pc'[t] # "clear"
    BY <1>1, <1>2, <1>3, <1>6, <2>2 DEF IInv, SessionOK, SyncOK, Syncer, InSync
  <2> QED BY <2>1, <2>2
<1>B. \A v \in Trx : SlotOK(v)'
  BY <1>1, <1>2, <1>3, SlotFrame DEF IInv, SessionOK, Early, Finish
<1>C. \A v \in Trx : FailedOK(v)'
  BY <1>1, <1>2, <1>3, <1>6, SessionTypes DEF IInv, SessionOK, FailedOK
<1>Y. SomeSyncer'
  BY <1>1, <1>2, <1>3, <1>6 DEF IInv, SomeSyncer, Syncer
<1>P. PagesOK'
  <2>1. \A p \in Page : BeingSynced(p) => BeingSynced(p)'
    BY <1>1, <1>2, <1>3, <1>6, <1>9 DEF BeingSynced, InSync, Syncer
  <2> QED BY <1>1, <1>8, <2>1 DEF IInv, PagesOK
<1>D. DataOK'
  BY <1>1, <1>2, <1>3, DataFrame DEF IInv, Early
<1>Q. QueuedOK'
  BY <1>1, <1>2, <1>3, <1>6, QueuedFrame DEF IInv, Finish
<1>W. WaitersOK'
  <2>1. CASE pc'[t] = "asleep"
    <3>1. \A p \in Page : Waiters(p)' = Waiters(p)
      BY <1>1, <1>2, <1>3, <2>1 DEF Waiters
    <3> QED BY <1>8, <2>1, <3>1 DEF IInv, WaitersOK
  <2>2. CASE pc'[t] # "asleep"
    <3>1. \A p \in Page : Waiters(p)' = IF p = q THEN Waiters(p) \ {t} ELSE Waiters(p)
      BY <1>1, <1>2, <1>3, <2>2 DEF Waiters, q
    <3>2. Cardinality(Waiters(q) \ {t}) = Cardinality(Waiters(q)) - 1
      BY <1>2, <1>4, FS_RemoveElement
    <3> QED BY <1>2, <1>8, <2>2, <3>1, <3>2 DEF IInv, WaitersOK
  <2> QED BY <2>1, <2>2
<1>Z. SleepersOK'
  <2>1. \A v \in Trx : pc'[v] = "asleep" => pc[v] \notin Early
    BY <1>2, <1>3 DEF Early
  <2> QED BY <1>1, <1>2, <1>3, <1>6, <1>8, <2>1, CookieFacts DEF IInv, SleepersOK, q
<1>N. NotifyOK'
  BY <1>1, <1>2, <1>3 DEF IInv, NotifyOK
<1>F. FreeExact'
  BY <1>1, <1>8, FreeFrame DEF IInv
<1>R. SleepersRemembered'
  <2>1. CASE pc'[t] \in {"asleep", "clear"} \/ syncing # NoPage
    BY <1>2, <1>3, <1>6, <2>1, RememberedSyncing
  <2>2. CASE pc'[t] = "logged" /\ syncing = NoPage
    <3>1. Sleepers(q) = {}
      BY <1>2, <1>6, <2>2 DEF IInv, SleepersOK, Sleepers
    <3>2. \A p \in Page : Sleepers(p)' = Sleepers(p)
      BY <1>1, <1>2, <1>3, <2>2 DEF Sleepers
    <3>3. \A v \in Trx : pc[v] \in {"woken", "check", "lock_sync"} /\ v # t => pc'[v] = pc[v]
      BY <1>3
    <3> QED BY <1>1, <1>2, <2>2, <3>1, <3>2, <3>3 DEF IInv, SleepersRemembered, q
  <2> QED BY <1>3, <2>1, <2>2
<1> QED BY <1>T, <1>L, <1>A, <1>S, <1>B, <1>C, <1>Y, <1>P, <1>D, <1>Q, <1>W, <1>Z, <1>N, <1>F, <1>R DEF IInv, SessionOK

\* Woken, with LOCK_sync again
LEMMA RelockStep ==
  ASSUME IInv, NEW t \in Trx, Relock(t)
  PROVE  IInv'
<1>1. UNCHANGED <<data, disk, page, active, syncing, pool, lockActive, lockPool, cookie, failed, pending, batch, notice, decrement, durable, errors>>
  BY DEF Relock, pageVars, locks, session, checkpoint
<1>2. /\ pc[t] = "woken" /\ pc'[t] = "check" /\ pc' \in [Trx -> Place]
      /\ \A v \in Trx \ {t} : pc'[v] = pc[v]
      /\ lockSync = NoTrx /\ lockSync' = t
  BY SessionTypes DEF IInv, Relock, Goto, Place
<1>T. TypeOK'
  BY <1>1, <1>2, SessionTypes DEF IInv, TypeOK
<1>L. \A v \in Trx : LocksOK(v)'
  BY <1>1, <1>2, SessionTypes DEF IInv, SessionOK, LocksOK
<1>A. \A v \in Trx : ActiveOK(v)'
  BY <1>1, <1>2, SessionTypes DEF IInv, SessionOK, ActiveOK, LocksOK
<1>S. \A v \in Trx : SyncOK(v)'
  BY <1>1, <1>2, SessionTypes DEF IInv, SessionOK, SyncOK, Syncer, InSync
<1>B. \A v \in Trx : SlotOK(v)'
  BY <1>1, <1>2, SlotFrame DEF IInv, SessionOK, Early, Finish
<1>C. \A v \in Trx : FailedOK(v)'
  BY <1>1, <1>2, SessionTypes DEF IInv, SessionOK, FailedOK
<1>Y. SomeSyncer'
  BY <1>1, <1>2 DEF IInv, SomeSyncer, Syncer
<1>P. PagesOK'
  BY <1>1, <1>2, PagesFrame DEF IInv, InSync
<1>D. DataOK'
  BY <1>1, <1>2, DataFrame DEF IInv, Early
<1>Q. QueuedOK'
  BY <1>1, <1>2, QueuedFrame DEF IInv, Finish
<1>W. WaitersOK'
  BY <1>1, <1>2, WaitersFrame DEF IInv
<1>Z. SleepersOK'
  BY <1>1, <1>2, SleepersFrame DEF IInv, SessionOK
<1>N. NotifyOK'
  BY <1>1, <1>2 DEF IInv, NotifyOK
<1>F. FreeExact'
  BY <1>1, <1>2, FreeFrame DEF IInv
<1>R. SleepersRemembered'
  BY <1>1, <1>2, RememberedFrame DEF IInv
<1> QED BY <1>T, <1>L, <1>A, <1>S, <1>B, <1>C, <1>Y, <1>P, <1>D, <1>Q, <1>W, <1>Z, <1>N, <1>F, <1>R DEF IInv, SessionOK

\* The page that is to be synced is not active any more.
LEMMA ClearActiveStep ==
  ASSUME IInv, NEW t \in Trx, ClearActive(t)
  PROVE  IInv'
<1>1. UNCHANGED <<data, disk, page, syncing, pool, lockSync, lockPool, cookie, failed, pending, batch, notice, decrement, durable, errors>>
  BY DEF ClearActive, pageVars, locks, session, checkpoint
<1>2. /\ pc[t] = "clear" /\ lockActive \in {t, NoTrx} /\ active' = NoPage /\ lockActive' = NoTrx
      /\ pc'[t] = "sync" /\ pc' \in [Trx -> Place]
      /\ \A v \in Trx \ {t} : pc'[v] = pc[v] \/ (pc[v] = "active_wait" /\ pc'[v] = "start")
  BY SessionTypes DEF IInv, ClearActive, Place
<1>3. /\ active = syncing /\ syncing \in Page /\ NoPage \notin Page
      /\ \A v \in Trx \ {t} : pc[v] \notin Syncer
      /\ \A v \in Trx : pc[v] \notin {"pool", "overflow", "pool_wait", "store", "lock_sync"}
  BY <1>2, SyncerFacts DEF IInv, SessionOK, SyncOK, LocksOK, Syncer
<1>T. TypeOK'
  <2>1. active' \in Page \union {NoPage} /\ lockActive' \in Trx \union {NoTrx}
    BY <1>2
  <2> QED BY <1>1, <1>2, <2>1 DEF IInv, TypeOK
<1>L. \A v \in Trx : LocksOK(v)'
  BY <1>1, <1>2, SessionTypes DEF IInv, SessionOK, LocksOK
<1>A. \A v \in Trx : ActiveOK(v)'
  BY <1>1, <1>2, <1>3 DEF ActiveOK
<1>S. \A v \in Trx : SyncOK(v)'
  <2>1. ~In(pool, syncing)
    BY <1>3 DEF IInv, PagesOK
  <2> QED BY <1>1, <1>2, <1>3, <2>1 DEF IInv, SessionOK, SyncOK, Syncer, InSync
<1>B. \A v \in Trx : SlotOK(v)'
  BY <1>1, <1>2, SlotFrame DEF IInv, SessionOK, Early, Finish
<1>C. \A v \in Trx : FailedOK(v)'
  BY <1>1, <1>2, SessionTypes DEF IInv, SessionOK, FailedOK
<1>Y. SomeSyncer'
  BY <1>1, <1>2 DEF IInv, SomeSyncer, Syncer
<1>P. PagesOK'
  <2>1. ~In(pool, NoPage)
    BY <1>3, PageTypes DEF IInv, In
  <2>2. BeingSynced(syncing)'
    BY <1>1, <1>2 DEF BeingSynced, InSync
  <2>3. \A p \in Page : BeingSynced(p) \/ p = active => BeingSynced(p)'
    BY <1>1, <1>2, <1>3 DEF BeingSynced, InSync
  <2> QED BY <1>1, <1>2, <2>1, <2>3 DEF IInv, PagesOK
<1>D. DataOK'
  BY <1>1, <1>2, DataFrame DEF IInv, Early
<1>Q. QueuedOK'
  BY <1>1, <1>2, QueuedFrame DEF IInv, Finish
<1>W. WaitersOK'
  BY <1>1, <1>2, WaitersFrame DEF IInv
<1>Z. SleepersOK'
  BY <1>1, <1>2, SleepersFrame DEF IInv, SessionOK
<1>N. NotifyOK'
  BY <1>1, <1>2 DEF IInv, NotifyOK
<1>F. FreeExact'
  BY <1>1, <1>2, FreeFrame DEF IInv
<1>R. SleepersRemembered'
  BY <1>1, <1>2, RememberedFrame DEF IInv
<1> QED BY <1>T, <1>L, <1>A, <1>S, <1>B, <1>C, <1>Y, <1>P, <1>D, <1>Q, <1>W, <1>Z, <1>N, <1>F, <1>R DEF IInv, SessionOK

\* msync()
LEMMA SyncStep ==
  ASSUME IInv, NEW t \in Trx, Sync(t)
  PROVE  IInv'
<1>1. UNCHANGED <<data, page, active, syncing, pool, lockActive, lockSync, lockPool, cookie, pending, batch, notice, decrement, durable>>
  BY DEF Sync, pageVars, locks, session, checkpoint
<1>2. /\ pc[t] = "sync" /\ pc'[t] = "synced" /\ pc' \in [Trx -> Place]
      /\ \A v \in Trx \ {t} : pc'[v] = pc[v]
      /\ \/ disk' = [disk EXCEPT ![syncing] = data[syncing]] /\ UNCHANGED <<failed, errors>>
         \/ errors > 0 /\ errors' = errors - 1 /\ failed' = [failed EXCEPT ![t] = TRUE]
            /\ UNCHANGED disk
  BY SessionTypes DEF IInv, Sync, Goto, Place
<1>3. syncing \in Page
  BY <1>2, SyncerFacts DEF Syncer
<1>4. failed' \in [Trx -> BOOLEAN] /\ \A v \in Trx \ {t} : failed'[v] = failed[v]
  BY <1>2, SessionTypes DEF IInv
<1>T. TypeOK'
  <2>1. errors' \in 0 .. MaxErrors
    <3>1. errors \in 0 .. MaxErrors /\ MaxErrors \in Nat
      BY DEF IInv, TypeOK
    <3>2. errors' = errors \/ (errors > 0 /\ errors' = errors - 1)
      BY <1>2
    <3> QED BY <3>1, <3>2
  <2>2. DOMAIN disk' = Page /\ \A p \in Page : disk'[p] \in [Slot(p) -> Trx \union {NoTrx}]
    BY <1>2, <1>3, PageTypes DEF IInv
  <2> QED BY <1>1, <1>2, <1>4, <2>1, <2>2 DEF IInv, TypeOK
<1>L. \A v \in Trx : LocksOK(v)'
  BY <1>1, <1>2, SessionTypes DEF IInv, SessionOK, LocksOK
<1>A. \A v \in Trx : ActiveOK(v)'
  BY <1>1, <1>2, SessionTypes DEF IInv, SessionOK, ActiveOK, LocksOK
<1>S. \A v \in Trx : SyncOK(v)'
  BY <1>1, <1>2, SessionTypes DEF IInv, SessionOK, SyncOK, Syncer, InSync
<1>B. \A v \in Trx : SlotOK(v)'
  BY <1>1, <1>2, SlotFrame DEF IInv, SessionOK, Early, Finish
<1>C. \A v \in Trx : FailedOK(v)'
  BY <1>1, <1>2, <1>4 DEF IInv, SessionOK, FailedOK
<1>Y. SomeSyncer'
  BY <1>1, <1>2 DEF IInv, SomeSyncer, Syncer
<1>P. PagesOK'
  BY <1>1, <1>2, PagesFrame DEF IInv, InSync
<1>D. DataOK'
  BY <1>1, <1>2, DataFrame DEF IInv, Early
<1>Q. QueuedOK'
  BY <1>1, <1>2, <1>4, QueuedFrame DEF IInv, Finish
<1>W. WaitersOK'
  BY <1>1, <1>2, WaitersFrame DEF IInv
<1>Z. SleepersOK'
  BY <1>1, <1>2, SleepersFrame DEF IInv, SessionOK
<1>N. NotifyOK'
  BY <1>1, <1>2 DEF IInv, NotifyOK
<1>F. FreeExact'
  BY <1>1, <1>2, FreeFrame DEF IInv
<1>R. SleepersRemembered'
  BY <1>1, <1>2, RememberedFrame DEF IInv
<1> QED BY <1>T, <1>L, <1>A, <1>S, <1>B, <1>C, <1>Y, <1>P, <1>D, <1>Q, <1>W, <1>Z, <1>N, <1>F, <1>R DEF IInv, SessionOK

\* The page goes back to the pool.
LEMMA ToPoolStep ==
  ASSUME IInv, NEW t \in Trx, ToPool(t)
  PROVE  IInv'
<1>1. UNCHANGED <<data, disk, active, syncing, lockActive, lockSync, lockPool, cookie, failed, pending, batch, notice, decrement, durable, errors>>
  BY DEF ToPool, pageVars, locks, session, checkpoint
<1> DEFINE r == [page[syncing] EXCEPT !.state = IF failed[t] THEN "ERROR" ELSE "POOL"]
<1>2. /\ pc[t] = "synced" /\ pool' = Append(pool, syncing)
      /\ pc'[t] = "pooled" /\ pc' \in [Trx -> Place]
      /\ \A v \in Trx \ {t} : pc'[v] = pc[v] \/ (pc[v] = "pool_wait" /\ pc'[v] = "pool")
  BY SessionTypes DEF IInv, ToPool, SignalPool, Place
<1>3. /\ syncing \in Page /\ NoPage \notin Page /\ syncing # active /\ ~In(pool, syncing)
      /\ \A v \in Trx \ {t} : pc[v] \notin Syncer
  BY <1>2, SyncerFacts DEF IInv, SessionOK, SyncOK, Syncer, InSync
<1>4. /\ pool' \in Seq(Page) /\ SeqInj(pool')
      /\ \A p : In(pool', p) <=> In(pool, p) \/ p = syncing
  BY <1>2, <1>3, AppendIn, PageTypes DEF IInv
<1>5. /\ page' = [page EXCEPT ![syncing] = r]
      /\ r \in PageRecord(syncing) /\ r.waiters = page[syncing].waiters
      /\ r.free = page[syncing].free /\ r.ptr = page[syncing].ptr /\ r.state # "DIRTY"
  <2>1. page[syncing] \in PageRecord(syncing)
    BY <1>3, PageTypes DEF IInv, PageRecord
  <2>2. page' = [page EXCEPT ![syncing] = r]
    BY DEF ToPool
  <2> QED BY <2>1, <2>2 DEF PageRecord
<1> HIDE DEF r
<1>6. /\ DOMAIN page' = Page /\ \A p \in Page : page'[p] \in PageRecord(p)
      /\ \A p \in Page : /\ page'[p].free = page[p].free /\ page'[p].ptr = page[p].ptr
                         /\ page'[p].waiters = page[p].waiters
                         /\ p = syncing => page'[p].state # "DIRTY"
                         /\ p # syncing => page'[p].state = page[p].state
  BY <1>3, <1>5, OnePage DEF IInv
<1>T. TypeOK'
  <2>1. IsInjective(pool')
    BY <1>4, InjectiveSeq
  <2>2. DOMAIN page' = Page /\ \A p \in Page : page'[p] \in PageRecord(p)
    BY <1>6
  <2> QED BY <1>1, <1>2, <1>4, <2>1, <2>2 DEF IInv, TypeOK, PageRecord
<1>L. \A v \in Trx : LocksOK(v)'
  BY <1>1, <1>2, SessionTypes DEF IInv, SessionOK, LocksOK
<1>A. \A v \in Trx : ActiveOK(v)'
  <2>1. \A v \in Trx : /\ pc'[v] \in {"store", "lock_sync", "overflow", "pool_wait"} => pc'[v] = pc[v]
                       /\ pc'[v] = "pool" => pc[v] \in {"pool", "pool_wait"}
    BY <1>2
  <2>2. active \in Page \union {NoPage} /\ \A p \in Page : page'[p].free = page[p].free
    BY <1>6, PageTypes DEF IInv
  <2> QED BY <1>1, <2>1, <2>2 DEF IInv, SessionOK, ActiveOK
<1>S. \A v \in Trx : SyncOK(v)'
  BY <1>1, <1>2, <1>3 DEF IInv, SessionOK, SyncOK, Syncer, InSync
<1>B. \A v \in Trx : SlotOK(v)'
  BY <1>1, <1>2, SlotFrame DEF IInv, SessionOK, Early, Finish
<1>C. \A v \in Trx : FailedOK(v)'
  BY <1>1, <1>2, SessionTypes DEF IInv, SessionOK, FailedOK
<1>Y. SomeSyncer'
  BY <1>1, <1>2 DEF IInv, SomeSyncer, Syncer
<1>P. PagesOK'
  <2>1. \A p \in Page : BeingSynced(p) => p = syncing
    BY DEF BeingSynced
  <2> QED BY <1>1, <1>2, <1>3, <1>4, <1>6, <2>1 DEF IInv, PagesOK
<1>D. DataOK'
  BY <1>1, <1>2, DataFrame DEF IInv, Early
<1>Q. QueuedOK'
  BY <1>1, <1>2, QueuedFrame DEF IInv, Finish
<1>W. WaitersOK'
  BY <1>1, <1>2, <1>6, WaitersFrame DEF IInv
<1>Z. SleepersOK'
  BY <1>1, <1>2, <1>6, CookieFacts DEF IInv, SleepersOK, Early
<1>N. NotifyOK'
  BY <1>1, <1>2 DEF IInv, NotifyOK
<1>F. FreeExact'
  BY <1>1, <1>6, FreeFrame DEF IInv
<1>R. SleepersRemembered'
  BY <1>1, <1>2, RememberedFrame DEF IInv
<1> QED BY <1>T, <1>L, <1>A, <1>S, <1>B, <1>C, <1>Y, <1>P, <1>D, <1>Q, <1>W, <1>Z, <1>N, <1>F, <1>R DEF IInv, SessionOK

\* The syncing slot is free again.
LEMMA FreeSyncingStep ==
  ASSUME IInv, NEW t \in Trx, FreeSyncing(t)
  PROVE  IInv'
<1>1. UNCHANGED <<data, disk, page, active, pool, lockActive, lockSync, lockPool, cookie, failed, pending, batch, notice, decrement, durable, errors>>
  BY DEF FreeSyncing, pageVars, locks, session, checkpoint
<1>2. /\ pc[t] = "pooled" /\ lockSync = NoTrx /\ syncing' = NoPage
      /\ pc'[t] = "logged" /\ pc' \in [Trx -> Place]
      /\ \A v \in Trx \ {t} : pc'[v] = pc[v] \/ (pc[v] = "asleep" /\ pc'[v] = "woken")
      /\ \A v \in Sleepers(syncing) : pc'[v] = "woken"
      /\ active # NoPage /\ Sleepers(active) \ Sleepers(syncing) # {}
           => \E u \in Sleepers(active) : pc'[u] = "woken"
  <2> DEFINE next == IF active = NoPage THEN {} ELSE Sleepers(active) \ Sleepers(syncing)
             woken(ts) == [u \in Trx |-> IF u = t THEN "logged" ELSE IF u \in ts THEN "woken"
                                         ELSE pc[u]]
  <2>1. /\ pc[t] = "pooled" /\ lockSync = NoTrx /\ syncing' = NoPage
        /\ IF next = {} THEN pc' = woken(Sleepers(syncing))
           ELSE \E u \in next : pc' = woken(Sleepers(syncing) \union {u})
    BY DEF FreeSyncing
  <2>2. PICK ts \in SUBSET Trx : /\ pc' = woken(ts) /\ Sleepers(syncing) \subseteq ts
                                 /\ \A v \in ts : pc[v] = "asleep"
                                 /\ next # {} => \E u \in next : u \in ts
    <3>1. next \subseteq Trx /\ Sleepers(syncing) \subseteq Trx
          /\ \A v \in next \union Sleepers(syncing) : pc[v] = "asleep"
      BY DEF Sleepers
    <3> HIDE DEF next, woken
    <3>2. CASE next = {}
      BY <2>1, <3>1, <3>2
    <3>3. CASE next # {}
      <4>1. PICK u \in next : pc' = woken(Sleepers(syncing) \union {u})
        BY <2>1, <3>3
      <4> QED BY <3>1, <4>1
    <3> QED BY <3>2, <3>3
  <2>3. t \notin ts /\ pc \in [Trx -> Place]
    BY <2>1, <2>2, SessionTypes DEF IInv
  <2>4. pc'[t] = "logged" /\ \A v \in Trx \ {t} : pc'[v] = IF v \in ts THEN "woken" ELSE pc[v]
    BY <2>2
  <2>5. pc' \in [Trx -> Place]
    BY <2>2, <2>3 DEF Place
  <2>6. \A p : Sleepers(p) \subseteq Trx
    BY DEF Sleepers
  <2>7. active # NoPage /\ Sleepers(active) \ Sleepers(syncing) # {}
           => \E u \in Sleepers(active) : pc'[u] = "woken"
    BY <2>2, <2>3, <2>4, <2>6
  <2> QED BY <2>1, <2>2, <2>3, <2>4, <2>5, <2>6, <2>7
<1>3. /\ \A v \in Trx \ {t} : pc[v] \notin Syncer
      /\ \A v \in Trx : pc[v] # "register"
      /\ syncing \in Page /\ NoPage \notin Page
  BY <1>2, SyncerFacts DEF IInv, SessionOK, SyncOK, LocksOK, Syncer
<1>4. \A p \in Page : ~BeingSynced(p)
  BY <1>2, <1>3 DEF BeingSynced, InSync, Syncer
<1>T. TypeOK'
  <2>1. syncing' \in Page \union {NoPage}
    BY <1>2
  <2> QED BY <1>1, <1>2, <2>1 DEF IInv, TypeOK
<1>L. \A v \in Trx : LocksOK(v)'
  BY <1>1, <1>2, SessionTypes DEF IInv, SessionOK, LocksOK
<1>A. \A v \in Trx : ActiveOK(v)'
  BY <1>1, <1>2, SessionTypes DEF IInv, SessionOK, ActiveOK, LocksOK
<1>S. \A v \in Trx : SyncOK(v)'
  BY <1>1, <1>2, <1>3 DEF IInv, SessionOK, SyncOK, Syncer, InSync
<1>B. \A v \in Trx : SlotOK(v)'
  BY <1>1, <1>2, SlotFrame DEF IInv, SessionOK, Early, Finish
<1>C. \A v \in Trx : FailedOK(v)'
  BY <1>1, <1>2, SessionTypes DEF IInv, SessionOK, FailedOK
<1>Y. SomeSyncer'
  BY <1>2 DEF SomeSyncer
<1>P. PagesOK'
  BY <1>1, <1>4 DEF IInv, PagesOK
<1>D. DataOK'
  BY <1>1, <1>2, DataFrame DEF IInv, Early
<1>Q. QueuedOK'
  BY <1>1, <1>2, QueuedFrame DEF IInv, Finish
<1>W. WaitersOK'
  BY <1>1, <1>2, WaitersFrame DEF IInv
<1>Z. SleepersOK'
  BY <1>1, <1>2 DEF IInv, SleepersOK, Sleepers
<1>N. NotifyOK'
  BY <1>1, <1>2 DEF IInv, NotifyOK
<1>F. FreeExact'
  BY <1>1, <1>2, FreeFrame DEF IInv
<1>R. SleepersRemembered'
  <2> SUFFICES ASSUME NEW p \in Page, NEW v \in Sleepers(p)'
               PROVE  \E u \in Trx : cookie'[u].page = p /\ pc'[u] \in {"woken", "check", "lock_sync"}
    BY DEF SleepersRemembered
  <2>1. v \in Trx /\ pc'[v] = "asleep" /\ pc[v] = "asleep" /\ cookie[v].page = p
    BY <1>1, <1>2 DEF Sleepers
  <2>2. v \in Sleepers(p) /\ p # syncing /\ v \notin Sleepers(syncing)
    BY <1>2, <2>1 DEF Sleepers
  <2>3. page[p].state = "DIRTY"
    BY <2>1, <2>2 DEF IInv, SleepersOK
  <2>4. p = active
    BY <1>4, <2>3 DEF IInv, PagesOK
  <2>5. PICK u \in Sleepers(active) : pc'[u] = "woken"
    BY <1>2, <1>3, <2>2, <2>4
  <2> QED BY <1>1, <2>4, <2>5 DEF Sleepers
<1> QED BY <1>T, <1>L, <1>A, <1>S, <1>B, <1>C, <1>Y, <1>P, <1>D, <1>Q, <1>W, <1>Z, <1>N, <1>F, <1>R DEF IInv, SessionOK

\* The commit in the engines, or the rollback
LEMMA CommitStep ==
  ASSUME IInv, NEW t \in Trx, Commit(t)
  PROVE  IInv'
<1>1. UNCHANGED <<data, disk, page, active, syncing, pool, lockActive, lockSync, lockPool, cookie, failed, pending, batch, notice, decrement, durable, errors>>
  BY DEF Commit, pageVars, locks, session, checkpoint
<1>2. /\ pc[t] = "logged" /\ pc'[t] \in {"ended", "unlog"} /\ pc' \in [Trx -> Place]
      /\ \A v \in Trx \ {t} : pc'[v] = pc[v]
      /\ pc'[t] = "unlog" => ~failed[t]
  BY SessionTypes DEF IInv, Commit, Goto, Place
<1>T. TypeOK'
  BY <1>1, <1>2, SessionTypes DEF IInv, TypeOK
<1>L. \A v \in Trx : LocksOK(v)'
  BY <1>1, <1>2, SessionTypes DEF IInv, SessionOK, LocksOK
<1>A. \A v \in Trx : ActiveOK(v)'
  BY <1>1, <1>2, SessionTypes DEF IInv, SessionOK, ActiveOK, LocksOK
<1>S. \A v \in Trx : SyncOK(v)'
  BY <1>1, <1>2, SessionTypes DEF IInv, SessionOK, SyncOK, Syncer, InSync
<1>B. \A v \in Trx : SlotOK(v)'
  BY <1>1, <1>2, SlotFrame DEF IInv, SessionOK, Early, Finish
<1>C. \A v \in Trx : FailedOK(v)'
  BY <1>1, <1>2, SessionTypes DEF IInv, SessionOK, FailedOK
<1>Y. SomeSyncer'
  BY <1>1, <1>2 DEF IInv, SomeSyncer, Syncer
<1>P. PagesOK'
  BY <1>1, <1>2, PagesFrame DEF IInv, InSync
<1>D. DataOK'
  BY <1>1, <1>2, DataFrame DEF IInv, Early
<1>Q. QueuedOK'
  BY <1>1, <1>2, QueuedFrame DEF IInv, Finish
<1>W. WaitersOK'
  BY <1>1, <1>2, WaitersFrame DEF IInv
<1>Z. SleepersOK'
  BY <1>1, <1>2, SleepersFrame DEF IInv, SessionOK
<1>N. NotifyOK'
  BY <1>1, <1>2 DEF IInv, NotifyOK
<1>F. FreeExact'
  BY <1>1, <1>2, FreeFrame DEF IInv
<1>R. SleepersRemembered'
  BY <1>1, <1>2, RememberedFrame DEF IInv
<1> QED BY <1>T, <1>L, <1>A, <1>S, <1>B, <1>C, <1>Y, <1>P, <1>D, <1>Q, <1>W, <1>Z, <1>N, <1>F, <1>R DEF IInv, SessionOK

\* unlog()
LEMMA UnlogStep ==
  ASSUME IInv, NEW t \in Trx, Unlog(t)
  PROVE  IInv'
<1>1. UNCHANGED <<data, disk, page, active, syncing, pool, lockActive, lockSync, lockPool, cookie, failed, decrement, durable, errors>>
  BY DEF Unlog, pageVars, locks, session, checkpoint
<1> DEFINE b == Taken(batch[t], pending \union {t}, 1)
<1>2. /\ pc[t] = "unlog" /\ pc'[t] \in {"hook", "ended"} /\ pc' \in [Trx -> Place]
      /\ \A v \in Trx \ {t} : pc'[v] = pc[v]
      /\ \/ /\ batch' = [batch EXCEPT ![t] = b]
            /\ pending' = {} /\ notice' = [notice EXCEPT ![<<t, Self>>] = "flushed"]
         \/ /\ pending' = pending \union {t} /\ pc'[t] = "ended"
            /\ UNCHANGED <<batch, notice>>
  BY SessionTypes, ZenonT(40) DEF IInv, Unlog, Goto, Place, Taken
<1>3. /\ pending \subseteq Trx /\ ~failed[t] /\ Stored(t)
      /\ \A v \in Trx : Stored(v)' = Stored(v)
      /\ \A v \in Trx : t \notin batch[v].of
  BY <1>1, <1>2 DEF IInv, TypeOK, SessionOK, SlotOK, FailedOK, QueuedOK, Stored, HasSlot, Early
<1>4. pending' \subseteq Trx
  BY <1>2, <1>3
<1>5. b \in BatchRecord /\ b.of = pending \union {t}
  <2>1. batch[t] \in BatchRecord
    BY DEF IInv, TypeOK, BatchRecord
  <2>2. pending \union {t} \in SUBSET Trx
    BY <1>3
  <2> QED BY <2>1, <2>2, BatchTaken
<1> HIDE DEF b
<1>6. \/ pc'[t] = "ended" /\ pending' = pending \union {t} /\ \A v \in Trx : batch'[v].of = batch[v].of
      \/ /\ pending' = {} /\ batch'[t].of = pending \union {t}
         /\ \A v \in Trx \ {t} : batch'[v].of = batch[v].of
  BY <1>2, <1>5, OneBatch DEF IInv
<1>T. TypeOK'
  <2>1. notice' \in [Notices -> {"none", "asked", "flushed", "done"}]
    <3>1. CASE UNCHANGED notice
      BY <3>1 DEF IInv, TypeOK
    <3>2. CASE notice' = [notice EXCEPT ![<<t, Self>>] = "flushed"]
      BY <3>2, OneNotice DEF IInv
    <3> QED BY <1>2, <3>1, <3>2
  <2>2. batch' \in [Trx -> BatchRecord]
    <3>1. batch \in [Trx -> BatchRecord]
      BY DEF IInv, TypeOK, BatchRecord
    <3> QED BY <1>2, <1>5, <3>1, OneBatch DEF IInv
  <2> QED BY <1>1, <1>2, <1>4, <2>1, <2>2 DEF IInv, TypeOK, BatchRecord
<1>L. \A v \in Trx : LocksOK(v)'
  BY <1>1, <1>2, SessionTypes DEF IInv, SessionOK, LocksOK
<1>A. \A v \in Trx : ActiveOK(v)'
  BY <1>1, <1>2, SessionTypes DEF IInv, SessionOK, ActiveOK, LocksOK
<1>S. \A v \in Trx : SyncOK(v)'
  BY <1>1, <1>2, SessionTypes DEF IInv, SessionOK, SyncOK, Syncer, InSync
<1>B. \A v \in Trx : SlotOK(v)'
  BY <1>1, <1>2, SlotFrame DEF IInv, SessionOK, Early, Finish
<1>C. \A v \in Trx : FailedOK(v)'
  BY <1>1, <1>2, SessionTypes DEF IInv, SessionOK, FailedOK
<1>Y. SomeSyncer'
  BY <1>1, <1>2 DEF IInv, SomeSyncer, Syncer
<1>P. PagesOK'
  BY <1>1, <1>2, PagesFrame DEF IInv, InSync
<1>D. DataOK'
  BY <1>1, <1>2, DataFrame DEF IInv, Early
<1>Q. QueuedOK'
  <2>1. \A v \in Trx : /\ pc[v] \in Finish => pc'[v] \in Finish
                       /\ pc[v] = "ended" => pc'[v] = "ended"
    BY <1>2 DEF Finish
  <2>2. CASE pc'[t] = "ended" /\ pending' = pending \union {t} /\ \A v \in Trx : batch'[v].of = batch[v].of
    BY <1>1, <1>3, <2>1, <2>2 DEF IInv, QueuedOK, Finish
  <2>3. CASE /\ pending' = {} /\ batch'[t].of = pending \union {t}
             /\ \A v \in Trx \ {t} : batch'[v].of = batch[v].of
    BY <1>1, <1>2, <1>3, <2>1, <2>3 DEF IInv, QueuedOK, Finish
  <2> QED BY <1>6, <2>2, <2>3
<1>W. WaitersOK'
  BY <1>1, <1>2, WaitersFrame DEF IInv
<1>Z. SleepersOK'
  BY <1>1, <1>2, SleepersFrame DEF IInv, SessionOK
<1>N. NotifyOK'
  BY <1>1, <1>2 DEF IInv, NotifyOK
<1>F. FreeExact'
  BY <1>1, <1>2, FreeFrame DEF IInv
<1>R. SleepersRemembered'
  BY <1>1, <1>2, RememberedFrame DEF IInv
<1> QED BY <1>T, <1>L, <1>A, <1>S, <1>B, <1>C, <1>Y, <1>P, <1>D, <1>Q, <1>W, <1>Z, <1>N, <1>F, <1>R DEF IInv, SessionOK

\* ++pending_count, read
LEMMA HookReadStep ==
  ASSUME IInv, NEW t \in Trx, HookRead(t)
  PROVE  IInv'
<1>1. UNCHANGED <<data, disk, page, active, syncing, pool, lockActive, lockSync, lockPool, cookie, failed, pending, notice, decrement, durable, errors>>
  BY DEF HookRead, pageVars, locks, session, checkpoint
<1> DEFINE b == ReadCount(batch[t], batch[t].count)
<1>2. /\ pc[t] = "hook" /\ pc'[t] \in {"hooked", "notify"} /\ pc' \in [Trx -> Place]
      /\ \A v \in Trx \ {t} : pc'[v] = pc[v]
      /\ (batch' = batch \/ batch' = [batch EXCEPT ![t] = b])
  BY SessionTypes DEF IInv, HookRead, Goto, Place, ReadCount
<1>3. batch \in [Trx -> BatchRecord]
  BY DEF IInv, TypeOK, BatchRecord
<1>4. b \in BatchRecord /\ b.of = batch[t].of
  <2>1. batch[t] \in BatchRecord
    BY <1>3
  <2>2. batch[t].count \in Int
    BY <2>1 DEF BatchRecord
  <2> QED BY <2>1, <2>2, BatchRead
<1> HIDE DEF b
<1>5. batch' \in [Trx -> BatchRecord] /\ \A v \in Trx : batch'[v].of = batch[v].of
  BY <1>2, <1>3, <1>4, OneBatch DEF IInv
<1>T. TypeOK'
  BY <1>1, <1>2, <1>5 DEF IInv, TypeOK, BatchRecord
<1>L. \A v \in Trx : LocksOK(v)'
  BY <1>1, <1>2, SessionTypes DEF IInv, SessionOK, LocksOK
<1>A. \A v \in Trx : ActiveOK(v)'
  BY <1>1, <1>2, SessionTypes DEF IInv, SessionOK, ActiveOK, LocksOK
<1>S. \A v \in Trx : SyncOK(v)'
  BY <1>1, <1>2, SessionTypes DEF IInv, SessionOK, SyncOK, Syncer, InSync
<1>B. \A v \in Trx : SlotOK(v)'
  BY <1>1, <1>2, SlotFrame DEF IInv, SessionOK, Early, Finish
<1>C. \A v \in Trx : FailedOK(v)'
  BY <1>1, <1>2, SessionTypes DEF IInv, SessionOK, FailedOK
<1>Y. SomeSyncer'
  BY <1>1, <1>2 DEF IInv, SomeSyncer, Syncer
<1>P. PagesOK'
  BY <1>1, <1>2, PagesFrame DEF IInv, InSync
<1>D. DataOK'
  BY <1>1, <1>2, DataFrame DEF IInv, Early
<1>Q. QueuedOK'
  BY <1>1, <1>2, <1>5, QueuedFrame DEF IInv, Finish
<1>W. WaitersOK'
  BY <1>1, <1>2, WaitersFrame DEF IInv
<1>Z. SleepersOK'
  BY <1>1, <1>2, SleepersFrame DEF IInv, SessionOK
<1>N. NotifyOK'
  BY <1>1, <1>2 DEF IInv, NotifyOK
<1>F. FreeExact'
  BY <1>1, <1>2, FreeFrame DEF IInv
<1>R. SleepersRemembered'
  BY <1>1, <1>2, RememberedFrame DEF IInv
<1> QED BY <1>T, <1>L, <1>A, <1>S, <1>B, <1>C, <1>Y, <1>P, <1>D, <1>Q, <1>W, <1>Z, <1>N, <1>F, <1>R DEF IInv, SessionOK

\* ++pending_count, write
LEMMA HookWriteStep ==
  ASSUME IInv, NEW t \in Trx, HookWrite(t)
  PROVE  IInv'
<1>1. UNCHANGED <<data, disk, page, active, syncing, pool, lockActive, lockSync, lockPool, cookie, failed, pending, decrement, durable, errors>>
  BY DEF HookWrite, pageVars, locks, session, checkpoint
<1>a. PICK e \in Checkpoint :
        /\ batch' = [batch EXCEPT ![t].count = batch[t].read + 1, ![t].asked = @ \union {e}]
        /\ notice' = [notice EXCEPT ![<<t, e>>] = "asked"]
  BY DEF HookWrite
<1> DEFINE b == Asked(batch[t], batch[t].read + 1, batch[t].asked \union {e})
<1>2. /\ pc[t] = "hooked" /\ pc'[t] = "hook" /\ pc' \in [Trx -> Place]
      /\ \A v \in Trx \ {t} : pc'[v] = pc[v]
  BY SessionTypes DEF IInv, HookWrite, Goto, Place
<1>3. b \in BatchRecord /\ b.of = batch[t].of
  <2>1. batch[t] \in BatchRecord
    BY DEF IInv, TypeOK, BatchRecord
  <2>2. batch[t].read + 1 \in Int /\ batch[t].asked \union {e} \in SUBSET Checkpoint
    BY <2>1 DEF BatchRecord
  <2> QED BY <2>1, <2>2, BatchAsked
<1>b. batch' = [batch EXCEPT ![t] = b]
  BY <1>a DEF Asked
<1> HIDE DEF b
<1>4. batch' \in [Trx -> BatchRecord] /\ \A v \in Trx : batch'[v].of = batch[v].of
  BY <1>b, <1>3, OneBatch DEF IInv
<1>5. notice' \in [Notices -> {"none", "asked", "flushed", "done"}]
  BY <1>a, OneNotice DEF IInv
<1>T. TypeOK'
  BY <1>1, <1>2, <1>4, <1>5 DEF IInv, TypeOK, BatchRecord
<1>L. \A v \in Trx : LocksOK(v)'
  BY <1>1, <1>2, SessionTypes DEF IInv, SessionOK, LocksOK
<1>A. \A v \in Trx : ActiveOK(v)'
  BY <1>1, <1>2, SessionTypes DEF IInv, SessionOK, ActiveOK, LocksOK
<1>S. \A v \in Trx : SyncOK(v)'
  BY <1>1, <1>2, SessionTypes DEF IInv, SessionOK, SyncOK, Syncer, InSync
<1>B. \A v \in Trx : SlotOK(v)'
  BY <1>1, <1>2, SlotFrame DEF IInv, SessionOK, Early, Finish
<1>C. \A v \in Trx : FailedOK(v)'
  BY <1>1, <1>2, SessionTypes DEF IInv, SessionOK, FailedOK
<1>Y. SomeSyncer'
  BY <1>1, <1>2 DEF IInv, SomeSyncer, Syncer
<1>P. PagesOK'
  BY <1>1, <1>2, PagesFrame DEF IInv, InSync
<1>D. DataOK'
  BY <1>1, <1>2, DataFrame DEF IInv, Early
<1>Q. QueuedOK'
  BY <1>1, <1>2, <1>4, QueuedFrame DEF IInv, Finish
<1>W. WaitersOK'
  BY <1>1, <1>2, WaitersFrame DEF IInv
<1>Z. SleepersOK'
  BY <1>1, <1>2, SleepersFrame DEF IInv, SessionOK
<1>N. NotifyOK'
  BY <1>1, <1>2 DEF IInv, NotifyOK
<1>F. FreeExact'
  BY <1>1, <1>2, FreeFrame DEF IInv
<1>R. SleepersRemembered'
  BY <1>1, <1>2, RememberedFrame DEF IInv
<1> QED BY <1>T, <1>L, <1>A, <1>S, <1>B, <1>C, <1>Y, <1>P, <1>D, <1>Q, <1>W, <1>Z, <1>N, <1>F, <1>R DEF IInv, SessionOK

\* An engine makes its commits durable.
LEMMA EngineFlushStep ==
  ASSUME IInv, NEW t \in Trx, NEW e \in Checkpoint, EngineFlush(t, e)
  PROVE  IInv'
<1>1. UNCHANGED <<data, disk, page, active, syncing, pool, lockActive, lockSync, lockPool, pc, cookie, failed, pending, batch, decrement, errors>>
  BY DEF EngineFlush, pageVars, locks, session, checkpoint
<1>2. /\ pc' = pc
      /\ notice' \in [Notices -> {"none", "asked", "flushed", "done"}]
      /\ durable' \in [Checkpoint -> SUBSET Trx]
  BY <1>1 DEF IInv, TypeOK, EngineFlush
<1>T. TypeOK'
  BY <1>1, <1>2, SessionTypes DEF IInv, TypeOK
<1>L. \A v \in Trx : LocksOK(v)'
  BY <1>1, <1>2, SessionTypes DEF IInv, SessionOK, LocksOK
<1>A. \A v \in Trx : ActiveOK(v)'
  BY <1>1, <1>2, SessionTypes DEF IInv, SessionOK, ActiveOK, LocksOK
<1>S. \A v \in Trx : SyncOK(v)'
  BY <1>1, <1>2, SessionTypes DEF IInv, SessionOK, SyncOK, Syncer, InSync
<1>B. \A v \in Trx : SlotOK(v)'
  BY <1>1, <1>2, SlotFrame DEF IInv, SessionOK, Early, Finish
<1>C. \A v \in Trx : FailedOK(v)'
  BY <1>1, <1>2, SessionTypes DEF IInv, SessionOK, FailedOK
<1>Y. SomeSyncer'
  BY <1>1, <1>2 DEF IInv, SomeSyncer, Syncer
<1>P. PagesOK'
  BY <1>1, <1>2, PagesFrame DEF IInv, InSync
<1>D. DataOK'
  BY <1>1, <1>2, DataFrame DEF IInv, Early
<1>Q. QueuedOK'
  BY <1>1, <1>2, QueuedFrame DEF IInv, Finish
<1>W. WaitersOK'
  BY <1>1, <1>2, WaitersFrame DEF IInv
<1>Z. SleepersOK'
  BY <1>1, <1>2, SleepersFrame DEF IInv, SessionOK
<1>N. NotifyOK'
  BY <1>1, <1>2 DEF IInv, NotifyOK
<1>F. FreeExact'
  BY <1>1, <1>2, FreeFrame DEF IInv
<1>R. SleepersRemembered'
  BY <1>1, <1>2, RememberedFrame DEF IInv
<1> QED BY <1>T, <1>L, <1>A, <1>S, <1>B, <1>C, <1>Y, <1>P, <1>D, <1>Q, <1>W, <1>Z, <1>N, <1>F, <1>R DEF IInv, SessionOK

\* --pending_count, read
LEMMA NotifyReadStep ==
  ASSUME IInv, NEW t \in Trx, NEW n \in Checkpoint \union {Self}, NotifyRead(t, n)
  PROVE  IInv'
<1>1. UNCHANGED <<data, disk, page, active, syncing, pool, lockActive, lockSync, lockPool, pc, cookie, failed, pending, batch, notice, durable, errors>>
  BY DEF NotifyRead, pageVars, locks, session, checkpoint
<1>2. pc' = pc /\ decrement' \in [of: Notices \union {<<>>}, read: Int]
  BY <1>1 DEF IInv, TypeOK, NotifyRead, Notices
<1>T. TypeOK'
  BY <1>1, <1>2, SessionTypes DEF IInv, TypeOK
<1>L. \A v \in Trx : LocksOK(v)'
  BY <1>1, <1>2, SessionTypes DEF IInv, SessionOK, LocksOK
<1>A. \A v \in Trx : ActiveOK(v)'
  BY <1>1, <1>2, SessionTypes DEF IInv, SessionOK, ActiveOK, LocksOK
<1>S. \A v \in Trx : SyncOK(v)'
  BY <1>1, <1>2, SessionTypes DEF IInv, SessionOK, SyncOK, Syncer, InSync
<1>B. \A v \in Trx : SlotOK(v)'
  BY <1>1, <1>2, SlotFrame DEF IInv, SessionOK, Early, Finish
<1>C. \A v \in Trx : FailedOK(v)'
  BY <1>1, <1>2, SessionTypes DEF IInv, SessionOK, FailedOK
<1>Y. SomeSyncer'
  BY <1>1, <1>2 DEF IInv, SomeSyncer, Syncer
<1>P. PagesOK'
  BY <1>1, <1>2, PagesFrame DEF IInv, InSync
<1>D. DataOK'
  BY <1>1, <1>2, DataFrame DEF IInv, Early
<1>Q. QueuedOK'
  BY <1>1, <1>2, QueuedFrame DEF IInv, Finish
<1>W. WaitersOK'
  BY <1>1, <1>2, WaitersFrame DEF IInv
<1>Z. SleepersOK'
  BY <1>1, <1>2, SleepersFrame DEF IInv, SessionOK
<1>N. NotifyOK'
  BY <1>2 DEF NotifyOK, NotifyRead
<1>F. FreeExact'
  BY <1>1, <1>2, FreeFrame DEF IInv
<1>R. SleepersRemembered'
  BY <1>1, <1>2, RememberedFrame DEF IInv
<1> QED BY <1>T, <1>L, <1>A, <1>S, <1>B, <1>C, <1>Y, <1>P, <1>D, <1>Q, <1>W, <1>Z, <1>N, <1>F, <1>R DEF IInv, SessionOK

\* --pending_count, write
LEMMA NotifyWriteStep ==
  ASSUME IInv, NEW t \in Trx, NEW n \in Checkpoint \union {Self}, NotifyWrite(t, n)
  PROVE  IInv'
<1>1. UNCHANGED <<data, disk, page, active, syncing, pool, lockActive, lockSync, lockPool, cookie, failed, pending, durable, errors>>
  BY DEF NotifyWrite, pageVars, locks, session, checkpoint
<1> DEFINE b == Counted(batch[t], decrement.read - 1, batch[t].deleting \/ decrement.read = 1)
<1>a. n = Self => pc[t] = "notify"
  BY DEF IInv, NotifyOK, NotifyWrite
<1>2. /\ pc' \in [Trx -> Place] /\ \A v \in Trx \ {t} : pc'[v] = pc[v]
      /\ pc'[t] = pc[t] \/ (pc[t] = "notify" /\ pc'[t] = "ended")
  <2>1. pc \in [Trx -> Place] /\ "ended" \in Place
    BY SessionTypes DEF IInv, Place
  <2>2. pc' = IF n = Self THEN [pc EXCEPT ![t] = "ended"] ELSE pc
    BY DEF NotifyWrite
  <2>3. CASE n = Self
    BY <1>a, <2>1, <2>2, <2>3
  <2>4. CASE n # Self
    BY <2>1, <2>2, <2>4
  <2> QED BY <2>3, <2>4
<1>3. b \in BatchRecord /\ b.of = batch[t].of
  <2>1. batch[t] \in BatchRecord /\ decrement.read \in Int
    BY DEF IInv, TypeOK, BatchRecord
  <2>2. decrement.read - 1 \in Int /\ (batch[t].deleting \/ decrement.read = 1) \in BOOLEAN
    BY <2>1
  <2> QED BY <2>1, <2>2, BatchCounted
<1>4. batch' = [batch EXCEPT ![t] = b]
  BY DEF NotifyWrite, Counted
<1> HIDE DEF b
<1>5. batch' \in [Trx -> BatchRecord] /\ \A v \in Trx : batch'[v].of = batch[v].of
  BY <1>3, <1>4, OneBatch DEF IInv
<1>6. /\ notice' \in [Notices -> {"none", "asked", "flushed", "done"}]
      /\ decrement' \in [of: Notices \union {<<>>}, read: Int]
  <2>1. notice' = [notice EXCEPT ![<<t, n>>] = "done"] /\ decrement' = NoDecrement
    BY DEF NotifyWrite
  <2>2. notice' \in [Notices -> {"none", "asked", "flushed", "done"}]
    BY <2>1, OneNotice DEF IInv
  <2> QED BY <2>1, <2>2 DEF NoDecrement
<1>T. TypeOK'
  BY <1>1, <1>2, <1>5, <1>6 DEF IInv, TypeOK, BatchRecord
<1>L. \A v \in Trx : LocksOK(v)'
  BY <1>1, <1>2, SessionTypes DEF IInv, SessionOK, LocksOK
<1>A. \A v \in Trx : ActiveOK(v)'
  BY <1>1, <1>2, SessionTypes DEF IInv, SessionOK, ActiveOK, LocksOK
<1>S. \A v \in Trx : SyncOK(v)'
  BY <1>1, <1>2, SessionTypes DEF IInv, SessionOK, SyncOK, Syncer, InSync
<1>B. \A v \in Trx : SlotOK(v)'
  BY <1>1, <1>2, SlotFrame DEF IInv, SessionOK, Early, Finish
<1>C. \A v \in Trx : FailedOK(v)'
  BY <1>1, <1>2, SessionTypes DEF IInv, SessionOK, FailedOK
<1>Y. SomeSyncer'
  BY <1>1, <1>2 DEF IInv, SomeSyncer, Syncer
<1>P. PagesOK'
  BY <1>1, <1>2, PagesFrame DEF IInv, InSync
<1>D. DataOK'
  BY <1>1, <1>2, DataFrame DEF IInv, Early
<1>Q. QueuedOK'
  BY <1>1, <1>2, <1>5, QueuedFrame DEF IInv, Finish
<1>W. WaitersOK'
  BY <1>1, <1>2, WaitersFrame DEF IInv
<1>Z. SleepersOK'
  BY <1>1, <1>2, SleepersFrame DEF IInv, SessionOK
<1>N. NotifyOK'
  <2>1. \A v \in Trx : <<v, Self>> # <<>>
    OBVIOUS
  <2> QED BY <2>1 DEF NotifyOK, NotifyWrite, NoDecrement
<1>F. FreeExact'
  BY <1>1, <1>2, FreeFrame DEF IInv
<1>R. SleepersRemembered'
  BY <1>1, <1>2, RememberedFrame DEF IInv
<1> QED BY <1>T, <1>L, <1>A, <1>S, <1>B, <1>C, <1>Y, <1>P, <1>D, <1>Q, <1>W, <1>Z, <1>N, <1>F, <1>R DEF IInv, SessionOK

\* delete_entry()
LEMMA DeleteEntryStep ==
  ASSUME IInv, NEW t \in Trx, NEW u \in Trx, DeleteEntry(t, u)
  PROVE  IInv'
<1>1. UNCHANGED <<disk, active, syncing, pool, lockActive, lockSync, lockPool, cookie, failed, pending, notice, decrement, durable, errors>>
  BY DEF DeleteEntry, pageVars, locks, session, checkpoint
<1> DEFINE q == cookie[u].page
           s == cookie[u].slot
           r == [page[q] EXCEPT !.free = page[q].free + 1, !.ptr = Min({page[q].ptr, s})]
<1>2. /\ pc' \in [Trx -> Place]
      /\ \A v \in Trx : pc'[v] = pc[v] \/ (pc[v] = "pool_wait" /\ pc'[v] = "pool")
  BY SessionTypes DEF IInv, DeleteEntry, SignalPool, Place
<1>3. /\ u \in batch[t].of /\ Stored(u) /\ pc[u] \in Finish
      /\ q \in Page /\ s \in Slot(q) /\ data[q][s] = u
  BY DEF IInv, DeleteEntry, QueuedOK, Stored, HasSlot, Finish
<1>4. /\ batch' \in [Trx -> BatchRecord]
      /\ batch'[t].of = batch[t].of \ {u}
      /\ \A v \in Trx \ {t} : batch'[v].of = batch[v].of
  <2> DEFINE b == Without(batch[t], batch[t].of \ {u})
  <2>1. batch[t] \in BatchRecord
    BY DEF IInv, TypeOK, BatchRecord
  <2>2. b \in BatchRecord /\ b.of = batch[t].of \ {u}
    <3>1. batch[t].of \ {u} \in SUBSET Trx
      BY <2>1 DEF BatchRecord
    <3> QED BY <2>1, <3>1, BatchDeleted
  <2>3. batch' = [batch EXCEPT ![t] = b]
    BY DEF DeleteEntry, Without
  <2> HIDE DEF b
  <2> QED BY <2>2, <2>3, OneBatch DEF IInv
<1>5. /\ DOMAIN data' = Page
      /\ \A p \in Page : data'[p] \in [Slot(p) -> Trx \union {NoTrx}]
      /\ \A p \in Page : \A x \in Slot(p) :
           data'[p][x] = IF p = q /\ x = s THEN NoTrx ELSE data[p][x]
  <2>1. TypeOK /\ SetSlot(q, s, NoTrx) /\ NoTrx \in Trx \union {NoTrx}
    BY DEF IInv, DeleteEntry, SetSlot
  <2> HIDE DEF q, s
  <2> QED BY <1>3, <2>1, OneSlot
<1> DEFINE empty == {x \in Slot(q) : data[q][x] = NoTrx}
<1>6. /\ page[q].free = Cardinality(empty) /\ \A x \in empty : x >= page[q].ptr
      /\ IsFiniteSet(empty) /\ empty \subseteq Nat /\ s \notin empty /\ s \in 1 .. Size[q]
      /\ Cardinality(empty) < Size[q]
  <2>1. Slot(q) = 1 .. Size[q] /\ IsFiniteSet(Slot(q)) /\ Cardinality(Slot(q)) = Size[q] /\ Size[q] \in Nat
    BY <1>3, SlotFacts
  <2>2. s \notin empty /\ empty \in SUBSET Slot(q) /\ NoTrx \notin Trx
    BY <1>3
  <2>3. IsFiniteSet(empty) /\ Cardinality(empty) <= Cardinality(Slot(q))
        /\ (Cardinality(Slot(q)) = Cardinality(empty) => Slot(q) = empty)
    BY <2>1, <2>2, FS_Subset
  <2>4. Cardinality(empty) \in Nat
    BY <2>3, FS_CardinalityType
  <2>5. page[q].free = Cardinality(empty) /\ \A x \in empty : x >= page[q].ptr
    BY <1>3 DEF IInv, FreeExact
  <2> HIDE DEF empty, q, s
  <2> QED BY <1>3, <2>1, <2>2, <2>3, <2>4, <2>5
<1>7. /\ Min({page[q].ptr, s}) \in {page[q].ptr, s}
      /\ Min({page[q].ptr, s}) <= page[q].ptr /\ Min({page[q].ptr, s}) <= s
      /\ page[q].ptr \in 1 .. Size[q] + 1 /\ page[q].free \in 0 .. Size[q] /\ Size[q] \in Nat
  <2>1. page[q].ptr \in 1 .. Size[q] + 1 /\ page[q].free \in 0 .. Size[q] /\ Size[q] \in Nat
    BY <1>3, PageTypes DEF IInv
  <2>2. {page[q].ptr, s} \in SUBSET Nat
    BY <1>6, <2>1
  <2> QED BY <2>1, <2>2, MinFacts
<1>8. /\ page' = [page EXCEPT ![q] = r]
      /\ r \in PageRecord(q) /\ r.waiters = page[q].waiters /\ r.state = page[q].state
      /\ r.free = page[q].free + 1 /\ r.ptr = Min({page[q].ptr, s})
  <2>1. page[q] \in PageRecord(q)
    BY <1>3, PageTypes DEF IInv, PageRecord
  <2>2. page' = [page EXCEPT ![q] = r]
    BY DEF DeleteEntry
  <2>3. page[q].free + 1 \in 0 .. Size[q] /\ Min({page[q].ptr, s}) \in 1 .. Size[q] + 1
    <3> HIDE DEF empty, q, s
    <3> QED BY <1>6, <1>7
  <2> HIDE DEF q, s
  <2> QED BY <2>1, <2>2, <2>3 DEF PageRecord
<1> HIDE DEF r
<1>9. /\ DOMAIN page' = Page /\ \A p \in Page : page'[p] \in PageRecord(p)
      /\ page'[q] = r /\ \A p \in Page \ {q} : page'[p] = page[p]
  BY <1>3, <1>8, OnePage DEF IInv
<1>10. \A v \in Trx \ {u} : Stored(v) => Stored(v)'
  BY <1>1, <1>3, <1>5 DEF Stored, HasSlot
<1>11. \A p \in Page : page'[p].waiters = page[p].waiters /\ page'[p].state = page[p].state
  BY <1>8, <1>9
<1> HIDE DEF empty
<1>T. TypeOK'
  <2>1. DOMAIN page' = Page /\ \A p \in Page : page'[p] \in PageRecord(p)
    BY <1>9
  <2>2. DOMAIN data' = Page /\ \A p \in Page : data'[p] \in [Slot(p) -> Trx \union {NoTrx}]
    BY <1>5
  <2>3. batch' \in [Trx -> BatchRecord]
    BY <1>4
  <2> QED BY <1>1, <1>2, <2>1, <2>2, <2>3 DEF IInv, TypeOK, PageRecord, BatchRecord
<1>L. \A v \in Trx : LocksOK(v)'
  BY <1>1, <1>2, SessionTypes DEF IInv, SessionOK, LocksOK
<1>A. \A v \in Trx : ActiveOK(v)'
  <2>1. \A v \in Trx : /\ pc'[v] \in {"store", "lock_sync", "overflow", "pool_wait"} => pc'[v] = pc[v]
                       /\ pc'[v] = "pool" => pc[v] \in {"pool", "pool_wait"}
    BY <1>2
  <2>2. /\ active \in Page \union {NoPage}
        /\ \A p \in Page : page[p].free \in Nat /\ (page[p].free > 0 => page'[p].free > 0)
    <3>1. active \in Page \union {NoPage} /\ \A p \in Page : page[p].free \in Nat
      BY PageTypes DEF IInv
    <3>2. \A p \in Page : page'[p].free = page[p].free \/ page'[p].free = page[p].free + 1
      BY <1>8, <1>9
    <3> QED BY <3>1, <3>2
  <2> QED BY <1>1, <2>1, <2>2 DEF IInv, SessionOK, ActiveOK
<1>S. \A v \in Trx : SyncOK(v)'
  BY <1>1, <1>2, SessionTypes DEF IInv, SessionOK, SyncOK, Syncer, InSync
<1>B. \A v \in Trx : SlotOK(v)'
  <2>1. \A v \in Trx : HasSlot(v)' = HasSlot(v)
    BY <1>1 DEF HasSlot
  <2> QED BY <1>2, <1>3, <1>10, <2>1 DEF IInv, SessionOK, SlotOK, Early, Finish
<1>C. \A v \in Trx : FailedOK(v)'
  BY <1>1, <1>2, SessionTypes DEF IInv, SessionOK, FailedOK
<1>Y. SomeSyncer'
  BY <1>1, <1>2 DEF IInv, SomeSyncer, Syncer
<1>P. PagesOK'
  BY <1>1, <1>2, <1>11, PagesFrame DEF IInv, InSync
<1>D. DataOK'
  <2>1. \A p \in Page : \A x \in Slot(p) : data[p][x] # NoTrx => data[p][x] \in Trx
    BY PageTypes DEF IInv
  <2> QED BY <1>1, <1>2, <1>5, <2>1 DEF IInv, DataOK, Early
<1>Q. QueuedOK'
  <2>1. /\ pending \subseteq Trx /\ u \notin pending
        /\ \A v, w \in Trx : w \in batch'[v].of => w # u /\ w \in batch[v].of
    <3>1. pending \subseteq Trx
      BY DEF IInv, TypeOK
    <3>2. u \notin pending /\ \A v \in Trx : u \in batch[v].of => v = t
      BY <1>3 DEF IInv, QueuedOK
    <3> QED BY <1>3, <1>4, <3>1, <3>2
  <2>2. \A v \in Trx : pc[v] \in Finish => pc'[v] = pc[v]
    BY <1>2 DEF Finish
  <2>3. \A v \in pending : pc'[v] = "ended" /\ ~failed'[v] /\ Stored(v)'
    BY <1>1, <1>10, <2>1, <2>2 DEF IInv, QueuedOK, Finish
  <2>4. \A v, w \in Trx : w \in batch'[v].of =>
          /\ pc'[w] \in Finish /\ ~failed'[w] /\ Stored(w)' /\ w \notin pending' /\ pc'[v] \in Finish
    BY <1>1, <1>10, <2>1, <2>2 DEF IInv, QueuedOK, Finish
  <2>5. \A v, w \in Trx : \A x \in batch'[v].of : x \in batch'[w].of => v = w
    BY <1>4, <2>1 DEF IInv, TypeOK, QueuedOK
  <2> QED BY <1>1, <2>3, <2>4, <2>5 DEF QueuedOK, Finish
<1>W. WaitersOK'
  BY <1>1, <1>2, <1>11, WaitersFrame DEF IInv
<1>Z. SleepersOK'
  BY <1>1, <1>2, <1>11, SleepersFrame DEF IInv, SessionOK
<1>N. NotifyOK'
  BY <1>1, <1>2 DEF IInv, NotifyOK
<1>F. FreeExact'
  <2>1. \A p \in Page \ {q} : page'[p] = page[p] /\ \A x \in Slot(p) : data'[p][x] = data[p][x]
    BY <1>5, <1>9
  <2> HIDE DEF q, s
  <2>2. {x \in Slot(q) : data'[q][x] = NoTrx} = empty \cup {s}
    BY <1>3, <1>5 DEF empty
  <2>3. Cardinality(empty \cup {s}) = Cardinality(empty) + 1
    BY <1>6, FS_AddElement
  <2>4. page'[q].free = Cardinality(empty \cup {s})
    BY <1>6, <1>8, <1>9, <2>3
  <2>5. \A x \in empty \cup {s} : x >= page'[q].ptr
    BY <1>6, <1>7, <1>8, <1>9
  <2>6. ASSUME NEW p \in Page
        PROVE  LET e == {x \in Slot(p) : data'[p][x] = NoTrx} IN
               page'[p].free = Cardinality(e) /\ \A x \in e : x >= page'[p].ptr
    <3>1. CASE p = q
      BY <2>2, <2>4, <2>5, <3>1
    <3>2. CASE p # q
      <4>1. {x \in Slot(p) : data'[p][x] = NoTrx} = {x \in Slot(p) : data[p][x] = NoTrx}
        BY <2>1, <3>2
      <4> QED BY <2>1, <3>2, <4>1 DEF IInv, FreeExact
    <3> QED BY <3>1, <3>2
  <2> QED BY <1>1, <2>6 DEF FreeExact
<1>R. SleepersRemembered'
  BY <1>1, <1>2, RememberedFrame DEF IInv
<1> QED BY <1>T, <1>L, <1>A, <1>S, <1>B, <1>C, <1>Y, <1>P, <1>D, <1>Q, <1>W, <1>Z, <1>N, <1>F, <1>R DEF IInv, SessionOK

-----------------------------------------------------------------------------
(* The invariant *)

LEMMA Initially ==
  ASSUME Init PROVE IInv
<1>1. /\ \A p \in Page : p \in Nat \ {0} /\ Size[p] \in Nat \ {0} /\ Slot(p) = 1 .. Size[p]
      /\ 1 \in Page /\ NoPage \notin Page
  BY DEF Page, NoPage, Slot
<1>2. \A p \in Page : data[p] = [s \in Slot(p) |-> NoTrx]
  BY DEF Init
<1>3. /\ pool \in Seq(Page) /\ Len(pool) = NPages - 1
      /\ \A i \in 1 .. NPages - 1 : pool[i] = i + 1
  <2>1. pool = [i \in 1 .. NPages - 1 |-> i + 1] /\ NPages - 1 \in Nat
    BY DEF Init
  <2>2. \A i \in 1 .. NPages - 1 : i + 1 \in Page
    BY DEF Page
  <2> QED BY <2>1, <2>2
<1>4. SeqInj(pool) /\ IsInjective(pool)
  BY <1>3, InjectiveSeq, SMTT(30) DEF SeqInj
<1>5. \A p \in Page : p # 1 <=> In(pool, p)
  <2> SUFFICES ASSUME NEW p \in Page PROVE p # 1 <=> In(pool, p)
    OBVIOUS
  <2>1. p \in 1 .. NPages /\ NPages \in Nat
    BY DEF Page
  <2>2. CASE p = 1
    BY <1>3, <2>1, <2>2 DEF In
  <2>3. CASE p # 1
    <3>1. p - 1 \in 1 .. NPages - 1
      BY <2>1, <2>3
    <3>2. pool[p - 1] = p /\ p - 1 \in 1 .. Len(pool)
      BY <1>3, <2>1, <3>1
    <3> QED BY <2>3, <3>2 DEF In
  <2> QED BY <2>2, <2>3
<1>6. TypeOK
  <2>1. /\ DOMAIN data = Page /\ DOMAIN disk = Page /\ DOMAIN page = Page
        /\ \A p \in Page : data[p] \in [Slot(p) -> Trx \union {NoTrx}]
        /\ \A p \in Page : disk[p] \in [Slot(p) -> Trx \union {NoTrx}]
    BY <1>2 DEF Init
  <2>2. \A p \in Page : page[p] \in PageRecord(p)
    <3>1. \A p \in Page : page[p] = [free |-> Size[p], ptr |-> 1, waiters |-> 0, state |-> "POOL"]
      BY DEF Init
    <3>2. \A p \in Page : Size[p] \in 0 .. Size[p] /\ 1 \in 1 .. Size[p] + 1
      BY <1>1
    <3>3. ASSUME NEW p \in Page PROVE page[p] \in PageRecord(p)
      <4>1. Size[p] \in 0 .. Size[p] /\ 1 \in 1 .. Size[p] + 1
        BY <3>2
      <4>2. [free |-> Size[p], ptr |-> 1, waiters |-> 0, state |-> "POOL"] \in PageRecord(p)
        BY <4>1 DEF PageRecord
      <4> QED BY <3>1, <4>2
    <3> QED BY <3>3
  <2>3. /\ active \in Page \union {NoPage} /\ syncing \in Page \union {NoPage}
        /\ {lockActive, lockSync, lockPool} \subseteq Trx \union {NoTrx}
    BY <1>1 DEF Init
  <2>4. /\ pc \in [Trx -> Place] /\ failed \in [Trx -> BOOLEAN] /\ pending \subseteq Trx
        /\ cookie \in [Trx -> [page: Page \union {NoPage}, slot: Nat]]
    BY DEF Init, Place
  <2>5. batch \in [Trx -> BatchRecord]
    BY DEF Init, BatchRecord
  <2>6. /\ notice \in [Notices -> {"none", "asked", "flushed", "done"}]
        /\ decrement \in [of: Notices \union {<<>>}, read: Int]
        /\ durable \in [Checkpoint -> SUBSET Trx] /\ errors \in 0 .. MaxErrors
    BY DEF Init, NoDecrement
  <2> QED BY <1>3, <1>4, <2>1, <2>2, <2>3, <2>4, <2>5, <2>6 DEF TypeOK, PageRecord, BatchRecord
<1>7. \A t \in Trx : pc[t] = "start" /\ ~failed[t]
  BY DEF Init
<1>8. \A t \in Trx : SessionOK(t)
  BY <1>7 DEF SessionOK, LocksOK, ActiveOK, SyncOK, SlotOK, FailedOK, Syncer, InSync, Early
<1>9. SomeSyncer
  BY DEF Init, SomeSyncer
<1>10. PagesOK
  <2>1. active = 1 /\ \A p \in Page : page[p].state = "POOL"
    BY DEF Init
  <2> QED BY <1>1, <1>5, <2>1 DEF PagesOK
<1>11. DataOK
  BY <1>2 DEF DataOK
<1>12. QueuedOK
  BY DEF Init, QueuedOK
<1>13. WaitersOK
  <2>1. \A p \in Page : Waiters(p) = {}
    BY <1>7 DEF Waiters
  <2>2. \A p \in Page : page[p].waiters = 0
    BY DEF Init
  <2> QED BY <2>1, <2>2, FS_EmptySet DEF WaitersOK
<1>14. SleepersOK /\ SleepersRemembered
  BY <1>7 DEF SleepersOK, SleepersRemembered, Sleepers
<1>15. NotifyOK
  <2>1. decrement.of = <<>> /\ \A v \in Trx : <<v, Self>> # <<>>
    BY DEF Init, NoDecrement
  <2> QED BY <2>1 DEF NotifyOK
<1>16. FreeExact
  <2> SUFFICES ASSUME NEW p \in Page
               PROVE  LET e == {s \in Slot(p) : data[p][s] = NoTrx} IN
                      page[p].free = Cardinality(e) /\ \A s \in e : s >= page[p].ptr
    BY DEF FreeExact
  <2>1. {s \in Slot(p) : data[p][s] = NoTrx} = Slot(p)
    BY <1>2
  <2>2. page[p].free = Size[p] /\ page[p].ptr = 1
    BY DEF Init
  <2>3. Cardinality(Slot(p)) = Size[p] /\ \A s \in Slot(p) : s >= 1
    BY <1>1, SlotFacts
  <2> QED BY <2>1, <2>2, <2>3
<1> QED BY <1>6, <1>8, <1>9, <1>10, <1>11, <1>12, <1>13, <1>14, <1>15, <1>16 DEF IInv

\* Nothing happens.
LEMMA Stutters ==
  ASSUME IInv, UNCHANGED vars PROVE IInv'
<1>1. UNCHANGED <<data, disk, page, active, syncing, pool, lockActive, lockSync, lockPool, pc, cookie,
                  failed, pending, batch, notice, decrement, durable, errors>>
  BY DEF vars, pageVars, locks, session, checkpoint
<1>2. TypeOK'
  BY <1>1 DEF IInv, TypeOK
<1>3. \A t \in Trx : SessionOK(t)'
  BY <1>1 DEF IInv, SessionOK, LocksOK, ActiveOK, SyncOK, SlotOK, FailedOK, HasSlot, Stored
<1>4. SomeSyncer' /\ PagesOK' /\ DataOK' /\ SleepersOK' /\ NotifyOK'
  BY <1>1 DEF IInv, SomeSyncer, PagesOK, BeingSynced, DataOK, SleepersOK, NotifyOK
<1>5. QueuedOK'
  BY <1>1, QueuedFrame DEF IInv
<1>6. WaitersOK'
  BY <1>1, WaitersFrame DEF IInv
<1>7. FreeExact' /\ SleepersRemembered'
  BY <1>1, FreeFrame, RememberedFrame DEF IInv
<1> QED BY <1>2, <1>3, <1>4, <1>5, <1>6, <1>7 DEF IInv

LEMMA Preserved ==
  ASSUME IInv, [Next]_vars PROVE IInv'
<1>1. ASSUME NEW t \in Trx, LogOneTransaction(t) PROVE IInv'
  BY <1>1, LockActiveStep, GetActiveFromPoolStep, OverflowStep, StoreStep, LockSyncStep,
     RegisterStep, CheckStep, RelockStep, ClearActiveStep, SyncStep, ToPoolStep, FreeSyncingStep
     DEF LogOneTransaction
<1>2. ASSUME NEW t \in Trx, CheckpointStep(t) PROVE IInv'
  BY <1>2, HookReadStep, HookWriteStep, EngineFlushStep, NotifyReadStep, NotifyWriteStep,
     DeleteEntryStep DEF CheckpointStep
<1>3. ASSUME NEW t \in Trx, Step(t) PROVE IInv'
  BY <1>1, <1>2, <1>3, CommitStep, UnlogStep DEF Step
<1> QED BY <1>3, Stutters DEF Next, Terminated

\* The invariant holds in every state that sessions can bring the log into.
THEOREM Invariance == Spec => []IInv
BY Initially, Preserved, PTL DEF Spec

\* Every variable keeps its type: in particular the counters of a page stay in
\* their bounds and no page is in the pool twice.
THEOREM TypeCorrect == Spec => []TypeOK
<1>1. IInv => TypeOK
  BY DEF IInv
<1> QED BY <1>1, Invariance, PTL

\* The free slots of every page are counted exactly and none is before ptr, so that
\* the search in log_one_transaction() always finds one, whatever delete_entry()
\* does in between.
THEOREM SlotsAreCounted == Spec => []FreeExact
<1>1. IInv => FreeExact
  BY DEF IInv
<1> QED BY <1>1, Invariance, PTL

\* No session is left asleep in the wait of log_one_transaction() with no one to
\* wake it up.
THEOREM NoSessionIsForgotten == Spec => []SleepersRemembered
<1>1. IInv => SleepersRemembered
  BY DEF IInv
<1> QED BY <1>1, Invariance, PTL

LEMMA OnePlaceHolds ==
  ASSUME IInv PROVE OnePlace
<1> DEFINE syncer == {t \in Trx : pc[t] \in {"clear", "sync", "synced", "pooled"}}
           beingSynced == {syncing : t \in {u \in Trx : pc[u] \in {"sync", "synced"}}}
           activePage == {active} \ {NoPage}
<1>1. /\ pool \in Seq(Page) /\ SeqInj(pool) /\ NoPage \notin Page
      /\ active \in Page \union {NoPage}
  BY PageTypes, SyncerFacts DEF IInv
<1>2. ToSet(pool) \subseteq Page /\ \A p : p \in ToSet(pool) <=> In(pool, p)
  BY <1>1, ToSetIn
<1>3. IF syncing = NoPage THEN syncer = {} ELSE \E t : syncer = {t}
  <2>1. CASE syncing = NoPage
    BY <2>1, SyncerFacts DEF Syncer
  <2>2. CASE syncing # NoPage
    <3>1. PICK t \in Trx : pc[t] \in Syncer
      BY <2>2 DEF IInv, SomeSyncer
    <3>2. syncer = {t}
      BY <3>1 DEF IInv, SessionOK, SyncOK, Syncer
    <3> QED BY <2>2, <3>2
  <2> QED BY <2>1, <2>2
<1>4. Cardinality(syncer) = IF syncing = NoPage THEN 0 ELSE 1
  <2> HIDE DEF syncer
  <2> QED BY <1>3, FS_EmptySet, FS_Singleton
<1>5. \A p : p \in beingSynced <=> BeingSynced(p)
  BY DEF BeingSynced, InSync
<1>6. \A p : BeingSynced(p) => p \in Page /\ p # active /\ ~In(pool, p) /\ beingSynced = {p}
  <2>1. \A p : BeingSynced(p) => p \in Page /\ p # active /\ ~In(pool, p)
    BY SyncerFacts DEF IInv, SessionOK, SyncOK, BeingSynced, InSync, Syncer
  <2>2. \A p, q : BeingSynced(p) /\ BeingSynced(q) => p = q
    BY DEF BeingSynced
  <2> QED BY <1>5, <2>1, <2>2
<1>7. beingSynced = {} \/ \E p : beingSynced = {p}
  BY <1>5, <1>6
<1>8. activePage = {} \/ activePage = {active}
  OBVIOUS
<1>9. activePage \subseteq Page /\ beingSynced \subseteq Page
  BY <1>1, <1>5, <1>6
<1>10. ~In(pool, active) /\ \A p \in Page : p = active \/ In(pool, p) \/ BeingSynced(p)
  BY DEF IInv, PagesOK
<1>11. activePage \union beingSynced \union ToSet(pool) = Page
  <2>1. ASSUME NEW p \in Page PROVE p \in activePage \union beingSynced \union ToSet(pool)
    BY <1>1, <1>2, <1>5, <1>10
  <2> QED BY <1>2, <1>9, <2>1
<1>12. IsFiniteSet(ToSet(pool)) /\ Cardinality(ToSet(pool)) = Len(pool)
  <2>1. Len(pool) \in Nat /\ pool \in [1 .. Len(pool) -> Page] /\ DOMAIN pool = 1 .. Len(pool)
    BY <1>1
  <2>2. pool \in Bijection(1 .. Len(pool), ToSet(pool))
    BY <1>1, <2>1 DEF SeqInj, ToSet, Bijection, Injection, Surjection, IsInjective
  <2>3. IsFiniteSet(1 .. Len(pool)) /\ Cardinality(1 .. Len(pool)) = Len(pool)
    BY <2>1, FS_Interval
  <2> QED BY <2>2, <2>3, FS_Bijection DEF ExistsBijection
<1> HIDE DEF beingSynced, activePage, syncer
<1>13. /\ IsFiniteSet(activePage) /\ IsFiniteSet(beingSynced)
       /\ Cardinality(activePage) \in Nat /\ Cardinality(beingSynced) \in Nat /\ Len(pool) \in Nat
  <2>1. IsFiniteSet(activePage) /\ Cardinality(activePage) \in Nat
    BY <1>8, FS_EmptySet, FS_Singleton
  <2>2. IsFiniteSet(beingSynced) /\ Cardinality(beingSynced) \in Nat
    <3>1. CASE beingSynced = {}
      BY <3>1, FS_EmptySet
    <3>2. CASE \E p : beingSynced = {p}
      <4>1. PICK p : beingSynced = {p}
        BY <3>2
      <4>2. IsFiniteSet(beingSynced) /\ Cardinality(beingSynced) = 1
        BY <4>1, FS_Singleton, Zenon
      <4> QED BY <4>2
    <3> QED BY <1>7, <3>1, <3>2
  <2> QED BY <1>1, <2>1, <2>2
<1>14. activePage \cap beingSynced = {} /\ (activePage \union beingSynced) \cap ToSet(pool) = {}
  <2>1. activePage \subseteq {active}
    BY <1>8
  <2> QED BY <1>2, <1>5, <1>6, <1>10, <2>1
<1>15. /\ IsFiniteSet(activePage \union beingSynced)
       /\ Cardinality(activePage \union beingSynced) = Cardinality(activePage) + Cardinality(beingSynced)
  <2>1. Cardinality(activePage \cap beingSynced) = 0
    BY <1>14, FS_EmptySet
  <2>2. /\ IsFiniteSet(activePage \union beingSynced)
        /\ Cardinality(activePage \union beingSynced)
             = Cardinality(activePage) + Cardinality(beingSynced) - Cardinality(activePage \cap beingSynced)
    BY <1>13, FS_Union
  <2> QED BY <1>13, <2>1, <2>2
<1>16. Cardinality(Page) = Cardinality(activePage) + Cardinality(beingSynced) + Len(pool)
  <2>1. Cardinality((activePage \union beingSynced) \cap ToSet(pool)) = 0
    BY <1>14, FS_EmptySet
  <2>2. Cardinality((activePage \union beingSynced) \union ToSet(pool))
        = Cardinality(activePage \union beingSynced) + Cardinality(ToSet(pool))
          - Cardinality((activePage \union beingSynced) \cap ToSet(pool))
    BY <1>12, <1>15, FS_Union
  <2>3. Cardinality(Page) = Cardinality((activePage \union beingSynced) \union ToSet(pool))
    BY <1>11
  <2> HIDE DEF Page
  <2> QED BY <1>12, <1>13, <1>15, <2>1, <2>2, <2>3
<1>17. Cardinality(Page) = NPages
  BY FS_Interval DEF Page
<1>18. Len(pool) + Cardinality(activePage) + Cardinality(beingSynced) = NPages
  BY <1>13, <1>16, <1>17
<1> QED BY <1>4, <1>11, <1>18 DEF OnePlace, syncer, beingSynced, activePage

\* One session at a time has the syncing slot; no page is lost and none is in two
\* places, also while the page of a sync that is just ending is taken again.
THEOREM PagesStayInOnePlace == Spec => []OnePlace
BY OnePlaceHolds, Invariance, PTL

-----------------------------------------------------------------------------
(* Recovery *)

\* What is on disk of the pages that are not being written is what is in them.
LEMMA DiskStep ==
  ASSUME IInv, DiskOK, Next PROVE DiskOK'
<1> DEFINE Clean(p) == \A s \in Slot(p) : data[p][s] # NoTrx => disk[p][s] = data[p][s]
<1>a. /\ \A p \in Page : page[p].state = "POOL" => Clean(p)
      /\ \A t \in Trx : pc[t] = "synced" /\ ~failed[t] => Clean(syncing)
  BY DEF DiskOK
<1>b. ASSUME \A p \in Page : page'[p].state = "POOL" => Clean(p)',
             \A t \in Trx : pc'[t] = "synced" /\ ~failed'[t]
                => \A s \in Slot(syncing') : data'[syncing'][s] # NoTrx
                                             => disk'[syncing'][s] = data'[syncing'][s]
      PROVE  DiskOK'
  BY <1>b DEF DiskOK
<1>c. ASSUME UNCHANGED <<data, disk, syncing>>,
             \A p \in Page : page'[p].state = page[p].state,
             \A t \in Trx : pc'[t] = "synced" => pc[t] = "synced" /\ failed'[t] = failed[t]
      PROVE  DiskOK'
  BY <1>c DEF DiskOK
<1>d. pc \in [Trx -> Place]
  BY SessionTypes DEF IInv
<1>1. ASSUME NEW t \in Trx, LockActive(t) \/ GetActiveFromPool(t) \/ Overflow(t) \/ Relock(t)
                            \/ Commit(t) \/ Unlog(t) \/ HookRead(t) \/ HookWrite(t)
      PROVE  DiskOK'
  <2>1. UNCHANGED <<data, disk, page, syncing, failed>>
    BY <1>1 DEF LockActive, GetActiveFromPool, Overflow, Relock, Commit, Unlog, HookRead, HookWrite,
                pageVars, session
  <2>2. \E x \in Place \ {"synced"} : pc' = [pc EXCEPT ![t] = x]
    BY <1>1 DEF LockActive, GetActiveFromPool, Overflow, Relock, Commit, Unlog, HookRead, HookWrite,
                Goto, Place
  <2> QED BY <1>c, <1>d, <2>1, <2>2
<1>2. ASSUME NEW t \in Trx, Store(t) PROVE DiskOK'
  <2> DEFINE s == FirstEmpty(active)
  <2>1. /\ active \in Page /\ s \in Slot(active) /\ TypeOK /\ t \in Trx \union {NoTrx}
        /\ SetSlot(active, s, t)
    BY <1>2, StoreFacts DEF IInv, Store, SetSlot
  <2>2. \A p \in Page \ {active} : data'[p] = data[p]
    <3> HIDE DEF s
    <3> QED BY <2>1, OneSlot
  <2>3. /\ UNCHANGED <<disk, syncing, failed>>
        /\ \A v \in Trx : pc'[v] = "synced" => pc[v] = "synced"
    BY <1>2, <1>d DEF Store, Goto
  <2>4. page'[active].state = "DIRTY" /\ \A p \in Page \ {active} : page'[p] = page[p]
    BY <1>2, <2>1, PageTypes DEF IInv, Store
  <2>5. \A v \in Trx : pc[v] = "synced" => syncing \in Page \ {active}
    BY SyncerFacts DEF IInv, SessionOK, SyncOK, InSync, Syncer
  <2> QED BY <1>a, <1>b, <2>2, <2>3, <2>4, <2>5
<1>3. ASSUME NEW t \in Trx, LockSync(t) PROVE DiskOK'
  <2>1. /\ UNCHANGED <<data, disk, page, failed>>
        /\ \A v \in Trx : pc'[v] = "synced" => pc[v] = "synced"
        /\ syncing' = syncing \/ syncing = NoPage
    BY <1>3, <1>d DEF LockSync, Goto
  <2>2. \A v \in Trx : pc[v] = "synced" => syncing # NoPage
    BY SyncerFacts DEF Syncer
  <2> QED BY <2>1, <2>2 DEF DiskOK
<1>4. ASSUME NEW t \in Trx, Register(t) PROVE DiskOK'
  <2>1. UNCHANGED <<data, disk, syncing, failed>>
    BY <1>4 DEF Register
  <2>2. \A p \in Page : page'[p].state = page[p].state
    <3>1. cookie[t].page \in Page
      BY <1>4, CookieFacts DEF Register, Early
    <3> QED BY <1>4, <3>1, PageTypes DEF IInv, Register
  <2>3. \A v \in Trx : pc'[v] = "synced" => pc[v] = "synced"
    BY <1>4, <1>d DEF Register, Goto
  <2> QED BY <1>c, <2>1, <2>2, <2>3
<1>5. ASSUME NEW t \in Trx, Check(t) PROVE DiskOK'
  <2>1. /\ UNCHANGED <<data, disk>>
        /\ \A v \in Trx : pc'[v] = "synced" => v # t /\ pc[v] = "synced"
    BY <1>5, <1>d DEF Check, Goto, SignalPool
  <2>2. \A p \in Page : page'[p].state = page[p].state
    <3>1. cookie[t].page \in Page
      BY <1>5, CookieFacts DEF Check, Early
    <3>2. page' = page \/ page' = [page EXCEPT ![cookie[t].page].waiters = @ - 1]
      BY <1>5 DEF Check
    <3>3. CASE page' = page
      BY <3>3
    <3>4. CASE page' = [page EXCEPT ![cookie[t].page].waiters = @ - 1]
      BY <3>1, <3>4, PageTypes DEF IInv
    <3> QED BY <3>2, <3>3, <3>4
  <2>3. \A v \in Trx \ {t} : failed'[v] = failed[v]
    BY <1>5, SessionTypes DEF IInv, Check
  <2>4. syncing' = syncing \/ syncing = NoPage
    BY <1>5 DEF Check
  <2>5. \A v \in Trx : pc[v] = "synced" => syncing # NoPage
    BY SyncerFacts DEF Syncer
  <2> QED BY <2>1, <2>2, <2>3, <2>4, <2>5 DEF DiskOK
<1>6. ASSUME NEW t \in Trx, ClearActive(t) PROVE DiskOK'
  <2>1. /\ UNCHANGED <<data, disk, page, syncing, failed>>
        /\ \A v \in Trx : pc'[v] = "synced" => pc[v] = "synced"
    BY <1>6, <1>d DEF ClearActive
  <2> QED BY <1>c, <2>1
<1>7. ASSUME NEW t \in Trx, Sync(t) PROVE DiskOK'
  <2>1. /\ UNCHANGED <<data, page, syncing>> /\ pc[t] = "sync"
        /\ \A v \in Trx : pc'[v] = "synced" => v = t \/ pc[v] = "synced"
    BY <1>7, <1>d DEF Sync, Goto
  <2>2. syncing \in Page /\ \A v \in Trx \ {t} : pc[v] # "synced"
    BY <2>1, SyncerFacts DEF IInv, SessionOK, SyncOK, Syncer
  <2>3. CASE disk' = [disk EXCEPT ![syncing] = data[syncing]]
    <3>1. disk'[syncing] = data[syncing] /\ \A p \in Page \ {syncing} : disk'[p] = disk[p]
      BY <2>2, <2>3, PageTypes DEF IInv
    <3> QED BY <1>a, <1>b, <2>1, <2>2, <3>1
  <2>4. CASE UNCHANGED disk /\ failed' = [failed EXCEPT ![t] = TRUE]
    <3>1. failed'[t]
      BY <2>4, SessionTypes DEF IInv
    <3> QED BY <1>a, <1>b, <2>1, <2>2, <2>4, <3>1
  <2> QED BY <1>7, <2>3, <2>4 DEF Sync
<1>8. ASSUME NEW t \in Trx, ToPool(t) PROVE DiskOK'
  <2>1. /\ UNCHANGED <<data, disk, syncing, failed>> /\ pc[t] = "synced"
        /\ \A v \in Trx : pc'[v] = "synced" => v # t /\ pc[v] = "synced"
    BY <1>8, <1>d DEF ToPool, SignalPool
  <2>2. syncing \in Page
    BY <2>1, SyncerFacts DEF Syncer
  <2>3. /\ page'[syncing].state = IF failed[t] THEN "ERROR" ELSE "POOL"
        /\ \A p \in Page \ {syncing} : page'[p] = page[p]
    BY <1>8, <2>2, PageTypes DEF IInv, ToPool
  <2> QED BY <1>a, <1>b, <2>1, <2>2, <2>3
<1>9. ASSUME NEW t \in Trx, FreeSyncing(t) PROVE DiskOK'
  <2>1. /\ UNCHANGED <<data, disk, page, failed>> /\ pc[t] = "pooled"
    BY <1>9 DEF FreeSyncing
  <2>2. \A v \in Trx : pc'[v] = "synced" => pc[v] = "synced" /\ v # t
    <3>1. PICK ts : pc' = [u \in Trx |-> IF u = t THEN "logged" ELSE IF u \in ts THEN "woken" ELSE pc[u]]
      BY <1>9 DEF FreeSyncing
    <3> QED BY <3>1
  <2>3. \A v \in Trx : pc'[v] # "synced"
    BY <2>1, <2>2 DEF IInv, SessionOK, SyncOK, Syncer
  <2> QED BY <1>a, <1>b, <2>1, <2>3
<1>10. ASSUME NEW t \in Trx, NEW e \in Checkpoint, EngineFlush(t, e) PROVE DiskOK'
  <2>1. UNCHANGED <<data, disk, page, syncing, failed, pc>>
    BY <1>10 DEF EngineFlush, pageVars, session
  <2> QED BY <1>c, <2>1
<1>11. ASSUME NEW t \in Trx, NEW n \in Checkpoint \union {Self}, NotifyRead(t, n) \/ NotifyWrite(t, n)
       PROVE  DiskOK'
  <2>1. UNCHANGED <<data, disk, page, syncing, failed>>
    BY <1>11 DEF NotifyRead, NotifyWrite, pageVars, session
  <2>2. \A v \in Trx : pc'[v] = "synced" => pc[v] = "synced"
    BY <1>11, <1>d DEF NotifyRead, NotifyWrite, session
  <2> QED BY <1>c, <2>1, <2>2
<1>12. ASSUME NEW t \in Trx, NEW u \in Trx, DeleteEntry(t, u) PROVE DiskOK'
  <2> DEFINE q == cookie[u].page
             s == cookie[u].slot
  <2>1. UNCHANGED <<disk, syncing, failed>>
    BY <1>12 DEF DeleteEntry
  <2>2. \A v \in Trx : pc'[v] = "synced" => pc[v] = "synced"
    BY <1>12, <1>d DEF DeleteEntry, SignalPool
  <2>3. q \in Page /\ s \in Slot(q) /\ TypeOK /\ SetSlot(q, s, NoTrx) /\ NoTrx \in Trx \union {NoTrx}
    BY <1>12 DEF IInv, QueuedOK, Stored, HasSlot, DeleteEntry, SetSlot
  <2>4. \A p \in Page : page'[p].state = page[p].state
    <3>1. page' = [page EXCEPT ![q].free = @ + 1, ![q].ptr = Min({@, s})]
      BY <1>12 DEF DeleteEntry
    <3> HIDE DEF q, s
    <3> QED BY <2>3, <3>1, PageTypes DEF IInv
  <2> HIDE DEF q, s
  <2>5. \A p \in Page : \A y \in Slot(p) : data'[p][y] # NoTrx => data'[p][y] = data[p][y]
    BY <2>3, OneSlot
  <2>6. \A v \in Trx : pc[v] = "synced" => syncing \in Page
    BY SyncerFacts DEF Syncer
  <2> QED BY <1>a, <1>b, <2>1, <2>2, <2>4, <2>5, <2>6
<1>13. CASE Terminated
  <2>1. UNCHANGED <<data, disk, page, syncing, failed, pc>>
    BY <1>13 DEF Terminated, vars, pageVars, session
  <2> QED BY <1>c, <2>1
<1> QED BY <1>1, <1>2, <1>3, <1>4, <1>5, <1>6, <1>7, <1>8, <1>9, <1>10, <1>11, <1>12, <1>13
        DEF Next, Step, LogOneTransaction, CheckpointStep

Past == {"synced", "pooled"} \union Reported

\* The XID of a transaction whose sync went well is on disk, or not needed any more.
LEMMA LoggedStep ==
  ASSUME IInv, DiskOK, LoggedOK, Next,
         \A t, u \in Trx : batch[t].deleting /\ u \in batch[t].of => \A e \in Checkpoint : u \in durable[e]
  PROVE  LoggedOK'
<1> DEFINE Gone(t) == \A e \in Checkpoint : t \in durable[e]
<1>a. ASSUME \A v \in Trx : OnDisk(v) => OnDisk(v)' \/ Gone(v)',
             \A v \in Trx : Gone(v) => Gone(v)',
             \A v \in Trx : pc'[v] \in Past /\ ~failed'[v] => (pc[v] \in Past /\ ~failed[v]) \/ OnDisk(v)'
      PROVE  LoggedOK'
  BY <1>a DEF LoggedOK, Past
<1>b. ASSUME UNCHANGED <<data, disk, cookie>> PROVE \A v \in Trx : OnDisk(v) => OnDisk(v)'
  BY <1>b DEF OnDisk, Stored, HasSlot
<1>c. ASSUME UNCHANGED durable PROVE \A v \in Trx : Gone(v) => Gone(v)'
  BY <1>c
<1>d. pc \in [Trx -> Place] /\ failed \in [Trx -> BOOLEAN]
  BY SessionTypes DEF IInv
<1>1. ASSUME NEW t \in Trx, LockActive(t) \/ GetActiveFromPool(t) \/ Overflow(t) \/ LockSync(t)
                            \/ Register(t) \/ Relock(t)
      PROVE  LoggedOK'
  <2>1. UNCHANGED <<data, disk, cookie, failed, durable>>
    BY <1>1 DEF LockActive, GetActiveFromPool, Overflow, LockSync, Register, Relock,
                pageVars, checkpoint
  <2>2. \E x \in Place \ Past : pc' = [pc EXCEPT ![t] = x]
    BY <1>1 DEF LockActive, GetActiveFromPool, Overflow, LockSync, Register, Relock,
                Goto, Place, Past, Reported
  <2>3. \A v \in Trx : pc'[v] \in Past => pc[v] \in Past
    BY <1>d, <2>2
  <2> QED BY <1>a, <1>b, <1>c, <2>1, <2>3
<1>2. ASSUME NEW t \in Trx, Commit(t) \/ Unlog(t) \/ HookRead(t) \/ HookWrite(t)
      PROVE  LoggedOK'
  <2>1. UNCHANGED <<data, disk, cookie, failed, durable>>
    BY <1>2 DEF Commit, Unlog, HookRead, HookWrite, pageVars, session, checkpoint
  <2>2. pc[t] \in Past /\ \E x \in Place : pc' = [pc EXCEPT ![t] = x]
    BY <1>2 DEF Commit, Unlog, HookRead, HookWrite, Goto, Place, Past, Reported
  <2>3. \A v \in Trx : pc'[v] \in Past => pc[v] \in Past
    BY <1>d, <2>2
  <2> QED BY <1>a, <1>b, <1>c, <2>1, <2>3
<1>3. ASSUME NEW t \in Trx, Store(t) PROVE LoggedOK'
  <2> DEFINE s == FirstEmpty(active)
  <2>1. /\ active \in Page /\ s \in Slot(active) /\ TypeOK /\ t \in Trx \union {NoTrx}
        /\ SetSlot(active, s, t) /\ data[active][s] = NoTrx
    BY <1>3, StoreFacts DEF IInv, Store, SetSlot
  <2>2. /\ UNCHANGED <<disk, failed, durable>> /\ pc[t] = "store"
        /\ \A v \in Trx : pc'[v] \in Past => v # t /\ pc[v] \in Past
        /\ \A v \in Trx \ {t} : cookie'[v] = cookie[v]
    BY <1>3, <1>d, SessionTypes DEF IInv, Store, Goto, checkpoint, Past, Reported
  <2> HIDE DEF s
  <2>3. \A p \in Page : \A y \in Slot(p) :
          data'[p][y] = IF p = active /\ y = s THEN t ELSE data[p][y]
    BY <2>1, OneSlot
  <2>4. NoTrx \notin Trx
    OBVIOUS
  <2>5. \A v \in Trx \ {t} : OnDisk(v) => OnDisk(v)'
    BY <2>1, <2>2, <2>3, <2>4 DEF OnDisk, Stored, HasSlot
  <2> QED BY <2>2, <2>5 DEF LoggedOK, Past
<1>4. ASSUME NEW t \in Trx, Check(t) PROVE LoggedOK'
  <2>1. UNCHANGED <<data, disk, cookie, durable>> /\ pc[t] = "check"
    BY <1>4 DEF Check, checkpoint
  <2>2. \A v \in Trx : v # t /\ pc'[v] \in Past => pc[v] \in Past /\ failed'[v] = failed[v]
    BY <1>4, <1>d DEF Check, Goto, SignalPool, Past, Reported
  <2>3. /\ Stored(t) /\ cookie[t].page \in Page /\ cookie[t].slot \in Slot(cookie[t].page)
        /\ page[cookie[t].page].state \in {"POOL", "ERROR", "DIRTY"}
    BY <2>1, CookieFacts, PageTypes DEF IInv, SessionOK, SlotOK, Early
  <2>4. CASE pc'[t] \notin Past
    BY <1>a, <1>b, <1>c, <2>1, <2>2, <2>4
  <2>5. CASE pc'[t] \in Past /\ failed'[t]
    BY <1>a, <1>b, <1>c, <2>1, <2>2, <2>5
  <2>6. CASE pc'[t] \in Past /\ ~failed'[t]
    <3>1. page[cookie[t].page].state # "DIRTY" /\ page[cookie[t].page].state # "ERROR"
      BY <1>4, <1>d, <2>6 DEF Check, Goto, SignalPool, Past, Reported
    <3>2. OnDisk(t)
      BY <2>3, <3>1 DEF DiskOK, OnDisk, Stored
    <3>3. OnDisk(t)'
      BY <1>b, <2>1, <3>2
    <3> QED BY <1>a, <1>b, <1>c, <2>1, <2>2, <3>3
  <2> QED BY <2>4, <2>5, <2>6
<1>5. ASSUME NEW t \in Trx, ClearActive(t) PROVE LoggedOK'
  <2>1. UNCHANGED <<data, disk, cookie, failed, durable>>
    BY <1>5 DEF ClearActive, checkpoint
  <2>2. \A v \in Trx : pc'[v] \in Past => pc[v] \in Past
    BY <1>5, <1>d DEF ClearActive, Past, Reported
  <2> QED BY <1>a, <1>b, <1>c, <2>1, <2>2
<1>6. ASSUME NEW t \in Trx, Sync(t) PROVE LoggedOK'
  <2>1. /\ UNCHANGED <<data, cookie, durable>> /\ pc[t] = "sync"
        /\ \A v \in Trx : v # t /\ pc'[v] \in Past => pc[v] \in Past /\ failed'[v] = failed[v]
    BY <1>6, <1>d DEF Sync, Goto, checkpoint
  <2>2. syncing \in Page /\ Stored(t) /\ syncing = cookie[t].page
    BY <2>1, SyncerFacts DEF IInv, SessionOK, SyncOK, SlotOK, Syncer, Early
  <2>3. CASE disk' = [disk EXCEPT ![syncing] = data[syncing]]
    <3>1. disk'[syncing] = data[syncing] /\ \A p \in Page \ {syncing} : disk'[p] = disk[p]
      BY <2>2, <2>3, PageTypes DEF IInv
    <3>2. OnDisk(t)' /\ \A v \in Trx : OnDisk(v) => OnDisk(v)'
      BY <2>1, <2>2, <3>1 DEF OnDisk, Stored, HasSlot
    <3> QED BY <1>a, <1>c, <2>1, <3>2
  <2>4. CASE UNCHANGED disk /\ failed' = [failed EXCEPT ![t] = TRUE]
    <3>1. failed'[t]
      BY <1>d, <2>4
    <3> QED BY <1>a, <1>b, <1>c, <2>1, <2>4, <3>1
  <2> QED BY <1>6, <2>3, <2>4 DEF Sync
<1>7. ASSUME NEW t \in Trx, ToPool(t) PROVE LoggedOK'
  <2>1. UNCHANGED <<data, disk, cookie, failed, durable>>
    BY <1>7 DEF ToPool, checkpoint
  <2>2. \A v \in Trx : pc'[v] \in Past => pc[v] \in Past
    BY <1>7, <1>d DEF ToPool, SignalPool, Past, Reported
  <2> QED BY <1>a, <1>b, <1>c, <2>1, <2>2
<1>8. ASSUME NEW t \in Trx, FreeSyncing(t) PROVE LoggedOK'
  <2>1. UNCHANGED <<data, disk, cookie, failed, durable>> /\ pc[t] = "pooled"
    BY <1>8 DEF FreeSyncing, checkpoint
  <2>2. \A v \in Trx : pc'[v] \in Past => pc[v] \in Past
    <3>1. PICK ts : pc' = [u \in Trx |-> IF u = t THEN "logged" ELSE IF u \in ts THEN "woken" ELSE pc[u]]
      BY <1>8 DEF FreeSyncing
    <3> QED BY <2>1, <3>1 DEF Past, Reported
  <2> QED BY <1>a, <1>b, <1>c, <2>1, <2>2
<1>9. ASSUME NEW t \in Trx, NEW e \in Checkpoint, EngineFlush(t, e) PROVE LoggedOK'
  <2>1. UNCHANGED <<data, disk, cookie, failed, pc>>
    BY <1>9 DEF EngineFlush, pageVars, session
  <2>2. \A v \in Trx : Gone(v) => Gone(v)'
    <3>1. \A f \in Checkpoint : durable[f] \subseteq durable'[f]
      BY <1>9 DEF IInv, TypeOK, EngineFlush
    <3> QED BY <3>1
  <2> QED BY <1>a, <1>b, <2>1, <2>2
<1>10. ASSUME NEW t \in Trx, NEW n \in Checkpoint \union {Self}, NotifyRead(t, n) \/ NotifyWrite(t, n)
       PROVE  LoggedOK'
  <2>1. UNCHANGED <<data, disk, cookie, failed, durable>>
    BY <1>10 DEF NotifyRead, NotifyWrite, pageVars, session
  <2>2. \A v \in Trx : pc'[v] \in Past => pc[v] \in Past
    <3>1. NotifyWrite(t, n) /\ n = Self => pc[t] = "notify"
      BY DEF IInv, NotifyOK, NotifyWrite
    <3>2. pc' = pc \/ (pc[t] = "notify" /\ pc' = [pc EXCEPT ![t] = "ended"])
      BY <1>10, <3>1 DEF NotifyRead, NotifyWrite, session
    <3> QED BY <1>d, <3>2 DEF Past, Reported
  <2> QED BY <1>a, <1>b, <1>c, <2>1, <2>2
<1>11. ASSUME NEW t \in Trx, NEW u \in Trx, DeleteEntry(t, u) PROVE LoggedOK'
  <2> DEFINE q == cookie[u].page
             s == cookie[u].slot
  <2>1. UNCHANGED <<disk, cookie, failed, durable>> /\ batch[t].deleting /\ u \in batch[t].of
    BY <1>11 DEF DeleteEntry
  <2>2. \A v \in Trx : pc'[v] \in Past => pc[v] \in Past
    BY <1>11, <1>d DEF DeleteEntry, SignalPool, Past, Reported
  <2>3. /\ q \in Page /\ s \in Slot(q) /\ TypeOK /\ SetSlot(q, s, NoTrx) /\ NoTrx \in Trx \union {NoTrx}
        /\ data[q][s] = u
    BY <1>11, <2>1 DEF IInv, QueuedOK, Stored, HasSlot, DeleteEntry, SetSlot
  <2>4. Gone(u)'
    BY <2>1
  <2>5. \A v \in Trx : Gone(v) => Gone(v)'
    BY <2>1
  <2> HIDE DEF q, s
  <2>6. \A p \in Page : \A y \in Slot(p) :
          data'[p][y] = IF p = q /\ y = s THEN NoTrx ELSE data[p][y]
    BY <2>3, OneSlot
  <2>7. \A v \in Trx \ {u} : OnDisk(v) => OnDisk(v)'
    BY <2>1, <2>3, <2>6 DEF OnDisk, Stored, HasSlot
  <2> HIDE DEF Gone
  <2> QED BY <1>a, <2>1, <2>2, <2>4, <2>5, <2>7
<1>12. CASE Terminated
  <2>1. UNCHANGED <<data, disk, cookie, failed, durable, pc>>
    BY <1>12 DEF Terminated, vars, pageVars, session, checkpoint
  <2> QED BY <1>a, <1>b, <1>c, <2>1
<1> QED BY <1>1, <1>2, <1>3, <1>4, <1>5, <1>6, <1>7, <1>8, <1>9, <1>10, <1>11, <1>12
        DEF Next, Step, LogOneTransaction, CheckpointStep

Parties == Checkpoint \union {Self}

\* The notifications of other buffers, and all of them while nothing is notified.
LEMMA CountFrame ==
  ASSUME NEW t \in Trx, CountOK(t), batch'[t] = batch[t],
         \A n \in Parties : notice'[<<t, n>>] = notice[<<t, n>>],
         \A e \in Checkpoint : durable[e] \subseteq durable'[e],
         \A x \in Finish : pc[t] = x => pc'[t] = x,
         \A x \in Finish \ {"ended"} : pc'[t] = x => pc[t] = x
  PROVE  CountOK(t)'
<1>1. (pc[t] \in {"hook", "hooked", "notify"}) <=> (pc'[t] \in {"hook", "hooked", "notify"})
  BY DEF Finish
<1>2. (\E e \in Checkpoint : Outstanding(t, e)) <=> (\E e \in Checkpoint : Outstanding(t, e)')
  BY DEF Outstanding, Parties
<1>3. Outstanding(t, Self) <=> Outstanding(t, Self)'
  BY DEF Outstanding, Parties
<1>4. batch'[t].count = (IF Outstanding(t, Self)' THEN 1 ELSE 0)
                        + (IF \E e \in Checkpoint : Outstanding(t, e)' THEN 1 ELSE 0)
  BY <1>2, <1>3 DEF CountOK
<1> QED BY <1>1, <1>3, <1>4 DEF CountOK, Finish, Parties

\* The count, case by case.
LEMMA CountCases ==
  ASSUME NEW t \in Trx, CountOK(t)
  PROVE  /\ Outstanding(t, Self) /\ (\E e \in Checkpoint : Outstanding(t, e)) => batch[t].count = 2
         /\ Outstanding(t, Self) /\ ~(\E e \in Checkpoint : Outstanding(t, e)) => batch[t].count = 1
         /\ ~Outstanding(t, Self) /\ (\E e \in Checkpoint : Outstanding(t, e)) => batch[t].count = 1
         /\ ~Outstanding(t, Self) /\ ~(\E e \in Checkpoint : Outstanding(t, e)) => batch[t].count = 0
<1> DEFINE A == Outstanding(t, Self)
           B == \E e \in Checkpoint : Outstanding(t, e)
<1>1. batch[t].count = (IF A THEN 1 ELSE 0) + (IF B THEN 1 ELSE 0)
  BY DEF CountOK
<1> HIDE DEF A, B
<1>2. /\ A /\ B => batch[t].count = 2
      /\ A /\ ~B => batch[t].count = 1
      /\ ~A /\ B => batch[t].count = 1
      /\ ~A /\ ~B => batch[t].count = 0
  BY <1>1
<1> QED BY <1>2 DEF A, B

\* The sessions that write to the log, and those that commit, count nothing.
LEMMA CountQuiet ==
  ASSUME IInv, \A t \in Trx : CountOK(t), DecrementOK, NEW t \in Trx,
         LogOneTransaction(t) \/ Commit(t) \/ Terminated
  PROVE  (\A v \in Trx : CountOK(v)') /\ DecrementOK'
<1>1. UNCHANGED <<batch, notice, durable, decrement>>
  BY DEF LogOneTransaction, LockActive, GetActiveFromPool, Overflow, Store, LockSync, Register,
         Check, Relock, ClearActive, Sync, ToPool, FreeSyncing, Commit, Terminated, vars, checkpoint
<1>2. pc \in [Trx -> Place]
  BY SessionTypes DEF IInv
<1>3. \A v \in Trx : /\ \A x \in Finish : pc[v] = x => pc'[v] = x
                     /\ \A x \in Finish \ {"ended"} : pc'[v] = x => pc[v] = x
  <2>1. CASE LockActive(t) \/ GetActiveFromPool(t) \/ Overflow(t) \/ Store(t) \/ LockSync(t)
             \/ Register(t) \/ Relock(t) \/ Sync(t) \/ Commit(t)
    <3>1. pc[t] \notin Finish /\ \E x \in (Place \ Finish) \union {"ended"} : pc' = [pc EXCEPT ![t] = x]
      BY <2>1 DEF LockActive, GetActiveFromPool, Overflow, Store, LockSync, Register, Relock, Sync,
                  Commit, Goto, Place, Finish
    <3> QED BY <1>2, <3>1
  <2>2. CASE Check(t)
    BY <1>2, <2>2 DEF Check, Goto, SignalPool, Finish
  <2>3. CASE ClearActive(t)
    BY <1>2, <2>3 DEF ClearActive, Finish
  <2>4. CASE ToPool(t)
    BY <1>2, <2>4 DEF ToPool, SignalPool, Finish
  <2>5. CASE FreeSyncing(t)
    <3>1. PICK ts : /\ pc' = [u \in Trx |-> IF u = t THEN "logged" ELSE IF u \in ts THEN "woken" ELSE pc[u]]
                    /\ \A u \in ts : pc[u] = "asleep"
      BY <2>5 DEF FreeSyncing, Sleepers
    <3>2. pc[t] = "pooled"
      BY <2>5 DEF FreeSyncing
    <3> QED BY <3>1, <3>2 DEF Finish
  <2>6. CASE Terminated
    BY <2>6 DEF Terminated, vars, session
  <2> QED BY <2>1, <2>2, <2>3, <2>4, <2>5, <2>6 DEF LogOneTransaction
<1>4. \A v \in Trx : CountOK(v)'
  BY <1>1, <1>3, CountFrame
<1>5. DecrementOK'
  BY <1>1, <1>3 DEF DecrementOK, Finish
<1> QED BY <1>4, <1>5

\* unlog() starts to count for a buffer that was not used before.
LEMMA CountUnlog ==
  ASSUME IInv, \A v \in Trx : CountOK(v), DecrementOK, NEW t \in Trx, Unlog(t)
  PROVE  (\A v \in Trx : CountOK(v)') /\ DecrementOK'
<1>1. /\ UNCHANGED <<decrement, durable>> /\ decrement = NoDecrement /\ pc[t] = "unlog"
      /\ pc \in [Trx -> Place] /\ TypeOK
  BY SessionTypes DEF IInv, Unlog
<1>2. DecrementOK'
  <2>1. decrement'.of = <<>> /\ \A v, n : <<v, n>> # <<>>
    BY <1>1 DEF NoDecrement
  <2> QED BY <2>1 DEF DecrementOK
<1>3. CASE Cardinality(pending) + 1 = Batch
  <2> DEFINE o == pending \union {t}
  <2>a. batch \in [Trx -> BatchRecord] /\ o \in SUBSET Trx
    BY <1>1 DEF TypeOK, BatchRecord
  <2>b. batch' = [batch EXCEPT ![t].of = o, ![t].count = 1]
    BY <1>3 DEF Unlog
  <2>d. /\ notice' = [notice EXCEPT ![<<t, Self>>] = "flushed"]
        /\ pc' = [pc EXCEPT ![t] = "hook"]
    BY <1>3 DEF Unlog, Goto
  <2>c. batch' = [batch EXCEPT ![t] = Taken(batch[t], o, 1)]
    BY <2>a, <2>b DEF Taken
  <2>1. /\ batch \in [Trx -> BatchRecord] /\ o \in SUBSET Trx /\ 1 \in Int /\ batch[t] \in BatchRecord
        /\ batch' = [batch EXCEPT ![t] = Taken(batch[t], o, 1)]
        /\ notice' = [notice EXCEPT ![<<t, Self>>] = "flushed"]
        /\ pc' = [pc EXCEPT ![t] = "hook"]
    <3> HIDE DEF o
    <3>1. batch[t] \in BatchRecord
      BY <2>a
    <3> QED BY <2>a, <2>c, <2>d, <3>1
  <2> HIDE DEF o
  <2>2. /\ Taken(batch[t], o, 1) \in BatchRecord
        /\ Taken(batch[t], o, 1).of = o /\ Taken(batch[t], o, 1).count = 1
        /\ Taken(batch[t], o, 1).asked = batch[t].asked
        /\ Taken(batch[t], o, 1).deleting = batch[t].deleting
    BY <2>1, BatchTaken
  <2>3. /\ batch'[t] = Taken(batch[t], o, 1) /\ \A v \in Trx \ {t} : batch'[v] = batch[v]
    BY <1>1, <2>1, <2>2, OneBatch
  <2>4. /\ notice'[<<t, Self>>] = "flushed"
        /\ \A v \in Trx, m \in Parties : v # t \/ m # Self => notice'[<<v, m>>] = notice[<<v, m>>]
    BY <1>1, <2>1, OneNotice DEF Parties
  <2>5. pc'[t] = "hook" /\ \A v \in Trx \ {t} : pc'[v] = pc[v]
    BY <1>1, <2>1
  <2>6. \A v \in Trx \ {t} : CountOK(v)'
    BY <1>1, <2>3, <2>4, <2>5, CountFrame
  <2>7. notice[<<t, Self>>] = "none"
    BY <1>1 DEF CountOK
  <2>8. /\ batch[t].asked = {} /\ ~batch[t].deleting
        /\ \A e \in Checkpoint : notice[<<t, e>>] = "none"
    BY <2>7 DEF CountOK
  <2>9. \A e \in Checkpoint : notice'[<<t, e>>] = "none"
    BY <2>4, <2>8 DEF Parties
  <2>10. Outstanding(t, Self)' /\ ~ \E e \in Checkpoint : Outstanding(t, e)'
    BY <2>4, <2>9 DEF Outstanding
  <2>11. /\ batch'[t].count = 1 /\ batch'[t].asked = {} /\ ~batch'[t].deleting
    BY <2>2, <2>3, <2>8
  <2>12. CountOK(t)'
    BY <2>4, <2>5, <2>9, <2>10, <2>11 DEF CountOK
  <2> QED BY <1>2, <2>6, <2>12
<1>4. CASE Cardinality(pending) + 1 # Batch
  <2>1. UNCHANGED <<batch, notice>> /\ pc' = [pc EXCEPT ![t] = "ended"]
    BY <1>4 DEF Unlog, Goto
  <2>2. \A v \in Trx : /\ \A x \in Finish : pc[v] = x => pc'[v] = x
                       /\ \A x \in Finish \ {"ended"} : pc'[v] = x => pc[v] = x
    BY <1>1, <2>1 DEF Finish
  <2> QED BY <1>1, <1>2, <2>1, <2>2, CountFrame
<1> QED BY <1>3, <1>4

\* The callback reads the count, which nobody changes until it is written.
LEMMA CountHookRead ==
  ASSUME IInv, \A v \in Trx : CountOK(v), DecrementOK, NEW t \in Trx, HookRead(t)
  PROVE  (\A v \in Trx : CountOK(v)') /\ DecrementOK'
<1>1. /\ UNCHANGED <<decrement, durable, notice>> /\ pc[t] = "hook"
      /\ pc \in [Trx -> Place] /\ TypeOK
  BY SessionTypes DEF IInv, HookRead
<1>2. /\ batch \in [Trx -> BatchRecord] /\ batch[t] \in BatchRecord /\ batch[t].count \in Int
  BY <1>1 DEF TypeOK, BatchRecord
<1>3. /\ \A v \in Trx \ {t} : batch'[v] = batch[v] /\ pc'[v] = pc[v]
      /\ batch'[t].of = batch[t].of /\ batch'[t].count = batch[t].count
      /\ batch'[t].asked = batch[t].asked /\ batch'[t].deleting = batch[t].deleting
      /\ \/ pc'[t] = "notify" /\ batch'[t].asked = Checkpoint
         \/ pc'[t] = "hooked" /\ batch'[t].asked # Checkpoint /\ batch'[t].read = batch'[t].count
  <2>1. CASE batch[t].asked = Checkpoint
    BY <1>1, <2>1 DEF HookRead, Goto
  <2>2. CASE batch[t].asked # Checkpoint
    <3>1. batch' = [batch EXCEPT ![t] = ReadCount(batch[t], batch[t].count)]
      BY <1>2, <2>2 DEF HookRead, ReadCount
    <3>2. pc' = [pc EXCEPT ![t] = "hooked"]
      BY <2>2 DEF HookRead, Goto
    <3>3. LET r == ReadCount(batch[t], batch[t].count)
          IN  /\ r \in BatchRecord /\ r.of = batch[t].of /\ r.count = batch[t].count
              /\ r.read = batch[t].count /\ r.asked = batch[t].asked /\ r.deleting = batch[t].deleting
      BY <1>2, BatchRead
    <3>4. batch'[t] = ReadCount(batch[t], batch[t].count) /\ \A v \in Trx \ {t} : batch'[v] = batch[v]
      BY <1>1, <3>1, <3>3, OneBatch
    <3> QED BY <1>1, <2>2, <3>2, <3>3, <3>4
  <2> QED BY <2>1, <2>2
<1>4. \A v \in Trx \ {t} : CountOK(v)'
  BY <1>1, <1>3, CountFrame
<1>5. CountOK(t)'
  <2>1. \A n : Outstanding(t, n)' <=> Outstanding(t, n)
    BY <1>1 DEF Outstanding
  <2>2. batch'[t].count = (IF Outstanding(t, Self)' THEN 1 ELSE 0)
                          + (IF \E e \in Checkpoint : Outstanding(t, e)' THEN 1 ELSE 0)
    BY <1>3, <2>1 DEF CountOK
  <2>3. Outstanding(t, Self)'
    BY <1>1, <2>1 DEF CountOK
  <2> QED BY <1>1, <1>3, <2>2, <2>3 DEF CountOK
<1>6. DecrementOK'
  <2>1. \A n \in Parties : decrement.of = <<t, n>> => n # Self
    BY <1>1 DEF DecrementOK, Parties
  <2> QED BY <1>1, <1>3, <2>1 DEF DecrementOK, Parties
<1> QED BY <1>4, <1>5, <1>6

\* The one engine is asked: nothing was counted down in between.
LEMMA CountHookWrite ==
  ASSUME OneEngine, IInv, \A v \in Trx : CountOK(v), DecrementOK, NEW t \in Trx, HookWrite(t)
  PROVE  (\A v \in Trx : CountOK(v)') /\ DecrementOK'
<1>1. /\ UNCHANGED <<decrement, durable>> /\ pc[t] = "hooked" /\ pc \in [Trx -> Place] /\ TypeOK
      /\ pc' = [pc EXCEPT ![t] = "hook"]
      /\ batch \in [Trx -> BatchRecord] /\ batch[t] \in BatchRecord /\ batch[t].read \in Int
      /\ batch[t].asked \in SUBSET Checkpoint
  BY SessionTypes DEF IInv, HookWrite, Goto, TypeOK, BatchRecord
<1>2. PICK e \in Checkpoint :
        /\ e \notin batch[t].asked
        /\ batch' = [batch EXCEPT ![t].count = batch[t].read + 1, ![t].asked = @ \union {e}]
        /\ notice' = [notice EXCEPT ![<<t, e>>] = "asked"]
  BY DEF HookWrite
<1> DEFINE c == batch[t].read + 1
           a == batch[t].asked \union {e}
<1>3. batch' = [batch EXCEPT ![t] = Asked(batch[t], c, a)]
  BY <1>1, <1>2 DEF Asked
<1>4. c \in Int /\ a \in SUBSET Checkpoint /\ a = {e} /\ a = Checkpoint /\ batch[t].asked = {}
  BY <1>1, <1>2 DEF OneEngine
<1> HIDE DEF c, a
<1>5. LET r == Asked(batch[t], c, a)
      IN  /\ r \in BatchRecord /\ r.of = batch[t].of /\ r.count = c
          /\ r.asked = a /\ r.deleting = batch[t].deleting
  BY <1>1, <1>4, BatchAsked
<1>6. batch'[t] = Asked(batch[t], c, a) /\ \A v \in Trx \ {t} : batch'[v] = batch[v]
  BY <1>1, <1>3, <1>5, OneBatch
<1>7. /\ notice'[<<t, e>>] = "asked"
      /\ \A v \in Trx, m \in Parties : v # t \/ m # e => notice'[<<v, m>>] = notice[<<v, m>>]
  BY <1>1, <1>2, OneNotice DEF Parties
<1>8. pc'[t] = "hook" /\ \A v \in Trx \ {t} : pc'[v] = pc[v]
  BY <1>1
<1>9. \A v \in Trx \ {t} : CountOK(v)'
  BY <1>1, <1>6, <1>7, <1>8, CountFrame
<1>10. notice[<<t, e>>] = "none" /\ notice[<<t, Self>>] = "flushed" /\ ~batch[t].deleting
  BY <1>1, <1>2 DEF CountOK, Outstanding
<1>11. batch[t].read = 1
  <2>1. Outstanding(t, Self) /\ ~ \E f \in Checkpoint : Outstanding(t, f)
    BY <1>10 DEF OneEngine, Outstanding
  <2>2. batch[t].read = batch[t].count
    BY <1>1 DEF CountOK
  <2> QED BY <2>1, <2>2, CountCases
<1>12. /\ batch'[t].count = 2 /\ batch'[t].asked = Checkpoint /\ ~batch'[t].deleting
  <2>1. c = 2
    BY <1>11 DEF c
  <2> QED BY <1>4, <1>5, <1>6, <1>10, <2>1
<1>13. notice'[<<t, Self>>] = "flushed" /\ \A f \in Checkpoint : notice'[<<t, f>>] = "asked"
  BY <1>7, <1>10 DEF OneEngine, Parties
<1>14. Outstanding(t, Self)' /\ \E f \in Checkpoint : Outstanding(t, f)'
  BY <1>13 DEF Outstanding
<1>15. CountOK(t)'
  BY <1>8, <1>12, <1>13, <1>14 DEF CountOK
<1>16. DecrementOK'
  <2>1. \A n \in Parties : decrement.of # <<t, n>>
    BY <1>1, <1>10 DEF DecrementOK, Parties, OneEngine
  <2> QED BY <1>1, <1>6, <1>7, <1>8, <2>1 DEF DecrementOK, Parties
<1> QED BY <1>9, <1>15, <1>16

\* The engine has all entries of the buffer before it notifies.
LEMMA CountEngineFlush ==
  ASSUME IInv, \A v \in Trx : CountOK(v), DecrementOK, NEW t \in Trx, NEW e \in Checkpoint,
         EngineFlush(t, e)
  PROVE  (\A v \in Trx : CountOK(v)') /\ DecrementOK'
<1>1. /\ UNCHANGED <<decrement, batch, pc>> /\ notice[<<t, e>>] = "asked" /\ TypeOK
      /\ notice' = [notice EXCEPT ![<<t, e>>] = "flushed"]
  BY DEF IInv, EngineFlush, session
<1>2. /\ notice'[<<t, e>>] = "flushed"
      /\ \A v \in Trx, m \in Parties : v # t \/ m # e => notice'[<<v, m>>] = notice[<<v, m>>]
  BY <1>1, OneNotice DEF Parties
<1>3. /\ \A f \in Checkpoint : durable[f] \subseteq durable'[f]
      /\ {u \in Trx : pc[u] \in {"unlog", "hook", "hooked", "notify", "ended"} /\ ~failed[u]}
           \subseteq durable'[e]
  BY DEF IInv, TypeOK, EngineFlush
<1>4. batch[t].of \subseteq durable'[e]
  <2>1. \A u \in batch[t].of : u \in Trx
    BY <1>1 DEF TypeOK
  <2> QED BY <1>3, <2>1 DEF IInv, QueuedOK
<1>5. \A v \in Trx \ {t} : CountOK(v)'
  BY <1>1, <1>2, <1>3, CountFrame
<1>6. CountOK(t)'
  <2>1. \A n \in Parties : Outstanding(t, n)' <=> Outstanding(t, n)
    BY <1>1, <1>2 DEF Outstanding
  <2>2. /\ Outstanding(t, Self)' <=> Outstanding(t, Self)
        /\ (\E f \in Checkpoint : Outstanding(t, f)') <=> (\E f \in Checkpoint : Outstanding(t, f))
    BY <2>1 DEF Parties
  <2>3. /\ batch'[t].count = (IF Outstanding(t, Self)' THEN 1 ELSE 0)
                             + (IF \E f \in Checkpoint : Outstanding(t, f)' THEN 1 ELSE 0)
    BY <1>1, <2>2 DEF CountOK
  <2>4. notice'[<<t, Self>>] = notice[<<t, Self>>] /\ e # Self
    BY <1>2 DEF Parties
  <2>5. \A f \in Checkpoint : f \in batch'[t].asked <=> notice'[<<t, f>>] # "none"
    <3>1. \A f \in Checkpoint : notice'[<<t, f>>] # "none" <=> notice[<<t, f>>] # "none"
      BY <1>1, <1>2 DEF Parties
    <3>2. \A f \in Checkpoint : f \in batch[t].asked <=> notice[<<t, f>>] # "none"
      BY DEF CountOK
    <3> QED BY <1>1, <3>1, <3>2
  <2>6. \A f \in Checkpoint : notice'[<<t, f>>] \in {"flushed", "done"} => batch'[t].of \subseteq durable'[f]
    BY <1>1, <1>2, <1>3, <1>4, ZenonT(40) DEF CountOK, Parties
  <2>7. ~batch[t].deleting
    BY <1>1 DEF CountOK
  <2> QED BY <1>1, <2>2, <2>3, <2>4, <2>5, <2>6, <2>7 DEF CountOK
<1>7. DecrementOK'
  <2>1. decrement.of # <<t, e>>
    BY <1>1 DEF DecrementOK
  <2>2. \A v \in Trx, m \in Parties : decrement.of = <<v, m>> => notice'[<<v, m>>] = notice[<<v, m>>]
    BY <1>2, <2>1
  <2> QED BY <1>1, <2>2 DEF DecrementOK, Parties
<1> QED BY <1>5, <1>6, <1>7

\* A notification reads the count under the mutex.
LEMMA CountNotifyRead ==
  ASSUME IInv, \A v \in Trx : CountOK(v), DecrementOK, NEW t \in Trx, NEW n \in Parties,
         NotifyRead(t, n)
  PROVE  (\A v \in Trx : CountOK(v)') /\ DecrementOK'
<1>1. /\ UNCHANGED <<batch, pc, notice, durable>> /\ notice[<<t, n>>] = "flushed"
      /\ n = Self => pc[t] = "notify"
      /\ decrement' = [of |-> <<t, n>>, read |-> batch[t].count]
  BY DEF NotifyRead, session
<1>2. \A v \in Trx : CountOK(v)'
  BY <1>1, CountFrame
<1>3. \A v \in Trx, m \in Parties : decrement'.of = <<v, m>> => v = t /\ m = n
  BY <1>1
<1> QED BY <1>1, <1>2, <1>3 DEF DecrementOK, Parties

\* The last of the two notifications, whichever it is, finds a count of 1.
LEMMA CountNotifyWrite ==
  ASSUME OneEngine, IInv, \A v \in Trx : CountOK(v), DecrementOK, NEW t \in Trx, NEW n \in Parties,
         NotifyWrite(t, n)
  PROVE  (\A v \in Trx : CountOK(v)') /\ DecrementOK'
<1>1. /\ UNCHANGED durable /\ decrement.of = <<t, n>> /\ decrement' = NoDecrement
      /\ pc \in [Trx -> Place] /\ TypeOK
      /\ notice' = [notice EXCEPT ![<<t, n>>] = "done"]
      /\ pc' = IF n = Self THEN [pc EXCEPT ![t] = "ended"] ELSE pc
      /\ batch \in [Trx -> BatchRecord] /\ batch[t] \in BatchRecord
      /\ batch[t].count \in Int /\ batch[t].deleting \in BOOLEAN /\ decrement.read \in Int
  BY SessionTypes DEF IInv, NotifyWrite, TypeOK, BatchRecord
<1>2. decrement.read = batch[t].count /\ notice[<<t, n>>] = "flushed" /\ (n = Self => pc[t] = "notify")
  BY <1>1 DEF DecrementOK, Parties
<1> DEFINE c == decrement.read - 1
           d == (batch[t].deleting \/ decrement.read = 1)
<1>3. batch' = [batch EXCEPT ![t] = Counted(batch[t], c, d)]
  <2>1. batch' = [batch EXCEPT ![t].count = decrement.read - 1,
                               ![t].deleting = @ \/ decrement.read = 1]
    BY DEF NotifyWrite
  <2> QED BY <1>1, <2>1 DEF Counted
<1>4. c \in Int /\ d \in BOOLEAN
  BY <1>1
<1>5. c = batch[t].count - 1 /\ (d <=> batch[t].deleting \/ batch[t].count = 1)
  BY <1>1, <1>2
<1> HIDE DEF c, d
<1>6. LET r == Counted(batch[t], c, d)
      IN  /\ r \in BatchRecord /\ r.of = batch[t].of /\ r.count = c
          /\ r.read = batch[t].read /\ r.asked = batch[t].asked /\ r.deleting = d
  <2>1. batch[t] \in BatchRecord /\ c \in Int /\ d \in BOOLEAN
    BY <1>1, <1>4
  <2> QED BY <2>1, BatchCounted
<1>7. batch'[t] = Counted(batch[t], c, d) /\ \A v \in Trx \ {t} : batch'[v] = batch[v]
  BY <1>1, <1>3, <1>6, OneBatch
<1>8. /\ notice'[<<t, n>>] = "done"
      /\ \A v \in Trx, m \in Parties : v # t \/ m # n => notice'[<<v, m>>] = notice[<<v, m>>]
  BY <1>1, OneNotice DEF Parties
<1>9. \A v \in Trx \ {t} : pc'[v] = pc[v]
  BY <1>1
<1>10. DecrementOK'
  <2>1. decrement'.of = <<>> /\ \A v, m : <<v, m>> # <<>>
    BY <1>1 DEF NoDecrement
  <2> QED BY <2>1 DEF DecrementOK
<1>11. \A v \in Trx \ {t} : CountOK(v)'
  BY <1>1, <1>7, <1>8, <1>9, CountFrame
<1>12. /\ batch'[t].of = batch[t].of /\ batch'[t].count = batch[t].count - 1
       /\ batch'[t].read = batch[t].read /\ batch'[t].asked = batch[t].asked
       /\ batch'[t].deleting <=> (batch[t].deleting \/ batch[t].count = 1)
  BY <1>5, <1>6, <1>7
<1>13. ~batch[t].deleting /\ Outstanding(t, n) /\ ~Outstanding(t, n)'
  BY <1>2, <1>8 DEF CountOK, Outstanding, Parties
<1>14. CountOK(t)'
  <2>1. CASE n = Self
    <3>1. /\ pc[t] = "notify" /\ pc'[t] = "ended" /\ batch[t].asked = Checkpoint
          /\ \A e \in Checkpoint : notice[<<t, e>>] # "none"
      BY <1>1, <1>2, <2>1 DEF CountOK
    <3>2. \A e \in Checkpoint : notice'[<<t, e>>] = notice[<<t, e>>]
      BY <1>8, <2>1 DEF Parties
    <3>3. \A e \in Checkpoint : Outstanding(t, e)' <=> Outstanding(t, e)
      BY <3>2 DEF Outstanding
    <3>4. batch'[t].count = (IF Outstanding(t, Self)' THEN 1 ELSE 0)
                            + (IF \E f \in Checkpoint : Outstanding(t, f)' THEN 1 ELSE 0)
      <4> DEFINE B == \E f \in Checkpoint : Outstanding(t, f)
                 C == \E f \in Checkpoint : Outstanding(t, f)'
      <4>1. (B => batch[t].count = 2) /\ (~B => batch[t].count = 1) /\ (B <=> C) /\ ~Outstanding(t, Self)'
        BY <1>13, <2>1, <3>3, CountCases
      <4> HIDE DEF B, C
      <4>2. batch'[t].count = IF C THEN 1 ELSE 0
        BY <1>12, <4>1
      <4>3. batch'[t].count = (IF Outstanding(t, Self)' THEN 1 ELSE 0) + (IF C THEN 1 ELSE 0)
        BY <4>1, <4>2
      <4> QED BY <4>3 DEF C
    <3>5. batch'[t].deleting => \A e \in Checkpoint : notice'[<<t, e>>] = "done"
      <4> SUFFICES ASSUME batch'[t].deleting, NEW e \in Checkpoint PROVE notice'[<<t, e>>] = "done"
        OBVIOUS
      <4>1. batch[t].count = 1
        BY <1>12, <1>13
      <4>2. ~Outstanding(t, e)
        BY <1>13, <2>1, <4>1, CountCases
      <4>3. <<t, e>> \in Notices
        BY DEF Notices
      <4>4. notice[<<t, e>>] \in {"none", "asked", "flushed", "done"}
        BY <1>1, <4>3 DEF TypeOK
      <4> QED BY <3>1, <3>2, <4>2, <4>4 DEF Outstanding
    <3>6. ~Outstanding(t, Self)'
      BY <1>13, <2>1
    <3>7. \A e \in Checkpoint : /\ e \in batch'[t].asked <=> notice'[<<t, e>>] # "none"
                                /\ notice'[<<t, e>>] \in {"flushed", "done"} => batch'[t].of \subseteq durable'[e]
      <4>1. \A e \in Checkpoint : /\ e \in batch[t].asked <=> notice[<<t, e>>] # "none"
                                  /\ notice[<<t, e>>] \in {"flushed", "done"} => batch[t].of \subseteq durable[e]
        BY DEF CountOK
      <4> QED BY <1>1, <1>12, <3>2, <4>1
    <3> QED BY <1>8, <1>12, <2>1, <3>1, <3>4, <3>5, <3>6, <3>7 DEF CountOK
  <2>2. CASE n # Self
    <3>1. n \in Checkpoint /\ pc' = pc /\ notice'[<<t, Self>>] = notice[<<t, Self>>]
      BY <1>1, <1>8, <2>2 DEF Parties
    <3>2. \A e \in Checkpoint : e = n
      BY <3>1 DEF OneEngine
    <3>3. /\ Outstanding(t, Self)' <=> Outstanding(t, Self)
          /\ ~ \E e \in Checkpoint : Outstanding(t, e)'
          /\ \E e \in Checkpoint : Outstanding(t, e)
      BY <1>13, <3>1, <3>2 DEF Outstanding
    <3>4. batch'[t].count = (IF Outstanding(t, Self)' THEN 1 ELSE 0)
                            + (IF \E e \in Checkpoint : Outstanding(t, e)' THEN 1 ELSE 0)
      <4> DEFINE A == Outstanding(t, Self)
                 C == Outstanding(t, Self)'
                 B == \E e \in Checkpoint : Outstanding(t, e)'
      <4>1. (A => batch[t].count = 2) /\ (~A => batch[t].count = 1) /\ (A <=> C) /\ ~B
        BY <3>3, CountCases
      <4> HIDE DEF A, B, C
      <4>2. batch'[t].count = (IF C THEN 1 ELSE 0) + (IF B THEN 1 ELSE 0)
        BY <1>12, <4>1
      <4> QED BY <4>2 DEF B, C
    <3>5. batch[t].asked = Checkpoint /\ n \in batch[t].asked
      <4>1. n \in batch[t].asked /\ batch[t].asked \subseteq Checkpoint
        BY <1>1, <1>2, <3>1 DEF CountOK, BatchRecord
      <4> QED BY <3>2, <4>1
    <3>6. batch'[t].deleting => notice'[<<t, Self>>] = "done"
      <4> SUFFICES ASSUME batch'[t].deleting PROVE notice'[<<t, Self>>] = "done"
        OBVIOUS
      <4>1. batch[t].count = 1
        BY <1>12, <1>13
      <4>2. ~Outstanding(t, Self)
        BY <3>3, <4>1, CountCases
      <4>3. <<t, Self>> \in Notices
        BY DEF Notices
      <4>4. notice[<<t, Self>>] \in {"none", "asked", "flushed", "done"}
        BY <1>1, <4>3 DEF TypeOK
      <4>5. notice[<<t, Self>>] # "none"
        BY <3>5 DEF CountOK
      <4> QED BY <3>1, <4>2, <4>4, <4>5 DEF Outstanding
    <3>7. pc[t] # "hooked"
      BY <3>5 DEF CountOK
    <3>8. batch[t].of \subseteq durable[n]
      BY <1>2, <3>1 DEF CountOK
    <3>9. \A e \in Checkpoint : notice'[<<t, e>>] = "done" /\ batch[t].of \subseteq durable'[e]
                                /\ e \in batch'[t].asked
      BY <1>1, <1>8, <1>12, <3>2, <3>5, <3>8
    <3> QED BY <1>12, <3>1, <3>3, <3>4, <3>5, <3>6, <3>7, <3>9 DEF CountOK
  <2> QED BY <2>1, <2>2
<1> QED BY <1>10, <1>11, <1>14

\* Deleting the entries changes no count.
LEMMA CountDeleteEntry ==
  ASSUME IInv, \A v \in Trx : CountOK(v), DecrementOK, NEW t \in Trx, NEW u \in Trx,
         DeleteEntry(t, u)
  PROVE  (\A v \in Trx : CountOK(v)') /\ DecrementOK'
<1>1. /\ UNCHANGED <<decrement, durable, notice>> /\ batch' = [batch EXCEPT ![t].of = @ \ {u}]
      /\ pc \in [Trx -> Place] /\ TypeOK
  BY SessionTypes DEF IInv, DeleteEntry
<1>2. /\ batch \in [Trx -> BatchRecord] /\ batch[t] \in BatchRecord /\ batch[t].of \ {u} \in SUBSET Trx
  BY <1>1 DEF TypeOK, BatchRecord
<1> DEFINE o == batch[t].of \ {u}
<1>3. batch' = [batch EXCEPT ![t] = Without(batch[t], o)]
  BY <1>1, <1>2 DEF Without
<1>4. o \in SUBSET Trx /\ o \subseteq batch[t].of
  BY <1>2
<1> HIDE DEF o
<1>5. LET r == Without(batch[t], o)
      IN  /\ r \in BatchRecord /\ r.of = o /\ r.count = batch[t].count
          /\ r.read = batch[t].read /\ r.asked = batch[t].asked /\ r.deleting = batch[t].deleting
  BY <1>2, <1>4, BatchDeleted
<1>6. batch'[t] = Without(batch[t], o) /\ \A v \in Trx \ {t} : batch'[v] = batch[v]
  BY <1>1, <1>2, <1>3, <1>5, OneBatch
<1>7. /\ batch'[t].of \subseteq batch[t].of /\ batch'[t].count = batch[t].count
      /\ batch'[t].read = batch[t].read /\ batch'[t].asked = batch[t].asked
      /\ batch'[t].deleting = batch[t].deleting
  BY <1>4, <1>5, <1>6
<1>8. \A v \in Trx : /\ \A x \in Finish : pc[v] = x => pc'[v] = x
                     /\ \A x \in Finish \ {"ended"} : pc'[v] = x => pc[v] = x
  BY <1>1 DEF DeleteEntry, SignalPool, Finish
<1>9. \A v \in Trx \ {t} : CountOK(v)'
  BY <1>1, <1>6, <1>8, CountFrame
<1>10. CountOK(t)'
  <2>1. \A n : Outstanding(t, n)' <=> Outstanding(t, n)
    BY <1>1 DEF Outstanding
  <2>2. batch'[t].count = (IF Outstanding(t, Self)' THEN 1 ELSE 0)
                          + (IF \E e \in Checkpoint : Outstanding(t, e)' THEN 1 ELSE 0)
    BY <1>7, <2>1 DEF CountOK
  <2>3. /\ pc'[t] \in {"hook", "hooked", "notify"} <=> Outstanding(t, Self)'
        /\ pc'[t] = "hooked" => pc[t] = "hooked"
        /\ pc'[t] = "notify" => pc[t] = "notify"
        /\ \A x \in Finish : pc[t] = x => pc'[t] = x
    BY <1>8, <2>1 DEF CountOK, Finish
  <2>4. \A e \in Checkpoint : notice'[<<t, e>>] \in {"flushed", "done"} => batch'[t].of \subseteq durable'[e]
    BY <1>1, <1>7 DEF CountOK
  <2> QED BY <1>1, <1>7, <2>2, <2>3, <2>4 DEF CountOK, Finish
<1>11. DecrementOK'
  <2>1. \A v \in Trx : batch'[v].count = batch[v].count
    BY <1>6, <1>7
  <2>2. \A v \in Trx : pc[v] = "notify" => pc'[v] = "notify"
    BY <1>8 DEF Finish
  <2> QED BY <1>1, <2>1, <2>2 DEF DecrementOK
<1> QED BY <1>9, <1>10, <1>11

\* All steps.
LEMMA CountStep ==
  ASSUME OneEngine, IInv, \A v \in Trx : CountOK(v), DecrementOK, Next
  PROVE  (\A v \in Trx : CountOK(v)') /\ DecrementOK'
<1>1. ASSUME NEW t \in Trx, CheckpointStep(t) PROVE (\A v \in Trx : CountOK(v)') /\ DecrementOK'
  BY <1>1, CountHookRead, CountHookWrite, CountEngineFlush, CountNotifyRead, CountNotifyWrite,
     CountDeleteEntry DEF CheckpointStep, Parties
<1>2. CASE \E t \in Trx : Step(t)
  BY <1>1, <1>2, CountQuiet, CountUnlog DEF Step
<1>3. CASE Terminated
  <2>1. UNCHANGED <<batch, notice, durable, decrement, pc>>
    BY <1>3 DEF Terminated, vars, session, checkpoint
  <2>2. \A v \in Trx : CountOK(v)'
    BY <2>1, CountFrame
  <2> QED BY <2>1, <2>2 DEF DecrementOK
<1> QED BY <1>2, <1>3 DEF Next

\* Nothing is stored and nothing counted in a new log.
LEMMA CheckpointsInitially ==
  ASSUME Init PROVE CInv
<1>1. IInv
  BY Initially
<1>2. /\ \A p \in Page : data[p] = [s \in Slot(p) |-> NoTrx]
      /\ pc = [t \in Trx |-> "start"]
      /\ batch = [t \in Trx |-> [of |-> {}, count |-> 0, read |-> 0, asked |-> {}, deleting |-> FALSE]]
      /\ notice = [n \in Notices |-> "none"] /\ decrement = NoDecrement
  BY DEF Init
<1>3. DiskOK /\ LoggedOK
  BY <1>2 DEF DiskOK, LoggedOK, Reported
<1>4. \A t \in Trx, n \in Checkpoint \union {Self} : notice[<<t, n>>] = "none"
  BY <1>2 DEF Notices
<1>5. \A t \in Trx : /\ batch[t].count = 0 /\ batch[t].asked = {} /\ ~batch[t].deleting
                     /\ pc[t] = "start"
  BY <1>2
<1>6. \A t \in Trx : CountOK(t)
  <2> SUFFICES ASSUME NEW t \in Trx PROVE CountOK(t)
    OBVIOUS
  <2>1. ~Outstanding(t, Self) /\ ~ \E e \in Checkpoint : Outstanding(t, e)
    BY <1>4 DEF Outstanding
  <2>2. batch[t].count = (IF Outstanding(t, Self) THEN 1 ELSE 0)
                         + (IF \E e \in Checkpoint : Outstanding(t, e) THEN 1 ELSE 0)
    BY <1>5, <2>1
  <2> QED BY <1>4, <1>5, <2>1, <2>2 DEF CountOK
<1>7. DecrementOK
  <2>1. decrement.of = <<>> /\ \A v, m : <<v, m>> # <<>>
    BY <1>2 DEF NoDecrement
  <2> QED BY <2>1 DEF DecrementOK
<1> QED BY <1>1, <1>3, <1>6, <1>7 DEF CInv

\* The stronger invariant, for one engine.
LEMMA CheckpointsPreserved ==
  ASSUME OneEngine, CInv, [Next]_vars PROVE CInv'
<1>1. IInv'
  BY Preserved DEF CInv
<1>2. CASE Next
  <2>1. \A t, u \in Trx : batch[t].deleting /\ u \in batch[t].of => \A e \in Checkpoint : u \in durable[e]
    BY DEF CInv, CountOK
  <2> QED BY <1>1, <1>2, <2>1, DiskStep, LoggedStep, CountStep DEF CInv
<1>3. CASE UNCHANGED vars
  <2>1. UNCHANGED <<data, disk, page, syncing, pc, cookie, failed, batch, notice, decrement, durable>>
    BY <1>3 DEF vars, pageVars, session, checkpoint
  <2>2. DiskOK' /\ LoggedOK' /\ DecrementOK'
    BY <2>1 DEF CInv, DiskOK, LoggedOK, DecrementOK, OnDisk, Stored, HasSlot
  <2>3. \A t \in Trx : CountOK(t)'
    BY <2>1, CountFrame DEF CInv
  <2> QED BY <1>1, <2>2, <2>3 DEF CInv
<1> QED BY <1>2, <1>3

\* Whenever the server crashes, recovery finds the XID of every transaction that was
\* reported committed and is not durable in some engine: log_one_transaction()
\* reports it after its page was synced, and commit_checkpoint_notify() lets
\* delete_entry() clear its slot after all engines have it.  With two engines or
\* more this is false, since the callback increments pending_count without the mutex.
THEOREM RecoveryFindsXids == OneEngine => (Spec => []FoundByRecovery)
<1> SUFFICES ASSUME OneEngine PROVE Spec => []FoundByRecovery
  OBVIOUS
<1>1. Init => CInv
  BY CheckpointsInitially
<1>2. CInv /\ [Next]_vars => CInv'
  BY CheckpointsPreserved
<1>3. CInv => FoundByRecovery
  BY DEF CInv, LoggedOK, FoundByRecovery, XidsFound, OnDisk, Stored, HasSlot, Reported
<1> QED BY <1>1, <1>2, <1>3, PTL DEF Spec
=============================================================================
