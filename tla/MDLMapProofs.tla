---------------------------- MODULE MDLMapProofs ----------------------------
(***************************************************************************)
(* Proofs about the container of metadata locks of module MDLMap: a name   *)
(* never has two locks in use, a thread that found a lock under a name     *)
(* locks an object of that name, no lock is leaked, and the container      *)
(* implements the promise of module LockNames, for any number of threads,  *)
(* names and objects.                                                      *)
(***************************************************************************)
EXTENDS MDLMap, TLAPS

USE MapAssumption

\* The steps of a thread that works on an object it found or reached
OnObject == {"lock", "check", "have", "remove", "delete", "read"}

\* The steps of a thread that found an object and has not looked at it yet
Looking == {"lock", "check", "read"}

\* The steps of a thread inside m_rwlock
Inside == {"check", "have", "remove"}

-----------------------------------------------------------------------------
(* The inductive invariant *)

\* The objects of the fixed names are always there
FixedOK ==
    /\ \A k \in FixedKeys :
          /\ state[FixedObj[k]] = "fixed" /\ strat[FixedObj[k]]
          /\ key[FixedObj[k]] = k
    /\ \A o \in Obj : state[o] = "fixed" => key[o] \in FixedKeys /\ FixedObj[key[o]] = o

\* The hash holds one object for a name, and none for a fixed one
HashOK ==
    /\ \A o \in Obj : state[o] = "linked" => key[o] \in Key \ FixedKeys
    /\ \A o, p \in Obj : state[o] = "linked" /\ state[p] = "linked" /\ key[o] = key[p] => o = p

\* An object with tickets is one that can be found, and not marked as removed
UsersOK == \A o \in Obj : users[o] # {} => state[o] \in {"linked", "fixed"} /\ strat[o]

\* The thread that write-locks an object works on it
WrOK == \A o \in Obj : \A t \in Thread : wr[o] = t => at[t] = o /\ pc[t] \in Inside

\* What a thread knows of the object it works on.  An object that it is still
\* to look at may have been removed, but then it says so, and it is not reused
\* because it is pinned; nothing removes an object while a thread that saw it
\* in use is inside m_rwlock.
ThreadOK(t) ==
    /\ pc[t] \in {"search", "alloc", "link"} => want[t] \in Key \ FixedKeys
    /\ pc[t] = "link" => at[t] \in Obj /\ state[at[t]] = "new" /\ key[at[t]] = want[t]
    /\ pc[t] \in OnObject =>
          at[t] \in Obj /\ want[t] \in Key /\ key[at[t]] = want[t]
    /\ pc[t] \in Looking =>
          /\ state[at[t]] \in {"linked", "dead", "fixed"}
          /\ state[at[t]] = "dead" => ~strat[at[t]]
          /\ state[at[t]] # "fixed" => pin[t] = at[t] /\ want[t] \notin FixedKeys
    /\ pc[t] \in Inside => wr[at[t]] = t
    /\ pc[t] \in {"have", "remove"} => state[at[t]] \in {"linked", "fixed"} /\ strat[at[t]]
    /\ pc[t] = "remove" => t \in users[at[t]]
    /\ pc[t] = "delete" => state[at[t]] = "linked" /\ ~strat[at[t]]

\* An object is created, and deleted, by one thread
OneOwner ==
    \A t, u \in Thread :
        pc[t] = pc[u] /\ pc[t] \in {"link", "delete"} /\ at[t] = at[u] => t = u

IInv ==
    /\ TypeOK
    /\ FixedOK /\ HashOK /\ UsersOK /\ WrOK /\ OneOwner
    /\ \A t \in Thread : ThreadOK(t)
    /\ NoLeakedLock

-----------------------------------------------------------------------------
(* Every action keeps it *)

\* A request enters find_or_insert(): it works on a fixed object or on none.
LEMMA RequestInv == ASSUME IInv, NEW t \in Thread, NEW k \in Key, Request(t, k) PROVE IInv'
<1> USE DEF IInv, TypeOK, Request
<1>1. TypeOK' BY DEF ObjState, MapPc
<1>2. FixedOK' BY DEF FixedOK, ThreadOK, OnObject
<1>3. HashOK' BY DEF HashOK, ThreadOK, OnObject
<1>4. UsersOK' BY DEF UsersOK, ThreadOK, OnObject
<1>5. WrOK' BY DEF WrOK, ThreadOK, OnObject, Inside
<1>6. OneOwner' BY DEF OneOwner, ThreadOK, OnObject, UsersOK
<1>7. ASSUME NEW u \in Thread PROVE ThreadOK(u)'
  BY DEF ThreadOK, OnObject, Looking, Inside, OneOwner, FixedOK, HashOK, UsersOK, WrOK
<1>8. NoLeakedLock' BY DEF NoLeakedLock, ThreadOK, OnObject, Looking, Inside, HashOK, FixedOK
<1> QED BY <1>1, <1>2, <1>3, <1>4, <1>5, <1>6, <1>7, <1>8

\* lf_hash_search() leads to an object of the name, which it pins, or to none.
LEMMA SearchInv == ASSUME IInv, NEW t \in Thread, Search(t) PROVE IInv'
<1> USE DEF IInv, TypeOK, Search, InHash, Found
<1>1. TypeOK' BY DEF ObjState, MapPc
<1>2. FixedOK' BY DEF FixedOK, ThreadOK, OnObject
<1>3. HashOK' BY DEF HashOK, ThreadOK, OnObject
<1>4. UsersOK' BY DEF UsersOK, ThreadOK, OnObject
<1>5. WrOK' BY DEF WrOK, ThreadOK, OnObject, Inside
<1>6. OneOwner' BY DEF OneOwner, ThreadOK, OnObject, UsersOK
<1>7. ASSUME NEW u \in Thread PROVE ThreadOK(u)'
  BY DEF ThreadOK, OnObject, Looking, Inside, OneOwner, FixedOK, HashOK, UsersOK, WrOK
<1>8. NoLeakedLock' BY DEF NoLeakedLock, ThreadOK, OnObject, Looking, Inside, HashOK, FixedOK
<1> QED BY <1>1, <1>2, <1>3, <1>4, <1>5, <1>6, <1>7, <1>8

\* The object lf_hash_insert() allocates was free, so no thread worked on it.
LEMMA AllocInv == ASSUME IInv, NEW t \in Thread, Alloc(t) PROVE IInv'
<1> USE DEF IInv, TypeOK, Alloc
<1>1. TypeOK' BY DEF ObjState, MapPc
<1>2. FixedOK' BY DEF FixedOK, ThreadOK, OnObject
<1>3. HashOK' BY DEF HashOK, ThreadOK, OnObject
<1>4. UsersOK' BY DEF UsersOK, ThreadOK, OnObject
<1>5. WrOK' BY DEF WrOK, ThreadOK, OnObject, Inside
<1>6. OneOwner' BY DEF OneOwner, ThreadOK, OnObject, UsersOK
<1>7. ASSUME NEW u \in Thread PROVE ThreadOK(u)'
  BY DEF ThreadOK, OnObject, Looking, Inside, OneOwner, FixedOK, HashOK, UsersOK, WrOK
<1>8. NoLeakedLock' BY DEF NoLeakedLock, ThreadOK, OnObject, Looking, Inside, HashOK, FixedOK
<1> QED BY <1>1, <1>2, <1>3, <1>4, <1>5, <1>6, <1>7, <1>8

\* The new object is linked only where the name had none.
LEMMA LinkInv == ASSUME IInv, NEW t \in Thread, Link(t) PROVE IInv'
<1> USE DEF IInv, TypeOK, Link, InHash
<1>1. TypeOK' BY DEF ObjState, MapPc
<1>2. FixedOK' BY DEF FixedOK, ThreadOK, OnObject
<1>3. HashOK' BY DEF HashOK, ThreadOK, OnObject
<1>4. UsersOK' BY DEF UsersOK, ThreadOK, OnObject
<1>5. WrOK' BY DEF WrOK, ThreadOK, OnObject, Inside
<1>6. OneOwner' BY DEF OneOwner, ThreadOK, OnObject, UsersOK
<1>7. ASSUME NEW u \in Thread PROVE ThreadOK(u)'
  BY DEF ThreadOK, OnObject, Looking, Inside, OneOwner, FixedOK, HashOK, UsersOK, WrOK
<1>8. NoLeakedLock' BY DEF NoLeakedLock, ThreadOK, OnObject, Looking, Inside, HashOK, FixedOK
<1> QED BY <1>1, <1>2, <1>3, <1>4, <1>5, <1>6, <1>7, <1>8

\* find_or_insert() write-locks an object no other thread is inside of.
LEMMA WrLockInv == ASSUME IInv, NEW t \in Thread, WrLock(t) PROVE IInv'
<1> USE DEF IInv, TypeOK, WrLock
<1>1. TypeOK' BY DEF ObjState, MapPc
<1>2. FixedOK' BY DEF FixedOK, ThreadOK, OnObject
<1>3. HashOK' BY DEF HashOK, ThreadOK, OnObject
<1>4. UsersOK' BY DEF UsersOK, ThreadOK, OnObject
<1>5. WrOK' BY DEF WrOK, ThreadOK, OnObject, Inside
<1>6. OneOwner' BY DEF OneOwner, ThreadOK, OnObject, UsersOK
<1>7. ASSUME NEW u \in Thread PROVE ThreadOK(u)'
  BY DEF ThreadOK, OnObject, Looking, Inside, OneOwner, FixedOK, HashOK, UsersOK, WrOK
<1>8. NoLeakedLock' BY DEF NoLeakedLock, ThreadOK, OnObject, Looking, Inside, HashOK, FixedOK
<1> QED BY <1>1, <1>2, <1>3, <1>4, <1>5, <1>6, <1>7, <1>8

\* find_or_insert() keeps an object that is not marked as removed, which is the
\* one in the hash, and lets go of any other.
LEMMA CheckInv == ASSUME IInv, NEW t \in Thread, Check(t) PROVE IInv'
<1> USE DEF IInv, TypeOK, Check
<1>1. TypeOK' BY DEF ObjState, MapPc
<1>2. FixedOK' BY DEF FixedOK, ThreadOK, OnObject
<1>3. HashOK' BY DEF HashOK, ThreadOK, OnObject
<1>4. UsersOK' BY DEF UsersOK, ThreadOK, OnObject
<1>5. WrOK' BY DEF WrOK, ThreadOK, OnObject, Inside
<1>6. OneOwner' BY DEF OneOwner, ThreadOK, OnObject, UsersOK
<1>7. ASSUME NEW u \in Thread PROVE ThreadOK(u)'
  <2>1. ThreadOK(t) /\ ThreadOK(u)
    OBVIOUS
  <2>2. CASE u = t
    BY <2>1, <2>2 DEF ThreadOK, OnObject, Looking, Inside, FixedOK
  <2>3. CASE u # t
    <3>1. pc'[u] = pc[u] /\ at'[u] = at[u] /\ pin'[u] = pin[u]
      BY <2>3
    <3>2. pc[u] \in Inside => at[u] # at[t]
      BY <2>1, <2>3 DEF ThreadOK, Inside
    <3> QED BY <2>1, <3>1, <3>2 DEF ThreadOK, OnObject, Looking, Inside
  <2> QED BY <2>2, <2>3
<1>8. NoLeakedLock' BY DEF NoLeakedLock, ThreadOK, OnObject, Looking, Inside, HashOK, FixedOK
<1> QED BY <1>1, <1>2, <1>3, <1>4, <1>5, <1>6, <1>7, <1>8

\* The ticket is added to the lock of the name.
LEMMA AddTicketInv == ASSUME IInv, NEW t \in Thread, AddTicket(t) PROVE IInv'
<1> USE DEF IInv, TypeOK, AddTicket, Unlock
<1>1. TypeOK' BY DEF ObjState, MapPc
<1>2. FixedOK' BY DEF FixedOK, ThreadOK, OnObject
<1>3. HashOK' BY DEF HashOK, ThreadOK, OnObject
<1>4. UsersOK' BY DEF UsersOK, ThreadOK, OnObject
<1>5. WrOK' BY DEF WrOK, ThreadOK, OnObject, Inside
<1>6. OneOwner' BY DEF OneOwner, ThreadOK, OnObject, UsersOK
<1>7. ASSUME NEW u \in Thread PROVE ThreadOK(u)'
  BY DEF ThreadOK, OnObject, Looking, Inside, OneOwner, FixedOK, HashOK, UsersOK, WrOK
<1>8. ASSUME NEW o \in Obj, state'[o] = "linked", users'[o] = {}
      PROVE  \E u \in Thread :
                \/ pc'[u] \in {"search", "lock", "check", "have"} /\ want'[u] = key'[o]
                \/ pc'[u] = "delete" /\ at'[u] = o
  <2>1. at[t] \in Obj /\ state[at[t]] \in {"linked", "fixed"} /\ key[at[t]] = want[t]
    BY DEF ThreadOK, OnObject
  <2>2. o # at[t] /\ users[o] = {}
    BY <1>8, <2>1
  <2>3. want[t] # key[o]
    BY <1>8, <2>1, <2>2 DEF HashOK, FixedOK
  <2>4. PICK u \in Thread : \/ pc[u] \in {"search", "lock", "check", "have"} /\ want[u] = key[o]
                            \/ pc[u] = "delete" /\ at[u] = o
    BY <1>8, <2>2 DEF NoLeakedLock
  <2>5. u # t
    BY <2>3, <2>4
  <2> QED BY <2>4, <2>5
<1> QED BY <1>1, <1>2, <1>3, <1>4, <1>5, <1>6, <1>7, <1>8 DEF NoLeakedLock

\* try_acquire_lock() leaves a lock with the tickets of others.
LEMMA GiveUpInv == ASSUME IInv, NEW t \in Thread, GiveUp(t) PROVE IInv'
<1> USE DEF IInv, TypeOK, GiveUp, Unlock
<1>1. TypeOK' BY DEF ObjState, MapPc
<1>2. FixedOK' BY DEF FixedOK, ThreadOK, OnObject
<1>3. HashOK' BY DEF HashOK, ThreadOK, OnObject
<1>4. UsersOK' BY DEF UsersOK, ThreadOK, OnObject
<1>5. WrOK' BY DEF WrOK, ThreadOK, OnObject, Inside
<1>6. OneOwner' BY DEF OneOwner, ThreadOK, OnObject, UsersOK
<1>7. ASSUME NEW u \in Thread PROVE ThreadOK(u)'
  BY DEF ThreadOK, OnObject, Looking, Inside, OneOwner, FixedOK, HashOK, UsersOK, WrOK
<1>8. NoLeakedLock' BY DEF NoLeakedLock, ThreadOK, OnObject, Looking, Inside, HashOK, FixedOK
<1> QED BY <1>1, <1>2, <1>3, <1>4, <1>5, <1>6, <1>7, <1>8

\* The object a thread reaches through its ticket is in use.
LEMMA RemoveStartInv == ASSUME IInv, NEW t \in Thread, NEW o \in Obj, RemoveStart(t, o) PROVE IInv'
<1> USE DEF IInv, TypeOK, RemoveStart
<1>1. TypeOK' BY DEF ObjState, MapPc
<1>2. FixedOK' BY DEF FixedOK, ThreadOK, OnObject
<1>3. HashOK' BY DEF HashOK, ThreadOK, OnObject
<1>4. UsersOK' BY DEF UsersOK, ThreadOK, OnObject
<1>5. WrOK' BY DEF WrOK, ThreadOK, OnObject, Inside
<1>6. OneOwner' BY DEF OneOwner, ThreadOK, OnObject, UsersOK
<1>7. ASSUME NEW u \in Thread PROVE ThreadOK(u)'
  BY DEF ThreadOK, OnObject, Looking, Inside, OneOwner, FixedOK, HashOK, UsersOK, WrOK
<1>8. NoLeakedLock' BY DEF NoLeakedLock, ThreadOK, OnObject, Looking, Inside, HashOK, FixedOK
<1> QED BY <1>1, <1>2, <1>3, <1>4, <1>5, <1>6, <1>7, <1>8

\* The last ticket marks the object as removed; its thread is the one to delete it.
LEMMA RemoveTicketInv == ASSUME IInv, NEW t \in Thread, RemoveTicket(t) PROVE IInv'
<1> USE DEF IInv, TypeOK, RemoveTicket, Unlock
<1>1. TypeOK' BY DEF ObjState, MapPc
<1>2. FixedOK' BY DEF FixedOK, ThreadOK, OnObject
<1>3. HashOK' BY DEF HashOK, ThreadOK, OnObject
<1>4. UsersOK' BY DEF UsersOK, ThreadOK, OnObject
<1>5. WrOK' BY DEF WrOK, ThreadOK, OnObject, Inside
<1>6. OneOwner' BY DEF OneOwner, ThreadOK, OnObject, UsersOK
<1>7. ASSUME NEW u \in Thread PROVE ThreadOK(u)'
  BY DEF ThreadOK, OnObject, Looking, Inside, OneOwner, FixedOK, HashOK, UsersOK, WrOK
<1>8. ASSUME NEW o \in Obj, state'[o] = "linked", users'[o] = {}
      PROVE  \E u \in Thread :
                \/ pc'[u] \in {"search", "lock", "check", "have"} /\ want'[u] = key'[o]
                \/ pc'[u] = "delete" /\ at'[u] = o
  <2>1. at[t] \in Obj /\ t \in users[at[t]]
    BY DEF ThreadOK, OnObject
  <2>2. CASE o = at[t]
    <3>1. users[o] = {t} /\ state[o] # "fixed"
      BY <1>8, <2>1, <2>2
    <3>2. pc'[t] = "delete" /\ at'[t] = o
      BY <2>2, <3>1
    <3> QED BY <3>2
  <2>3. CASE o # at[t]
    <3>1. PICK u \in Thread :
                \/ pc[u] \in {"search", "lock", "check", "have"} /\ want[u] = key[o]
                \/ pc[u] = "delete" /\ at[u] = o
      BY <1>8, <2>1, <2>3 DEF NoLeakedLock
    <3>2. u # t
      BY <3>1
    <3>3. pc'[u] = pc[u] /\ at'[u] = at[u] /\ want'[u] = want[u] /\ key' = key
      BY <3>2
    <3> QED BY <3>1, <3>3
  <2> QED BY <2>2, <2>3
<1> QED BY <1>1, <1>2, <1>3, <1>4, <1>5, <1>6, <1>7, <1>8 DEF NoLeakedLock

\* lf_hash_delete() removes no object but the one of the thread that calls it.
LEMMA DeleteInv == ASSUME IInv, NEW t \in Thread, Delete(t) PROVE IInv'
<1> USE DEF IInv, TypeOK, Delete, DeleteName, InHash
<1>1. TypeOK' BY DEF ObjState, MapPc
<1>2. FixedOK' BY DEF FixedOK, ThreadOK, OnObject
<1>3. HashOK' BY DEF HashOK, ThreadOK, OnObject
<1>4. UsersOK' BY DEF UsersOK, ThreadOK, OnObject, HashOK
<1>5. WrOK' BY DEF WrOK, ThreadOK, OnObject, Inside
<1>6. OneOwner' BY DEF OneOwner, ThreadOK, OnObject, UsersOK
<1>7. ASSUME NEW u \in Thread PROVE ThreadOK(u)'
  BY DEF ThreadOK, OnObject, Looking, Inside, OneOwner, FixedOK, HashOK, UsersOK, WrOK
<1>8. NoLeakedLock' BY DEF NoLeakedLock, ThreadOK, OnObject, Looking, Inside, HashOK, FixedOK
<1> QED BY <1>1, <1>2, <1>3, <1>4, <1>5, <1>6, <1>7, <1>8

\* A reader finds an object of the name and pins it.
LEMMA ReadSearchInv == ASSUME IInv, NEW t \in Thread, NEW k \in Key, ReadSearch(t, k) PROVE IInv'
<1> USE DEF IInv, TypeOK, ReadSearch, InHash, Found
<1>1. TypeOK' BY DEF ObjState, MapPc
<1>2. FixedOK' BY DEF FixedOK, ThreadOK, OnObject
<1>3. HashOK' BY DEF HashOK, ThreadOK, OnObject
<1>4. UsersOK' BY DEF UsersOK, ThreadOK, OnObject
<1>5. WrOK' BY DEF WrOK, ThreadOK, OnObject, Inside
<1>6. OneOwner' BY DEF OneOwner, ThreadOK, OnObject, UsersOK
<1>7. ASSUME NEW u \in Thread PROVE ThreadOK(u)'
  BY DEF ThreadOK, OnObject, Looking, Inside, OneOwner, FixedOK, HashOK, UsersOK, WrOK
<1>8. NoLeakedLock' BY DEF NoLeakedLock, ThreadOK, OnObject, Looking, Inside, HashOK, FixedOK
<1> QED BY <1>1, <1>2, <1>3, <1>4, <1>5, <1>6, <1>7, <1>8

\* A reader lets go of what it read.
LEMMA ReadLockInv == ASSUME IInv, NEW t \in Thread, ReadLock(t) PROVE IInv'
<1> USE DEF IInv, TypeOK, ReadLock
<1>1. TypeOK' BY DEF ObjState, MapPc
<1>2. FixedOK' BY DEF FixedOK, ThreadOK, OnObject
<1>3. HashOK' BY DEF HashOK, ThreadOK, OnObject
<1>4. UsersOK' BY DEF UsersOK, ThreadOK, OnObject
<1>5. WrOK' BY DEF WrOK, ThreadOK, OnObject, Inside
<1>6. OneOwner' BY DEF OneOwner, ThreadOK, OnObject, UsersOK
<1>7. ASSUME NEW u \in Thread PROVE ThreadOK(u)'
  BY DEF ThreadOK, OnObject, Looking, Inside, OneOwner, FixedOK, HashOK, UsersOK, WrOK
<1>8. NoLeakedLock' BY DEF NoLeakedLock, ThreadOK, OnObject, Looking, Inside, HashOK, FixedOK
<1> QED BY <1>1, <1>2, <1>3, <1>4, <1>5, <1>6, <1>7, <1>8

\* The allocator takes back no object that a thread works on.
LEMMA ReclaimInv == ASSUME IInv, NEW o \in Obj, Reclaim(o) PROVE IInv'
<1> USE DEF IInv, TypeOK, Reclaim
<1>1. TypeOK' BY DEF ObjState, MapPc
<1>2. FixedOK' BY DEF FixedOK, ThreadOK, OnObject
<1>3. HashOK' BY DEF HashOK, ThreadOK, OnObject
<1>4. UsersOK' BY DEF UsersOK, ThreadOK, OnObject
<1>5. WrOK' BY DEF WrOK, ThreadOK, OnObject, Inside
<1>6. OneOwner' BY DEF OneOwner, ThreadOK, OnObject, UsersOK
<1>7. ASSUME NEW u \in Thread PROVE ThreadOK(u)'
  BY DEF ThreadOK, OnObject, Looking, Inside, OneOwner, FixedOK, HashOK, UsersOK, WrOK
<1>8. NoLeakedLock' BY DEF NoLeakedLock, ThreadOK, OnObject, Looking, Inside, HashOK, FixedOK
<1> QED BY <1>1, <1>2, <1>3, <1>4, <1>5, <1>6, <1>7, <1>8

-----------------------------------------------------------------------------
(* The invariants *)

\* MDL_map::init() establishes the invariant.
LEMMA InitInv == Init => IInv
<1> SUFFICES ASSUME Init PROVE IInv
  OBVIOUS
<1> DEFINE fixed == {FixedObj[k] : k \in FixedKeys}
<1>1. ASSUME NEW k \in FixedKeys
      PROVE  FixedObj[k] \in fixed /\ (CHOOSE j \in FixedKeys : FixedObj[j] = FixedObj[k]) = k
  OBVIOUS
<1>2. ASSUME NEW o \in fixed
      PROVE  /\ (CHOOSE j \in FixedKeys : FixedObj[j] = o) \in FixedKeys
             /\ FixedObj[CHOOSE j \in FixedKeys : FixedObj[j] = o] = o
  OBVIOUS
<1>3. TypeOK
  BY <1>2 DEF Init, TypeOK, ObjState, MapPc
<1>4. FixedOK
  BY <1>1, <1>2 DEF Init, FixedOK
<1>5. HashOK /\ UsersOK /\ WrOK /\ OneOwner /\ NoLeakedLock /\ \A t \in Thread : ThreadOK(t)
  BY DEF Init, HashOK, UsersOK, WrOK, OneOwner, NoLeakedLock, ThreadOK, OnObject, Looking, Inside
<1> QED BY <1>3, <1>4, <1>5 DEF IInv

\* Every step keeps the invariant.
LEMMA NextInv == IInv /\ [Next]_vars => IInv'
<1> SUFFICES ASSUME IInv, [Next]_vars PROVE IInv'
  OBVIOUS
<1>1. CASE UNCHANGED vars
  BY <1>1 DEF vars, IInv, TypeOK, FixedOK, HashOK, UsersOK, WrOK, OneOwner, NoLeakedLock,
              ThreadOK, OnObject, Looking, Inside
<1>2. ASSUME NEW t \in Thread, Call(t) PROVE IInv'
  BY <1>2, RequestInv, ReadSearchInv, RemoveStartInv DEF Call
<1>3. ASSUME NEW t \in Thread, Step(t) PROVE IInv'
  BY <1>3, SearchInv, AllocInv, LinkInv, WrLockInv, CheckInv, AddTicketInv, GiveUpInv,
     RemoveTicketInv, DeleteInv, ReadLockInv DEF Step
<1>4. ASSUME NEW o \in Obj, Reclaim(o) PROVE IInv'
  BY <1>4, ReclaimInv
<1> QED BY <1>1, <1>2, <1>3, <1>4 DEF Next

\* The invariant holds in every state the container can reach.
THEOREM Invariance == Spec => []IInv
BY InitInv, NextInv, PTL DEF Spec

\* The variables of the container keep their types.
THEOREM TypeCorrect == Spec => []TypeOK
<1>1. IInv => TypeOK BY DEF IInv
<1> QED BY <1>1, Invariance, PTL

\* An object in use, one with a ticket or one find_or_insert() or
\* remove_ticket() has entered, is in the hash or fixed.
LEMMA InUseIsFound ==
    ASSUME IInv, NEW o \in Obj,
           users[o] # {} \/ \E t \in Thread : at[t] = o /\ pc[t] \in {"have", "remove"}
    PROVE  state[o] \in {"linked", "fixed"} /\ strat[o]
BY DEF IInv, UsersOK, ThreadOK

\* Two objects that can be found have different names.
LEMMA FoundIsUnique ==
    ASSUME IInv, NEW o \in Obj, NEW p \in Obj, key[o] = key[p],
           state[o] \in {"linked", "fixed"}, state[p] \in {"linked", "fixed"}
    PROVE  o = p
BY DEF IInv, HashOK, FixedOK

\* Two threads never have the same name by two objects, though locks are
\* removed and inserted again while others look for them: find_or_insert()
\* leads every thread to the one lock of the name.
THEOREM NamesAreUnique == Spec => []OneLockPerName
<1>1. IInv => OneLockPerName
  BY InUseIsFound, FoundIsUnique DEF OneLockPerName
<1> QED BY <1>1, Invariance, PTL

\* What find_or_insert(), get_lock_owner() and mdl_iterate() lock is still an
\* object of the name they found it under, removed perhaps but never reused.
THEOREM FoundObjectsKeepTheirName == Spec => []FoundKeepsName
<1>1. IInv => FoundKeepsName
  BY DEF IInv, UsersOK, ThreadOK, OnObject, Looking, FoundKeepsName
<1> QED BY <1>1, Invariance, PTL

\* An object in the hash without tickets has a thread that will use it or
\* delete it: MDL_map::remove() leaks nothing.
THEOREM NothingLeaks == Spec => []NoLeakedLock
<1>1. IInv => NoLeakedLock BY DEF IInv
<1> QED BY <1>1, Invariance, PTL

-----------------------------------------------------------------------------
(* The container implements LockNames *)

\* The mapping's view of a step
AbsTickets == [k \in Key |-> TicketsOf(k)]
AbsSection == [k \in Key |-> SectionOf(k)]

\* The section of a name is the one thread inside its lock.
SectionExact ==
    \A k \in Key :
        /\ \A t \in Thread : InSection(t, k) => SectionOf(k) = t
        /\ (\A t \in Thread : ~InSection(t, k)) => SectionOf(k) = NoThread

\* Two threads are never inside one name: they would be inside one object.
LEMMA SectionIs == IInv => SectionExact
<1> SUFFICES ASSUME IInv, NEW k \in Key
             PROVE  /\ \A t \in Thread : InSection(t, k) => SectionOf(k) = t
                    /\ (\A t \in Thread : ~InSection(t, k)) => SectionOf(k) = NoThread
  BY DEF SectionExact
<1>1. ASSUME NEW t \in Thread, NEW u \in Thread, InSection(t, k), InSection(u, k)
      PROVE  t = u
  <2>1. at[t] \in Obj /\ at[u] \in Obj /\ key[at[t]] = k /\ key[at[u]] = k
    BY <1>1 DEF IInv, ThreadOK, OnObject, InSection
  <2>2. at[t] = at[u]
    BY <1>1, <2>1, InUseIsFound, FoundIsUnique DEF InSection
  <2> QED BY <1>1, <2>2 DEF IInv, ThreadOK, Inside, InSection
<1> QED BY <1>1 DEF SectionOf

\* The same in the next state.
LEMMA SectionWillBe == IInv' => SectionExact'
BY SectionIs, PTL

\* The section of a name changes only with who is inside.
LEMMA SectionStays ==
    ASSUME IInv, IInv', NEW k \in Key,
           \A t \in Thread : InSection(t, k) <=> InSection(t, k)'
    PROVE  SectionOf(k)' = SectionOf(k)
<1>1. CASE \E t \in Thread : InSection(t, k)
  BY <1>1, SectionIs, SectionWillBe DEF SectionExact
<1>2. CASE \A t \in Thread : ~InSection(t, k)
  BY <1>2, SectionIs, SectionWillBe DEF SectionExact
<1> QED BY <1>1, <1>2

\* A step that leaves tickets and names alone, and moves no thread into or out
\* of "have" and "remove", is a stuttering step.
LEMMA QuietStutters ==
    ASSUME IInv, IInv',
           \A k \in Key : TicketsOf(k)' = TicketsOf(k),
           \A t \in Thread : \A k \in Key : InSection(t, k) <=> InSection(t, k)'
    PROVE  UNCHANGED <<AbsTickets, AbsSection>>
BY SectionStays DEF AbsTickets, AbsSection

\* The step with which t gets into the lock of the name k is Enter.
LEMMA EnterStep ==
    ASSUME IInv, IInv', NEW t \in Thread, NEW k \in Key,
           \A j \in Key : TicketsOf(j)' = TicketsOf(j),
           \A u \in Thread : ~InSection(u, k),
           \A u \in Thread : \A j \in Key :
              InSection(u, j)' <=> (InSection(u, j) \/ (u = t /\ j = k))
    PROVE  Names!Enter(t, k)
<1>1. AbsTickets' = AbsTickets
  BY DEF AbsTickets
<1>2. AbsSection[k] = NoThread
  BY SectionIs DEF SectionExact, AbsSection
<1>3. SectionOf(k)' = t
  BY SectionWillBe DEF SectionExact
<1>4. ASSUME NEW j \in Key \ {k} PROVE SectionOf(j)' = SectionOf(j)
  BY SectionStays
<1>5. AbsSection' = [AbsSection EXCEPT ![k] = t]
  BY <1>3, <1>4 DEF AbsSection
<1> QED BY <1>1, <1>2, <1>5 DEF Names!Enter, AbsTickets, AbsSection

\* The step with which t gets out of the lock of the name k is Leave, with its
\* ticket added, removed or neither.
LEMMA LeaveStep ==
    ASSUME IInv, IInv', NEW t \in Thread, NEW k \in Key,
           \A j \in Key \ {k} : TicketsOf(j)' = TicketsOf(j),
           TicketsOf(k)' \in {TicketsOf(k), TicketsOf(k) \cup {t}, TicketsOf(k) \ {t}},
           InSection(t, k),
           \A u \in Thread : \A j \in Key : InSection(u, j)' <=> (InSection(u, j) /\ u # t)
    PROVE  Names!Leave(t, k)
<1>1. AbsSection[k] = t
  BY SectionIs DEF SectionExact, AbsSection
<1>2. SectionOf(k)' = NoThread
  <2>1. \A u \in Thread : ~InSection(u, k)'
    BY SectionIs DEF SectionExact
  <2> QED BY <2>1, SectionWillBe DEF SectionExact
<1>3. ASSUME NEW j \in Key \ {k} PROVE SectionOf(j)' = SectionOf(j)
  <2>1. ~InSection(t, j)
    BY DEF InSection
  <2> QED BY <2>1, SectionStays
<1>4. AbsSection' = [AbsSection EXCEPT ![k] = NoThread]
  BY <1>2, <1>3 DEF AbsSection
<1>5. \E S \in {AbsTickets[k], AbsTickets[k] \cup {t}, AbsTickets[k] \ {t}} :
         AbsTickets' = [AbsTickets EXCEPT ![k] = S]
  BY DEF AbsTickets
<1> QED BY <1>1, <1>4, <1>5 DEF Names!Leave, AbsTickets, AbsSection

\* Calls into the container and the steps of the search are not seen by the
\* lock manager, nor is the reclamation of objects.
LEMMA OutsideStutters ==
    ASSUME IInv, IInv',
           \/ \E t \in Thread : \/ \E k \in Key : Request(t, k) \/ ReadSearch(t, k)
                                \/ Search(t) \/ Link(t) \/ WrLock(t) \/ Delete(t) \/ ReadLock(t)
           \/ \E o \in Obj : Reclaim(o)
    PROVE  UNCHANGED <<AbsTickets, AbsSection>>
<1>1. users' = users /\ key' = key
  BY DEF Request, ReadSearch, Search, Link, WrLock, Delete, ReadLock, Reclaim
<1>2. \A j \in Key : TicketsOf(j)' = TicketsOf(j)
  BY <1>1 DEF TicketsOf
<1>3. ASSUME NEW u \in Thread, NEW j \in Key PROVE InSection(u, j) <=> InSection(u, j)'
  <2>1. \/ pc'[u] = pc[u] /\ at'[u] = at[u]
        \/ pc[u] \notin {"have", "remove"} /\ pc'[u] \notin {"have", "remove"}
    BY DEF IInv, TypeOK, Request, ReadSearch, Search, Link, WrLock, Delete, ReadLock, Reclaim
  <2> QED BY <1>1, <2>1 DEF InSection
<1> QED BY <1>2, <1>3, QuietStutters

\* Nor is the allocation of an object: a free one has no tickets and no thread
\* inside.
LEMMA AllocStutters ==
    ASSUME IInv, IInv', NEW t \in Thread, Alloc(t)
    PROVE  UNCHANGED <<AbsTickets, AbsSection>>
<1>1. PICK o \in Obj : /\ state[o] = "free"
                       /\ key' = [key EXCEPT ![o] = want[t]]
                       /\ at' = [at EXCEPT ![t] = o]
  BY DEF Alloc
<1>2. users' = users /\ users[o] = {}
  BY <1>1 DEF Alloc, IInv, UsersOK
<1>3. ASSUME NEW k \in Key PROVE TicketsOf(k)' = TicketsOf(k)
  <2>1. \A p \in Obj \ {o} : key'[p] = key[p]
    BY <1>1 DEF IInv, TypeOK
  <2> QED BY <1>2, <2>1 DEF TicketsOf
<1>4. ASSUME NEW u \in Thread, NEW j \in Key PROVE InSection(u, j) <=> InSection(u, j)'
  <2>1. CASE u = t
    BY <2>1 DEF Alloc, IInv, TypeOK, InSection
  <2>2. CASE u # t
    <3>1. pc'[u] = pc[u] /\ at'[u] = at[u]
      BY <1>1, <2>2 DEF Alloc, IInv, TypeOK
    <3>2. pc[u] \in {"have", "remove"} => key'[at[u]] = key[at[u]]
      BY <1>1 DEF IInv, TypeOK, ThreadOK, OnObject
    <3> QED BY <3>1, <3>2 DEF InSection
  <2> QED BY <2>1, <2>2
<1> QED BY <1>3, <1>4, QuietStutters

\* An object that can be found has nobody else inside its name when nobody is
\* inside the object.
LEMMA NobodyInside ==
    ASSUME IInv, NEW o \in Obj, state[o] \in {"linked", "fixed"},
           NEW t \in Thread, pc[t] \notin {"have", "remove"}, wr[o] \in {t, NoThread}
    PROVE  \A u \in Thread : ~InSection(u, key[o])
<1> SUFFICES ASSUME NEW u \in Thread, InSection(u, key[o]) PROVE FALSE
  OBVIOUS
<1>1. at[u] \in Obj /\ wr[at[u]] = u /\ state[at[u]] \in {"linked", "fixed"}
  BY DEF InSection, IInv, ThreadOK, OnObject, Inside
<1>2. at[u] = o
  BY <1>1, FoundIsUnique DEF InSection
<1> QED BY <1>1, <1>2 DEF InSection

\* find_or_insert() enters the name when it has looked at m_strategy; before
\* that the thread may be inside an object that is no longer the lock.
LEMMA CheckEnters ==
    ASSUME IInv, IInv', NEW t \in Thread, Check(t)
    PROVE  Names!Enter(t, want[t]) \/ UNCHANGED <<AbsTickets, AbsSection>>
<1>1. users' = users /\ key' = key
  BY DEF Check
<1>2. \A j \in Key : TicketsOf(j)' = TicketsOf(j)
  BY <1>1 DEF TicketsOf
<1>3. /\ at[t] \in Obj /\ want[t] \in Key /\ key[at[t]] = want[t] /\ wr[at[t]] = t
      /\ state[at[t]] = "dead" => ~strat[at[t]]
      /\ state[at[t]] \in {"linked", "dead", "fixed"}
  BY DEF Check, IInv, ThreadOK, OnObject, Looking, Inside
<1>4. \A u \in Thread \ {t} : pc'[u] = pc[u] /\ at'[u] = at[u]
  BY DEF Check, IInv, TypeOK
<1>5. pc[t] = "check"
  BY DEF Check
<1>6. CASE strat[at[t]]
  <2>1. pc'[t] = "have" /\ at'[t] = at[t]
    BY <1>6 DEF Check, IInv, TypeOK
  <2>2. \A u \in Thread : ~InSection(u, want[t])
    BY <1>3, <1>5, <1>6, NobodyInside
  <2>3. ASSUME NEW u \in Thread, NEW j \in Key
        PROVE  InSection(u, j)' <=> (InSection(u, j) \/ (u = t /\ j = want[t]))
    BY <1>1, <1>3, <1>4, <1>5, <2>1 DEF InSection
  <2> QED BY <1>2, <1>3, <2>2, <2>3, EnterStep
<1>7. CASE ~strat[at[t]]
  <2>1. pc'[t] = "search"
    BY <1>7 DEF Check, IInv, TypeOK
  <2>2. ASSUME NEW u \in Thread, NEW j \in Key PROVE InSection(u, j) <=> InSection(u, j)'
    BY <1>1, <1>4, <1>5, <2>1 DEF InSection
  <2> QED BY <1>2, <2>2, QuietStutters
<1> QED BY <1>6, <1>7

\* remove_ticket() enters the name through the ticket.
LEMMA RemoveStartEnters ==
    ASSUME IInv, IInv', NEW t \in Thread, NEW o \in Obj, RemoveStart(t, o)
    PROVE  key[o] \in Key /\ Names!Enter(t, key[o])
<1>1. users' = users /\ key' = key
  BY DEF RemoveStart
<1>2. \A j \in Key : TicketsOf(j)' = TicketsOf(j)
  BY <1>1 DEF TicketsOf
<1>3. state[o] \in {"linked", "fixed"} /\ pc[t] = "idle" /\ wr[o] = NoThread
  BY DEF RemoveStart, IInv, UsersOK
<1>4. key[o] \in Key
  BY <1>3 DEF IInv, HashOK, FixedOK
<1>5. \A u \in Thread : ~InSection(u, key[o])
  BY <1>3, NobodyInside
<1>6. pc'[t] = "remove" /\ at'[t] = o /\ \A u \in Thread \ {t} : pc'[u] = pc[u] /\ at'[u] = at[u]
  BY DEF RemoveStart, IInv, TypeOK
<1>7. ASSUME NEW u \in Thread, NEW j \in Key
      PROVE  InSection(u, j)' <=> (InSection(u, j) \/ (u = t /\ j = key[o]))
  BY <1>1, <1>3, <1>6 DEF InSection
<1> QED BY <1>2, <1>4, <1>5, <1>7, EnterStep

\* Who is inside after a thread has left.
LEMMA LeftSection ==
    ASSUME IInv, NEW t \in Thread, pc[t] \in {"have", "remove"},
           pc'[t] \notin {"have", "remove"}, key' = key,
           \A u \in Thread \ {t} : pc'[u] = pc[u] /\ at'[u] = at[u]
    PROVE  /\ want[t] \in Key /\ InSection(t, want[t])
           /\ \A u \in Thread : \A j \in Key : InSection(u, j)' <=> (InSection(u, j) /\ u # t)
BY DEF IInv, ThreadOK, OnObject, InSection

\* A thread leaves the name with its ticket added, or with none.
LEMMA AddLeaves ==
    ASSUME IInv, IInv', NEW t \in Thread, AddTicket(t) \/ GiveUp(t)
    PROVE  \E k \in Key : Names!Leave(t, k)
<1>1. /\ key' = key /\ pc[t] = "have" /\ pc'[t] = "idle"
      /\ \A u \in Thread \ {t} : pc'[u] = pc[u] /\ at'[u] = at[u]
  BY DEF AddTicket, GiveUp, Unlock, IInv, TypeOK
<1>2. /\ want[t] \in Key /\ InSection(t, want[t])
      /\ \A u \in Thread : \A j \in Key : InSection(u, j)' <=> (InSection(u, j) /\ u # t)
  BY <1>1, LeftSection
<1>3. PICK k \in Key : k = want[t]
  BY <1>2
<1>4. PICK o \in Obj : o = at[t] /\ key[o] = k
  BY <1>1, <1>3 DEF IInv, ThreadOK, OnObject
<1>5. users' = users \/ users' = [users EXCEPT ![o] = @ \cup {t}]
  BY <1>4 DEF AddTicket, GiveUp
<1>6. \A p \in Obj \ {o} : users'[p] = users[p]
  BY <1>5 DEF IInv, TypeOK
<1>7. \A j \in Key \ {k} : TicketsOf(j)' = TicketsOf(j)
  BY <1>1, <1>4, <1>6 DEF TicketsOf
<1>8. TicketsOf(k)' \in {TicketsOf(k), TicketsOf(k) \cup {t}, TicketsOf(k) \ {t}}
  <2>1. CASE users' = users
    BY <1>1, <2>1 DEF TicketsOf
  <2>2. CASE users' = [users EXCEPT ![o] = @ \cup {t}]
    <3>1. users'[o] = users[o] \cup {t}
      BY <2>2 DEF IInv, TypeOK
    <3>2. TicketsOf(k)' = TicketsOf(k) \cup {t}
      BY <1>1, <1>4, <1>6, <3>1 DEF TicketsOf
    <3> QED BY <3>2
  <2> QED BY <1>5, <2>1, <2>2
<1> QED BY <1>2, <1>3, <1>7, <1>8, LeaveStep

\* A thread leaves the name without its ticket: its tickets on the name are all
\* on the one object, so that none is left on another.
LEMMA RemoveLeaves ==
    ASSUME IInv, IInv', NEW t \in Thread, RemoveTicket(t)
    PROVE  \E k \in Key : Names!Leave(t, k)
<1>1. /\ key' = key /\ pc[t] = "remove" /\ pc'[t] \in {"idle", "delete"}
      /\ \A u \in Thread \ {t} : pc'[u] = pc[u] /\ at'[u] = at[u]
  BY DEF RemoveTicket, Unlock, IInv, TypeOK
<1>2. /\ want[t] \in Key /\ InSection(t, want[t])
      /\ \A u \in Thread : \A j \in Key : InSection(u, j)' <=> (InSection(u, j) /\ u # t)
  BY <1>1, LeftSection
<1>3. PICK k \in Key : k = want[t]
  BY <1>2
<1>4. PICK o \in Obj : o = at[t] /\ key[o] = k /\ t \in users[o]
  BY <1>1, <1>3 DEF IInv, ThreadOK, OnObject
<1>5. users'[o] = users[o] \ {t} /\ \A p \in Obj \ {o} : users'[p] = users[p]
  BY <1>4 DEF RemoveTicket, IInv, TypeOK
<1>6. \A j \in Key \ {k} : TicketsOf(j)' = TicketsOf(j)
  BY <1>1, <1>4, <1>5 DEF TicketsOf
<1>7. \A p \in Obj \ {o} : key[p] = k => users[p] = {}
  BY <1>4, InUseIsFound, FoundIsUnique
<1>8. TicketsOf(k) = users[o]
  BY <1>4, <1>7 DEF TicketsOf
<1>9. TicketsOf(k)' = users'[o]
  BY <1>1, <1>4, <1>5, <1>7 DEF TicketsOf
<1>10. TicketsOf(k)' \in {TicketsOf(k), TicketsOf(k) \cup {t}, TicketsOf(k) \ {t}}
  BY <1>5, <1>8, <1>9
<1> QED BY <1>2, <1>3, <1>6, <1>10, LeaveStep

\* Every step of the container is a step of LockNames or none.
LEMMA NamesStep ==
    IInv /\ IInv' /\ [Next]_vars => [Names!Next]_<<AbsTickets, AbsSection>>
<1> SUFFICES ASSUME IInv, IInv', [Next]_vars
             PROVE  Names!Next \/ UNCHANGED <<AbsTickets, AbsSection>>
  OBVIOUS
<1>1. CASE UNCHANGED vars
  BY <1>1 DEF vars, AbsTickets, AbsSection, TicketsOf, SectionOf, InSection
<1>2. ASSUME NEW t \in Thread, Call(t) PROVE Names!Next \/ UNCHANGED <<AbsTickets, AbsSection>>
  <2>1. ASSUME NEW k \in Key, Request(t, k) \/ ReadSearch(t, k)
        PROVE  UNCHANGED <<AbsTickets, AbsSection>>
    BY <2>1, OutsideStutters
  <2>2. ASSUME NEW o \in Obj, RemoveStart(t, o) PROVE Names!Next
    BY <2>2, RemoveStartEnters DEF Names!Next
  <2> QED BY <1>2, <2>1, <2>2 DEF Call
<1>3. ASSUME NEW t \in Thread, Step(t) PROVE Names!Next \/ UNCHANGED <<AbsTickets, AbsSection>>
  <2>1. CASE Check(t)
    <3>1. want[t] \in Key
      BY <2>1 DEF Check, IInv, ThreadOK, OnObject
    <3> QED BY <2>1, <3>1, CheckEnters DEF Names!Next
  <2>2. CASE AddTicket(t) \/ GiveUp(t) \/ RemoveTicket(t)
    BY <2>2, AddLeaves, RemoveLeaves DEF Names!Next
  <2> QED BY <1>3, <2>1, <2>2, OutsideStutters, AllocStutters DEF Step
<1>4. ASSUME NEW o \in Obj, Reclaim(o) PROVE UNCHANGED <<AbsTickets, AbsSection>>
  BY <1>4, OutsideStutters
<1> QED BY <1>1, <1>2, <1>3, <1>4 DEF Next

\* The initial state of the container is that of LockNames.
LEMMA NamesInit == Init => Names!Init
BY DEF Init, Names!Init, TicketsOf, SectionOf, InSection

\* The container implements LockNames: locks that are created, removed and
\* recycled look to the lock manager like one lock per name with one mutex.
THEOREM NamesRefined == Spec => ImplementsNames
<1>1. Spec => Names!Init /\ [][Names!Next]_<<AbsTickets, AbsSection>>
  BY NamesInit, NamesStep, Invariance, PTL DEF Spec
<1> QED BY <1>1, PTL DEF ImplementsNames, Names!Spec, AbsTickets, AbsSection

=============================================================================
