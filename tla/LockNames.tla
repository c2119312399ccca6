----------------------------- MODULE LockNames ------------------------------
(***************************************************************************)
(* What the container of metadata locks (MDL_map, sql/mdl.cc) promises to  *)
(* the rest of the lock manager: every name has one lock, its m_rwlock is  *)
(* a mutex of the name, and tickets are added to and removed from the name *)
(* under that mutex only.  Module MDL is written against this promise, and *)
(* module MDLMap is shown to keep it with locks that come and go.          *)
(***************************************************************************)
CONSTANTS
    Thread,    \* connections
    NoThread,  \* no thread
    Key        \* names of locks

VARIABLES
    tickets,   \* tickets[k]: the threads with a ticket on the lock of name k
    section    \* section[k]: the thread inside the critical section of name k

Init ==
    /\ tickets = [k \in Key |-> {}]
    /\ section = [k \in Key |-> NoThread]

\* A thread write-locks m_rwlock of the lock of k
Enter(t, k) ==
    /\ section[k] = NoThread
    /\ section' = [section EXCEPT ![k] = t]
    /\ UNCHANGED tickets

\* It unlocks it, after its ticket was granted or queued, or removed, or not
Leave(t, k) ==
    /\ section[k] = t
    /\ section' = [section EXCEPT ![k] = NoThread]
    /\ \E S \in {tickets[k], tickets[k] \cup {t}, tickets[k] \ {t}} :
          tickets' = [tickets EXCEPT ![k] = S]

Next == \E t \in Thread, k \in Key : Enter(t, k) \/ Leave(t, k)

Spec == Init /\ [][Next]_<<tickets, section>>
=============================================================================
