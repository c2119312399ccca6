------------------------------ MODULE MCMDLMap ------------------------------
(***************************************************************************)
(* Instances of MDLMap for TLC: the name g is that of the global lock.     *)
(***************************************************************************)
EXTENDS MDLMap, TLC

CONSTANTS g, o0

GlobalObj == (g :> o0)
NoFixed == [k \in {} |-> NoObj]
\* Threads are alike; names and objects too, when none is fixed
ThreadPerms == Permutations(Thread)
Perms == Permutations(Thread) \cup Permutations(Key) \cup Permutations(Obj)
=============================================================================
