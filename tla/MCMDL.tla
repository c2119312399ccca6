------------------------------- MODULE MCMDL --------------------------------
(***************************************************************************)
(* Instances of MDL for TLC: the requests the callers of each instance     *)
(* make.  Key 0 is a scoped lock, keys 1, 2, ... are tables.               *)
(***************************************************************************)
EXTENDS MDL, TLC

Perms == Permutations(Ctx)

\* Requests for all keys of K with all types of T, held to the end of d
RequestsFor(K, T, d) == {[key |-> k, type |-> y, dur |-> d] : k \in K, y \in T}

\* One table: readers, and an ALTER TABLE that upgrades
CoreRequests == RequestsFor({1}, {"SR", "SU"}, TRANSACTION)

\* Two tables: readers and DDL
TwoTables == RequestsFor({1}, {"SR"}, TRANSACTION) \cup RequestsFor({1, 2}, {"X"}, TRANSACTION)

\* The global lock, and two tables under all durations
DurationRequests ==
    RequestsFor({0}, {"IX"}, STATEMENT)
        \cup RequestsFor({1}, {"SR"}, STATEMENT) \cup RequestsFor({1, 2}, {"SR"}, TRANSACTION)
        \cup RequestsFor({1}, {"SR"}, EXPLICIT) \cup RequestsFor({2}, {"SU"}, TRANSACTION)

\* Lists of tables to be locked exclusively, as for RENAME and DROP
Lists == {RequestsFor({1, 2}, {"X"}, TRANSACTION), RequestsFor({2, 3}, {"X"}, TRANSACTION),
          RequestsFor({1, 3}, {"X"}, TRANSACTION)}

\* One table: weak and strong requests
HogRequests == RequestsFor({1}, {"SR", "X"}, TRANSACTION)
=============================================================================
