---------------------------- MODULE MCEventGroups ----------------------------
(***************************************************************************)
(* Instances of EventGroups for TLC.                                       *)
(***************************************************************************)
EXTENDS EventGroups

OneDomain == [t \in Trx |-> 1]

NoSpeculation == [t \in Trx |-> "no"]
SomeOptimistic == [t \in Trx |-> IF t = 2 THEN "optimistic" ELSE IF t = 3 THEN "wait" ELSE "no"]

AllConflicts == {c \in Trx \X Trx : c[1] \in Earlier(c[2])}
=============================================================================
