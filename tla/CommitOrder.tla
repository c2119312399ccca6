----------------------------- MODULE CommitOrder -----------------------------
(***************************************************************************)
(* What the binary log promises as the coordinator of commits: there is    *)
(* one order of all transactions, the log; it agrees with the order that   *)
(* the transactions of one replication domain have on the master; and the  *)
(* engines commit in that order, never ahead of the log.                   *)
(***************************************************************************)
EXTENDS Integers, Sequences

CONSTANTS Trx, Domain

VARIABLES log, applied

\* Transactions of one domain are in the order of their sub ids
InOrder(s) ==
    \A i, j \in DOMAIN s : i < j /\ Domain[s[i]] = Domain[s[j]] => s[i] < s[j]

Init == log = <<>> /\ applied = <<>>

\* A group of transactions is written to the log
Write ==
    /\ SubSeq(log', 1, Len(log)) = log
    /\ Len(log') > Len(log)
    /\ InOrder(log')
    /\ UNCHANGED applied

\* The engines commit the transaction that is next in the log
Apply ==
    /\ Len(applied) < Len(log)
    /\ applied' = Append(applied, log[Len(applied) + 1])
    /\ UNCHANGED log

Next == Write \/ Apply
Spec == Init /\ [][Next]_<<log, applied>>
=============================================================================
