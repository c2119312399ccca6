----------------------------- MODULE MCBinlogXa -----------------------------
(***************************************************************************)
(* Instances of BinlogXa: which engines a transaction uses, in the order   *)
(* of the participant list, and how often things happen.                   *)
(***************************************************************************)
EXTENDS BinlogXa, TLC
CONSTANTS t1, lazy, lazy2, eager

\* A lazy engine flushes at checkpoints, an eager one at every commit.
Both == t1 :> <<eager, Binlog, lazy>>
LazyFirst == t1 :> <<lazy, eager, Binlog>>
OneLazy == t1 :> <<Binlog, lazy>>
NoTrx == <<>>

Often(rotate, crash, reset, purge) ==
  [b \in Bounded |-> CASE b = "rotate" -> rotate [] b = "crash" -> crash
                       [] b = "reset" -> reset [] b = "purge" -> purge]
ResetAndCrash == Often(2, 1, 1, 1)
CrashOnce == Often(1, 1, 0, 0)
PurgeOnce == Often(1, 0, 0, 1)
RotateTwice == Often(2, 0, 0, 0)
ResetOnce == Often(1, 0, 1, 0)
RotateAndCrash == Often(2, 1, 0, 0)
=============================================================================
