---------------------------- MODULE MCTcLogMmap -----------------------------
(***************************************************************************)
(* TcLogMmap for TLC.                                                      *)
(***************************************************************************)
EXTENDS TcLogMmap, TLC

\* Two pages with one free slot, one with two.
AlmostFull == <<1, 1, 2>>

\* Pages with one free slot.
OneEach == <<1, 1, 1>>

Perms == Permutations(Trx)
=============================================================================
