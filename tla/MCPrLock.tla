------------------------------ MODULE MCPrLock ------------------------------
(***************************************************************************)
(* PrLock for TLC.                                                         *)
(***************************************************************************)
EXTENDS PrLock
=============================================================================
