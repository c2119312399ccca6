----------------------------- MODULE MCSemiSync -----------------------------
(***************************************************************************)
(* SemiSync for TLC.                                                       *)
(***************************************************************************)
EXTENDS SemiSync
=============================================================================
