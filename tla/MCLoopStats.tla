----------------------------- MODULE MCLoopStats -----------------------------
(***************************************************************************)
(* The instance of LoopStats for TLC.                                      *)
(***************************************************************************)
EXTENDS LoopStats
=============================================================================
