----------------------------- MODULE MCReadAhead -----------------------------
(***************************************************************************)
(* The instance of ReadAhead for TLC.                                      *)
(***************************************************************************)
EXTENDS ReadAhead
=============================================================================
