----------------------------- MODULE MCDedupNode -----------------------------
(***************************************************************************)
(* The instance of DedupNode for TLC.                                      *)
(***************************************************************************)
EXTENDS DedupNode

CONSTANTS k1, k2

\* A key that comes in one batch or in two, another key, a row without one.
MCLog == <<k1, k1, None, k2, k1>>
=============================================================================
