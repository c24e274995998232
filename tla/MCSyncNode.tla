------------------------------ MODULE MCSyncNode ------------------------------
(***************************************************************************)
(* The instance of SyncNode for TLC.                                       *)
(***************************************************************************)
EXTENDS SyncNode
=============================================================================
