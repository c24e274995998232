------------------------- MODULE MCClickhouseProducer -------------------------
(***************************************************************************)
(* The instance of ClickhouseProducer for TLC.                             *)
(***************************************************************************)
EXTENDS ClickhouseProducer
=============================================================================
