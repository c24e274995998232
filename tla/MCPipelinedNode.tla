--------------------------- MODULE MCPipelinedNode ---------------------------
(***************************************************************************)
(* The instance of PipelinedNode for TLC.                                  *)
(***************************************************************************)
EXTENDS PipelinedNode
=============================================================================
