---------------------------- MODULE MCConsumerGroup ----------------------------
(***************************************************************************)
(* The instance of ConsumerGroup for TLC: one partition of two messages    *)
(* and one of one message.                                                 *)
(***************************************************************************)
EXTENDS ConsumerGroup, TLC

CONSTANTS p1, p2

Ends == p1 :> 2 @@ p2 :> 1

=============================================================================
