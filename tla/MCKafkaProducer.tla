--------------------------- MODULE MCKafkaProducer ---------------------------
(***************************************************************************)
(* The instance of KafkaProducer for TLC: three messages, two tags and     *)
(* "untracked", and a queue that is full with two messages in it.  No      *)
(* symmetry is declared: the run also checks liveness.                     *)
(***************************************************************************)
EXTENDS KafkaProducer

=============================================================================
