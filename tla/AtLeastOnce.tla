----------------------------- MODULE AtLeastOnce -----------------------------
(***************************************************************************)
(* What a node promises about its input, whatever happens to the process,  *)
(* the broker or librdkafka: output is delivered in any order and any      *)
(* number of times, and the group's committed offset only ever moves       *)
(* forward, never past a message whose output is not delivered             *)
(* (the worker loop of tkati_core/node.py; its design says "An input       *)
(* offset is committed only after every row sent from that batch has been  *)
(* delivered").                                                            *)
(***************************************************************************)
EXTENDS Integers

CONSTANTS
    LogEnd,     \* messages in the input partition
    Skipped     \* offsets that produce nothing: malformed messages dropped

VARIABLES
    committed,  \* the offset the broker holds for the group
    delivered   \* offsets whose output the broker has

\* The offsets behind c are all accounted for.
Accounted(c, done) == 0 .. (c - 1) \subseteq done \cup Skipped

Init ==
    /\ committed = 0
    /\ delivered = {}

Deliver ==
    /\ delivered' \in SUBSET (0 .. (LogEnd - 1))
    /\ delivered \subseteq delivered'
    /\ UNCHANGED committed

Commit ==
    /\ committed' \in committed .. LogEnd
    /\ Accounted(committed', delivered)
    /\ UNCHANGED delivered

Next == Deliver \/ Commit

Spec == Init /\ [][Next]_<<committed, delivered>>

=============================================================================
