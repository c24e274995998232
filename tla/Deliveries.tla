------------------------------ MODULE Deliveries ------------------------------
(***************************************************************************)
(* The delivery bookkeeping of the native Kafka producer                   *)
(* (packages/tkati-core/src/kafka.rs, struct Deliveries).  Every message   *)
(* handed to librdkafka carries a tag; the table counts, per tag, the      *)
(* messages whose delivery report is still out, remembers whether one of   *)
(* them failed, and counts all of them together for `flush`.               *)
(*                                                                         *)
(* Each operation below runs under the mutex in the code, so each is one   *)
(* atomic step here.  The module holds the state and its operations only;  *)
(* KafkaProducer, SyncNode and PipelinedNode build their actions from      *)
(* them.                                                                   *)
(***************************************************************************)
EXTENDS Naturals

CONSTANTS
    Tag,        \* the tags in use; 0 stands for "untracked"
    None        \* "absent": no entry in a map, no current batch

VARIABLES
    tags,       \* DeliveryState.tags, None where the map has no entry
    inFlight    \* DeliveryState.in_flight

deliveryVars == <<tags, inFlight>>

Untracked == 0

\* The error's text is abstracted to whether there is one.
TagState == [pending : Nat, failed : BOOLEAN]

ASSUME NoneIsNoTagState == None \notin TagState

DeliveriesTypeOK ==
    /\ tags \in [Tag -> TagState \cup {None}]
    /\ inFlight \in Nat

DeliveriesInit ==
    /\ tags = [t \in Tag |-> None]
    /\ inFlight = 0

-----------------------------------------------------------------------------
\* HashMap::entry(tag).or_default()
Entry(t) == IF tags[t] = None THEN [pending |-> 0, failed |-> FALSE] ELSE tags[t]

\* usize::saturating_sub
SaturatingSub(a, b) == IF a < b THEN 0 ELSE a - b

\* Expect n more reports for t.
Add(t, n) ==
    /\ inFlight' = inFlight + n
    /\ tags' = IF t = Untracked \/ n = 0 THEN tags
               ELSE [tags EXCEPT ![t] =
                        [pending |-> Entry(t).pending + n, failed |-> Entry(t).failed]]

\* Mutation of Settle: a report of a forgotten tag is not counted at all.
SettleKnownOnly(t, n, error) ==
    IF tags[t] = None /\ t # Untracked THEN UNCHANGED deliveryVars
    ELSE /\ inFlight' = SaturatingSub(inFlight, n)
         /\ tags' = IF tags[t] = None THEN tags
                    ELSE [tags EXCEPT ![t] =
                             [pending |-> SaturatingSub(tags[t].pending, n),
                              failed  |-> tags[t].failed \/ error]]

\* Mutation of Settle: the last report decides, not the first failure.
SettleLastDecides(t, n, error) ==
    /\ inFlight' = SaturatingSub(inFlight, n)
    /\ tags' = IF tags[t] = None THEN tags
               ELSE [tags EXCEPT ![t] =
                        [pending |-> SaturatingSub(tags[t].pending, n),
                         failed  |-> error]]

\* n reports for t came in.  The first failure sticks, and a report for a tag
\* that `wait` has forgotten still counts down inFlight.
Settle(t, n, error) ==
    /\ inFlight' = SaturatingSub(inFlight, n)
    /\ tags' = IF tags[t] = None THEN tags
               ELSE [tags EXCEPT ![t] =
                        [pending |-> SaturatingSub(tags[t].pending, n),
                         failed  |-> tags[t].failed \/ error]]

\* Mutation of Cancel: the messages not handed over stay counted.
CancelNothing(t, n) == UNCHANGED deliveryVars

\* n expected reports will never come: the messages were not handed over.
Cancel(t, n) == Settle(t, n, FALSE)

-----------------------------------------------------------------------------
(***************************************************************************)
(* One look of `wait` at a tag has three outcomes.  Both that end the wait *)
(* forget the tag, the failed one included, and a tag that is not in the   *)
(* table counts as delivered.                                              *)
(***************************************************************************)
Forget(t) ==
    /\ tags' = [tags EXCEPT ![t] = None]
    /\ UNCHANGED inFlight

\* Mutation of WaitOk: all reports are in, whatever they said.
WaitAnyReport(t) ==
    /\ tags[t] # None => tags[t].pending = 0
    /\ Forget(t)

WaitOk(t) ==
    /\ tags[t] # None => tags[t].pending = 0 /\ ~tags[t].failed
    /\ Forget(t)

WaitFailed(t) ==
    /\ tags[t] # None
    /\ tags[t].failed
    /\ Forget(t)

IsPending(t) ==
    /\ tags[t] # None
    /\ tags[t].pending > 0
    /\ ~tags[t].failed

\* Mutation of AllReported: only the tags still in the table are waited for.
TagsReported == \A t \in Tag : tags[t] # None => tags[t].pending = 0

\* wait_all has nothing left to wait for.
AllReported == inFlight = 0

=============================================================================
