---------------------------- MODULE KafkaProducer ----------------------------
(***************************************************************************)
(* The Kafka producer (tkati_core/kafka/producer.py over src/lib.rs and    *)
(* src/kafka.rs) at the grain of single messages: the loop's thread sends  *)
(* them one at a time into librdkafka's bounded queue, waits for a tag or  *)
(* for everything, while librdkafka's own thread reports deliveries in any *)
(* order, also in the middle of an enqueue.                                *)
(*                                                                         *)
(* Encoding is left out: a message is one of a set of values, and each is  *)
(* sent once.                                                              *)
(***************************************************************************)
EXTENDS Deliveries, FiniteSets

CONSTANTS
    Message,    \* the messages that may be sent
    QueueSize   \* queue.buffering.max.messages of librdkafka

ASSUME ProducerConstants ==
    /\ IsFiniteSet(Message)
    /\ QueueSize \in Nat \ {0}
    /\ Untracked \in Tag

VARIABLES
    call,       \* what the loop's thread is in: "none", "enqueue", "wait", "flush"
    callTag,    \* the tag of that call
    unsent,     \* messages of the enqueue not yet handed to librdkafka
    queue,      \* messages in librdkafka, not yet reported
    tagOf,      \* the tag each message was sent with
    fate,       \* "new", "sent", "delivered", "lost" or "cancelled"
    round       \* per tag, the messages handed over since it was last forgotten

callVars == <<call, callTag, unsent>>
vars == <<deliveryVars, callVars, queue, tagOf, fate, round>>

Init ==
    /\ DeliveriesInit
    /\ call = "none" /\ callTag = Untracked /\ unsent = {}
    /\ queue = {}
    /\ tagOf = [m \in Message |-> Untracked]
    /\ fate = [m \in Message |-> "new"]
    /\ round = [t \in Tag |-> {}]

New == {m \in Message : fate[m] = "new"}

-----------------------------------------------------------------------------
(***************************************************************************)
(* enqueue                                                                 *)
(***************************************************************************)

\* The messages are counted first.  A tag that a failed wait forgot is not
\* used again while reports of it are out: a node sends a batch under its own
\* tag, and sends it again only after a flush.  Untracked messages may be sent
\* at any time.
Enqueue(t, batch) ==
    /\ call = "none"
    /\ batch \subseteq New
    /\ t # Untracked /\ tags[t] = None => \A m \in queue : tagOf[m] # t
    /\ Add(t, Cardinality(batch))
    /\ call' = "enqueue"
    /\ callTag' = t
    /\ unsent' = batch
    /\ tagOf' = [m \in Message |-> IF m \in batch THEN t ELSE tagOf[m]]
    /\ fate' = [m \in Message |-> IF m \in batch THEN "sent" ELSE fate[m]]
    /\ UNCHANGED <<queue, round>>

\* One message goes to librdkafka; while its queue is full, the call sleeps
\* and tries again.
SendOne ==
    /\ call = "enqueue"
    /\ Cardinality(queue) < QueueSize
    /\ \E m \in unsent :
        /\ queue' = queue \cup {m}
        /\ unsent' = unsent \ {m}
        /\ round' = [round EXCEPT ![callTag] = @ \cup {m}]
    /\ UNCHANGED <<deliveryVars, call, callTag, tagOf, fate>>

\* librdkafka refuses a message: it and the rest are taken back, and the call
\* raises.
SendError ==
    /\ call = "enqueue"
    /\ unsent # {}
    /\ Cancel(callTag, Cardinality(unsent))
    /\ fate' = [m \in Message |-> IF m \in unsent THEN "cancelled" ELSE fate[m]]
    /\ unsent' = {}
    /\ call' = "none"
    /\ UNCHANGED <<callTag, queue, tagOf, round>>

EnqueueReturns ==
    /\ call = "enqueue"
    /\ unsent = {}
    /\ call' = "none"
    /\ UNCHANGED <<deliveryVars, callTag, unsent, queue, tagOf, fate, round>>

-----------------------------------------------------------------------------
(***************************************************************************)
(* wait_delivered and flush                                                *)
(***************************************************************************)
StartWait(t) ==
    /\ call = "none"
    /\ call' = "wait"
    /\ callTag' = t
    /\ UNCHANGED <<deliveryVars, unsent, queue, tagOf, fate, round>>

WaitReturnsTrue ==
    /\ call = "wait"
    /\ WaitOk(callTag)
    /\ round' = [round EXCEPT ![callTag] = {}]
    /\ call' = "none"
    /\ UNCHANGED <<callTag, unsent, queue, tagOf, fate>>

WaitRaises ==
    /\ call = "wait"
    /\ WaitFailed(callTag)
    /\ round' = [round EXCEPT ![callTag] = {}]
    /\ call' = "none"
    /\ UNCHANGED <<callTag, unsent, queue, tagOf, fate>>

\* The timeout has passed with messages still pending.
WaitReturnsFalse ==
    /\ call = "wait"
    /\ IsPending(callTag)
    /\ call' = "none"
    /\ UNCHANGED <<deliveryVars, callTag, unsent, queue, tagOf, fate, round>>

StartFlush ==
    /\ call = "none"
    /\ call' = "flush"
    /\ UNCHANGED <<deliveryVars, callTag, unsent, queue, tagOf, fate, round>>

FlushReturns ==
    /\ call = "flush"
    /\ AllReported
    /\ call' = "none"
    /\ UNCHANGED <<deliveryVars, callTag, unsent, queue, tagOf, fate, round>>

-----------------------------------------------------------------------------
\* The delivery callback, on librdkafka's thread.
Report(m, ok) ==
    /\ m \in queue
    /\ queue' = queue \ {m}
    /\ fate' = [fate EXCEPT ![m] = IF ok THEN "delivered" ELSE "lost"]
    /\ Settle(tagOf[m], 1, ~ok)
    /\ UNCHANGED <<callVars, tagOf, round>>

Caller ==
    \/ \E t \in Tag, batch \in SUBSET Message : Enqueue(t, batch)
    \/ \E t \in Tag : StartWait(t)
    \/ StartFlush

CallGoesOn ==
    \/ SendOne
    \/ EnqueueReturns
    \/ WaitReturnsTrue
    \/ WaitRaises
    \/ FlushReturns

Reports == \E m \in Message, ok \in BOOLEAN : Report(m, ok)

Next == Caller \/ CallGoesOn \/ WaitReturnsFalse \/ SendError \/ Reports

Spec == Init /\ [][Next]_vars

\* A call in progress runs on, and librdkafka reports every message it holds.
FairSpec == Spec /\ WF_vars(CallGoesOn) /\ WF_vars(Reports)

-----------------------------------------------------------------------------
(***************************************************************************)
(* Properties.                                                             *)
(***************************************************************************)
TypeOK ==
    /\ DeliveriesTypeOK
    /\ call \in {"none", "enqueue", "wait", "flush"}
    /\ callTag \in Tag
    /\ unsent \subseteq Message
    /\ queue \subseteq Message
    /\ tagOf \in [Message -> Tag]
    /\ fate \in [Message -> {"new", "sent", "delivered", "lost", "cancelled"}]
    /\ round \in [Tag -> SUBSET Message]

\* in_flight counts every message whose report will still come, neither more
\* (flush would hang) nor fewer (flush would return early): reports that come
\* during the enqueue, cancelled rests and forgotten tags included.
InFlightExact == inFlight = Cardinality(queue) + Cardinality(unsent)

\* A tag's pending count is that of its unreported messages, although reports
\* are counted by tag alone and a failed tag is forgotten with reports out.
PendingExact ==
    \A t \in Tag : tags[t] # None =>
        tags[t].pending = Cardinality({m \in queue \cup unsent : tagOf[m] = t})

\* The delivery table is exact, in total and for each tag, after every single
\* message and report (Deliveries::add, settle, cancel, wait).
CountsExact ==
    /\ TypeOK
    /\ InFlightExact
    /\ PendingExact

\* flush() returns, and the producer closes, with nothing unreported
\* (KafkaProducer::flush_step, Deliveries::wait_all).
FlushIsComplete ==
    [][call = "flush" /\ call' = "none" => queue = {}]_vars

\* wait_delivered(t) returns True only once every message handed over under t
\* since t was last forgotten is delivered: none is out, none was lost
\* (Deliveries::wait).
TrueMeansDelivered ==
    [][call = "wait" /\ WaitReturnsTrue /\ callTag # Untracked =>
         \A m \in round[callTag] : fate[m] = "delivered"]_vars

\* Every call returns: a full queue drains, no wait outlives its messages.
CallsReturn == call # "none" ~> call = "none"

=============================================================================
