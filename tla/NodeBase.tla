------------------------------- MODULE NodeBase -------------------------------
(***************************************************************************)
(* What the two node classes of tkati_core/node.py share (`_NodeBase`): a  *)
(* loop thread that reads batches from one Kafka partition, hands them to  *)
(* the node's code, sends its output, and leaves through `__exit__`.  The  *)
(* module also holds the loop's surroundings: the numbering of batches in  *)
(* kafka/consumer.py, the broker that keeps the committed offset,          *)
(* librdkafka reporting deliveries on its own thread, signals, crashes and *)
(* restarts.                                                               *)
(*                                                                         *)
(* SyncNode and PipelinedNode extend this module with their own `done()`   *)
(* and conjoin what the steps below leave open.  `pc` is where the loop    *)
(* thread is; every step is one call of the code that another thread, the  *)
(* broker or a signal can come between.                                    *)
(*                                                                         *)
(* The input is read on the loop thread (read_ahead = 0); ReadAhead models *)
(* the background reader.                                                  *)
(***************************************************************************)
EXTENDS Deliveries, Integers

CONSTANTS
    LogEnd,        \* messages in the input partition, at offsets 0..LogEnd-1
    BatchSize,     \* batch_size
    MaxOut,        \* bound: most messages one batch is turned into
    Malformed,     \* the offsets whose message does not decode
    Format,        \* "arrow" or "pylist": which consume_*() the node uses
    StopWhenIdle,  \* stop_when_idle
    NodeSwallows,  \* the node's code may catch an error of done() and go on
    MaxFaults      \* bound: failures, signals and crashes in a behaviour

ASSUME NodeConstants ==
    /\ LogEnd \in Nat
    /\ BatchSize \in Nat \ {0}
    /\ MaxOut \in Nat
    /\ Malformed \subseteq 0..(LogEnd - 1)
    /\ Format \in {"arrow", "pylist"}
    /\ StopWhenIdle \in BOOLEAN
    /\ NodeSwallows \in BOOLEAN
    /\ MaxFaults \in Nat
    /\ Tag = 0..LogEnd

VARIABLES
    pc,            \* where the loop thread is
    batch,         \* _batch: handed out and not yet done
    failure,       \* what __exit__ was given: "none", "error" or "forced"
    stopRequested, \* _stop_requested
    signals,       \* _signals_received
    position,      \* the consumer's fetch position
    nextSeq,       \* KafkaConsumer._next_seq
    oldest,        \* KafkaConsumer._oldest_outstanding
    requested,     \* the offset this process last asked to commit
    committed,     \* the offset the broker holds for the group
    sent,          \* per tag, what librdkafka holds: the reports still out,
                   \*   whether any failed, the input offsets the tag stands for
    delivered,     \* input offsets all of whose output the broker has
    faults         \* how many of MaxFaults are spent

loopVars     == <<pc, batch, failure, stopRequested, signals>>
consumerVars == <<position, nextSeq, oldest, requested>>
outputVars   == <<sent, delivered, tags, inFlight>>
baseVars     == <<loopVars, consumerVars, outputVars, committed, faults>>

Batch == [seq : Nat, first : Nat, next : Nat, rows : Nat]
Sent  == [left : Nat, bad : BOOLEAN, covers : SUBSET (0..(LogEnd - 1))]

ASSUME NoneIsNoBatch == None \notin Batch

NothingSent == [left |-> 0, bad |-> FALSE, covers |-> {}]

\* _tag: 0 means untracked, hence +1.
TagOf(b) == b.seq + 1

\* read_pylist drops malformed messages, read_arrow never gets past one.
Skipped == IF Format = "pylist" THEN Malformed ELSE {}

Covers(b) == (b.first .. (b.next - 1)) \ Skipped

BaseInit ==
    /\ DeliveriesInit
    /\ pc = "event" /\ batch = None /\ failure = "none"
    /\ stopRequested = FALSE /\ signals = 0
    /\ position = 0 /\ nextSeq = 0 /\ oldest = 0 /\ requested = 0
    /\ committed = 0
    /\ sent = [t \in Tag |-> NothingSent]
    /\ delivered = {}
    /\ faults = 0

\* A failure of the surroundings; bounded so that behaviours settle down.
Fault == faults < MaxFaults /\ faults' = faults + 1

-----------------------------------------------------------------------------
(***************************************************************************)
(* Reading.                                                                *)
(***************************************************************************)
Decodes(first, next) ==
    LET polled == first .. (next - 1)
    IN  IF Format = "arrow" THEN polled \cap Malformed = {}
                            ELSE ~(polled \subseteq Malformed)

\* A read returned a batch: it gets the next number and goes to the node.
ReadBatch ==
    /\ pc = "read"
    /\ \E k \in 1..BatchSize, rows \in 0..MaxOut :
        /\ position + k <= LogEnd
        /\ Decodes(position, position + k)
        /\ batch' = [seq |-> nextSeq, first |-> position,
                     next |-> position + k, rows |-> rows]
        /\ position' = position + k
    /\ nextSeq' = nextSeq + 1
    /\ pc' = "body"
    /\ UNCHANGED <<failure, stopRequested, signals, oldest, requested,
                   outputVars, committed, faults>>

\* A read returned None: Idle, or the end of a one-shot run.
EmptyPoll ==
    /\ stopRequested' = (stopRequested \/ StopWhenIdle)
    /\ pc' = IF StopWhenIdle THEN "exit" ELSE "event"
    /\ UNCHANGED <<batch, failure, signals, nextSeq, oldest, requested,
                   outputVars, committed, faults>>

\* A poll may end empty while messages are there: it waits only so long.
ReadEmpty ==
    /\ pc = "read"
    /\ EmptyPoll
    /\ UNCHANGED position

\* read_arrow met a message that does not decode, and raises.
ReadRaises ==
    /\ failure' = "error"
    /\ pc' = "exit"
    /\ UNCHANGED <<batch, stopRequested, signals, nextSeq, oldest, requested,
                   outputVars, committed, faults>>

\* The batch polled is never numbered, and the position is past its messages.
\* read_pylist gets here only if none of them decodes: it returns None as well.
ReadUndecodable ==
    /\ pc = "read"
    /\ \E k \in 1..BatchSize :
        /\ position + k <= LogEnd
        /\ ~Decodes(position, position + k)
        /\ position' = position + k
    /\ IF Format = "arrow" THEN ReadRaises ELSE EmptyPoll

\* A read that finds messages.
Fetch == ReadBatch \/ ReadUndecodable

-----------------------------------------------------------------------------
(***************************************************************************)
(* The node's code, up to its call of done().                              *)
(***************************************************************************)

\* An error leaves the loop body: __exit__ gets it.
Raise ==
    /\ failure' = "error"
    /\ pc' = "exit"

\* The node's code catches it instead, and goes on at p.
Swallow(p) ==
    /\ NodeSwallows
    /\ pc' = p
    /\ UNCHANGED failure

\* The body raises, or asks for the next event without done(): the harness
\* then raises RuntimeError out of the loop.
BodyFails ==
    /\ pc = "body"
    /\ Fault
    /\ Raise
    /\ UNCHANGED <<batch, stopRequested, signals, consumerVars, outputVars,
                   committed>>

\* The body breaks out of the loop with its batch unfinished.
BodyBreaks ==
    /\ pc = "body"
    /\ Fault
    /\ pc' = "exit"
    /\ UNCHANGED <<batch, failure, stopRequested, signals, consumerVars,
                   outputVars, committed>>

\* _take_batch with output: the producer counts the messages before the first
\* one is sent.
Produce ==
    /\ pc = "body"
    /\ batch # None
    /\ batch.rows > 0
    /\ Add(TagOf(batch), batch.rows)
    /\ pc' = "send"
    /\ UNCHANGED <<batch, failure, stopRequested, signals, consumerVars, sent,
                   delivered, committed, faults>>

\* _take_batch with nothing to send: there is nothing to deliver either.
ProduceNothing(next) ==
    /\ pc = "body"
    /\ batch # None
    /\ batch.rows = 0
    /\ delivered' = delivered \cup Covers(batch)
    /\ pc' = next
    /\ UNCHANGED <<failure, stopRequested, signals, consumerVars, sent, tags,
                   inFlight, committed, faults>>

\* Every message is handed to librdkafka, after however many retries on a
\* full queue.
Send(next) ==
    /\ pc = "send"
    /\ sent' = [sent EXCEPT ![TagOf(batch)] =
                    [left |-> @.left + batch.rows, bad |-> FALSE,
                     covers |-> Covers(batch)]]
    /\ pc' = next
    /\ UNCHANGED <<failure, stopRequested, signals, consumerVars, tags,
                   inFlight, delivered, committed, faults>>

\* librdkafka refuses a message: it and the rest are cancelled, the m before
\* it are on their way, and done() raises with the batch unfinished.
SendFails ==
    /\ pc = "send"
    /\ Fault
    /\ \E m \in 0..(batch.rows - 1) :
        /\ Cancel(TagOf(batch), batch.rows - m)
        /\ sent' = [sent EXCEPT ![TagOf(batch)] =
                        [left |-> @.left + m, bad |-> TRUE, covers |-> {}]]
    /\ \/ Raise
       \/ Swallow("body")
    /\ UNCHANGED <<batch, stopRequested, signals, consumerVars, delivered,
                   committed>>

-----------------------------------------------------------------------------
(***************************************************************************)
(* Committing.                                                             *)
(***************************************************************************)

\* Mutation of CommitOldest: the fetch position is committed.
CommitPosition(b) ==
    /\ b.seq = oldest
    /\ requested' = position
    /\ oldest' = oldest + 1
    /\ UNCHANGED <<position, nextSeq>>

\* Mutation of CommitOldest: the last offset of the batch, not the next one.
CommitLastOffset(b) ==
    /\ b.seq = oldest
    /\ requested' = b.next - 1
    /\ oldest' = oldest + 1
    /\ UNCHANGED <<position, nextSeq>>

\* KafkaConsumer.commit: only the oldest outstanding batch, and the commit is
\* asynchronous.
CommitOldest(b) ==
    /\ b.seq = oldest
    /\ requested' = b.next
    /\ oldest' = oldest + 1
    /\ UNCHANGED <<position, nextSeq>>

\* The commit raises: the order check refuses the batch, or librdkafka fails.
CommitRefused(b) ==
    /\ IF b.seq = oldest THEN Fault ELSE UNCHANGED faults
    /\ UNCHANGED consumerVars

-----------------------------------------------------------------------------
(***************************************************************************)
(* Leaving: __exit__, from the rewind on.                                  *)
(***************************************************************************)

\* Mutation of Rewind: to the end of the batch, not its start.
RewindBehind(b) ==
    /\ pc = "rewind"
    /\ failure = "error"
    /\ b # None
    /\ b.seq = oldest
    /\ position' = b.next
    /\ oldest' = nextSeq
    /\ batch' = None
    /\ pc' = "close"
    /\ UNCHANGED <<failure, stopRequested, signals, nextSeq, requested,
                   outputVars, committed, faults>>

\* b is _oldest_uncommitted(), None if there is none.
Rewind(b) ==
    /\ pc = "rewind"
    /\ failure = "error"
    /\ b # None
    /\ b.seq = oldest
    /\ position' = b.first
    /\ oldest' = nextSeq
    /\ batch' = None
    /\ pc' = "close"
    /\ UNCHANGED <<failure, stopRequested, signals, nextSeq, requested,
                   outputVars, committed, faults>>

\* A rewind that raises is logged, and the exit goes on.
RewindFails(b) ==
    /\ pc = "rewind"
    /\ failure = "error"
    /\ b # None
    /\ IF b.seq = oldest THEN Fault ELSE UNCHANGED faults
    /\ batch' = None
    /\ pc' = "close"
    /\ UNCHANGED <<failure, stopRequested, signals, consumerVars, outputVars,
                   committed>>

\* A clean exit, or nothing left uncommitted.
NoRewind(b) ==
    /\ pc = "rewind"
    /\ failure = "none" \/ b = None
    /\ batch' = None
    /\ pc' = "close"
    /\ UNCHANGED <<failure, stopRequested, signals, consumerVars, outputVars,
                   committed, faults>>

\* The consumer closes, then the producer, which first waits for every report.
Close ==
    /\ pc = "close"
    /\ AllReported
    /\ pc' = "closed"
    /\ UNCHANGED <<batch, failure, stopRequested, signals, consumerVars,
                   outputVars, committed, faults>>

-----------------------------------------------------------------------------
(***************************************************************************)
(* Signals, which Python handles on the loop's thread.                     *)
(***************************************************************************)
\* Handlers are in place until __exit__ restores them.  None runs inside the
\* native enqueue: it never checks for signals, not even while it waits for
\* room in librdkafka's queue.
HandlersRun == pc \notin {"send", "close", "closed", "down"}

\* The first one stops the loop at its next event request.
SignalStop ==
    /\ HandlersRun
    /\ pc # "read"
    /\ signals = 0
    /\ Fault
    /\ signals' = 1
    /\ stopRequested' = TRUE
    /\ UNCHANGED <<pc, batch, failure, consumerVars, outputVars, committed>>

\* It cuts a read short, or comes just before or after it: what was polled is
\* dropped, numbered already or not, and the loop ends.
SignalInRead ==
    /\ pc = "read"
    /\ signals = 0
    /\ Fault
    /\ signals' = 1
    /\ stopRequested' = TRUE
    /\ \E k \in 0..BatchSize :
        /\ position + k <= LogEnd
        /\ position' = position + k
        /\ nextSeq' \in nextSeq .. (nextSeq + (IF k = 0 THEN 0 ELSE 1))
    /\ pc' = "exit"
    /\ UNCHANGED <<batch, failure, oldest, requested, outputVars, committed>>

\* The second one is KeyboardInterrupt wherever the thread is: no drain, no
\* rewind, and what was going on in __exit__ is cut short.
SignalForce ==
    /\ HandlersRun
    /\ signals = 1
    /\ Fault
    /\ signals' = 2
    /\ failure' = "forced"
    /\ batch' = None
    /\ pc' = "close"
    /\ UNCHANGED <<stopRequested, consumerVars, outputVars, committed>>

-----------------------------------------------------------------------------
(***************************************************************************)
(* The surroundings: librdkafka, the broker, the supervisor.               *)
(***************************************************************************)

\* One message of tag t is acknowledged: the report settles it.
Delivered(t) ==
    /\ sent[t].left > 0
    /\ sent' = [sent EXCEPT ![t].left = @ - 1]
    /\ delivered' = IF sent[t].left = 1 /\ ~sent[t].bad
                    THEN delivered \cup sent[t].covers ELSE delivered
    /\ Settle(t, 1, FALSE)
    /\ UNCHANGED <<loopVars, consumerVars, committed, faults>>

\* One message of tag t is given up.
Lost(t) ==
    /\ sent[t].left > 0
    /\ Fault
    /\ sent' = [sent EXCEPT ![t] =
                    [left |-> @.left - 1, bad |-> TRUE, covers |-> @.covers]]
    /\ Settle(t, 1, TRUE)
    /\ UNCHANGED <<loopVars, consumerVars, delivered, committed>>

\* The asynchronous commit reaches the broker.  One that never does is a
\* behaviour in which this step is not taken before the next restart.
CommitLands ==
    /\ committed # requested
    /\ committed' = requested
    /\ UNCHANGED <<loopVars, consumerVars, outputVars, faults>>

\* The process is killed: only the broker's offset and output survive.
Crash ==
    /\ pc # "down"
    /\ Fault
    /\ pc' = "down"
    /\ batch' = None
    /\ requested' = committed
    /\ sent' = [t \in Tag |-> NothingSent]
    /\ tags' = [t \in Tag |-> None]
    /\ inFlight' = 0
    /\ UNCHANGED <<failure, stopRequested, signals, position, nextSeq, oldest,
                   committed, delivered>>

\* A new process starts from the offset the broker holds.
Restart ==
    /\ pc \in {"closed", "down"}
    /\ pc' = "event" /\ batch' = None /\ failure' = "none"
    /\ stopRequested' = FALSE /\ signals' = 0
    /\ position' = committed /\ nextSeq' = 0 /\ oldest' = 0
    /\ requested' = committed
    /\ sent' = [t \in Tag |-> NothingSent]
    /\ tags' = [t \in Tag |-> None]
    /\ inFlight' = 0
    /\ UNCHANGED <<committed, delivered, faults>>

=============================================================================
