------------------------------- MODULE ReadAhead -------------------------------
(***************************************************************************)
(* Read-ahead in tkati_core/node.py: a thread of the node's own reads      *)
(* batches into a bounded queue while the loop's thread works on the       *)
(* current one.  The two share the queue, the stop flag and the Kafka      *)
(* consumer (kafka/consumer.py, whose numbering is under a lock), which    *)
(* the loop's thread commits, rewinds and closes while the other reads.    *)
(*                                                                         *)
(* done() is one step here, as SyncNode's is to this thread; what it does  *)
(* inside is the subject of SyncNode and PipelinedNode.                    *)
(***************************************************************************)
EXTENDS Integers, Sequences, Functions

CONSTANTS
    None,         \* no batch
    LogEnd,       \* messages in the input partition
    BatchSize,    \* batch_size
    QueueSize,    \* max(read_ahead, 1)
    InputEnds,    \* the consumer calls _end_of_input() when it has no more
    NodeCatches,  \* the node's code may catch a failed read and consume again
    MaxFaults     \* bound: failures, timeouts and signals

\* What the reader hands over: messages polled and then numbered as a batch,
\* or an empty poll, a failed read (_ReadFailed) or _END_OF_INPUT.
Item  == [kind : {"polled", "batch", "idle", "failed", "end"},
          seq : Nat, first : Nat, next : Nat]

ASSUME ReadAheadConstants ==
    /\ LogEnd \in Nat
    /\ BatchSize \in Nat \ {0}
    /\ QueueSize \in Nat \ {0}
    /\ InputEnds \in BOOLEAN
    /\ NodeCatches \in BOOLEAN
    /\ MaxFaults \in Nat
    /\ None \notin Item

VARIABLES
    reader,         \* the reader thread: "check", "poll", "parse", "hand", "ended"
    held,           \* what it has read and not handed over
    queue,          \* _queue
    readerStop,     \* _reader_stop
    pc,             \* the loop's thread
    batch,          \* _batch
    failure,        \* "none", "error" or "forced"
    stopRequested,  \* _stop_requested
    inputUsedUp,    \* the loop was ended by the end of the input
    raised,         \* history: a failed read was raised to the node's code
    stopWhenIdle,   \* _stop_when_idle
    position,       \* the consumer's fetch position
    nextSeq,        \* _next_seq
    oldest,         \* _oldest_outstanding
    requested,      \* the offset last asked to commit
    closing,        \* KafkaConsumer.closing
    faults          \* how many of MaxFaults are spent

readerVars   == <<reader, held, queue>>
loopVars     == <<pc, batch, failure, stopRequested, inputUsedUp, raised,
                  stopWhenIdle>>
consumerVars == <<position, nextSeq, oldest, requested, closing>>
vars == <<readerVars, readerStop, loopVars, consumerVars, faults>>

Mark(kind) == [kind |-> kind, seq |-> 0, first |-> 0, next |-> 0]

Init ==
    /\ reader = "check" /\ held = None /\ queue = <<>>
    /\ readerStop = FALSE
    /\ pc = "event" /\ batch = None /\ failure = "none"
    /\ stopRequested = FALSE /\ inputUsedUp = FALSE /\ raised = FALSE
    /\ stopWhenIdle \in BOOLEAN
    /\ position = 0 /\ nextSeq = 0 /\ oldest = 0 /\ requested = 0
    /\ closing = FALSE
    /\ faults = 0

Fault == faults < MaxFaults /\ faults' = faults + 1

-----------------------------------------------------------------------------
(***************************************************************************)
(* The reader thread (_read_ahead_loop).                                   *)
(***************************************************************************)
Check ==
    /\ reader = "check"
    /\ reader' = IF readerStop THEN "ended" ELSE "poll"
    /\ UNCHANGED <<held, queue, readerStop, loopVars, consumerVars, faults>>

\* The native poll moves the position; the batch is parsed and numbered later.
\* A step under way when the consumer begins to close still completes.
Poll ==
    /\ reader = "poll"
    /\ \E k \in 1..BatchSize :
        /\ position + k <= LogEnd
        /\ held' = [kind |-> "polled", seq |-> 0,
                    first |-> position, next |-> position + k]
        /\ position' = position + k
    /\ reader' = "parse"
    /\ UNCHANGED <<queue, readerStop, loopVars, nextSeq, oldest, requested,
                   closing, faults>>

\* Nothing came.  The item remembers how far the consumer had read.
PollEmpty ==
    /\ reader = "poll"
    /\ held' = [kind |-> "idle", seq |-> nextSeq,
                first |-> position, next |-> position]
    /\ reader' = "hand"
    /\ UNCHANGED <<queue, readerStop, loopVars, consumerVars, faults>>

\* Mutation of PollEnds: the reader stops the loop itself, ahead of the queue.
PollEndsAtOnce ==
    /\ reader = "poll"
    /\ InputEnds
    /\ position = LogEnd
    /\ stopRequested' = TRUE
    /\ inputUsedUp' = TRUE
    /\ reader' = "ended"
    /\ UNCHANGED <<held, queue, readerStop, pc, batch, failure, raised,
                   stopWhenIdle, consumerVars, faults>>

\* A consumer that knows its input is finished calls _end_of_input() from the
\* read that finds nothing left.
PollEnds ==
    /\ reader = "poll"
    /\ InputEnds
    /\ position = LogEnd
    /\ held' = Mark("end")
    /\ reader' = "hand"
    /\ UNCHANGED <<queue, readerStop, loopVars, consumerVars, faults>>

\* The consumer was closed under it: the read raises, and as the stop flag was
\* set before, the error is nobody's.
PollClosed ==
    /\ reader = "poll"
    /\ closing
    /\ held' = Mark("failed")
    /\ reader' = IF readerStop THEN "ended" ELSE "hand"
    /\ UNCHANGED <<queue, readerStop, loopVars, consumerVars, faults>>

\* Parsed, the batch gets its number.
Number ==
    /\ reader = "parse"
    /\ held' = [held EXCEPT !.kind = "batch", !.seq = nextSeq]
    /\ nextSeq' = nextSeq + 1
    /\ reader' = "hand"
    /\ UNCHANGED <<queue, readerStop, loopVars, position, oldest, requested,
                   closing, faults>>

\* A message does not decode: the read raises, and takes no number.
ParseFails ==
    /\ reader = "parse"
    /\ Fault
    /\ held' = Mark("failed")
    /\ reader' = IF readerStop THEN "ended" ELSE "hand"
    /\ UNCHANGED <<queue, readerStop, loopVars, consumerVars>>

\* Mutation of HandOver: a failed read ends the thread without a word.
HandOverKeepsFailure ==
    /\ reader = "hand"
    /\ ~readerStop
    /\ Len(queue) < QueueSize
    /\ queue' = IF held.kind = "failed" THEN queue ELSE Append(queue, held)
    /\ held' = None
    /\ reader' = IF held.kind \in {"failed", "end"} THEN "ended" ELSE "check"
    /\ UNCHANGED <<readerStop, loopVars, consumerVars, faults>>

\* _hand_over: wait for room, unless stopped.  A failed read and the end of
\* the input end the thread.
HandOver ==
    /\ reader = "hand"
    /\ ~readerStop
    /\ Len(queue) < QueueSize
    /\ queue' = Append(queue, held)
    /\ held' = None
    /\ reader' = IF held.kind \in {"failed", "end"} THEN "ended" ELSE "check"
    /\ UNCHANGED <<readerStop, loopVars, consumerVars, faults>>

HandOverStopped ==
    /\ reader = "hand"
    /\ readerStop
    /\ held' = None
    /\ reader' = "ended"
    /\ UNCHANGED <<queue, readerStop, loopVars, consumerVars, faults>>

-----------------------------------------------------------------------------
(***************************************************************************)
(* The loop's thread: _next_event, _take, done.                            *)
(***************************************************************************)
RequestEvent ==
    /\ pc = "event"
    /\ pc' = IF stopRequested THEN "exit" ELSE "take"
    /\ UNCHANGED <<readerVars, readerStop, batch, failure, stopRequested,
                   inputUsedUp, raised, stopWhenIdle, consumerVars, faults>>

\* What was read ahead is left alone once a stop is requested.
TakeStopped ==
    /\ pc = "take"
    /\ stopRequested
    /\ pc' = "exit"
    /\ UNCHANGED <<readerVars, readerStop, batch, failure, stopRequested,
                   inputUsedUp, raised, stopWhenIdle, consumerVars, faults>>

\* _next_event, with what was taken: a batch goes to the node's code; the end of
\* the input stops the loop, and so does an empty poll with stop_when_idle.
Received(item) ==
    /\ batch' = IF item.kind = "batch" THEN item ELSE None
    /\ inputUsedUp' = (item.kind = "end")
    /\ stopRequested' = (item.kind = "end" \/ (item.kind = "idle" /\ stopWhenIdle))
    /\ pc' = IF stopRequested' THEN "exit"
             ELSE IF item.kind = "batch" THEN "body" ELSE "event"

Take ==
    /\ pc = "take"
    /\ ~stopRequested
    /\ queue # <<>>
    /\ Head(queue).kind # "failed"
    /\ queue' = Tail(queue)
    /\ Received(Head(queue))
    /\ UNCHANGED <<reader, held, readerStop, failure, raised, stopWhenIdle,
                   consumerVars, faults>>

\* The read's error is raised to the node's code.  One that catches it and
\* consumes again keeps the reader that has ended (_consume).
TakeFailed ==
    /\ pc = "take"
    /\ ~stopRequested
    /\ queue # <<>>
    /\ Head(queue).kind = "failed"
    /\ queue' = Tail(queue)
    /\ raised' = TRUE
    /\ \/ failure' = "error" /\ pc' = "exit"
       \/ NodeCatches /\ pc' = "event" /\ UNCHANGED failure
    /\ UNCHANGED <<reader, held, readerStop, batch, stopRequested, inputUsedUp,
                   stopWhenIdle, consumerVars, faults>>

\* Nothing comes: the loop's thread asks again, until a stop.
TakeWaits ==
    /\ pc = "take"
    /\ ~stopRequested
    /\ queue = <<>>
    /\ UNCHANGED vars

\* A signal that comes between the take and the check after it: the batch is
\* dropped unseen.
TakeThenStopped ==
    /\ pc = "take"
    /\ ~stopRequested
    /\ queue # <<>>
    /\ Head(queue).kind = "batch"
    /\ Fault
    /\ queue' = Tail(queue)
    /\ stopRequested' = TRUE
    /\ pc' = "exit"
    /\ UNCHANGED <<reader, held, readerStop, batch, failure, inputUsedUp,
                   raised, stopWhenIdle, consumerVars>>

\* done(): the consumer commits its oldest batch and nothing else.
Done ==
    /\ pc = "body"
    /\ batch.seq = oldest
    /\ requested' = batch.next
    /\ oldest' = oldest + 1
    /\ batch' = None
    /\ pc' = "event"
    /\ UNCHANGED <<readerVars, readerStop, failure, stopRequested, inputUsedUp,
                   raised, stopWhenIdle, position, nextSeq, closing, faults>>

\* The node's code or done() raises.
BodyFails ==
    /\ pc = "body"
    /\ IF batch.seq = oldest THEN Fault ELSE UNCHANGED faults
    /\ failure' = "error"
    /\ pc' = "exit"
    /\ UNCHANGED <<readerVars, readerStop, batch, stopRequested, inputUsedUp,
                   raised, stopWhenIdle, consumerVars>>

SignalStop ==
    /\ pc \in {"event", "take", "body", "exit", "join"}
    /\ ~stopRequested
    /\ Fault
    /\ stopRequested' = TRUE
    /\ UNCHANGED <<readerVars, readerStop, pc, batch, failure, inputUsedUp,
                   raised, stopWhenIdle, consumerVars>>

\* A second signal: straight to the closing.
SignalForce ==
    /\ pc \in {"event", "take", "body", "exit", "join"}
    /\ stopRequested
    /\ Fault
    /\ failure' = "forced"
    /\ batch' = None
    /\ pc' = "close"
    /\ UNCHANGED <<readerVars, readerStop, stopRequested, inputUsedUp, raised,
                   stopWhenIdle, consumerVars>>

-----------------------------------------------------------------------------
(***************************************************************************)
(* __exit__.                                                               *)
(***************************************************************************)

\* Mutation of Exit: the reader is told to stop and not waited for.
ExitSeeksAtOnce ==
    /\ pc = "exit"
    /\ IF failure = "error" /\ batch # None
       THEN pc' = "rewind" /\ readerStop' = TRUE
       ELSE pc' = "close" /\ UNCHANGED readerStop
    /\ UNCHANGED <<readerVars, batch, failure, stopRequested, inputUsedUp,
                   raised, stopWhenIdle, consumerVars, faults>>

\* Only a failure with a batch unfinished rewinds; first the reader is told to
\* stop.
Exit ==
    /\ pc = "exit"
    /\ IF failure = "error" /\ batch # None
       THEN pc' = "join" /\ readerStop' = TRUE
       ELSE pc' = "close" /\ UNCHANGED readerStop
    /\ UNCHANGED <<readerVars, batch, failure, stopRequested, inputUsedUp,
                   raised, stopWhenIdle, consumerVars, faults>>

\* _stop_reader: joined in time, and what it had read is dropped.
Joined ==
    /\ pc = "join"
    /\ reader = "ended"
    /\ queue' = <<>>
    /\ pc' = "rewind"
    /\ UNCHANGED <<reader, held, readerStop, batch, failure, stopRequested,
                   inputUsedUp, raised, stopWhenIdle, consumerVars, faults>>

\* The join times out, the read still going on: no rewind.
JoinTimesOut ==
    /\ pc = "join"
    /\ reader # "ended"
    /\ Fault
    /\ queue' = <<>>
    /\ batch' = None
    /\ pc' = "close"
    /\ UNCHANGED <<reader, held, readerStop, failure, stopRequested,
                   inputUsedUp, raised, stopWhenIdle, consumerVars>>

Rewind ==
    /\ pc = "rewind"
    /\ batch.seq = oldest
    /\ position' = batch.first
    /\ oldest' = nextSeq
    /\ batch' = None
    /\ pc' = "close"
    /\ UNCHANGED <<readerVars, readerStop, failure, stopRequested, inputUsedUp,
                   raised, stopWhenIdle, nextSeq, requested, closing, faults>>

\* Mutation of StopReader: the reader's flag is not raised.
StopReaderUntold ==
    /\ pc = "close"
    /\ batch' = None
    /\ pc' = "closing"
    /\ UNCHANGED <<readerVars, readerStop, failure, stopRequested, inputUsedUp,
                   raised, stopWhenIdle, consumerVars, faults>>

\* The finally block: the reader is told to stop before the consumer closes.
StopReader ==
    /\ pc = "close"
    /\ readerStop' = TRUE
    /\ batch' = None
    /\ pc' = "closing"
    /\ UNCHANGED <<readerVars, failure, stopRequested, inputUsedUp, raised,
                   stopWhenIdle, consumerVars, faults>>

\* KafkaConsumer.close: raises the flag that ends a poll at its next step.
CloseConsumer ==
    /\ pc = "closing"
    /\ closing' = TRUE
    /\ pc' = "joinlast"
    /\ UNCHANGED <<readerVars, readerStop, batch, failure, stopRequested,
                   inputUsedUp, raised, stopWhenIdle, position, nextSeq, oldest,
                   requested, faults>>

\* The last join, the reader on its way out; what it had read is dropped.
JoinLast ==
    /\ pc = "joinlast"
    /\ reader = "ended"
    /\ queue' = <<>>
    /\ pc' = "closed"
    /\ UNCHANGED <<reader, held, readerStop, batch, failure, stopRequested,
                   inputUsedUp, raised, stopWhenIdle, consumerVars, faults>>

\* All done: nothing more happens.
Ended == pc = "closed" /\ UNCHANGED vars

-----------------------------------------------------------------------------
ReaderThread ==
    \/ Check
    \/ Poll
    \/ PollEmpty
    \/ PollEnds
    \/ PollClosed
    \/ Number
    \/ HandOver
    \/ HandOverStopped

LoopThread ==
    \/ RequestEvent
    \/ TakeStopped
    \/ Take
    \/ TakeFailed
    \/ Done
    \/ Exit
    \/ Joined
    \/ Rewind
    \/ StopReader
    \/ CloseConsumer
    \/ JoinLast

Faults ==
    \/ ParseFails
    \/ TakeThenStopped
    \/ BodyFails
    \/ SignalStop
    \/ SignalForce
    \/ JoinTimesOut

Next == ReaderThread \/ LoopThread \/ TakeWaits \/ Faults \/ Ended

Spec == Init /\ [][Next]_vars

\* Both threads run; a poll ends within its timeout.
FairSpec == Spec /\ WF_vars(ReaderThread) /\ WF_vars(LoopThread)

-----------------------------------------------------------------------------
(***************************************************************************)
(* Properties.                                                             *)
(***************************************************************************)
TypeOK ==
    /\ reader \in {"check", "poll", "parse", "hand", "ended"}
    /\ held \in Item \cup {None}
    /\ queue \in Seq(Item)
    /\ readerStop \in BOOLEAN
    /\ pc \in {"event", "take", "body", "exit", "join", "rewind", "close",
               "closing", "joinlast", "closed"}
    /\ batch \in Item \cup {None}
    /\ failure \in {"none", "error", "forced"}
    /\ stopRequested \in BOOLEAN
    /\ inputUsedUp \in BOOLEAN
    /\ raised \in BOOLEAN
    /\ stopWhenIdle \in BOOLEAN
    /\ position \in Nat /\ nextSeq \in Nat /\ oldest \in Nat /\ requested \in Nat
    /\ closing \in BOOLEAN
    /\ faults \in Nat

\* The numbered batches wherever they are, from the loop to the reader.
Numbered ==
    (IF batch = None THEN {} ELSE {batch})
        \cup {item \in Range(queue) : item.kind = "batch"}
        \cup (IF held # None /\ held.kind = "batch" THEN {held} ELSE {})

\* A batch the consumer would let the loop commit next begins exactly where
\* the last commit ended: no message is committed unseen because a read was
\* dropped, failed, or straddled the rewind (the read-ahead thread "must not
\* be reading while we seek", _NodeBase.__exit__).
CommitsAreContiguous ==
    \A b \in Numbered : b.seq = oldest => b.first = requested

\* Batches reach the node in read order, none missing and none twice: the next
\* one is the consumer's oldest (_hand_over, _take).
HandedOutInOrder ==
    /\ pc \in {"body", "join", "rewind"} => batch.seq = oldest
    /\ \A b, c \in Numbered : b.seq < c.seq => b.next <= c.first

\* When the input itself ends the loop, all of it has been committed: unlike a
\* stop, the end drops nothing read ahead (_end_of_input).
EndDropsNothing == inputUsedUp => requested = LogEnd

\* When an empty poll comes to the loop, everything read before it is committed,
\* however far the reader is by now: a run that stops when idle leaves nothing
\* behind that was in the input at that poll (stop_when_idle, _take).
IdleComesLast ==
    pc = "take" /\ queue # <<>> /\ Head(queue).kind = "idle" =>
        requested = Head(queue).next

\* What the reader has read ahead reaches the node in order, to the empty poll a
\* run may end with, and to the end of the input when the input has one
\* (_read_ahead_loop, _hand_over, _take).
NothingReadAheadIsLost ==
    /\ TypeOK
    /\ HandedOutInOrder
    /\ IdleComesLast
    /\ EndDropsNothing

\* However the loop ends, the exit completes with the reader gone: a reader
\* waiting for room, or in a poll, never keeps it.  A stop gets there too, from
\* a loop that waits for a reader that has ended.
ExitCompletes == stopRequested \/ pc = "exit" ~> pc = "closed"

\* A read that fails is raised to the node's code, unless a stop comes first
\* (_ReadFailed), and only a loop whose code has caught that waits for ever.
FailureIsRaised ==
    /\ held = Mark("failed") /\ reader = "hand" ~>
            raised \/ stopRequested \/ readerStop
    /\ pc = "take" ~> pc # "take" \/ raised

=============================================================================
