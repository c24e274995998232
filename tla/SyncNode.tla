------------------------------- MODULE SyncNode -------------------------------
(***************************************************************************)
(* SyncNode of tkati_core/node.py: done() sends a batch's output, waits    *)
(* until librdkafka has reported every message, asks whether the batch's   *)
(* own messages all arrived, and commits.  At most one batch is unfinished *)
(* at a time, and the lines after done() run after the commit.             *)
(***************************************************************************)
EXTENDS NodeBase

vars == baseVars

Init == BaseInit

-----------------------------------------------------------------------------
(***************************************************************************)
(* done().  Whatever it raises leaves the batch unfinished.                *)
(***************************************************************************)

\* An error of done() leaves the loop, or the node's code catches it and asks
\* for the next event or calls done() again with the same output.
DoneRaises ==
    \/ Raise
    \/ Swallow("event")
    \/ Swallow("body")

DoneWithoutOutput == ProduceNothing("flush") /\ UNCHANGED batch
DoneSent          == Send("flush") /\ UNCHANGED batch

\* Mutation of Flush: done() does not wait for every report.
FlushSkipped ==
    /\ pc = "flush"
    /\ pc' = "wait"
    /\ UNCHANGED <<batch, failure, stopRequested, signals, consumerVars,
                   outputVars, committed, faults>>

\* flush(): nothing is in flight any more, delivered or not.
Flush ==
    /\ pc = "flush"
    /\ AllReported
    /\ pc' = "wait"
    /\ UNCHANGED <<batch, failure, stopRequested, signals, consumerVars,
                   outputVars, committed, faults>>

WaitDelivered ==
    /\ pc = "wait"
    /\ WaitOk(TagOf(batch))
    /\ pc' = "commit"
    /\ UNCHANGED <<batch, failure, stopRequested, signals, consumerVars, sent,
                   delivered, committed, faults>>

WaitRaises ==
    /\ pc = "wait"
    /\ WaitFailed(TagOf(batch))
    /\ DoneRaises
    /\ UNCHANGED <<batch, stopRequested, signals, consumerVars, sent,
                   delivered, committed, faults>>

CommitBatch ==
    /\ pc = "commit"
    /\ CommitOldest(batch)
    /\ batch' = None
    /\ pc' = "event"
    /\ UNCHANGED <<failure, stopRequested, signals, outputVars, committed,
                   faults>>

CommitRaises ==
    /\ pc = "commit"
    /\ CommitRefused(batch)
    /\ DoneRaises
    /\ UNCHANGED <<batch, stopRequested, signals, outputVars, committed>>

-----------------------------------------------------------------------------
\* An event request with a batch unfinished is the node's bug, and raises.
RequestUnfinished ==
    /\ pc = "event"
    /\ batch # None
    /\ Raise
    /\ UNCHANGED <<batch, stopRequested, signals, consumerVars, outputVars,
                   committed, faults>>

RequestEvent ==
    /\ pc = "event"
    /\ batch = None
    /\ pc' = IF stopRequested THEN "exit" ELSE "read"
    /\ UNCHANGED <<batch, failure, stopRequested, signals, consumerVars,
                   outputVars, committed, faults>>

\* __exit__ has nothing to drain: it goes to the rewind either way.
Exit ==
    /\ pc = "exit"
    /\ pc' = "rewind"
    /\ UNCHANGED <<batch, failure, stopRequested, signals, consumerVars,
                   outputVars, committed, faults>>

-----------------------------------------------------------------------------
LoopThread ==
    \/ DoneWithoutOutput
    \/ DoneSent
    \/ Flush
    \/ WaitDelivered
    \/ WaitRaises
    \/ CommitBatch
    \/ RequestUnfinished
    \/ RequestEvent
    \/ Exit
    \/ Fetch
    \/ ReadEmpty
    \/ Produce
    \/ Rewind(batch)
    \/ NoRewind(batch)
    \/ Close

Faults ==
    \/ CommitRaises
    \/ BodyFails
    \/ BodyBreaks
    \/ SendFails
    \/ RewindFails(batch)
    \/ SignalStop
    \/ SignalInRead
    \/ SignalForce
    \/ \E t \in Tag : Lost(t)
    \/ Crash

Reports == \E t \in Tag : Delivered(t)

Next == LoopThread \/ Reports \/ CommitLands \/ Restart \/ Faults

Spec == Init /\ [][Next]_vars

\* The loop thread runs, its reads find what is there at last, librdkafka
\* settles every message it holds (message.timeout.ms bounds it) and waits for
\* its commits when it closes, and the process is restarted when it ends.
FairSpec ==
    /\ Spec
    /\ WF_vars(LoopThread)
    /\ SF_vars(Fetch)
    /\ WF_vars(Reports)
    /\ SF_vars(CommitLands)
    /\ WF_vars(Restart)

-----------------------------------------------------------------------------
(***************************************************************************)
(* Properties.                                                             *)
(***************************************************************************)
Points == {"event", "read", "body", "send", "flush", "wait", "commit",
           "exit", "rewind", "close", "closed", "down"}

TypeOK ==
    /\ DeliveriesTypeOK
    /\ pc \in Points
    /\ batch \in Batch \cup {None}
    /\ failure \in {"none", "error", "forced"}
    /\ stopRequested \in BOOLEAN
    /\ signals \in 0..2
    /\ position \in Nat /\ nextSeq \in Nat /\ oldest \in Nat
    /\ requested \in Nat /\ committed \in Nat
    /\ sent \in [Tag -> Sent]
    /\ delivered \subseteq 0 .. (LogEnd - 1)
    /\ faults \in Nat

\* No message is behind the committed offset unless its output is delivered,
\* also when the node's code catches what done() raises and goes on
\* (SyncNode.done: flush returns "delivered or not", wait_delivered decides).
CommittedIsDelivered ==
    /\ committed <= requested
    /\ 0 .. (requested - 1) \subseteq delivered \cup Skipped

\* No report of one batch is still out when the next one is read, so a late
\* report can never be counted for another batch's tag.
NothingLeftInFlight ==
    pc = "read" => \A t \in Tag : sent[t].left = 0

\* The harness never asks the consumer for anything but its oldest batch.
OrderNeverRefused ==
    /\ pc = "commit" => batch.seq = oldest
    /\ pc = "rewind" /\ failure = "error" /\ batch # None => batch.seq = oldest

\* A message that read_arrow raises at is in front of these offsets, or in one
\* batch with them.
Blocked(o) == Format = "arrow" /\ \E m \in Malformed : o > m - BatchSize

\* The whole input ends up committed, with the node's code catching errors or
\* not: an unfinished batch is read again after the loop that left it.  With a
\* message that never decodes, everything in front of it but for one batch
\* does, though each restart ends at it (SyncNode.done, KafkaConsumer.read_arrow).
EverythingCommitted ==
    <>[](\A o \in committed .. (LogEnd - 1) : o \in Skipped \/ Blocked(o))

-----------------------------------------------------------------------------
\* The node keeps the promise of AtLeastOnce (node.py's module docstring).
Promise == INSTANCE AtLeastOnce
             WITH LogEnd <- LogEnd, Skipped <- Skipped,
                  committed <- committed, delivered <- delivered
KeepsPromise == Promise!Spec

=============================================================================
