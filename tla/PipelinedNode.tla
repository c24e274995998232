---------------------------- MODULE PipelinedNode ----------------------------
(***************************************************************************)
(* PipelinedNode of tkati_core/node.py: done() sends a batch's output and  *)
(* returns without waiting for it.  Finished batches queue up and are      *)
(* settled from the oldest: waited for, committed, dropped from the queue, *)
(* their after_commit run.  Settling happens inside done(), at every event *)
(* request, and when the loop exits cleanly.                               *)
(***************************************************************************)
EXTENDS NodeBase, Sequences

CONSTANT MaxInFlight   \* max_in_flight

ASSUME MaxInFlightAssumption == MaxInFlight \in Nat \ {0}

VARIABLES
    finished,   \* _finished: the batches done() was called for, uncommitted
    settling,   \* what _settle runs for: "done", "read" or "drain"
    current,    \* the batch whose after_commit runs next
    hooks       \* the numbers of the batches whose after_commit has run

pipelineVars == <<finished, settling, current, hooks>>
vars == <<baseVars, pipelineVars>>

Init ==
    /\ BaseInit
    /\ finished = <<>>
    /\ settling = "read"
    /\ current = None
    /\ hooks = <<>>

-----------------------------------------------------------------------------
\* done(): once the output is with librdkafka (or there is none), the batch is
\* finished and the node may ask for the next event.
Finish ==
    /\ finished' = Append(finished, batch)
    /\ batch' = None
    /\ settling' = "done"
    /\ UNCHANGED <<current, hooks>>

DoneWithoutOutput == ProduceNothing("settle") /\ Finish
DoneSent          == Send("settle") /\ Finish

-----------------------------------------------------------------------------
(***************************************************************************)
(* _settle(keep): one look at the oldest finished batch per step.          *)
(***************************************************************************)
\* Mutation of Keep: one batch more may stay in flight.
KeepOneMore == IF settling = "drain" THEN 0 ELSE MaxInFlight + 1

Keep == IF settling = "drain" THEN 0 ELSE MaxInFlight

\* Mutation of AfterSettle: an event request reads although a stop is asked for.
AfterSettleReads ==
    CASE settling = "done"  -> "event"
      [] settling = "read"  -> "read"
      [] settling = "drain" -> "rewind"

\* Where the code goes on when _settle returns: after done() the node asks for
\* the next event; an event request reads, unless the loop is to stop.
AfterSettle ==
    CASE settling = "done"  -> "event"
      [] settling = "read"  -> IF stopRequested THEN "exit" ELSE "read"
      [] settling = "drain" -> "rewind"

\* An error out of _settle: raised to the node's code from done() or from the
\* event request, or kept as the exit's failure when draining.
SettleRaises ==
    \/ /\ failure' = "error"
       /\ pc' = IF settling = "drain" THEN "rewind" ELSE "exit"
    \/ /\ settling = "done"
       /\ Swallow("event")
    \/ /\ settling # "drain"
       /\ Swallow("exit")

\* Mutation of SettleReturns: with room in flight the oldest is not looked at.
SettleReturnsEarly ==
    /\ pc = "settle"
    /\ Len(finished) <= Keep
    /\ pc' = AfterSettle
    /\ UNCHANGED <<batch, failure, stopRequested, signals, consumerVars,
                   outputVars, committed, faults, pipelineVars>>

\* Nothing finished, or the oldest may stay in flight: not waited for.
SettleReturns ==
    /\ pc = "settle"
    /\ finished # <<>> => /\ IsPending(TagOf(Head(finished)))
                          /\ Len(finished) <= Keep
    /\ pc' = AfterSettle
    /\ UNCHANGED <<batch, failure, stopRequested, signals, consumerVars,
                   outputVars, committed, faults, pipelineVars>>

SettleDelivered ==
    /\ pc = "settle"
    /\ finished # <<>>
    /\ WaitOk(TagOf(Head(finished)))
    /\ pc' = "commit"
    /\ UNCHANGED <<batch, failure, stopRequested, signals, consumerVars, sent,
                   delivered, committed, faults, pipelineVars>>

\* wait_delivered raises DeliveryError; the batch stays the oldest uncommitted.
SettleFails ==
    /\ pc = "settle"
    /\ finished # <<>>
    /\ WaitFailed(TagOf(Head(finished)))
    /\ SettleRaises
    /\ UNCHANGED <<batch, stopRequested, signals, consumerVars, sent,
                   delivered, committed, faults, pipelineVars>>

\* Mutation of CommitHead: after_commit only for the last batch settled.
CommitHeadSkipsHook ==
    /\ pc = "commit"
    /\ CommitOldest(Head(finished))
    /\ current' = Head(finished)
    /\ finished' = Tail(finished)
    /\ pc' = IF Len(finished) > 1 THEN "settle" ELSE "hook"
    /\ UNCHANGED <<batch, failure, stopRequested, signals, outputVars,
                   committed, faults, settling, hooks>>

\* Committed, counted, and only then taken off the queue.
CommitHead ==
    /\ pc = "commit"
    /\ CommitOldest(Head(finished))
    /\ current' = Head(finished)
    /\ finished' = Tail(finished)
    /\ pc' = "hook"
    /\ UNCHANGED <<batch, failure, stopRequested, signals, outputVars,
                   committed, faults, settling, hooks>>

CommitFails ==
    /\ pc = "commit"
    /\ CommitRefused(Head(finished))
    /\ SettleRaises
    /\ UNCHANGED <<batch, stopRequested, signals, outputVars, committed,
                   pipelineVars>>

\* after_commit runs on the loop thread, and settling goes on.
RunHook ==
    /\ pc = "hook"
    /\ hooks' = Append(hooks, current.seq)
    /\ current' = None
    /\ pc' = "settle"
    /\ UNCHANGED <<batch, failure, stopRequested, signals, consumerVars,
                   outputVars, committed, faults, finished, settling>>

HookFails ==
    /\ pc = "hook"
    /\ Fault
    /\ hooks' = Append(hooks, current.seq)
    /\ current' = None
    /\ SettleRaises
    /\ UNCHANGED <<batch, stopRequested, signals, consumerVars, outputVars,
                   committed, finished, settling>>

-----------------------------------------------------------------------------
\* An event request first settles what has been delivered (_before_read).
RequestEvent ==
    /\ pc = "event"
    /\ settling' = "read"
    /\ pc' = "settle"
    /\ UNCHANGED <<batch, failure, stopRequested, signals, consumerVars,
                   outputVars, committed, faults, finished, current, hooks>>

\* __exit__ drains after a clean loop, and goes straight to the rewind else.
ExitClean ==
    /\ pc = "exit"
    /\ failure = "none"
    /\ settling' = "drain"
    /\ pc' = "settle"
    /\ UNCHANGED <<batch, failure, stopRequested, signals, consumerVars,
                   outputVars, committed, faults, finished, current, hooks>>

ExitFailed ==
    /\ pc = "exit"
    /\ failure = "error"
    /\ pc' = "rewind"
    /\ UNCHANGED <<batch, failure, stopRequested, signals, consumerVars,
                   outputVars, committed, faults, pipelineVars>>

\* Mutation of OldestUncommitted: the batch in hand comes first.
BatchFirst ==
    IF batch # None THEN batch
    ELSE IF finished # <<>> THEN Head(finished) ELSE None

OldestUncommitted == IF finished # <<>> THEN Head(finished) ELSE batch

-----------------------------------------------------------------------------
\* The steps of NodeBase leave the pipeline's own state alone, except that it
\* does not outlive the process.
Forgotten ==
    /\ finished' = <<>>
    /\ settling' = "read"
    /\ current' = None
    /\ hooks' = <<>>

NodeCode ==
    \/ DoneWithoutOutput
    \/ DoneSent
    \/ RequestEvent
    \/ (Produce /\ UNCHANGED pipelineVars)

Reading == (Fetch \/ ReadEmpty) /\ UNCHANGED pipelineVars

Settling ==
    \/ SettleReturns
    \/ SettleDelivered
    \/ SettleFails
    \/ CommitHead
    \/ RunHook

Exiting ==
    \/ ExitClean
    \/ ExitFailed
    \/ (Rewind(OldestUncommitted) /\ UNCHANGED pipelineVars)
    \/ (NoRewind(OldestUncommitted) /\ UNCHANGED pipelineVars)
    \/ (Close /\ UNCHANGED pipelineVars)

Faults ==
    \/ CommitFails
    \/ HookFails
    \/ /\ \/ BodyFails
          \/ BodyBreaks
          \/ SendFails
          \/ RewindFails(OldestUncommitted)
          \/ SignalStop
          \/ SignalInRead
          \/ SignalForce
          \/ \E t \in Tag : Lost(t)
       /\ UNCHANGED pipelineVars
    \/ (Crash /\ Forgotten)

LoopThread == NodeCode \/ Reading \/ Settling \/ Exiting

Reports == \E t \in Tag : Delivered(t) /\ UNCHANGED pipelineVars

Broker == CommitLands /\ UNCHANGED pipelineVars

Supervisor == Restart /\ Forgotten

Next == LoopThread \/ Reports \/ Broker \/ Supervisor \/ Faults

Spec == Init /\ [][Next]_vars

\* The loop thread runs, its reads find what is there at last, librdkafka
\* settles every message it holds (message.timeout.ms bounds it) and sends the
\* commits, and the process is restarted when it ends.
FairSpec ==
    /\ Spec
    /\ WF_vars(LoopThread)
    /\ SF_vars(Fetch /\ UNCHANGED pipelineVars)
    /\ WF_vars(Reports)
    /\ WF_vars(Broker)
    /\ WF_vars(Supervisor)

-----------------------------------------------------------------------------
(***************************************************************************)
(* Properties.                                                             *)
(***************************************************************************)
Points == {"event", "settle", "commit", "hook", "read", "body", "send",
           "exit", "rewind", "close", "closed", "down"}

TypeOK ==
    /\ DeliveriesTypeOK
    /\ pc \in Points
    /\ batch \in Batch \cup {None}
    /\ failure \in {"none", "error", "forced"}
    /\ stopRequested \in BOOLEAN
    /\ signals \in 0..2
    /\ position \in Nat /\ nextSeq \in Nat /\ oldest \in Nat
    /\ requested \in Nat /\ committed \in Nat
    /\ sent \in [Tag -> Sent]
    /\ delivered \subseteq 0 .. (LogEnd - 1)
    /\ faults \in Nat
    /\ finished \in Seq(Batch)
    /\ settling \in {"done", "read", "drain"}
    /\ current \in Batch \cup {None}
    /\ hooks \in Seq(Nat)

\* No message is behind the offset asked to be committed, and so behind the
\* one the broker holds, unless its output is delivered: done() returns early,
\* reports come in any order, deliveries fail, the process dies anywhere
\* (PipelinedNode.done, _settle, _commit).
CommittedIsDelivered ==
    /\ committed <= requested
    /\ 0 .. (requested - 1) \subseteq delivered \cup Skipped

\* The batches the harness commits and rewinds are always the consumer's
\* oldest outstanding one, so the ValueErrors of KafkaConsumer._check_oldest
\* never reach a node: the queue of finished batches and the consumer's
\* numbering agree although a read may take no number, or be dropped.
OrderNeverRefused ==
    /\ pc = "commit" => Head(finished).seq = oldest
    /\ pc = "rewind" /\ failure = "error" /\ OldestUncommitted # None =>
            OldestUncommitted.seq = oldest

\* The node's code gets a batch only while at most max_in_flight batches wait
\* for delivery: done() held it back otherwise (PipelinedNode.done).
InFlightBounded ==
    pc \in {"read", "body", "send"} => Len(finished) <= MaxInFlight

\* after_commit runs once for each batch, in read order, and never for a batch
\* whose commit has not been asked for (PipelinedNode._settle).
HooksFollowCommits ==
    /\ \A i \in 1..Len(hooks) : hooks[i] = i - 1
    /\ Len(hooks) <= oldest
    /\ pc \in {"event", "read", "body", "send"} => Len(hooks) = oldest

\* The rewind of a failed loop leaves out nothing that is not committed and
\* goes back behind nothing that is: the messages between the offset asked to
\* be committed and the new position are dropped ones only
\* (_NodeBase.__exit__, KafkaConsumer.rewind).
RewindsToUncommitted ==
    [][pc = "rewind" /\ oldest' # oldest =>
         /\ requested <= position'
         /\ requested .. (position' - 1) \subseteq Skipped]_vars

\* A first signal ends the loop: what is in flight is waited for, the exit
\* completes, whatever the loop was doing (_NodeBase._on_signal, stop).
StopEnds == stopRequested ~> pc \in {"closed", "down"}

\* With the process restarted whenever it ends and only so many failures, the
\* whole input ends up committed: no failure leaves a batch that is neither
\* read again nor committed, no wait hangs, no loop passes over a batch whose
\* output has arrived.
EverythingCommitted == <>[](committed .. (LogEnd - 1) \subseteq Skipped)

-----------------------------------------------------------------------------
\* The node keeps the promise of AtLeastOnce (node.py's module docstring).
Promise == INSTANCE AtLeastOnce
             WITH LogEnd <- LogEnd, Skipped <- Skipped,
                  committed <- committed, delivered <- delivered
KeepsPromise == Promise!Spec

=============================================================================
