------------------------------- MODULE DedupNode -------------------------------
(***************************************************************************)
(* The deduplicating node of tkati_node_dedup/main.py: run() drops the     *)
(* rows whose key it has seen, sends the rest, and marks their keys seen   *)
(* when their batch is committed.  Until then the keys are pending.        *)
(*                                                                         *)
(* The node runs on a PipelinedNode, which this module takes by what       *)
(* PipelinedNode shows of it: finished batches are delivered in any order, *)
(* committed from the oldest once delivered, and after_commit follows the  *)
(* commit, on the loop's thread; after a failed delivery nothing more is   *)
(* committed and the loop ends.                                            *)
(***************************************************************************)
EXTENDS DedupStore, Sequences

CONSTANTS
    None,          \* a row without a key, a time that is not
    Log,           \* the keys of the input's rows, in order
    BatchSize,     \* batch_size
    MaxInFlight,   \* max_in_flight
    MaxFaults,     \* bound: failures and crashes
    MaxStops       \* bound: clean stops

Rows == 1..Len(Log)

\* A batch from the event that brings it to its after_commit.
Handled == [first : Rows, last : Rows, kept : SUBSET Rows, keys : SUBSET Key,
            cleaned : 0..MaxTime, looked : 0..MaxTime,
            state : {"out", "there", "failed"}]

ASSUME NodeConstants ==
    /\ None \notin Key /\ None \notin Handled /\ None \notin 0..MaxTime
    /\ Log \in Seq(Key \cup {None})
    /\ BatchSize \in Nat \ {0} /\ MaxInFlight \in Nat \ {0}
    /\ MaxFaults \in Nat /\ MaxStops \in Nat

VARIABLES
    pc,         \* where run() is
    batch,      \* the batch in hand: its rows, those kept, their keys, when
                \*   the buckets were cleaned for it and its keys looked up
    pending,    \* pending: keys sent in batches not yet committed
    queue,      \* PipelinedNode._finished
    position,   \* rows read
    committed,  \* rows behind the offset asked to be committed
    landed,     \* rows behind the offset the broker has
    stopping,   \* a stop was asked for
    delivered,  \* the rows the output has
    marked,     \* when each key was last marked seen, None if never
    faults, stops

nodeVars == <<pc, batch, pending, queue, position, committed, landed, stopping,
              delivered, marked, faults, stops>>
vars == <<storeVars, nodeVars>>

Init ==
    /\ StoreInit
    /\ pc = "event"
    /\ batch = None
    /\ pending = {}
    /\ queue = <<>>
    /\ position = 0 /\ committed = 0 /\ landed = 0
    /\ stopping = FALSE
    /\ delivered = {}
    /\ marked = [k \in Key |-> None]
    /\ faults = 0 /\ stops = 0

Fault == faults < MaxFaults /\ faults' = faults + 1

-----------------------------------------------------------------------------
(***************************************************************************)
(* The loop body.                                                          *)
(***************************************************************************)

\* The next event: a batch, or Idle at the end of the input.  The harness
\* settles first: no delivered or failed batch is at the head of the queue, and
\* no more than max_in_flight batches are in it.
Settled ==
    /\ queue # <<>> => Head(queue).state = "out"
    /\ Len(queue) <= MaxInFlight

TakeBatch ==
    /\ pc = "event"
    /\ Settled /\ ~stopping
    /\ \E n \in 1..BatchSize :
        /\ position + n <= Len(Log)
        /\ batch' = [first |-> position + 1, last |-> position + n, kept |-> {},
                     keys |-> {}, cleaned |-> now, looked |-> now, state |-> "out"]
        /\ position' = position + n
    /\ pc' = "cleanup"
    /\ UNCHANGED <<storeVars, pending, queue, committed, landed, stopping,
                   delivered, marked, faults, stops>>

TakeIdle ==
    /\ pc = "event"
    /\ Settled /\ ~stopping
    /\ position = Len(Log)
    /\ pc' = "cleanup"
    /\ UNCHANGED <<storeVars, batch, pending, queue, position, committed, landed,
                   stopping, delivered, marked, faults, stops>>

\* cleanup_expired runs on every event, before the keys are looked up.
Cleanup ==
    /\ pc = "cleanup"
    /\ CleanupExpired
    /\ IF batch = None
         THEN pc' = "event" /\ UNCHANGED batch
         ELSE pc' = "lookup" /\ batch' = [batch EXCEPT !.cleaned = now]
    /\ UNCHANGED <<pending, queue, position, committed, landed, stopping,
                   delivered, marked, faults, stops>>

\* A cleanup that raises is logged, and the body goes on with what there is.
CleanupFails ==
    /\ pc = "cleanup"
    /\ Fault
    /\ pc' = IF batch = None THEN "event" ELSE "lookup"
    /\ UNCHANGED <<storeVars, batch, pending, queue, position, committed, landed,
                   stopping, delivered, marked, stops>>

\* filter_duplicates: a row is kept if it has no key, or is the first of its key
\* in the batch and the key is neither pending nor in the store.
Kept(broken) ==
    {r \in batch.first .. batch.last :
        \/ Log[r] = None
        \/ /\ Log[r] \notin pending
           /\ ~Seen(Log[r], broken)
           /\ \A q \in batch.first .. (r - 1) : Log[q] # Log[r]}

KeysOf(rows) == {Log[r] : r \in rows} \ {None}

\* Mutation of Filter: the keys are marked seen when they are looked up.
FilterMarks(broken) ==
    /\ LET kept == Kept(broken)
       IN  /\ batch' = [batch EXCEPT !.kept = kept, !.keys = KeysOf(kept), !.looked = now]
           /\ pending' = pending \cup KeysOf(kept)
           /\ AddMany(KeysOf(kept))
    /\ pc' = "done"
    /\ UNCHANGED <<queue, position, committed, landed, stopping, delivered,
                   marked, stops>>

\* _dedupe_batch; the new keys become pending before done() is called.
Filter(broken) ==
    /\ LET kept == Kept(broken)
       IN  /\ batch' = [batch EXCEPT !.kept = kept, !.keys = KeysOf(kept), !.looked = now]
           /\ pending' = pending \cup KeysOf(kept)
    /\ pc' = "done"
    /\ UNCHANGED <<storeVars, queue, position, committed, landed, stopping,
                   delivered, marked, stops>>

Lookup      == pc = "lookup" /\ Filter({}) /\ UNCHANGED faults
LookupFails == pc = "lookup" /\ Fault /\ \E broken \in SUBSET open : Filter(broken)

\* done(): the kept rows are on their way, and there already if there are none.
Done ==
    /\ pc = "done"
    /\ queue' = Append(queue,
                    [batch EXCEPT !.state = IF batch.kept = {} THEN "there" ELSE "out"])
    /\ batch' = None
    /\ pc' = "event"
    /\ UNCHANGED <<storeVars, pending, position, committed, landed, stopping,
                   delivered, marked, faults, stops>>

-----------------------------------------------------------------------------
(***************************************************************************)
(* The harness: settling the oldest batch, inside done() and at events.    *)
(***************************************************************************)
\* Mutation of CommitHead: a batch whose delivery failed is committed too.
CommitHeadReported ==
    /\ pc = "event"
    /\ queue # <<>>
    /\ Head(queue).state # "out"
    /\ committed' = Head(queue).last
    /\ pc' = "marking"
    /\ UNCHANGED <<storeVars, batch, pending, queue, position, landed, stopping,
                   delivered, marked, faults, stops>>

CommitHead ==
    /\ pc = "event"
    /\ queue # <<>>
    /\ Head(queue).state = "there"
    /\ committed' = Head(queue).last
    /\ pc' = "marking"
    /\ UNCHANGED <<storeVars, batch, pending, queue, position, landed, stopping,
                   delivered, marked, faults, stops>>

\* _mark_seen, the batch's after_commit: its keys go to the store, or are lost
\* to it, and are pending no longer.
Forget ==
    /\ pending' = pending \ Head(queue).keys
    /\ queue' = Tail(queue)
    /\ pc' = "event"
    /\ UNCHANGED <<batch, position, committed, landed, stopping, delivered, stops>>

MarkSeen ==
    /\ pc = "marking"
    /\ AddMany(Head(queue).keys)
    /\ marked' = [k \in Key |-> IF k \in Head(queue).keys THEN now ELSE marked[k]]
    /\ Forget
    /\ UNCHANGED faults

\* Mutation of MarkSeenFails: the failed write leaves the keys pending.
MarkSeenFailsPending ==
    /\ pc = "marking"
    /\ Fault
    /\ AddManyFails
    /\ queue' = Tail(queue)
    /\ pc' = "event"
    /\ UNCHANGED <<batch, pending, position, committed, landed, stopping,
                   delivered, marked, stops>>

MarkSeenFails ==
    /\ pc = "marking"
    /\ Fault
    /\ AddManyFails
    /\ Forget
    /\ UNCHANGED marked

\* The loop fails on the oldest batch's delivery, or ends when it was to stop
\* and everything in flight is settled.
LoopEnds ==
    /\ pc = "event"
    /\ IF queue # <<>> THEN Head(queue).state = "failed" ELSE stopping
    /\ pc' = "closing"
    /\ UNCHANGED <<storeVars, batch, pending, queue, position, committed, landed,
                   stopping, delivered, marked, faults, stops>>

\* The producer's close waits for the reports still out; the store closes last.
Close ==
    /\ pc = "closing"
    /\ \A i \in 1..Len(queue) : queue[i].state # "out"
    /\ CloseStore
    /\ pc' = "closed"
    /\ UNCHANGED <<batch, pending, queue, position, committed, landed, stopping,
                   delivered, marked, faults, stops>>

\* Mutation of Begin: a new process reads from the start of the input.
BeginAtStart(broken) ==
    /\ pc \in {"closed", "down"}
    /\ Recover(broken)
    /\ pc' = "event"
    /\ batch' = None /\ pending' = {} /\ queue' = <<>> /\ stopping' = FALSE
    /\ position' = 0 /\ committed' = 0
    /\ UNCHANGED <<landed, delivered, marked, stops>>

\* A new process reads on from the offset the broker has; broken buckets do not
\* open.
Begin(broken) ==
    /\ pc \in {"closed", "down"}
    /\ Recover(broken)
    /\ pc' = "event"
    /\ batch' = None /\ pending' = {} /\ queue' = <<>> /\ stopping' = FALSE
    /\ position' = landed /\ committed' = landed
    /\ UNCHANGED <<landed, delivered, marked, stops>>

Restart      == Begin({}) /\ UNCHANGED faults
RestartFails == Fault /\ \E broken \in SUBSET dirs : Begin(broken)

-----------------------------------------------------------------------------
(***************************************************************************)
(* The surroundings.                                                       *)
(***************************************************************************)
Running == pc \notin {"closing", "closed", "down"}

Delivered ==
    /\ pc \notin {"closed", "down"}
    /\ \E i \in 1..Len(queue) :
        /\ queue[i].state = "out"
        /\ queue' = [queue EXCEPT ![i].state = "there"]
        /\ delivered' = delivered \cup queue[i].kept
    /\ UNCHANGED <<storeVars, pc, batch, pending, position, committed, landed,
                   stopping, marked, faults, stops>>

\* A delivery fails, with any part of the batch delivered.
Undelivered ==
    /\ pc \notin {"closed", "down"}
    /\ Fault
    /\ \E i \in 1..Len(queue) :
        /\ queue[i].state = "out"
        /\ queue' = [queue EXCEPT ![i].state = "failed"]
        /\ \E some \in SUBSET queue[i].kept : delivered' = delivered \cup some
    /\ UNCHANGED <<storeVars, pc, batch, pending, position, committed, landed,
                   stopping, marked, stops>>

CommitLands ==
    /\ landed # committed
    /\ pc \notin {"closed", "down"}
    /\ landed' = committed
    /\ UNCHANGED <<storeVars, pc, batch, pending, queue, position, committed,
                   stopping, delivered, marked, faults, stops>>

Stop ==
    /\ Running
    /\ ~stopping
    /\ stops < MaxStops
    /\ stops' = stops + 1
    /\ stopping' = TRUE
    /\ UNCHANGED <<storeVars, pc, batch, pending, queue, position, committed,
                   landed, delivered, marked, faults>>

\* An error in the body, or a second signal: nothing is drained, but the node
\* and the store are closed.
BodyFails ==
    /\ Running
    /\ Fault
    /\ pc' = "closing"
    /\ UNCHANGED <<storeVars, batch, pending, queue, position, committed, landed,
                   stopping, delivered, marked, stops>>

Kill ==
    /\ pc \notin {"closed", "down"}
    /\ Fault
    /\ KillStore
    /\ pc' = "down"
    /\ UNCHANGED <<batch, pending, queue, position, committed, landed, stopping,
                   delivered, marked, stops>>

Tick ==
    /\ now < MaxTime
    /\ now' = now + 1
    /\ UNCHANGED <<open, dirs, stored, flushed, nodeVars>>

ClockStepsBack ==
    /\ Fault
    /\ now' \in 0 .. (now - 1)
    /\ UNCHANGED <<open, dirs, stored, flushed, pc, batch, pending, queue,
                   position, committed, landed, stopping, delivered, marked, stops>>

-----------------------------------------------------------------------------
Node ==
    \/ TakeBatch
    \/ TakeIdle
    \/ Cleanup
    \/ Lookup
    \/ Done
    \/ CommitHead
    \/ MarkSeen
    \/ LoopEnds
    \/ Close
    \/ Restart

Faults ==
    \/ CleanupFails
    \/ LookupFails
    \/ MarkSeenFails
    \/ RestartFails
    \/ Undelivered
    \/ BodyFails
    \/ Kill
    \/ ClockStepsBack

Next == Node \/ Delivered \/ CommitLands \/ Stop \/ Tick \/ Faults

Spec == Init /\ [][Next]_vars

-----------------------------------------------------------------------------
(***************************************************************************)
(* Properties.                                                             *)
(***************************************************************************)
TypeOK ==
    /\ StoreTypeOK
    /\ pc \in {"event", "cleanup", "lookup", "done", "marking", "closing",
               "closed", "down"}
    /\ batch \in Handled \cup {None}
    /\ pending \subseteq Key
    /\ queue \in Seq(Handled)
    /\ position \in 0..Len(Log) /\ committed \in 0..Len(Log) /\ landed \in 0..Len(Log)
    /\ stopping \in BOOLEAN
    /\ delivered \subseteq Rows
    /\ marked \in [Key -> 0..MaxTime \cup {None}]
    /\ faults \in 0..MaxFaults /\ stops \in 0..MaxStops

KeysDelivered == KeysOf(delivered)

\* No event is lost: every row behind the offset asked to be committed is
\* delivered, or was dropped for another row of its key that is, whatever
\* failed, and although a row may be dropped for one still in flight
\* (main.py: "No event can be lost").
NoEventLost ==
    \A r \in 1..committed :
        r \in delivered \/ (Log[r] # None /\ Log[r] \in KeysDelivered)

\* A key is in the store, also in what a crash leaves of it, only once a row of
\* it is delivered (main.py: "a key reaches the store only after its row is
\* delivered and its batch committed").
MarkedIsDelivered ==
    \A b \in Bucket : stored[b] \cup flushed[b] \subseteq KeysDelivered

\* The pending keys are those of the batches sent and not yet marked: none is
\* forgotten, which would let a duplicate through, and none is left behind,
\* which would drop its key's rows for ever.
PendingIsInFlight ==
    Running =>
        pending = (UNION {queue[i].keys : i \in 1..Len(queue)}) \cup
                  (IF batch = None THEN {} ELSE batch.keys)

\* Dedup is exact across batches in flight: no two of them send the same key
\* (main.py: "exact while batches are in flight").
InFlightKeysDiffer ==
    \A i, j \in 1..Len(queue) : i # j => queue[i].keys \cap queue[j].keys = {}

\* The pending set does its work: it holds the keys in flight, each of them for
\* one batch alone (run, _mark_seen, BucketedDedupStore.filter_duplicates).
PendingIsExact ==
    /\ TypeOK
    /\ PendingIsInFlight
    /\ InFlightKeysDiffer

\* The age of a key that batch has let through again.
Age(k) == batch.looked - marked[k]

\* Without failures, over clean restarts too, a key let through again was marked
\* in a bucket that had fallen out of the window, and a row is dropped only for
\* one in flight, in its batch, or marked in a bucket inside the window when the
\* buckets were cleaned for it.
DedupIsExact ==
    pc = "done" /\ faults = 0 =>
        /\ \A k \in batch.keys :
               marked[k] # None => Age(k) > (NumBuckets - 1) * BucketTicks
        /\ \A r \in (batch.first .. batch.last) \ batch.kept :
               \/ Log[r] \in pending
               \/ /\ marked[Log[r]] # None
                  /\ batch.cleaned - marked[Log[r]] < NumBuckets * BucketTicks

\* The window the README gives: a key is recognised for at least window_hours.
WindowAsDocumented ==
    pc = "done" /\ faults = 0 =>
        \A k \in batch.keys : marked[k] # None => Age(k) >= WindowTicks

-----------------------------------------------------------------------------
\* The node keeps the promise of AtLeastOnce, although it drops rows: taking a row
\* whose key is delivered for output that is there, the broker's offset only moves
\* forward, over restarts too, and never past a row that is not (main.py: "No
\* event can be lost"; node.py's module docstring).
Placed == {r \in Rows : r \in delivered \/ (Log[r] # None /\ Log[r] \in KeysDelivered)}

Promise == INSTANCE AtLeastOnce
             WITH LogEnd <- Len(Log), Skipped <- {},
                  committed <- landed, delivered <- {r - 1 : r \in Placed}
KeepsPromise == Promise!Spec

=============================================================================
