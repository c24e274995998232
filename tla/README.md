# tkati: verification of the worker loop and its parts

tkati runs small workers between Kafka topics and ClickHouse tables. A worker
reads batches from a topic, turns them into output, and commits the input
offset; the promise is that nothing is committed whose output is not delivered,
although the output is sent asynchronously, several batches are in flight, a
thread reads ahead, and anything may fail or be killed. This directory holds
TLA+ models of the code that keeps the promise, the TLC runs that check them,
and TLAPS proofs of the core.

Paths below are relative to the repository; `core/` stands for
`packages/tkati-core/`, `node.py`, `stats.py` for `core/tkati_core/node.py`,
`core/tkati_core/stats.py`, `kafka.rs` for `core/src/kafka.rs`, `consumer.py`
for `core/tkati_core/kafka/consumer.py`, `dedup/` for
`packages/tkati-node-dedup/src/tkati_node_dedup/`, and `dashboard/` for
`packages/tkati-dashboard/src/tkati_dashboard/`.

## 1. Inventory

| part | state it keeps | operations | talks to |
|---|---|---|---|
| delivery table (`kafka.rs`, `Deliveries`) | per tag: messages unreported, whether one failed; total in flight | add, settle, cancel, wait, wait_all, each under a mutex | producer calls, librdkafka's callback thread |
| Kafka producer (`kafka.rs`, `core/tkati_core/kafka/producer.py`) | librdkafka's bounded queue | enqueue with retries on a full queue, wait_delivered, flush, close | delivery table, broker |
| Kafka consumer (`consumer.py`, `kafka.rs`) | fetch positions, batch numbering (`_next_seq`, `_oldest_outstanding`), a range per partition and batch, closing flag | read, commit, rewind, close | broker, reader thread, loop thread |
| consumer group (the broker's coordinator) | owner and committed offset of each partition | revoke, assign, take or refuse a commit | every member's consumer |
| node harness (`node.py`, `_NodeBase`) | current batch, stop flag, exit state | event request, exit with drain, rewind and close, signals | consumer, producer, node's code |
| SyncNode (`node.py`) | nothing of its own | `done()`: send, flush, wait, commit | harness |
| PipelinedNode (`node.py`) | queue of finished batches | `done()`, `_settle`, `after_commit`, drain | harness |
| read-ahead (`node.py`, `_read_ahead_loop`, `_take`, `_stop_reader`) | queue, stop flag, reader thread | hand over, take, join | consumer, harness |
| loop statistics (`stats.py`, `metrics.py`) | interval counters, phase sums, totals | record, count, report, reset, totals | loop, reader and metrics-server threads |
| ClickHouse producer (`core/tkati_core/clickhouse/producer.py`) | token of the call, the recursion of the split | insert with retries, bisecting fallback, DLQ hand-over | ClickHouse, DLQ producer |
| dedup store (`dedup/store.py`) | bucket directories, open databases, memtables | recover, cleanup, lookup, add_many, close | file system |
| dedup node (`dedup/main.py`) | set of pending keys | filter, done, `_mark_seen` | PipelinedNode, store |
| EL node (`packages/tkati-node-el`) | none | transform, one `done()` per batch | PipelinedNode |
| dashboard: flows (`dashboard/flows.py`, `dataflow.py`) | none between requests; the graph while it merges it | resolve a flow, list, read, merge and validate its fragments | file system |
| dashboard: lookups (`dashboard/lag.py`, `snapshot.py`, `topic_stats.py`) | none between requests; the answer while it collects it | committed offsets, watermarks, tails, polls, configuration | Kafka, read only |
| dashboard: endpoints (`dashboard/app.py`) | none | graph, snapshot, consumer-lag, topic-stats | the two above |
| codec (`core/src/encode.rs`, `payloads.rs`) | none | JSON to Arrow and back | consumer, producer |

What is hard here, and what makes each part correct:

* **Delivery table and producer.** Reports arrive on another thread, in any
  order, during the enqueue, after a failure was already returned and its tag
  forgotten; an enqueue may be refused halfway. Correct: `in_flight` and every
  tag's count are exact at every moment, flush returns only with nothing out,
  `wait` says "delivered" only when all of it is, no call hangs.
* **Consumer and harness.** One offset stands for everything behind it, commits
  are asynchronous, a signal handler raises in the middle of a read, the exit
  may itself fail. Correct: what is committed is delivered; the order check
  never refuses the harness; a failed loop rewinds to exactly the first
  uncommitted message; a stop ends the process; everything is eventually
  committed if the process is restarted.
* **Consumer group.** A partition goes away and comes back while a read is under
  way and while batches of it are out, an old batch is committed afterwards, a
  commit is refused and nobody is told. Correct: the group as a whole commits
  only what some member has delivered, and no message is left that no member
  comes back to.
* **SyncNode.** The node's code may catch the error of `done()` and call it
  again under the same tag. Correct: reports of two attempts never mix.
* **PipelinedNode.** The commit comes events after `done()`. Correct: batches
  are committed in read order, each after its own delivery; at most
  `max_in_flight` of them wait; `after_commit` runs once each, in order.
* **Read-ahead.** Two threads share the consumer while one of them rewinds and
  closes it. Correct: no commit crosses a dropped read, the exit never waits
  for ever, errors and the end of input cross the queue in order.
* **Statistics.** Three threads, a lock taken by some of the writers only.
  Correct: nothing lost or counted twice over a reset, totals monotonic.
* **ClickHouse producer.** An insert that failed for the client may have landed,
  all of it or a part, or land later; a rejected one may have left rows behind;
  the DLQ hears of its rows after the call has gone on. Correct: a row lands once
  per call, but for one that a rejected chunk had written before it was split;
  the DLQ gets only rejected rows, a call that returns has placed every row.
* **Dedup.** Keys of undelivered rows must never be remembered over a crash,
  and those of rows in flight must be remembered at once. Correct: no event is
  lost, dedup is exact in flight, the window is what it should be.
* **Dashboard.** It reads files that are being edited and a topic that moves, one
  call after another, with no lock and no snapshot. Correct: an undisturbed
  request is answered exactly, a disturbed one with a sound graph of what its
  files have held meanwhile, a lag that hides nothing, or an error; and every
  request ends.

## 2. Modules

    Deliveries        the delivery table's state and operations
      NodeBase        consumer, harness, broker, signals, crashes, restarts
        SyncNode        done() that waits
        PipelinedNode   done() that does not, settling, hooks
          SyncNodeProofs       invariant and refinement of SyncNode
          PipelinedNodeProofs  invariant and refinement of PipelinedNode
      KafkaProducer   one producer's calls, message by message
    AtLeastOnce       the contract both node classes, the group and dedup implement
    ConsumerGroup     the members' consumers, partitions, and the coordinator
      ConsumerGroupProofs  its invariant and refinement
    ReadAhead         reader thread, loop thread and consumer
      ReadAheadProofs   its invariant
    LoopStats         three threads on the statistics object
    SharedObjectsProofs  invariants of KafkaProducer and of LoopStats
    ClickhouseProducer  one batch through produce_arrow, calls repeated
      ClickhouseProducerProofs  its invariant
    DedupStore        the bucketed store
      DedupNode         the dedup worker over the store
        DedupNodeProofs   its invariant
    Dataflow          a flow's directory, found, read and merged
      TopicLookup       lag, snapshot and topic statistics of a live topic
        Dashboard         the endpoints over both
          DashboardProofs   its invariants

`MC*` modules are the instances for TLC. How the models read:

* **Time of a step.** An action is the code between two points where another
  thread, the broker or a signal can come in between. `Deliveries` operations
  hold the mutex, so each is one step. Handing a batch to librdkafka is one
  step in `NodeBase` (nothing of the loop can be observed inside the native
  call) and one step per message in `KafkaProducer`, which shows that counting
  up front and cancelling the rest keeps the table exact meanwhile.
* **`pc`** is where the loop's thread is: `event` (in the node's code, before
  the next event request), `settle`/`commit`/`hook` (in `_settle`), `read`,
  `body` (the node holds a batch), `send` (inside the producer), `exit`,
  `rewind`, `close` (in `__exit__`), `closed`, `down` (killed).
* **A batch** is `[seq, first, next, rows]`: the consumer's number, its offsets
  and the number of messages its output has. Its tag is `seq + 1`, as
  `KafkaBatch` numbers them.
* **Messages** are offsets. `delivered` holds the offsets whose whole output the
  broker has; it is a history variable, no code keeps it. `sent[t]` is what
  librdkafka still holds under tag `t`.
* **Malformed messages** make the whole read fail (`arrow`) or are dropped with
  a log line (`pylist`); a batch of which nothing is left has no number.
* **A crash** loses everything but the broker's offset and output; a commit on
  its way may be lost with it. A **restart** starts over from that offset.
* **`faults`** counts failures, signals and crashes, so that `MaxFaults` bounds
  how many a behaviour holds; every failure the models allow is listed with it.

`SyncNode` and `PipelinedNode` extend `NodeBase` and add `done()`'s second
half. `AtLeastOnce` sees only `committed` and `delivered`; both nodes are shown
to implement it (`KeepsPromise`), and so is `DedupNode`, for which a row counts as
delivered once a row of its key is.

`ConsumerGroup` looks at the same contract from the side of the topic: several
partitions, several members, and a batch with a range of offsets in each
partition it read from (`kafka.rs`, `Offsets`). What a node does between read
and commit is one flag of the batch, `delivered`. `position` is the owner's
fetch position; a partition that is assigned starts from the committed offset.
A member's view of its assignment and the coordinator's change together, and a
commit on its way is dropped when the partition is assigned anew, as the
coordinator refuses it then; one commit per partition is on its way at a time,
the latest. The committed offset may go *back* when a batch from before a
rebalance is committed late, so `AtLeastOnce` is implemented with the furthest
offset ever committed (`furthest`), and `CommittedIsDelivered` speaks of the
offset itself.

`Dataflow`, `TopicLookup` and `Dashboard` are one request after another: requests
share nothing. A file is read in one step and holds a fragment or what does not
parse; a fragment is the nodes, the single node and the edges it declares, a
node's definition is what the merge compares and the endpoints look at. An editor
that writes in place leaves other contents on the way: an empty file, which the
code reads as `{}` (`NoGraph`; `dataflow.py:77-78`), a part that parses
(`MCDashboard!Unwired`), or one that does not (`Broken`). The loader cannot tell a
part from a whole file and serves it, and so does the model. The topic is one
sequence, in the order the broker took the messages in, each with a timestamp
(`stamp`), which is the broker's, the producer's or none, and need not rise; each
call to the broker is a step.

`ReadAhead` replaces `done()` by a single commit, as the reader cannot tell the
difference: the consumer is shared only through its lock, the numbering and the
fetch position. In return it has the reader's poll, parse, numbering and
hand-over as steps of their own, the loop's take and the check after it, and
the exit's stop, join, seek and close. `NodeCatches` is a node that catches the
error of a failed read and calls `consume_*()` again, which keeps the reader that
has ended (`node.py:380`). `stopWhenIdle` is chosen at the start, and an empty poll
carries how far the reader had read when it came back (`PollEmpty`): the loop sees
it later, with the reader further on.

`LoopStats` splits every unlocked read-modify-write into its read and its write
(`RecordGet`, `RecordSet`; `CountIn`, `CountOut`), and the three-part fold under
the lock. `ClickhouseProducer` keeps the recursion as a work list of chunks
with the tokens the code derives for them. `table` has the rows that landed, each
with the chunk it came in. The server writes an insert's rows in order and may
stop on the way, at a bad row or because it fails, and what it has written stays
(`Written`): so a rejected parent may be there in part when its children are
inserted. It ignores rows it has, by the insert's token and their place in it
(`Known`), and may get to a given-up insert at any later time (`LandLate`). `dlq` is the
list of rows handed over, each with what its producer has heard of it
(`ReportDlq`); a ClickHouse DLQ is one that hears at once. `split_factor` is any
of `SplitFactors`, 0 and 1 included, and `MaxDepth` is the interpreter's recursion
limit, which only a factor of 1 reaches (`SplitFails`). `DedupNode`
takes PipelinedNode's guarantee (oldest first, commit after delivery, hook after
commit), and models what dedup adds.

## 3. What TLC checks

Two workers, and a few minutes each at most. The numbers are the bounds of the
cfg files; what they leave unvisited is said with each.

| run | shows | bounds |
|---|---|---|
| `pipelined_node` | the pipelined node never commits what is not delivered, never has its commits or rewinds refused, holds back the node's code at the limit, runs hooks once and in order, rewinds to the right message, and implements `AtLeastOnce`; a stop ends the process and the input ends up committed | 4 messages in batches of up to 2, up to 2 output messages each, offset 1 malformed in `pylist` so that it is dropped alone or out of a batch, 2 in flight, 2 faults: a failed delivery behind a delivered one and the crash of the restart, or a signal in the drain of a failure |
| `sync_node` | the same contract for SyncNode whose node catches errors and retries; nothing is out when a batch is read; everything in front of a message that never decodes is committed | 4 messages in `arrow`, the last one malformed, up to 2 output messages a batch, so that a partly sent batch is retried under its own tag, `stop_when_idle`, 2 faults |
| `kafka_producer` | the delivery table is exact and every call returns | 3 messages over 2 tags and "untracked", a queue of 2, so that an enqueue blocks; every report may fail |
| `read_ahead` | the reader and the exit never lose, repeat or reorder a batch, an empty poll comes after all that was read before it, the exit completes, and a failed read is raised | 6 messages in batches of up to 2, a queue of 2 so that the reader blocks with batches queued, 3 faults (a failed read, a join that times out, both signals), with and without `stop_when_idle`, a node that catches the failed read |
| `loop_stats` | a reset that races `record()` or a scrape loses nothing | 2 batches of 2 rows in and 1 out, 2 phases recorded, 2 reports, 2 scrapes |
| `clickhouse` | retries and the split put each row in place, a good one once per call but for a chunk rejected half written, and every call that can end does | 5 rows, which a factor of 2 splits unevenly and one of 3 into single rows, bad ones in the middle and at the end, split factors 0 to 3, 3 attempts, 3 faults (inserts failed or rejected with rows written, refused and lost DLQ rows), 4 calls, a recursion limit of 6 |
| `dedup_node` | nothing lost, dedup exact in flight and over restarts, and `AtLeastOnce` implemented | 5 rows of two keys and one without, buckets of 1 tick, a window of 2, time up to 2, one fault, one stop |
| `consumer_group` | nothing undelivered is committed by anybody, the group implements `AtLeastOnce`, every message is delivered and committed | 2 members, a partition of 2 messages and one of 1, batches of up to 2 and 2 of them outstanding, so that one batch spans both partitions and one partition two batches; one rebalance of a living member at any point and one rewind or ended process: the partition may go to the other member or come back with the batch still out |
| `dashboard` | undisturbed requests are answered exactly, disturbed ones with what the files have held or an error, all end | 2 files in 2 directories, eight fragments (good ones in both forms, one for each error, an empty file, a part of a good one), among the disks one with a node in both forms, a topic of 2 partitions and 4 messages whose timestamps rise along the partitions and not along the topic, 1 of them read by the group, a limit of 2 so that the tails overlap the answer, 2 changes of files, topic, group or broker at any step |

Three runs end in a violation on purpose; they show where the code differs from
what its own text says:

* `pipelined_swallow`: a PipelinedNode whose code catches the `DeliveryError` of
  `done()` and goes on has the undelivered batch committed at the next look,
  because `wait` forgets a failed tag and a forgotten tag counts as delivered.
  SyncNode is not affected (`sync_node` runs with such a node).
* `dedup_window`: the window is between `window_hours - bucket_hours` and
  `window_hours`, not `window_hours` and more.
* `dlq_lost`: a bad row that the broker of a Kafka DLQ loses is in neither table
  nor DLQ, and the call returns all the same: the rows have no tag, and `flush`
  waits for reports without looking at them. The core README calls the DLQ
  at-least-once; the repository's own audit (F2) has the case as open.

A fourth disagreement is part of a run that passes. `QuietIsExact` (`dashboard`)
takes a flow to mean what `docs/dataflow-serialization.md` says its files mean,
where the single form of a node is the same as its entry under `nodes`
(170-171) and a node may be repeated with an equivalent definition (259); by that,
a node given in both forms makes a dataflow like any other. The code keeps the
single form's `id` in its definition (`dataflow.py:147-153`), so that the two never
compare equal (107), and the property says what it answers then: 422.

Other places where the text and the code part, met while modelling and not run:
a rewind drops every outstanding batch but seeks only the partitions of the oldest
(`kafka/consumer.py:313` and `kafka.rs:303-305`, against `consumer.py:306-308` and
`2026-09-26-explicit-batch-commit.md:81-83`), so of a later batch with another
partition the consumer reads nothing again; nothing is lost, since every node
closes after a rewind and the next owner starts at the committed offset, but a
consumer used further, as the docstring invites, would commit over it;
`dlq_split_factor` may be 1, which splits a rejected chunk into itself until the
interpreter gives up, or 0, which divides by zero, and the batch then fails at
every restart (`clickhouse/settings.py:23`; `SplitFails`, and the condition of
`BatchIsPlaced`), while the README of node-el has the split go on until single
rows are reached;
with `stop_when_idle`, a poll in which nothing decodes reads as "no more input"
and ends the run with the rest unread (`node.py:517-521` against `:176-178`); a
scrape may come between the rows in and the rows out of one batch
(`node.py:614`, though the perf lines are exact: `LoggedRowsAreExact`); what
pydantic refuses in a
fragment, and a broker that stops answering between two calls, is answered with
500 rather than 422 or 502 (`Dataflow!Invalid`, `Dashboard!LookFails` have them
as the code does); and the snapshot
sorts by a timestamp that may be the producer's or missing (`snapshot.py:82-84`,
`97-105`), so it shows the last messages of each partition, and of these the
latest, which are the topic's latest only if the timestamps rise along each
partition (`Chronological`); on a topic that is written meanwhile, those of the
moment its watermarks were read.

**Fairness.** `FairSpec` of each module gives weak fairness to the loop's
thread (Python runs it), to librdkafka's reports (`message.timeout.ms` bounds
how long it holds a message), to the commits (librdkafka sends them in the
background), to the supervisor's restart (the deployment restarts an ended
worker), to the reader thread (a poll ends within its timeout) and to a call in
progress of a producer. Two actions are strongly fair. `Fetch`: an empty poll
may come at any time, also with messages in the topic, and a loop of empty polls
disables the read again and again; that messages which are there arrive at last
is Kafka's part. SyncNode's `CommitLands`: the loop may end and be restarted
between a commit and its landing, over and over, but librdkafka waits for the
commits on their way when a consumer closes. `ConsumerGroup` has each member's
operations weakly fair on their own (a member's read, delivery and commit do not
wait for one another), a member gone taken out of the group, partitions
assigned, ended processes restarted. `Dashboard` has the server's thread, and the
deadline of a poll loop, which the clock brings. None is given to failures,
signals, crashes, rebalances, edits, or to a server that was left with an insert.
`EverythingCommitted` and `AllDelivered` need the failures to end, which
`MaxFaults` and `MaxRebalances` say; a node that fails for ever never commits.

**Deadlock** is checked where the program never ends (`pipelined_*`,
`sync_node`, `dedup_node`: a closed process is restarted; `dashboard`: the next
request comes) or says it has ended (`read_ahead`). `kafka_producer`,
`loop_stats`, `clickhouse` and `consumer_group` stop when their bounded work is
done, the group with everything read and committed, so their cfgs say
`CHECK_DEADLOCK FALSE`; that no call hangs, and that the group gets that far, are
liveness properties there.

**Mutants.** Next to the definitions they change stand operators commented
"Mutation of ...": a plausible slip of the code each (a dropped check, an
off-by-one, a swapped order). Every property is violated by one of them.

## 4. What is proved

TLAPS checks the proofs for every value of the constants that meets the
assumptions; TLC evaluates the assumptions in the runs.

| module | theorems | of |
|---|---|---|
| `SyncNodeProofs` | `TypeCorrect`, `CommittedSafe`, `ReadsWithNothingOut`, `NeverRefused`, `Refinement` | SyncNode, whatever its node's code catches |
| `PipelinedNodeProofs` | `TypeCorrect`, `CommittedSafe`, `Bounded`, `HooksInOrder`, `NeverRefused`, `RewindsExact`, `Refinement` | PipelinedNode under `~NodeSwallows` |
| `ConsumerGroupProofs` | `GroupTypes`, `GroupCommitsDelivered`, `GroupKeepsPromise` | any number of members, partitions and rebalances |
| `SharedObjectsProofs` | `TableIsExact`, `FlushWaitsForAll`, `TrueIsDelivered` | KafkaProducer: any messages, tags and size of librdkafka's queue |
| | `StatsTypes`, `CountsAreExact`, `ScrapesAreCurrent`, `LogIsExact` | LoopStats: any number of batches, records, reports and scrapes |
| `ReadAheadProofs` | `CommitsWithoutGap`, `NothingLost` | any input, batch size and queue |
| `ClickhouseProducerProofs` | `ProducerTypes`, `RowsLandOnceUnlessSplit`, `DlqGetsBadRows`, `ReturnsPlaced` | any batch, any rows rejected, any split factors |
| `DedupNodeProofs` | `NoneLost`, `StoreKnowsDelivered`, `PendingExact`, `DedupExact`, `DedupKeepsPromise` | any input, keys, window and number in flight |
| `DashboardProofs` | `RequestTypesHold`, `GraphsAreOfHeldFiles`, `LagHidesNothing`, `QuietRequestsAreExact` | any files, topic and changes around a request |

**Assumptions.** `NodeConstants` (a batch size above 0, a finite log, a tag for
every possible batch), `MaxInFlightAssumption` (`max_in_flight` is at least 1,
as the code checks), `GroupConstants`, `ProducerConstants` (finitely many messages), `StatsConstants`, `ReadAheadConstants`,
`ClickhouseConstants`, `DedupNode`'s `NodeConstants` with the store's
`StoreConstants` (sizes and bounds are natural numbers), the dashboard's
`FlowConstants` (a flow's name is given for one directory at most, as `main.py`
checks), `FragmentsAreGraphs` (a fragment's edges are a list, an empty
file is one, the `id` of a single node is no part of its definition),
`TopicConstants` (finitely many partitions, timestamps are integers), `DashboardConstants` (the four endpoints) and
`DistinctValues` (a missing file, a broken one and a fragment are told apart), and that `None` is neither
a batch nor a table entry nor an item of the read-ahead queue nor a time. Faults, signals, crashes and restarts may come anywhere and any
number of times. `~NodeSwallows` says that the error of `done()` ends the loop;
without it `CommittedSafe` is false of PipelinedNode, as `pipelined_swallow`
shows.

**The nodes.** `CommittedIsDelivered` is not inductive: a commit keeps it only
if the batch is delivered and nothing was left out in front of it. `IInv` of
both modules says how the code knows:

* *the batches join* (`QueueInv`, `BatchInv`): from the offset last asked to be
  committed, through the finished batches and the one in hand, to the fetch
  position, each batch begins where the one before ends, or behind messages
  that were dropped; and their numbers run on from `_oldest_outstanding`. This
  gives `OrderNeverRefused` and `RewindsToUncommitted` too;
* *the table agrees with librdkafka* (`TableInv`; `DeliveryInv` for SyncNode):
  what the table counts for a tag is what librdkafka still holds for it, plus
  what is just being handed over, and a tag is not in the table before its
  batch is produced;
* *what the table says is so* (`ArrivalInv`): a finished batch whose tag is not
  in the table is delivered, and if the table has all reports and no failure,
  it is delivered too.

The last two hold only until something fails. A wait that fails takes its tag
out of the table, after which an absent tag means nothing. That is harmless
because a failed loop never settles again (`Settles`), and it is what goes wrong
in `pipelined_swallow`. In SyncNode the loop goes on after a failure, but no
batch can be committed before its own retry has been flushed: its invariant says
that only the batch in hand has messages out at all.

`Refinement` needs `IInv` only at `CommitLands`: the offset that reaches the
broker lies behind what is delivered. All other steps leave the committed offset
alone and only add to `delivered`.

The lemmas on the delivery table's operations, one for each (`AddEffect`,
`SettleEffect`, `ForgetEffect`), stand at the head of each of the three modules
that cite them: the two node classes', and `SharedObjectsProofs`.

**The Kafka producer.** `CountsExact` is a statement about how many messages are
out, and every step moves some. `TableInv` adds what makes the counting right. A
message the table counts is in exactly one of `queue` and `unsent`, since only
what was never sent is sent (`SentIsOut`), and all of `unsent` goes under the tag
of the call (`UnsentIsTheCalls`), so that a cancelled rest takes back exactly its
own number. A tag new to the table has nothing out. For `TrueMeansDelivered`,
every message of a tag's round is one the table knows the tag for, and a lost one
has left its mark (`RoundIsTagged`); with nothing of the tag out and no mark, all
are delivered. The counts are cardinalities: each step moves a set of messages
from one disjoint part to another (`DisjointUnion`). `FlushIsComplete` is
`in_flight = 0` read through `InFlightExact`.

**The group.** A batch is committed whole, whoever owned its partitions when,
and its range may have gone backwards in the middle of a read. What makes that
safe is an invariant on every member's batches, also of partitions the member
has lost since. Call an offset *held* by a member if everything behind it is
delivered or in one of its batches, up to and including the one in question.
`GroupInv` says that the fetch position of each partition is held by its owner;
that the end of a batch's range, in each partition the batch read from, is held
by the batches up to it; and that committed and requested offsets have
everything behind them delivered. A poll extends the batch and the position
together; a rebalance puts the position at the committed offset, which needs
nobody's batches; a commit turns the oldest batch's "held" into "delivered"; a
rewind drops batches and so takes their support from the positions it does not
seek: hence the member must leave, whose positions nobody uses.

**The statistics.** `IInv` says which thread holds the lock at which point, that
a sum read under the lock is still the sum when it is written, what a fold has
moved so far (`FoldInv`), and that every value a scrape has read lies between
what had been counted when it began and what is counted now (`ScrapeInv`). The
fold and the counters outside the lock meet only on the loop's own thread, which
is why the unlocked writes are safe.

**The read-ahead.** A commit turns on whether the next batch begins where the
committed one ended, and the batches read are with three owners. `LineInv` puts
them in a line: the one in the loop's hand, those in the queue, the one in the
reader's hand. Numbers rise along the line, and a batch begins where the one of
the number before it ended; while the loop works no batch read and not committed
is missing from it (`LineComplete`), so the one to be committed is always the
next; and as long as no read was lost, the last batch ends at the fetch position
(`Reading`), which at the end of the input is the end of the log. An empty poll in
the queue stands between the batches it came between (`IdleHolds`), so that a run
it ends has committed what was there. A failed read
or the end stands last in the queue, with the reader ended. The exit may seek
because by then the reader has ended and the queue is empty, and nothing is
committed behind it.

**The ClickHouse producer.** That a row lands once per call depends on every
token derived so far. `FrontierInv` describes the descent as a frontier: the
chunks still to insert lie one behind the other (`WorkInv`). What the server has
been sent, landed or given up, is pairwise *apart*: one chunk lies before the
other, or was rejected and split into it (`SentInv`); and so it is against the
frontier, the chunk at its head excepted, whose own retries repeat its token
(`FrontInv`). Chunks that are apart have different tokens, so the server never
takes a row for another's, and a row it ignores is there already. Two chunks with
a row in common are therefore a rejected one and its part, which is the exception
`OnceUnlessSplit` makes. A row is in the table, in the DLQ, or still on the
frontier (`PlacedInv`); a call returns when the frontier is empty and the DLQ has
reported.

**The dedup node.** `NoEventLost` speaks of committed rows, but a row is dropped
long before that, for another one that may not be delivered yet. `FlightInv`
keeps the reason of each drop: the row's key is one of its own batch, of a batch
in front of it in the queue, or of a delivered row. Batches leave the queue from
the front, and only delivered, so the reason turns from "in flight" to
"delivered" before the row can be committed. That the reason is always there is
`PendingExact` (what `pending` names is in the queue) and `StoreKnowsDelivered`
(what the store names is delivered); a failed write of the store only makes
duplicates. `DedupKeepsPromise` follows: with a row *placed* once it or a row of its
key is delivered, no step takes a placed row back, and only `CommitLands` moves
the broker's offset, up to what `NoEventLost` covers.

`DedupIsExact`, which is about runs without failures, needs a second invariant on
top of the first, `ExactInv`: every marked key is in the bucket of its last mark
or that bucket has left the window, no bucket holds a key that was not marked in
it or later, all buckets on disk are open, and those open at a lookup were inside
the window when they were cleaned for it. The bounds in ticks then are arithmetic
on bucket numbers (`WindowSpan`), which is where the bucket's width comes off the
window at one end only.

**The dashboard.** Two invariants, as its properties are of two kinds. What holds
whatever happens around a request is `ServedInv`. A graph is merged from files
read at different moments, so there need be no moment at which the disk held it;
`GraphInv` names instead a version of each file, seen since the request came,
whose union the merge is so far (`VersionOf`, `Merged`), and an edit only adds to
what has been seen. For the lag, `LagInv` counts the messages behind the offsets
that are still there in the partitions already asked (`Hidden`): production adds
none, since they were there when the offsets were fetched, retention takes some
away, and asking a partition adds to the total all it has from the group's offset
on (`TailCount`). What holds of a request that nothing happens to is `QuietInv`:
the files read so far fit, an error is one they deserve, the unread messages of
the partitions asked are the total, and the messages polled are those of the
tails in front of the positions, so that as many as were waited for are all of
them (`PartIsSmaller`). The tails are the last messages of each partition
(`TailsAreTheLast`); that the latest of them are the latest of the topic, if the
timestamps are chronological, is `LatestOfTails`: behind a message in no tail lie
`limit` others of its own partition (`FullTail`). What the code accepts is compared
with what the files mean by `FormsExactly`: the two differ by the `id` of a single
node only, and in that a node in both forms is refused. The offsets of a partition are a bijection to a range
(`OffsetsRise`, `TailCount`), which is what the counts rest on.

**Model-checked only.** Liveness and fairness (`StopEnds`, `EverythingCommitted`,
`AllDelivered`, `ExitCompletes`, `FailureIsRaised`, `CallsReturn`,
`BatchIsPlaced`, `EveryRequestEnds`), which the prover does not reach.
Every other property of the passing runs is a theorem. A topic of the dashboard
has partitions, as Kafka's do; for one without any `lag.py` answers at once, which
is left out.

## 5. What is not modelled, and why

* **The group and the node in one model.** `ConsumerGroup` abstracts a node to
  "delivers, then commits the oldest", which `PipelinedNode` and `SyncNode` are
  shown to do; the product of the two is out of TLC's reach. Cooperative
  rebalancing, static membership and offsets that expire are Kafka's, and not
  configured here.
* **A poison message and a PipelinedNode.** `read_arrow` raises at a message that
  does not decode, and does so after every restart. Safety is checked and proved
  with such messages in the log. That everything in front of one gets committed
  holds of SyncNode (`sync_node`); it is not claimed of PipelinedNode, because a
  failed loop does not drain: the reports of the batches in front may come too
  late every time, and those batches are then sent again on every restart.
* **A direct read whose error the node catches.** Without read-ahead a failed
  read has moved the fetch position and numbered nothing, so a node that caught
  the error and consumed again would commit over what the read lost. No node of
  the repository does; `NodeSwallows` is about the errors of `done()` only.
* **The server's insert deduplication** is taken to be on and its window long
  enough: of an insert whose token it knows it writes only the rows it does not
  have, told by their place. It is the server's, and the producer relies on it.
  Inserts are *not* taken to be atomic: an insert may be written in part before it
  fails or is rejected, as `core/README.md:486-490` and
  `design-docs/2026-10-28-clickhouse-insert-deduplication.md:43-44` say, and the
  rows it leaves may be in the table a second time with a child of it.
* **Dropped messages and read-ahead.** Messages that `pylist` drops leave gaps between
  batches; `NodeBase` has them, `ReadAhead` has messages that decode or fail their
  read. `consume_*()` of the other format over a read-ahead is refused by the code.
* **Nodes without a producer**: their batches have no output (`rows = 0`), which
  the models do have; the checks of a missing topic are configuration.
* **The dashboard's** list of flows, static page and command line; how it parses
  and shows a message. **The codec** is data conversion: what its failure does to a batch is in
  `NodeBase`. **Settings** are the constants.
* **Wording, timing and tuning**: log lines, poll timeouts, backoff times,
  RocksDB options.

## 6. Plan

Done, in this order: `Deliveries`, `NodeBase`, `AtLeastOnce`, `PipelinedNode`,
`SyncNode`, `KafkaProducer`, `ReadAhead`, `LoopStats`, `ClickhouseProducer`,
`DedupStore`, `DedupNode`; proofs of `SyncNode`, `LoopStats`, `PipelinedNode`;
`ConsumerGroup` and its proofs, a failed reader consumed again in `ReadAhead`,
`Dataflow`, `TopicLookup`, `Dashboard`; the DLQ's reports and every split factor in
`ClickhouseProducer`; proofs of `ReadAhead`, `ClickhouseProducer` and `DedupNode`;
`stop_when_idle` over a read-ahead; proofs of `KafkaProducer`, of `DedupIsExact`
and of `Dashboard`.

Next: an abstract specification of a reader that `ReadAhead` and the direct read
of `NodeBase` both implement, so that the two are joined by a theorem and not by
the text above; the same for what `DedupNode` takes from `PipelinedNode`; and
shorter proofs where lemmas of several modules say the same.
