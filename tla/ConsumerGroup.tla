---------------------------- MODULE ConsumerGroup ----------------------------
(***************************************************************************)
(* The members of one consumer group, each a node with the KafkaConsumer   *)
(* of tkati_core/kafka/consumer.py and src/kafka.rs, and the broker that   *)
(* hands partitions out and keeps the committed offsets.                   *)
(*                                                                         *)
(* A batch holds messages of several partitions and, per partition, the    *)
(* range (first offset, last offset + 1) that commit and rewind work with. *)
(* A partition may be taken from a member and given to another, or back to *)
(* the same one, at any time: in the middle of a poll, or with batches of  *)
(* it read and not yet committed.                                          *)
(*                                                                         *)
(* `outstanding[m]` are the batches numbered _oldest_outstanding up to     *)
(* _next_seq, oldest first; NodeBase has the numbering itself.             *)
(***************************************************************************)
EXTENDS Integers, Sequences, FiniteSets

CONSTANTS
    None,
    Member,          \* the processes of the group
    Partition,       \* of the input topic
    Watched,         \* the partition KeepsPromise looks at: any one of them
    LogEnd,          \* per partition, its messages: at offsets 0..LogEnd[p]-1
    BatchSize,       \* num_messages of a read
    MaxOutstanding,  \* batches read and not committed: max_in_flight, read_ahead
    MaxRebalances,   \* bound: partitions taken from a living member
    MaxFaults        \* bound: rewinds and processes that end

ASSUME GroupConstants ==
    /\ Watched \in Partition
    /\ LogEnd \in [Partition -> Nat]
    /\ BatchSize \in Nat \ {0}
    /\ MaxOutstanding \in Nat \ {0}
    /\ MaxRebalances \in Nat
    /\ MaxFaults \in Nat
    /\ None \notin Member
    /\ None \notin Nat
    /\ None \notin [first : Nat, next : Nat]

VARIABLES
    owner,        \* who each partition is assigned to
    requested,    \* a commit on its way to the broker, None if there is none
    committed,    \* the offset the broker holds for the group
    furthest,     \* history: the highest offset it has ever held
    position,     \* the owner's fetch position
    polled,       \* the batch each member is polling
    outstanding,  \* the batches each member has read and not committed
    phase,        \* a member's process: "up", "rewound" or "down"
    delivered,    \* messages whose output has been delivered, by anyone
    rebalances,
    faults

brokerVars == <<owner, requested, committed, furthest>>
memberVars == <<position, polled, outstanding, phase>>
bounds     == <<rebalances, faults>>
vars       == <<brokerVars, memberVars, delivered, bounds>>

Message == UNION {{p} \X (0 .. (LogEnd[p] - 1)) : p \in Partition}

\* A batch's range in one partition: its first offset, its last offset + 1.
Span     == [first : Nat, next : Nat]
Batch    == [offsets : [Partition -> Span \cup {None}],
             messages : SUBSET Message,
             delivered : BOOLEAN]
NewBatch == [offsets |-> [p \in Partition |-> None],
             messages |-> {},
             delivered |-> FALSE]

Init ==
    /\ owner = [p \in Partition |-> None]
    /\ requested = [p \in Partition |-> None]
    /\ committed = [p \in Partition |-> 0]
    /\ furthest = [p \in Partition |-> 0]
    /\ position = [p \in Partition |-> 0]
    /\ polled = [m \in Member |-> NewBatch]
    /\ outstanding = [m \in Member |-> <<>>]
    /\ phase = [m \in Member |-> "up"]
    /\ delivered = {}
    /\ rebalances = 0
    /\ faults = 0

Fault == faults < MaxFaults /\ faults' = faults + 1

-----------------------------------------------------------------------------
(***************************************************************************)
(* Reading.                                                                *)
(***************************************************************************)

\* record_offset: the first offset recorded is the batch's start, the last one
\* recorded its end, whichever is the larger.
RecordOffset(offsets, p, o) ==
    [offsets EXCEPT ![p] =
        [first |-> IF @ = None THEN o ELSE @.first, next |-> o + 1]]

\* poll_step hands over one message of an assigned partition.
Poll(m, p) ==
    /\ phase[m] = "up"
    /\ owner[p] = m
    /\ position[p] < LogEnd[p]
    /\ Len(outstanding[m]) < MaxOutstanding
    /\ Cardinality(polled[m].messages) < BatchSize
    /\ polled' = [polled EXCEPT ![m] =
            [offsets |-> RecordOffset(@.offsets, p, position[p]),
             messages |-> @.messages \cup {<<p, position[p]>>},
             delivered |-> FALSE]]
    /\ position' = [position EXCEPT ![p] = @ + 1]
    /\ UNCHANGED <<brokerVars, outstanding, phase, delivered, bounds>>

\* The read returns, at its deadline or with the batch full, and numbers it.
ReadEnds(m) ==
    /\ phase[m] = "up"
    /\ polled[m].messages # {}
    /\ outstanding' = [outstanding EXCEPT ![m] = Append(@, polled[m])]
    /\ polled' = [polled EXCEPT ![m] = NewBatch]
    /\ UNCHANGED <<brokerVars, position, phase, delivered, bounds>>

\* The output of one batch arrives, in whatever order.
Deliver(m, i) ==
    /\ phase[m] = "up"
    /\ i \in DOMAIN outstanding[m]
    /\ ~outstanding[m][i].delivered
    /\ outstanding' = [outstanding EXCEPT ![m][i].delivered = TRUE]
    /\ delivered' = delivered \cup outstanding[m][i].messages
    /\ UNCHANGED <<brokerVars, position, polled, phase, bounds>>

-----------------------------------------------------------------------------
(***************************************************************************)
(* Committing and rewinding, the oldest outstanding batch.                 *)
(***************************************************************************)

\* assigned(): the partitions of a batch that are still this member's.
Assigned(m, offsets) == {p \in Partition : offsets[p] # None /\ owner[p] = m}

\* Mutation of Commit: commits where the fetching has got to.
CommitPosition(m) ==
    /\ phase[m] = "up"
    /\ outstanding[m] # <<>>
    /\ LET b == Head(outstanding[m])
       IN  /\ b.delivered
           /\ requested' = [p \in Partition |->
                    IF p \in Assigned(m, b.offsets) THEN position[p] ELSE requested[p]]
    /\ outstanding' = [outstanding EXCEPT ![m] = Tail(@)]
    /\ UNCHANGED <<owner, committed, furthest, position, polled, phase,
                   delivered, bounds>>

\* Mutation of Commit: of any batch that is delivered, not the oldest only.
CommitAny(m) ==
    /\ phase[m] = "up"
    /\ \E i \in DOMAIN outstanding[m] :
        LET b == outstanding[m][i]
        IN  /\ b.delivered
            /\ requested' = [p \in Partition |->
                     IF p \in Assigned(m, b.offsets) THEN b.offsets[p].next
                     ELSE requested[p]]
            /\ outstanding' = [outstanding EXCEPT ![m] = SubSeq(@, 1, i - 1) \o SubSeq(@, i + 1, Len(@))]
    /\ UNCHANGED <<owner, committed, furthest, position, polled, phase,
                   delivered, bounds>>

\* Mutation of Commit: nothing is committed once one partition is lost.
CommitAllOrNothing(m) ==
    /\ phase[m] = "up"
    /\ outstanding[m] # <<>>
    /\ LET b == Head(outstanding[m])
       IN  /\ b.delivered
           /\ requested' = [p \in Partition |->
                    IF /\ p \in Assigned(m, b.offsets)
                       /\ \A q \in Partition : b.offsets[q] # None => owner[q] = m
                    THEN b.offsets[p].next
                    ELSE requested[p]]
    /\ outstanding' = [outstanding EXCEPT ![m] = Tail(@)]
    /\ UNCHANGED <<owner, committed, furthest, position, polled, phase,
                   delivered, bounds>>

\* Asynchronous: the commit is on its way when the call returns.
Commit(m) ==
    /\ phase[m] = "up"
    /\ outstanding[m] # <<>>
    /\ LET b == Head(outstanding[m])
       IN  /\ b.delivered
           /\ requested' = [p \in Partition |->
                    IF p \in Assigned(m, b.offsets) THEN b.offsets[p].next
                    ELSE requested[p]]
    /\ outstanding' = [outstanding EXCEPT ![m] = Tail(@)]
    /\ UNCHANGED <<owner, committed, furthest, position, polled, phase,
                   delivered, bounds>>

\* Something failed: each partition is sought back to the start of its range,
\* and every outstanding batch is dropped, also one of partitions that are not
\* sought.  What a node does next is close.
Rewind(m) ==
    /\ phase[m] = "up"
    /\ outstanding[m] # <<>>
    /\ Fault
    /\ LET b == Head(outstanding[m])
       IN  position' = [p \in Partition |->
                    IF p \in Assigned(m, b.offsets) THEN b.offsets[p].first
                    ELSE position[p]]
    /\ outstanding' = [outstanding EXCEPT ![m] = <<>>]
    /\ polled' = [polled EXCEPT ![m] = NewBatch]
    /\ phase' = [phase EXCEPT ![m] = "rewound"]
    /\ UNCHANGED <<brokerVars, delivered, rebalances>>

\* The process ends: closed by the harness, or killed.  What it had read and
\* not committed is forgotten; a commit on its way may still land.
Leave(m) ==
    /\ \/ phase[m] = "rewound" /\ UNCHANGED faults
       \/ phase[m] = "up" /\ Fault
    /\ phase' = [phase EXCEPT ![m] = "down"]
    /\ outstanding' = [outstanding EXCEPT ![m] = <<>>]
    /\ polled' = [polled EXCEPT ![m] = NewBatch]
    /\ UNCHANGED <<brokerVars, position, delivered, rebalances>>

-----------------------------------------------------------------------------
(***************************************************************************)
(* The group, at the broker.                                               *)
(***************************************************************************)

\* A partition is taken away, from a member that left or in a rebalance.
Revoke(p) ==
    /\ owner[p] # None
    /\ IF phase[owner[p]] = "up"
       THEN rebalances < MaxRebalances /\ rebalances' = rebalances + 1
       ELSE UNCHANGED rebalances
    /\ owner' = [owner EXCEPT ![p] = None]
    /\ UNCHANGED <<requested, committed, furthest, memberVars, delivered, faults>>

\* It is given to a member, the one that had it or another, which fetches from
\* the committed offset.  Commits of the generation before are refused.
Assign(p, m) ==
    /\ owner[p] = None
    /\ phase[m] = "up"
    /\ owner' = [owner EXCEPT ![p] = m]
    /\ position' = [position EXCEPT ![p] = committed[p]]
    /\ requested' = [requested EXCEPT ![p] = None]
    /\ UNCHANGED <<committed, furthest, polled, outstanding, phase, delivered,
                   bounds>>

CommitLands(p) ==
    /\ requested[p] # None
    /\ committed' = [committed EXCEPT ![p] = requested[p]]
    /\ furthest' = [furthest EXCEPT ![p] = IF requested[p] > @ THEN requested[p] ELSE @]
    /\ requested' = [requested EXCEPT ![p] = None]
    /\ UNCHANGED <<owner, memberVars, delivered, bounds>>

\* The process starts again and joins as a new member.
Join(m) ==
    /\ phase[m] = "down"
    /\ \A p \in Partition : owner[p] # m
    /\ phase' = [phase EXCEPT ![m] = "up"]
    /\ UNCHANGED <<brokerVars, position, polled, outstanding, delivered, bounds>>

-----------------------------------------------------------------------------
Working(m) ==
    \/ \E p \in Partition : Poll(m, p)
    \/ ReadEnds(m)
    \/ \E i \in 1..MaxOutstanding : Deliver(m, i)
    \/ Commit(m)

Next ==
    \/ \E m \in Member : Working(m) \/ Rewind(m) \/ Leave(m) \/ Join(m)
    \/ \E p \in Partition : Revoke(p) \/ CommitLands(p)
    \/ \E p \in Partition, m \in Member : Assign(p, m)

Spec == Init /\ [][Next]_vars

\* A member works on, a partition whose owner is gone is taken from it, the
\* group hands out every partition it holds, and processes are restarted.
FairSpec ==
    /\ Spec
    /\ \A m \in Member :
        /\ WF_vars(\E p \in Partition : Poll(m, p))
        /\ WF_vars(ReadEnds(m))
        /\ WF_vars(\E i \in 1..MaxOutstanding : Deliver(m, i))
        /\ WF_vars(Commit(m))
        /\ WF_vars(phase[m] = "rewound" /\ Leave(m))
        /\ WF_vars(Join(m))
    /\ \A p \in Partition :
        /\ WF_vars(owner[p] # None /\ phase[owner[p]] = "down" /\ Revoke(p))
        /\ WF_vars(\E m \in Member : Assign(p, m))
        /\ WF_vars(CommitLands(p))

-----------------------------------------------------------------------------
TypeOK ==
    /\ owner \in [Partition -> Member \cup {None}]
    /\ requested \in [Partition -> Nat \cup {None}]
    /\ committed \in [Partition -> Nat]
    /\ furthest \in [Partition -> Nat]
    /\ position \in [Partition -> Nat]
    /\ polled \in [Member -> Batch]
    /\ outstanding \in [Member -> Seq(Batch)]
    /\ phase \in [Member -> {"up", "rewound", "down"}]
    /\ delivered \subseteq Message
    /\ rebalances \in Nat
    /\ faults \in Nat

Behind(p, c) == {p} \X (0 .. (c - 1))

\* No message of any partition is behind an offset committed, or on its way to
\* the broker, before its output is delivered: although the partitions of one
\* batch are taken and given back on their own, a read may go on across that
\* and record a range that goes backwards, and an old batch may be committed
\* when its partition has come back (kafka.rs record_offset, assigned, commit).
CommittedIsDelivered ==
    \A p \in Partition :
        /\ Behind(p, committed[p]) \subseteq delivered
        /\ requested[p] # None => Behind(p, requested[p]) \subseteq delivered

\* With processes restarted and partitions handed out again, every message is
\* read and committed by somebody: a commit that leaves a lost partition out,
\* or is refused, and a rewind that does not reach one, leave no message that
\* no member comes back to.  The committed offset itself may still go back
\* afterwards, when a batch from before a rebalance is committed late.
AllDelivered == <>[](\A p \in Partition : furthest[p] = LogEnd[p])

-----------------------------------------------------------------------------
\* The group keeps, of each partition, the promise a node makes of its input.
DeliveredOf(p) == {o \in 0 .. (LogEnd[p] - 1) : <<p, o>> \in delivered}

Promise == INSTANCE AtLeastOnce WITH
    committed <- furthest[Watched],
    delivered <- DeliveredOf(Watched),
    LogEnd <- LogEnd[Watched],
    Skipped <- {}
KeepsPromise == Promise!Spec

=============================================================================
