----------------------------- MODULE TopicLookup -----------------------------
(***************************************************************************)
(* tkati-dashboard's looks at a live topic: lag.py reads a group's         *)
(* committed offsets and then each partition's watermarks, snapshot.py     *)
(* each partition's watermarks and then the messages at the tails, and     *)
(* topic_stats.py the metadata and then the topic's configuration.  Every  *)
(* call to the broker is a step of its own, and between two of them nodes  *)
(* produce and commit, and retention deletes.                              *)
(*                                                                         *)
(* The topic is one sequence, in the order the broker took the messages    *)
(* in: log[i] is the partition of message i, and stamp[i] its timestamp,   *)
(* which may be the broker's clock, the producer's, or none (-1).          *)
(***************************************************************************)
EXTENDS Dataflow, FiniteSets

CONSTANTS
    Partition,
    Logs,        \* what the topic may hold at first
    Stamps,      \* with which timestamps
    Time,        \* the timestamps of later messages
    Offsets,     \* what the group may have committed at first, None for nothing
    Limit        \* limit: messages a snapshot shows

ASSUME TopicConstants ==
    /\ IsFiniteSet(Partition)
    /\ Logs \subseteq Seq(Partition)
    /\ Stamps \subseteq Seq(Int)
    /\ Time \subseteq Int
    /\ Offsets \subseteq [Partition -> Nat \cup {None}]
    /\ Limit \in Nat

VARIABLES
    log, stamp,            \* the topic
    low, committed,        \* its low watermarks, the group's offsets
    looking,     \* which call comes next, from "no" over "metadata" to "done"
    ask,         \* the partitions whose watermarks are still to be fetched
    current,     \* lag: the group's offset in each partition, as fetched
    total,       \* lag: total_lag, of the partitions whose watermarks are fetched
    next,        \* snapshot: the position in each partition
    want,        \* snapshot: how many messages to wait for
    messages,    \* snapshot: what was polled
    behind       \* history: what the group had not read when its offsets were

topicVars == <<log, stamp, low, committed>>
lookVars  == <<looking, ask, current, total, next, want, messages, behind>>

Zero == [p \in Partition |-> 0]
Of(p)  == {i \in DOMAIN log : log[i] = p}
High(p) == Cardinality(Of(p))
OffsetOf(i) == Cardinality({j \in Of(log[i]) : j < i})

\* Mutation of From: a partition the group never committed counts as read.
FromTheEnd(offsets, p) == IF offsets[p] = None THEN High(p) ELSE offsets[p]

\* Where a group with these offsets reads on: a partition without one counts
\* from its start.
From(offsets, p) == IF offsets[p] = None THEN low[p] ELSE offsets[p]

TopicInit ==
    /\ log \in Logs
    /\ stamp \in Stamps /\ Len(stamp) = Len(log)
    /\ low = Zero
    /\ committed \in Offsets
    /\ looking = "no" /\ ask = {} /\ current = Zero /\ total = 0
    /\ next = Zero /\ want = 0 /\ messages = {} /\ behind = {}

\* Every message has a timestamp.
Stamped == stamp \in Seq(Int) /\ Len(stamp) = Len(log)

\* What such a group still has to read.
Unread ==
    {i \in DOMAIN log :
        OffsetOf(i) >= IF committed[log[i]] = None THEN low[log[i]] ELSE committed[log[i]]}

-----------------------------------------------------------------------------
\* The surroundings, while a lookup is under way.
Looking == looking \notin {"no", "done"}

Produced(p) ==
    /\ Looking
    /\ Change
    /\ log' = Append(log, p)
    /\ \E t \in Time : stamp' = Append(stamp, t)
    /\ UNCHANGED <<low, committed, lookVars>>

\* To wherever the group likes: a commit may also go back.
Committed(p) ==
    /\ Looking
    /\ Change
    /\ \E o \in 0 .. High(p) : committed' = [committed EXCEPT ![p] = o]
    /\ UNCHANGED <<log, stamp, low, lookVars>>

Deleted(p) ==
    /\ Looking
    /\ Change
    /\ low[p] < High(p)
    /\ low' = [low EXCEPT ![p] = @ + 1]
    /\ UNCHANGED <<log, stamp, committed, lookVars>>

-----------------------------------------------------------------------------
\* A lookup that needs the topic's partitions first (resolve_partitions).
StartLook ==
    /\ looking' = "metadata"
    /\ ask' = Partition
    /\ UNCHANGED <<topicVars, current, total, next, want, messages, behind>>

EndLook ==
    /\ looking' = "no" /\ ask' = {} /\ current' = Zero /\ total' = 0
    /\ next' = Zero /\ want' = 0 /\ messages' = {} /\ behind' = {}
    /\ UNCHANGED topicVars

LookTo(step) ==
    /\ looking' = step
    /\ UNCHANGED <<topicVars, current, total, next, want, messages>>

\* describe_configs(), after the metadata: a dictionary of the topic's settings.
FetchConfig ==
    /\ looking = "config"
    /\ LookTo("done")
    /\ UNCHANGED <<ask, behind>>

\* consumer.committed(): all partitions at once.
FetchCommitted ==
    /\ looking = "committed"
    /\ looking' = "lag"
    /\ current' = committed
    /\ behind' = Unread
    /\ UNCHANGED <<topicVars, ask, total, next, want, messages>>

\* get_watermark_offsets of one partition.
FetchLag(p) ==
    /\ looking = "lag"
    /\ p \in ask
    /\ ask' = ask \ {p}
    /\ total' = total +
            (IF High(p) > From(current, p) THEN High(p) - From(current, p) ELSE 0)
    /\ looking' = IF ask' = {} THEN "done" ELSE "lag"
    /\ UNCHANGED <<topicVars, current, next, want, messages, behind>>

\* Mutation of TailOf: the low watermark is not looked at.
TailOfUnbounded(p) == High(p) - Limit

\* Where a snapshot starts: `limit` messages from the end, if there are so many.
TailOf(p) == IF High(p) - Limit > low[p] THEN High(p) - Limit ELSE low[p]

\* The same call, for a snapshot.
FetchTail(p) ==
    /\ looking = "tails"
    /\ p \in ask
    /\ ask' = ask \ {p}
    /\ next' = [next EXCEPT ![p] = TailOf(p)]
    /\ want' = want + High(p) - TailOf(p)
    /\ looking' = IF ask' # {} THEN "tails" ELSE IF want' = 0 THEN "done" ELSE "poll"
    /\ UNCHANGED <<topicVars, current, total, messages, behind>>

\* poll(): the next message of any partition; or, where retention has overtaken
\* the position, a reset to the end (auto.offset.reset is not set).
PollMessage(p) ==
    /\ looking = "poll"
    /\ low[p] <= next[p]
    /\ \E i \in Of(p) :
        /\ OffsetOf(i) = next[p]
        /\ messages' = messages \cup {i}
    /\ next' = [next EXCEPT ![p] = @ + 1]
    /\ looking' = IF Cardinality(messages') < want THEN "poll" ELSE "done"
    /\ UNCHANGED <<topicVars, ask, current, total, want, behind>>

PollResets(p) ==
    /\ looking = "poll"
    /\ next[p] < low[p]
    /\ next' = [next EXCEPT ![p] = High(p)]
    /\ UNCHANGED <<topicVars, looking, ask, current, total, want, messages, behind>>

\* Nothing has come, or an error: the loop polls again.
PollNothing ==
    /\ looking = "poll"
    /\ UNCHANGED <<topicVars, lookVars>>

\* Mutation of Deadline: `or` in the place of `and` in the loop's condition.
DeadlineAndEnough ==
    /\ looking = "poll"
    /\ Cardinality(messages) >= want
    /\ LookTo("done")
    /\ UNCHANGED <<ask, behind>>

\* The time is up: what has been polled is the answer.
Deadline ==
    /\ looking = "poll"
    /\ LookTo("done")
    /\ UNCHANGED <<ask, behind>>

\* events: sorted by timestamp, the last `limit` of them.  Which of two equal ones
\* comes first is a matter of their arrival.
Shown(set) ==
    {events \in SUBSET set :
        /\ Cardinality(events) <= Limit
        /\ events = set \/ Cardinality(events) = Limit
        /\ \A i \in events, j \in set \ events : stamp[j] <= stamp[i]}

=============================================================================
