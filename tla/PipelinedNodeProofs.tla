-------------------------- MODULE PipelinedNodeProofs --------------------------
(***************************************************************************)
(* Proofs about PipelinedNode, for every log, batch size, format, number   *)
(* of batches in flight and bound, and for node code that lets the errors  *)
(* of done() end its loop (~NodeSwallows; with code that goes on after     *)
(* one, CommittedIsDelivered is false).                                    *)
(*                                                                         *)
(* IInv adds to the properties: that the finished batches and the one in   *)
(* hand follow each other in numbers and in offsets, from the offset last  *)
(* asked to be committed on, with nothing but dropped messages between     *)
(* them; and that while the loop may still settle, the delivery table      *)
(* agrees with what librdkafka holds for every tag.                        *)
(***************************************************************************)
EXTENDS PipelinedNode, TLAPS

-----------------------------------------------------------------------------
(***************************************************************************)
(* What the operations on the delivery table do to one tag and the others, *)
(* and where a batch's tag and messages lie.                               *)
(***************************************************************************)

\* Whatever the table holds for a tag, or nothing, the code goes on with an entry.
LEMMA EntryType ==
    ASSUME DeliveriesTypeOK, NEW t \in Tag
    PROVE  Entry(t) \in TagState
  BY DEF DeliveriesTypeOK, Entry, TagState

\* Expecting n more reports for a tracked s.
LEMMA AddEffect ==
    ASSUME DeliveriesTypeOK, NEW s \in Tag, s # Untracked,
           NEW n \in Nat, n # 0, Add(s, n)
    PROVE  /\ DeliveriesTypeOK'
           /\ inFlight' = inFlight + n
           /\ tags'[s] # None
           /\ tags'[s].pending = (IF tags[s] = None THEN 0 ELSE tags[s].pending) + n
           /\ tags'[s].failed <=> (tags[s] # None /\ tags[s].failed)
           /\ \A t \in Tag : t # s => tags'[t] = tags[t]
<1> DEFINE new == [pending |-> Entry(s).pending + n, failed |-> Entry(s).failed]
<1>1. new \in TagState /\ new # None
  BY EntryType, NoneIsNoTagState DEF TagState
<1>2. tags' = [tags EXCEPT ![s] = new] /\ inFlight' = inFlight + n
  BY DEF Add
<1>3. tags'[s] = new /\ \A t \in Tag : t # s => tags'[t] = tags[t]
  BY <1>2 DEF DeliveriesTypeOK
<1>4. DeliveriesTypeOK'
  <2> HIDE DEF new
  <2> QED  BY <1>1, <1>2 DEF DeliveriesTypeOK
<1>5. /\ new.pending = (IF tags[s] = None THEN 0 ELSE tags[s].pending) + n
      /\ new.failed <=> (tags[s] # None /\ tags[s].failed)
  BY DEF Entry
<1>6. QED
  BY <1>1, <1>2, <1>3, <1>4, <1>5

\* n reports for s.
LEMMA SettleEffect ==
    ASSUME DeliveriesTypeOK, NEW s \in Tag, NEW n \in Nat,
           NEW error \in BOOLEAN, Settle(s, n, error)
    PROVE  /\ DeliveriesTypeOK'
           /\ inFlight' = SaturatingSub(inFlight, n)
           /\ tags'[s] = None <=> tags[s] = None
           /\ tags[s] # None =>
                /\ tags'[s].pending = SaturatingSub(tags[s].pending, n)
                /\ tags'[s].failed <=> (tags[s].failed \/ error)
           /\ \A t \in Tag : t # s => tags'[t] = tags[t]
<1>1. inFlight' = SaturatingSub(inFlight, n) /\ inFlight' \in Nat
  BY DEF Settle, SaturatingSub, DeliveriesTypeOK
<1>2. CASE tags[s] = None
  BY <1>1, <1>2 DEF Settle, DeliveriesTypeOK
<1>3. CASE tags[s] # None
  <2> DEFINE new == [pending |-> SaturatingSub(tags[s].pending, n),
                     failed  |-> tags[s].failed \/ error]
  <2>1. new \in TagState /\ new # None
    BY <1>3, NoneIsNoTagState DEF DeliveriesTypeOK, TagState, SaturatingSub
  <2>2. tags' = [tags EXCEPT ![s] = new]
    BY <1>3 DEF Settle
  <2>3. tags'[s] = new /\ \A t \in Tag : t # s => tags'[t] = tags[t]
    BY <2>2 DEF DeliveriesTypeOK
  <2>4. DeliveriesTypeOK'
    <3> HIDE DEF new
    <3> QED  BY <1>1, <2>1, <2>2 DEF DeliveriesTypeOK
  <2>5. /\ new.pending = SaturatingSub(tags[s].pending, n)
        /\ new.failed <=> (tags[s].failed \/ error)
    OBVIOUS
  <2>6. QED
    <3> HIDE DEF new
    <3> QED  BY <1>1, <1>3, <2>1, <2>3, <2>4, <2>5
<1>4. QED
  BY <1>2, <1>3

\* The table without s.
LEMMA ForgetEffect ==
    ASSUME DeliveriesTypeOK, NEW s \in Tag, Forget(s)
    PROVE  /\ DeliveriesTypeOK'
           /\ inFlight' = inFlight
           /\ tags'[s] = None
           /\ \A t \in Tag : t # s => tags'[t] = tags[t]
  BY DEF DeliveriesTypeOK, Forget

\* A numbered batch that lies in the log has a tag of its own, never the one
\* of untracked messages, and covers messages of the log only.
LEMMA BatchInLog ==
    ASSUME NEW b \in Batch, b.seq < b.next, b.next <= LogEnd
    PROVE  /\ TagOf(b) \in Tag
           /\ TagOf(b) # Untracked
           /\ Covers(b) \subseteq 0 .. (LogEnd - 1)
  BY NodeConstants DEF Batch, TagOf, Untracked, Covers

-----------------------------------------------------------------------------
(***************************************************************************)
(* The inductive invariant.                                                *)
(***************************************************************************)

\* Nothing but dropped messages lies from offset a up to offset b.
Joins(a, b) == a <= b /\ a .. (b - 1) \subseteq Skipped

\* The loop reads on: it has not begun to leave.
Looping ==
    \/ pc \in {"event", "read", "body", "send"}
    \/ pc \in {"settle", "commit", "hook"} /\ settling # "drain"

\* The loop may still settle: nothing has failed.
Settles ==
    \/ pc \in {"event", "read", "body", "send", "settle", "commit", "hook"}
    \/ pc = "exit" /\ failure = "none"

\* The consumer has not been rewound or closed.
Numbering == pc \notin {"close", "closed", "down"}

\* The offset at which the i-th finished batch ends; the 0th is committed.
EndOf(i) == IF i = 0 THEN requested ELSE finished[i].next

InLog(b) == b.first < b.next /\ b.next <= LogEnd /\ b.seq < b.next

\* What is committed is delivered.
OffsetsInv ==
    /\ CommittedIsDelivered
    /\ requested <= LogEnd
    /\ Looping => position <= LogEnd /\ nextSeq <= position

\* The finished batches follow each other, from the committed offset on.
QueueInv ==
    \A i \in 1..Len(finished) :
        /\ InLog(finished[i])
        /\ Joins(EndOf(i - 1), finished[i].first)
        /\ Numbering => finished[i].seq = oldest + i - 1

\* The batch in hand follows them, and the next one read follows that.
BatchInv ==
    /\ batch # None =>
         /\ InLog(batch)
         /\ Joins(EndOf(Len(finished)), batch.first)
         /\ Numbering => batch.seq = oldest + Len(finished)
         /\ Looping => position = batch.next /\ nextSeq = batch.seq + 1
    /\ Looping /\ batch = None =>
         /\ Joins(EndOf(Len(finished)), position)
         /\ nextSeq = oldest + Len(finished)
    /\ Numbering => oldest + Len(finished) <= nextSeq
    /\ Looping => (batch # None <=> pc \in {"body", "send"})
    /\ pc = "send" => batch.rows > 0
    /\ pc = "commit" => finished # <<>>
    /\ Settles => failure = "none"

\* Reports still to come for t, as the table counts them: the messages being
\* handed over are counted already.
Expected(t) ==
    IF pc = "send" /\ t = TagOf(batch) THEN sent[t].left + batch.rows
    ELSE sent[t].left

\* The delivery table and librdkafka agree on every tag, and a tag is fresh
\* until its batch is produced.
TableInv ==
    Settles =>
        /\ \A t \in Tag :
             /\ tags[t] # None => tags[t].pending = Expected(t)
             /\ tags[t] = None => sent[t].left = 0
             /\ t > nextSeq => tags[t] = None
        /\ pc = "body" => tags[TagOf(batch)] = None
        /\ pc = "send" => /\ tags[TagOf(batch)] # None
                          /\ ~tags[TagOf(batch)].failed
                          /\ sent[TagOf(batch)].left = 0

\* What the table says of a finished batch is so.
ArrivalInv ==
    Settles =>
        \A i \in 1..Len(finished) :
            LET b == finished[i]
                t == TagOf(b)
            IN  /\ tags[t] = None => Covers(b) \subseteq delivered
                /\ tags[t] # None =>
                     /\ sent[t].covers = Covers(b)
                     /\ sent[t].bad => tags[t].failed
                     /\ sent[t].left = 0 /\ ~sent[t].bad => Covers(b) \subseteq delivered
                /\ pc = "commit" /\ i = 1 => tags[t] = None

\* The hooks run one behind the commits, and only while one is due.
HooksInv ==
    /\ \A i \in 1..Len(hooks) : hooks[i] = i - 1
    /\ Len(hooks) <= oldest
    /\ Settles /\ pc # "hook" => Len(hooks) = oldest
    /\ pc = "hook" => /\ current # None
                      /\ Len(hooks) + 1 = oldest
                      /\ current.seq + 1 = oldest

IInv ==
    /\ TypeOK
    /\ OffsetsInv
    /\ QueueInv
    /\ BatchInv
    /\ TableInv
    /\ ArrivalInv
    /\ HooksInv
    /\ InFlightBounded

\* The sets most of the state is drawn from.
USE DEF Points, TagState, Sent

-----------------------------------------------------------------------------
(***************************************************************************)
(* Sequences, and the parts of IInv that most steps leave alone.           *)
(***************************************************************************)

\* Dropped messages on both sides of an offset are one stretch of them.
LEMMA JoinsOn ==
    ASSUME NEW a \in Nat, NEW b \in Nat, NEW c \in Nat, Joins(a, b), Joins(b, c)
    PROVE  Joins(a, c)
<1>1. \A x \in a .. (c - 1) : x \in a .. (b - 1) \/ x \in b .. (c - 1)
  OBVIOUS
<1>2. QED
  BY <1>1 DEF Joins

\* One more at the end.
LEMMA AppendEffect ==
    ASSUME NEW S, NEW q \in Seq(S), NEW e \in S
    PROVE  /\ Append(q, e) \in Seq(S)
           /\ Len(Append(q, e)) = Len(q) + 1
           /\ \A i \in 1..Len(q) : Append(q, e)[i] = q[i]
           /\ Append(q, e)[Len(q) + 1] = e
  OBVIOUS

\* The oldest taken off.
LEMMA TailEffect ==
    ASSUME NEW S, NEW q \in Seq(S), q # <<>>
    PROVE  /\ Tail(q) \in Seq(S)
           /\ Len(q) \in Nat \ {0}
           /\ Len(Tail(q)) = Len(q) - 1
           /\ \A i \in 1..Len(Tail(q)) : Tail(q)[i] = q[i + 1]
           /\ Head(q) = q[1] /\ Head(q) \in S
  OBVIOUS

\* The finished batches keep their places while the consumer's offsets stay.
LEMMA QueueKept ==
    ASSUME QueueInv, UNCHANGED <<finished, requested, oldest>>,
           Numbering' => Numbering
    PROVE  QueueInv' /\ EndOf(Len(finished))' = EndOf(Len(finished))
  BY DEF QueueInv, EndOf

\* What holds of a finished batch's tag holds while neither changes, and more
\* may be delivered.
LEMMA ArrivalKept ==
    ASSUME ArrivalInv, Settles' => Settles, UNCHANGED <<finished, tags, sent>>,
           delivered \subseteq delivered', pc' = "commit" => pc = "commit"
    PROVE  ArrivalInv'
  BY DEF ArrivalInv

\* A loop that has failed settles no more: the table no longer matters.
LEMMA LeavingParts ==
    ASSUME IInv, TypeOK', HooksInv', ~Settles', ~Looping', Numbering' => Numbering,
           batch' = batch \/ batch' = None,
           UNCHANGED <<finished, requested, committed, delivered, nextSeq, oldest>>
    PROVE  IInv'
<1>1. pc' \notin {"event", "read", "body", "send", "settle", "commit", "hook"}
  BY DEF Settles
<1>2. QueueInv' /\ EndOf(Len(finished))' = EndOf(Len(finished))
  BY QueueKept DEF IInv
<1>3. OffsetsInv'
  BY DEF IInv, OffsetsInv, CommittedIsDelivered
<1>4. BatchInv'
  BY <1>1, <1>2 DEF IInv, BatchInv
<1>5. TableInv' /\ ArrivalInv'
  BY DEF TableInv, ArrivalInv
<1>6. InFlightBounded'
  BY <1>1 DEF InFlightBounded
<1>7. QED
  BY <1>2, <1>3, <1>4, <1>5, <1>6 DEF IInv

LEMMA LeavingInv ==
    ASSUME IInv, TypeOK', ~Settles', ~Looping', Numbering' => Numbering,
           batch' = batch \/ batch' = None,
           UNCHANGED <<finished, requested, committed, delivered, hooks,
                       nextSeq, oldest>>
    PROVE  IInv'
<1>1. HooksInv'
  BY DEF IInv, HooksInv, Settles
<1>2. QED
  BY <1>1, LeavingParts

\* Steps of the surroundings that concern no batch.
LEMMA Unconcerned ==
    ASSUME IInv, TypeOK', committed' <= requested,
           UNCHANGED <<pc, batch, failure, consumerVars, outputVars, pipelineVars>>
    PROVE  IInv'
<1> USE DEF consumerVars, outputVars, pipelineVars
<1>1. OffsetsInv' /\ HooksInv' /\ InFlightBounded'
  BY DEF IInv, OffsetsInv, CommittedIsDelivered, HooksInv, InFlightBounded,
     Looping, Settles
<1>2. QueueInv' /\ EndOf(Len(finished))' = EndOf(Len(finished))
  BY QueueKept DEF IInv, Numbering
<1>3. BatchInv'
  BY <1>2 DEF IInv, BatchInv, Settles, Looping, Numbering
<1>4. \A t \in Tag : Expected(t)' = Expected(t)
  BY DEF Expected
<1>5. TableInv'
  BY <1>4 DEF IInv, TableInv, Settles
<1>6. ArrivalInv'
  BY ArrivalKept DEF IInv, Settles
<1>7. QED
  BY <1>1, <1>2, <1>3, <1>5, <1>6 DEF IInv

\* A finished batch or the one in hand has a tag of its own, in the log.
LEMMA BatchTags ==
    ASSUME IInv
    PROVE  /\ batch # None =>
                /\ batch \in Batch
                /\ TagOf(batch) \in Tag /\ TagOf(batch) # Untracked
                /\ Covers(batch) \subseteq 0 .. (LogEnd - 1)
           /\ \A i \in 1..Len(finished) :
                /\ finished[i] \in Batch
                /\ TagOf(finished[i]) \in Tag
                /\ TagOf(finished[i]) # Untracked
<1>1. ASSUME batch # None
      PROVE  /\ batch \in Batch
             /\ TagOf(batch) \in Tag /\ TagOf(batch) # Untracked
             /\ Covers(batch) \subseteq 0 .. (LogEnd - 1)
  <2>1. batch \in Batch /\ batch.seq < batch.next /\ batch.next <= LogEnd
    BY <1>1 DEF IInv, TypeOK, BatchInv, InLog
  <2>2. /\ TagOf(batch) \in Tag /\ TagOf(batch) # Untracked
        /\ Covers(batch) \subseteq 0 .. (LogEnd - 1)
    BY <2>1, BatchInLog
  <2>3. QED
    BY <2>1, <2>2
<1>2. ASSUME NEW i \in 1..Len(finished)
      PROVE  /\ finished[i] \in Batch
             /\ TagOf(finished[i]) \in Tag /\ TagOf(finished[i]) # Untracked
  <2>1. finished[i] \in Batch
    <3>1. finished \in Seq(Batch)
      BY DEF IInv, TypeOK
    <3>2. QED
      BY <3>1
  <2>2. finished[i].seq < finished[i].next /\ finished[i].next <= LogEnd
    BY DEF IInv, QueueInv, InLog
  <2>3. QED
    BY <2>1, <2>2, BatchInLog
<1>3. QED
  BY <1>1, <1>2

\* Where the finished batches end is an offset.
LEMMA EndInNat ==
    ASSUME IInv
    PROVE  EndOf(Len(finished)) \in Nat
<1>1. finished \in Seq(Batch) /\ requested \in Nat
  BY DEF IInv, TypeOK
<1>2. CASE Len(finished) = 0
  BY <1>1, <1>2 DEF EndOf
<1>3. CASE Len(finished) # 0
  <2>1. finished[Len(finished)] \in Batch
    BY <1>1, <1>3
  <2>2. finished[Len(finished)].next \in Nat
    BY <2>1 DEF Batch
  <2>3. QED
    BY <1>3, <2>2 DEF EndOf
<1>4. QED
  BY <1>2, <1>3

-----------------------------------------------------------------------------
(***************************************************************************)
(* The steps that leave the loop, or go from one point to the next with    *)
(* nothing else changed.                                                   *)
(***************************************************************************)

\* librdkafka refuses a message: the types.
LEMMA SendFailsType ==
    ASSUME IInv, SendFails, UNCHANGED pipelineVars
    PROVE  TypeOK'
<1> USE DEF SendFails, consumerVars, pipelineVars
<1> DEFINE s == TagOf(batch)
<1>1. /\ batch # None /\ batch \in Batch /\ s \in Tag
      /\ sent \in [Tag -> Sent] /\ DeliveriesTypeOK
  BY BatchTags DEF IInv, TypeOK, BatchInv, Looping
<1>2. PICK m \in 0..(batch.rows - 1) :
        /\ Cancel(s, batch.rows - m)
        /\ sent' = [sent EXCEPT ![s] =
                      [left |-> @.left + m, bad |-> TRUE, covers |-> {}]]
  OBVIOUS
<1>3. batch.rows \in Nat /\ m \in Nat /\ batch.rows - m \in Nat
  BY <1>1, <1>2 DEF Batch
<1>4. DeliveriesTypeOK'
  <2>1. FALSE \in BOOLEAN
    OBVIOUS
  <2>2. QED
    BY <1>1, <1>2, <1>3, <2>1, SettleEffect DEF Cancel
<1>5. sent' \in [Tag -> Sent]
  <2> DEFINE new == [left |-> sent[s].left + m, bad |-> TRUE, covers |-> {}]
  <2>1. sent[s].left + m \in Nat
    BY <1>1, <1>3
  <2>2. new \in Sent
    BY <2>1
  <2>3. sent' = [sent EXCEPT ![s] = new]
    BY <1>2
  <2> HIDE DEF new
  <2>4. QED
    BY <1>1, <2>2, <2>3
<1>6. QED
  BY <1>4, <1>5 DEF IInv, TypeOK, Raise, Swallow, Fault

\* An error of the node's code, of done() or of a read, a clean exit past the
\* drain, and the rest of __exit__.
LEMMA LeavesInv ==
    ASSUME IInv, ~NodeSwallows,
           \/ (BodyFails \/ SendFails \/ SignalForce \/ Close) /\ UNCHANGED pipelineVars
           \/ NoRewind(OldestUncommitted) /\ UNCHANGED pipelineVars
           \/ RewindFails(OldestUncommitted) /\ UNCHANGED pipelineVars
           \/ SettleFails \/ CommitFails \/ ExitFailed
    PROVE  IInv'
<1> USE DEF pipelineVars, loopVars, consumerVars, outputVars
<1>1. CASE BodyFails /\ UNCHANGED pipelineVars
  <2>1. TypeOK'
    BY <1>1 DEF BodyFails, Raise, Fault, IInv, TypeOK, DeliveriesTypeOK
  <2>2. QED
    BY <1>1, <2>1, LeavingInv DEF BodyFails, Raise, Settles, Looping, Numbering
<1>2. CASE SendFails /\ UNCHANGED pipelineVars
  <2>1. TypeOK'
    BY <1>2, SendFailsType
  <2>2. QED
    BY <1>2, <2>1, LeavingInv DEF SendFails, Raise, Swallow, Settles, Looping, Numbering
<1>3. CASE SignalForce /\ UNCHANGED pipelineVars
  <2>1. TypeOK'
    BY <1>3 DEF SignalForce, Fault, IInv, TypeOK, DeliveriesTypeOK
  <2>2. QED
    BY <1>3, <2>1, LeavingInv DEF SignalForce, Settles, Looping, Numbering
<1>4. CASE Close /\ UNCHANGED pipelineVars
  <2>1. TypeOK'
    BY <1>4 DEF Close, IInv, TypeOK, DeliveriesTypeOK
  <2>2. QED
    BY <1>4, <2>1, LeavingInv DEF Close, Settles, Looping, Numbering
<1>5. CASE NoRewind(OldestUncommitted) /\ UNCHANGED pipelineVars
  <2>1. TypeOK'
    BY <1>5 DEF NoRewind, IInv, TypeOK, DeliveriesTypeOK
  <2>2. QED
    BY <1>5, <2>1, LeavingInv DEF NoRewind, Settles, Looping, Numbering
<1>6. CASE RewindFails(OldestUncommitted) /\ UNCHANGED pipelineVars
  <2>1. TypeOK'
    BY <1>6 DEF RewindFails, Fault, IInv, TypeOK, DeliveriesTypeOK
  <2>2. QED
    BY <1>6, <2>1, LeavingInv DEF RewindFails, Settles, Looping, Numbering
<1>7. CASE SettleFails
  <2>1. TagOf(Head(finished)) \in Tag
    BY <1>7, BatchTags, TailEffect DEF SettleFails, IInv, TypeOK
  <2>2. DeliveriesTypeOK'
    BY <1>7, <2>1, ForgetEffect DEF SettleFails, WaitFailed, IInv, TypeOK
  <2>3. TypeOK'
    BY <1>7, <2>2 DEF SettleFails, SettleRaises, Swallow, IInv, TypeOK
  <2>4. QED
    BY <1>7, <2>3, LeavingInv DEF SettleFails, SettleRaises, Swallow, Settles,
       Looping, Numbering
<1>8. CASE CommitFails
  <2>1. TypeOK'
    BY <1>8 DEF CommitFails, CommitRefused, SettleRaises, Swallow, Fault, IInv,
       TypeOK, DeliveriesTypeOK
  <2>2. QED
    BY <1>8, <2>1, LeavingInv DEF CommitFails, CommitRefused, SettleRaises,
       Swallow, Settles, Looping, Numbering
<1>9. CASE ExitFailed
  <2>1. TypeOK'
    BY <1>9 DEF ExitFailed, IInv, TypeOK, DeliveriesTypeOK
  <2>2. QED
    BY <1>9, <2>1, LeavingInv DEF ExitFailed, Settles, Looping, Numbering
<1>10. QED
  BY <1>1, <1>2, <1>3, <1>4, <1>5, <1>6, <1>7, <1>8, <1>9

\* Steps that concern neither the queue nor what is out, while the loop may
\* still settle: the table and the arrivals stay.
LEMMA TableKept ==
    ASSUME IInv, Settles' => Settles, UNCHANGED <<tags, sent, finished>>,
           delivered \subseteq delivered', nextSeq <= nextSeq', nextSeq' \in Nat,
           pc # "send", pc' \notin {"body", "send"},
           pc' = "commit" => pc = "commit"
    PROVE  TableInv' /\ ArrivalInv'
<1>1. ArrivalInv'
  BY ArrivalKept DEF IInv
<1>2. \A t \in Tag : t \in Nat /\ (t > nextSeq' => t > nextSeq)
  BY NodeConstants DEF IInv, TypeOK
<1>3. \A t \in Tag : Expected(t)' = Expected(t)
  BY DEF Expected
<1>4. TableInv'
  BY <1>2, <1>3 DEF IInv, TableInv
<1>5. QED
  BY <1>1, <1>4

LEMMA RequestEventInv ==
    ASSUME IInv, RequestEvent
    PROVE  IInv'
<1> USE DEF RequestEvent, consumerVars, outputVars
<1>1. TypeOK'
  BY DEF IInv, TypeOK, DeliveriesTypeOK
<1>2. QueueInv' /\ EndOf(Len(finished))' = EndOf(Len(finished))
  BY QueueKept DEF IInv, Numbering
<1>3. TableInv' /\ ArrivalInv'
  BY TableKept DEF IInv, TypeOK, Settles
<1>4. OffsetsInv' /\ HooksInv' /\ InFlightBounded'
  BY DEF IInv, OffsetsInv, CommittedIsDelivered, HooksInv, InFlightBounded, Settles,
     Looping
<1>5. BatchInv'
  BY <1>2 DEF IInv, BatchInv, Settles, Looping, Numbering
<1>6. QED
  BY <1>1, <1>2, <1>3, <1>4, <1>5 DEF IInv

LEMMA ExitCleanInv ==
    ASSUME IInv, ExitClean
    PROVE  IInv'
<1> USE DEF ExitClean, consumerVars, outputVars
<1>1. TypeOK'
  BY DEF IInv, TypeOK, DeliveriesTypeOK
<1>2. QueueInv' /\ EndOf(Len(finished))' = EndOf(Len(finished))
  BY QueueKept DEF IInv, Numbering
<1>3. TableInv' /\ ArrivalInv'
  BY TableKept DEF IInv, TypeOK, Settles
<1>4. OffsetsInv' /\ HooksInv' /\ InFlightBounded'
  BY DEF IInv, OffsetsInv, CommittedIsDelivered, HooksInv, InFlightBounded, Settles,
     Looping
<1>5. BatchInv'
  BY <1>2 DEF IInv, BatchInv, Settles, Looping, Numbering
<1>6. QED
  BY <1>1, <1>2, <1>3, <1>4, <1>5 DEF IInv

\* Where _settle ends, the oldest finished batch is out and may stay out.
LEMMA SettleReturnsInv ==
    ASSUME IInv, SettleReturns
    PROVE  IInv'
<1> USE DEF SettleReturns, consumerVars, outputVars, pipelineVars
<1>1. /\ settling = "done" => pc' = "event"
      /\ settling = "read" => pc' = "exit" \/ pc' = "read"
      /\ settling = "drain" => pc' = "rewind"
      /\ settling \in {"done", "read", "drain"}
  BY DEF AfterSettle, IInv, TypeOK
<1>2. TypeOK'
  BY <1>1 DEF IInv, TypeOK, DeliveriesTypeOK
<1>3. QueueInv' /\ EndOf(Len(finished))' = EndOf(Len(finished))
  BY <1>1, QueueKept DEF IInv, Numbering
<1>4. TableInv' /\ ArrivalInv'
  BY <1>1, TableKept DEF IInv, TypeOK, Settles
<1>5. OffsetsInv' /\ HooksInv'
  BY <1>1 DEF IInv, OffsetsInv, CommittedIsDelivered, HooksInv, Settles, Looping
<1>6. BatchInv'
  BY <1>1, <1>3 DEF IInv, BatchInv, Settles, Looping, Numbering
<1>7. InFlightBounded'
  <2>1. pc' = "read" => Len(finished) <= MaxInFlight
    BY <1>1, MaxInFlightAssumption DEF Keep, IInv, TypeOK
  <2>2. QED
    BY <1>1, <2>1 DEF InFlightBounded
<1>8. QED
  BY <1>2, <1>3, <1>4, <1>5, <1>6, <1>7 DEF IInv

\* The oldest is delivered: its tag is taken out of the table.
LEMMA SettleDeliveredInv ==
    ASSUME IInv, SettleDelivered
    PROVE  IInv'
<1> USE DEF SettleDelivered, consumerVars, pipelineVars
<1> DEFINE s == TagOf(Head(finished))
<1>1. /\ Head(finished) = finished[1] /\ 1 \in 1..Len(finished)
      /\ s \in Tag
  BY TailEffect, BatchTags DEF IInv, TypeOK
<1>2. /\ DeliveriesTypeOK' /\ tags'[s] = None
      /\ \A t \in Tag : t # s => tags'[t] = tags[t]
  BY <1>1, ForgetEffect DEF WaitOk, IInv, TypeOK
<1>3. Settles /\ \A t \in Tag : Expected(t) = sent[t].left /\ Expected(t)' = sent[t].left
  BY DEF Settles, Expected
<1>4. sent[s].left = 0 /\ Covers(Head(finished)) \subseteq delivered
  <2>1. CASE tags[s] = None
    BY <2>1, <1>1, <1>3 DEF IInv, TableInv, ArrivalInv
  <2>2. CASE tags[s] # None
    <3>1. tags[s].pending = 0 /\ ~tags[s].failed
      BY <2>2 DEF WaitOk
    <3>2. sent[s].left = 0
      BY <3>1, <2>2, <1>1, <1>3 DEF IInv, TableInv
    <3>3. ~sent[s].bad
      BY <3>1, <2>2, <1>1, <1>3 DEF IInv, ArrivalInv
    <3>4. QED
      BY <3>2, <3>3, <2>2, <1>1, <1>3 DEF IInv, ArrivalInv
  <2>3. QED
    BY <2>1, <2>2
<1>5. TypeOK'
  BY <1>2 DEF IInv, TypeOK
<1>6. QueueInv' /\ EndOf(Len(finished))' = EndOf(Len(finished))
  BY QueueKept DEF IInv, Numbering
<1>7. OffsetsInv' /\ HooksInv' /\ InFlightBounded'
  BY <1>3 DEF IInv, OffsetsInv, CommittedIsDelivered, HooksInv, InFlightBounded,
     Settles, Looping
<1>8. BatchInv'
  BY <1>6 DEF IInv, BatchInv, Settles, Looping, Numbering
<1>9. TableInv'
  BY <1>1, <1>2, <1>3, <1>4 DEF IInv, TableInv
<1>10. ArrivalInv'
  <2>1. ASSUME NEW i \in 1..Len(finished)
        PROVE  /\ TagOf(finished[i]) \in Tag
               /\ TagOf(finished[i]) = s => i = 1
    <3>1. TagOf(finished[i]) \in Tag /\ finished[i] \in Batch /\ finished[1] \in Batch
      BY <1>1, BatchTags
    <3>2. finished[i].seq \in Nat /\ finished[1].seq \in Nat
      BY <3>1 DEF Batch
    <3>3. finished[i].seq = oldest + i - 1 /\ finished[1].seq = oldest + 1 - 1
      BY <1>1 DEF IInv, QueueInv, Numbering
    <3>4. QED
      BY <1>1, <3>1, <3>2, <3>3 DEF TagOf, IInv, TypeOK
  <2>2. QED
    BY <1>1, <1>2, <1>3, <1>4, <2>1 DEF IInv, ArrivalInv
<1>11. QED
  BY <1>5, <1>6, <1>7, <1>8, <1>9, <1>10 DEF IInv

\* The commit of the oldest: the offsets meet, and the queue moves up by one.
LEMMA CommitHeadInv ==
    ASSUME IInv, CommitHead
    PROVE  IInv'
<1> USE DEF CommitHead, CommitOldest, outputVars
<1> DEFINE b == Head(finished)
<1>1. /\ finished \in Seq(Batch) /\ finished # <<>>
      /\ pc = "commit" /\ Settles /\ Numbering
      /\ requested \in Nat /\ committed \in Nat /\ oldest \in Nat /\ LogEnd \in Nat
  BY NodeConstants DEF IInv, TypeOK, BatchInv, Settles, Numbering
<1>2. /\ Tail(finished) \in Seq(Batch)
      /\ Len(finished) \in Nat \ {0}
      /\ Len(Tail(finished)) = Len(finished) - 1
      /\ \A i \in 1..Len(Tail(finished)) : Tail(finished)[i] = finished[i + 1]
      /\ b = finished[1] /\ b \in Batch /\ 1 \in 1..Len(finished)
  BY <1>1, TailEffect
<1>3. /\ InLog(b) /\ Joins(requested, b.first) /\ b.seq = oldest
      /\ b.first \in Nat /\ b.next \in Nat /\ b.seq \in Nat
      /\ Covers(b) \subseteq delivered
  <2>1. b.first \in Nat /\ b.next \in Nat /\ b.seq \in Nat
    BY <1>2 DEF Batch
  <2>2. InLog(b) /\ Joins(EndOf(1 - 1), b.first) /\ b.seq = oldest + 1 - 1
    BY <1>1, <1>2 DEF IInv, QueueInv
  <2>3. Covers(b) \subseteq delivered
    BY <1>1, <1>2 DEF IInv, ArrivalInv
  <2>4. QED
    BY <1>1, <2>1, <2>2, <2>3 DEF EndOf
<1>4. TypeOK'
  BY <1>1, <1>2, <1>3 DEF IInv, TypeOK, DeliveriesTypeOK
<1>5. OffsetsInv'
  <2>1. 0 .. (requested - 1) \subseteq delivered \cup Skipped
    BY DEF IInv, OffsetsInv, CommittedIsDelivered
  <2>2. \A x \in 0 .. (b.next - 1) :
          \/ x \in 0 .. (requested - 1)
          \/ x \in requested .. (b.first - 1)
          \/ x \in b.first .. (b.next - 1)
    BY <1>1, <1>3
  <2>3. 0 .. (b.next - 1) \subseteq delivered \cup Skipped
    BY <1>3, <2>1, <2>2 DEF Joins, Covers
  <2>4. committed <= b.next /\ b.next <= LogEnd
    BY <1>1, <1>3 DEF IInv, OffsetsInv, CommittedIsDelivered, InLog, Joins
  <2>5. QED
    BY <1>1, <2>3, <2>4 DEF IInv, OffsetsInv, CommittedIsDelivered, Looping
<1>6. \A i \in 0..Len(Tail(finished)) : EndOf(i)' = EndOf(i + 1)
  BY <1>2, <1>3 DEF EndOf
<1>7. QueueInv'
  <2> SUFFICES ASSUME NEW i \in 1..Len(Tail(finished))
               PROVE  /\ InLog(Tail(finished)[i])
                      /\ Joins(EndOf(i - 1)', Tail(finished)[i].first)
                      /\ Tail(finished)[i].seq = (oldest + 1) + i - 1
    BY DEF QueueInv
  <2>1. /\ i + 1 \in 1..Len(finished) /\ i - 1 \in 0..Len(Tail(finished))
        /\ (i + 1) - 1 = i /\ (i - 1) + 1 = i
    BY <1>2
  <2>2. /\ InLog(finished[i + 1])
        /\ Joins(EndOf(i), finished[i + 1].first)
        /\ finished[i + 1].seq = oldest + (i + 1) - 1
    BY <1>1, <2>1 DEF IInv, QueueInv
  <2>3. EndOf(i - 1)' = EndOf(i)
    BY <1>6, <2>1
  <2>4. QED
    BY <1>1, <1>2, <2>1, <2>2, <2>3
<1>8. EndOf(Len(finished))' = EndOf(Len(finished))
  BY <1>2, <1>6
<1>9. BatchInv'
  <2>1. (oldest + Len(finished))' = oldest + Len(finished)
    BY <1>1, <1>2
  <2>2. QED
    BY <1>1, <1>8, <2>1 DEF IInv, BatchInv, Settles, Looping, Numbering
<1>10. TableInv'
  BY <1>1 DEF IInv, TableInv, Settles, Expected
<1>11. ArrivalInv'
  <2>1. ASSUME NEW i \in 1..Len(Tail(finished))
        PROVE  i + 1 \in 1..Len(finished) /\ Tail(finished)[i] = finished[i + 1]
    BY <1>2
  <2>2. QED
    BY <1>1, <2>1 DEF IInv, ArrivalInv
<1>12. HooksInv' /\ InFlightBounded'
  BY <1>1, <1>2, <1>3, NoneIsNoBatch DEF IInv, HooksInv, InFlightBounded
<1>13. QED
  BY <1>4, <1>5, <1>7, <1>9, <1>10, <1>11, <1>12 DEF IInv

\* The hook of the batch just committed.
LEMMA HookEffect ==
    ASSUME IInv, pc = "hook", hooks' = Append(hooks, current.seq),
           UNCHANGED oldest, pc' # "hook"
    PROVE  HooksInv' /\ hooks' \in Seq(Nat)
<1>1. /\ hooks \in Seq(Nat) /\ oldest \in Nat
      /\ current # None /\ current \in Batch
      /\ Len(hooks) + 1 = oldest /\ current.seq + 1 = oldest
      /\ \A i \in 1..Len(hooks) : hooks[i] = i - 1
  BY DEF IInv, TypeOK, HooksInv
<1>2. current.seq \in Nat
  BY <1>1 DEF Batch
<1>3. /\ hooks' \in Seq(Nat)
      /\ Len(hooks') = Len(hooks) + 1
      /\ \A i \in 1..Len(hooks) : hooks'[i] = hooks[i]
      /\ hooks'[Len(hooks) + 1] = current.seq
  BY <1>1, <1>2, AppendEffect
<1>4. Len(hooks) \in Nat /\ current.seq = Len(hooks)
  BY <1>1, <1>2
<1>5. \A i \in 1..Len(hooks') : hooks'[i] = i - 1
  <2> SUFFICES ASSUME NEW i \in 1..Len(hooks') PROVE hooks'[i] = i - 1
    OBVIOUS
  <2>1. CASE i = Len(hooks) + 1
    BY <2>1, <1>3, <1>4
  <2>2. CASE i # Len(hooks) + 1
    <3>1. i \in 1..Len(hooks)
      BY <2>2, <1>3, <1>4
    <3>2. QED
      BY <3>1, <1>1, <1>3
  <2>3. QED
    BY <2>1, <2>2
<1>6. QED
  BY <1>1, <1>3, <1>5 DEF HooksInv

LEMMA RunHookInv ==
    ASSUME IInv, RunHook
    PROVE  IInv'
<1> USE DEF RunHook, consumerVars, outputVars
<1>1. HooksInv' /\ hooks' \in Seq(Nat)
  BY HookEffect
<1>2. TypeOK'
  BY <1>1 DEF IInv, TypeOK, DeliveriesTypeOK
<1>3. QueueInv' /\ EndOf(Len(finished))' = EndOf(Len(finished))
  BY QueueKept DEF IInv, Numbering
<1>4. TableInv' /\ ArrivalInv'
  BY TableKept DEF IInv, TypeOK, Settles
<1>5. OffsetsInv' /\ InFlightBounded'
  BY DEF IInv, OffsetsInv, CommittedIsDelivered, InFlightBounded, Looping
<1>6. BatchInv'
  BY <1>3 DEF IInv, BatchInv, Settles, Looping, Numbering
<1>7. QED
  BY <1>1, <1>2, <1>3, <1>4, <1>5, <1>6 DEF IInv

LEMMA HookFailsInv ==
    ASSUME IInv, ~NodeSwallows, HookFails
    PROVE  IInv'
<1> USE DEF HookFails, SettleRaises, Swallow, consumerVars, outputVars
<1>1. HooksInv' /\ hooks' \in Seq(Nat)
  BY HookEffect
<1>2. TypeOK'
  BY <1>1 DEF Fault, IInv, TypeOK, DeliveriesTypeOK
<1>3. ~Settles' /\ ~Looping' /\ (Numbering' => Numbering)
  BY DEF Settles, Looping, Numbering
<1>4. QED
  BY <1>1, <1>2, <1>3, LeavingParts

-----------------------------------------------------------------------------
(***************************************************************************)
(* Reading, signals, the rewind, and the end of the process.               *)
(***************************************************************************)

\* The node's code breaks out with its batch in hand: the exit settles.
LEMMA BodyBreaksInv ==
    ASSUME IInv, BodyBreaks, UNCHANGED pipelineVars
    PROVE  IInv'
<1> USE DEF BodyBreaks, consumerVars, outputVars, pipelineVars
<1>1. TypeOK'
  BY DEF Fault, IInv, TypeOK, DeliveriesTypeOK
<1>2. QueueInv' /\ EndOf(Len(finished))' = EndOf(Len(finished))
  BY QueueKept DEF IInv, Numbering
<1>3. TableInv' /\ ArrivalInv'
  BY TableKept DEF IInv, TypeOK, Settles
<1>4. OffsetsInv' /\ HooksInv' /\ InFlightBounded'
  BY DEF IInv, OffsetsInv, CommittedIsDelivered, HooksInv, InFlightBounded,
     Settles, Looping
<1>5. BatchInv'
  BY <1>2 DEF IInv, BatchInv, Settles, Looping, Numbering
<1>6. QED
  BY <1>1, <1>2, <1>3, <1>4, <1>5 DEF IInv

\* A read that returns nothing, whether or not it dropped messages.
LEMMA EmptyPollInv ==
    ASSUME IInv, pc = "read", EmptyPoll, UNCHANGED pipelineVars,
           position' \in Nat, position' <= LogEnd, Joins(position, position')
    PROVE  IInv'
<1> USE DEF EmptyPoll, outputVars, pipelineVars
<1>1. /\ Settles /\ Looping /\ Numbering /\ pc' \in {"exit", "event"}
      /\ Settles' /\ failure = "none" /\ batch = None
  BY DEF Settles, Looping, Numbering, IInv, BatchInv
<1>2. TypeOK'
  BY DEF IInv, TypeOK, DeliveriesTypeOK
<1>3. QueueInv' /\ EndOf(Len(finished))' = EndOf(Len(finished))
  BY <1>1, QueueKept DEF IInv
<1>4. TableInv' /\ ArrivalInv'
  BY <1>1, TableKept DEF IInv, TypeOK
<1>5. HooksInv' /\ InFlightBounded'
  BY <1>1 DEF IInv, HooksInv, InFlightBounded
<1>6. position \in Nat /\ position <= position'
  BY DEF Joins, IInv, TypeOK
<1>7. OffsetsInv'
  BY <1>1, <1>6 DEF IInv, TypeOK, OffsetsInv, CommittedIsDelivered
<1>8. BatchInv'
  <2>1. Joins(EndOf(Len(finished)), position) /\ nextSeq = oldest + Len(finished)
    BY <1>1 DEF IInv, BatchInv
  <2>2. EndOf(Len(finished)) \in Nat
    BY EndInNat
  <2>3. Joins(EndOf(Len(finished)), position')
    BY <1>6, <2>1, <2>2, JoinsOn
  <2>4. QED
    BY <1>1, <1>3, <2>1, <2>3 DEF IInv, BatchInv, Looping, Numbering
<1>9. QED
  BY <1>2, <1>3, <1>4, <1>5, <1>7, <1>8 DEF IInv

LEMMA ReadEmptyInv ==
    ASSUME IInv, ReadEmpty, UNCHANGED pipelineVars
    PROVE  IInv'
<1>1. position' \in Nat /\ position' <= LogEnd /\ Joins(position, position')
  BY NodeConstants DEF ReadEmpty, Joins, IInv, TypeOK, OffsetsInv, Looping
<1>2. QED
  BY <1>1, EmptyPollInv DEF ReadEmpty

\* Nothing of a read decodes: read_pylist drops it, read_arrow raises.
LEMMA ReadUndecodableInv ==
    ASSUME IInv, ReadUndecodable, UNCHANGED pipelineVars
    PROVE  IInv'
<1>1. PICK k \in 1..BatchSize :
        /\ position + k <= LogEnd
        /\ ~Decodes(position, position + k)
        /\ position' = position + k
  BY DEF ReadUndecodable
<1>2. position \in Nat /\ position' \in Nat /\ position' <= LogEnd /\ k \in Nat
  BY <1>1, NodeConstants DEF IInv, TypeOK
<1>3. CASE Format = "arrow"
  <2>1. ReadRaises
    BY <1>3 DEF ReadUndecodable
  <2>2. TypeOK'
    BY <1>2, <2>1 DEF ReadRaises, outputVars, pipelineVars, IInv, TypeOK, DeliveriesTypeOK
  <2>3. ~Settles' /\ ~Looping' /\ (Numbering' => Numbering)
    BY <2>1 DEF ReadUndecodable, ReadRaises, Settles, Looping, Numbering
  <2>4. QED
    BY <2>1, <2>2, <2>3, LeavingInv DEF ReadRaises, outputVars, pipelineVars
<1>4. CASE Format # "arrow"
  <2>1. Format = "pylist"
    BY <1>4, NodeConstants
  <2>2. position .. (position + k - 1) \subseteq Skipped
    BY <1>1, <1>2, <2>1 DEF Decodes, Skipped
  <2>3. Joins(position, position')
    BY <1>1, <1>2, <2>2 DEF Joins
  <2>4. EmptyPoll /\ pc = "read"
    BY <1>4 DEF ReadUndecodable
  <2>5. QED
    BY <1>2, <2>3, <2>4, EmptyPollInv
<1>5. QED
  BY <1>3, <1>4

\* A signal cuts a read short: what it polled may have been numbered, and the
\* loop ends.
LEMMA SignalInReadInv ==
    ASSUME IInv, SignalInRead, UNCHANGED pipelineVars
    PROVE  IInv'
<1> USE DEF SignalInRead, outputVars, pipelineVars
<1>1. /\ position' \in Nat /\ nextSeq' \in Nat /\ nextSeq <= nextSeq'
      /\ position \in Nat /\ nextSeq \in Nat
  BY NodeConstants DEF IInv, TypeOK
<1>2. TypeOK'
  BY <1>1 DEF Fault, IInv, TypeOK, DeliveriesTypeOK
<1>3. QueueInv' /\ EndOf(Len(finished))' = EndOf(Len(finished))
  BY QueueKept DEF IInv, Numbering
<1>4. TableInv' /\ ArrivalInv'
  BY <1>1, TableKept DEF IInv, Settles
<1>5. OffsetsInv' /\ HooksInv' /\ InFlightBounded'
  BY DEF IInv, OffsetsInv, CommittedIsDelivered, HooksInv, InFlightBounded,
     Settles, Looping
<1>6. BatchInv'
  <2>1. oldest + Len(finished) <= nextSeq' /\ batch = None /\ failure = "none"
    BY <1>1 DEF IInv, TypeOK, BatchInv, Looping, Numbering, Settles
  <2>2. QED
    BY <2>1 DEF BatchInv, Looping
<1>7. QED
  BY <1>2, <1>3, <1>4, <1>5, <1>6 DEF IInv

\* The rewind takes every number out of use.
LEMMA RewindInv ==
    ASSUME IInv, NEW b \in Batch, Rewind(b), UNCHANGED pipelineVars
    PROVE  IInv'
<1> USE DEF Rewind, outputVars, pipelineVars
<1>1. TypeOK'
  BY DEF IInv, TypeOK, DeliveriesTypeOK, Batch
<1>2. QueueInv'
  BY DEF IInv, QueueInv, EndOf, Numbering
<1>3. OffsetsInv' /\ InFlightBounded'
  BY DEF IInv, OffsetsInv, CommittedIsDelivered, InFlightBounded, Looping
<1>4. BatchInv' /\ TableInv' /\ ArrivalInv'
  BY DEF BatchInv, TableInv, ArrivalInv, Looping, Numbering, Settles
<1>5. HooksInv'
  <2>1. Len(hooks) <= oldest /\ oldest + Len(finished) <= nextSeq
    BY DEF IInv, HooksInv, BatchInv, Numbering
  <2>2. /\ Len(hooks) \in Nat /\ Len(finished) \in Nat
        /\ oldest \in Nat /\ nextSeq \in Nat
    BY DEF IInv, TypeOK
  <2>3. Len(hooks) <= nextSeq
    BY <2>1, <2>2
  <2>4. QED
    BY <2>3 DEF IInv, HooksInv, Settles
<1>6. QED
  BY <1>1, <1>2, <1>3, <1>4, <1>5 DEF IInv

\* The process dies: its queue and its table are gone.
LEMMA CrashInv ==
    ASSUME IInv, Crash, Forgotten
    PROVE  IInv'
<1> USE DEF Crash, Forgotten
<1>1. NothingSent \in Sent
  BY DEF NothingSent
<1>2. TypeOK'
  BY <1>1 DEF Fault, IInv, TypeOK, DeliveriesTypeOK
<1>3. OffsetsInv'
  BY NodeConstants DEF IInv, TypeOK, OffsetsInv, CommittedIsDelivered, Looping, Skipped
<1>4. QueueInv' /\ BatchInv' /\ TableInv' /\ ArrivalInv' /\ InFlightBounded'
  BY DEF QueueInv, BatchInv, TableInv, ArrivalInv, InFlightBounded, Looping,
     Numbering, Settles
<1>5. HooksInv'
  BY DEF IInv, TypeOK, HooksInv, Settles
<1>6. QED
  BY <1>2, <1>3, <1>4, <1>5 DEF IInv

\* A new process begins with an empty queue and table, at the committed offset.
LEMMA RestartInv ==
    ASSUME IInv, Restart, Forgotten
    PROVE  IInv'
<1> USE DEF Restart, Forgotten
<1>1. NothingSent \in Sent /\ NothingSent.left = 0
  BY DEF NothingSent
<1>2. TypeOK'
  <2>1. DeliveriesTypeOK' /\ sent' \in [Tag -> Sent]
    BY <1>1 DEF DeliveriesTypeOK
  <2>2. stopRequested' \in BOOLEAN
    OBVIOUS
  <2>3. QED
    BY <2>1, <2>2 DEF IInv, TypeOK
<1>3. OffsetsInv'
  BY NodeConstants DEF IInv, TypeOK, OffsetsInv, CommittedIsDelivered, Skipped
<1>4. QueueInv' /\ BatchInv'
  BY DEF IInv, TypeOK, QueueInv, BatchInv, EndOf, Joins, Looping, Numbering, Settles
<1>5. TableInv' /\ ArrivalInv'
  BY <1>1 DEF TableInv, ArrivalInv, Expected
<1>6. HooksInv' /\ InFlightBounded'
  BY MaxInFlightAssumption DEF HooksInv, InFlightBounded, Settles
<1>7. QED
  BY <1>2, <1>3, <1>4, <1>5, <1>6 DEF IInv

-----------------------------------------------------------------------------
(***************************************************************************)
(* A batch on its way: read, handed over, finished, reported.              *)
(***************************************************************************)

\* The batch read begins where the last one ended, but for dropped messages.
LEMMA ReadBatchInv ==
    ASSUME IInv, ReadBatch, UNCHANGED pipelineVars
    PROVE  IInv'
<1> USE DEF ReadBatch, outputVars, pipelineVars
<1>1. /\ batch = None /\ Settles /\ Looping /\ Numbering
      /\ nextSeq <= position /\ nextSeq = oldest + Len(finished)
      /\ Joins(EndOf(Len(finished)), position)
      /\ nextSeq \in Nat /\ position \in Nat /\ LogEnd \in Nat
  BY NodeConstants DEF IInv, TypeOK, OffsetsInv, BatchInv, Looping, Settles, Numbering
<1>2. PICK k \in 1 .. BatchSize, rows \in 0 .. MaxOut :
        /\ position + k <= LogEnd
        /\ batch' = [seq |-> nextSeq, first |-> position,
                     next |-> position + k, rows |-> rows]
        /\ position' = position + k
  OBVIOUS
<1>3. k \in Nat \ {0} /\ rows \in Nat
  BY <1>2, NodeConstants
<1>4. /\ batch' \in Batch /\ batch' # None
      /\ batch'.seq = nextSeq /\ batch'.first = position /\ batch'.next = position + k
  BY <1>1, <1>2, <1>3, NoneIsNoBatch DEF Batch
<1>5. TypeOK'
  BY <1>1, <1>2, <1>3, <1>4 DEF IInv, TypeOK, DeliveriesTypeOK
<1>6. QueueInv' /\ EndOf(Len(finished))' = EndOf(Len(finished))
  BY <1>1, QueueKept DEF IInv
<1>7. OffsetsInv' /\ HooksInv' /\ InFlightBounded'
  BY <1>1, <1>2, <1>3 DEF IInv, OffsetsInv, CommittedIsDelivered, HooksInv,
     InFlightBounded, Settles
<1>8. BatchInv'
  <2>1. InLog(batch')
    BY <1>1, <1>2, <1>3, <1>4 DEF InLog
  <2>2. nextSeq' = nextSeq + 1 /\ oldest' + Len(finished') <= nextSeq'
    BY <1>1
  <2>3. pc' = "body" /\ failure' = "none"
    BY <1>1 DEF IInv, BatchInv
  <2>4. QED
    BY <1>1, <1>2, <1>4, <1>6, <2>1, <2>2, <2>3 DEF BatchInv
<1>9. ArrivalInv'
  BY <1>1, ArrivalKept DEF IInv
<1>10. TableInv'
  <2>1. TagOf(batch') \in Tag /\ TagOf(batch') > nextSeq
    BY <1>1, <1>2, <1>3, <1>4, NodeConstants DEF TagOf
  <2>2. \A t \in Tag : t \in Nat /\ (t > nextSeq' => t > nextSeq)
    BY <1>1, NodeConstants
  <2>3. \A t \in Tag : Expected(t) = sent[t].left /\ Expected(t)' = sent[t].left
    BY DEF Expected
  <2>4. TagOf(batch)' = TagOf(batch')
    BY DEF TagOf
  <2>5. QED
    BY <1>1, <2>1, <2>2, <2>3, <2>4 DEF IInv, TableInv
<1>11. QED
  BY <1>5, <1>6, <1>7, <1>8, <1>9, <1>10 DEF IInv

\* The batch in hand has a tag no finished batch has.
LEMMA TagInHand ==
    ASSUME IInv, batch # None, Numbering, NEW i \in 1..Len(finished)
    PROVE  TagOf(finished[i]) # TagOf(batch)
<1>1. /\ batch \in Batch /\ finished[i] \in Batch
      /\ batch.seq = oldest + Len(finished)
      /\ finished[i].seq = oldest + i - 1
  BY BatchTags DEF IInv, BatchInv, QueueInv
<1>2. Len(finished) \in Nat /\ oldest \in Nat
  BY DEF IInv, TypeOK
<1>3. batch.seq \in Nat /\ finished[i].seq \in Nat
  BY <1>1 DEF Batch
<1>4. QED
  BY <1>1, <1>2, <1>3 DEF TagOf

\* The table counts the batch's messages before librdkafka has any.
LEMMA ProduceInv ==
    ASSUME IInv, Produce, UNCHANGED pipelineVars
    PROVE  IInv'
<1> USE DEF Produce, consumerVars, pipelineVars
<1> DEFINE s == TagOf(batch)
<1>1. /\ batch \in Batch /\ s \in Tag /\ s # Untracked
      /\ Settles /\ Looping /\ Numbering
      /\ DeliveriesTypeOK /\ sent \in [Tag -> Sent]
  BY BatchTags DEF IInv, TypeOK, Settles, Looping, Numbering
<1>2. batch.rows \in Nat \ {0} /\ batch.seq \in Nat
  BY <1>1 DEF Batch
<1>3. /\ nextSeq = s /\ nextSeq \in Nat
      /\ tags[s] = None /\ sent[s].left = 0
  BY <1>1 DEF TagOf, IInv, TypeOK, BatchInv, TableInv
<1>4. /\ DeliveriesTypeOK'
      /\ tags'[s] # None /\ tags'[s].pending = 0 + batch.rows /\ ~tags'[s].failed
      /\ \A t \in Tag : t # s => tags'[t] = tags[t]
  BY <1>1, <1>2, <1>3, AddEffect
<1>5. TypeOK'
  BY <1>4 DEF IInv, TypeOK
<1>6. QueueInv' /\ EndOf(Len(finished))' = EndOf(Len(finished))
  BY <1>1, QueueKept DEF IInv
<1>7. OffsetsInv' /\ HooksInv' /\ InFlightBounded'
  BY <1>1 DEF IInv, OffsetsInv, CommittedIsDelivered, HooksInv, InFlightBounded
<1>8. BatchInv'
  BY <1>1, <1>2, <1>6 DEF IInv, BatchInv
<1>9. TableInv'
  <2>1. TagOf(batch)' = s
    BY DEF TagOf
  <2>2. \A t \in Tag : Expected(t) = sent[t].left
    BY DEF Expected
  <2>3. \A t \in Tag : t # s => Expected(t)' = sent[t].left
    BY <2>1 DEF Expected
  <2>4. Expected(s)' = 0 + batch.rows
    BY <1>3, <2>1 DEF Expected
  <2>5. ASSUME NEW t \in Tag
        PROVE  /\ tags'[t] # None => tags'[t].pending = Expected(t)'
               /\ tags'[t] = None => sent'[t].left = 0
               /\ t > nextSeq' => tags'[t] = None
    <3>1. CASE t = s
      BY <3>1, <1>3, <1>4, <2>4
    <3>2. CASE t # s
      BY <3>2, <1>1, <1>4, <2>2, <2>3 DEF IInv, TableInv
    <3>3. QED
      BY <3>1, <3>2
  <2>6. QED
    BY <1>3, <1>4, <2>1, <2>5 DEF TableInv
<1>10. ArrivalInv'
  <2>1. \A i \in 1..Len(finished) : TagOf(finished[i]) # s /\ TagOf(finished[i]) \in Tag
    BY <1>1, TagInHand, BatchTags
  <2>2. QED
    BY <1>1, <1>4, <2>1 DEF IInv, ArrivalInv
<1>11. QED
  BY <1>5, <1>6, <1>7, <1>8, <1>9, <1>10 DEF IInv

\* What done() does with a batch whose output is handed over, as far as the
\* queue and the numbers go.
LEMMA FinishQueue ==
    ASSUME IInv, pc \in {"body", "send"}, batch # None, Finish, pc' = "settle",
           delivered \subseteq delivered', UNCHANGED <<failure, committed, consumerVars>>
    PROVE  /\ QueueInv' /\ BatchInv' /\ OffsetsInv' /\ HooksInv' /\ InFlightBounded'
           /\ finished' \in Seq(Batch)
           /\ Len(finished') = Len(finished) + 1 /\ Len(finished) \in Nat
           /\ \A i \in 1..Len(finished) : finished'[i] = finished[i]
           /\ finished'[Len(finished) + 1] = batch
           /\ Settles /\ Numbering
<1> USE DEF Finish, consumerVars
<1>1. /\ finished \in Seq(Batch) /\ batch \in Batch
      /\ Settles /\ Looping /\ Numbering /\ Looping' /\ Settles'
      /\ oldest \in Nat /\ requested \in Nat
  BY BatchTags DEF IInv, TypeOK, Settles, Looping, Numbering
<1>2. /\ finished' \in Seq(Batch) /\ Len(finished) \in Nat
      /\ Len(finished') = Len(finished) + 1
      /\ \A i \in 1..Len(finished) : finished'[i] = finished[i]
      /\ finished'[Len(finished) + 1] = batch
  BY <1>1, AppendEffect
<1>3. /\ InLog(batch)
      /\ Joins(EndOf(Len(finished)), batch.first)
      /\ batch.seq = oldest + Len(finished)
      /\ position = batch.next /\ nextSeq = batch.seq + 1
  BY <1>1 DEF IInv, BatchInv
<1>4. \A i \in 0..Len(finished) : EndOf(i)' = EndOf(i)
  BY <1>2 DEF EndOf
<1>5. EndOf(Len(finished))' = batch.next
  BY <1>2 DEF EndOf
<1>6. QueueInv'
  <2> SUFFICES ASSUME NEW i \in 1..Len(finished')
               PROVE  /\ InLog(finished'[i])
                      /\ Joins(EndOf(i - 1)', finished'[i].first)
                      /\ finished'[i].seq = oldest + i - 1
    BY DEF QueueInv
  <2>1. i - 1 \in 0..Len(finished) /\ EndOf(i - 1)' = EndOf(i - 1)
    BY <1>2, <1>4
  <2>2. CASE i = Len(finished) + 1
    <3>1. i - 1 = Len(finished)
      BY <1>2, <2>2
    <3>2. oldest + i - 1 = oldest + Len(finished)
      BY <1>1, <1>2, <2>2
    <3>3. QED
      BY <1>2, <1>3, <2>1, <2>2, <3>1, <3>2
  <2>3. CASE i # Len(finished) + 1
    <3>1. i \in 1..Len(finished)
      BY <1>2, <2>3
    <3>2. QED
      BY <1>1, <1>2, <2>1, <3>1 DEF IInv, QueueInv
  <2>4. QED
    BY <2>2, <2>3
<1>7. BatchInv'
  <2>1. batch.next \in Nat /\ batch.seq \in Nat
    BY <1>1 DEF Batch
  <2>2. /\ batch' = None /\ position' = position /\ nextSeq' = nextSeq
        /\ oldest' = oldest /\ failure' = "none"
    BY <1>1 DEF IInv, BatchInv
  <2>3. nextSeq = oldest + Len(finished')
    BY <1>1, <1>2, <1>3, <2>1
  <2>4. EndOf(Len(finished))' = position
    BY <1>3, <1>5
  <2>5. Joins(EndOf(Len(finished))', position')
    BY <1>3, <2>1, <2>2, <2>4 DEF Joins
  <2>6. oldest + Len(finished') <= nextSeq
    BY <1>1, <1>2, <2>3
  <2>7. QED
    BY <2>2, <2>3, <2>5, <2>6 DEF BatchInv
<1>8. OffsetsInv' /\ HooksInv' /\ InFlightBounded'
  BY <1>1 DEF IInv, OffsetsInv, CommittedIsDelivered, HooksInv, InFlightBounded
<1>9. QED
  BY <1>1, <1>2, <1>6, <1>7, <1>8

LEMMA DoneWithoutOutputInv ==
    ASSUME IInv, DoneWithoutOutput
    PROVE  IInv'
<1> USE DEF DoneWithoutOutput, ProduceNothing
<1> DEFINE s == TagOf(batch)
<1>1. /\ batch # None /\ pc = "body" /\ batch \in Batch /\ s \in Tag
      /\ Covers(batch) \subseteq 0 .. (LogEnd - 1)
  BY BatchTags
<1>2. /\ QueueInv' /\ BatchInv' /\ OffsetsInv' /\ HooksInv' /\ InFlightBounded'
      /\ finished' \in Seq(Batch)
      /\ Len(finished') = Len(finished) + 1 /\ Len(finished) \in Nat
      /\ \A i \in 1..Len(finished) : finished'[i] = finished[i]
      /\ finished'[Len(finished) + 1] = batch
      /\ Settles /\ Numbering
  BY <1>1, FinishQueue
<1>3. TypeOK'
  BY <1>1, <1>2 DEF Finish, consumerVars, IInv, TypeOK, DeliveriesTypeOK
<1>4. \A t \in Tag : Expected(t) = sent[t].left /\ Expected(t)' = sent[t].left
  BY <1>1 DEF Expected
<1>5. TableInv'
  BY <1>1, <1>2, <1>4 DEF consumerVars, IInv, TableInv
<1>6. ArrivalInv'
  <2> SUFFICES ASSUME NEW i \in 1..Len(finished')
               PROVE  LET t == TagOf(finished'[i])
                          c == Covers(finished'[i])
                      IN  /\ tags[t] = None => c \subseteq delivered'
                          /\ tags[t] # None =>
                               /\ sent[t].covers = c
                               /\ sent[t].bad => tags[t].failed
                               /\ sent[t].left = 0 /\ ~sent[t].bad => c \subseteq delivered'
    BY DEF ArrivalInv
  <2>1. CASE i = Len(finished) + 1
    <3>1. finished'[i] = batch /\ tags[s] = None
      BY <1>1, <1>2, <2>1 DEF IInv, TableInv
    <3>2. QED
      BY <3>1
  <2>2. CASE i # Len(finished) + 1
    <3>1. i \in 1..Len(finished) /\ finished'[i] = finished[i]
      BY <1>2, <2>2
    <3>2. delivered \subseteq delivered'
      OBVIOUS
    <3>3. QED
      BY <1>2, <3>1, <3>2 DEF IInv, ArrivalInv
  <2>3. QED
    BY <2>1, <2>2
<1>7. QED
  BY <1>2, <1>3, <1>5, <1>6 DEF IInv

LEMMA DoneSentInv ==
    ASSUME IInv, DoneSent
    PROVE  IInv'
<1> USE DEF DoneSent, Send
<1> DEFINE s == TagOf(batch)
<1>1. /\ batch # None /\ pc = "send" /\ batch \in Batch /\ s \in Tag
      /\ Covers(batch) \subseteq 0 .. (LogEnd - 1)
  BY BatchTags DEF IInv, BatchInv, Looping
<1>2. /\ QueueInv' /\ BatchInv' /\ OffsetsInv' /\ HooksInv' /\ InFlightBounded'
      /\ finished' \in Seq(Batch)
      /\ Len(finished') = Len(finished) + 1 /\ Len(finished) \in Nat
      /\ \A i \in 1..Len(finished) : finished'[i] = finished[i]
      /\ finished'[Len(finished) + 1] = batch
      /\ Settles /\ Numbering
  BY <1>1, FinishQueue
<1>3. /\ batch.rows \in Nat \ {0} /\ sent \in [Tag -> Sent]
      /\ sent[s].left = 0 /\ tags[s] # None
      /\ \A t \in Tag : tags[t] # None => tags[t].pending = Expected(t)
  <2>1. batch.rows \in Nat \ {0}
    BY <1>1 DEF Batch, IInv, BatchInv
  <2>2. sent \in [Tag -> Sent]
    BY DEF IInv, TypeOK
  <2>3. /\ sent[s].left = 0 /\ tags[s] # None
        /\ \A t \in Tag : tags[t] # None => tags[t].pending = Expected(t)
    BY <1>1, <1>2 DEF IInv, TableInv
  <2>4. QED
    BY <2>1, <2>2, <2>3
<1>4. /\ sent' \in [Tag -> Sent]
      /\ sent'[s].left = 0 + batch.rows /\ ~sent'[s].bad
      /\ sent'[s].covers = Covers(batch)
      /\ \A t \in Tag : t # s => sent'[t] = sent[t]
  <2> DEFINE new == [left |-> 0 + batch.rows, bad |-> FALSE, covers |-> Covers(batch)]
  <2>1. new \in Sent
    BY <1>1, <1>3
  <2>2. sent' = [sent EXCEPT ![s] = new]
    BY <1>3
  <2>3. new.left = 0 + batch.rows /\ ~new.bad /\ new.covers = Covers(batch)
    OBVIOUS
  <2> HIDE DEF new
  <2>4. QED
    BY <1>1, <1>3, <2>1, <2>2, <2>3
<1>5. TypeOK'
  BY <1>1, <1>2, <1>4 DEF Finish, consumerVars, IInv, TypeOK, DeliveriesTypeOK
<1>6. \A t \in Tag : Expected(t)' = Expected(t)
  BY <1>1, <1>3, <1>4 DEF Expected
<1>7. TableInv'
  BY <1>1, <1>2, <1>3, <1>4, <1>6 DEF consumerVars, IInv, TableInv
<1>8. ArrivalInv'
  <2> SUFFICES ASSUME NEW i \in 1..Len(finished')
               PROVE  LET t == TagOf(finished'[i])
                          c == Covers(finished'[i])
                      IN  /\ tags[t] = None => c \subseteq delivered
                          /\ tags[t] # None =>
                               /\ sent'[t].covers = c
                               /\ sent'[t].bad => tags[t].failed
                               /\ sent'[t].left = 0 /\ ~sent'[t].bad => c \subseteq delivered
    BY DEF ArrivalInv
  <2>1. CASE i = Len(finished) + 1
    <3>1. finished'[i] = batch /\ sent'[s].left # 0
      BY <1>2, <1>3, <1>4, <2>1
    <3>2. QED
      BY <1>3, <1>4, <3>1
  <2>2. CASE i # Len(finished) + 1
    <3>1. i \in 1..Len(finished) /\ finished'[i] = finished[i]
      BY <1>2, <2>2
    <3>2. TagOf(finished[i]) # s /\ TagOf(finished[i]) \in Tag
      BY <1>1, <1>2, <3>1, TagInHand, BatchTags
    <3>3. sent'[TagOf(finished[i])] = sent[TagOf(finished[i])]
      BY <1>4, <3>2
    <3>4. QED
      BY <1>2, <3>1, <3>3 DEF IInv, ArrivalInv
  <2>3. QED
    BY <2>1, <2>2
<1>9. QED
  BY <1>2, <1>5, <1>7, <1>8 DEF IInv

\* A report, good or bad, counts down the table and librdkafka's own count.
LEMMA ReportInv ==
    ASSUME IInv, NEW t \in Tag, NEW bad \in BOOLEAN, sent[t].left > 0,
           sent' = [sent EXCEPT ![t] = [left |-> @.left - 1, bad |-> @.bad \/ bad,
                                        covers |-> @.covers]],
           IF sent[t].left = 1 /\ ~sent'[t].bad
             THEN delivered' = delivered \cup sent[t].covers
             ELSE delivered' = delivered,
           Settle(t, 1, bad),
           faults' \in Nat,
           UNCHANGED <<loopVars, consumerVars, committed, pipelineVars>>
    PROVE  IInv'
<1> USE DEF loopVars, consumerVars, pipelineVars
<1>1. /\ sent \in [Tag -> Sent]
      /\ sent' \in [Tag -> Sent]
      /\ sent'[t].left = sent[t].left - 1
      /\ sent'[t].bad <=> (sent[t].bad \/ bad)
      /\ sent'[t].covers = sent[t].covers
      /\ \A u \in Tag : u # t => sent'[u] = sent[u]
  BY DEF IInv, TypeOK
<1>2. /\ DeliveriesTypeOK'
      /\ tags'[t] = None <=> tags[t] = None
      /\ tags[t] # None =>
           /\ tags'[t].pending = SaturatingSub(tags[t].pending, 1)
           /\ tags'[t].failed <=> (tags[t].failed \/ bad)
      /\ \A u \in Tag : u # t => tags'[u] = tags[u]
  BY SettleEffect DEF IInv, TypeOK
<1>3. delivered \subseteq delivered' /\ delivered' \subseteq 0 .. (LogEnd - 1)
  BY <1>1 DEF IInv, TypeOK
<1>4. TypeOK'
  BY <1>1, <1>2, <1>3 DEF IInv, TypeOK
<1>5. QueueInv' /\ EndOf(Len(finished))' = EndOf(Len(finished))
  BY QueueKept DEF IInv, Numbering
<1>6. OffsetsInv' /\ HooksInv' /\ InFlightBounded'
  BY <1>3 DEF IInv, OffsetsInv, CommittedIsDelivered, HooksInv, InFlightBounded,
     Settles, Looping
<1>7. BatchInv'
  BY <1>5 DEF IInv, BatchInv, Looping, Numbering, Settles
<1>8. TableInv' /\ ArrivalInv'
  <2>1. CASE ~Settles
    BY <2>1 DEF TableInv, ArrivalInv, Settles
  <2>2. CASE Settles
    <3>1. /\ tags[t] # None /\ tags[t].pending = Expected(t)
          /\ ~(pc = "send" /\ t = TagOf(batch))
          /\ ~(pc = "body" /\ t = TagOf(batch))
      BY <2>2 DEF IInv, TableInv
    <3>2. /\ Expected(t) = sent[t].left /\ Expected(t)' = sent'[t].left
          /\ \A u \in Tag : u # t => Expected(u)' = Expected(u)
          /\ TagOf(batch)' = TagOf(batch)
      BY <1>1, <3>1 DEF Expected, TagOf
    <3>3. tags'[t].pending = Expected(t)' /\ tags'[t] # None
      <4>1. sent[t].left \in Nat
        BY <1>1
      <4>2. QED
        BY <1>1, <1>2, <3>1, <3>2, <4>1 DEF SaturatingSub
    <3>4. pc \in {"body", "send"} => TagOf(batch) \in Tag
      BY <2>2, BatchTags DEF IInv, BatchInv, Looping
    <3>5. TableInv'
      <4>1. ASSUME NEW u \in Tag
            PROVE  /\ tags'[u] # None => tags'[u].pending = Expected(u)'
                   /\ tags'[u] = None => sent'[u].left = 0
                   /\ u > nextSeq => tags'[u] = None
        BY <1>1, <1>2, <2>2, <3>1, <3>2, <3>3 DEF IInv, TableInv
      <4>2. /\ pc = "body" => tags'[TagOf(batch)] = None
            /\ pc = "send" => /\ tags'[TagOf(batch)] # None
                              /\ ~tags'[TagOf(batch)].failed
                              /\ sent'[TagOf(batch)].left = 0
        BY <1>1, <1>2, <2>2, <3>1, <3>4 DEF IInv, TableInv
      <4>3. QED
        BY <3>2, <4>1, <4>2 DEF TableInv
    <3>6. ArrivalInv'
      <4> SUFFICES ASSUME NEW i \in 1..Len(finished)
                   PROVE  LET u == TagOf(finished[i])
                              c == Covers(finished[i])
                          IN  /\ tags'[u] = None => c \subseteq delivered'
                              /\ tags'[u] # None =>
                                   /\ sent'[u].covers = c
                                   /\ sent'[u].bad => tags'[u].failed
                                   /\ sent'[u].left = 0 /\ ~sent'[u].bad => c \subseteq delivered'
                              /\ pc = "commit" /\ i = 1 => tags'[u] = None
        BY DEF ArrivalInv
      <4> DEFINE u == TagOf(finished[i])
      <4>1. u \in Tag
        BY BatchTags
      <4>2. /\ tags[u] = None => Covers(finished[i]) \subseteq delivered
            /\ tags[u] # None =>
                 /\ sent[u].covers = Covers(finished[i])
                 /\ sent[u].bad => tags[u].failed
                 /\ sent[u].left = 0 /\ ~sent[u].bad => Covers(finished[i]) \subseteq delivered
            /\ pc = "commit" /\ i = 1 => tags[u] = None
        BY <2>2 DEF IInv, ArrivalInv
      <4>3. CASE u # t
        BY <1>1, <1>2, <1>3, <4>1, <4>2, <4>3
      <4>4. CASE u = t
        <5>1. sent'[t].left = 0 => sent[t].left = 1
          BY <1>1
        <5>2. sent'[t].left = 0 /\ ~sent'[t].bad => Covers(finished[i]) \subseteq delivered'
          BY <3>1, <4>2, <4>4, <5>1
        <5>3. QED
          BY <1>1, <1>2, <3>1, <4>2, <4>4, <5>2
      <4>5. QED
        BY <4>3, <4>4
    <3>7. QED
      BY <3>5, <3>6
  <2>3. QED
    BY <2>1, <2>2
<1>9. QED
  BY <1>4, <1>5, <1>6, <1>7, <1>8 DEF IInv

LEMMA DeliveredInv ==
    ASSUME IInv, NEW t \in Tag, Delivered(t), UNCHANGED pipelineVars
    PROVE  IInv'
<1> DEFINE new == [left |-> sent[t].left - 1, bad |-> sent[t].bad \/ FALSE,
                   covers |-> sent[t].covers]
<1>1. sent[t] \in Sent /\ sent \in [Tag -> Sent] /\ faults \in Nat
  BY DEF IInv, TypeOK
<1>2. [sent[t] EXCEPT !.left = @ - 1] = new
  BY <1>1
<1>3. sent' = [sent EXCEPT ![t] = new]
  BY <1>2 DEF Delivered
<1>4. sent'[t].bad <=> sent[t].bad
  BY <1>1, <1>3
<1>5. IF sent[t].left = 1 /\ ~sent'[t].bad
        THEN delivered' = delivered \cup sent[t].covers
        ELSE delivered' = delivered
  BY <1>4 DEF Delivered
<1>6. Settle(t, 1, FALSE) /\ faults' = faults /\ sent[t].left > 0
      /\ UNCHANGED <<loopVars, consumerVars, committed>>
  BY DEF Delivered
<1>7. QED
  BY <1>1, <1>3, <1>5, <1>6, ReportInv

LEMMA LostInv ==
    ASSUME IInv, NEW t \in Tag, Lost(t), UNCHANGED pipelineVars
    PROVE  IInv'
<1> DEFINE new == [left |-> sent[t].left - 1, bad |-> sent[t].bad \/ TRUE,
                   covers |-> sent[t].covers]
<1>1. sent[t] \in Sent /\ sent \in [Tag -> Sent] /\ faults \in Nat
  BY DEF IInv, TypeOK
<1>2. sent' = [sent EXCEPT ![t] = new] /\ sent'[t].bad
  BY <1>1 DEF Lost
<1>3. /\ Settle(t, 1, TRUE) /\ sent[t].left > 0
      /\ faults' = faults + 1
      /\ UNCHANGED <<loopVars, consumerVars, delivered, committed>>
  BY DEF Lost, Fault
<1>4. faults' \in Nat
  BY <1>1, <1>3
<1>5. QED
  BY <1>2, <1>3, <1>4, ReportInv

-----------------------------------------------------------------------------
(***************************************************************************)
(* The inductive invariant, and the theorems.                              *)
(***************************************************************************)

LEMMA InitInv == Init => IInv
<1> SUFFICES ASSUME Init PROVE IInv  OBVIOUS
<1> USE NodeConstants DEF Init, BaseInit, DeliveriesInit
<1>1. NothingSent \in Sent /\ NothingSent.left = 0
  BY DEF NothingSent
<1>2. TypeOK
  <2>1. stopRequested \in BOOLEAN
    OBVIOUS
  <2>2. sent \in [Tag -> Sent] /\ DeliveriesTypeOK
    BY <1>1 DEF DeliveriesTypeOK
  <2>3. QED
    BY <2>1, <2>2 DEF TypeOK
<1>3. OffsetsInv
  BY DEF OffsetsInv, CommittedIsDelivered, Looping, Skipped
<1>4. QueueInv /\ BatchInv
  BY DEF QueueInv, BatchInv, EndOf, Joins, Looping, Numbering, Settles
<1>5. TableInv /\ ArrivalInv
  BY <1>1 DEF TableInv, ArrivalInv, Expected
<1>6. HooksInv /\ InFlightBounded
  BY MaxInFlightAssumption DEF HooksInv, InFlightBounded, Settles
<1>7. QED
  BY <1>2, <1>3, <1>4, <1>5, <1>6 DEF IInv

\* What a rewind is given is a batch.
LEMMA UncommittedIsBatch ==
    ASSUME IInv, OldestUncommitted # None
    PROVE  OldestUncommitted \in Batch
<1>1. finished \in Seq(Batch) /\ batch \in Batch \cup {None}
  BY DEF IInv, TypeOK
<1>2. CASE finished = <<>>
  BY <1>1, <1>2 DEF OldestUncommitted
<1>3. CASE finished # <<>>
  BY <1>1, <1>3, TailEffect DEF OldestUncommitted
<1>4. QED
  BY <1>2, <1>3

LEMMA NextInv ==
    ASSUME ~NodeSwallows, IInv, [Next]_vars
    PROVE  IInv'
<1>1. CASE NodeCode
  BY <1>1, DoneWithoutOutputInv, DoneSentInv, RequestEventInv, ProduceInv DEF NodeCode
<1>2. CASE Reading
  BY <1>2, ReadBatchInv, ReadEmptyInv, ReadUndecodableInv DEF Reading, Fetch
<1>3. CASE Settling
  BY <1>3, SettleReturnsInv, SettleDeliveredInv, LeavesInv, CommitHeadInv, RunHookInv
     DEF Settling
<1>4. CASE Exiting
  <2>1. CASE Rewind(OldestUncommitted) /\ UNCHANGED pipelineVars
    BY <2>1, UncommittedIsBatch, RewindInv DEF Rewind
  <2>2. QED
    BY <1>4, <2>1, ExitCleanInv, LeavesInv DEF Exiting
<1>5. CASE Faults
  <2>1. CASE SignalStop /\ UNCHANGED pipelineVars
    <3>1. TypeOK' /\ committed' <= requested
      BY <2>1 DEF SignalStop, Fault, consumerVars, outputVars, pipelineVars, IInv,
         TypeOK, DeliveriesTypeOK, OffsetsInv, CommittedIsDelivered
    <3>2. QED
      BY <2>1, <3>1, Unconcerned DEF SignalStop
  <2>2. QED
    BY <1>5, <2>1, LeavesInv, HookFailsInv, BodyBreaksInv, SignalInReadInv, LostInv,
       CrashInv DEF Faults
<1>6. CASE Reports
  BY <1>6, DeliveredInv DEF Reports
<1>7. CASE Broker
  <2>1. TypeOK' /\ committed' <= requested
    BY <1>7 DEF Broker, CommitLands, loopVars, consumerVars, outputVars, pipelineVars,
       IInv, TypeOK, DeliveriesTypeOK
  <2>2. QED
    BY <1>7, <2>1, Unconcerned DEF Broker, CommitLands, loopVars
<1>8. CASE Supervisor
  BY <1>8, RestartInv DEF Supervisor
<1>9. CASE UNCHANGED vars
  <2>1. TypeOK' /\ committed' <= requested
    BY <1>9 DEF vars, baseVars, loopVars, consumerVars, outputVars, pipelineVars,
       IInv, TypeOK, DeliveriesTypeOK, OffsetsInv, CommittedIsDelivered
  <2>2. QED
    BY <1>9, <2>1, Unconcerned DEF vars, baseVars, loopVars
<1>10. QED
  BY <1>1, <1>2, <1>3, <1>4, <1>5, <1>6, <1>7, <1>8, <1>9 DEF Next, LoopThread

\* The inductive invariant holds of every behaviour.
THEOREM Invariance == ~NodeSwallows /\ Spec => []IInv
<1> SUFFICES ASSUME ~NodeSwallows PROVE Spec => []IInv
  OBVIOUS
<1>1. IInv /\ [Next]_vars => IInv'
  BY NextInv
<1>2. QED
  BY InitInv, <1>1, PTL DEF Spec

\* The state stays in its types (PipelinedNode, all of its variables).
THEOREM TypeCorrect == ~NodeSwallows /\ Spec => []TypeOK
<1>1. IInv => TypeOK
  BY DEF IInv
<1>2. QED
  BY Invariance, <1>1, PTL

\* Nothing behind the committed offset is undelivered, for every log, batch
\* size, number of batches in flight and number of faults (PipelinedNode.done,
\* _settle).
THEOREM CommittedSafe == ~NodeSwallows /\ Spec => []CommittedIsDelivered
<1>1. IInv => CommittedIsDelivered
  BY DEF IInv, OffsetsInv
<1>2. QED
  BY Invariance, <1>1, PTL

\* The node's code never holds a batch while more than max_in_flight finished
\* ones wait (PipelinedNode.done).
THEOREM Bounded == ~NodeSwallows /\ Spec => []InFlightBounded
<1>1. IInv => InFlightBounded
  BY DEF IInv
<1>2. QED
  BY Invariance, <1>1, PTL

\* after_commit runs once for each committed batch, in read order, and has run
\* for all of them whenever the node's code does (PipelinedNode._settle).
THEOREM HooksInOrder == ~NodeSwallows /\ Spec => []HooksFollowCommits
<1>1. IInv => HooksFollowCommits
  <2> SUFFICES ASSUME IInv PROVE HooksFollowCommits
    OBVIOUS
  <2>1. pc \in {"event", "read", "body", "send"} => Settles /\ pc # "hook"
    BY DEF Settles
  <2>2. QED
    BY <2>1 DEF IInv, HooksInv, HooksFollowCommits
<1>2. QED
  BY Invariance, <1>1, PTL

\* The oldest uncommitted batch is the consumer's oldest outstanding one, and
\* only dropped messages lie between the committed offset and it.
LEMMA UncommittedIsOldest ==
    ASSUME IInv, pc = "rewind", OldestUncommitted # None
    PROVE  /\ OldestUncommitted.seq = oldest
           /\ Joins(requested, OldestUncommitted.first)
<1>1. finished \in Seq(Batch) /\ Numbering /\ oldest \in Nat
  BY DEF IInv, TypeOK, Numbering
<1>2. CASE finished = <<>>
  <2>1. OldestUncommitted = batch /\ batch # None /\ Len(finished) = 0
    BY <1>2 DEF OldestUncommitted
  <2>2. batch.seq = oldest + 0 /\ Joins(EndOf(0), batch.first)
    BY <1>1, <2>1 DEF IInv, BatchInv
  <2>3. QED
    BY <1>1, <2>1, <2>2 DEF EndOf
<1>3. CASE finished # <<>>
  <2>1. OldestUncommitted = finished[1] /\ 1 \in 1..Len(finished)
    BY <1>1, <1>3, TailEffect DEF OldestUncommitted
  <2>2. finished[1].seq = oldest + 1 - 1 /\ Joins(EndOf(1 - 1), finished[1].first)
    BY <1>1, <2>1 DEF IInv, QueueInv
  <2>3. QED
    BY <1>1, <2>1, <2>2 DEF EndOf
<1>4. QED
  BY <1>2, <1>3

\* KafkaConsumer._check_oldest never refuses what the harness commits or
\* rewinds.
THEOREM NeverRefused == ~NodeSwallows /\ Spec => []OrderNeverRefused
<1>1. IInv => OrderNeverRefused
  <2> SUFFICES ASSUME IInv PROVE OrderNeverRefused
    OBVIOUS
  <2>1. ASSUME pc = "commit" PROVE Head(finished).seq = oldest
    <3>1. finished \in Seq(Batch) /\ finished # <<>> /\ Numbering /\ oldest \in Nat
      BY <2>1 DEF IInv, TypeOK, BatchInv, Numbering
    <3>2. Head(finished) = finished[1] /\ 1 \in 1..Len(finished)
      BY <3>1, TailEffect
    <3>3. finished[1].seq = oldest + 1 - 1
      BY <3>1, <3>2 DEF IInv, QueueInv
    <3>4. QED
      BY <3>1, <3>2, <3>3
  <2>2. QED
    BY <2>1, UncommittedIsOldest DEF OrderNeverRefused
<1>2. QED
  BY Invariance, <1>1, PTL

\* A failed loop is rewound to the committed offset, but for dropped messages
\* in front of the oldest uncommitted batch (_NodeBase.__exit__).
THEOREM RewindsExact == ~NodeSwallows /\ Spec => RewindsToUncommitted
<1> DEFINE Exact == pc = "rewind" /\ oldest' # oldest =>
                      /\ requested <= position'
                      /\ requested .. (position' - 1) \subseteq Skipped
<1>1. IInv /\ [Next]_vars => [Exact]_vars
  <2> SUFFICES ASSUME IInv, Next, pc = "rewind", oldest' # oldest
               PROVE  /\ requested <= position'
                      /\ requested .. (position' - 1) \subseteq Skipped
    OBVIOUS
  <2>1. Rewind(OldestUncommitted)
    BY DEF Next, LoopThread, NodeCode, Reading, Settling, Exiting, Reports, Broker,
       Supervisor, Faults, DoneWithoutOutput, ProduceNothing, DoneSent, Send, Produce,
       RequestEvent, Fetch, ReadBatch, ReadEmpty, ReadUndecodable, SettleReturns,
       SettleDelivered, SettleFails, CommitHead, RunHook, ExitClean, ExitFailed,
       NoRewind, Close, CommitFails, HookFails, BodyFails, BodyBreaks, SendFails,
       RewindFails, SignalStop, SignalInRead, SignalForce, Lost, Crash, Delivered,
       CommitLands, Restart, consumerVars
  <2>2. OldestUncommitted # None /\ position' = OldestUncommitted.first
    BY <2>1 DEF Rewind
  <2>3. QED
    BY <2>2, UncommittedIsOldest DEF Joins
<1>2. QED
  BY Invariance, <1>1, PTL DEF Spec, RewindsToUncommitted

\* PipelinedNode implements AtLeastOnce: whatever step it takes, the committed
\* offset and the delivered output change as the promise allows, or not at all.
THEOREM Refinement == ~NodeSwallows /\ Spec => KeepsPromise
<1>1. Init => Promise!Init
  BY DEF Init, BaseInit, Promise!Init
<1>2. IInv /\ IInv' /\ [Next]_vars => [Promise!Next]_<<committed, delivered>>
  <2> SUFFICES ASSUME IInv, IInv', [Next]_vars
               PROVE  Promise!Next \/ UNCHANGED <<committed, delivered>>
    OBVIOUS
  <2>1. CASE CommitLands
    <3>1. /\ committed \in Nat /\ requested \in Nat /\ LogEnd \in Nat
          /\ committed <= requested /\ requested <= LogEnd
          /\ 0 .. (requested - 1) \subseteq delivered \cup Skipped
      BY NodeConstants DEF IInv, TypeOK, OffsetsInv, CommittedIsDelivered
    <3>2. committed' = requested /\ delivered' = delivered
      BY <2>1 DEF CommitLands, outputVars
    <3>3. QED
      BY <3>1, <3>2 DEF Promise!Next, Promise!Commit, Promise!Accounted
  <2>2. CASE delivered \subseteq delivered' /\ committed' = committed
    <3>1. delivered' \in SUBSET (0 .. (LogEnd - 1))
      BY DEF IInv, TypeOK
    <3>2. QED
      BY <2>2, <3>1 DEF Promise!Next, Promise!Deliver
  <2>3. CASE UNCHANGED <<committed, delivered>>
    BY <2>3
  <2>4. Reports \/ DoneWithoutOutput => delivered \subseteq delivered' /\ committed' = committed
    BY DEF Reports, Delivered, DoneWithoutOutput, ProduceNothing
  <2>5. LoopThread => DoneWithoutOutput \/ UNCHANGED <<committed, delivered>>
    BY DEF LoopThread, NodeCode, Reading, Settling, Exiting, DoneSent, Send, Produce,
       RequestEvent, Fetch, ReadBatch, ReadEmpty, ReadUndecodable, ReadRaises, EmptyPoll,
       SettleReturns, SettleDelivered, SettleFails, CommitHead, RunHook, ExitClean,
       ExitFailed, Rewind, NoRewind, Close, outputVars
  <2>6. Faults \/ Supervisor => UNCHANGED <<committed, delivered>>
    BY DEF Faults, Supervisor, Restart, CommitFails, HookFails, BodyFails, BodyBreaks,
       SendFails, RewindFails, SignalStop, SignalInRead, SignalForce, Lost, Crash,
       outputVars
  <2>7. UNCHANGED vars => UNCHANGED <<committed, delivered>>
    BY DEF vars, baseVars, outputVars
  <2>8. QED
    BY <2>1, <2>2, <2>3, <2>4, <2>5, <2>6, <2>7 DEF Next, Broker
<1>3. QED
  BY <1>1, <1>2, Invariance, PTL DEF Spec, KeepsPromise, Promise!Spec

=============================================================================
