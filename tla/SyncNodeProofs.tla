---------------------------- MODULE SyncNodeProofs ----------------------------
(***************************************************************************)
(* Proofs about SyncNode, for every log, batch size, format and bound, and *)
(* whether or not the node's code catches what done() raises.              *)
(*                                                                         *)
(* CommittedIsDelivered is not inductive: that a batch about to be         *)
(* committed is delivered follows from what the delivery table says of its *)
(* tag, and that no message is skipped from where the batch began.  IInv   *)
(* adds both: the table agrees with what librdkafka holds for the one tag  *)
(* in use, and the messages between the committed offset and the next      *)
(* batch are malformed ones that were dropped.                             *)
(***************************************************************************)
EXTENDS SyncNode, TLAPS

-----------------------------------------------------------------------------
(***************************************************************************)
(* What the operations on the delivery table do to one tag and the others, *)
(* and where a batch's tag and messages lie.                               *)
(***************************************************************************)

\* Whatever the table holds for a tag, or nothing, the code goes on with an entry.
LEMMA EntryType ==
    ASSUME DeliveriesTypeOK, NEW t \in Tag
    PROVE  Entry(t) \in TagState
  BY DEF DeliveriesTypeOK, Entry, TagState

\* Expecting n more reports for a tracked s.
LEMMA AddEffect ==
    ASSUME DeliveriesTypeOK, NEW s \in Tag, s # Untracked,
           NEW n \in Nat, n # 0, Add(s, n)
    PROVE  /\ DeliveriesTypeOK'
           /\ inFlight' = inFlight + n
           /\ tags'[s] # None
           /\ tags'[s].pending = (IF tags[s] = None THEN 0 ELSE tags[s].pending) + n
           /\ tags'[s].failed <=> (tags[s] # None /\ tags[s].failed)
           /\ \A t \in Tag : t # s => tags'[t] = tags[t]
<1> DEFINE new == [pending |-> Entry(s).pending + n, failed |-> Entry(s).failed]
<1>1. new \in TagState /\ new # None
  BY EntryType, NoneIsNoTagState DEF TagState
<1>2. tags' = [tags EXCEPT ![s] = new] /\ inFlight' = inFlight + n
  BY DEF Add
<1>3. tags'[s] = new /\ \A t \in Tag : t # s => tags'[t] = tags[t]
  BY <1>2 DEF DeliveriesTypeOK
<1>4. DeliveriesTypeOK'
  <2> HIDE DEF new
  <2> QED  BY <1>1, <1>2 DEF DeliveriesTypeOK
<1>5. /\ new.pending = (IF tags[s] = None THEN 0 ELSE tags[s].pending) + n
      /\ new.failed <=> (tags[s] # None /\ tags[s].failed)
  BY DEF Entry
<1>6. QED
  BY <1>1, <1>2, <1>3, <1>4, <1>5

\* n reports for s.
LEMMA SettleEffect ==
    ASSUME DeliveriesTypeOK, NEW s \in Tag, NEW n \in Nat,
           NEW error \in BOOLEAN, Settle(s, n, error)
    PROVE  /\ DeliveriesTypeOK'
           /\ inFlight' = SaturatingSub(inFlight, n)
           /\ tags'[s] = None <=> tags[s] = None
           /\ tags[s] # None =>
                /\ tags'[s].pending = SaturatingSub(tags[s].pending, n)
                /\ tags'[s].failed <=> (tags[s].failed \/ error)
           /\ \A t \in Tag : t # s => tags'[t] = tags[t]
<1>1. inFlight' = SaturatingSub(inFlight, n) /\ inFlight' \in Nat
  BY DEF Settle, SaturatingSub, DeliveriesTypeOK
<1>2. CASE tags[s] = None
  BY <1>1, <1>2 DEF Settle, DeliveriesTypeOK
<1>3. CASE tags[s] # None
  <2> DEFINE new == [pending |-> SaturatingSub(tags[s].pending, n),
                     failed  |-> tags[s].failed \/ error]
  <2>1. new \in TagState /\ new # None
    BY <1>3, NoneIsNoTagState DEF DeliveriesTypeOK, TagState, SaturatingSub
  <2>2. tags' = [tags EXCEPT ![s] = new]
    BY <1>3 DEF Settle
  <2>3. tags'[s] = new /\ \A t \in Tag : t # s => tags'[t] = tags[t]
    BY <2>2 DEF DeliveriesTypeOK
  <2>4. DeliveriesTypeOK'
    <3> HIDE DEF new
    <3> QED  BY <1>1, <2>1, <2>2 DEF DeliveriesTypeOK
  <2>5. /\ new.pending = SaturatingSub(tags[s].pending, n)
        /\ new.failed <=> (tags[s].failed \/ error)
    OBVIOUS
  <2>6. QED
    <3> HIDE DEF new
    <3> QED  BY <1>1, <1>3, <2>1, <2>3, <2>4, <2>5
<1>4. QED
  BY <1>2, <1>3

\* The table without s.
LEMMA ForgetEffect ==
    ASSUME DeliveriesTypeOK, NEW s \in Tag, Forget(s)
    PROVE  /\ DeliveriesTypeOK'
           /\ inFlight' = inFlight
           /\ tags'[s] = None
           /\ \A t \in Tag : t # s => tags'[t] = tags[t]
  BY DEF DeliveriesTypeOK, Forget

\* A numbered batch that lies in the log has a tag of its own, never the one
\* of untracked messages, and covers messages of the log only.
LEMMA BatchInLog ==
    ASSUME NEW b \in Batch, b.seq < b.next, b.next <= LogEnd
    PROVE  /\ TagOf(b) \in Tag
           /\ TagOf(b) # Untracked
           /\ Covers(b) \subseteq 0 .. (LogEnd - 1)
  BY NodeConstants DEF Batch, TagOf, Untracked, Covers

-----------------------------------------------------------------------------
(***************************************************************************)
(* The inductive invariant.                                                *)
(***************************************************************************)

\* Nothing but dropped messages lies from offset a up to offset b.
Joins(a, b) == a <= b /\ a .. (b - 1) \subseteq Skipped

\* The loop's thread is before its exit.
Looping == pc \in {"event", "read", "body", "send", "flush", "wait", "commit"}

\* Offsets: what is committed is delivered, and the loop goes on from there.
OffsetsInv ==
    /\ committed <= requested
    /\ requested <= LogEnd
    /\ 0 .. (requested - 1) \subseteq delivered \cup Skipped
    /\ Looping /\ batch = None => Joins(requested, position)
    /\ Looping => position <= LogEnd /\ nextSeq <= position

\* The batch in hand.
BatchInv ==
    /\ batch # None =>
         /\ Joins(requested, batch.first)
         /\ batch.first < batch.next /\ batch.next <= LogEnd
         /\ batch.seq < batch.next
         /\ batch.seq = oldest
         /\ Looping => position = batch.next /\ nextSeq = batch.seq + 1
    /\ Looping /\ batch = None => nextSeq = oldest
    /\ pc \in {"body", "send", "flush", "wait", "commit"} => batch # None
    /\ pc = "read" => batch = None
    /\ pc = "send" => batch.rows > 0

\* Reports still to come for t, as the table counts them: the messages being
\* handed over are counted already.
Expected(t) ==
    IF pc = "send" /\ t = TagOf(batch) THEN sent[t].left + batch.rows
    ELSE sent[t].left

\* The delivery table and librdkafka: only the batch in hand has messages out.
DeliveryInv ==
    Looping =>
        /\ \A t \in Tag :
             /\ tags[t] # None => tags[t].pending = Expected(t)
             /\ tags[t] = None => sent[t].left = 0
             /\ ~(batch # None /\ t = TagOf(batch)) =>
                    tags[t] = None /\ sent[t].left = 0
        /\ batch # None =>
             /\ inFlight = Expected(TagOf(batch))
             /\ batch.rows = 0 => tags[TagOf(batch)] = None
        /\ batch = None => inFlight = 0
        /\ pc = "send" => tags[TagOf(batch)] # None

\* From the hand-over to the commit, the table decides rightly.
ArrivalInv ==
    /\ pc \in {"flush", "wait"} =>
        LET t == TagOf(batch)
        IN  /\ tags[t] = None => Covers(batch) \subseteq delivered
            /\ tags[t] # None =>
                 /\ sent[t].covers = Covers(batch)
                 /\ sent[t].bad => tags[t].failed
                 /\ sent[t].left = 0 /\ ~sent[t].bad => Covers(batch) \subseteq delivered
    /\ pc = "wait" => sent[TagOf(batch)].left = 0
    /\ pc = "commit" => /\ Covers(batch) \subseteq delivered
                        /\ tags[TagOf(batch)] = None

IInv == TypeOK /\ OffsetsInv /\ BatchInv /\ DeliveryInv /\ ArrivalInv

\* The sets the state's parts are drawn from.
USE DEF Points, TagState, Batch, Sent

-----------------------------------------------------------------------------
(***************************************************************************)
(* The steps that change what the delivery table or librdkafka holds.      *)
(***************************************************************************)

\* The batch in hand has a tag of its own and lies in the log.
LEMMA BatchInHand ==
    ASSUME IInv, batch # None
    PROVE  /\ batch \in Batch
           /\ TagOf(batch) \in Tag
           /\ TagOf(batch) # Untracked
           /\ Covers(batch) \subseteq 0 .. (LogEnd - 1)
<1>1. batch \in Batch /\ batch.seq < batch.next /\ batch.next <= LogEnd
  BY DEF IInv, TypeOK, BatchInv
<1>2. QED
  BY <1>1, BatchInLog

LEMMA ProduceInv ==
    ASSUME IInv, Produce
    PROVE  IInv'
<1> DEFINE s == TagOf(batch)
<1>1. /\ s \in Tag
      /\ s # Untracked
      /\ batch \in Batch
  BY BatchInHand DEF Produce
<1>2. Add(s, batch.rows) /\ batch.rows \in Nat /\ batch.rows # 0
  BY <1>1 DEF Produce
<1>3. /\ DeliveriesTypeOK'
      /\ inFlight' = inFlight + batch.rows
      /\ tags'[s] # None
      /\ tags'[s].pending = (IF tags[s] = None THEN 0 ELSE tags[s].pending) + batch.rows
      /\ \A t \in Tag : t # s => tags'[t] = tags[t]
  BY <1>1, <1>2, AddEffect DEF IInv, TypeOK
<1>4. TypeOK'
  BY <1>3 DEF IInv, TypeOK, Produce, consumerVars
<1>5. OffsetsInv' /\ BatchInv' /\ ArrivalInv'
  BY DEF IInv, OffsetsInv, BatchInv, ArrivalInv, Produce, consumerVars, Looping, Joins, Skipped
<1>6. DeliveryInv'
  <2>1. \A t \in Tag : t # s => tags'[t] = None /\ sent'[t].left = 0
    BY <1>3 DEF IInv, DeliveryInv, Looping, Produce
  <2>2. sent[s].left \in Nat /\ tags[s] # None => tags[s].pending = sent[s].left
    BY <1>1 DEF IInv, TypeOK, DeliveryInv, Looping, Expected, Produce
  <2>3. tags[s] = None => sent[s].left = 0
    BY <1>1 DEF IInv, DeliveryInv, Looping, Produce
  <2>4. inFlight = sent[s].left
    BY DEF IInv, DeliveryInv, Looping, Expected, Produce
  <2>5. tags'[s].pending = sent[s].left + batch.rows
    BY <1>1, <1>2, <1>3, <2>2, <2>3 DEF IInv, TypeOK
  <2>6. Expected(s)' = sent[s].left + batch.rows /\ batch' = batch /\ pc' = "send"
    BY DEF Expected, Produce, TagOf
  <2>7. QED
    BY <1>1, <1>2, <1>3, <2>1, <2>4, <2>5, <2>6 DEF DeliveryInv, Expected, TagOf, Produce
<1>7. QED
  BY <1>4, <1>5, <1>6 DEF IInv

LEMMA DoneWithoutOutputInv ==
    ASSUME IInv, DoneWithoutOutput
    PROVE  IInv'
<1> USE DEF DoneWithoutOutput, ProduceNothing, consumerVars
<1> DEFINE s == TagOf(batch)
<1>1. batch # None /\ s \in Tag /\ Covers(batch) \subseteq 0 .. (LogEnd - 1)
  BY BatchInHand
<1>2. TypeOK'
  BY <1>1 DEF IInv, TypeOK, DeliveriesTypeOK
<1>3. OffsetsInv' /\ BatchInv'
  BY DEF IInv, OffsetsInv, BatchInv, Looping, Joins, Skipped
<1>4. DeliveryInv'
  BY DEF IInv, DeliveryInv, Looping, Expected, TagOf
<1>5. ArrivalInv'
  <2>1. Covers(batch)' \subseteq delivered' /\ batch' = batch
    BY DEF Covers, Skipped
  <2>2. pc' = "flush" /\ tags'[s] = None
    BY <1>1 DEF IInv, DeliveryInv, Looping
  <2>3. QED
    BY <1>1, <2>1, <2>2 DEF ArrivalInv, TagOf
<1>6. QED
  BY <1>2, <1>3, <1>4, <1>5 DEF IInv

LEMMA DoneSentInv ==
    ASSUME IInv, DoneSent
    PROVE  IInv'
<1> USE DEF DoneSent, Send, consumerVars
<1> DEFINE s == TagOf(batch)
           new == [left |-> sent[s].left + batch.rows, bad |-> FALSE,
                   covers |-> Covers(batch)]
<1>1. /\ batch \in Batch
      /\ s \in Tag
      /\ Covers(batch) \subseteq 0 .. (LogEnd - 1)
      /\ batch.rows > 0
      /\ sent \in [Tag -> Sent]
  BY BatchInHand DEF IInv, TypeOK, BatchInv
<1>2. sent' = [sent EXCEPT ![s] = new]
  OBVIOUS
<1>3. /\ sent'[s] = new
      /\ \A t \in Tag : t # s => sent'[t] = sent[t]
  BY <1>1, <1>2
<1>4. TypeOK'
  BY <1>1, <1>2 DEF IInv, TypeOK, DeliveriesTypeOK
<1>5. OffsetsInv' /\ BatchInv'
  BY DEF IInv, OffsetsInv, BatchInv, Looping, Joins, Skipped
<1>6. DeliveryInv'
  BY <1>1, <1>3 DEF IInv, TypeOK, DeliveryInv, Looping, Expected, TagOf
<1>7. ArrivalInv'
  <2>1. /\ tags'[s] # None
        /\ sent'[s].covers = Covers(batch)
        /\ sent'[s].left > 0
        /\ ~sent'[s].bad
    BY <1>1, <1>3 DEF IInv, DeliveryInv, Looping
  <2>2. batch' = batch /\ pc' = "flush" /\ Covers(batch)' = Covers(batch)
    BY DEF Covers, Skipped
  <2>3. QED
    BY <2>1, <2>2 DEF ArrivalInv, TagOf
<1>8. QED
  BY <1>4, <1>5, <1>6, <1>7 DEF IInv

LEMMA WaitDeliveredInv ==
    ASSUME IInv, WaitDelivered
    PROVE  IInv'
<1> USE DEF WaitDelivered, consumerVars
<1> DEFINE s == TagOf(batch)
<1>1. batch # None /\ batch \in Batch /\ s \in Tag
  BY BatchInHand DEF IInv, BatchInv
<1>2. /\ DeliveriesTypeOK'
      /\ inFlight' = inFlight
      /\ tags'[s] = None
      /\ \A t \in Tag : t # s => tags'[t] = tags[t]
  BY <1>1, ForgetEffect DEF WaitOk, IInv, TypeOK
<1>3. sent[s].left = 0 /\ Covers(batch) \subseteq delivered
  BY <1>1 DEF IInv, TypeOK, DeliveriesTypeOK, ArrivalInv, WaitOk
<1>4. TypeOK'
  BY <1>2 DEF IInv, TypeOK
<1>5. OffsetsInv' /\ BatchInv'
  BY DEF IInv, OffsetsInv, BatchInv, Looping, Joins, Skipped
<1>6. DeliveryInv'
  BY <1>1, <1>2, <1>3 DEF IInv, DeliveryInv, Looping, Expected, TagOf
<1>7. ArrivalInv'
  BY <1>2, <1>3 DEF ArrivalInv, TagOf, Covers, Skipped
<1>8. QED
  BY <1>4, <1>5, <1>6, <1>7 DEF IInv

\* The commit is where the offsets meet: what lies behind the batch was
\* accounted for, and the batch itself is delivered.
LEMMA CommitBatchInv ==
    ASSUME IInv, CommitBatch
    PROVE  IInv'
<1> USE DEF CommitBatch, CommitOldest, outputVars
<1> DEFINE s == TagOf(batch)
<1>1. batch # None /\ batch \in Batch /\ s \in Tag
  BY BatchInHand DEF IInv, BatchInv
<1>2. TypeOK'
  BY <1>1 DEF IInv, TypeOK, DeliveriesTypeOK
<1>3. OffsetsInv'
  <2>1. /\ requested \in Nat /\ committed \in Nat
        /\ requested <= batch.first /\ batch.next <= LogEnd
        /\ requested .. (batch.first - 1) \subseteq Skipped
        /\ committed <= requested
    BY <1>1 DEF IInv, TypeOK, OffsetsInv, BatchInv, Joins
  <2>2. batch.first < batch.next
    BY <1>1 DEF IInv, BatchInv
  <2>3. Covers(batch) \subseteq delivered
    BY DEF IInv, ArrivalInv
  <2>4. 0 .. (batch.next - 1) \subseteq delivered \cup Skipped
    BY <1>1, <2>1, <2>2, <2>3 DEF IInv, OffsetsInv, Covers
  <2>5. position = batch.next /\ position <= LogEnd /\ nextSeq <= position
    BY DEF IInv, OffsetsInv, BatchInv, Looping
  <2>6. QED
    BY <1>1, <2>1, <2>2, <2>4, <2>5 DEF OffsetsInv, Joins, Skipped
<1>4. BatchInv'
  BY <1>1 DEF IInv, TypeOK, BatchInv, Looping
<1>5. DeliveryInv'
  BY <1>1 DEF IInv, DeliveryInv, ArrivalInv, Looping, Expected
<1>6. ArrivalInv'
  BY DEF ArrivalInv
<1>7. QED
  BY <1>2, <1>3, <1>4, <1>5, <1>6 DEF IInv

\* What was handed over stays out, the rest is cancelled.
LEMMA SendFailsInv ==
    ASSUME IInv, SendFails
    PROVE  IInv'
<1> USE DEF SendFails, consumerVars
<1> DEFINE s == TagOf(batch)
<1>1. /\ batch # None /\ batch \in Batch /\ s \in Tag
      /\ sent \in [Tag -> Sent]
      /\ DeliveriesTypeOK
  BY BatchInHand DEF IInv, TypeOK, BatchInv
<1>2. PICK m \in 0 .. (batch.rows - 1) :
        /\ Settle(s, batch.rows - m, FALSE)
        /\ sent' = [sent EXCEPT ![s] = [left |-> @.left + m, bad |-> TRUE, covers |-> {}]]
  BY DEF Cancel
<1>3. /\ batch.rows - m \in Nat
      /\ sent'[s].left = sent[s].left + m
      /\ \A t \in Tag : t # s => sent'[t] = sent[t]
      /\ sent' \in [Tag -> Sent]
  BY <1>1, <1>2
<1>4. /\ DeliveriesTypeOK'
      /\ inFlight' = SaturatingSub(inFlight, batch.rows - m)
      /\ tags'[s] = None <=> tags[s] = None
      /\ tags[s] # None => tags'[s].pending = SaturatingSub(tags[s].pending, batch.rows - m)
      /\ \A t \in Tag : t # s => tags'[t] = tags[t]
  BY <1>1, <1>2, <1>3, SettleEffect
<1>5. batch' = batch /\ pc' \in {"exit", "body"}
  BY DEF Raise, Swallow
<1>6. TypeOK'
  BY <1>3, <1>4, <1>5 DEF IInv, TypeOK, Raise, Swallow, Fault
<1>7. OffsetsInv' /\ BatchInv' /\ ArrivalInv'
  BY <1>5 DEF IInv, OffsetsInv, BatchInv, ArrivalInv, Looping, Joins, Skipped
<1>8. DeliveryInv'
  <2>1. /\ tags[s] # None
        /\ tags[s].pending = sent[s].left + batch.rows
        /\ inFlight = sent[s].left + batch.rows
        /\ \A t \in Tag : t # s => tags[t] = None /\ sent[t].left = 0
    BY <1>1 DEF IInv, DeliveryInv, Looping, Expected
  <2>2. SaturatingSub(sent[s].left + batch.rows, batch.rows - m) = sent[s].left + m
    BY <1>1, <1>2 DEF SaturatingSub
  <2>3. batch.rows # 0
    BY <1>1, <1>2
  <2>4. QED
    BY <1>1, <1>3, <1>4, <1>5, <2>1, <2>2, <2>3 DEF DeliveryInv, Expected, TagOf
<1>9. QED
  BY <1>6, <1>7, <1>8 DEF IInv

\* A report, good or bad, while the loop runs is one for the batch in hand, and
\* for messages all of which were handed over.
LEMMA ReportInHand ==
    ASSUME IInv, Looping, NEW t \in Tag, sent[t].left > 0
    PROVE  /\ batch # None /\ t = TagOf(batch)
           /\ tags[t] # None
           /\ pc \notin {"read", "wait", "commit"}
  BY DEF IInv, DeliveryInv, BatchInv, ArrivalInv

LEMMA ReportInv ==
    ASSUME IInv, NEW t \in Tag, NEW bad \in BOOLEAN, sent[t].left > 0,
           sent' = [sent EXCEPT ![t] = [left |-> @.left - 1, bad |-> @.bad \/ bad,
                                        covers |-> @.covers]],
           IF sent[t].left = 1 /\ ~sent'[t].bad
             THEN delivered' = delivered \cup sent[t].covers
             ELSE delivered' = delivered,
           Settle(t, 1, bad),
           faults' \in Nat,
           UNCHANGED <<loopVars, consumerVars, committed>>
    PROVE  IInv'
<1> USE DEF loopVars, consumerVars
<1> DEFINE s == TagOf(batch)
<1>1. /\ sent \in [Tag -> Sent]
      /\ sent' \in [Tag -> Sent]
      /\ sent'[t].left = sent[t].left - 1
      /\ sent'[t].bad <=> (sent[t].bad \/ bad)
      /\ sent'[t].covers = sent[t].covers
      /\ \A u \in Tag : u # t => sent'[u] = sent[u]
  BY DEF IInv, TypeOK
<1>2. /\ DeliveriesTypeOK'
      /\ inFlight' = SaturatingSub(inFlight, 1)
      /\ tags'[t] = None <=> tags[t] = None
      /\ tags[t] # None =>
           /\ tags'[t].pending = SaturatingSub(tags[t].pending, 1)
           /\ tags'[t].failed <=> (tags[t].failed \/ bad)
      /\ \A u \in Tag : u # t => tags'[u] = tags[u]
  BY SettleEffect DEF IInv, TypeOK
<1>3. delivered \subseteq delivered' /\ delivered' \subseteq 0 .. (LogEnd - 1)
  BY <1>1 DEF IInv, TypeOK
<1>4. TypeOK'
  BY <1>1, <1>2, <1>3 DEF IInv, TypeOK
<1>5. OffsetsInv' /\ BatchInv'
  BY <1>3 DEF IInv, OffsetsInv, BatchInv, Looping, Joins, Skipped
<1>6. CASE ~Looping
  BY <1>4, <1>5, <1>6 DEF IInv, DeliveryInv, ArrivalInv, Looping
<1>7. CASE Looping
  <2>1. batch # None /\ t = s /\ tags[t] # None /\ pc \notin {"wait", "commit"}
    BY <1>7, ReportInHand
  <2>2. batch \in Batch
    BY <2>1, BatchInHand
  <2>3. /\ tags[t].pending = Expected(t) /\ inFlight = Expected(t)
        /\ \A u \in Tag : u # t => tags[u] = None /\ sent[u].left = 0
    BY <1>7, <2>1 DEF IInv, DeliveryInv
  <2>4. Expected(t)' = Expected(t) - 1 /\ Expected(t) \in Nat /\ Expected(t) > 0
    BY <1>1, <2>1, <2>2 DEF Expected, TagOf
  <2>5. SaturatingSub(Expected(t), 1) = Expected(t) - 1
    BY <2>4 DEF SaturatingSub
  <2>6. DeliveryInv'
    <3>1. inFlight' = Expected(t)' /\ tags'[t].pending = Expected(t)'
      BY <1>2, <2>1, <2>3, <2>4, <2>5
    <3>2. batch.rows = 0 => tags[t] = None
      BY <1>7, <2>1 DEF IInv, DeliveryInv
    <3>3. \A u \in Tag : u # t => tags'[u] = None /\ sent'[u].left = 0
      BY <1>1, <1>2, <2>3
    <3>4. tags'[t] # None /\ batch' = batch /\ TagOf(batch') = t
      BY <1>2, <2>1
    <3>5. QED
      BY <3>1, <3>2, <3>3, <3>4, <2>1 DEF DeliveryInv
  <2>7. ArrivalInv'
    <3>1. CASE pc = "flush"
      <4>1. /\ sent[t].covers = Covers(batch)
            /\ sent[t].bad => tags[t].failed
        BY <2>1, <3>1 DEF IInv, ArrivalInv
      <4>2. sent'[t].left = 0 /\ ~sent'[t].bad => Covers(batch) \subseteq delivered'
        BY <1>1, <4>1
      <4>3. Covers(batch)' = Covers(batch) /\ TagOf(batch)' = t
        BY <2>1 DEF Covers, Skipped
      <4>4. QED
        BY <1>1, <1>2, <2>1, <3>1, <4>1, <4>2, <4>3 DEF ArrivalInv
    <3>2. CASE pc # "flush"
      BY <2>1, <3>2 DEF ArrivalInv
    <3>3. QED
      BY <3>1, <3>2
  <2>8. QED
    BY <1>4, <1>5, <2>6, <2>7 DEF IInv
<1>8. QED
  BY <1>6, <1>7

LEMMA DeliveredInv ==
    ASSUME IInv, NEW t \in Tag, Delivered(t)
    PROVE  IInv'
<1> DEFINE new == [left |-> sent[t].left - 1, bad |-> sent[t].bad \/ FALSE,
                   covers |-> sent[t].covers]
<1>1. sent[t] \in Sent /\ sent \in [Tag -> Sent] /\ faults \in Nat
  BY DEF IInv, TypeOK
<1>2. [sent[t] EXCEPT !.left = @ - 1] = new
  BY <1>1
<1>3. sent' = [sent EXCEPT ![t] = new]
  BY <1>2 DEF Delivered
<1>4. sent'[t].bad <=> sent[t].bad
  BY <1>1, <1>3
<1>5. IF sent[t].left = 1 /\ ~sent'[t].bad
        THEN delivered' = delivered \cup sent[t].covers
        ELSE delivered' = delivered
  BY <1>4 DEF Delivered
<1>6. Settle(t, 1, FALSE) /\ faults' = faults /\ sent[t].left > 0
      /\ UNCHANGED <<loopVars, consumerVars, committed>>
  BY DEF Delivered
<1>7. QED
  BY <1>1, <1>3, <1>5, <1>6, ReportInv

LEMMA LostInv ==
    ASSUME IInv, NEW t \in Tag, Lost(t)
    PROVE  IInv'
<1> DEFINE new == [left |-> sent[t].left - 1, bad |-> sent[t].bad \/ TRUE,
                   covers |-> sent[t].covers]
<1>1. sent[t] \in Sent /\ sent \in [Tag -> Sent] /\ faults \in Nat
  BY DEF IInv, TypeOK
<1>2. sent' = [sent EXCEPT ![t] = new] /\ sent'[t].bad
  BY <1>1 DEF Lost
<1>3. /\ Settle(t, 1, TRUE) /\ sent[t].left > 0
      /\ faults' = faults + 1
      /\ UNCHANGED <<loopVars, consumerVars, delivered, committed>>
  BY DEF Lost, Fault
<1>4. faults' \in Nat
  BY <1>1, <1>3
<1>5. QED
  BY <1>2, <1>3, <1>4, ReportInv

-----------------------------------------------------------------------------
(***************************************************************************)
(* The other steps, and the theorems.                                      *)
(***************************************************************************)

\* Taking a numbered batch: it begins where the last one ended, but for
\* messages that were dropped.
LEMMA ReadBatchInv ==
    ASSUME IInv, ReadBatch
    PROVE  IInv'
<1> USE NodeConstants DEF ReadBatch, outputVars
<1>1. /\ batch = None
      /\ requested <= position /\ requested .. (position - 1) \subseteq Skipped
      /\ nextSeq <= position /\ nextSeq = oldest
      /\ nextSeq \in Nat /\ position \in Nat /\ LogEnd \in Nat
      /\ requested \in Nat
  BY DEF IInv, TypeOK, OffsetsInv, BatchInv, Looping, Joins
<1>2. PICK k \in 1 .. BatchSize, rows \in 0 .. MaxOut :
        /\ position + k <= LogEnd
        /\ batch' = [seq |-> nextSeq, first |-> position,
                     next |-> position + k, rows |-> rows]
        /\ position' = position + k
  OBVIOUS
<1>3. /\ batch' \in Batch /\ batch' # None
      /\ batch'.seq = nextSeq /\ batch'.first = position /\ batch'.next = position + k
  BY <1>1, <1>2, NoneIsNoBatch
<1>4. TypeOK'
  BY <1>1, <1>2, <1>3 DEF IInv, TypeOK, DeliveriesTypeOK
<1>5. OffsetsInv'
  BY <1>1, <1>2, <1>3 DEF IInv, OffsetsInv, Looping, Skipped
<1>6. BatchInv'
  BY <1>1, <1>2, <1>3 DEF BatchInv, Looping, Joins, Skipped
<1>7. DeliveryInv'
  <2>1. TagOf(batch') \in Tag
    BY <1>1, <1>2, <1>3 DEF TagOf
  <2>2. /\ \A t \in Tag : tags[t] = None /\ sent[t].left = 0
        /\ inFlight = 0
    BY <1>1 DEF IInv, DeliveryInv, Looping
  <2>3. QED
    BY <1>3, <2>1, <2>2 DEF DeliveryInv, Expected, TagOf
<1>8. ArrivalInv'
  BY DEF ArrivalInv
<1>9. QED
  BY <1>4, <1>5, <1>6, <1>7, <1>8 DEF IInv

\* A restart begins with an empty table, at the committed offset.
LEMMA RestartInv ==
    ASSUME IInv, Restart
    PROVE  IInv'
<1> USE DEF Restart
<1>1. /\ committed \in Nat /\ committed <= requested /\ requested <= LogEnd
      /\ requested \in Nat /\ LogEnd \in Nat
      /\ 0 .. (requested - 1) \subseteq delivered \cup Skipped
  BY NodeConstants DEF IInv, TypeOK, OffsetsInv
<1>2. NothingSent \in Sent /\ NothingSent.left = 0
  BY DEF NothingSent
<1>3. sent' \in [Tag -> Sent] /\ DeliveriesTypeOK'
  BY <1>2 DEF DeliveriesTypeOK
<1>4. TypeOK'
  <2>1. delivered' \subseteq 0 .. (LogEnd - 1) /\ faults' \in Nat
    BY DEF IInv, TypeOK
  <2>2. stopRequested' \in BOOLEAN
    OBVIOUS
  <2>3. QED
    BY <1>1, <1>3, <2>1, <2>2 DEF TypeOK
<1>5. OffsetsInv' /\ BatchInv'
  BY <1>1 DEF OffsetsInv, BatchInv, Looping, Joins, Skipped
<1>6. DeliveryInv' /\ ArrivalInv'
  BY <1>2 DEF DeliveryInv, ArrivalInv, Expected
<1>7. QED
  BY <1>4, <1>5, <1>6 DEF IInv

\* The initial states.
LEMMA InitInv == Init => IInv
<1> SUFFICES ASSUME Init PROVE IInv  OBVIOUS
<1> USE NodeConstants DEF Init, BaseInit, DeliveriesInit
<1>1. NothingSent \in Sent /\ NothingSent.left = 0
  BY DEF NothingSent
<1>2. TypeOK
  <2>1. stopRequested \in BOOLEAN
    OBVIOUS
  <2>2. sent \in [Tag -> Sent] /\ DeliveriesTypeOK
    BY <1>1 DEF DeliveriesTypeOK
  <2>3. /\ pc \in Points
        /\ failure \in {"none", "error", "forced"}
    OBVIOUS
  <2>4. QED
    BY <2>1, <2>2, <2>3 DEF TypeOK
<1>3. OffsetsInv /\ BatchInv
  BY DEF OffsetsInv, BatchInv, Looping, Joins, Skipped
<1>4. DeliveryInv /\ ArrivalInv
  BY <1>1 DEF DeliveryInv, ArrivalInv, Expected
<1>5. QED
  BY <1>2, <1>3, <1>4 DEF IInv

\* Every step.  Those above concern the delivery table; the others move the
\* loop's thread, the position or a commit, and leave the table alone.
LEMMA NextInv == IInv /\ [Next]_vars => IInv'
<1> SUFFICES ASSUME IInv, [Next]_vars PROVE IInv'  OBVIOUS
<1> USE DEF loopVars, consumerVars, outputVars
<1>1. CASE DoneWithoutOutput  BY <1>1, DoneWithoutOutputInv
<1>2. CASE DoneSent           BY <1>2, DoneSentInv
<1>3. CASE Produce            BY <1>3, ProduceInv
<1>4. CASE SendFails          BY <1>4, SendFailsInv
<1>5. CASE WaitDelivered      BY <1>5, WaitDeliveredInv
<1>6. CASE CommitBatch        BY <1>6, CommitBatchInv
<1>7. CASE ReadBatch          BY <1>7, ReadBatchInv
<1>8. CASE Restart            BY <1>8, RestartInv
<1>9. CASE \E t \in Tag : Delivered(t)  BY <1>9, DeliveredInv
<1>10. CASE \E t \in Tag : Lost(t)      BY <1>10, LostInv
<1>11. CASE SignalForce
  <2> USE <1>11 DEF SignalForce, Fault
  <2>1. TypeOK'
    BY DEF IInv, TypeOK, DeliveriesTypeOK
  <2>2. OffsetsInv' /\ BatchInv'
    BY DEF IInv, TypeOK, OffsetsInv, BatchInv, Looping, Joins, Skipped
  <2>3. DeliveryInv'
    BY DEF IInv, BatchInv, DeliveryInv, Looping, Expected, TagOf
  <2>4. ArrivalInv'
    BY DEF IInv, ArrivalInv, Covers, Skipped, TagOf
  <2>5. QED
    BY <2>1, <2>2, <2>3, <2>4 DEF IInv
<1>12. CASE Crash
  <2> USE <1>12 DEF Crash, Fault
  <2>1. NothingSent \in Sent
    BY DEF NothingSent
  <2>2. TypeOK'
    BY <2>1 DEF IInv, TypeOK, DeliveriesTypeOK
  <2>3. OffsetsInv'
    BY NodeConstants DEF IInv, TypeOK, OffsetsInv, Looping, Skipped
  <2>4. BatchInv' /\ DeliveryInv' /\ ArrivalInv'
    BY DEF BatchInv, DeliveryInv, ArrivalInv, Looping
  <2>5. QED
    BY <2>2, <2>3, <2>4 DEF IInv
<1>13. CASE CommitRaises
  <2> USE <1>13 DEF CommitRaises, CommitRefused, DoneRaises, Raise, Swallow, Fault
  <2>1. TypeOK'
    BY DEF IInv, TypeOK, DeliveriesTypeOK
  <2>2. OffsetsInv' /\ BatchInv'
    BY DEF IInv, TypeOK, OffsetsInv, BatchInv, Looping, Joins, Skipped
  <2>3. DeliveryInv'
    BY DEF IInv, BatchInv, DeliveryInv, Looping, Expected, TagOf
  <2>4. ArrivalInv'
    BY DEF IInv, ArrivalInv, Covers, Skipped, TagOf
  <2>5. QED
    BY <2>1, <2>2, <2>3, <2>4 DEF IInv
<1>14. CASE BodyFails
  <2> USE <1>14 DEF BodyFails, Raise, Fault
  <2>1. TypeOK'
    BY DEF IInv, TypeOK, DeliveriesTypeOK
  <2>2. OffsetsInv' /\ BatchInv'
    BY DEF IInv, TypeOK, OffsetsInv, BatchInv, Looping, Joins, Skipped
  <2>3. DeliveryInv'
    BY DEF IInv, BatchInv, DeliveryInv, Looping, Expected, TagOf
  <2>4. ArrivalInv'
    BY DEF IInv, ArrivalInv, Covers, Skipped, TagOf
  <2>5. QED
    BY <2>1, <2>2, <2>3, <2>4 DEF IInv
<1>15. CASE BodyBreaks
  <2> USE <1>15 DEF BodyBreaks, Fault
  <2>1. TypeOK'
    BY DEF IInv, TypeOK, DeliveriesTypeOK
  <2>2. OffsetsInv' /\ BatchInv'
    BY DEF IInv, TypeOK, OffsetsInv, BatchInv, Looping, Joins, Skipped
  <2>3. DeliveryInv'
    BY DEF IInv, BatchInv, DeliveryInv, Looping, Expected, TagOf
  <2>4. ArrivalInv'
    BY DEF IInv, ArrivalInv, Covers, Skipped, TagOf
  <2>5. QED
    BY <2>1, <2>2, <2>3, <2>4 DEF IInv
<1>16. CASE SignalStop
  <2> USE <1>16 DEF SignalStop, HandlersRun, Fault
  <2>1. TypeOK'
    BY DEF IInv, TypeOK, DeliveriesTypeOK
  <2>2. OffsetsInv' /\ BatchInv'
    BY DEF IInv, TypeOK, OffsetsInv, BatchInv, Looping, Joins, Skipped
  <2>3. DeliveryInv'
    BY DEF IInv, BatchInv, DeliveryInv, Looping, Expected, TagOf
  <2>4. ArrivalInv'
    BY DEF IInv, ArrivalInv, Covers, Skipped, TagOf
  <2>5. QED
    BY <2>1, <2>2, <2>3, <2>4 DEF IInv
<1>17. CASE CommitLands
  <2> USE <1>17 DEF CommitLands
  <2>1. TypeOK'
    BY DEF IInv, TypeOK, DeliveriesTypeOK
  <2>2. OffsetsInv' /\ BatchInv'
    BY DEF IInv, TypeOK, OffsetsInv, BatchInv, Looping, Joins, Skipped
  <2>3. DeliveryInv'
    BY DEF IInv, BatchInv, DeliveryInv, Looping, Expected, TagOf
  <2>4. ArrivalInv'
    BY DEF IInv, ArrivalInv, Covers, Skipped, TagOf
  <2>5. QED
    BY <2>1, <2>2, <2>3, <2>4 DEF IInv
<1>18. CASE UNCHANGED vars
  <2> USE <1>18 DEF vars, baseVars
  <2>1. TypeOK'
    BY DEF IInv, TypeOK, DeliveriesTypeOK
  <2>2. OffsetsInv' /\ BatchInv'
    BY DEF IInv, TypeOK, OffsetsInv, BatchInv, Looping, Joins, Skipped
  <2>3. DeliveryInv'
    BY DEF IInv, BatchInv, DeliveryInv, Looping, Expected, TagOf
  <2>4. ArrivalInv'
    BY DEF IInv, ArrivalInv, Covers, Skipped, TagOf
  <2>5. QED
    BY <2>1, <2>2, <2>3, <2>4 DEF IInv
<1> USE DEF IInv, TypeOK, DeliveriesTypeOK, OffsetsInv, BatchInv, DeliveryInv,
            ArrivalInv, Joins, Looping, Skipped, Covers, TagOf, Expected
<1>19. CASE Flush
  BY <1>19 DEF Flush, AllReported
<1>20. CASE WaitRaises
  BY <1>20, NodeConstants DEF WaitRaises, WaitFailed, Forget, DoneRaises, Raise, Swallow
<1>21. CASE RequestUnfinished
  BY <1>21 DEF RequestUnfinished, Raise
<1>22. CASE RequestEvent
  BY <1>22 DEF RequestEvent
<1>23. CASE Exit
  BY <1>23 DEF Exit
<1>24. CASE ReadEmpty
  BY <1>24, NodeConstants DEF ReadEmpty, EmptyPoll
<1>25. CASE ReadUndecodable /\ Format # "arrow"
  <2>1. Format = "pylist"
    BY <1>25, NodeConstants
  <2>2. PICK k \in 1..BatchSize :
          /\ position + k <= LogEnd
          /\ ~Decodes(position, position + k)
          /\ position' = position + k
    BY <1>25 DEF ReadUndecodable
  <2>3. position .. (position + k - 1) \subseteq Skipped /\ position + k \in Nat
    BY <2>1, <2>2, NodeConstants DEF Decodes
  <2>4. EmptyPoll /\ pc = "read"
    BY <1>25 DEF ReadUndecodable
  <2>5. QED
    BY <2>1, <2>2, <2>3, <2>4, NodeConstants DEF EmptyPoll
<1>26. CASE ReadUndecodable /\ Format = "arrow"
  <2>1. PICK k \in 1..BatchSize : position + k <= LogEnd /\ position' = position + k
    BY <1>26 DEF ReadUndecodable
  <2>2. ReadRaises /\ pc = "read" /\ position' \in Nat
    BY <1>26, <2>1, NodeConstants DEF ReadUndecodable
  <2>3. QED
    BY <2>2 DEF ReadRaises
<1>27. CASE Rewind(batch)
  BY <1>27, NodeConstants DEF Rewind
<1>28. CASE NoRewind(batch)
  BY <1>28 DEF NoRewind
<1>29. CASE RewindFails(batch)
  BY <1>29 DEF RewindFails, Fault
<1>30. CASE Close
  BY <1>30 DEF Close
<1>31. CASE SignalInRead
  BY <1>31, NodeConstants DEF SignalInRead, Fault
<1>32. QED
  BY <1>1, <1>2, <1>3, <1>4, <1>5, <1>6, <1>7, <1>8, <1>9, <1>10,
     <1>11, <1>12, <1>13, <1>14, <1>15, <1>16, <1>17, <1>18,
     <1>19, <1>20, <1>21, <1>22, <1>23, <1>24, <1>25, <1>26,
     <1>27, <1>28, <1>29, <1>30, <1>31
     DEF Next, LoopThread, Reports, Faults, Fetch

\* The inductive invariant holds of every behaviour.
THEOREM Invariance == Spec => []IInv
<1>1. QED
  BY InitInv, NextInv, PTL DEF Spec

\* The state stays in its types (SyncNode, all of its variables).
THEOREM TypeCorrect == Spec => []TypeOK
<1>1. IInv => TypeOK
  BY DEF IInv
<1>2. QED
  BY Invariance, <1>1, PTL

\* Nothing behind the committed offset is undelivered, for every log, batch
\* size and number of faults, also when the node's code catches what done()
\* raises (SyncNode.done).
THEOREM CommittedSafe == Spec => []CommittedIsDelivered
<1>1. IInv => CommittedIsDelivered
  BY DEF IInv, OffsetsInv, CommittedIsDelivered
<1>2. QED
  BY Invariance, <1>1, PTL

\* When a batch is read, no report of an earlier one is out (SyncNode.done's
\* flush).
THEOREM ReadsWithNothingOut == Spec => []NothingLeftInFlight
<1>1. IInv => NothingLeftInFlight
  BY DEF IInv, BatchInv, DeliveryInv, Looping, NothingLeftInFlight
<1>2. QED
  BY Invariance, <1>1, PTL

\* KafkaConsumer._check_oldest never refuses what the harness commits or
\* rewinds.
THEOREM NeverRefused == Spec => []OrderNeverRefused
<1>1. IInv => OrderNeverRefused
  BY DEF IInv, BatchInv, OrderNeverRefused
<1>2. QED
  BY Invariance, <1>1, PTL

\* SyncNode implements AtLeastOnce: whatever step it takes, the committed offset
\* and the delivered output change as the promise allows, or not at all.
THEOREM Refinement == Spec => KeepsPromise
<1>1. Init => Promise!Init
  BY DEF Init, BaseInit, Promise!Init
<1>2. IInv /\ IInv' /\ [Next]_vars => [Promise!Next]_<<committed, delivered>>
  <2> SUFFICES ASSUME IInv, IInv', [Next]_vars
               PROVE  Promise!Next \/ UNCHANGED <<committed, delivered>>
    OBVIOUS
  <2>1. CASE CommitLands
    <3>1. /\ committed \in Nat /\ requested \in Nat /\ LogEnd \in Nat
          /\ committed <= requested /\ requested <= LogEnd
          /\ 0 .. (requested - 1) \subseteq delivered \cup Skipped
      BY NodeConstants DEF IInv, TypeOK, OffsetsInv
    <3>2. committed' = requested /\ delivered' = delivered
      BY <2>1 DEF CommitLands, outputVars
    <3>3. QED
      BY <3>1, <3>2 DEF Promise!Next, Promise!Commit, Promise!Accounted
  <2>2. CASE delivered \subseteq delivered' /\ committed' = committed
    <3>1. delivered' \in SUBSET (0 .. (LogEnd - 1))
      BY DEF IInv, TypeOK
    <3>2. QED
      BY <2>2, <3>1 DEF Promise!Next, Promise!Deliver
  <2>3. CASE UNCHANGED <<committed, delivered>>
    BY <2>3
  <2>4. Reports \/ DoneWithoutOutput => delivered \subseteq delivered' /\ committed' = committed
    BY DEF Reports, Delivered, DoneWithoutOutput, ProduceNothing
  <2>5. LoopThread => DoneWithoutOutput \/ UNCHANGED <<committed, delivered>>
    BY DEF LoopThread, DoneSent, Send, Flush, WaitDelivered, WaitRaises,
           CommitBatch, RequestUnfinished, RequestEvent, Exit, Fetch, ReadBatch,
           ReadEmpty, ReadUndecodable, ReadRaises, EmptyPoll, Produce, Rewind,
           NoRewind, Close, outputVars
  <2>6. Faults \/ Restart => UNCHANGED <<committed, delivered>>
    BY DEF Faults, Restart, CommitRaises, BodyFails, BodyBreaks, SendFails,
           RewindFails, SignalStop, SignalInRead, SignalForce, Lost, Crash,
           outputVars
  <2>7. UNCHANGED vars => UNCHANGED <<committed, delivered>>
    BY DEF vars, baseVars, outputVars
  <2>8. QED
    BY <2>1, <2>2, <2>3, <2>4, <2>5, <2>6, <2>7 DEF Next
<1>3. QED
  BY <1>1, <1>2, Invariance, PTL DEF Spec, KeepsPromise, Promise!Spec

=============================================================================
