-------------------------- MODULE SharedObjectsProofs --------------------------
(***************************************************************************)
(* Proofs about the two objects that a node's loop shares with another     *)
(* thread under a lock, each for every value of its constants: the         *)
(* delivery table of the Kafka producer (KafkaProducer), where             *)
(* librdkafka's thread counts its reports, and the counters of LoopStats,  *)
(* where a reader records phases and the metrics server reads totals.      *)
(***************************************************************************)
EXTENDS KafkaProducer, LoopStats, Integers, FiniteSetTheorems, TLAPS

-----------------------------------------------------------------------------
(***************************************************************************)
(* The delivery table counts exactly what is out, and what flush and       *)
(* wait_delivered promise follows from it: for any number of messages and  *)
(* tags and any size of librdkafka's queue.                                *)
(*                                                                         *)
(* The counts alone are not inductive.  A report is counted under the tag  *)
(* the message was sent with, so every message the table counts must be in *)
(* exactly one of `queue` and `unsent`, the latter all under the tag of    *)
(* the call; a tag that comes into the table anew must start with nothing  *)
(* out; and a lost message of a round must have left its mark.             *)
(***************************************************************************)

\* The messages of t whose report will still come.
Out(t) == {m \in queue \cup unsent : tagOf[m] = t}

Untagged == tags[Untracked] = None

UnsentIsTheCalls ==
    /\ unsent # {} => call = "enqueue"
    /\ unsent \cap queue = {}
    /\ \A m \in unsent : tagOf[m] = callTag
    /\ unsent # {} /\ callTag # Untracked => tags[callTag] # None

SentIsOut == \A m \in Message : fate[m] = "sent" <=> m \in queue \cup unsent

RoundIsTagged ==
    \A t \in Tag : t # Untracked => \A m \in round[t] :
        /\ tagOf[m] = t
        /\ m \notin unsent
        /\ tags[t] # None
        /\ fate[m] \in {"sent", "delivered", "lost"}
        /\ fate[m] = "lost" => tags[t].failed

TableInv ==
    /\ CountsExact
    /\ Untagged
    /\ UnsentIsTheCalls
    /\ SentIsOut
    /\ RoundIsTagged

-----------------------------------------------------------------------------
(***************************************************************************)
(* What the operations on the delivery table do to one tag and the others. *)
(***************************************************************************)

\* Whatever the table holds for a tag, or nothing, the code goes on with an entry.
LEMMA EntryType ==
    ASSUME DeliveriesTypeOK, NEW t \in Tag
    PROVE  Entry(t) \in TagState
  BY DEF DeliveriesTypeOK, Entry, TagState

\* Expecting n more reports for a tracked s.
LEMMA AddEffect ==
    ASSUME DeliveriesTypeOK, NEW s \in Tag, s # Untracked,
           NEW n \in Nat, n # 0, Add(s, n)
    PROVE  /\ DeliveriesTypeOK'
           /\ inFlight' = inFlight + n
           /\ tags'[s] # None
           /\ tags'[s].pending = (IF tags[s] = None THEN 0 ELSE tags[s].pending) + n
           /\ tags'[s].failed <=> (tags[s] # None /\ tags[s].failed)
           /\ \A t \in Tag : t # s => tags'[t] = tags[t]
<1> DEFINE new == [pending |-> Entry(s).pending + n, failed |-> Entry(s).failed]
<1>1. new \in TagState /\ new # None
  BY EntryType, NoneIsNoTagState DEF TagState
<1>2. tags' = [tags EXCEPT ![s] = new] /\ inFlight' = inFlight + n
  BY DEF Add
<1>3. tags'[s] = new /\ \A t \in Tag : t # s => tags'[t] = tags[t]
  BY <1>2 DEF DeliveriesTypeOK
<1>4. DeliveriesTypeOK'
  <2> HIDE DEF new
  <2> QED  BY <1>1, <1>2 DEF DeliveriesTypeOK
<1>5. /\ new.pending = (IF tags[s] = None THEN 0 ELSE tags[s].pending) + n
      /\ new.failed <=> (tags[s] # None /\ tags[s].failed)
  BY DEF Entry
<1>6. QED
  BY <1>1, <1>2, <1>3, <1>4, <1>5

\* n reports for s.
LEMMA SettleEffect ==
    ASSUME DeliveriesTypeOK, NEW s \in Tag, NEW n \in Nat,
           NEW error \in BOOLEAN, Settle(s, n, error)
    PROVE  /\ DeliveriesTypeOK'
           /\ inFlight' = SaturatingSub(inFlight, n)
           /\ tags'[s] = None <=> tags[s] = None
           /\ tags[s] # None =>
                /\ tags'[s].pending = SaturatingSub(tags[s].pending, n)
                /\ tags'[s].failed <=> (tags[s].failed \/ error)
           /\ \A t \in Tag : t # s => tags'[t] = tags[t]
<1>1. inFlight' = SaturatingSub(inFlight, n) /\ inFlight' \in Nat
  BY DEF Settle, SaturatingSub, DeliveriesTypeOK
<1>2. CASE tags[s] = None
  BY <1>1, <1>2 DEF Settle, DeliveriesTypeOK
<1>3. CASE tags[s] # None
  <2> DEFINE new == [pending |-> SaturatingSub(tags[s].pending, n),
                     failed  |-> tags[s].failed \/ error]
  <2>1. new \in TagState /\ new # None
    BY <1>3, NoneIsNoTagState DEF DeliveriesTypeOK, TagState, SaturatingSub
  <2>2. tags' = [tags EXCEPT ![s] = new]
    BY <1>3 DEF Settle
  <2>3. tags'[s] = new /\ \A t \in Tag : t # s => tags'[t] = tags[t]
    BY <2>2 DEF DeliveriesTypeOK
  <2>4. DeliveriesTypeOK'
    <3> HIDE DEF new
    <3> QED  BY <1>1, <2>1, <2>2 DEF DeliveriesTypeOK
  <2>5. /\ new.pending = SaturatingSub(tags[s].pending, n)
        /\ new.failed <=> (tags[s].failed \/ error)
    OBVIOUS
  <2>6. QED
    <3> HIDE DEF new
    <3> QED  BY <1>1, <1>3, <2>1, <2>3, <2>4, <2>5
<1>4. QED
  BY <1>2, <1>3

\* The table without s.
LEMMA ForgetEffect ==
    ASSUME DeliveriesTypeOK, NEW s \in Tag, Forget(s)
    PROVE  /\ DeliveriesTypeOK'
           /\ inFlight' = inFlight
           /\ tags'[s] = None
           /\ \A t \in Tag : t # s => tags'[t] = tags[t]
  BY DEF DeliveriesTypeOK, Forget

\* What is out is finite, and what is out of one tag too.
LEMMA OutIsFinite ==
    ASSUME TypeOK
    PROVE  /\ IsFiniteSet(queue) /\ Cardinality(queue) \in Nat
           /\ IsFiniteSet(unsent) /\ Cardinality(unsent) \in Nat
           /\ \A t \in Tag : IsFiniteSet(Out(t)) /\ Cardinality(Out(t)) \in Nat
<1>1. \A S \in SUBSET Message : IsFiniteSet(S) /\ Cardinality(S) \in Nat
  BY ProducerConstants, FS_Subset, FS_CardinalityType
<1>2. \A t \in Tag : Out(t) \in SUBSET Message
  BY DEF TypeOK, Out
<1>3. QED
  BY <1>1, <1>2 DEF TypeOK

\* Disjoint finite sets: the sizes add up.
LEMMA DisjointUnion ==
    ASSUME NEW S, IsFiniteSet(S), NEW T, IsFiniteSet(T), S \cap T = {}
    PROVE  Cardinality(S \cup T) = Cardinality(S) + Cardinality(T)
<1>1. /\ Cardinality(S \cup T) = Cardinality(S) + Cardinality(T) - Cardinality(S \cap T)
      /\ Cardinality(S) \in Nat /\ Cardinality(T) \in Nat
  BY FS_Union, FS_CardinalityType
<1>2. Cardinality(S \cap T) = 0
  BY FS_EmptySet
<1>3. QED
  BY <1>1, <1>2

-----------------------------------------------------------------------------
\* Nothing is counted and nothing is out at first.
LEMMA TableInitially == Init => TableInv
<1> SUFFICES ASSUME Init PROVE TableInv
  OBVIOUS
<1>1. TypeOK
  BY ProducerConstants DEF Init, TypeOK, DeliveriesInit, DeliveriesTypeOK
<1>2. InFlightExact
  BY FS_EmptySet DEF Init, DeliveriesInit, InFlightExact
<1>3. \A t \in Tag : tags[t] = None
  BY DEF Init, DeliveriesInit
<1>4. Untagged /\ PendingExact
  BY <1>3, ProducerConstants DEF Untagged, PendingExact
<1>5. UnsentIsTheCalls /\ SentIsOut /\ RoundIsTagged
  BY DEF Init, UnsentIsTheCalls, SentIsOut, RoundIsTagged
<1>6. QED
  BY <1>1, <1>2, <1>4, <1>5 DEF TableInv, CountsExact

\* The messages of a batch that is counted are new: none of them is out.
LEMMA EnqueueInv ==
    ASSUME TableInv, NEW s \in Tag, NEW batch \in SUBSET Message, Enqueue(s, batch)
    PROVE  TableInv'
<1> DEFINE n == Cardinality(batch)
<1> USE DEF TableInv, CountsExact
<1>1. /\ unsent = {} /\ unsent' = batch /\ queue' = queue
      /\ call = "none" /\ call' = "enqueue" /\ callTag' = s
      /\ round' = round
      /\ fate' = [m \in Message |-> IF m \in batch THEN "sent" ELSE fate[m]]
      /\ tagOf' = [m \in Message |-> IF m \in batch THEN s ELSE tagOf[m]]
      /\ inFlight' = inFlight + n
      /\ Add(s, n)
  BY DEF Enqueue, Add, UnsentIsTheCalls
<1>2. batch \cap queue = {} /\ \A m \in batch : fate[m] = "new"
  BY DEF Enqueue, New, SentIsOut
<1>3. n \in Nat /\ IsFiniteSet(batch) /\ (n = 0 <=> batch = {})
  BY ProducerConstants, FS_Subset, FS_CardinalityType, FS_EmptySet
<1>4. /\ \A t \in Tag : t # s => tags'[t] = tags[t]
      /\ DeliveriesTypeOK'
      /\ s = Untracked \/ batch = {} => tags' = tags
      /\ s # Untracked /\ batch # {} =>
           /\ tags'[s] # None
           /\ tags'[s].pending = (IF tags[s] = None THEN 0 ELSE tags[s].pending) + n
           /\ tags'[s].failed <=> (tags[s] # None /\ tags[s].failed)
  <2>1. CASE s = Untracked \/ batch = {}
    BY <1>1, <1>3, <2>1 DEF Add, TypeOK, DeliveriesTypeOK
  <2>2. CASE s # Untracked /\ batch # {}
    BY <1>1, <1>3, <2>2, AddEffect DEF TypeOK
  <2>3. QED
    BY <2>1, <2>2
<1>5. TypeOK'
  <2>1. unsent' \subseteq Message /\ queue' \subseteq Message
    BY <1>1 DEF TypeOK, Enqueue, New
  <2>2. tagOf' \in [Message -> Tag]
    BY <1>1 DEF TypeOK
  <2>3. fate' \in [Message -> {"new", "sent", "delivered", "lost", "cancelled"}]
    BY <1>1 DEF TypeOK
  <2>4. QED
    BY <1>1, <1>4, <2>1, <2>2, <2>3 DEF TypeOK
<1>6. InFlightExact'
  <2>1. /\ Cardinality(queue) \in Nat /\ Cardinality(unsent) = 0
        /\ inFlight = Cardinality(queue) + Cardinality(unsent)
    BY <1>1, OutIsFinite, FS_EmptySet DEF InFlightExact
  <2>2. /\ Cardinality(queue') = Cardinality(queue)
        /\ Cardinality(unsent') = n /\ inFlight' = inFlight + n
    BY <1>1
  <2>3. QED
    BY <1>3, <2>1, <2>2 DEF InFlightExact
<1>7. ASSUME NEW t \in Tag, tags'[t] # None
      PROVE  tags'[t].pending = Cardinality(Out(t)')
  <2>1. CASE t # s \/ batch = {}
    <3>1. Out(t)' = Out(t)
      BY <1>1, <1>2, <2>1 DEF Out, TypeOK
    <3>2. tags'[t] = tags[t]
      BY <1>4, <2>1
    <3>3. QED
      BY <1>7, <3>1, <3>2 DEF PendingExact, Out
  <2>2. CASE t = s /\ batch # {}
    <3>1. s # Untracked
      BY <1>4, <1>7, <2>2 DEF Untagged
    <3>2. Out(s)' = Out(s) \cup batch
      BY <1>1, <1>2 DEF Out, TypeOK
    <3>3. Cardinality(Out(s) \cup batch) = Cardinality(Out(s)) + n
      <4>1. Out(s) \cap batch = {}
        BY <1>1, <1>2 DEF Out
      <4>2. QED
        BY <1>3, <4>1, OutIsFinite, DisjointUnion
    <3>4. Cardinality(Out(s)) = IF tags[s] = None THEN 0 ELSE tags[s].pending
      <4>1. CASE tags[s] = None
        <5>1. Out(s) = {}
          BY <1>1, <3>1, <4>1 DEF Out, Enqueue
        <5>2. QED
          BY <4>1, <5>1, FS_EmptySet
      <4>2. CASE tags[s] # None
        BY <4>2 DEF PendingExact, Out
      <4>3. QED
        BY <4>1, <4>2
    <3>5. QED
      BY <1>4, <2>2, <3>1, <3>2, <3>3, <3>4
  <2>3. QED
    BY <2>1, <2>2
<1>8. PendingExact'
  BY <1>7 DEF PendingExact, Out
<1>9. Untagged'
  BY <1>4, ProducerConstants DEF Untagged
<1>10. UnsentIsTheCalls'
  BY <1>1, <1>2, <1>4 DEF UnsentIsTheCalls, TypeOK
<1>11. SentIsOut'
  BY <1>1 DEF SentIsOut, TypeOK
<1>12. ASSUME NEW t \in Tag, t # Untracked, NEW m \in round[t]
       PROVE  /\ m \notin batch /\ tagOf'[m] = t /\ fate'[m] = fate[m]
              /\ tags'[t] # None
              /\ fate[m] = "lost" => tags'[t].failed
  <2>1. m \in Message /\ fate[m] # "new" /\ tagOf[m] = t /\ tags[t] # None
        /\ (fate[m] = "lost" => tags[t].failed)
    BY <1>12 DEF RoundIsTagged, TypeOK
  <2>2. m \notin batch
    BY <1>2, <2>1
  <2>3. QED
    BY <1>1, <1>4, <2>1, <2>2
<1>13. RoundIsTagged'
  BY <1>1, <1>12 DEF RoundIsTagged
<1>14. QED
  BY <1>5, <1>6, <1>8, <1>9, <1>10, <1>11, <1>13

\* A message moves from the call to librdkafka, and stays out.
LEMMA SendOneInv == ASSUME TableInv, SendOne PROVE TableInv'
<1> USE DEF TableInv, CountsExact
<1>1. PICK m \in unsent : /\ queue' = queue \cup {m}
                          /\ unsent' = unsent \ {m}
                          /\ round' = [round EXCEPT ![callTag] = @ \cup {m}]
  BY DEF SendOne
<1>2. /\ UNCHANGED <<tags, inFlight, call, callTag, tagOf, fate>>
      /\ call = "enqueue" /\ m \notin queue /\ m \in Message
      /\ tagOf[m] = callTag /\ fate[m] = "sent"
  BY DEF SendOne, deliveryVars, UnsentIsTheCalls, SentIsOut, TypeOK
<1>3. queue' \cup unsent' = queue \cup unsent
  BY <1>1
<1>4. TypeOK'
  BY <1>1, <1>2 DEF TypeOK, DeliveriesTypeOK
<1>5. InFlightExact'
  <2>1. /\ Cardinality(queue \cup {m}) = Cardinality(queue) + 1
        /\ Cardinality(unsent \ {m}) = Cardinality(unsent) - 1
    BY <1>2, OutIsFinite, FS_AddElement, FS_RemoveElement
  <2>2. QED
    BY <1>1, <1>2, <2>1, OutIsFinite DEF InFlightExact
<1>6. PendingExact' /\ Untagged' /\ SentIsOut'
  BY <1>2, <1>3 DEF PendingExact, Untagged, SentIsOut
<1>7. UnsentIsTheCalls'
  BY <1>1, <1>2 DEF UnsentIsTheCalls
<1>8. RoundIsTagged'
  <2>1. ASSUME NEW t \in Tag, t # Untracked, NEW k \in round'[t]
        PROVE  /\ tagOf[k] = t /\ k \notin unsent' /\ tags[t] # None
               /\ fate[k] \in {"sent", "delivered", "lost"}
               /\ fate[k] = "lost" => tags[t].failed
    <3>1. k \in round[t] \/ (k = m /\ t = callTag)
      BY <1>1, <1>2 DEF TypeOK
    <3>2. CASE k \in round[t]
      BY <1>1, <2>1, <3>2 DEF RoundIsTagged
    <3>3. CASE k = m /\ t = callTag
      BY <1>1, <1>2, <2>1, <3>3 DEF UnsentIsTheCalls
    <3>4. QED
      BY <3>1, <3>2, <3>3
  <2>2. QED
    BY <1>2, <2>1 DEF RoundIsTagged
<1>9. QED
  BY <1>4, <1>5, <1>6, <1>7, <1>8

\* The rest of a refused enqueue is taken out of the counts.
LEMMA SendErrorInv == ASSUME TableInv, SendError PROVE TableInv'
<1> DEFINE n == Cardinality(unsent)
<1> USE DEF TableInv, CountsExact
<1>1. /\ unsent' = {} /\ call' = "none"
      /\ UNCHANGED <<callTag, queue, tagOf, round>>
      /\ fate' = [m \in Message |-> IF m \in unsent THEN "cancelled" ELSE fate[m]]
      /\ Settle(callTag, n, FALSE)
  BY DEF SendError, Cancel
<1>2. callTag \in Tag /\ n \in Nat /\ IsFiniteSet(unsent)
  BY OutIsFinite DEF TypeOK
<1>3. /\ DeliveriesTypeOK'
      /\ inFlight' = SaturatingSub(inFlight, n)
      /\ tags'[callTag] = None <=> tags[callTag] = None
      /\ tags[callTag] # None =>
           /\ tags'[callTag].pending = SaturatingSub(tags[callTag].pending, n)
           /\ tags'[callTag].failed <=> tags[callTag].failed
      /\ \A t \in Tag : t # callTag => tags'[t] = tags[t]
  BY <1>1, <1>2, SettleEffect DEF TypeOK
<1>4. TypeOK'
  BY <1>1, <1>3 DEF TypeOK
<1>5. InFlightExact'
  BY <1>1, <1>3, OutIsFinite, FS_EmptySet DEF InFlightExact, SaturatingSub
<1>6. ASSUME NEW t \in Tag, tags'[t] # None
      PROVE  tags'[t].pending = Cardinality(Out(t)')
  <2>1. CASE t # callTag
    <3>1. Out(t)' = Out(t)
      BY <1>1, <2>1 DEF Out, UnsentIsTheCalls
    <3>2. QED
      BY <1>3, <1>6, <2>1, <3>1 DEF PendingExact, Out
  <2>2. CASE t = callTag
    <3>1. Out(t) = Out(t)' \cup unsent /\ Out(t)' \cap unsent = {}
      BY <1>1, <2>2 DEF Out, UnsentIsTheCalls
    <3>2. IsFiniteSet(Out(t)') /\ Cardinality(Out(t)') \in Nat
      BY <3>1, OutIsFinite, FS_Subset, FS_CardinalityType
    <3>3. Cardinality(Out(t)) = Cardinality(Out(t)') + n
      BY <1>2, <3>1, <3>2, DisjointUnion
    <3>4. tags[t].pending = Cardinality(Out(t))
      BY <1>3, <1>6, <2>2 DEF PendingExact, Out
    <3>5. tags'[t].pending = SaturatingSub(tags[t].pending, n)
      BY <1>3, <1>6, <2>2
    <3>6. QED
      BY <1>2, <3>2, <3>3, <3>4, <3>5 DEF SaturatingSub
  <2>3. QED
    BY <2>1, <2>2
<1>7. PendingExact'
  BY <1>6 DEF PendingExact, Out
<1>8. Untagged' /\ UnsentIsTheCalls'
  BY <1>1, <1>2, <1>3, ProducerConstants DEF Untagged, UnsentIsTheCalls
<1>9. SentIsOut'
  BY <1>1 DEF SentIsOut, UnsentIsTheCalls, TypeOK
<1>10. RoundIsTagged'
  <2>1. ASSUME NEW t \in Tag, t # Untracked, NEW m \in round[t]
        PROVE  /\ fate'[m] = fate[m] /\ tags'[t] # None
               /\ tags[t].failed => tags'[t].failed
    BY <1>1, <1>2, <1>3, <2>1 DEF RoundIsTagged, TypeOK
  <2>2. QED
    BY <1>1, <2>1 DEF RoundIsTagged
<1>11. QED
  BY <1>4, <1>5, <1>7, <1>8, <1>9, <1>10

\* A wait that ends takes its tag out of the table, and its round with it.
LEMMA ForgetInv ==
    ASSUME TableInv, call = "wait", call' = "none", Forget(callTag),
           round' = [round EXCEPT ![callTag] = {}],
           UNCHANGED <<callTag, unsent, queue, tagOf, fate>>
    PROVE  TableInv'
<1> USE DEF TableInv, CountsExact
<1>1. callTag \in Tag /\ unsent = {}
  BY DEF TypeOK, UnsentIsTheCalls
<1>2. /\ DeliveriesTypeOK'
      /\ inFlight' = inFlight
      /\ tags'[callTag] = None
      /\ \A t \in Tag : t # callTag => tags'[t] = tags[t]
  BY <1>1, ForgetEffect DEF TypeOK
<1>3. TypeOK' /\ InFlightExact'
  BY <1>2 DEF TypeOK, InFlightExact
<1>4. PendingExact' /\ SentIsOut'
  BY <1>2 DEF PendingExact, SentIsOut
<1>5. Untagged' /\ UnsentIsTheCalls'
  BY <1>1, <1>2, ProducerConstants DEF Untagged, UnsentIsTheCalls
<1>6. RoundIsTagged'
  <2>1. round'[callTag] = {} /\ \A t \in Tag : t # callTag => round'[t] = round[t]
    BY <1>1 DEF TypeOK
  <2>2. QED
    BY <1>2, <2>1 DEF RoundIsTagged
<1>7. QED
  BY <1>3, <1>4, <1>5, <1>6

\* A report takes one message out, and counts it under the message's tag.
LEMMA ReportInv ==
    ASSUME TableInv, NEW m \in Message, NEW ok \in BOOLEAN, Report(m, ok)
    PROVE  TableInv'
<1> DEFINE s == tagOf[m]
<1> USE DEF TableInv, CountsExact
<1>1. /\ m \in queue /\ queue' = queue \ {m}
      /\ fate' = [fate EXCEPT ![m] = IF ok THEN "delivered" ELSE "lost"]
      /\ Settle(s, 1, ~ok)
      /\ UNCHANGED <<call, callTag, unsent, tagOf, round>>
  BY DEF Report, callVars
<1>2. s \in Tag /\ m \notin unsent
  BY <1>1 DEF TypeOK, UnsentIsTheCalls
<1>3. /\ DeliveriesTypeOK'
      /\ inFlight' = SaturatingSub(inFlight, 1)
      /\ tags'[s] = None <=> tags[s] = None
      /\ tags[s] # None =>
           /\ tags'[s].pending = SaturatingSub(tags[s].pending, 1)
           /\ tags'[s].failed <=> (tags[s].failed \/ ~ok)
      /\ \A t \in Tag : t # s => tags'[t] = tags[t]
  <2> HIDE DEF s
  <2> QED  BY <1>1, <1>2, SettleEffect DEF TypeOK
<1>4. TypeOK'
  BY <1>1, <1>3 DEF TypeOK
<1>5. InFlightExact'
  <2>1. Cardinality(queue \ {m}) = Cardinality(queue) - 1
    BY <1>1, OutIsFinite, FS_RemoveElement
  <2>2. Cardinality(queue \ {m}) \in Nat
    BY <1>1, <1>4, OutIsFinite, FS_Subset, FS_CardinalityType
  <2>3. QED
    BY <1>1, <1>3, <2>1, <2>2, OutIsFinite DEF InFlightExact, SaturatingSub
<1>6. ASSUME NEW t \in Tag, tags'[t] # None
      PROVE  tags'[t].pending = Cardinality(Out(t)')
  <2>1. CASE t # s
    <3>1. Out(t)' = Out(t)
      BY <1>1, <2>1 DEF Out
    <3>2. QED
      BY <1>3, <1>6, <2>1, <3>1 DEF PendingExact, Out
  <2>2. CASE t = s
    <3>1. Out(t)' = Out(t) \ {m} /\ m \in Out(t)
      BY <1>1, <1>2, <2>2 DEF Out
    <3>2. IsFiniteSet(Out(t) \ {m}) /\ Cardinality(Out(t) \ {m}) \in Nat
      BY OutIsFinite, FS_RemoveElement, FS_CardinalityType
    <3>3. Cardinality(Out(t) \ {m}) = Cardinality(Out(t)) - 1
      BY <3>1, OutIsFinite, FS_RemoveElement
    <3>4. tags[t].pending = Cardinality(Out(t))
      BY <1>3, <1>6, <2>2 DEF PendingExact, Out
    <3>5. tags'[t].pending = SaturatingSub(tags[t].pending, 1)
      BY <1>3, <1>6, <2>2
    <3>6. QED
      BY <3>1, <3>2, <3>3, <3>4, <3>5, OutIsFinite DEF SaturatingSub
  <2>3. QED
    BY <2>1, <2>2
<1>7. PendingExact'
  BY <1>6 DEF PendingExact, Out
<1>8. Untagged' /\ UnsentIsTheCalls'
  BY <1>1, <1>2, <1>3, ProducerConstants DEF Untagged, UnsentIsTheCalls, TypeOK
<1>9. SentIsOut'
  BY <1>1, <1>2 DEF SentIsOut, TypeOK
<1>10. RoundIsTagged'
  <2>1. ASSUME NEW t \in Tag, t # Untracked, NEW k \in round[t]
        PROVE  /\ tagOf[k] = t /\ k \notin unsent /\ tags'[t] # None
               /\ fate'[k] \in {"sent", "delivered", "lost"}
               /\ fate'[k] = "lost" => tags'[t].failed
    <3>1. /\ k \in Message /\ tagOf[k] = t /\ k \notin unsent
          /\ tags[t] # None
          /\ fate[k] \in {"sent", "delivered", "lost"}
          /\ fate[k] = "lost" => tags[t].failed
      BY <2>1 DEF RoundIsTagged, TypeOK
    <3>2. CASE k = m
      BY <1>1, <1>3, <3>1, <3>2 DEF TypeOK
    <3>3. CASE k # m
      <4>1. fate'[k] = fate[k]
        BY <1>1, <3>1, <3>3 DEF TypeOK
      <4>2. tags'[t] # None /\ (tags[t].failed => tags'[t].failed)
        BY <1>3, <3>1
      <4>3. QED
        BY <3>1, <4>1, <4>2
    <3>4. QED
      BY <3>2, <3>3
  <2>2. QED
    BY <1>1, <2>1 DEF RoundIsTagged
<1>11. QED
  BY <1>4, <1>5, <1>7, <1>8, <1>9, <1>10

-----------------------------------------------------------------------------
\* Every step keeps the invariant.
LEMMA TableStep == TableInv /\ [Next]_vars => TableInv'
<1> SUFFICES ASSUME TableInv, [Next]_vars PROVE TableInv'
  OBVIOUS
<1>1. ASSUME NEW t \in Tag, NEW batch \in SUBSET Message, Enqueue(t, batch)
      PROVE  TableInv'
  BY <1>1, EnqueueInv
<1>2. CASE SendOne
  BY <1>2, SendOneInv
<1>3. CASE SendError
  BY <1>3, SendErrorInv
<1>4. CASE WaitReturnsTrue \/ WaitRaises
  BY <1>4, ForgetInv DEF WaitReturnsTrue, WaitRaises, WaitOk, WaitFailed
<1>5. ASSUME NEW m \in Message, NEW ok \in BOOLEAN, Report(m, ok)
      PROVE  TableInv'
  BY <1>5, ReportInv
\* The others move the call alone, with nothing left to send.
<1>6. ASSUME UNCHANGED <<deliveryVars, unsent, queue, tagOf, fate, round>>,
             unsent = {} \/ UNCHANGED <<call, callTag>>,
             call' \in {"none", "enqueue", "wait", "flush"}, callTag' \in Tag
      PROVE  TableInv'
  <2> USE <1>6 DEF TableInv, CountsExact, deliveryVars
  <2>1. TypeOK' /\ InFlightExact' /\ PendingExact'
    BY DEF TypeOK, DeliveriesTypeOK, InFlightExact, PendingExact
  <2>2. Untagged' /\ UnsentIsTheCalls' /\ SentIsOut' /\ RoundIsTagged'
    BY DEF Untagged, UnsentIsTheCalls, SentIsOut, RoundIsTagged
  <2>3. QED
    BY <2>1, <2>2
<1>7. CASE EnqueueReturns \/ WaitReturnsFalse \/ StartFlush \/ FlushReturns
           \/ \E t \in Tag : StartWait(t)
  <2>1. /\ UNCHANGED <<deliveryVars, unsent, queue, tagOf, fate, round>>
        /\ unsent = {}
        /\ call' \in {"none", "enqueue", "wait", "flush"}
        /\ callTag' \in Tag
    BY <1>7 DEF EnqueueReturns, WaitReturnsFalse, StartFlush, FlushReturns, StartWait,
                TableInv, UnsentIsTheCalls, CountsExact, TypeOK
  <2>2. QED
    BY <1>6, <2>1
<1>8. CASE UNCHANGED vars
  <2>1. /\ UNCHANGED <<deliveryVars, unsent, queue, tagOf, fate, round>>
        /\ UNCHANGED <<call, callTag>>
    BY <1>8 DEF vars, callVars
  <2>2. QED
    BY <1>6, <2>1 DEF TableInv, CountsExact, TypeOK
<1>9. QED
  BY <1>1, <1>2, <1>3, <1>4, <1>5, <1>7, <1>8 DEF Next, Caller, CallGoesOn, Reports

\* The table is exact after every message and every report.
THEOREM TableIsExact == Spec => []CountsExact
<1>1. TableInv => CountsExact
  BY DEF TableInv
<1>2. QED
  BY <1>1, TableInitially, TableStep, PTL DEF Spec

\* Of the calls in progress, only a flush that has counted down to zero ends a
\* flush: then, the counts being exact, nothing is out.
THEOREM FlushWaitsForAll == Spec => FlushIsComplete
<1>1. TableInv /\ [Next]_vars => (call = "flush" /\ call' = "none" => queue = {})
  <2> SUFFICES ASSUME TableInv, [Next]_vars, call = "flush", call' = "none"
               PROVE  queue = {}
    OBVIOUS
  <2>1. FlushReturns
    BY DEF Next, Caller, CallGoesOn, Reports, Enqueue, StartWait, StartFlush, SendOne,
           SendError, EnqueueReturns, WaitReturnsTrue, WaitRaises, WaitReturnsFalse,
           Report, vars, callVars
  <2>2. Cardinality(queue) + Cardinality(unsent) = 0
    BY <2>1 DEF FlushReturns, AllReported, TableInv, CountsExact, InFlightExact
  <2>3. Cardinality(queue) = 0
    BY <2>2, OutIsFinite DEF TableInv, CountsExact
  <2>4. QED
    BY <2>3, OutIsFinite, FS_EmptySet DEF TableInv, CountsExact
<1>2. QED
  BY <1>1, TableInitially, TableStep, PTL DEF Spec, FlushIsComplete

\* A tag that is not in the table has an empty round; one with nothing pending
\* has nothing out, and without a failure none of its messages is lost.
THEOREM TrueIsDelivered == Spec => TrueMeansDelivered
<1>1. TableInv => (call = "wait" /\ WaitReturnsTrue /\ callTag # Untracked =>
                 \A m \in round[callTag] : fate[m] = "delivered")
  <2> SUFFICES ASSUME TableInv, call = "wait", WaitReturnsTrue, callTag # Untracked,
                      NEW m \in round[callTag]
               PROVE  fate[m] = "delivered"
    OBVIOUS
  <2>1. /\ callTag \in Tag /\ m \in Message /\ tagOf[m] = callTag
        /\ tags[callTag] # None
        /\ fate[m] \in {"sent", "delivered", "lost"}
        /\ fate[m] = "lost" => tags[callTag].failed
    BY DEF TableInv, CountsExact, RoundIsTagged, TypeOK
  <2>2. tags[callTag].pending = 0 /\ ~tags[callTag].failed
    BY <2>1 DEF WaitReturnsTrue, WaitOk
  <2>3. Out(callTag) = {}
    <3>1. Cardinality(Out(callTag)) = 0
      BY <2>1, <2>2 DEF TableInv, CountsExact, PendingExact, Out
    <3>2. QED
      BY <2>1, <3>1, OutIsFinite, FS_EmptySet DEF TableInv, CountsExact
  <2>4. fate[m] # "sent"
    BY <2>1, <2>3 DEF Out, TableInv, SentIsOut
  <2>5. QED
    BY <2>1, <2>2, <2>4
<1>2. QED
  BY <1>1, TableInitially, TableStep, PTL DEF Spec, TrueMeansDelivered

-----------------------------------------------------------------------------
(***************************************************************************)
(* The counters of LoopStats, for any number of rows, batches, phases,     *)
(* reports and scrapes.                                                    *)
(*                                                                         *)
(* What holds between two folds is not inductive.  StatsInv says who holds *)
(* the lock where, that a sum read under it is still the sum, what a fold  *)
(* has moved so far, and how far a scrape has got.                         *)
(***************************************************************************)

\* Each of the three threads holds the lock exactly in its critical section.
LockInv ==
    /\ loop \in {"fold", "restart"} <=> lock = "loop"
    /\ recorder = "set" <=> lock = "recorder"
    /\ scraper \in {"in", "out"} <=> lock = "scraper"
    /\ recorder = "set" => recorded = interval.sec

\* Phases are folded in one step under the lock; rows stay in the interval
\* until they are in the totals.
FoldInv ==
    /\ total.sec + interval.sec = Counted.sec
    /\ loop # "restart" => /\ total.in + interval.in = Counted.in
                           /\ total.out + interval.out = Counted.out
    /\ loop = "restart" => /\ total.in = Counted.in
                           /\ total.out = Counted.out

\* What a scrape has read lies between what there was and what there is.
ScrapeInv ==
    /\ scraper # "idle" => AtMost(since, Counted)
    /\ scraper # "idle" => since.sec <= scrape.sec /\ scrape.sec <= Counted.sec
    /\ scraper \in {"out", "answer"} =>
            since.in <= scrape.in /\ scrape.in <= Counted.in
    /\ scraper = "answer" =>
            since.out <= scrape.out /\ scrape.out <= Counted.out

\* The logged rows are those of the totals, and of the interval being folded.
LogInv ==
    /\ loop \in {"idle", "counting", "restart"} =>
            logged.in = total.in /\ logged.out = total.out
    /\ loop \in {"reset", "fold"} =>
            /\ logged.in = total.in + interval.in
            /\ logged.out = total.out + interval.out
    /\ \E n \in 0..batches : logged.in = n * RowsIn /\ logged.out = n * RowsOut

\* Who is past the guard of a bound has not reached it.
BoundsInv ==
    /\ loop = "counting" => batches < MaxBatches
    /\ recorder = "set" => records < MaxRecords
    /\ scraper # "idle" => scrapes < MaxScrapes

StatsInv == StatsTypeOK /\ LockInv /\ FoldInv /\ ScrapeInv /\ LogInv /\ BoundsInv

-----------------------------------------------------------------------------
\* The rows of one batch more.
LEMMA OneMore ==
    ASSUME NEW n \in Nat
    PROVE  /\ RowsIn * n \in Nat /\ RowsIn * (n + 1) = RowsIn * n + RowsIn
           /\ RowsOut * n \in Nat /\ RowsOut * (n + 1) = RowsOut * n + RowsOut
           /\ RowsIn * (n + 0) = RowsIn * n /\ RowsOut * (n + 0) = RowsOut * n
           /\ RowsIn * n = n * RowsIn /\ RowsOut * n = n * RowsOut
  BY StatsConstants

\* What has been counted is numbers, and changes with a batch's rows in, its
\* rows out and a recorded phase, with each of them for itself.
LEMMA CountedSteps ==
    ASSUME StatsTypeOK
    PROVE  /\ Counted.in \in Nat /\ Counted.out \in Nat /\ Counted.sec \in Nat
           /\ loop = "idle" /\ loop' = "counting" /\ UNCHANGED <<batches, records>> =>
                /\ Counted'.in = Counted.in + RowsIn
                /\ Counted'.out = Counted.out /\ Counted'.sec = Counted.sec
           /\ loop = "counting" /\ loop' = "idle" /\ batches' = batches + 1
                /\ UNCHANGED records =>
                /\ Counted'.out = Counted.out + RowsOut
                /\ Counted'.in = Counted.in /\ Counted'.sec = Counted.sec
           /\ records' = records + 1 /\ UNCHANGED <<loop, batches>> =>
                /\ Counted'.sec = Counted.sec + 1
                /\ Counted'.in = Counted.in /\ Counted'.out = Counted.out
           /\ loop # "counting" /\ loop' # "counting"
                /\ UNCHANGED <<batches, records>> => Counted' = Counted
           /\ UNCHANGED <<loop, batches, records>> => Counted' = Counted
<1>1. batches \in Nat /\ records \in Nat
  BY StatsConstants DEF StatsTypeOK
<1>2. QED
  BY <1>1, OneMore DEF Counted

\* The initial state.
LEMMA StatsInitially == StatsInit => StatsInv
<1> SUFFICES ASSUME StatsInit PROVE StatsInv  OBVIOUS
<1>1. StatsTypeOK
  BY StatsConstants DEF StatsInit, StatsTypeOK, Counts, Zero
<1>2. RowsIn * 0 = 0 /\ RowsOut * 0 = 0 /\ 0 * RowsIn = 0 /\ 0 * RowsOut = 0
  BY StatsConstants
<1>3. Counted.in = 0 /\ Counted.out = 0 /\ Counted.sec = 0
  BY <1>2 DEF Counted, StatsInit
<1>4. LockInv /\ FoldInv /\ ScrapeInv /\ BoundsInv
  BY <1>3 DEF StatsInit, LockInv, FoldInv, ScrapeInv, BoundsInv, Zero
<1>5. LogInv
  BY <1>2 DEF StatsInit, LogInv, Zero
<1>6. QED
  BY <1>1, <1>4, <1>5 DEF StatsInv

\* A batch's rows in.
LEMMA CountInInv ==
    ASSUME StatsInv, CountIn
    PROVE  StatsInv'
<1> USE DEF CountIn, recorderVars, scrapeVars
<1>1. StatsTypeOK /\ LockInv /\ FoldInv /\ ScrapeInv /\ LogInv /\ BoundsInv
  BY DEF StatsInv
<1>2. /\ interval'.in = interval.in + RowsIn
      /\ interval'.out = interval.out /\ interval'.sec = interval.sec
      /\ interval' \in Counts
  BY <1>1, StatsConstants DEF StatsTypeOK, Counts
<1>3. /\ Counted'.in = Counted.in + RowsIn
      /\ Counted'.out = Counted.out /\ Counted'.sec = Counted.sec
  BY <1>1, CountedSteps
<1>4. /\ Counted.in \in Nat /\ Counted.out \in Nat /\ Counted.sec \in Nat
      /\ interval.in \in Nat /\ interval.out \in Nat /\ interval.sec \in Nat
      /\ total.in \in Nat /\ total.out \in Nat /\ total.sec \in Nat
      /\ scrape.in \in Nat /\ scrape.out \in Nat /\ scrape.sec \in Nat
      /\ since.in \in Nat /\ since.out \in Nat /\ since.sec \in Nat
      /\ logged.in \in Nat /\ logged.out \in Nat
      /\ RowsIn \in Nat /\ RowsOut \in Nat
  BY <1>1, CountedSteps, StatsConstants DEF StatsTypeOK, Counts
<1>5. StatsTypeOK' /\ BoundsInv'
  BY <1>1, <1>2, <1>4, StatsConstants DEF StatsTypeOK, BoundsInv
<1>6. LockInv'
  BY <1>1, <1>2 DEF LockInv
<1>7. FoldInv'
  BY <1>1, <1>2, <1>3, <1>4 DEF FoldInv
<1>8. ScrapeInv'
  BY <1>1, <1>2, <1>3, <1>4 DEF ScrapeInv, LockInv, FoldInv, AtMost
<1>9. LogInv'
  BY <1>1, <1>2, <1>3, <1>4 DEF LogInv, FoldInv
<1>10. QED
  BY <1>5, <1>6, <1>7, <1>8, <1>9 DEF StatsInv

\* A batch's rows out.
LEMMA CountOutInv ==
    ASSUME StatsInv, CountOut
    PROVE  StatsInv'
<1> USE DEF CountOut, recorderVars, scrapeVars
<1>1. StatsTypeOK /\ LockInv /\ FoldInv /\ ScrapeInv /\ LogInv /\ BoundsInv
  BY DEF StatsInv
<1>2. /\ interval'.out = interval.out + RowsOut
      /\ interval'.in = interval.in /\ interval'.sec = interval.sec
      /\ interval' \in Counts
  BY <1>1, StatsConstants DEF StatsTypeOK, Counts
<1>3. /\ Counted'.out = Counted.out + RowsOut
      /\ Counted'.in = Counted.in /\ Counted'.sec = Counted.sec
  BY <1>1, CountedSteps
<1>4. /\ Counted.in \in Nat /\ Counted.out \in Nat /\ Counted.sec \in Nat
      /\ interval.in \in Nat /\ interval.out \in Nat /\ interval.sec \in Nat
      /\ total.in \in Nat /\ total.out \in Nat /\ total.sec \in Nat
      /\ scrape.in \in Nat /\ scrape.out \in Nat /\ scrape.sec \in Nat
      /\ since.in \in Nat /\ since.out \in Nat /\ since.sec \in Nat
      /\ logged.in \in Nat /\ logged.out \in Nat
      /\ RowsIn \in Nat /\ RowsOut \in Nat
  BY <1>1, CountedSteps, StatsConstants DEF StatsTypeOK, Counts
<1>5. StatsTypeOK' /\ BoundsInv'
  BY <1>1, <1>2, <1>4, StatsConstants DEF StatsTypeOK, BoundsInv
<1>6. LockInv'
  BY <1>1, <1>2 DEF LockInv
<1>7. FoldInv'
  BY <1>1, <1>2, <1>3, <1>4 DEF FoldInv
<1>8. ScrapeInv'
  BY <1>1, <1>2, <1>3, <1>4 DEF ScrapeInv, LockInv, FoldInv, AtMost
<1>9. LogInv'
  BY <1>1, <1>2, <1>3, <1>4 DEF LogInv, FoldInv, StatsTypeOK
<1>10. QED
  BY <1>5, <1>6, <1>7, <1>8, <1>9 DEF StatsInv

\* The fold of the phases moves them from the interval to the totals.
LEMMA FoldPhasesInv ==
    ASSUME StatsInv, FoldPhases
    PROVE  StatsInv'
<1> USE DEF FoldPhases, Acquire, recorderVars, scrapeVars
<1>1. StatsTypeOK /\ LockInv /\ FoldInv /\ ScrapeInv /\ LogInv /\ BoundsInv
  BY DEF StatsInv
<1>2. /\ interval'.sec = 0 /\ total'.sec = total.sec + interval.sec
      /\ interval'.in = interval.in /\ interval'.out = interval.out
      /\ total'.in = total.in /\ total'.out = total.out
      /\ interval' \in Counts /\ total' \in Counts
  BY <1>1, StatsConstants DEF StatsTypeOK, Counts
<1>3. Counted' = Counted
  BY <1>1, CountedSteps
<1>4. /\ Counted.in \in Nat /\ Counted.out \in Nat /\ Counted.sec \in Nat
      /\ interval.in \in Nat /\ interval.out \in Nat /\ interval.sec \in Nat
      /\ total.in \in Nat /\ total.out \in Nat /\ total.sec \in Nat
      /\ scrape.in \in Nat /\ scrape.out \in Nat /\ scrape.sec \in Nat
      /\ since.in \in Nat /\ since.out \in Nat /\ since.sec \in Nat
      /\ logged.in \in Nat /\ logged.out \in Nat
      /\ RowsIn \in Nat /\ RowsOut \in Nat
  BY <1>1, CountedSteps, StatsConstants DEF StatsTypeOK, Counts
<1>5. StatsTypeOK' /\ BoundsInv'
  BY <1>1, <1>2, <1>4, StatsConstants DEF StatsTypeOK, BoundsInv
<1>6. LockInv'
  BY <1>1, <1>2 DEF LockInv
<1>7. FoldInv'
  BY <1>1, <1>2, <1>3, <1>4 DEF FoldInv
<1>8. ScrapeInv'
  BY <1>1, <1>2, <1>3, <1>4 DEF ScrapeInv, LockInv, FoldInv, AtMost
<1>9. LogInv'
  BY <1>1, <1>2, <1>3, <1>4 DEF LogInv, FoldInv
<1>10. QED
  BY <1>5, <1>6, <1>7, <1>8, <1>9 DEF StatsInv

\* The fold of the rows puts them in the totals too.
LEMMA FoldRowsInv ==
    ASSUME StatsInv, FoldRows
    PROVE  StatsInv'
<1> USE DEF FoldRows, recorderVars, scrapeVars
<1>1. StatsTypeOK /\ LockInv /\ FoldInv /\ ScrapeInv /\ LogInv /\ BoundsInv
  BY DEF StatsInv
<1>2. /\ total'.in = total.in + interval.in /\ total'.out = total.out + interval.out
      /\ total'.sec = total.sec
      /\ total' \in Counts
  <2> DEFINE i == total.in + interval.in
             o == total.out + interval.out
  <2>1. total \in Counts /\ i \in Nat /\ o \in Nat
    BY <1>1 DEF StatsTypeOK, Counts
  <2>2. total' = [total EXCEPT !.in = i, !.out = o]
    OBVIOUS
  <2> HIDE DEF i, o
  <2>3. total'.in = i /\ total'.out = o /\ total'.sec = total.sec /\ total' \in Counts
    BY <2>1, <2>2 DEF Counts
  <2>4. QED
    BY <2>3 DEF i, o
<1>3. Counted' = Counted
  BY <1>1, CountedSteps
<1>4. /\ Counted.in \in Nat /\ Counted.out \in Nat /\ Counted.sec \in Nat
      /\ interval.in \in Nat /\ interval.out \in Nat /\ interval.sec \in Nat
      /\ total.in \in Nat /\ total.out \in Nat /\ total.sec \in Nat
      /\ scrape.in \in Nat /\ scrape.out \in Nat /\ scrape.sec \in Nat
      /\ since.in \in Nat /\ since.out \in Nat /\ since.sec \in Nat
      /\ logged.in \in Nat /\ logged.out \in Nat
      /\ RowsIn \in Nat /\ RowsOut \in Nat
  BY <1>1, CountedSteps, StatsConstants DEF StatsTypeOK, Counts
<1>5. StatsTypeOK' /\ BoundsInv'
  BY <1>1, <1>2, <1>4, StatsConstants DEF StatsTypeOK, BoundsInv
<1>6. LockInv'
  BY <1>1, <1>2 DEF LockInv
<1>7. FoldInv'
  BY <1>1, <1>2, <1>3, <1>4 DEF FoldInv
<1>8. ScrapeInv'
  BY <1>1, <1>2, <1>3, <1>4 DEF ScrapeInv, LockInv, FoldInv, AtMost
<1>9. LogInv'
  BY <1>1, <1>2, <1>3, <1>4 DEF LogInv, FoldInv
<1>10. QED
  BY <1>5, <1>6, <1>7, <1>8, <1>9 DEF StatsInv

\* The restart takes them out of the interval.
LEMMA RestartRowsInv ==
    ASSUME StatsInv, RestartRows
    PROVE  StatsInv'
<1> USE DEF RestartRows, Release, recorderVars, scrapeVars
<1>1. StatsTypeOK /\ LockInv /\ FoldInv /\ ScrapeInv /\ LogInv /\ BoundsInv
  BY DEF StatsInv
<1>2. /\ interval'.in = 0 /\ interval'.out = 0 /\ interval'.sec = interval.sec
      /\ interval' \in Counts
  BY <1>1, StatsConstants DEF StatsTypeOK, Counts
<1>3. Counted' = Counted
  BY <1>1, CountedSteps
<1>4. /\ Counted.in \in Nat /\ Counted.out \in Nat /\ Counted.sec \in Nat
      /\ interval.in \in Nat /\ interval.out \in Nat /\ interval.sec \in Nat
      /\ total.in \in Nat /\ total.out \in Nat /\ total.sec \in Nat
      /\ scrape.in \in Nat /\ scrape.out \in Nat /\ scrape.sec \in Nat
      /\ since.in \in Nat /\ since.out \in Nat /\ since.sec \in Nat
      /\ logged.in \in Nat /\ logged.out \in Nat
      /\ RowsIn \in Nat /\ RowsOut \in Nat
  BY <1>1, CountedSteps, StatsConstants DEF StatsTypeOK, Counts
<1>5. StatsTypeOK' /\ BoundsInv'
  BY <1>1, <1>2, <1>4, StatsConstants DEF StatsTypeOK, BoundsInv
<1>6. LockInv'
  BY <1>1, <1>2 DEF LockInv
<1>7. FoldInv'
  BY <1>1, <1>2, <1>3, <1>4 DEF FoldInv
<1>8. ScrapeInv'
  BY <1>1, <1>2, <1>3, <1>4 DEF ScrapeInv, LockInv, FoldInv, AtMost
<1>9. LogInv'
  BY <1>1, <1>2, <1>3, <1>4 DEF LogInv, FoldInv
<1>10. QED
  BY <1>5, <1>6, <1>7, <1>8, <1>9 DEF StatsInv

\* A phase is added to the sum that was read.
LEMMA RecordSetInv ==
    ASSUME StatsInv, RecordSet
    PROVE  StatsInv'
<1> USE DEF RecordSet, Release, loopVars, scrapeVars
<1>1. StatsTypeOK /\ LockInv /\ FoldInv /\ ScrapeInv /\ LogInv /\ BoundsInv
  BY DEF StatsInv
<1>2. /\ interval'.sec = interval.sec + 1
      /\ interval'.in = interval.in /\ interval'.out = interval.out
      /\ interval' \in Counts
  BY <1>1 DEF StatsTypeOK, Counts, LockInv
<1>3. /\ Counted'.sec = Counted.sec + 1
      /\ Counted'.in = Counted.in /\ Counted'.out = Counted.out
  BY <1>1, CountedSteps
<1>4. /\ Counted.in \in Nat /\ Counted.out \in Nat /\ Counted.sec \in Nat
      /\ interval.in \in Nat /\ interval.out \in Nat /\ interval.sec \in Nat
      /\ total.in \in Nat /\ total.out \in Nat /\ total.sec \in Nat
      /\ scrape.in \in Nat /\ scrape.out \in Nat /\ scrape.sec \in Nat
      /\ since.in \in Nat /\ since.out \in Nat /\ since.sec \in Nat
      /\ logged.in \in Nat /\ logged.out \in Nat
      /\ RowsIn \in Nat /\ RowsOut \in Nat
  BY <1>1, CountedSteps, StatsConstants DEF StatsTypeOK, Counts
<1>5. StatsTypeOK' /\ BoundsInv'
  BY <1>1, <1>2, <1>4, StatsConstants DEF StatsTypeOK, BoundsInv
<1>6. LockInv'
  BY <1>1, <1>2 DEF LockInv
<1>7. FoldInv'
  BY <1>1, <1>2, <1>3, <1>4 DEF FoldInv
<1>8. ScrapeInv'
  BY <1>1, <1>2, <1>3, <1>4 DEF ScrapeInv, LockInv, FoldInv, AtMost
<1>9. LogInv'
  BY <1>1, <1>2, <1>3, <1>4 DEF LogInv, FoldInv
<1>10. QED
  BY <1>5, <1>6, <1>7, <1>8, <1>9 DEF StatsInv

\* The logged interval is the one about to be folded.
LEMMA LogIntervalInv ==
    ASSUME StatsInv, LogInterval
    PROVE  StatsInv'
<1> USE DEF LogInterval, recorderVars, scrapeVars
<1>1. StatsTypeOK /\ LockInv /\ FoldInv /\ ScrapeInv /\ LogInv /\ BoundsInv
  BY DEF StatsInv
<1>2. /\ logged'.in = logged.in + interval.in /\ logged'.out = logged.out + interval.out
      /\ logged' \in Counts
  BY <1>1 DEF StatsTypeOK, Counts, Plus
<1>3. Counted' = Counted
  BY <1>1, CountedSteps
<1>4. /\ Counted.in \in Nat /\ Counted.out \in Nat /\ Counted.sec \in Nat
      /\ interval.in \in Nat /\ interval.out \in Nat /\ interval.sec \in Nat
      /\ total.in \in Nat /\ total.out \in Nat /\ total.sec \in Nat
      /\ scrape.in \in Nat /\ scrape.out \in Nat /\ scrape.sec \in Nat
      /\ since.in \in Nat /\ since.out \in Nat /\ since.sec \in Nat
      /\ logged.in \in Nat /\ logged.out \in Nat
      /\ RowsIn \in Nat /\ RowsOut \in Nat
  BY <1>1, CountedSteps, StatsConstants DEF StatsTypeOK, Counts
<1>5. StatsTypeOK' /\ BoundsInv'
  BY <1>1, <1>2, <1>4, StatsConstants DEF StatsTypeOK, BoundsInv
<1>6. LockInv'
  BY <1>1, <1>2 DEF LockInv
<1>7. FoldInv'
  BY <1>1, <1>2, <1>3, <1>4 DEF FoldInv
<1>8. ScrapeInv'
  BY <1>1, <1>2, <1>3, <1>4 DEF ScrapeInv, LockInv, FoldInv, AtMost
<1>9. LogInv'
  <2>1. logged'.in = Counted.in /\ logged'.out = Counted.out
    BY <1>1, <1>2, <1>4 DEF LogInv, FoldInv
  <2>2. /\ batches \in Nat
        /\ Counted.in = RowsIn * batches /\ Counted.out = RowsOut * batches
    BY <1>1, OneMore, StatsConstants DEF Counted, StatsTypeOK
  <2>3. batches \in 0..batches /\ RowsIn * batches = batches * RowsIn
            /\ RowsOut * batches = batches * RowsOut
    BY <2>2, OneMore
  <2>4. QED
    BY <1>1, <1>2, <1>4, <2>1, <2>2, <2>3 DEF LogInv, FoldInv
<1>10. QED
  BY <1>5, <1>6, <1>7, <1>8, <1>9 DEF StatsInv

\* The sum is read under the lock.
LEMMA RecordGetInv ==
    ASSUME StatsInv, RecordGet
    PROVE  StatsInv'
<1> USE DEF RecordGet, Acquire, loopVars, scrapeVars
<1>1. StatsTypeOK /\ LockInv /\ FoldInv /\ ScrapeInv /\ LogInv /\ BoundsInv
  BY DEF StatsInv
<1>2. /\ Counted' = Counted
      /\ Counted.in \in Nat /\ Counted.out \in Nat /\ Counted.sec \in Nat
  BY <1>1, CountedSteps
<1>3. /\ interval.in \in Nat /\ interval.out \in Nat /\ interval.sec \in Nat
      /\ total.in \in Nat /\ total.out \in Nat /\ total.sec \in Nat
  BY <1>1 DEF StatsTypeOK, Counts
<1>4. recorded' \in Nat
  BY <1>3
<1>5. StatsTypeOK' /\ BoundsInv'
  BY <1>1, <1>3, <1>4, StatsConstants DEF StatsTypeOK, BoundsInv
<1>6. LockInv'
  BY <1>1 DEF LockInv
<1>7. FoldInv'
  BY <1>1, <1>2 DEF FoldInv
<1>8. ScrapeInv'
  BY <1>1, <1>2, <1>3, <1>4 DEF ScrapeInv, LockInv, FoldInv, AtMost
<1>9. LogInv'
  BY <1>1 DEF LogInv
<1>10. QED
  BY <1>5, <1>6, <1>7, <1>8, <1>9 DEF StatsInv

\* A scrape begins with the phases, under the lock, between two folds.
LEMMA ScrapePhasesInv ==
    ASSUME StatsInv, ScrapePhases
    PROVE  StatsInv'
<1> USE DEF ScrapePhases, Acquire, loopVars, recorderVars
<1>1. StatsTypeOK /\ LockInv /\ FoldInv /\ ScrapeInv /\ LogInv /\ BoundsInv
  BY DEF StatsInv
<1>2. /\ Counted' = Counted
      /\ Counted.in \in Nat /\ Counted.out \in Nat /\ Counted.sec \in Nat
  BY <1>1, CountedSteps
<1>3. /\ interval.in \in Nat /\ interval.out \in Nat /\ interval.sec \in Nat
      /\ total.in \in Nat /\ total.out \in Nat /\ total.sec \in Nat
  BY <1>1 DEF StatsTypeOK, Counts
<1>4. /\ scrape' \in Counts /\ scrape'.sec = total.sec + interval.sec
      /\ since' \in Counts /\ since' = Counted
  BY <1>2, <1>3 DEF Zero, Counts, Counted
<1>5. StatsTypeOK' /\ BoundsInv'
  BY <1>1, <1>3, <1>4, StatsConstants DEF StatsTypeOK, BoundsInv
<1>6. LockInv'
  BY <1>1 DEF LockInv
<1>7. FoldInv'
  BY <1>1, <1>2 DEF FoldInv
<1>8. ScrapeInv'
  BY <1>1, <1>2, <1>3, <1>4 DEF ScrapeInv, LockInv, FoldInv, AtMost
<1>9. LogInv'
  BY <1>1 DEF LogInv
<1>10. QED
  BY <1>5, <1>6, <1>7, <1>8, <1>9 DEF StatsInv

\* It goes on with the rows in.
LEMMA ScrapeInInv ==
    ASSUME StatsInv, ScrapeIn
    PROVE  StatsInv'
<1> USE DEF ScrapeIn, loopVars, recorderVars
<1>1. StatsTypeOK /\ LockInv /\ FoldInv /\ ScrapeInv /\ LogInv /\ BoundsInv
  BY DEF StatsInv
<1>2. /\ Counted' = Counted
      /\ Counted.in \in Nat /\ Counted.out \in Nat /\ Counted.sec \in Nat
  BY <1>1, CountedSteps
<1>3. /\ interval.in \in Nat /\ interval.out \in Nat /\ interval.sec \in Nat
      /\ total.in \in Nat /\ total.out \in Nat /\ total.sec \in Nat
  BY <1>1 DEF StatsTypeOK, Counts
<1>4. /\ scrape' \in Counts /\ scrape'.in = total.in + interval.in
      /\ scrape'.sec = scrape.sec
  BY <1>1, <1>3 DEF StatsTypeOK, Counts
<1>5. StatsTypeOK' /\ BoundsInv'
  BY <1>1, <1>3, <1>4, StatsConstants DEF StatsTypeOK, BoundsInv
<1>6. LockInv'
  BY <1>1 DEF LockInv
<1>7. FoldInv'
  BY <1>1, <1>2 DEF FoldInv
<1>8. ScrapeInv'
  BY <1>1, <1>2, <1>3, <1>4 DEF ScrapeInv, LockInv, FoldInv, AtMost
<1>9. LogInv'
  BY <1>1 DEF LogInv
<1>10. QED
  BY <1>5, <1>6, <1>7, <1>8, <1>9 DEF StatsInv

\* And with the rows out.
LEMMA ScrapeOutInv ==
    ASSUME StatsInv, ScrapeOut
    PROVE  StatsInv'
<1> USE DEF ScrapeOut, Release, loopVars, recorderVars
<1>1. StatsTypeOK /\ LockInv /\ FoldInv /\ ScrapeInv /\ LogInv /\ BoundsInv
  BY DEF StatsInv
<1>2. /\ Counted' = Counted
      /\ Counted.in \in Nat /\ Counted.out \in Nat /\ Counted.sec \in Nat
  BY <1>1, CountedSteps
<1>3. /\ interval.in \in Nat /\ interval.out \in Nat /\ interval.sec \in Nat
      /\ total.in \in Nat /\ total.out \in Nat /\ total.sec \in Nat
  BY <1>1 DEF StatsTypeOK, Counts
<1>4. /\ scrape' \in Counts /\ scrape'.out = total.out + interval.out
      /\ scrape'.in = scrape.in /\ scrape'.sec = scrape.sec
  BY <1>1, <1>3 DEF StatsTypeOK, Counts
<1>5. StatsTypeOK' /\ BoundsInv'
  BY <1>1, <1>3, <1>4, StatsConstants DEF StatsTypeOK, BoundsInv
<1>6. LockInv'
  BY <1>1 DEF LockInv
<1>7. FoldInv'
  BY <1>1, <1>2 DEF FoldInv
<1>8. ScrapeInv'
  BY <1>1, <1>2, <1>3, <1>4 DEF ScrapeInv, LockInv, FoldInv, AtMost
<1>9. LogInv'
  BY <1>1 DEF LogInv
<1>10. QED
  BY <1>5, <1>6, <1>7, <1>8, <1>9 DEF StatsInv

\* The answer leaves the object alone.
LEMMA AnswerInv ==
    ASSUME StatsInv, Answer
    PROVE  StatsInv'
<1> USE DEF Answer, loopVars, recorderVars
<1>1. StatsTypeOK /\ LockInv /\ FoldInv /\ ScrapeInv /\ LogInv /\ BoundsInv
  BY DEF StatsInv
<1>2. /\ Counted' = Counted
      /\ Counted.in \in Nat /\ Counted.out \in Nat /\ Counted.sec \in Nat
  BY <1>1, CountedSteps
<1>3. /\ interval.in \in Nat /\ interval.out \in Nat /\ interval.sec \in Nat
      /\ total.in \in Nat /\ total.out \in Nat /\ total.sec \in Nat
  BY <1>1 DEF StatsTypeOK, Counts
<1>4. last' \in Counts
  BY <1>1 DEF StatsTypeOK
<1>5. StatsTypeOK' /\ BoundsInv'
  BY <1>1, <1>3, <1>4, StatsConstants DEF StatsTypeOK, BoundsInv
<1>6. LockInv'
  BY <1>1 DEF LockInv
<1>7. FoldInv'
  BY <1>1, <1>2 DEF FoldInv
<1>8. ScrapeInv'
  BY <1>1, <1>2, <1>3, <1>4 DEF ScrapeInv, LockInv, FoldInv, AtMost
<1>9. LogInv'
  BY <1>1 DEF LogInv
<1>10. QED
  BY <1>5, <1>6, <1>7, <1>8, <1>9 DEF StatsInv

\* Every step keeps the invariant.
LEMMA StatsStep == StatsInv /\ [StatsNext]_statsVars => StatsInv'
<1> SUFFICES ASSUME StatsInv, [StatsNext]_statsVars PROVE StatsInv'  OBVIOUS
<1>1. CASE StatsNext
  BY <1>1, CountInInv, CountOutInv, LogIntervalInv, FoldPhasesInv, FoldRowsInv,
     RestartRowsInv, RecordGetInv, RecordSetInv, ScrapePhasesInv, ScrapeInInv,
     ScrapeOutInv, AnswerInv DEF StatsNext
<1>2. CASE UNCHANGED statsVars
  BY <1>2 DEF statsVars, StatsInv, StatsTypeOK, LockInv, FoldInv, ScrapeInv, LogInv, BoundsInv,
     Counted
<1>3. QED
  BY <1>1, <1>2

-----------------------------------------------------------------------------
\* The inductive invariant holds of every behaviour.
THEOREM StatsInvariance == StatsSpec => []StatsInv
<1>1. QED
  BY StatsInitially, StatsStep, PTL DEF StatsSpec

\* The state stays in its types, the bounded counters in their bounds.
THEOREM StatsTypes == StatsSpec => []StatsTypeOK
<1>1. StatsInv => StatsTypeOK
  BY DEF StatsInv
<1>2. QED
  BY StatsInvariance, <1>1, PTL

\* Interval and totals together are what was counted: a reset that races
\* record() loses no phase and no row and keeps none twice (PhaseStats.record,
\* PhaseStats.reset).
THEOREM CountsAreExact == StatsSpec => []NothingLostOrTwice
<1>1. StatsInv => NothingLostOrTwice
  <2> SUFFICES ASSUME StatsInv, loop \notin {"fold", "restart"}
               PROVE  Plus(total, interval) = Counted
    BY DEF NothingLostOrTwice
  <2>1. /\ total.in + interval.in = Counted.in
        /\ total.out + interval.out = Counted.out
        /\ total.sec + interval.sec = Counted.sec
    BY DEF StatsInv, FoldInv
  <2>2. Counted = [in |-> Counted.in, out |-> Counted.out, sec |-> Counted.sec]
    BY DEF Counted
  <2>3. QED
    BY <2>1, <2>2 DEF Plus
<1>2. QED
  BY StatsInvariance, <1>1, PTL

\* A scrape shows what had been counted at some moment of it (LoopStats.totals).
THEOREM ScrapesAreCurrent == StatsSpec => []ScrapeIsCurrent
<1>1. StatsInv => ScrapeIsCurrent
  BY DEF StatsInv, ScrapeInv, ScrapeIsCurrent, AtMost
<1>2. QED
  BY StatsInvariance, <1>1, PTL

\* The perf lines count whole batches, each once (LoopStats.report).
THEOREM LogIsExact == StatsSpec => []LoggedRowsAreExact
<1>1. StatsInv => LoggedRowsAreExact
  BY DEF StatsInv, LogInv, LoggedRowsAreExact
<1>2. QED
  BY StatsInvariance, <1>1, PTL

================================================================================
