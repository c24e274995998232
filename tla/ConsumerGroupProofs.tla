------------------------- MODULE ConsumerGroupProofs -------------------------
(***************************************************************************)
(* What holds of ConsumerGroup for any number of members and partitions,   *)
(* any batch size, any bound on rebalances and faults: no offset is        *)
(* committed before the messages behind it are delivered, and each         *)
(* partition's committed offset keeps the promise of AtLeastOnce.          *)
(*                                                                         *)
(* Both need that a member closes after a rewind, as the harness does: a   *)
(* rewind drops batches of partitions it does not seek.                    *)
(*                                                                         *)
(* The invariant says where every message behind an offset is: behind an   *)
(* owner's position, or behind the end of a batch's range, a message is    *)
(* delivered, or in that batch or an older one the member still holds.     *)
(***************************************************************************)
EXTENDS ConsumerGroup, SequenceTheorems, TLAPS

\* Message x is delivered or in one of the member's i oldest batches.
Held(m, i, x) ==
    \/ x \in delivered
    \/ \E j \in 1..i : j \in DOMAIN outstanding[m] /\ x \in outstanding[m][j].messages

RangesAreHeld ==
    \A m \in Member, p \in Partition :
        \A i \in DOMAIN outstanding[m] :
            outstanding[m][i].offsets[p] # None =>
                \A o \in 0 .. (outstanding[m][i].offsets[p].next - 1) : Held(m, i, <<p, o>>)

PolledIsHeld ==
    \A m \in Member, p \in Partition :
        polled[m].offsets[p] # None =>
            \A o \in 0 .. (polled[m].offsets[p].next - 1) :
                Held(m, Len(outstanding[m]), <<p, o>>) \/ <<p, o>> \in polled[m].messages

PositionIsHeld ==
    \A m \in Member, p \in Partition :
        owner[p] = m /\ phase[m] = "up" =>
            \A o \in 0 .. (position[p] - 1) :
                Held(m, Len(outstanding[m]), <<p, o>>) \/ <<p, o>> \in polled[m].messages

DeliveredBatches ==
    \A m \in Member : \A i \in DOMAIN outstanding[m] :
        outstanding[m][i].delivered => outstanding[m][i].messages \subseteq delivered

PolledIsNew == \A m \in Member : ~polled[m].delivered

FurthestIsDelivered ==
    \A p \in Partition : Behind(p, furthest[p]) \subseteq delivered

GroupInv ==
    /\ TypeOK
    /\ RangesAreHeld
    /\ PolledIsHeld
    /\ PositionIsHeld
    /\ DeliveredBatches
    /\ PolledIsNew
    /\ CommittedIsDelivered
    /\ FurthestIsDelivered

-----------------------------------------------------------------------------
(***************************************************************************)
(* What the operators return.                                              *)
(***************************************************************************)

\* A batch with a message recorded is a batch: the message's partition ends at
\* it, every other range is as it was.
LEMMA RecordedOffsets ==
    ASSUME NEW f \in [Partition -> Span \cup {None}],
           NEW p \in Partition, NEW o \in Nat
    PROVE  /\ RecordOffset(f, p, o) \in [Partition -> Span \cup {None}]
           /\ RecordOffset(f, p, o)[p] # None
           /\ RecordOffset(f, p, o)[p].next = o + 1
           /\ \A q \in Partition : q # p => RecordOffset(f, p, o)[q] = f[q]
<1>1. f[p] # None => f[p] \in Span
  OBVIOUS
<1>2. [first |-> IF f[p] = None THEN o ELSE f[p].first, next |-> o + 1] \in Span
  BY <1>1 DEF Span
<1>3. None \notin Span
  BY GroupConstants DEF Span
<1>4. QED
  BY <1>2, <1>3 DEF RecordOffset

LEMMA NewBatchIsBatch == NewBatch \in Batch
BY DEF NewBatch, Batch

\* Poll, in terms of the member's batch and the partition's position.
LEMMA PollChanges ==
    ASSUME TypeOK, NEW m \in Member, NEW p \in Partition, Poll(m, p)
    PROVE  /\ polled' \in [Member -> Batch]
           /\ position' \in [Partition -> Nat]
           /\ polled'[m].offsets = RecordOffset(polled[m].offsets, p, position[p])
           /\ polled'[m].messages = polled[m].messages \cup {<<p, position[p]>>}
           /\ \A n \in Member : n # m => polled'[n] = polled[n]
           /\ position'[p] = position[p] + 1
           /\ \A q \in Partition : q # p => position'[q] = position[q]
<1> DEFINE b == [offsets |-> RecordOffset(polled[m].offsets, p, position[p]),
                 messages |-> polled[m].messages \cup {<<p, position[p]>>},
                 delivered |-> FALSE]
<1>1. polled[m] \in Batch /\ position[p] \in Nat /\ LogEnd[p] \in Nat
  BY GroupConstants DEF TypeOK
<1>2. polled' = [polled EXCEPT ![m] = b]
  BY DEF Poll
<1>3. <<p, position[p]>> \in Message
  BY <1>1 DEF Poll, Message
<1>4. b \in Batch
  BY <1>1, <1>3, RecordedOffsets DEF Batch
<1>5. position' = [position EXCEPT ![p] = position[p] + 1]
  BY DEF Poll
<1> HIDE DEF b
<1>6. polled'[m] = b /\ polled' \in [Member -> Batch]
         /\ \A n \in Member : n # m => polled'[n] = polled[n]
  BY <1>2, <1>4 DEF TypeOK
<1>7. QED
  BY <1>1, <1>5, <1>6 DEF b, TypeOK

LEMMA AppendBatch ==
    ASSUME NEW s \in Seq(Batch), NEW b \in Batch
    PROVE  /\ Append(s, b) \in Seq(Batch)
           /\ Len(Append(s, b)) = Len(s) + 1
           /\ DOMAIN Append(s, b) = 1 .. (Len(s) + 1)
           /\ \A i \in 1 .. Len(s) : Append(s, b)[i] = s[i]
           /\ Append(s, b)[Len(s) + 1] = b
BY AppendProperties

LEMMA TailBatches ==
    ASSUME NEW s \in Seq(Batch), s # <<>>
    PROVE  /\ Tail(s) \in Seq(Batch)
           /\ Head(s) = s[1] /\ 1 \in DOMAIN s
           /\ Len(Tail(s)) = Len(s) - 1
           /\ DOMAIN Tail(s) = 1 .. (Len(s) - 1)
           /\ DOMAIN s = 1 .. Len(s)
           /\ \A i \in 1 .. (Len(s) - 1) : Tail(s)[i] = s[i + 1]
<1>1. Len(s) \in Nat /\ Len(s) # 0 /\ DOMAIN s = 1 .. Len(s)
  BY EmptySeq, LenProperties
<1>2. QED
  BY <1>1, HeadTailProperties

-----------------------------------------------------------------------------
(***************************************************************************)
(* Types.                                                                  *)
(***************************************************************************)
LEMMA InitTypes == Init => TypeOK
BY NewBatchIsBatch DEF Init, TypeOK, Message

LEMMA NextTypes == TypeOK /\ [Next]_vars => TypeOK'
<1> SUFFICES ASSUME TypeOK, [Next]_vars PROVE TypeOK'
  OBVIOUS
<1> USE DEF brokerVars, memberVars, bounds
<1>1. ASSUME NEW m \in Member, NEW p \in Partition, Poll(m, p) PROVE TypeOK'
  <2>1. polled' \in [Member -> Batch] /\ position' \in [Partition -> Nat]
    BY <1>1, PollChanges
  <2>2. QED
    BY <1>1, <2>1 DEF Poll, TypeOK
<1>2. ASSUME NEW m \in Member, ReadEnds(m) PROVE TypeOK'
  <2>1. outstanding' \in [Member -> Seq(Batch)]
    BY <1>2, AppendBatch DEF ReadEnds, TypeOK
  <2>2. polled' \in [Member -> Batch]
    BY <1>2, NewBatchIsBatch DEF ReadEnds, TypeOK
  <2>3. QED
    BY <1>2, <2>1, <2>2 DEF ReadEnds, TypeOK
<1>3. ASSUME NEW m \in Member, NEW i \in 1..MaxOutstanding, Deliver(m, i)
      PROVE  TypeOK'
  <2>1. outstanding[m] \in Seq(Batch) /\ outstanding[m][i] \in Batch
    BY <1>3 DEF Deliver, TypeOK
  <2>2. [outstanding[m][i] EXCEPT !.delivered = TRUE] \in Batch
    BY <2>1 DEF Batch
  <2>3. [outstanding[m] EXCEPT ![i].delivered = TRUE] \in Seq(Batch)
    BY <1>3, <2>1, <2>2 DEF Deliver
  <2>4. outstanding' \in [Member -> Seq(Batch)]
    BY <1>3, <2>3 DEF Deliver, TypeOK
  <2>5. delivered' \subseteq Message
    BY <1>3, <2>1 DEF Deliver, TypeOK, Batch
  <2>6. QED
    BY <1>3, <2>4, <2>5 DEF Deliver, TypeOK
<1>4. ASSUME NEW m \in Member, Commit(m) PROVE TypeOK'
  <2>1. /\ outstanding[m] \in Seq(Batch)
        /\ Head(outstanding[m]) \in Batch
        /\ Tail(outstanding[m]) \in Seq(Batch)
    BY <1>4, TailBatches DEF Commit, TypeOK
  <2>2. outstanding' \in [Member -> Seq(Batch)]
    BY <1>4, <2>1 DEF Commit, TypeOK
  <2>3. requested' \in [Partition -> Nat \cup {None}]
    BY <1>4, <2>1 DEF Commit, TypeOK, Batch, Span, Assigned
  <2>4. QED
    BY <1>4, <2>2, <2>3 DEF Commit, TypeOK
<1>5. ASSUME NEW m \in Member, Rewind(m) PROVE TypeOK'
  <2>1. Head(outstanding[m]) \in Batch
    BY <1>5, TailBatches DEF Rewind, TypeOK
  <2>2. position' \in [Partition -> Nat]
    BY <1>5, <2>1 DEF Rewind, TypeOK, Batch, Span, Assigned
  <2>3. QED
    BY <1>5, <2>2, NewBatchIsBatch DEF Rewind, TypeOK, Fault
<1>6. ASSUME NEW m \in Member, Leave(m) PROVE TypeOK'
  BY <1>6, NewBatchIsBatch DEF Leave, TypeOK, Fault
<1>7. ASSUME NEW m \in Member, Join(m) PROVE TypeOK'
  BY <1>7 DEF Join, TypeOK
<1>8. ASSUME NEW p \in Partition, Revoke(p) PROVE TypeOK'
  BY <1>8 DEF Revoke, TypeOK
<1>9. ASSUME NEW p \in Partition, CommitLands(p) PROVE TypeOK'
  BY <1>9 DEF CommitLands, TypeOK
<1>10. ASSUME NEW p \in Partition, NEW m \in Member, Assign(p, m) PROVE TypeOK'
  BY <1>10 DEF Assign, TypeOK
<1>11. CASE UNCHANGED vars
  BY <1>11 DEF vars, TypeOK
<1>12. QED
  BY <1>1, <1>2, <1>3, <1>4, <1>5, <1>6, <1>7, <1>8, <1>9, <1>10, <1>11
  DEF Next, Working

-----------------------------------------------------------------------------
(***************************************************************************)
(* The invariant, action by action.                                        *)
(***************************************************************************)
LEMMA InitInv == Init => GroupInv
<1> SUFFICES ASSUME Init PROVE GroupInv
  OBVIOUS
<1>1. TypeOK
  BY InitTypes
<1>2. \A m \in Member : DOMAIN outstanding[m] = {}
  BY DEF Init
<1>3. PositionIsHeld
  BY GroupConstants DEF Init, PositionIsHeld
<1>4. PolledIsHeld
  BY DEF Init, PolledIsHeld, NewBatch
<1>5. \A p \in Partition : Behind(p, 0) = {}
  BY DEF Behind
<1>6. CommittedIsDelivered /\ FurthestIsDelivered
  BY <1>5 DEF Init, CommittedIsDelivered, FurthestIsDelivered
<1>7. PolledIsNew
  BY DEF Init, PolledIsNew, NewBatch
<1>8. QED
  BY <1>1, <1>2, <1>3, <1>4, <1>6, <1>7 DEF GroupInv, RangesAreHeld, DeliveredBatches

LEMMA PollInv ==
    ASSUME GroupInv, NEW m \in Member, NEW p \in Partition, Poll(m, p)
    PROVE  GroupInv'
<1> USE DEF brokerVars, bounds
<1>1. TypeOK /\ TypeOK'
  BY NextTypes DEF GroupInv, Next, Working
<1>2. /\ outstanding' = outstanding /\ delivered' = delivered
      /\ owner' = owner /\ phase' = phase
      /\ requested' = requested /\ committed' = committed /\ furthest' = furthest
      /\ owner[p] = m /\ phase[m] = "up"
  BY DEF Poll
<1>3. /\ polled'[m].messages = polled[m].messages \cup {<<p, position[p]>>}
      /\ \A n \in Member : n # m => polled'[n] = polled[n]
      /\ position'[p] = position[p] + 1
      /\ \A q \in Partition : q # p => position'[q] = position[q]
      /\ position[p] \in Nat
  BY <1>1, PollChanges DEF TypeOK
<1>4. /\ polled'[m].offsets[p].next = position[p] + 1
      /\ \A q \in Partition : q # p => polled'[m].offsets[q] = polled[m].offsets[q]
  <2>1. polled[m].offsets \in [Partition -> Span \cup {None}]
    BY <1>1 DEF TypeOK, Batch
  <2>2. polled'[m].offsets = RecordOffset(polled[m].offsets, p, position[p])
    BY <1>1, PollChanges
  <2>3. QED
    BY <2>1, <2>2, <1>3, RecordedOffsets
<1>5. \A n \in Member, i \in Nat : \A x : Held(n, i, x)' <=> Held(n, i, x)
  BY <1>2 DEF Held
<1>6. \A n \in Member : Len(outstanding[n]) \in Nat
  BY <1>1, LenProperties DEF TypeOK
<1>7. \A o \in 0 .. position[p] :
        Held(m, Len(outstanding[m]), <<p, o>>) \/ <<p, o>> \in polled'[m].messages
  <2>1. \A o \in 0 .. (position[p] - 1) :
          Held(m, Len(outstanding[m]), <<p, o>>) \/ <<p, o>> \in polled[m].messages
    BY <1>2 DEF GroupInv, PositionIsHeld
  <2>2. QED
    BY <2>1, <1>3
<1>8. PositionIsHeld'
  <2> SUFFICES ASSUME NEW n \in Member, NEW q \in Partition,
                      owner[q] = n, phase[n] = "up",
                      NEW o \in 0 .. (position'[q] - 1)
               PROVE  Held(n, Len(outstanding[n]), <<q, o>>) \/ <<q, o>> \in polled'[n].messages
    BY <1>2, <1>5, <1>6 DEF PositionIsHeld
  <2>1. CASE q = p
    BY <2>1, <1>2, <1>3, <1>7
  <2>2. CASE q # p
    BY <2>2, <1>3 DEF GroupInv, PositionIsHeld
  <2>3. QED
    BY <2>1, <2>2
<1>9. PolledIsHeld'
  <2> SUFFICES ASSUME NEW n \in Member, NEW q \in Partition,
                      polled'[n].offsets[q] # None,
                      NEW o \in 0 .. (polled'[n].offsets[q].next - 1)
               PROVE  Held(n, Len(outstanding[n]), <<q, o>>) \/ <<q, o>> \in polled'[n].messages
    BY <1>2, <1>5, <1>6 DEF PolledIsHeld
  <2>1. CASE n = m /\ q = p
    BY <2>1, <1>3, <1>4, <1>7
  <2>2. CASE n = m /\ q # p
    BY <2>2, <1>3, <1>4 DEF GroupInv, PolledIsHeld
  <2>3. CASE n # m
    BY <2>3, <1>3 DEF GroupInv, PolledIsHeld
  <2>4. QED
    BY <2>1, <2>2, <2>3
<1>10. RangesAreHeld'
  <2>1. \A n \in Member : \A i \in DOMAIN outstanding[n] : i \in Nat
    BY <1>1, <1>6, LenProperties DEF TypeOK
  <2>2. QED
    BY <1>2, <1>5, <2>1 DEF GroupInv, RangesAreHeld
<1>11. PolledIsNew'
  <2>1. ~polled'[m].delivered
    BY <1>1 DEF Poll, TypeOK
  <2>2. QED
    BY <2>1, <1>3 DEF GroupInv, PolledIsNew
<1>12. QED
  BY <1>1, <1>2, <1>8, <1>9, <1>10, <1>11
  DEF GroupInv, DeliveredBatches, CommittedIsDelivered, FurthestIsDelivered, Behind

LEMMA ReadEndsInv ==
    ASSUME GroupInv, NEW m \in Member, ReadEnds(m)
    PROVE  GroupInv'
<1> USE DEF brokerVars, bounds
<1>1. TypeOK /\ TypeOK'
  BY NextTypes DEF GroupInv, Next, Working
<1>2. /\ delivered' = delivered /\ owner' = owner /\ phase' = phase
      /\ position' = position
      /\ requested' = requested /\ committed' = committed /\ furthest' = furthest
  BY DEF ReadEnds
<1> DEFINE s == outstanding[m]
           b == polled[m]
<1>3. /\ s \in Seq(Batch) /\ b \in Batch /\ Len(s) \in Nat /\ DOMAIN s = 1 .. Len(s)
      /\ \A n \in Member : /\ Len(outstanding[n]) \in Nat
                            /\ DOMAIN outstanding[n] = 1 .. Len(outstanding[n])
  BY <1>1, LenProperties DEF TypeOK
<1>4. /\ outstanding'[m] = Append(s, b)
      /\ polled'[m] = NewBatch
      /\ \A n \in Member : n # m => /\ outstanding'[n] = outstanding[n]
                                    /\ polled'[n] = polled[n]
  BY <1>1 DEF ReadEnds, TypeOK
<1>5. /\ Len(outstanding'[m]) = Len(s) + 1
      /\ DOMAIN outstanding'[m] = 1 .. (Len(s) + 1)
      /\ \A i \in 1 .. Len(s) : outstanding'[m][i] = s[i]
      /\ outstanding'[m][Len(s) + 1] = b
  BY <1>3, <1>4, AppendBatch
<1> HIDE DEF s, b
<1>6. \A i \in 1 .. Len(s) : \A x : Held(m, i, x) => Held(m, i, x)'
  BY <1>2, <1>3, <1>5 DEF Held, s
<1>7. ASSUME NEW x, Held(m, Len(s), x) \/ x \in b.messages
      PROVE  Held(m, Len(outstanding[m]), x)'
  <2>1. CASE x \in b.messages
    <3>1. /\ Len(s) + 1 \in 1 .. (Len(s) + 1)
          /\ Len(s) + 1 \in DOMAIN outstanding'[m]
          /\ x \in outstanding'[m][Len(s) + 1].messages
      BY <2>1, <1>3, <1>5
    <3>2. QED
      BY <3>1, <1>5 DEF Held
  <2>2. CASE x \in delivered
    BY <2>2, <1>2 DEF Held
  <2>3. ASSUME NEW j \in 1 .. Len(s), x \in s[j].messages
        PROVE  Held(m, Len(outstanding[m]), x)'
    <3>1. /\ j \in 1 .. (Len(s) + 1)
          /\ j \in DOMAIN outstanding'[m]
          /\ x \in outstanding'[m][j].messages
      BY <2>3, <1>3, <1>5
    <3>2. QED
      BY <3>1, <1>5 DEF Held
  <2>4. QED
    BY <1>7, <2>1, <2>2, <2>3 DEF Held, s
<1>8. \A n \in Member : \A i, x : n # m => (Held(n, i, x)' <=> Held(n, i, x))
  BY <1>2, <1>4 DEF Held
<1>9. RangesAreHeld'
  <2> SUFFICES ASSUME NEW n \in Member, NEW p \in Partition,
                      NEW i \in DOMAIN outstanding'[n],
                      outstanding'[n][i].offsets[p] # None,
                      NEW o \in 0 .. (outstanding'[n][i].offsets[p].next - 1)
               PROVE  Held(n, i, <<p, o>>)'
    BY DEF RangesAreHeld
  <2>1. CASE n # m
    BY <2>1, <1>4, <1>8 DEF GroupInv, RangesAreHeld
  <2>2. CASE n = m /\ i \in 1 .. Len(s)
    <3>1. i \in DOMAIN outstanding[m] /\ outstanding'[m][i] = outstanding[m][i]
      BY <2>2, <1>3, <1>5 DEF s
    <3>2. Held(m, i, <<p, o>>)
      BY <2>2, <3>1 DEF GroupInv, RangesAreHeld
    <3>3. QED
      BY <2>2, <3>2, <1>6
  <2>3. CASE n = m /\ i = Len(s) + 1
    <3>1. Held(m, Len(s), <<p, o>>) \/ <<p, o>> \in b.messages
      BY <2>3, <1>5 DEF GroupInv, PolledIsHeld, s, b
    <3>2. Held(m, Len(outstanding[m]), <<p, o>>)' /\ i = Len(outstanding'[m])
      BY <2>3, <3>1, <1>5, <1>7
    <3>3. QED
      BY <2>3, <3>2
  <2>4. QED
    BY <2>1, <2>2, <2>3, <1>3, <1>5
<1>10. PolledIsHeld'
  <2>1. \A p \in Partition : polled'[m].offsets[p] = None
    BY <1>4 DEF NewBatch
  <2>2. QED
    BY <2>1, <1>4, <1>8 DEF GroupInv, PolledIsHeld
<1>11. PositionIsHeld'
  <2> SUFFICES ASSUME NEW n \in Member, NEW p \in Partition,
                      owner[p] = n, phase[n] = "up",
                      NEW o \in 0 .. (position[p] - 1)
               PROVE  \/ Held(n, Len(outstanding[n]), <<p, o>>)'
                      \/ <<p, o>> \in polled'[n].messages
    BY <1>2 DEF PositionIsHeld
  <2>1. Held(n, Len(outstanding[n]), <<p, o>>) \/ <<p, o>> \in polled[n].messages
    BY DEF GroupInv, PositionIsHeld
  <2>2. CASE n = m
    <3>1. Held(m, Len(outstanding[m]), <<p, o>>)'
      BY <2>1, <2>2, <1>7 DEF s, b
    <3>2. QED
      BY <2>2, <3>1
  <2>3. CASE n # m
    BY <2>1, <2>3, <1>4, <1>8
  <2>4. QED
    BY <2>2, <2>3
<1>12. DeliveredBatches'
  <2> SUFFICES ASSUME NEW n \in Member, NEW i \in DOMAIN outstanding'[n],
                      outstanding'[n][i].delivered
               PROVE  outstanding'[n][i].messages \subseteq delivered
    BY <1>2 DEF DeliveredBatches
  <2>1. CASE n # m
    BY <2>1, <1>4 DEF GroupInv, DeliveredBatches
  <2>2. CASE n = m /\ i \in 1 .. Len(s)
    BY <2>2, <1>3, <1>5 DEF GroupInv, DeliveredBatches, s
  <2>3. CASE n = m /\ i = Len(s) + 1
    BY <2>3, <1>5 DEF GroupInv, PolledIsNew, b
  <2>4. QED
    BY <2>1, <2>2, <2>3, <1>3, <1>5
<1>13. PolledIsNew'
  BY <1>4 DEF GroupInv, PolledIsNew, NewBatch
<1>14. QED
  BY <1>1, <1>2, <1>9, <1>10, <1>11, <1>12, <1>13
  DEF GroupInv, CommittedIsDelivered, FurthestIsDelivered, Behind

LEMMA DeliverInv ==
    ASSUME GroupInv, NEW m \in Member, NEW i \in 1..MaxOutstanding, Deliver(m, i)
    PROVE  GroupInv'
<1> USE DEF brokerVars, bounds
<1>1. TypeOK /\ TypeOK'
  BY NextTypes DEF GroupInv, Next, Working
<1>2. /\ delivered' = delivered \cup outstanding[m][i].messages
      /\ i \in DOMAIN outstanding[m]
      /\ owner' = owner /\ phase' = phase /\ position' = position /\ polled' = polled
      /\ requested' = requested /\ committed' = committed /\ furthest' = furthest
  BY DEF Deliver
<1>3. \A n \in Member :
        /\ outstanding[n] \in Seq(Batch)
        /\ DOMAIN outstanding[n] = 1 .. Len(outstanding[n])
        /\ Len(outstanding[n]) \in Nat
  BY <1>1, LenProperties DEF TypeOK
<1>4. \A n \in Member :
        /\ DOMAIN outstanding'[n] = DOMAIN outstanding[n]
        /\ Len(outstanding'[n]) = Len(outstanding[n])
        /\ \A j \in DOMAIN outstanding[n] :
             /\ outstanding'[n][j].messages = outstanding[n][j].messages
             /\ outstanding'[n][j].offsets = outstanding[n][j].offsets
             /\ outstanding'[n][j].delivered =>
                    outstanding[n][j].delivered \/ (n = m /\ j = i)
  <2> SUFFICES ASSUME NEW n \in Member
               PROVE  /\ DOMAIN outstanding'[n] = DOMAIN outstanding[n]
                      /\ Len(outstanding'[n]) = Len(outstanding[n])
                      /\ \A j \in DOMAIN outstanding[n] :
                           /\ outstanding'[n][j].messages = outstanding[n][j].messages
                           /\ outstanding'[n][j].offsets = outstanding[n][j].offsets
                           /\ outstanding'[n][j].delivered =>
                                  outstanding[n][j].delivered \/ (n = m /\ j = i)
    OBVIOUS
  <2>1. CASE n # m
    BY <2>1, <1>1 DEF Deliver, TypeOK
  <2>2. CASE n = m
    <3>1. outstanding'[m] = [outstanding[m] EXCEPT ![i] = [@ EXCEPT !.delivered = TRUE]]
      BY <1>1 DEF Deliver, TypeOK
    <3>2. outstanding[m][i] \in Batch
      BY <1>2, <1>3
    <3>3. DOMAIN outstanding'[m] = DOMAIN outstanding[m]
      BY <3>1
    <3>4. outstanding'[m] \in Seq(Batch)
      BY <1>1 DEF TypeOK
    <3>5. Len(outstanding'[m]) = Len(outstanding[m])
      BY <1>3, <3>3, <3>4, LenProperties
    <3>6. QED
      BY <1>3, <2>2, <3>1, <3>2, <3>3, <3>5 DEF Batch
  <2>3. QED
    BY <2>1, <2>2
<1>5. \A n \in Member : \A j, x : Held(n, j, x) => Held(n, j, x)'
  BY <1>2, <1>4 DEF Held
<1>6. RangesAreHeld'
  BY <1>3, <1>4, <1>5 DEF GroupInv, RangesAreHeld
<1>7. PolledIsHeld'
  BY <1>2, <1>3, <1>4, <1>5 DEF GroupInv, PolledIsHeld
<1>8. PositionIsHeld'
  BY <1>2, <1>3, <1>4, <1>5 DEF GroupInv, PositionIsHeld
<1>9. DeliveredBatches'
  BY <1>2, <1>4 DEF GroupInv, DeliveredBatches
<1>10. QED
  BY <1>1, <1>2, <1>6, <1>7, <1>8, <1>9
  DEF GroupInv, PolledIsNew, CommittedIsDelivered, FurthestIsDelivered, Behind

LEMMA CommitInv ==
    ASSUME GroupInv, NEW m \in Member, Commit(m)
    PROVE  GroupInv'
<1> USE DEF brokerVars, bounds
<1>1. TypeOK /\ TypeOK'
  BY NextTypes DEF GroupInv, Next, Working
<1>2. /\ delivered' = delivered
      /\ owner' = owner /\ phase' = phase /\ position' = position /\ polled' = polled
      /\ committed' = committed /\ furthest' = furthest
  BY DEF Commit
<1> DEFINE s == outstanding[m]
<1>3. /\ s \in Seq(Batch) /\ s # <<>>
      /\ outstanding'[m] = Tail(s)
      /\ \A n \in Member : n # m => outstanding'[n] = outstanding[n]
  BY <1>1 DEF Commit, TypeOK
<1>4. /\ Head(s) = s[1] /\ 1 \in DOMAIN s
      /\ DOMAIN s = 1 .. Len(s)
      /\ Len(outstanding'[m]) = Len(s) - 1
      /\ DOMAIN outstanding'[m] = 1 .. (Len(s) - 1)
      /\ \A i \in 1 .. (Len(s) - 1) : outstanding'[m][i] = s[i + 1]
      /\ Len(s) \in Nat
  BY <1>3, TailBatches, LenProperties
<1>5. s[1].messages \subseteq delivered /\ s[1] \in Batch
  BY <1>3, <1>4 DEF Commit, GroupInv, DeliveredBatches
<1>6. ASSUME NEW i \in Nat, NEW x, Held(m, i + 1, x)
      PROVE  Held(m, i, x)'
  <2>1. CASE x \in delivered
    BY <2>1, <1>2 DEF Held
  <2>2. ASSUME NEW j \in 1 .. (i + 1), j \in DOMAIN s, x \in s[j].messages, j # 1
        PROVE  Held(m, i, x)'
    <3>1. /\ j - 1 \in 1 .. i
          /\ j - 1 \in DOMAIN outstanding'[m]
          /\ outstanding'[m][j - 1] = s[j]
      BY <2>2, <1>4
    <3>2. QED
      BY <2>2, <3>1 DEF Held
  <2>3. QED
    BY <1>6, <1>5, <2>1, <2>2 DEF Held
<1>7. \A n \in Member : \A i, x : n # m => (Held(n, i, x)' <=> Held(n, i, x))
  BY <1>2, <1>3 DEF Held
<1>8. ASSUME NEW x, Held(m, Len(s), x) PROVE Held(m, Len(outstanding[m]), x)'
  <2>1. PICK k \in Nat : k = Len(s) - 1
    BY <1>4
  <2>2. Held(m, k + 1, x)
    BY <1>8, <2>1, <1>4
  <2>3. Held(m, k, x)'
    BY <2>2, <1>6
  <2>4. QED
    BY <2>1, <2>3, <1>4
<1>9. RangesAreHeld'
  <2> SUFFICES ASSUME NEW n \in Member, NEW p \in Partition,
                      NEW i \in DOMAIN outstanding'[n],
                      outstanding'[n][i].offsets[p] # None,
                      NEW o \in 0 .. (outstanding'[n][i].offsets[p].next - 1)
               PROVE  Held(n, i, <<p, o>>)'
    BY DEF RangesAreHeld
  <2>1. CASE n # m
    BY <2>1, <1>3, <1>7 DEF GroupInv, RangesAreHeld
  <2>2. CASE n = m
    <3>1. i \in Nat /\ i + 1 \in DOMAIN s /\ outstanding'[m][i] = s[i + 1]
      BY <2>2, <1>4
    <3>2. Held(m, i + 1, <<p, o>>)
      BY <2>2, <3>1 DEF GroupInv, RangesAreHeld
    <3>3. QED
      BY <2>2, <3>1, <3>2, <1>6
  <2>3. QED
    BY <2>1, <2>2
<1>10. PolledIsHeld'
  BY <1>2, <1>3, <1>7, <1>8 DEF GroupInv, PolledIsHeld
<1>11. PositionIsHeld'
  BY <1>2, <1>3, <1>7, <1>8 DEF GroupInv, PositionIsHeld
<1>12. DeliveredBatches'
  <2> SUFFICES ASSUME NEW n \in Member, NEW i \in DOMAIN outstanding'[n],
                      outstanding'[n][i].delivered
               PROVE  outstanding'[n][i].messages \subseteq delivered
    BY <1>2 DEF DeliveredBatches
  <2>1. CASE n # m
    BY <2>1, <1>3 DEF GroupInv, DeliveredBatches
  <2>2. CASE n = m
    <3>1. i + 1 \in DOMAIN s /\ outstanding'[m][i] = s[i + 1]
      BY <2>2, <1>4
    <3>2. QED
      BY <2>2, <3>1 DEF GroupInv, DeliveredBatches
  <2>3. QED
    BY <2>1, <2>2
<1>13. CommittedIsDelivered'
  <2> SUFFICES ASSUME NEW p \in Partition, requested'[p] # None
               PROVE  Behind(p, requested'[p]) \subseteq delivered
    BY <1>2 DEF GroupInv, CommittedIsDelivered, Behind
  <2>1. CASE p \in Assigned(m, s[1].offsets)
    <3>1. requested'[p] = s[1].offsets[p].next /\ s[1].offsets[p] # None
      BY <2>1, <1>4 DEF Commit, Assigned
    <3>2. \A o \in 0 .. (s[1].offsets[p].next - 1) : Held(m, 1, <<p, o>>)
      BY <3>1, <1>4 DEF GroupInv, RangesAreHeld
    <3>3. QED
      BY <3>1, <3>2, <1>5 DEF Held, Behind
  <2>2. CASE p \notin Assigned(m, s[1].offsets)
    BY <2>2, <1>4 DEF Commit, GroupInv, CommittedIsDelivered, Behind
  <2>3. QED
    BY <2>1, <2>2
<1>14. QED
  BY <1>1, <1>2, <1>9, <1>10, <1>11, <1>12, <1>13
  DEF GroupInv, PolledIsNew, FurthestIsDelivered, Behind

\* A member that gives up what it holds, and reads no more before it joins
\* again: every range it still has to answer for is gone.
LEMMA ForgetInv ==
    ASSUME GroupInv, TypeOK', NEW m \in Member,
           outstanding' = [outstanding EXCEPT ![m] = <<>>],
           polled' = [polled EXCEPT ![m] = NewBatch],
           phase'[m] # "up",
           \A n \in Member : n # m => phase'[n] = phase[n],
           \A p \in Partition : owner[p] # m => position'[p] = position[p],
           delivered' = delivered, UNCHANGED brokerVars
    PROVE  GroupInv'
<1> USE DEF brokerVars
<1>1. TypeOK
  BY DEF GroupInv
<1>2. /\ outstanding'[m] = <<>> /\ DOMAIN outstanding'[m] = {}
      /\ polled'[m] = NewBatch
      /\ \A n \in Member : n # m => /\ outstanding'[n] = outstanding[n]
                                    /\ polled'[n] = polled[n]
  BY <1>1 DEF TypeOK
<1>3. \A n \in Member : \A i, x : n # m => (Held(n, i, x)' <=> Held(n, i, x))
  BY <1>2 DEF Held
<1>4. RangesAreHeld'
  BY <1>2, <1>3 DEF GroupInv, RangesAreHeld
<1>5. PolledIsHeld'
  BY <1>2, <1>3 DEF GroupInv, PolledIsHeld, NewBatch
<1>6. PositionIsHeld'
  BY <1>2, <1>3 DEF GroupInv, PositionIsHeld
<1>7. DeliveredBatches' /\ PolledIsNew'
  BY <1>2 DEF GroupInv, DeliveredBatches, PolledIsNew, NewBatch
<1>8. QED
  BY <1>4, <1>5, <1>6, <1>7
  DEF GroupInv, CommittedIsDelivered, FurthestIsDelivered, Behind

LEMMA RewindInv ==
    ASSUME GroupInv, NEW m \in Member, Rewind(m)
    PROVE  GroupInv'
<1>1. TypeOK /\ TypeOK'
  BY NextTypes DEF GroupInv, Next
<1>2. phase'[m] # "up" /\ \A n \in Member : n # m => phase'[n] = phase[n]
  BY <1>1 DEF Rewind, TypeOK
<1>3. \A p \in Partition : owner[p] # m => position'[p] = position[p]
  BY DEF Rewind, Assigned
<1>4. QED
  BY <1>1, <1>2, <1>3, ForgetInv DEF Rewind

LEMMA LeaveInv ==
    ASSUME GroupInv, NEW m \in Member, Leave(m)
    PROVE  GroupInv'
<1>1. TypeOK /\ TypeOK'
  BY NextTypes DEF GroupInv, Next
<1>2. phase'[m] # "up" /\ \A n \in Member : n # m => phase'[n] = phase[n]
  BY <1>1 DEF Leave, TypeOK
<1>3. QED
  BY <1>1, <1>2, ForgetInv DEF Leave

\* The steps that leave the batches alone.
LEMMA BrokerInv ==
    ASSUME GroupInv, TypeOK', UNCHANGED <<outstanding, polled, delivered>>,
           PositionIsHeld', CommittedIsDelivered', FurthestIsDelivered'
    PROVE  GroupInv'
<1>1. \A m \in Member : \A i, x : Held(m, i, x)' <=> Held(m, i, x)
  BY DEF Held
<1>2. RangesAreHeld'
  BY <1>1 DEF GroupInv, RangesAreHeld
<1>3. PolledIsHeld'
  BY <1>1 DEF GroupInv, PolledIsHeld
<1>4. QED
  BY <1>2, <1>3 DEF GroupInv, DeliveredBatches, PolledIsNew

LEMMA JoinInv ==
    ASSUME GroupInv, NEW m \in Member, Join(m)
    PROVE  GroupInv'
<1> USE DEF brokerVars, bounds
<1>1. TypeOK /\ TypeOK'
  BY NextTypes DEF GroupInv, Next
<1>2. \A n \in Member : \A i, x : Held(n, i, x)' <=> Held(n, i, x)
  BY DEF Join, Held
<1>3. PositionIsHeld'
  <2> SUFFICES ASSUME NEW n \in Member, NEW p \in Partition,
                      owner[p] = n, phase'[n] = "up",
                      NEW o \in 0 .. (position[p] - 1)
               PROVE  Held(n, Len(outstanding[n]), <<p, o>>) \/ <<p, o>> \in polled[n].messages
    BY <1>2 DEF Join, PositionIsHeld, Held
  <2>1. n # m /\ phase[n] = "up"
    BY <1>1 DEF Join, TypeOK
  <2>2. QED
    BY <2>1 DEF GroupInv, PositionIsHeld
<1>4. QED
  BY <1>1, <1>3, BrokerInv
  DEF Join, GroupInv, CommittedIsDelivered, FurthestIsDelivered, Behind

LEMMA RevokeInv ==
    ASSUME GroupInv, NEW p \in Partition, Revoke(p)
    PROVE  GroupInv'
<1> USE DEF memberVars, bounds
<1>1. TypeOK /\ TypeOK'
  BY NextTypes DEF GroupInv, Next
<1>2. \A q \in Partition, n \in Member : owner'[q] = n => owner[q] = n
  BY <1>1, GroupConstants DEF Revoke, TypeOK
<1>3. PositionIsHeld'
  BY <1>2 DEF Revoke, GroupInv, PositionIsHeld, Held
<1>4. QED
  BY <1>1, <1>3, BrokerInv
  DEF Revoke, GroupInv, CommittedIsDelivered, FurthestIsDelivered, Behind

LEMMA AssignInv ==
    ASSUME GroupInv, NEW p \in Partition, NEW m \in Member, Assign(p, m)
    PROVE  GroupInv'
<1> USE DEF bounds
<1>1. TypeOK /\ TypeOK'
  BY NextTypes DEF GroupInv, Next
<1>2. /\ position'[p] = committed[p]
      /\ \A q \in Partition : q # p => position'[q] = position[q] /\ owner'[q] = owner[q]
      /\ requested'[p] = None
      /\ \A q \in Partition : q # p => requested'[q] = requested[q]
  BY <1>1 DEF Assign, TypeOK
<1>3. \A n \in Member : \A i, x : Held(n, i, x)' <=> Held(n, i, x)
  BY DEF Assign, Held
<1>4. PositionIsHeld'
  <2> SUFFICES ASSUME NEW n \in Member, NEW q \in Partition,
                      owner'[q] = n, phase[n] = "up",
                      NEW o \in 0 .. (position'[q] - 1)
               PROVE  Held(n, Len(outstanding[n]), <<q, o>>) \/ <<q, o>> \in polled[n].messages
    BY <1>3 DEF Assign, PositionIsHeld, Held
  <2>1. CASE q = p
    BY <2>1, <1>2 DEF GroupInv, CommittedIsDelivered, Behind, Held
  <2>2. CASE q # p
    BY <2>2, <1>2 DEF GroupInv, PositionIsHeld
  <2>3. QED
    BY <2>1, <2>2
<1>5. CommittedIsDelivered'
  BY <1>2 DEF Assign, GroupInv, CommittedIsDelivered, Behind
<1>6. QED
  BY <1>1, <1>4, <1>5, BrokerInv DEF Assign, GroupInv, FurthestIsDelivered, Behind

LEMMA CommitLandsInv ==
    ASSUME GroupInv, NEW p \in Partition, CommitLands(p)
    PROVE  GroupInv'
<1> USE DEF memberVars, bounds
<1>1. TypeOK /\ TypeOK'
  BY NextTypes DEF GroupInv, Next
<1>2. Behind(p, requested[p]) \subseteq delivered
  BY DEF CommitLands, GroupInv, CommittedIsDelivered
<1>3. PositionIsHeld'
  BY DEF CommitLands, GroupInv, PositionIsHeld, Held
<1>4. CommittedIsDelivered'
  BY <1>1, <1>2 DEF CommitLands, GroupInv, TypeOK, CommittedIsDelivered, Behind
<1>5. FurthestIsDelivered'
  BY <1>1, <1>2 DEF CommitLands, GroupInv, TypeOK, FurthestIsDelivered, Behind
<1>6. QED
  BY <1>1, <1>3, <1>4, <1>5, BrokerInv DEF CommitLands

LEMMA NextInv == GroupInv /\ [Next]_vars => GroupInv'
<1> SUFFICES ASSUME GroupInv, [Next]_vars PROVE GroupInv'
  OBVIOUS
<1>1. CASE UNCHANGED vars
  <2>1. TypeOK'
    BY NextTypes DEF GroupInv
  <2>2. QED
    BY <1>1, <2>1, BrokerInv
    DEF vars, brokerVars, memberVars, GroupInv, PositionIsHeld, Held,
        CommittedIsDelivered, FurthestIsDelivered, Behind
<1>2. ASSUME NEW m \in Member, Working(m) PROVE GroupInv'
  BY <1>2, PollInv, ReadEndsInv, DeliverInv, CommitInv DEF Working
<1>3. QED
  BY <1>1, <1>2, RewindInv, LeaveInv, JoinInv, RevokeInv, AssignInv, CommitLandsInv
  DEF Next

LEMMA AlwaysInv == Spec => []GroupInv
<1>1. GroupInv /\ [Next]_vars => GroupInv'
  BY NextInv
<1>2. QED
  BY InitInv, <1>1, PTL DEF Spec

-----------------------------------------------------------------------------
\* For every group, topic and bound: no offset is committed, or on its way to
\* the broker, before the messages behind it are delivered (kafka.rs
\* record_offset, assigned, commit), as long as nobody reads on after a rewind.
THEOREM GroupCommitsDelivered == Spec => []CommittedIsDelivered
<1>1. GroupInv => CommittedIsDelivered
  BY DEF GroupInv
<1>2. QED
  BY AlwaysInv, <1>1, PTL

\* Every variable keeps its type, the batches and their ranges included, whatever
\* the members and the broker do (ConsumerGroup!TypeOK).
THEOREM GroupTypes == Spec => []TypeOK
BY InitTypes, NextTypes, PTL DEF Spec

\* An offset with everything behind it delivered lies in the partition.
LEMMA OffsetInPartition ==
    ASSUME TypeOK, NEW p \in Partition, NEW c \in Nat,
           Behind(p, c) \subseteq delivered
    PROVE  c <= LogEnd[p] /\ 0 .. (c - 1) \subseteq DeliveredOf(p)
<1>1. LogEnd[p] \in Nat
  BY GroupConstants
<1>2. ASSUME NEW o \in 0 .. (c - 1) PROVE o < LogEnd[p] /\ <<p, o>> \in delivered
  <2>1. <<p, o>> \in delivered /\ <<p, o>> \in Message
    BY DEF Behind, TypeOK
  <2>2. PICK q \in Partition : <<p, o>> \in {q} \X (0 .. (LogEnd[q] - 1))
    BY <2>1 DEF Message
  <2>3. q = p
    BY <2>2
  <2>4. QED
    BY <2>1, <2>2, <2>3, <1>1
<1>3. c <= LogEnd[p]
  <2>1. CASE c = 0
    BY <2>1, <1>1
  <2>2. CASE c # 0
    <3>1. c - 1 \in 0 .. (c - 1)
      BY <2>2
    <3>2. c - 1 < LogEnd[p]
      BY <3>1, <1>2
    <3>3. QED
      BY <3>2, <1>1
  <2>3. QED
    BY <2>1, <2>2
<1>4. QED
  BY <1>1, <1>2, <1>3 DEF DeliveredOf

\* Whichever partition is looked at: the highest offset committed of it only
\* moves on, over messages delivered, whoever of the group commits it.
THEOREM GroupKeepsPromise == Spec => KeepsPromise
<1>1. Init => Promise!Init
  <2>1. ASSUME Init PROVE DeliveredOf(Watched) = {} /\ furthest[Watched] = 0
    BY <2>1, GroupConstants DEF Init, DeliveredOf
  <2>2. QED
    BY <2>1 DEF Promise!Init
<1>2. ASSUME GroupInv, [Next]_vars
      PROVE  [Promise!Next]_<<furthest[Watched], DeliveredOf(Watched)>>
  <2> USE DEF brokerVars, memberVars, bounds
  <2>1. /\ TypeOK /\ TypeOK'
        /\ Watched \in Partition
        /\ LogEnd[Watched] \in Nat
        /\ furthest[Watched] \in Nat
    BY <1>2, NextTypes, GroupConstants DEF GroupInv, TypeOK
  <2>2. CASE delivered' = delivered /\ furthest'[Watched] = furthest[Watched]
    BY <2>2 DEF DeliveredOf
  <2>3. ASSUME NEW m \in Member, NEW i \in 1..MaxOutstanding, Deliver(m, i)
        PROVE  Promise!Next
    <3>1. delivered \subseteq delivered' /\ furthest' = furthest
      BY <2>3 DEF Deliver
    <3>2. DeliveredOf(Watched) \subseteq DeliveredOf(Watched)'
      BY <3>1 DEF DeliveredOf
    <3>3. DeliveredOf(Watched)' \in SUBSET (0 .. (LogEnd[Watched] - 1))
      BY DEF DeliveredOf
    <3>4. QED
      BY <3>1, <3>2, <3>3 DEF Promise!Next, Promise!Deliver
  <2>4. ASSUME CommitLands(Watched), requested[Watched] > furthest[Watched]
        PROVE  Promise!Next
    <3>1. /\ furthest'[Watched] = requested[Watched]
          /\ requested[Watched] \in Nat
          /\ delivered' = delivered
      BY <2>1, <2>4 DEF CommitLands, TypeOK
    <3>2. /\ requested[Watched] <= LogEnd[Watched]
          /\ 0 .. (requested[Watched] - 1) \subseteq DeliveredOf(Watched)
      BY <1>2, <2>1, <2>4, <3>1, OffsetInPartition
      DEF CommitLands, GroupInv, CommittedIsDelivered
    <3>3. DeliveredOf(Watched)' = DeliveredOf(Watched)
      BY <3>1 DEF DeliveredOf
    <3>4. furthest'[Watched] \in furthest[Watched] .. LogEnd[Watched]
      BY <2>1, <2>4, <3>1, <3>2
    <3>5. QED
      BY <3>1, <3>2, <3>3, <3>4 DEF Promise!Next, Promise!Commit, Promise!Accounted
  <2>5. ASSUME NEW p \in Partition, CommitLands(p),
               ~(p = Watched /\ requested[Watched] > furthest[Watched])
        PROVE  delivered' = delivered /\ furthest'[Watched] = furthest[Watched]
    BY <2>1, <2>5 DEF CommitLands, TypeOK
  <2>6. \A m \in Member :
          (\E p \in Partition : Poll(m, p)) \/ ReadEnds(m) \/ Commit(m)
            \/ Rewind(m) \/ Leave(m) \/ Join(m) =>
          delivered' = delivered /\ furthest' = furthest
    BY DEF Poll, ReadEnds, Commit, Rewind, Leave, Join
  <2>7. \A p \in Partition, m \in Member :
          Assign(p, m) => delivered' = delivered /\ furthest' = furthest
    BY DEF Assign
  <2>8. UNCHANGED vars => delivered' = delivered /\ furthest' = furthest
    BY DEF vars
  <2>9. \A p \in Partition : Revoke(p) => delivered' = delivered /\ furthest' = furthest
    BY DEF Revoke
  <2>10. QED
    BY <1>2, <2>2, <2>3, <2>4, <2>5, <2>6, <2>7, <2>8, <2>9 DEF Next, Working
<1>3. QED
  BY <1>1, <1>2, AlwaysInv, PTL DEF Spec, KeepsPromise, Promise!Spec

=============================================================================
