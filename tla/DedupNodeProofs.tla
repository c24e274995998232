---------------------------- MODULE DedupNodeProofs ----------------------------
(***************************************************************************)
(* What holds of DedupNode for any input, keys, window, batch size and     *)
(* number in flight: no row is lost to a duplicate that is not delivered,  *)
(* the store never knows a key before its row is there, and the pending    *)
(* keys are exactly those in flight.                                       *)
(*                                                                         *)
(* The invariant says why each dropped row was dropped: its key is one of  *)
(* its own batch, of a batch in front of it in the queue, or delivered.    *)
(* Batches are committed from the front, and only delivered, so that the   *)
(* reason outlives the batch it names.                                     *)
(*                                                                         *)
(* Of runs without failures, clean restarts among them, more is shown: a   *)
(* second invariant, on top of the first, follows every key from its mark  *)
(* to the bucket it was put in and out of the window with it, so that what *)
(* is dropped and what is let through again is exact in time.              *)
(***************************************************************************)
EXTENDS DedupNode, Integers, SequenceTheorems, WellFoundedInduction, TLAPS

-----------------------------------------------------------------------------
(***************************************************************************)
(* The invariant.                                                          *)
(***************************************************************************)

\* The keys of a batch are those of the rows it keeps.
KeysMatch(b) == b.kept \subseteq b.first .. b.last /\ b.keys = KeysOf(b.kept)

\* A row the batch dropped has a key that is the batch's, or that of a delivered
\* row, or of one of the first n batches in flight.
Explained(b, flight, n, rows) ==
    \A r \in b.first .. b.last :
        \/ r \in b.kept
        \/ /\ Log[r] # None
           /\ \/ Log[r] \in b.keys
              \/ Log[r] \in KeysOf(rows)
              \/ \E j \in 1..n : Log[r] \in flight[j].keys

QueueInv ==
    /\ \A i \in 1..Len(queue) :
          /\ queue[i].first <= queue[i].last
          /\ KeysMatch(queue[i])
          /\ Explained(queue[i], queue, i, delivered)
          /\ queue[i].state = "there" => queue[i].kept \subseteq delivered
    /\ \A i \in 1..Len(queue) : \A j \in 1..Len(queue) :
          j = i + 1 => queue[j].first = queue[i].last + 1

\* The last row in flight.
LastOut == IF queue = <<>> THEN committed ELSE queue[Len(queue)].last

BatchInv ==
    /\ pc \in {"event", "marking"} => batch = None
    /\ pc \in {"lookup", "done"} => batch # None
    /\ batch # None => batch.first <= batch.last
    /\ pc \in {"cleanup", "lookup"} /\ batch # None => batch.kept = {} /\ batch.keys = {}
    /\ pc = "done" => KeysMatch(batch) /\ Explained(batch, queue, Len(queue), delivered)
    /\ pc = "marking" => /\ queue # <<>>
                         /\ queue[1].state = "there"
                         /\ committed = queue[1].last
    /\ Running /\ pc # "marking" /\ queue # <<>> => queue[1].first = committed + 1
    /\ Running /\ batch = None => position = LastOut
    /\ Running /\ batch # None => batch.first = LastOut + 1 /\ batch.last = position

PendingInv ==
    /\ InFlightKeysDiffer
    /\ batch # None => \A i \in 1..Len(queue) : batch.keys \cap queue[i].keys = {}
    /\ Running =>
          \A k \in Key : k \in pending <=>
              \/ \E i \in 1..Len(queue) : k \in queue[i].keys
              \/ batch # None /\ k \in batch.keys

FlightInv ==
    /\ TypeOK
    /\ landed <= committed
    /\ NoEventLost
    /\ MarkedIsDelivered
    /\ QueueInv
    /\ BatchInv
    /\ PendingInv

-----------------------------------------------------------------------------
(***************************************************************************)
(* Keys and batches.                                                       *)
(***************************************************************************)
LEMMA KeysOfRows ==
    ASSUME NEW rows \in SUBSET Rows
    PROVE  /\ KeysOf(rows) \in SUBSET Key
           /\ \A k : k \in KeysOf(rows) <=> k # None /\ \E r \in rows : Log[r] = k
<1>1. \A r \in Rows : Log[r] \in Key \cup {None}
  BY NodeConstants, ElementOfSeq DEF Rows
<1>2. QED
  BY <1>1 DEF KeysOf

LEMMA MoreKeys ==
    ASSUME NEW rows, NEW more, rows \subseteq more
    PROVE  KeysOf(rows) \subseteq KeysOf(more)
BY DEF KeysOf

LEMMA HandledParts ==
    ASSUME NEW h \in Handled
    PROVE  /\ h.first \in Rows /\ h.last \in Rows
           /\ h.first \in Nat \ {0} /\ h.last \in Nat \ {0}
           /\ h.last <= Len(Log) /\ Len(Log) \in Nat
           /\ h.kept \in SUBSET Rows /\ h.keys \in SUBSET Key
           /\ h.state \in {"out", "there", "failed"}
           /\ h # None
<1>1. Len(Log) \in Nat
  BY NodeConstants, LenProperties
<1>2. QED
  BY <1>1, NodeConstants DEF Handled, Rows

LEMMA InFlight ==
    ASSUME NEW q \in Seq(Handled)
    PROVE  /\ Len(q) \in Nat
           /\ \A i \in 1..Len(q) : q[i] \in Handled
           /\ q = <<>> <=> Len(q) = 0
BY LenProperties, ElementOfSeq, EmptySeq

LEMMA AppendFlight ==
    ASSUME NEW q \in Seq(Handled), NEW h \in Handled
    PROVE  /\ Append(q, h) \in Seq(Handled)
           /\ Len(Append(q, h)) = Len(q) + 1 /\ Append(q, h) # <<>>
           /\ \A i \in 1..Len(q) : Append(q, h)[i] = q[i]
           /\ Append(q, h)[Len(q) + 1] = h
           /\ \A i \in 1..Len(Append(q, h)) : i \in 1..Len(q) \/ i = Len(q) + 1
<1>1. /\ Append(q, h) \in Seq(Handled) /\ Len(q) \in Nat
      /\ Len(Append(q, h)) = Len(q) + 1
      /\ \A i \in 1..Len(q) : Append(q, h)[i] = q[i]
      /\ Append(q, h)[Len(q) + 1] = h
  BY AppendProperties, LenProperties
<1>2. Append(q, h) # <<>>
  BY <1>1, EmptySeq
<1>3. QED
  BY <1>1, <1>2

LEMMA TailFlight ==
    ASSUME NEW q \in Seq(Handled), q # <<>>
    PROVE  /\ Tail(q) \in Seq(Handled)
           /\ Len(q) \in Nat \ {0} /\ Len(Tail(q)) = Len(q) - 1
           /\ Head(q) = q[1] /\ q[1] \in Handled
           /\ \A i \in 1..Len(Tail(q)) : i + 1 \in 1..Len(q) /\ Tail(q)[i] = q[i + 1]
           /\ \A i \in 1..Len(q) :
                 i = 1 \/ (i - 1 \in 1..Len(Tail(q)) /\ q[i] = Tail(q)[i - 1])
<1>1. Len(q) \in Nat \ {0} /\ DOMAIN q = 1..Len(q)
  BY EmptySeq, LenProperties
<1>2. /\ Tail(q) \in Seq(Handled) /\ Len(Tail(q)) = Len(q) - 1
      /\ \A i \in 1..Len(Tail(q)) : Tail(q)[i] = q[i + 1]
  BY HeadTailProperties
<1>3. Head(q) = q[1] /\ q[1] \in Handled
  BY <1>1, ElementOfSeq
<1>4. /\ \A i \in 1..Len(Tail(q)) : i + 1 \in 1..Len(q)
      /\ \A i \in 1..Len(q) : i # 1 => i - 1 \in 1..Len(Tail(q)) /\ (i - 1) + 1 = i
  BY <1>1, <1>2
<1>5. QED
  BY <1>1, <1>2, <1>3, <1>4

-----------------------------------------------------------------------------
(***************************************************************************)
(* The store: its types, and that it learns no keys but those added.       *)
(***************************************************************************)
Learns(keys) ==
    \A b \in Bucket :
        stored'[b] \cup flushed'[b] \subseteq stored[b] \cup flushed[b] \cup keys

LEMMA NowsBucket ==
    ASSUME StoreTypeOK
    PROVE  BucketIndex(now) \in Bucket
<1>1. /\ now \in Nat /\ MaxTime \in Nat /\ BucketTicks \in Nat \ {0} /\ now <= MaxTime
  BY StoreConstants DEF StoreTypeOK
<1>2. now \div BucketTicks \in Nat /\ MaxTime \div BucketTicks \in Nat
  BY <1>1
<1>3. now \div BucketTicks <= MaxTime \div BucketTicks
  BY <1>1
<1>4. QED
  BY <1>2, <1>3 DEF BucketIndex, Bucket

LEMMA KeepOnlyKeeps ==
    ASSUME StoreTypeOK, NEW kept \in SUBSET dirs, KeepOnly(kept),
           open' \subseteq kept, now' = now
    PROVE  StoreTypeOK' /\ Learns({})
BY DEF StoreTypeOK, KeepOnly, Learns

LEMMA AddManyKeeps ==
    ASSUME StoreTypeOK, NEW keys \in SUBSET Key, AddMany(keys)
    PROVE  StoreTypeOK' /\ Learns(keys)
<1>1. CASE keys = {}
  BY <1>1 DEF AddMany, storeVars, StoreTypeOK, Learns
<1>2. CASE keys # {}
  BY <1>2, NowsBucket DEF AddMany, StoreTypeOK, Learns
<1>3. QED
  BY <1>1, <1>2

LEMMA AddManyFailsKeeps ==
    ASSUME StoreTypeOK, AddManyFails
    PROVE  StoreTypeOK' /\ Learns({})
BY NowsBucket DEF AddManyFails, StoreTypeOK, Learns

LEMMA CloseStoreKeeps ==
    ASSUME StoreTypeOK, CloseStore
    PROVE  StoreTypeOK' /\ Learns({})
BY DEF CloseStore, StoreTypeOK, Learns

LEMMA KillStoreKeeps ==
    ASSUME StoreTypeOK, KillStore
    PROVE  StoreTypeOK' /\ Learns({})
BY DEF KillStore, StoreTypeOK, Learns

LEMMA StillDelivered ==
    ASSUME MarkedIsDelivered, NEW keys, Learns(keys), keys \subseteq KeysDelivered',
           delivered \subseteq delivered'
    PROVE  MarkedIsDelivered'
<1>1. KeysDelivered \subseteq KeysDelivered'
  BY MoreKeys DEF KeysDelivered
<1>2. QED
  BY <1>1 DEF MarkedIsDelivered, Learns

LEMMA LengthOfLog ==
    ASSUME TypeOK
    PROVE  /\ Len(Log) \in Nat
           /\ position \in Nat /\ committed \in Nat /\ landed \in Nat
<1>1. Len(Log) \in Nat
  BY NodeConstants, LenProperties
<1>2. QED
  BY <1>1 DEF TypeOK

LEMMA LeastRow ==
    ASSUME NEW S \in SUBSET Nat, S # {}
    PROVE  \E q \in S : \A p \in S : q <= p
<1>1. IsWellFoundedOn(OpToRel(<, Nat), Nat)
  BY NatLessThanWellFounded
<1>2. PICK q \in S : \A p \in S : <<p, q>> \notin OpToRel(<, Nat)
  BY <1>1, WFMin
<1>3. \A m, n \in Nat : m < n => <<m, n>> \in OpToRel(<, Nat)
  BY DEF OpToRel
<1>4. \A p \in S : ~(p < q)
  BY <1>2, <1>3
<1>5. QED
  BY <1>4

-----------------------------------------------------------------------------
(***************************************************************************)
(* What the steps have in common.                                          *)
(***************************************************************************)
LEMMA StillNoneLost ==
    ASSUME NoEventLost, committed' <= committed, committed' \in Nat, committed \in Nat,
           delivered \subseteq delivered'
    PROVE  NoEventLost'
<1>1. KeysDelivered \subseteq KeysDelivered'
  BY MoreKeys DEF KeysDelivered
<1>2. 1..committed' \subseteq 1..committed
  OBVIOUS
<1>3. QED
  BY <1>1, <1>2 DEF NoEventLost

\* Nothing but the place in the loop and the surroundings change: the loop stays
\* where it is, or is over.
LEMMA QuietKeeps ==
    ASSUME FlightInv, TypeOK', MarkedIsDelivered',
           landed' <= committed',
           UNCHANGED <<batch, pending, queue, position, committed, delivered>>,
           pc' = pc \/ pc' \in {"closing", "closed", "down"}
    PROVE  FlightInv'
<1>1. NoEventLost'
  BY DEF FlightInv, NoEventLost, KeysDelivered
<1>2. QueueInv'
  BY DEF FlightInv, QueueInv
<1>3. BatchInv'
  BY DEF FlightInv, BatchInv, LastOut, Running
<1>4. PendingInv'
  BY DEF FlightInv, PendingInv, InFlightKeysDiffer, Running
<1>5. QED
  BY <1>1, <1>2, <1>3, <1>4 DEF FlightInv

\* A batch in flight is reported on.
LEMMA ReportKeeps ==
    ASSUME FlightInv, TypeOK', NEW i \in 1..Len(queue), NEW f \in {"there", "failed"},
           queue' = [queue EXCEPT ![i].state = f],
           queue[i].state = "out",
           f = "there" => queue[i].kept \subseteq delivered',
           delivered \subseteq delivered',
           UNCHANGED <<storeVars, pc, batch, pending, position, committed, landed>>
    PROVE  FlightInv'
<1>0. KeysOf(delivered) \subseteq KeysOf(delivered')
  BY MoreKeys
<1>1. /\ queue \in Seq(Handled) /\ Len(queue) \in Nat /\ queue # <<>>
      /\ \A j \in 1..Len(queue) : queue[j] \in Handled
  BY InFlight DEF FlightInv, TypeOK
<1> DEFINE new == [queue[i] EXCEPT !.state = f]
<1>2. /\ new \in Handled
      /\ new.first = queue[i].first /\ new.last = queue[i].last
      /\ new.kept = queue[i].kept /\ new.keys = queue[i].keys /\ new.state = f
  BY <1>1 DEF Handled
<1>3. queue' = [queue EXCEPT ![i] = new]
  OBVIOUS
<1> HIDE DEF new
<1>4. /\ Len(queue') = Len(queue)
      /\ \A j \in 1..Len(queue) : queue'[j] = IF j = i THEN new ELSE queue[j]
  BY <1>1, <1>2, <1>3, ExceptSeq
<1>5. ASSUME NEW j \in 1..Len(queue)
      PROVE  /\ queue'[j].first = queue[j].first /\ queue'[j].last = queue[j].last
             /\ queue'[j].kept = queue[j].kept /\ queue'[j].keys = queue[j].keys
             /\ queue'[j].state = IF j = i THEN f ELSE queue[j].state
  <2>1. CASE j = i
    BY <1>2, <1>4, <2>1
  <2>2. CASE j # i
    BY <1>4, <2>2
  <2>3. QED
    BY <2>1, <2>2
<1>6. queue' # <<>>
  BY <1>1, <1>4, EmptySeq DEF TypeOK
<1>7. NoEventLost'
  BY StillNoneLost, LengthOfLog DEF FlightInv, TypeOK
<1>8. MarkedIsDelivered'
  <2>1. Learns({})
    BY DEF Learns, storeVars
  <2>2. QED
    BY <2>1, StillDelivered DEF FlightInv
<1>9. QueueInv'
  <2>1. ASSUME NEW j \in 1..Len(queue)
        PROVE  /\ queue'[j].first <= queue'[j].last
               /\ KeysMatch(queue'[j])
               /\ Explained(queue'[j], queue', j, delivered')
               /\ queue'[j].state = "there" => queue'[j].kept \subseteq delivered'
    <3>1. /\ queue[j].first <= queue[j].last
          /\ KeysMatch(queue[j]) /\ Explained(queue[j], queue, j, delivered)
          /\ queue[j].state = "there" => queue[j].kept \subseteq delivered
      BY DEF FlightInv, QueueInv
    <3>2. KeysMatch(queue'[j])
      BY <1>5, <3>1 DEF KeysMatch
    <3>3. \A k \in 1..j : queue'[k].keys = queue[k].keys
      BY <1>1, <1>5
    <3>4. Explained(queue'[j], queue', j, delivered')
      BY <1>5, <1>0, <3>1, <3>3 DEF Explained
    <3>5. queue'[j].state = "there" => queue'[j].kept \subseteq delivered'
      BY <1>5, <3>1
    <3>6. QED
      BY <1>5, <3>1, <3>2, <3>4, <3>5
  <2>2. \A j, k \in 1..Len(queue) : k = j + 1 => queue'[k].first = queue'[j].last + 1
    BY <1>5 DEF FlightInv, QueueInv
  <2>3. QED
    BY <1>4, <2>1, <2>2 DEF QueueInv
<1>10. BatchInv'
  <2>1. LastOut' = LastOut
    <3>1. Len(queue) \in 1..Len(queue)
      BY <1>1, EmptySeq
    <3>2. QED
      BY <1>1, <1>4, <1>5, <1>6, <3>1 DEF LastOut
  <2>2. 1 \in 1..Len(queue)
    BY <1>1
  <2>3. queue'[1].first = queue[1].first /\ queue'[1].last = queue[1].last
    BY <1>5, <2>2
  <2>4. pc = "marking" => queue'[1].state = "there"
    BY <1>5, <2>2 DEF FlightInv, BatchInv
  <2>5. pc = "done" => Explained(batch, queue', Len(queue'), delivered')
    <3>1. \A k \in 1..Len(queue) : queue'[k].keys = queue[k].keys
      BY <1>5
    <3>2. QED
      BY <1>4, <1>0, <3>1 DEF FlightInv, BatchInv, Explained
  <2>6. QED
    BY <1>1, <1>6, <2>1, <2>3, <2>4, <2>5 DEF FlightInv, BatchInv, Running
<1>11. PendingInv'
  BY <1>4, <1>5 DEF FlightInv, PendingInv, InFlightKeysDiffer, Running
<1>12. QED
  BY <1>7, <1>8, <1>9, <1>10, <1>11 DEF FlightInv

-----------------------------------------------------------------------------
(***************************************************************************)
(* The invariant is inductive.                                             *)
(***************************************************************************)
LEMMA InitInv == Init => FlightInv
<1> SUFFICES ASSUME Init PROVE FlightInv
  OBVIOUS
<1>1. Len(Log) \in Nat /\ MaxTime \in Nat /\ MaxFaults \in Nat /\ MaxStops \in Nat
  BY NodeConstants, StoreConstants, LenProperties
<1>2. /\ queue = <<>> /\ Len(queue) = 0 /\ queue \in Seq(Handled) /\ batch = None
      /\ pc = "event" /\ pending = {} /\ position = 0 /\ committed = 0 /\ landed = 0
      /\ delivered = {} /\ faults = 0 /\ stops = 0 /\ stopping = FALSE
  BY EmptySeq DEF Init
<1>3. StoreTypeOK
  BY <1>1 DEF Init, StoreInit, StoreTypeOK
<1>4. marked \in [Key -> 0..MaxTime \cup {None}]
  BY DEF Init
<1>5. TypeOK
  <2>1. /\ position \in 0..Len(Log) /\ committed \in 0..Len(Log) /\ landed \in 0..Len(Log)
        /\ faults \in 0..MaxFaults /\ stops \in 0..MaxStops
    BY <1>1, <1>2
  <2>2. QED
    BY <1>2, <1>3, <1>4, <2>1 DEF TypeOK
<1>6. NoEventLost /\ MarkedIsDelivered
  BY <1>2 DEF NoEventLost, MarkedIsDelivered, Init, StoreInit
<1>7. QueueInv /\ PendingInv
  BY <1>2 DEF QueueInv, PendingInv, InFlightKeysDiffer
<1>8. BatchInv
  BY <1>2 DEF BatchInv, LastOut
<1>9. QED
  BY <1>2, <1>5, <1>6, <1>7, <1>8 DEF FlightInv

LEMMA TakeBatchKeeps ==
    ASSUME FlightInv, TakeBatch
    PROVE  FlightInv'
<1>1. PICK n \in 1..BatchSize :
         /\ position + n <= Len(Log)
         /\ batch' = [first |-> position + 1, last |-> position + n, kept |-> {},
                      keys |-> {}, cleaned |-> now, looked |-> now, state |-> "out"]
         /\ position' = position + n
  BY DEF TakeBatch
<1>2. /\ pc = "event" /\ pc' = "cleanup" /\ batch = None
      /\ UNCHANGED <<storeVars, pending, queue, committed, landed, stopping,
                     delivered, marked, faults, stops>>
  BY DEF TakeBatch, FlightInv, BatchInv
<1>3. n \in Nat \ {0} /\ position \in Nat /\ Len(Log) \in Nat
  BY NodeConstants, LengthOfLog DEF FlightInv
<1>4. batch' \in Handled
  BY <1>1, <1>3 DEF FlightInv, TypeOK, StoreTypeOK, Handled, Rows
<1>5. /\ batch' # None /\ batch'.first = position + 1 /\ batch'.last = position'
      /\ batch'.first <= batch'.last /\ batch'.kept = {} /\ batch'.keys = {}
  <2>1. /\ batch'.first = position + 1 /\ batch'.last = position + n
        /\ batch'.kept = {} /\ batch'.keys = {}
    BY <1>1
  <2>2. batch' # None
    BY <1>4, NodeConstants
  <2>3. batch'.last = position'
    BY <1>1, <2>1
  <2>4. position + 1 <= position + n
    BY <1>3
  <2>5. batch'.first <= batch'.last
    BY <2>1, <2>4
  <2>6. QED
    BY <2>1, <2>2, <2>3, <2>5
<1>6. TypeOK'
  BY <1>1, <1>2, <1>3, <1>4 DEF FlightInv, TypeOK, StoreTypeOK, storeVars
<1>7. NoEventLost' /\ MarkedIsDelivered' /\ QueueInv'
  BY <1>2 DEF FlightInv, NoEventLost, KeysDelivered, MarkedIsDelivered,
                 QueueInv, storeVars
<1>8. BatchInv'
  BY <1>2, <1>5 DEF FlightInv, BatchInv, LastOut, Running
<1>9. PendingInv'
  BY <1>2, <1>5 DEF FlightInv, PendingInv, InFlightKeysDiffer, Running
<1>10. QED
  BY <1>2, <1>6, <1>7, <1>8, <1>9 DEF FlightInv

LEMMA TakeIdleKeeps ==
    ASSUME FlightInv, TakeIdle
    PROVE  FlightInv'
<1>1. /\ pc = "event" /\ pc' = "cleanup" /\ batch = None
      /\ UNCHANGED <<storeVars, batch, pending, queue, position, committed, landed,
                     stopping, delivered, marked, faults, stops>>
  BY DEF TakeIdle, FlightInv, BatchInv
<1>2. TypeOK'
  BY <1>1 DEF FlightInv, TypeOK, StoreTypeOK, storeVars
<1>3. NoEventLost' /\ MarkedIsDelivered' /\ QueueInv'
  BY <1>1 DEF FlightInv, NoEventLost, KeysDelivered, MarkedIsDelivered,
                 QueueInv, storeVars
<1>4. BatchInv'
  BY <1>1 DEF FlightInv, BatchInv, LastOut, Running
<1>5. PendingInv'
  BY <1>1 DEF FlightInv, PendingInv, InFlightKeysDiffer, Running
<1>6. QED
  BY <1>1, <1>2, <1>3, <1>4, <1>5 DEF FlightInv

\* The cleanup of an event, done or failed, keeps the batch as it was read.
LEMMA CleanupStepKeeps ==
    ASSUME FlightInv, Cleanup \/ CleanupFails
    PROVE  FlightInv'
<1>1. /\ pc = "cleanup"
      /\ UNCHANGED <<pending, queue, position, committed, landed, stopping,
                     delivered, marked, stops>>
  BY DEF Cleanup, CleanupFails
<1>2. StoreTypeOK' /\ Learns({}) /\ now' = now
  <2>1. CASE Cleanup
    <3>1. open' \subseteq {b \in dirs : Live(b)} /\ now' = now
      BY <2>1 DEF Cleanup, CleanupExpired, FlightInv, TypeOK, StoreTypeOK
    <3>2. KeepOnly({b \in dirs : Live(b)}) /\ {b \in dirs : Live(b)} \in SUBSET dirs
      BY <2>1 DEF Cleanup, CleanupExpired
    <3>3. QED
      BY <3>1, <3>2, KeepOnlyKeeps DEF FlightInv, TypeOK
  <2>2. CASE CleanupFails
    BY <2>2 DEF CleanupFails, storeVars, FlightInv, TypeOK, StoreTypeOK, Learns
  <2>3. QED
    BY <2>1, <2>2
<1>3. faults' \in 0..MaxFaults
  <2>1. faults \in 0..MaxFaults /\ MaxFaults \in Nat
    BY NodeConstants DEF FlightInv, TypeOK
  <2>2. faults' = faults \/ (faults < MaxFaults /\ faults' = faults + 1)
    BY DEF Cleanup, CleanupFails, Fault
  <2>3. QED
    BY <2>1, <2>2
<1>4. CASE batch = None
  <2>1. batch' = None /\ pc' = "event"
    BY <1>4 DEF Cleanup, CleanupFails
  <2>2. TypeOK'
    BY <1>1, <1>2, <1>3, <2>1 DEF FlightInv, TypeOK
  <2>3. BatchInv'
    BY <1>1, <1>4, <2>1 DEF FlightInv, BatchInv, LastOut, Running
  <2>4. PendingInv'
    BY <1>1, <1>4, <2>1 DEF FlightInv, PendingInv, InFlightKeysDiffer, Running
  <2>5. NoEventLost' /\ MarkedIsDelivered' /\ QueueInv'
    BY <1>1, <1>2, StillDelivered
       DEF FlightInv, NoEventLost, KeysDelivered, QueueInv
  <2>6. QED
    BY <1>1, <2>2, <2>3, <2>4, <2>5 DEF FlightInv
<1>5. CASE batch # None
  <2>1. batch \in Handled
    BY <1>5 DEF FlightInv, TypeOK
  <2>2. batch' = batch \/ batch' = [batch EXCEPT !.cleaned = now]
    BY <1>5 DEF Cleanup, CleanupFails
  <2>3. /\ batch' \in Handled /\ pc' = "lookup"
        /\ batch'.first = batch.first /\ batch'.last = batch.last
        /\ batch'.kept = {} /\ batch'.keys = {}
    <3>1. pc' = "lookup"
      BY <1>5 DEF Cleanup, CleanupFails
    <3>2. batch.kept = {} /\ batch.keys = {}
      BY <1>1, <1>5 DEF FlightInv, BatchInv
    <3>3. QED
      BY <2>1, <2>2, <3>1, <3>2 DEF Handled, FlightInv, TypeOK, StoreTypeOK
  <2>4. batch' # None
    BY <2>3, NodeConstants
  <2>5. TypeOK'
    BY <1>1, <1>2, <1>3, <2>3 DEF FlightInv, TypeOK
  <2>6. BatchInv'
    BY <1>1, <1>5, <2>3, <2>4 DEF FlightInv, BatchInv, LastOut, Running
  <2>7. PendingInv'
    <3>1. batch.keys = {}
      BY <1>1, <1>5 DEF FlightInv, BatchInv
    <3>2. QED
      BY <1>1, <1>5, <2>3, <2>4, <3>1
         DEF FlightInv, PendingInv, InFlightKeysDiffer, Running
  <2>8. NoEventLost' /\ MarkedIsDelivered' /\ QueueInv'
    BY <1>1, <1>2, StillDelivered
       DEF FlightInv, NoEventLost, KeysDelivered, QueueInv
  <2>9. QED
    BY <1>1, <2>5, <2>6, <2>7, <2>8 DEF FlightInv
<1>6. QED
  BY <1>4, <1>5

\* A row is dropped for a row of its batch, for a key in flight, or for one the
\* store knows, whose row is delivered.
LEMMA FilterKeeps ==
    ASSUME FlightInv, pc = "lookup", NEW broken, Filter(broken), faults' \in 0..MaxFaults
    PROVE  FlightInv'
<1> DEFINE kept == Kept(broken)
<1>1. /\ batch' = [batch EXCEPT !.kept = kept, !.keys = KeysOf(kept), !.looked = now]
      /\ pending' = pending \cup KeysOf(kept)
      /\ pc' = "done"
      /\ UNCHANGED <<storeVars, queue, position, committed, landed, stopping,
                     delivered, marked, stops>>
  BY DEF Filter
<1>2. /\ batch # None /\ batch \in Handled /\ batch.keys = {}
      /\ batch.first = LastOut + 1 /\ batch.last = position
  BY DEF FlightInv, TypeOK, BatchInv, Running
<1>3. kept \subseteq batch.first .. batch.last /\ kept \in SUBSET Rows
  <2>1. kept \subseteq batch.first .. batch.last
    BY DEF Kept
  <2>2. QED
    BY <1>2, <2>1, HandledParts DEF Rows
<1>4. /\ \A k : k \in KeysOf(kept) <=> k # None /\ \E r \in kept : Log[r] = k
      /\ KeysOf(kept) \in SUBSET Key
  BY <1>3, KeysOfRows
<1>5. \A k \in KeysOf(kept) : k \notin pending
  BY <1>4 DEF Kept
\* The dropped rows.
<1>6. ASSUME NEW r \in batch.first .. batch.last, r \notin kept
      PROVE  /\ Log[r] # None
             /\ \/ Log[r] \in KeysOf(kept)
                \/ Log[r] \in KeysOf(delivered)
                \/ \E j \in 1..Len(queue) : Log[r] \in queue[j].keys
  <2>1. /\ Log[r] # None
        /\ \/ Log[r] \in pending
           \/ Seen(Log[r], broken)
           \/ \E q \in batch.first .. (r - 1) : Log[q] = Log[r]
    BY <1>6 DEF Kept
  <2>2. Log[r] \in Key
    BY <1>2, <2>1, HandledParts, NodeConstants, ElementOfSeq DEF Rows
  <2>3. CASE Log[r] \in pending
    BY <1>2, <2>1, <2>2, <2>3 DEF FlightInv, PendingInv, Running
  <2>4. CASE Seen(Log[r], broken)
    BY <2>1, <2>4
       DEF Seen, FlightInv, MarkedIsDelivered, KeysDelivered, TypeOK, StoreTypeOK
  <2>5. CASE ~Seen(Log[r], broken) /\ Log[r] \notin pending
    \* The first row of its key in the batch is kept.
    <3> DEFINE same == {q \in batch.first .. batch.last : Log[q] = Log[r]}
    <3>1. \E q \in same : \A p \in batch.first .. (q - 1) : Log[p] # Log[r]
      <4>1. same \subseteq Nat /\ r \in same
        BY <1>2, HandledParts
      <4>2. PICK q \in same : \A p \in same : q <= p
        BY <4>1, LeastRow
      <4>3. ASSUME NEW p \in batch.first .. (q - 1) PROVE Log[p] # Log[r]
        <5>1. p \in batch.first .. batch.last /\ ~(q <= p)
          BY <1>2, <4>1, HandledParts
        <5>2. QED
          BY <4>2, <5>1
      <4>4. QED
        BY <4>3
    <3>2. PICK q \in same : \A p \in batch.first .. (q - 1) : Log[p] # Log[r]
      BY <3>1
    <3>3. q \in kept /\ Log[q] = Log[r]
      BY <2>5, <3>2 DEF Kept
    <3>4. QED
      BY <1>4, <2>1, <3>3
  <2>6. QED
    BY <2>3, <2>4, <2>5
<1> HIDE DEF kept
<1>7. /\ batch' \in Handled
      /\ batch'.first = batch.first /\ batch'.last = batch.last
      /\ batch'.kept = kept /\ batch'.keys = KeysOf(kept)
  BY <1>1, <1>2, <1>3, <1>4 DEF Handled, FlightInv, TypeOK, StoreTypeOK
<1>8. batch' # None
  BY <1>7, NodeConstants
<1>9. TypeOK'
  BY <1>1, <1>4, <1>7 DEF FlightInv, TypeOK, StoreTypeOK, storeVars
<1>10. NoEventLost' /\ MarkedIsDelivered' /\ QueueInv'
  BY <1>1 DEF FlightInv, NoEventLost, KeysDelivered, MarkedIsDelivered,
                 QueueInv, storeVars
<1>11. BatchInv'
  <2>1. KeysMatch(batch')
    BY <1>3, <1>7 DEF KeysMatch
  <2>2. Explained(batch', queue, Len(queue), delivered)
    BY <1>6, <1>7 DEF Explained
  <2>3. LastOut' = LastOut
    BY <1>1 DEF LastOut
  <2>4. QED
    BY <1>1, <1>2, <1>7, <1>8, <2>1, <2>2, <2>3 DEF FlightInv, BatchInv, Running
<1>12. PendingInv'
  <2>1. \A k \in Key : k \in pending <=> \E i \in 1..Len(queue) : k \in queue[i].keys
    BY <1>2 DEF FlightInv, PendingInv, Running
  <2>2. \A i \in 1..Len(queue) : KeysOf(kept) \cap queue[i].keys = {}
    BY <1>4, <1>5, <2>1
  <2>3. QED
    BY <1>1, <1>7, <1>8, <2>1, <2>2 DEF FlightInv, PendingInv, InFlightKeysDiffer
<1>13. QED
  BY <1>1, <1>9, <1>10, <1>11, <1>12 DEF FlightInv

LEMMA DoneKeeps ==
    ASSUME FlightInv, Done
    PROVE  FlightInv'
<1> DEFINE sent == [batch EXCEPT !.state = IF batch.kept = {} THEN "there" ELSE "out"]
<1>1. /\ pc = "done" /\ queue' = Append(queue, sent) /\ batch' = None /\ pc' = "event"
      /\ UNCHANGED <<storeVars, pending, position, committed, landed, stopping,
                     delivered, marked, faults, stops>>
  BY DEF Done
<1>2. /\ batch # None /\ batch \in Handled
      /\ batch.first = LastOut + 1 /\ batch.last = position
      /\ batch.first <= batch.last
      /\ KeysMatch(batch) /\ Explained(batch, queue, Len(queue), delivered)
  BY <1>1 DEF FlightInv, TypeOK, BatchInv, Running
<1>3. /\ sent \in Handled
      /\ sent.first = batch.first /\ sent.last = batch.last
      /\ sent.kept = batch.kept /\ sent.keys = batch.keys
      /\ sent.state = "there" => sent.kept = {}
  BY <1>2 DEF Handled
<1> HIDE DEF sent
<1>4. /\ queue \in Seq(Handled) /\ Len(queue) \in Nat
      /\ queue = <<>> <=> Len(queue) = 0
  BY InFlight DEF FlightInv, TypeOK
<1>5. /\ queue' \in Seq(Handled) /\ Len(queue') = Len(queue) + 1 /\ queue' # <<>>
      /\ \A i \in 1..Len(queue) : queue'[i] = queue[i]
      /\ queue'[Len(queue) + 1] = sent
      /\ \A i \in 1..Len(queue') : i \in 1..Len(queue) \/ i = Len(queue) + 1
  BY <1>1, <1>3, <1>4, AppendFlight
<1>6. TypeOK'
  BY <1>1, <1>5 DEF FlightInv, TypeOK, StoreTypeOK, storeVars
<1>7. NoEventLost' /\ MarkedIsDelivered'
  BY <1>1 DEF FlightInv, NoEventLost, KeysDelivered, MarkedIsDelivered, storeVars
<1>8. QueueInv'
  <2>1. ASSUME NEW i \in 1..Len(queue')
        PROVE  /\ queue'[i].first <= queue'[i].last
               /\ KeysMatch(queue'[i])
               /\ Explained(queue'[i], queue', i, delivered)
               /\ queue'[i].state = "there" => queue'[i].kept \subseteq delivered
    <3>1. CASE i \in 1..Len(queue)
      <4>1. /\ queue[i].first <= queue[i].last
            /\ KeysMatch(queue[i]) /\ Explained(queue[i], queue, i, delivered)
            /\ queue[i].state = "there" => queue[i].kept \subseteq delivered
        BY <3>1 DEF FlightInv, QueueInv
      <4>2. queue'[i] = queue[i] /\ \A j \in 1..i : queue'[j] = queue[j]
        BY <1>4, <1>5, <3>1
      <4>3. QED
        BY <4>1, <4>2 DEF Explained
    <3>2. CASE i = Len(queue) + 1
      <4>1. queue'[i] = sent /\ \A j \in 1..Len(queue) : j \in 1..i /\ queue'[j] = queue[j]
        BY <1>4, <1>5, <3>2
      <4>2. Explained(sent, queue', i, delivered)
        BY <1>2, <1>3, <4>1 DEF Explained
      <4>3. KeysMatch(sent)
        BY <1>2, <1>3 DEF KeysMatch
      <4>4. QED
        BY <1>2, <1>3, <4>1, <4>2, <4>3
    <3>3. QED
      BY <1>5, <3>1, <3>2
  <2>2. ASSUME NEW i \in 1..Len(queue'), NEW j \in 1..Len(queue'), j = i + 1
        PROVE  queue'[j].first = queue'[i].last + 1
    <3>1. CASE j \in 1..Len(queue)
      <4>1. i \in 1..Len(queue)
        BY <1>4, <1>5, <2>2, <3>1
      <4>2. QED
        BY <1>5, <2>2, <3>1, <4>1 DEF FlightInv, QueueInv
    <3>2. CASE j = Len(queue) + 1
      <4>1. i = Len(queue) /\ i \in 1..Len(queue) /\ queue # <<>>
        BY <1>4, <1>5, <2>2, <3>2
      <4>2. batch.first = queue[i].last + 1
        BY <1>2, <4>1 DEF LastOut
      <4>3. QED
        BY <1>3, <1>5, <3>2, <4>1, <4>2
    <3>3. QED
      BY <1>5, <3>1, <3>2
  <2>3. QED
    BY <1>1, <2>1, <2>2 DEF QueueInv
<1>9. BatchInv'
  <2>1. LastOut' = position
    BY <1>2, <1>3, <1>5 DEF LastOut
  <2>2. queue'[1].first = committed + 1
    <3>1. CASE queue = <<>>
      BY <3>1, <1>2, <1>3, <1>4, <1>5 DEF LastOut
    <3>2. CASE queue # <<>>
      <4>1. 1 \in 1..Len(queue)
        BY <1>4, <3>2
      <4>2. QED
        BY <1>1, <1>5, <3>2, <4>1 DEF FlightInv, BatchInv, Running
    <3>3. QED
      BY <3>1, <3>2
  <2>3. QED
    BY <1>1, <1>5, <2>1, <2>2 DEF BatchInv
<1>10. PendingInv'
  <2>1. /\ \A i, j \in 1..Len(queue) : i # j => queue[i].keys \cap queue[j].keys = {}
        /\ \A i \in 1..Len(queue) : sent.keys \cap queue[i].keys = {}
    BY <1>2, <1>3 DEF FlightInv, PendingInv, InFlightKeysDiffer
  <2>2. \A i, j \in 1..Len(queue') : i # j => queue'[i].keys \cap queue'[j].keys = {}
    BY <1>5, <2>1
  <2>3. \A k \in Key : k \in pending <=>
           \/ \E i \in 1..Len(queue) : k \in queue[i].keys
           \/ k \in sent.keys
    BY <1>1, <1>2, <1>3 DEF FlightInv, PendingInv, Running
  <2>4. \A k : (\E i \in 1..Len(queue') : k \in queue'[i].keys) <=>
           \/ \E i \in 1..Len(queue) : k \in queue[i].keys
           \/ k \in sent.keys
    <3>1. /\ \A i \in 1..Len(queue) : i \in 1..Len(queue')
          /\ Len(queue) + 1 \in 1..Len(queue')
      BY <1>4, <1>5
    <3>2. QED
      BY <1>5, <3>1
  <2>5. QED
    BY <1>1, <2>2, <2>3, <2>4 DEF PendingInv, InFlightKeysDiffer
<1>11. QED
  BY <1>1, <1>6, <1>7, <1>8, <1>9, <1>10 DEF FlightInv

\* The keys of a delivered batch are delivered.
LEMMA ThereIsDelivered ==
    ASSUME FlightInv, queue # <<>>, queue[1].state = "there"
    PROVE  queue[1].kept \subseteq delivered /\ queue[1].keys \subseteq KeysDelivered
<1>1. 1 \in 1..Len(queue)
  BY InFlight DEF FlightInv, TypeOK
<1>2. queue[1].kept \subseteq delivered /\ queue[1].keys = KeysOf(queue[1].kept)
  BY <1>1 DEF FlightInv, QueueInv, KeysMatch
<1>3. QED
  BY <1>2, MoreKeys DEF KeysDelivered

\* The commit goes over rows of one delivered batch.
LEMMA CommitHeadKeeps ==
    ASSUME FlightInv, CommitHead
    PROVE  FlightInv'
<1>1. /\ pc = "event" /\ queue # <<>> /\ Head(queue).state = "there"
      /\ committed' = Head(queue).last /\ pc' = "marking" /\ batch = None
      /\ UNCHANGED <<storeVars, batch, pending, queue, position, landed, stopping,
                     delivered, marked, faults, stops>>
  BY DEF CommitHead, FlightInv, BatchInv
<1>2. /\ queue \in Seq(Handled) /\ Head(queue) = queue[1] /\ queue[1] \in Handled
      /\ 1 \in 1..Len(queue)
  BY <1>1, TailFlight, InFlight DEF FlightInv, TypeOK
<1>3. queue[1].kept \subseteq delivered /\ queue[1].keys \subseteq KeysDelivered
  BY <1>1, <1>2, ThereIsDelivered
<1>4. /\ queue[1].first = committed + 1 /\ committed' = queue[1].last
      /\ committed \in Nat /\ landed \in Nat
      /\ committed' \in Nat /\ committed' \in 0..Len(Log)
  BY <1>1, <1>2, HandledParts, LengthOfLog DEF FlightInv, BatchInv, Running
<1>5. Explained(queue[1], queue, 1, delivered) /\ landed <= committed
      /\ queue[1].first <= queue[1].last
  BY <1>2 DEF FlightInv, QueueInv
<1>6. NoEventLost'
  <2>1. ASSUME NEW r \in 1..committed'
        PROVE  r \in delivered \/ (Log[r] # None /\ Log[r] \in KeysDelivered)
    <3>1. CASE r <= committed
      BY <1>4, <3>1 DEF FlightInv, NoEventLost
    <3>2. CASE ~(r <= committed)
      <4>1. r \in queue[1].first .. queue[1].last
        BY <1>4, <3>2
      <4>2. \/ r \in queue[1].kept
            \/ /\ Log[r] # None
               /\ Log[r] \in queue[1].keys \/ Log[r] \in KeysOf(delivered)
        BY <1>5, <4>1 DEF Explained
      <4>3. QED
        BY <1>3, <4>2 DEF KeysDelivered
    <3>3. QED
      BY <3>1, <3>2
  <2>2. QED
    BY <1>1, <2>1 DEF NoEventLost, KeysDelivered
<1>7. TypeOK'
  BY <1>1, <1>4 DEF FlightInv, TypeOK, StoreTypeOK, storeVars
<1>8. MarkedIsDelivered' /\ QueueInv' /\ PendingInv'
  BY <1>1 DEF FlightInv, MarkedIsDelivered, KeysDelivered, QueueInv, PendingInv,
              InFlightKeysDiffer, Running, storeVars
<1>9. landed' <= committed'
  BY <1>1, <1>4, <1>5
<1>10. BatchInv'
  <2>1. LastOut' = LastOut
    BY <1>1 DEF LastOut
  <2>2. QED
    BY <1>1, <1>2, <1>4, <2>1 DEF FlightInv, BatchInv, Running
<1>11. QED
  BY <1>6, <1>7, <1>8, <1>9, <1>10 DEF FlightInv

\* The batch that is forgotten is the one committed, and its keys are delivered,
\* so that what it explains stays explained.
LEMMA ForgetKeeps ==
    ASSUME FlightInv, pc = "marking", Forget,
           StoreTypeOK', Learns(queue[1].keys),
           marked' \in [Key -> 0..MaxTime \cup {None}], faults' \in 0..MaxFaults
    PROVE  FlightInv'
<1>1. /\ pending' = pending \ Head(queue).keys
      /\ queue' = Tail(queue) /\ pc' = "event"
      /\ UNCHANGED <<batch, position, committed, landed, stopping, delivered, stops>>
  BY DEF Forget
<1>2. /\ batch = None /\ queue # <<>> /\ queue[1].state = "there"
      /\ committed = queue[1].last /\ position = LastOut
  BY DEF FlightInv, BatchInv, Running
<1>3. /\ queue' \in Seq(Handled) /\ Len(queue) \in Nat \ {0}
      /\ Len(queue') = Len(queue) - 1 /\ Head(queue) = queue[1]
      /\ \A i \in 1..Len(queue') : i + 1 \in 1..Len(queue) /\ queue'[i] = queue[i + 1]
      /\ \A i \in 1..Len(queue) :
            i = 1 \/ (i - 1 \in 1..Len(queue') /\ queue[i] = queue'[i - 1])
      /\ 1 \in 1..Len(queue)
  BY <1>1, <1>2, TailFlight DEF FlightInv, TypeOK
<1>4. queue' = <<>> <=> Len(queue') = 0
  BY <1>3, InFlight
<1>5. queue[1].keys \subseteq KeysOf(delivered)
  BY <1>2, ThereIsDelivered DEF KeysDelivered
<1>6. TypeOK'
  BY <1>1, <1>3 DEF FlightInv, TypeOK
<1>7. NoEventLost' /\ MarkedIsDelivered'
  <2>1. queue[1].keys \subseteq KeysDelivered'
    BY <1>1, <1>5 DEF KeysDelivered
  <2>2. QED
    BY <1>1, <2>1, StillDelivered DEF FlightInv, NoEventLost, KeysDelivered
<1>8. QueueInv'
  <2>1. ASSUME NEW i \in 1..Len(queue')
        PROVE  Explained(queue'[i], queue', i, delivered)
    <3>1. i + 1 \in 1..Len(queue) /\ queue'[i] = queue[i + 1] /\ i \in Nat
      BY <1>3
    <3>2. Explained(queue[i + 1], queue, i + 1, delivered)
      BY <3>1 DEF FlightInv, QueueInv
    <3>3. SUFFICES ASSUME NEW r \in queue[i + 1].first .. queue[i + 1].last,
                          NEW j \in 1..(i + 1), Log[r] \in queue[j].keys
                   PROVE  \/ Log[r] \in KeysOf(delivered)
                          \/ \E k \in 1..i : Log[r] \in queue'[k].keys
      BY <3>1, <3>2 DEF Explained
    <3>4. CASE j = 1
      BY <1>5, <3>3, <3>4
    <3>5. CASE j # 1
      <4>1. j - 1 \in 1..i /\ j \in 1..Len(queue)
        BY <1>3, <3>1, <3>5
      <4>2. queue[j] = queue'[j - 1]
        BY <1>3, <3>5, <4>1
      <4>3. QED
        BY <3>3, <4>1, <4>2
    <3>6. QED
      BY <3>4, <3>5
  <2>2. \A i \in 1..Len(queue') :
           /\ queue'[i].first <= queue'[i].last
           /\ KeysMatch(queue'[i])
           /\ queue'[i].state = "there" => queue'[i].kept \subseteq delivered
    BY <1>3 DEF FlightInv, QueueInv
  <2>3. \A i, j \in 1..Len(queue') : j = i + 1 => queue'[j].first = queue'[i].last + 1
    <3>1. \A i, j \in 1..Len(queue') : j = i + 1 =>
             /\ i + 1 \in 1..Len(queue) /\ j + 1 \in 1..Len(queue)
             /\ j + 1 = (i + 1) + 1
             /\ queue'[i] = queue[i + 1] /\ queue'[j] = queue[j + 1]
      BY <1>3
    <3>2. QED
      BY <3>1 DEF FlightInv, QueueInv
  <2>4. QED
    BY <1>1, <2>1, <2>2, <2>3 DEF QueueInv
<1>9. BatchInv'
  <2>1. LastOut' = LastOut
    <3>1. CASE Len(queue) = 1
      <4>1. queue' = <<>>
        BY <1>3, <1>4, <3>1
      <4>2. QED
        BY <1>1, <1>2, <3>1, <4>1 DEF LastOut
    <3>2. CASE Len(queue) # 1
      <4>1. /\ queue' # <<>> /\ Len(queue') \in 1..Len(queue')
            /\ Len(queue') + 1 = Len(queue)
        BY <1>3, <1>4, <3>2
      <4>2. queue'[Len(queue')] = queue[Len(queue)]
        BY <1>3, <4>1
      <4>3. QED
        BY <1>2, <4>1, <4>2 DEF LastOut
    <3>3. QED
      BY <3>1, <3>2
  <2>2. queue' # <<>> => queue'[1].first = committed + 1
    <3>1. SUFFICES ASSUME queue' # <<>> PROVE queue'[1].first = committed + 1
      OBVIOUS
    <3>2. 1 \in 1..Len(queue') /\ 1 + 1 \in 1..Len(queue) /\ queue'[1] = queue[1 + 1]
      BY <1>3, <1>4, <3>1
    <3>3. queue[1 + 1].first = queue[1].last + 1
      BY <1>3, <3>2 DEF FlightInv, QueueInv
    <3>4. QED
      BY <1>2, <3>2, <3>3
  <2>3. QED
    BY <1>1, <1>2, <2>1, <2>2 DEF BatchInv
<1>10. PendingInv'
  <2>1. InFlightKeysDiffer'
    <3>1. \A i, j \in 1..Len(queue') : i # j =>
             /\ i + 1 \in 1..Len(queue) /\ j + 1 \in 1..Len(queue) /\ i + 1 # j + 1
             /\ queue'[i] = queue[i + 1] /\ queue'[j] = queue[j + 1]
      BY <1>3
    <3>2. \A i, j \in 1..Len(queue) : i # j => queue[i].keys \cap queue[j].keys = {}
      BY DEF FlightInv, PendingInv, InFlightKeysDiffer
    <3>3. ASSUME NEW i \in 1..Len(queue'), NEW j \in 1..Len(queue'), i # j
          PROVE  queue'[i].keys \cap queue'[j].keys = {}
      <4>1. /\ i + 1 \in 1..Len(queue) /\ j + 1 \in 1..Len(queue) /\ i + 1 # j + 1
            /\ queue'[i] = queue[i + 1] /\ queue'[j] = queue[j + 1]
        BY <3>1, <3>3
      <4>2. QED
        BY <3>2, <4>1
    <3>4. QED
      BY <3>3 DEF InFlightKeysDiffer
  <2>2. \A i \in 1..Len(queue) : i # 1 => queue[i].keys \cap queue[1].keys = {}
    BY <1>3 DEF FlightInv, PendingInv, InFlightKeysDiffer
  <2>3. \A k \in Key : k \in pending <=> \E i \in 1..Len(queue) : k \in queue[i].keys
    BY <1>2 DEF FlightInv, PendingInv, Running
  <2>4. \A k \in Key : k \in pending' <=> \E i \in 1..Len(queue') : k \in queue'[i].keys
    <3>1. SUFFICES ASSUME NEW k \in Key
                   PROVE  k \in pending' <=> \E i \in 1..Len(queue') : k \in queue'[i].keys
      OBVIOUS
    <3>2. k \in pending' <=> k \in pending /\ k \notin queue[1].keys
      BY <1>1, <1>3
    <3>3. ASSUME k \in pending' PROVE \E i \in 1..Len(queue') : k \in queue'[i].keys
      <4>1. PICK i \in 1..Len(queue) : k \in queue[i].keys /\ i # 1
        BY <2>3, <3>2, <3>3
      <4>2. i - 1 \in 1..Len(queue') /\ queue[i] = queue'[i - 1]
        BY <1>3, <4>1
      <4>3. QED
        BY <4>1, <4>2
    <3>4. ASSUME NEW i \in 1..Len(queue'), k \in queue'[i].keys PROVE k \in pending'
      <4>1. /\ i + 1 \in 1..Len(queue) /\ i + 1 # 1 /\ queue'[i] = queue[i + 1]
        BY <1>3
      <4>2. k \in queue[i + 1].keys /\ k \notin queue[1].keys
        BY <2>2, <3>4, <4>1
      <4>3. QED
        BY <2>3, <3>2, <4>1, <4>2
    <3>5. QED
      BY <3>3, <3>4
  <2>5. QED
    BY <1>1, <1>2, <2>1, <2>4 DEF PendingInv
<1>11. QED
  BY <1>1, <1>6, <1>7, <1>8, <1>9, <1>10 DEF FlightInv

LEMMA MarkSeenKeeps ==
    ASSUME FlightInv, MarkSeen \/ MarkSeenFails
    PROVE  FlightInv'
<1>1. /\ pc = "marking" /\ Forget /\ queue # <<>>
      /\ StoreTypeOK /\ now \in 0..MaxTime
  BY DEF MarkSeen, MarkSeenFails, FlightInv, BatchInv, TypeOK, StoreTypeOK
<1>2. Head(queue) = queue[1] /\ queue[1].keys \in SUBSET Key
  BY <1>1, TailFlight, HandledParts DEF FlightInv, TypeOK
<1>3. StoreTypeOK' /\ Learns(queue[1].keys)
  <2>1. CASE MarkSeen
    BY <1>1, <1>2, <2>1, AddManyKeeps DEF MarkSeen
  <2>2. CASE MarkSeenFails
    <3>1. StoreTypeOK' /\ Learns({})
      BY <1>1, <2>2, AddManyFailsKeeps DEF MarkSeenFails
    <3>2. QED
      BY <3>1 DEF Learns
  <2>3. QED
    BY <2>1, <2>2
<1>4. marked' \in [Key -> 0..MaxTime \cup {None}]
  BY <1>1 DEF MarkSeen, MarkSeenFails, FlightInv, TypeOK
<1>5. faults' \in 0..MaxFaults
  <2>1. faults \in 0..MaxFaults /\ MaxFaults \in Nat
    BY NodeConstants DEF FlightInv, TypeOK
  <2>2. faults' = faults \/ (faults < MaxFaults /\ faults' = faults + 1)
    BY DEF MarkSeen, MarkSeenFails, Fault
  <2>3. QED
    BY <2>1, <2>2
<1>6. QED
  BY <1>1, <1>3, <1>4, <1>5, ForgetKeeps

\* A new process begins at the offset the broker has, behind which nothing is
\* lost, with an empty queue.
LEMMA BeginKeeps ==
    ASSUME FlightInv, NEW broken, Begin(broken), faults' \in 0..MaxFaults
    PROVE  FlightInv'
<1>1. /\ pc' = "event" /\ Recover(broken)
      /\ batch' = None /\ pending' = {} /\ queue' = <<>> /\ stopping' = FALSE
      /\ position' = landed /\ committed' = landed
      /\ UNCHANGED <<landed, delivered, marked, stops>>
  BY DEF Begin
<1>2. Len(queue') = 0 /\ queue' \in Seq(Handled)
  BY <1>1, EmptySeq
<1>3. StoreTypeOK' /\ Learns({})
  <2>1. KeepOnly({b \in dirs : Live(b)}) /\ open' = dirs' \ broken /\ now' = now
    BY <1>1 DEF Recover
  <2>2. open' \subseteq {b \in dirs : Live(b)}
    BY <2>1 DEF KeepOnly
  <2>3. QED
    BY <2>1, <2>2, KeepOnlyKeeps DEF FlightInv, TypeOK
<1>4. TypeOK'
  BY <1>1, <1>2, <1>3 DEF FlightInv, TypeOK
<1>5. NoEventLost'
  BY <1>1, StillNoneLost, LengthOfLog DEF FlightInv
<1>6. MarkedIsDelivered'
  BY <1>1, <1>3, StillDelivered DEF FlightInv
<1>7. QueueInv' /\ PendingInv'
  BY <1>1, <1>2 DEF QueueInv, PendingInv, InFlightKeysDiffer
<1>8. BatchInv'
  BY <1>1 DEF BatchInv, LastOut
<1>9. landed' <= committed'
  BY <1>1, LengthOfLog DEF FlightInv
<1>10. QED
  BY <1>4, <1>5, <1>6, <1>7, <1>8, <1>9 DEF FlightInv

\* What the loop is not part of, and what ends it.
LEMMA OutsideKeeps ==
    ASSUME FlightInv,
           \/ LoopEnds \/ Close \/ BodyFails \/ Kill
           \/ CommitLands \/ Stop \/ Tick \/ ClockStepsBack
    PROVE  FlightInv'
<1> USE NodeConstants, StoreConstants
<1>1. /\ UNCHANGED <<batch, pending, queue, position, committed, delivered, marked>>
      /\ pc' = pc \/ pc' \in {"closing", "closed", "down"}
  BY DEF LoopEnds, Close, BodyFails, Kill, CommitLands, Stop, Tick, ClockStepsBack,
         nodeVars
<1>2. landed' = landed \/ landed' = committed
  BY DEF LoopEnds, Close, BodyFails, Kill, CommitLands, Stop, Tick, ClockStepsBack,
         nodeVars
<1>3. /\ faults' \in 0..MaxFaults /\ stops' \in 0..MaxStops /\ stopping' \in BOOLEAN
  <2>1. /\ faults \in 0..MaxFaults /\ stops \in 0..MaxStops /\ stopping \in BOOLEAN
        /\ MaxFaults \in Nat /\ MaxStops \in Nat
    BY DEF FlightInv, TypeOK
  <2>2. faults' = faults \/ (faults < MaxFaults /\ faults' = faults + 1)
    BY DEF LoopEnds, Close, BodyFails, Kill, CommitLands, Stop, Tick, ClockStepsBack,
           nodeVars, Fault
  <2>3. /\ stops' = stops \/ (stops < MaxStops /\ stops' = stops + 1)
        /\ stopping' = stopping \/ stopping' = TRUE
    BY DEF LoopEnds, Close, BodyFails, Kill, CommitLands, Stop, Tick, ClockStepsBack,
           nodeVars
  <2>4. faults' \in 0..MaxFaults
    BY <2>1, <2>2
  <2>5. stops' \in 0..MaxStops
    BY <2>1, <2>3
  <2>6. QED
    BY <2>1, <2>3, <2>4, <2>5
<1>4. StoreTypeOK' /\ Learns({})
  <2>1. StoreTypeOK
    BY DEF FlightInv, TypeOK
  <2>2. CASE Close
    BY <2>1, <2>2, CloseStoreKeeps DEF Close
  <2>3. CASE Kill
    BY <2>1, <2>3, KillStoreKeeps DEF Kill
  <2>4. CASE Tick
    BY <2>1, <2>4 DEF Tick, StoreTypeOK, Learns
  <2>5. CASE ClockStepsBack
    BY <2>1, <2>5 DEF ClockStepsBack, StoreTypeOK, Learns
  <2>6. CASE LoopEnds \/ BodyFails \/ CommitLands \/ Stop
    <3>1. UNCHANGED <<now, open, dirs, stored, flushed>>
      BY <2>6 DEF LoopEnds, BodyFails, CommitLands, Stop, storeVars
    <3>2. QED
      BY <2>1, <3>1 DEF StoreTypeOK, Learns
  <2>7. QED
    BY <2>2, <2>3, <2>4, <2>5, <2>6
<1>5. TypeOK'
  BY <1>1, <1>2, <1>3, <1>4 DEF FlightInv, TypeOK
<1>6. MarkedIsDelivered'
  BY <1>1, <1>4, StillDelivered DEF FlightInv
<1>7. landed' <= committed'
  BY <1>1, <1>2, LengthOfLog DEF FlightInv
<1>8. QED
  BY <1>1, <1>5, <1>6, <1>7, QuietKeeps

LEMMA DeliveredKeeps ==
    ASSUME FlightInv, Delivered \/ Undelivered
    PROVE  FlightInv'
<1>1. PICK i \in 1..Len(queue), f \in {"there", "failed"} :
         /\ queue[i].state = "out"
         /\ queue' = [queue EXCEPT ![i].state = f]
         /\ \E some \in SUBSET queue[i].kept : delivered' = delivered \cup some
         /\ f = "there" => queue[i].kept \subseteq delivered'
  BY DEF Delivered, Undelivered
<1>2. /\ UNCHANGED <<storeVars, pc, batch, pending, position, committed, landed,
                     stopping, marked, stops>>
      /\ faults' = faults \/ (faults < MaxFaults /\ faults' = faults + 1)
  BY DEF Delivered, Undelivered, Fault
<1>3. /\ queue \in Seq(Handled) /\ queue[i] \in Handled /\ i \in 1..Len(queue)
  BY InFlight DEF FlightInv, TypeOK
<1>4. delivered \subseteq delivered' /\ delivered' \subseteq Rows
  BY <1>1, <1>3, HandledParts DEF FlightInv, TypeOK
<1>5. queue' \in Seq(Handled)
  <2>1. [queue[i] EXCEPT !.state = f] \in Handled
    BY <1>3 DEF Handled
  <2>2. queue' = [queue EXCEPT ![i] = [queue[i] EXCEPT !.state = f]]
    BY <1>1
  <2>3. QED
    BY <1>3, <2>1, <2>2, ExceptSeq
<1>6. faults' \in 0..MaxFaults
  BY <1>2, NodeConstants DEF FlightInv, TypeOK
<1>7. TypeOK'
  BY <1>2, <1>4, <1>5, <1>6 DEF FlightInv, TypeOK, StoreTypeOK, storeVars
<1>8. QED
  BY <1>1, <1>2, <1>4, <1>7, ReportKeeps

LEMMA StepInv == FlightInv /\ [Next]_vars => FlightInv'
<1> SUFFICES ASSUME FlightInv, [Next]_vars PROVE FlightInv'
  OBVIOUS
<1>1. faults \in 0..MaxFaults /\ MaxFaults \in Nat
  BY NodeConstants DEF FlightInv, TypeOK
<1>2. CASE TakeBatch
  BY <1>2, TakeBatchKeeps
<1>3. CASE TakeIdle
  BY <1>3, TakeIdleKeeps
<1>4. CASE Cleanup \/ CleanupFails
  BY <1>4, CleanupStepKeeps
<1>5. CASE Lookup
  BY <1>1, <1>5, FilterKeeps DEF Lookup
<1>6. CASE LookupFails
  <2>1. PICK broken \in SUBSET open : Filter(broken)
    BY <1>6 DEF LookupFails
  <2>2. pc = "lookup" /\ faults' \in 0..MaxFaults
    BY <1>1, <1>6 DEF LookupFails, Fault
  <2>3. QED
    BY <2>1, <2>2, FilterKeeps
<1>7. CASE Done
  BY <1>7, DoneKeeps
<1>8. CASE CommitHead
  BY <1>8, CommitHeadKeeps
<1>9. CASE MarkSeen \/ MarkSeenFails
  BY <1>9, MarkSeenKeeps
<1>10. CASE Restart
  BY <1>1, <1>10, BeginKeeps DEF Restart
<1>11. CASE RestartFails
  <2>1. PICK broken \in SUBSET dirs : Begin(broken)
    BY <1>11 DEF RestartFails
  <2>2. faults' \in 0..MaxFaults
    BY <1>1, <1>11 DEF RestartFails, Fault
  <2>3. QED
    BY <2>1, <2>2, BeginKeeps
<1>12. CASE Delivered \/ Undelivered
  BY <1>12, DeliveredKeeps
<1>13. CASE \/ LoopEnds \/ Close \/ BodyFails \/ Kill
            \/ CommitLands \/ Stop \/ Tick \/ ClockStepsBack
  BY <1>13, OutsideKeeps
<1>14. CASE UNCHANGED vars
  <2>1. /\ UNCHANGED <<batch, pending, queue, position, committed, delivered, landed, pc>>
        /\ UNCHANGED <<now, open, dirs, stored, flushed, marked, faults, stops, stopping>>
    BY <1>14 DEF vars, storeVars, nodeVars
  <2>2. TypeOK' /\ MarkedIsDelivered'
    BY <2>1 DEF FlightInv, TypeOK, StoreTypeOK, MarkedIsDelivered, KeysDelivered
  <2>3. landed' <= committed'
    BY <2>1 DEF FlightInv
  <2>4. QED
    BY <2>1, <2>2, <2>3, QuietKeeps
<1>15. QED
  BY <1>2, <1>3, <1>4, <1>5, <1>6, <1>7, <1>8, <1>9, <1>10, <1>11, <1>12, <1>13, <1>14
     DEF Next, Node, Faults

LEMMA AlwaysInv == Spec => []FlightInv
BY InitInv, StepInv, PTL DEF Spec

-----------------------------------------------------------------------------
(***************************************************************************)
(* Without failures: what the store knows and what has been marked agree.  *)
(***************************************************************************)

\* The bucket k was last marked in.
BucketOf(k) == BucketIndex(marked[k])

\* While nothing has failed, every bucket on disk is open, and holds exactly the
\* keys marked in it, a key last marked later apart; a marked key that is in no
\* bucket was marked in one that has left the window.
BucketsInv ==
    /\ pc # "down"
    /\ pc # "closed" => open = dirs
    /\ \A b \in Bucket \ dirs : stored[b] = {} /\ flushed[b] = {}
    /\ \A b \in Bucket : \A k \in stored[b] : marked[k] # None /\ b <= BucketOf(k)
    /\ \A k \in Key : marked[k] # None =>
         /\ marked[k] <= now
         /\ \/ BucketOf(k) \in dirs /\ k \in stored[BucketOf(k)]
            \/ BucketOf(k) + NumBuckets <= BucketIndex(now)

\* The keys of a batch are looked up in buckets that were inside the window when
\* they were cleaned for it.
CleanedInv ==
    pc = "lookup" => \A b \in open : b + NumBuckets > BucketIndex(batch.cleaned)

ExactInv == faults = 0 => BucketsInv /\ CleanedInv /\ DedupIsExact

-----------------------------------------------------------------------------
(***************************************************************************)
(* Buckets and times.                                                      *)
(***************************************************************************)
LEMMA BucketSpan ==
    ASSUME NEW t \in Nat
    PROVE  /\ BucketIndex(t) \in Nat
           /\ BucketTicks * BucketIndex(t) <= t
           /\ t < BucketTicks * BucketIndex(t) + BucketTicks
  BY StoreConstants DEF BucketIndex

LEMMA WindowBuckets == NumBuckets \in Nat
  BY StoreConstants DEF NumBuckets

LEMMA LaterBucket ==
    ASSUME NEW s \in Nat, NEW t \in Nat, s <= t
    PROVE  BucketIndex(s) <= BucketIndex(t)
  BY StoreConstants DEF BucketIndex

\* A bucket that has left the window was closed long ago, and one inside it was
\* begun not too long ago.
LEMMA WindowSpan ==
    ASSUME NEW s \in Nat, NEW t \in Nat
    PROVE  /\ BucketIndex(s) + NumBuckets <= BucketIndex(t) =>
                t - s > (NumBuckets - 1) * BucketTicks
           /\ BucketIndex(s) + NumBuckets > BucketIndex(t) =>
                t - s < NumBuckets * BucketTicks
<1> DEFINE i == BucketIndex(s)
           j == BucketIndex(t)
           n == NumBuckets
           w == BucketTicks
<1>1. /\ i \in Nat /\ j \in Nat /\ n \in Nat /\ w \in Nat \ {0}
      /\ w * i <= s /\ s < w * i + w /\ w * j <= t /\ t < w * j + w
  BY BucketSpan, WindowBuckets, StoreConstants
<1> HIDE DEF i, j, n, w
<1>2. ASSUME i + n <= j PROVE t - s > (n - 1) * w
  <2>1. w * (i + n) <= w * j
    BY <1>1, <1>2
  <2>2. w * (i + n) = w * i + n * w /\ (n - 1) * w = n * w - w
    BY <1>1
  <2>3. w * i \in Nat /\ n * w \in Nat /\ w * j \in Nat
    BY <1>1
  <2>4. QED
    BY <1>1, <2>1, <2>2, <2>3
<1>3. ASSUME i + n > j PROVE t - s < n * w
  <2>1. w * (j + 1) <= w * (i + n)
    BY <1>1, <1>3
  <2>2. w * (i + n) = w * i + n * w /\ w * (j + 1) = w * j + w
    BY <1>1
  <2>3. w * i \in Nat /\ n * w \in Nat /\ w * j \in Nat
    BY <1>1
  <2>4. QED
    BY <1>1, <2>1, <2>2, <2>3
<1>4. QED
  BY <1>2, <1>3 DEF i, j, n, w

-----------------------------------------------------------------------------
(***************************************************************************)
(* The steps without a failure.                                            *)
(***************************************************************************)

\* Marked times, the clock and the keys stored are of their types.
LEMMA MarkTypes ==
    ASSUME TypeOK
    PROVE  /\ now \in Nat /\ MaxTime \in Nat /\ faults \in Nat
           /\ BucketIndex(now) \in Bucket
           /\ \A k \in Key : marked[k] # None => marked[k] \in Nat /\ BucketOf(k) \in Nat
           /\ \A b \in Bucket : b \in Nat /\ stored[b] \subseteq Key
           /\ open \subseteq dirs /\ dirs \subseteq Bucket
<1>1. \A k \in Key : marked[k] # None => marked[k] \in Nat
  BY StoreConstants DEF TypeOK
<1>2. \A k \in Key : marked[k] # None => BucketOf(k) \in Nat
  BY <1>1, BucketSpan DEF BucketOf
<1>3. now \in Nat /\ MaxTime \in Nat /\ faults \in Nat
  BY StoreConstants, NodeConstants DEF TypeOK, StoreTypeOK
<1>4. BucketIndex(now) \in Bucket
  BY NowsBucket DEF TypeOK
<1>5. \A b \in Bucket : b \in Nat
  BY DEF Bucket
<1>6. /\ \A b \in Bucket : stored[b] \subseteq Key
      /\ open \subseteq dirs /\ dirs \subseteq Bucket
  BY DEF TypeOK, StoreTypeOK
<1>7. QED
  BY <1>1, <1>2, <1>3, <1>4, <1>5, <1>6

\* A step that leaves the store and the marks alone.
LEMMA ElsewhereExact ==
    ASSUME ExactInv, UNCHANGED <<now, open, dirs, stored, flushed, marked, faults>>,
           pc' \notin {"closed", "down"} \/ pc' = pc,
           pc # "closed" \/ pc' = pc,
           \/ pc' \notin {"lookup", "done"}
           \/ UNCHANGED <<pc, batch, pending>>
    PROVE  ExactInv'
<1> SUFFICES ASSUME faults = 0
             PROVE  BucketsInv' /\ CleanedInv' /\ DedupIsExact'
  BY DEF ExactInv
<1>1. BucketsInv /\ CleanedInv /\ DedupIsExact
  BY DEF ExactInv
<1>2. BucketsInv'
  BY <1>1 DEF BucketsInv, BucketOf
<1>3. CleanedInv'
  BY <1>1 DEF CleanedInv
<1>4. DedupIsExact'
  BY <1>1 DEF DedupIsExact, Age
<1>5. QED
  BY <1>2, <1>3, <1>4

\* What leaves the window goes, and a key that was marked in it has left it.
LEMMA KeepLiveBuckets ==
    ASSUME TypeOK, BucketsInv, KeepOnly({b \in dirs : Live(b)}),
           open' = dirs', pc' # "down", UNCHANGED <<now, marked>>
    PROVE  BucketsInv'
<1>1. /\ dirs' = {b \in dirs : Live(b)}
      /\ \A b \in Bucket : /\ b \in dirs' => stored'[b] = stored[b]
                           /\ b \notin dirs' => stored'[b] = {} /\ flushed'[b] = {}
  BY DEF KeepOnly
<1>2. \A b \in Bucket : stored'[b] \subseteq stored[b]
  BY <1>1
<1>3. ASSUME NEW k \in Key, marked[k] # None
      PROVE  /\ marked[k] <= now
             /\ \/ BucketOf(k) \in dirs' /\ k \in stored'[BucketOf(k)]
                \/ BucketOf(k) + NumBuckets <= BucketIndex(now)
  <2>1. /\ marked[k] <= now
        /\ \/ BucketOf(k) \in dirs /\ k \in stored[BucketOf(k)]
           \/ BucketOf(k) + NumBuckets <= BucketIndex(now)
    BY <1>3 DEF BucketsInv
  <2>2. CASE BucketOf(k) \in dirs /\ k \in stored[BucketOf(k)]
    <3>1. BucketOf(k) \in Bucket /\ BucketOf(k) \in Nat /\ BucketIndex(now) \in Nat
      BY <2>2, MarkTypes
    <3>2. CASE Live(BucketOf(k))
      BY <1>1, <2>1, <2>2, <3>1, <3>2
    <3>3. CASE ~Live(BucketOf(k))
      BY <2>1, <3>1, <3>3, WindowBuckets DEF Live
    <3>4. QED
      BY <3>2, <3>3
  <2>3. QED
    BY <2>1, <2>2
<1>4. QED
  BY <1>1, <1>2, <1>3 DEF BucketsInv, BucketOf

LEMMA CleanupExact ==
    ASSUME FlightInv, ExactInv, Cleanup
    PROVE  ExactInv'
<1> SUFFICES ASSUME faults = 0
             PROVE  BucketsInv' /\ CleanedInv' /\ DedupIsExact'
  BY DEF ExactInv, Cleanup
<1>1. /\ TypeOK /\ BucketsInv /\ pc = "cleanup"
      /\ UNCHANGED <<now, marked>> /\ pc' \in {"event", "lookup"}
      /\ KeepOnly({b \in dirs : Live(b)})
      /\ open' = {b \in open : Live(b)}
      /\ pc' = "lookup" => batch # None /\ batch' = [batch EXCEPT !.cleaned = now]
  BY DEF FlightInv, ExactInv, Cleanup, CleanupExpired
<1>2. open' = dirs'
  BY <1>1 DEF BucketsInv, KeepOnly
<1>3. BucketsInv'
  BY <1>1, <1>2, KeepLiveBuckets
<1>4. CleanedInv'
  <2>1. ASSUME pc' = "lookup" PROVE batch'.cleaned = now
    <3>1. batch \in Handled
      BY <1>1, <2>1 DEF TypeOK
    <3>2. QED
      BY <1>1, <2>1, <3>1 DEF Handled
  <2>2. \A b \in open' : b + NumBuckets > BucketIndex(now)
    BY <1>1 DEF Live
  <2>3. QED
    BY <2>1, <2>2 DEF CleanedInv
<1>5. DedupIsExact'
  BY <1>1 DEF DedupIsExact
<1>6. QED
  BY <1>3, <1>4, <1>5

\* The new process opens what the old one has left, but for what has left the
\* window meanwhile.
LEMMA RestartExact ==
    ASSUME FlightInv, ExactInv, Restart
    PROVE  ExactInv'
<1> SUFFICES ASSUME faults = 0
             PROVE  BucketsInv' /\ CleanedInv' /\ DedupIsExact'
  BY DEF ExactInv, Restart
<1>1. /\ TypeOK /\ BucketsInv
      /\ UNCHANGED <<now, marked>> /\ pc' = "event"
      /\ KeepOnly({b \in dirs : Live(b)}) /\ open' = dirs'
  BY DEF FlightInv, ExactInv, Restart, Begin, Recover
<1>2. QED
  BY <1>1, KeepLiveBuckets DEF CleanedInv, DedupIsExact

\* The keys of the batch go to the bucket of this moment.
LEMMA MarkSeenExact ==
    ASSUME FlightInv, ExactInv, MarkSeen
    PROVE  ExactInv'
<1> DEFINE keys == Head(queue).keys
           here == BucketIndex(now)
<1> SUFFICES ASSUME faults = 0
             PROVE  BucketsInv' /\ CleanedInv' /\ DedupIsExact'
  BY DEF ExactInv, MarkSeen
<1>1. /\ TypeOK /\ BucketsInv /\ pc = "marking" /\ pc' = "event" /\ AddMany(keys)
      /\ marked' = [k \in Key |-> IF k \in keys THEN now ELSE marked[k]]
  BY DEF FlightInv, ExactInv, MarkSeen, Forget
<1>2. keys \subseteq Key
  <2>1. queue \in Seq(Handled) /\ queue # <<>>
    BY <1>1 DEF TypeOK, FlightInv, BatchInv
  <2>2. QED
    BY <2>1, TailFlight, HandledParts
<1>3. /\ now' = now
      /\ open' = IF keys = {} THEN open ELSE open \cup {here}
      /\ dirs' = IF keys = {} THEN dirs ELSE dirs \cup {here}
      /\ flushed' = flushed
      /\ \A b \in Bucket : stored'[b] = IF b = here THEN stored[b] \cup keys ELSE stored[b]
  <2>1. CASE keys = {}
    BY <1>1, <2>1 DEF AddMany, storeVars
  <2>2. CASE keys # {}
    BY <1>1, <2>2 DEF AddMany, TypeOK, StoreTypeOK
  <2>3. QED
    BY <2>1, <2>2
<1>4. now # None /\ now \in Nat /\ here \in Bucket /\ here \in Nat
  BY <1>1, MarkTypes, NodeConstants DEF TypeOK, StoreTypeOK
<1>5. ASSUME NEW b \in Bucket, NEW k \in stored'[b]
      PROVE  marked'[k] # None /\ b <= BucketIndex(marked'[k])
  <2>1. k \in Key /\ b \in Nat /\ (k \in stored[b] \/ (b = here /\ k \in keys))
    BY <1>1, <1>2, <1>3, <1>5, MarkTypes
  <2>2. CASE k \in keys
    <3>1. marked'[k] = now
      BY <1>1, <2>1, <2>2
    <3>2. b <= here
      <4>1. CASE k \in stored[b]
        <5>1. marked[k] # None /\ b <= BucketOf(k) /\ marked[k] <= now
          BY <1>1, <2>1, <4>1 DEF BucketsInv
        <5>2. marked[k] \in Nat
          BY <1>1, <2>1, <5>1, MarkTypes
        <5>3. BucketOf(k) <= here /\ BucketOf(k) \in Nat
          BY <1>4, <5>1, <5>2, LaterBucket, BucketSpan DEF BucketOf
        <5>4. QED
          BY <1>4, <2>1, <5>1, <5>3
      <4>2. QED
        BY <1>4, <2>1, <4>1
    <3>3. QED
      BY <1>4, <3>1, <3>2
  <2>3. CASE k \notin keys
    <3>1. k \in stored[b] /\ marked'[k] = marked[k]
      BY <1>1, <2>1, <2>3
    <3>2. QED
      BY <1>1, <3>1 DEF BucketsInv, BucketOf
  <2>4. QED
    BY <2>2, <2>3
<1>6. ASSUME NEW k \in Key, marked'[k] # None
      PROVE  /\ marked'[k] <= now
             /\ \/ /\ BucketIndex(marked'[k]) \in dirs'
                   /\ k \in stored'[BucketIndex(marked'[k])]
                \/ BucketIndex(marked'[k]) + NumBuckets <= here
  <2>1. CASE k \in keys
    <3>1. marked'[k] = now /\ here \in dirs' /\ k \in stored'[here]
      BY <1>1, <1>3, <1>4, <2>1
    <3>2. QED
      BY <1>4, <3>1
  <2>2. CASE k \notin keys
    <3>1. marked'[k] = marked[k] /\ marked[k] # None
      BY <1>1, <1>6, <2>2
    <3>2. /\ marked[k] <= now
          /\ \/ BucketOf(k) \in dirs /\ k \in stored[BucketOf(k)]
             \/ BucketOf(k) + NumBuckets <= here
      BY <1>1, <3>1 DEF BucketsInv
    <3>3. BucketOf(k) \in dirs => BucketOf(k) \in dirs' /\ BucketOf(k) \in Bucket
      BY <1>1, <1>3, MarkTypes
    <3>4. QED
      BY <1>3, <3>1, <3>2, <3>3 DEF BucketOf
  <2>3. QED
    BY <2>1, <2>2
<1>7. \A b \in Bucket \ dirs' : stored'[b] = {} /\ flushed'[b] = {}
  <2>1. \A b \in Bucket \ dirs' : b \notin dirs /\ (b = here => keys = {})
    BY <1>3
  <2>2. QED
    BY <1>1, <1>3, <2>1 DEF BucketsInv
<1>8. open' = dirs'
  BY <1>1, <1>3 DEF BucketsInv
<1>9. BucketsInv'
  BY <1>1, <1>3, <1>5, <1>6, <1>7, <1>8 DEF BucketsInv, BucketOf
<1>10. QED
  BY <1>1, <1>9 DEF CleanedInv, DedupIsExact

\* Every bucket is open when the store closes, and flushed.
LEMMA CloseExact ==
    ASSUME FlightInv, ExactInv, Close
    PROVE  ExactInv'
<1> SUFFICES ASSUME faults = 0
             PROVE  BucketsInv' /\ CleanedInv' /\ DedupIsExact'
  BY DEF ExactInv, Close
<1>1. /\ TypeOK /\ BucketsInv /\ pc = "closing" /\ pc' = "closed"
      /\ UNCHANGED <<now, dirs, marked>>
      /\ flushed' = [b \in Bucket |-> IF b \in open THEN stored[b] ELSE flushed[b]]
      /\ stored' = flushed'
  BY DEF FlightInv, ExactInv, Close, CloseStore
<1>2. \A b \in Bucket : stored'[b] = stored[b] /\ (b \notin dirs => flushed'[b] = {})
  BY <1>1 DEF BucketsInv
<1>3. BucketsInv'
  <2>1. dirs \subseteq Bucket
    BY <1>1, MarkTypes
  <2>2. QED
    BY <1>1, <1>2, <2>1 DEF BucketsInv, BucketOf
<1>4. QED
  BY <1>1, <1>3 DEF CleanedInv, DedupIsExact

\* Time passes: what has left the window stays out of it.
LEMMA TickExact ==
    ASSUME FlightInv, ExactInv, Tick
    PROVE  ExactInv'
<1> SUFFICES ASSUME faults = 0
             PROVE  BucketsInv' /\ CleanedInv' /\ DedupIsExact'
  BY DEF ExactInv, Tick, nodeVars
<1>1. /\ TypeOK /\ BucketsInv /\ CleanedInv /\ DedupIsExact
      /\ now' = now + 1
      /\ UNCHANGED <<open, dirs, stored, flushed, pc, batch, pending, marked>>
  BY DEF FlightInv, ExactInv, Tick, nodeVars
<1>2. /\ now \in Nat /\ BucketIndex(now) <= BucketIndex(now')
      /\ BucketIndex(now) \in Nat /\ BucketIndex(now') \in Nat
  BY <1>1, MarkTypes, LaterBucket, BucketSpan
<1>3. ASSUME NEW k \in Key, marked[k] # None
      PROVE  /\ marked[k] <= now'
             /\ \/ BucketOf(k) \in dirs /\ k \in stored[BucketOf(k)]
                \/ BucketOf(k) + NumBuckets <= BucketIndex(now')
  <2>1. marked[k] \in Nat /\ BucketOf(k) \in Nat /\ NumBuckets \in Nat
    BY <1>1, <1>3, MarkTypes, WindowBuckets
  <2>2. /\ marked[k] <= now
        /\ \/ BucketOf(k) \in dirs /\ k \in stored[BucketOf(k)]
           \/ BucketOf(k) + NumBuckets <= BucketIndex(now)
    BY <1>1, <1>3 DEF BucketsInv
  <2>3. QED
    BY <1>1, <1>2, <2>1, <2>2
<1>4. BucketsInv'
  BY <1>1, <1>3 DEF BucketsInv, BucketOf
<1>5. CleanedInv' /\ DedupIsExact'
  BY <1>1 DEF CleanedInv, DedupIsExact, Age
<1>6. QED
  BY <1>4, <1>5

\* A key of the batch was in no bucket that was looked at, and they were all; a
\* row that is dropped has a key that is pending, or in one of them, or is the
\* key of a row before it in the batch, the first of which is one or the other.
LEMMA LookupExact ==
    ASSUME FlightInv, ExactInv, Lookup
    PROVE  ExactInv'
<1> DEFINE kept == Kept({})
<1> SUFFICES ASSUME faults = 0
             PROVE  BucketsInv' /\ CleanedInv' /\ DedupIsExact'
  BY DEF ExactInv, Lookup
<1>1. /\ TypeOK /\ BucketsInv /\ CleanedInv /\ pc = "lookup" /\ pc' = "done"
      /\ batch' = [batch EXCEPT !.kept = kept, !.keys = KeysOf(kept), !.looked = now]
      /\ pending' = pending \cup KeysOf(kept)
      /\ UNCHANGED <<now, open, dirs, stored, flushed, marked>>
  BY DEF FlightInv, ExactInv, Lookup, Filter, storeVars
<1>2. BucketsInv' /\ CleanedInv'
  BY <1>1 DEF BucketsInv, BucketOf, CleanedInv
<1>3. /\ batch \in Handled /\ batch.first \in Nat \ {0}
      /\ batch.first .. batch.last \subseteq Rows
      /\ batch.cleaned \in Nat
  <2>1. batch \in Handled
    BY <1>1 DEF TypeOK, FlightInv, BatchInv
  <2>2. batch.cleaned \in Nat
    BY <2>1, StoreConstants DEF Handled
  <2>3. QED
    BY <2>1, <2>2, HandledParts DEF Rows
<1>4. /\ batch'.first = batch.first /\ batch'.last = batch.last
      /\ batch'.cleaned = batch.cleaned
      /\ batch'.kept = kept /\ batch'.keys = KeysOf(kept) /\ batch'.looked = now
  BY <1>1, <1>3 DEF Handled
<1>5. kept \subseteq batch.first .. batch.last /\ kept \in SUBSET Rows
  BY <1>3 DEF Kept
<1>6. /\ KeysOf(kept) \in SUBSET Key
      /\ \A k : k \in KeysOf(kept) <=> k # None /\ \E r \in kept : Log[r] = k
  BY <1>5, KeysOfRows
<1>7. ASSUME NEW k \in KeysOf(kept), marked[k] # None
      PROVE  now - marked[k] > (NumBuckets - 1) * BucketTicks
  <2>1. k \in Key /\ \A b \in open : k \notin stored[b]
    BY <1>6 DEF Kept, Seen
  <2>2. BucketOf(k) + NumBuckets <= BucketIndex(now)
    BY <1>1, <1>7, <2>1 DEF BucketsInv
  <2>3. now \in Nat /\ marked[k] \in Nat
    BY <1>1, <1>7, <2>1, MarkTypes
  <2>4. QED
    BY <2>2, <2>3, WindowSpan DEF BucketOf
\* Why a row was dropped.
<1> DEFINE why(k) == \/ k \in pending \cup KeysOf(kept)
                     \/ /\ marked[k] # None
                        /\ batch.cleaned - marked[k] < NumBuckets * BucketTicks
<1>8. ASSUME NEW k \in Key, Seen(k, {}) PROVE why(k)
  <2>1. PICK b \in open : k \in stored[b]
    BY <1>8 DEF Seen
  <2>2. b \in Bucket /\ b \in Nat
    BY <1>1, MarkTypes
  <2>3. marked[k] # None /\ b <= BucketOf(k) /\ b + NumBuckets > BucketIndex(batch.cleaned)
    BY <1>1, <2>1, <2>2 DEF BucketsInv, CleanedInv
  <2>4. /\ marked[k] \in Nat /\ BucketOf(k) \in Nat /\ NumBuckets \in Nat
        /\ BucketIndex(batch.cleaned) \in Nat
    BY <1>1, <1>3, <2>3, MarkTypes, WindowBuckets, BucketSpan
  <2>5. BucketIndex(marked[k]) + NumBuckets > BucketIndex(batch.cleaned)
    BY <2>2, <2>3, <2>4 DEF BucketOf
  <2>6. QED
    BY <1>3, <2>3, <2>4, <2>5, WindowSpan
<1>9. ASSUME NEW r \in (batch.first .. batch.last) \ kept
      PROVE  why(Log[r])
  <2>1. /\ Log[r] # None /\ r \in Rows
        /\ \/ Log[r] \in pending
           \/ Seen(Log[r], {})
           \/ \E q \in batch.first .. (r - 1) : Log[q] = Log[r]
    BY <1>3, <1>9 DEF Kept
  <2>2. Log[r] \in Key
    BY <2>1, NodeConstants, ElementOfSeq DEF Rows
  <2>3. CASE \E q \in batch.first .. (r - 1) : Log[q] = Log[r]
    <3> DEFINE same == {q \in batch.first .. r : Log[q] = Log[r]}
    <3>1. same \in SUBSET Nat /\ same # {}
      BY <1>3, <2>3
    <3>2. PICK q \in same : \A p \in same : q <= p
      BY <3>1, LeastRow
    <3>3. /\ q \in batch.first .. batch.last /\ Log[q] = Log[r]
          /\ \A p \in batch.first .. (q - 1) : Log[p] # Log[q]
      <4>1. r \in Nat /\ r <= batch.last /\ batch.last \in Nat
        BY <1>3, <1>9, HandledParts
      <4>2. q \in batch.first .. r /\ Log[q] = Log[r]
        BY <3>2
      <4>3. ASSUME NEW p \in batch.first .. (q - 1), Log[p] = Log[q] PROVE FALSE
        <5>1. p \in batch.first .. r /\ p < q /\ p \in Nat /\ q \in Nat
          BY <1>3, <4>1, <4>2
        <5>2. p \in same
          BY <4>2, <4>3, <5>1
        <5>3. QED
          BY <3>2, <5>1, <5>2
      <4>4. QED
        BY <1>3, <4>1, <4>2, <4>3
    <3>4. CASE q \in kept
      BY <1>6, <2>1, <3>3, <3>4
    <3>5. CASE q \notin kept
      BY <1>8, <2>2, <3>3, <3>5 DEF Kept
    <3>6. QED
      BY <3>4, <3>5
  <2>4. QED
    BY <1>8, <2>1, <2>2, <2>3
<1>10. DedupIsExact'
  BY <1>1, <1>4, <1>7, <1>9 DEF DedupIsExact, Age
<1>11. QED
  BY <1>2, <1>10

LEMMA InitExact == Init => ExactInv
  BY DEF Init, StoreInit, ExactInv, BucketsInv, CleanedInv, DedupIsExact

\* A step that fails ends what is claimed of runs without failures.
LEMMA StepExact == FlightInv /\ ExactInv /\ [Next]_vars => ExactInv'
<1> SUFFICES ASSUME FlightInv, ExactInv, [Next]_vars PROVE ExactInv'
  OBVIOUS
<1>1. CASE Faults
  <2>1. faults' = faults + 1
    BY <1>1 DEF Faults, CleanupFails, LookupFails, MarkSeenFails, RestartFails,
                Undelivered, BodyFails, Kill, ClockStepsBack, Fault
  <2>2. faults' # 0
    BY <2>1, MarkTypes DEF FlightInv
  <2>3. QED
    BY <2>2 DEF ExactInv
<1>2. CASE \/ TakeBatch \/ TakeIdle \/ Done \/ CommitHead \/ LoopEnds
           \/ Delivered \/ CommitLands \/ Stop \/ UNCHANGED vars
  <2>1. UNCHANGED <<now, open, dirs, stored, flushed, marked, faults>>
    BY <1>2 DEF TakeBatch, TakeIdle, Done, CommitHead, LoopEnds, Delivered,
                CommitLands, Stop, vars, storeVars, nodeVars
  <2>2. /\ pc' \notin {"closed", "down"} \/ pc' = pc
        /\ pc # "closed" \/ pc' = pc
        /\ pc' \notin {"lookup", "done"} \/ UNCHANGED <<pc, batch, pending>>
    BY <1>2 DEF TakeBatch, TakeIdle, Done, CommitHead, LoopEnds, Delivered,
                CommitLands, Stop, vars, nodeVars
  <2>3. QED
    BY <2>1, <2>2, ElsewhereExact
<1>3. QED
  BY <1>1, <1>2, CleanupExact, LookupExact, MarkSeenExact, CloseExact, RestartExact,
     TickExact DEF Next, Node

-----------------------------------------------------------------------------
(***************************************************************************)
(* The theorems.                                                           *)
(***************************************************************************)

\* Every row behind the committed offset is delivered, or was dropped for
\* another row of its key that is (run: "No event can be lost").
THEOREM NoneLost == Spec => []NoEventLost
<1>1. FlightInv => NoEventLost
  BY DEF FlightInv
<1>2. QED
  BY AlwaysInv, <1>1, PTL

\* The store, and what a killed process leaves of it, only knows keys of delivered
\* rows (_mark_seen, BucketedDedupStore.add_many).
THEOREM StoreKnowsDelivered == Spec => []MarkedIsDelivered
<1>1. FlightInv => MarkedIsDelivered
  BY DEF FlightInv
<1>2. QED
  BY AlwaysInv, <1>1, PTL

\* The pending keys are those in flight, each of one batch alone, so that dedup is
\* exact across batches in flight (run, _mark_seen).
THEOREM PendingExact == Spec => []PendingIsExact
<1>1. FlightInv => PendingIsExact
  <2> SUFFICES ASSUME FlightInv PROVE PendingIsExact
    OBVIOUS
  <2>1. TypeOK /\ InFlightKeysDiffer
    BY DEF FlightInv, PendingInv
  <2>2. PendingIsInFlight
    <3>1. SUFFICES ASSUME Running
                   PROVE  pending = (UNION {queue[i].keys : i \in 1..Len(queue)}) \cup
                                    (IF batch = None THEN {} ELSE batch.keys)
      BY DEF PendingIsInFlight
    <3>2. \A k \in Key : k \in pending <=>
             \/ \E i \in 1..Len(queue) : k \in queue[i].keys
             \/ batch # None /\ k \in batch.keys
      BY <3>1 DEF FlightInv, PendingInv
    <3>3. /\ pending \subseteq Key
          /\ \A i \in 1..Len(queue) : queue[i].keys \subseteq Key
          /\ batch # None => batch.keys \subseteq Key
      BY InFlight, HandledParts DEF FlightInv, TypeOK
    <3> DEFINE sent == UNION {queue[i].keys : i \in 1..Len(queue)}
    <3>4. \A k : k \in sent <=> \E i \in 1..Len(queue) : k \in queue[i].keys
      OBVIOUS
    <3>5. sent \subseteq Key
      BY <3>3, <3>4
    <3> HIDE DEF sent
    <3>6. pending = sent \cup (IF batch = None THEN {} ELSE batch.keys)
      <4>1. CASE batch = None
        <5>1. \A k \in Key : k \in pending <=> k \in sent
          BY <3>2, <3>4, <4>1
        <5>2. pending = sent
          BY <3>3, <3>5, <5>1
        <5>3. QED
          BY <4>1, <5>2
      <4>2. CASE batch # None
        <5>1. \A k \in Key : k \in pending <=> k \in sent \/ k \in batch.keys
          BY <3>2, <3>4, <4>2
        <5>2. pending = sent \cup batch.keys
          BY <3>3, <3>5, <4>2, <5>1
        <5>3. QED
          BY <4>2, <5>2
      <4>3. QED
        BY <4>1, <4>2
    <3>7. QED
      BY <3>6 DEF sent
  <2>3. QED
    BY <2>1, <2>2 DEF PendingIsExact
<1>2. QED
  BY AlwaysInv, <1>1, PTL

\* Without failures, over clean restarts too, what the window drops and lets
\* through again is exact (BucketedDedupStore.filter_duplicates, cleanup_expired,
\* _recover_existing_buckets).
THEOREM DedupExact == Spec => []DedupIsExact
<1>1. ExactInv => DedupIsExact
  BY DEF ExactInv, DedupIsExact
<1>2. QED
  BY <1>1, AlwaysInv, InitExact, StepExact, PTL DEF Spec


\* DedupNode implements AtLeastOnce: the broker's offset changes only when a commit
\* lands, and then as far as everything is placed; whatever else happens, rows
\* are placed for good.
THEOREM DedupKeepsPromise == Spec => KeepsPromise
<1> DEFINE Moved == landed' = landed /\ delivered \subseteq delivered'
<1>1. Init => Promise!Init
  BY DEF Init, Promise!Init, Placed, KeysDelivered, KeysOf
<1>2. FlightInv /\ FlightInv' /\ [Next]_vars =>
          [Promise!Next]_<<landed, {r - 1 : r \in Placed}>>
  <2> SUFFICES ASSUME FlightInv, FlightInv', [Next]_vars
               PROVE  \/ Promise!Next
                      \/ UNCHANGED <<landed, {r - 1 : r \in Placed}>>
    OBVIOUS
  <2>1. Len(Log) \in Nat /\ Rows = 1 .. Len(Log)
    BY NodeConstants DEF Rows
  <2>2. CASE CommitLands
    <3>1. /\ landed' = committed /\ delivered' = delivered
          /\ landed \in 0 .. Len(Log) /\ committed \in 0 .. Len(Log)
          /\ landed <= committed /\ NoEventLost
      BY <2>2 DEF CommitLands, FlightInv, TypeOK
    <3>2. \A r \in 1 .. committed : r \in Placed
      BY <2>1, <3>1 DEF NoEventLost, Placed
    <3>3. 0 .. (committed - 1) \subseteq {r - 1 : r \in Placed}
      <4> SUFFICES ASSUME NEW o \in 0 .. (committed - 1)
                   PROVE  \E r \in Placed : o = r - 1
        OBVIOUS
      <4>1. o + 1 \in Placed /\ o = (o + 1) - 1
        BY <3>1, <3>2
      <4>2. QED
        BY <4>1
    <3>4. Placed' = Placed
      BY <3>1 DEF Placed, KeysDelivered
    <3>5. QED
      BY <2>1, <3>1, <3>3, <3>4 DEF Promise!Next, Promise!Commit, Promise!Accounted
  <2>3. CASE Moved
    <3>1. KeysDelivered \subseteq KeysDelivered'
      BY <2>3, MoreKeys DEF KeysDelivered
    <3>2. Placed \subseteq Placed'
      BY <2>3, <3>1 DEF Placed
    <3>3. \A r \in Placed' : r - 1 \in 0 .. (Len(Log) - 1)
      BY <2>1 DEF Placed
    <3>4. QED
      BY <2>3, <3>2, <3>3 DEF Promise!Next, Promise!Deliver
  <2>4. Delivered \/ Undelivered => Moved
    BY DEF Delivered, Undelivered
  <2>5. Node \/ Stop \/ Tick => Moved
    BY DEF Node, TakeBatch, TakeIdle, Cleanup, Lookup, Filter, Done, CommitHead, MarkSeen,
           Forget, LoopEnds, Close, Restart, Begin, Stop, Tick, nodeVars
  <2>6. CleanupFails \/ LookupFails \/ MarkSeenFails \/ RestartFails \/ BodyFails
        \/ Kill \/ ClockStepsBack => Moved
    BY DEF CleanupFails, LookupFails, Filter, MarkSeenFails, Forget, RestartFails, Begin,
           BodyFails, Kill, ClockStepsBack
  <2>7. UNCHANGED vars => Moved
    BY DEF vars, nodeVars
  <2>8. QED
    BY <2>2, <2>3, <2>4, <2>5, <2>6, <2>7 DEF Next, Faults
<1>3. QED
  BY <1>1, <1>2, AlwaysInv, PTL DEF Spec, KeepsPromise, Promise!Spec

=============================================================================
