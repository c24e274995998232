---------------------------- MODULE ReadAheadProofs ----------------------------
(***************************************************************************)
(* What holds of ReadAhead for any input, batch size and queue: the loop   *)
(* commits without a gap whatever a stop, a failed read or the rewind      *)
(* drops, and as long as nothing is dropped the node gets every batch, in  *)
(* order, to the end of the input.                                         *)
(*                                                                         *)
(* The invariant follows the line of numbered batches, from the loop's     *)
(* hand through the queue to the reader's: how it is ordered, what is      *)
(* behind its last batch, and that it is complete while the loop is        *)
(* working.                                                                *)
(***************************************************************************)
EXTENDS ReadAhead, SequenceTheorems, TLAPS

-----------------------------------------------------------------------------
(***************************************************************************)
(* The invariant.                                                          *)
(***************************************************************************)

\* What the reader holds, at each point of its loop.
ReaderHolds ==
    /\ reader \in {"check", "poll"} => held = None
    /\ reader = "parse" =>
          /\ held # None /\ held.kind = "polled"
          /\ held.next = position /\ held.first <= position
    /\ reader = "hand" =>
          /\ held # None /\ held.kind # "polled"
          /\ held.kind = "end" => position = LogEnd
          /\ held.kind = "idle" => held.seq = nextSeq /\ held.next = position
    /\ reader = "ended" => held = None \/ held.kind = "failed"

\* What is handed over is numbered; a failed read and the end of the input are
\* the last of it.
QueueHolds ==
    \A i \in 1..Len(queue) :
        /\ queue[i].kind # "polled"
        /\ queue[i].kind \in {"end", "failed"} =>
              /\ i = Len(queue)
              /\ reader = "ended"
              /\ queue[i].kind = "end" => position = LogEnd

Working == pc \in {"event", "take", "body"}

\* The loop's hand, and what the rewind may rely on.
LoopHolds ==
    /\ pc \in {"event", "take"} => batch = None
    /\ pc \in {"body", "join", "rewind"} => batch # None
    /\ batch # None => batch.seq = oldest /\ batch.kind = "batch"
    /\ pc = "rewind" => reader = "ended" /\ queue = <<>>
    /\ readerStop => ~Working

\* The line: numbered in the order it stands in.
LineInOrder ==
    /\ oldest <= nextSeq
    /\ \A b \in Numbered : b.seq < nextSeq
    /\ \A i, j \in 1..Len(queue) :
          i < j /\ queue[i].kind = "batch" /\ queue[j].kind = "batch" =>
              queue[i].seq < queue[j].seq
    /\ \A i \in 1..Len(queue) : queue[i].kind = "batch" =>
          /\ held # None /\ held.kind = "batch" => queue[i].seq < held.seq
          /\ batch # None => batch.seq < queue[i].seq
    /\ batch # None /\ held # None /\ held.kind = "batch" => batch.seq < held.seq

\* While the loop works, every batch read and not committed is in the line.
LineComplete ==
    Working =>
        /\ \A b \in Numbered : oldest <= b.seq
        /\ \A s \in oldest..(nextSeq - 1) : \E b \in Numbered : b.seq = s

\* Where the messages begin that have no number yet.
Unnumbered == IF reader = "parse" THEN held.first ELSE position

\* No read has been lost: the reader goes on, or has come to the end.
Reading ==
    \/ reader \in {"check", "poll", "parse"}
    \/ reader = "hand" /\ held.kind # "failed"
    \/ \E i \in 1..Len(queue) : queue[i].kind = "end"

\* The ranges of the line: each begins where the one before it ended.
LineContiguous ==
    /\ CommitsAreContiguous
    /\ \A b, c \in Numbered :
          /\ c.seq = b.seq + 1 => c.first = b.next
          /\ b.seq < c.seq => b.next <= c.first
    /\ Reading =>
          /\ \A b \in Numbered : b.next <= Unnumbered
          /\ \A b \in Numbered : b.seq = nextSeq - 1 => b.next = Unnumbered
          /\ oldest = nextSeq => requested = Unnumbered

\* An empty poll stands in the line where it came: behind all that was numbered
\* before it, whose last batch ends where it found nothing more.
IdleHolds ==
    \A i \in 1..Len(queue) : queue[i].kind = "idle" =>
        /\ oldest <= queue[i].seq /\ queue[i].seq <= nextSeq
        /\ oldest = queue[i].seq => requested = queue[i].next
        /\ \A b \in Numbered : b.seq + 1 = queue[i].seq => b.next = queue[i].next
        /\ \A j \in 1..Len(queue) : queue[j].kind = "batch" =>
              /\ j < i => queue[j].seq < queue[i].seq
              /\ i < j => queue[i].seq <= queue[j].seq
        /\ batch # None => batch.seq < queue[i].seq
        /\ held # None /\ held.kind = "batch" => queue[i].seq <= held.seq

EndCommitted == inputUsedUp => ~Working /\ requested = LogEnd

LineInv ==
    /\ TypeOK
    /\ ReaderHolds
    /\ QueueHolds
    /\ LoopHolds
    /\ LineInOrder
    /\ LineComplete
    /\ LineContiguous
    /\ IdleHolds
    /\ EndCommitted

-----------------------------------------------------------------------------
(***************************************************************************)
(* Sequences and items.                                                    *)
(***************************************************************************)
LEMMA AppendItem ==
    ASSUME NEW s \in Seq(Item), NEW x \in Item
    PROVE  /\ Append(s, x) \in Seq(Item)
           /\ Len(s) \in Nat
           /\ Len(Append(s, x)) = Len(s) + 1
           /\ \A i \in 1..Len(s) : Append(s, x)[i] = s[i]
           /\ Append(s, x)[Len(s) + 1] = x
BY AppendProperties, LenProperties

LEMMA TailItems ==
    ASSUME NEW s \in Seq(Item), s # <<>>
    PROVE  /\ Tail(s) \in Seq(Item)
           /\ Len(s) \in Nat \ {0}
           /\ Head(s) = s[1] /\ s[1] \in Item
           /\ Len(Tail(s)) = Len(s) - 1
           /\ \A i \in 1..(Len(s) - 1) : Tail(s)[i] = s[i + 1]
<1>1. Len(s) \in Nat /\ Len(s) # 0 /\ DOMAIN s = 1..Len(s)
  BY EmptySeq, LenProperties
<1>2. QED
  BY <1>1, HeadTailProperties

LEMMA MarkIsItem ==
    ASSUME NEW k \in {"polled", "batch", "idle", "failed", "end"}
    PROVE  Mark(k) \in Item /\ Mark(k) # None /\ Mark(k).kind = k
BY ReadAheadConstants DEF Mark, Item

BatchesOf(s) == {item \in Range(s) : item.kind = "batch"}

LEMMA BatchesIn ==
    ASSUME NEW s \in Seq(Item)
    PROVE  /\ Len(s) \in Nat
           /\ \A i \in 1..Len(s) : s[i] \in Item
           /\ \A b : b \in BatchesOf(s) <=>
                 \E i \in 1..Len(s) : b = s[i] /\ b.kind = "batch"
<1>1. Len(s) \in Nat /\ DOMAIN s = 1..Len(s)
  BY LenProperties
<1>2. \A i \in 1..Len(s) : s[i] \in Item
  BY <1>1, ElementOfSeq
<1>3. Range(s) = {s[i] : i \in 1..Len(s)}
  BY <1>1, Zenon DEF Range
<1>4. QED
  BY <1>1, <1>2, <1>3 DEF BatchesOf

LEMMA AppendBatches ==
    ASSUME NEW s \in Seq(Item), NEW x \in Item
    PROVE  \A b : b \in BatchesOf(Append(s, x)) <=>
                    b \in BatchesOf(s) \/ (b = x /\ x.kind = "batch")
<1> DEFINE t == Append(s, x)
<1>1. /\ t \in Seq(Item) /\ Len(s) \in Nat /\ Len(t) = Len(s) + 1
      /\ \A i \in 1..Len(s) : t[i] = s[i]
      /\ t[Len(s) + 1] = x
  BY AppendItem
<1> HIDE DEF t
<1>2. \A i \in 1..Len(t) : i \in 1..Len(s) \/ i = Len(s) + 1
  BY <1>1
<1>3. \A b : (\E i \in 1..Len(t) : b = t[i] /\ b.kind = "batch") <=>
          \/ \E i \in 1..Len(s) : b = s[i] /\ b.kind = "batch"
          \/ b = x /\ x.kind = "batch"
  BY <1>1, <1>2
<1>4. \A b : b \in BatchesOf(t) <=>
            b \in BatchesOf(s) \/ (b = x /\ x.kind = "batch")
  BY <1>1, <1>3, BatchesIn
<1>5. QED
  BY <1>4 DEF t

LEMMA TailBatches ==
    ASSUME NEW s \in Seq(Item), s # <<>>
    PROVE  \A b : b \in BatchesOf(s) <=>
              b \in BatchesOf(Tail(s)) \/ (b = Head(s) /\ Head(s).kind = "batch")
<1> DEFINE t == Tail(s)
<1>1. /\ t \in Seq(Item) /\ Len(s) \in Nat \ {0} /\ Len(t) = Len(s) - 1
      /\ Head(s) = s[1]
      /\ \A i \in 1..(Len(s) - 1) : t[i] = s[i + 1]
  BY TailItems
<1> HIDE DEF t
<1>2. /\ \A i \in 1..Len(t) : i + 1 \in 1..Len(s) /\ t[i] = s[i + 1]
      /\ \A i \in 1..Len(s) : i = 1 \/ (i - 1 \in 1..Len(t) /\ s[i] = t[i - 1])
      /\ 1 \in 1..Len(s)
  BY <1>1
<1>3. \A b : (\E i \in 1..Len(s) : b = s[i] /\ b.kind = "batch") <=>
          \/ \E i \in 1..Len(t) : b = t[i] /\ b.kind = "batch"
          \/ b = Head(s) /\ Head(s).kind = "batch"
  BY <1>1, <1>2
<1>4. \A b : b \in BatchesOf(s) <=>
            b \in BatchesOf(t) \/ (b = Head(s) /\ Head(s).kind = "batch")
  BY <1>1, <1>3, BatchesIn
<1>5. QED
  BY <1>4 DEF t

\* The line, place by place.
LEMMA InLine ==
    ASSUME TypeOK
    PROVE  /\ Len(queue) \in Nat
           /\ \A i \in 1..Len(queue) : queue[i] \in Item
           /\ \A b : b \in Numbered <=>
                 \/ batch # None /\ b = batch
                 \/ \E i \in 1..Len(queue) : b = queue[i] /\ b.kind = "batch"
                 \/ held # None /\ held.kind = "batch" /\ b = held
BY BatchesIn DEF TypeOK, Numbered, BatchesOf

LEMMA LineTypes ==
    ASSUME TypeOK
    PROVE  \A b \in Numbered :
              b \in Item /\ b.seq \in Nat /\ b.first \in Nat /\ b.next \in Nat
<1>1. \A b \in Numbered : b \in Item
  BY InLine DEF TypeOK
<1>2. QED
  BY <1>1 DEF Item

-----------------------------------------------------------------------------
(***************************************************************************)
(* Types.                                                                  *)
(***************************************************************************)
LEMMA InitTypes == Init => TypeOK
<1> SUFFICES ASSUME Init PROVE TypeOK
  OBVIOUS
<1>1. queue \in Seq(Item)
  BY DEF Init
<1>2. /\ reader \in {"check", "poll", "parse", "hand", "ended"}
      /\ pc \in {"event", "take", "body", "exit", "join", "rewind", "close",
                 "closing", "joinlast", "closed"}
      /\ failure \in {"none", "error", "forced"}
  BY DEF Init
<1>3. held \in Item \cup {None} /\ batch \in Item \cup {None}
  BY DEF Init
<1>4. /\ readerStop \in BOOLEAN /\ stopRequested \in BOOLEAN
      /\ inputUsedUp \in BOOLEAN /\ raised \in BOOLEAN /\ closing \in BOOLEAN
      /\ stopWhenIdle \in BOOLEAN
  BY DEF Init
<1>5. /\ position \in Nat /\ nextSeq \in Nat /\ oldest \in Nat
      /\ requested \in Nat /\ faults \in Nat
  BY DEF Init
<1>6. QED
  BY <1>1, <1>2, <1>3, <1>4, <1>5 DEF TypeOK

LEMMA NextTypes == LineInv /\ [Next]_vars => TypeOK'
<1> SUFFICES ASSUME LineInv, [Next]_vars PROVE TypeOK'
  OBVIOUS
<1> USE DEF readerVars, loopVars, consumerVars
<1>1. TypeOK /\ ReaderHolds /\ QueueHolds /\ LoopHolds
  BY DEF LineInv
<1>2. CASE UNCHANGED vars
  BY <1>1, <1>2 DEF vars, TypeOK
<1>3. CASE Poll
  <2>1. PICK k \in 1..BatchSize :
            /\ held' = [kind |-> "polled", seq |-> 0,
                        first |-> position, next |-> position + k]
            /\ position' = position + k
    BY <1>3 DEF Poll
  <2>2. held' \in Item /\ position' \in Nat
    BY <1>1, <2>1, ReadAheadConstants DEF TypeOK, Item
  <2>3. QED
    BY <1>1, <1>3, <2>2 DEF Poll, TypeOK
<1>4. CASE Check \/ HandOverStopped
  BY <1>1, <1>4 DEF Check, HandOverStopped, TypeOK
<1>5. CASE PollEmpty \/ PollEnds \/ PollClosed \/ ParseFails
  <2>1. held' \in Item
    <3>1. CASE PollEmpty
      BY <1>1, <3>1 DEF PollEmpty, TypeOK, Item
    <3>2. CASE PollEnds \/ PollClosed \/ ParseFails
      BY <3>2, MarkIsItem DEF PollEnds, PollClosed, ParseFails
    <3>3. QED
      BY <1>5, <3>1, <3>2
  <2>2. QED
    BY <1>1, <1>5, <2>1
    DEF PollEmpty, PollEnds, PollClosed, ParseFails, Fault, TypeOK
<1>6. CASE Number
  <2>1. held \in Item /\ nextSeq \in Nat
    BY <1>1, <1>6 DEF Number, ReaderHolds, TypeOK
  <2>2. held' \in Item
    BY <1>6, <2>1 DEF Number, Item
  <2>3. QED
    BY <1>1, <1>6, <2>1, <2>2 DEF Number, TypeOK
<1>7. CASE HandOver
  <2>1. queue' \in Seq(Item)
    BY <1>1, <1>7, AppendItem DEF HandOver, ReaderHolds, TypeOK
  <2>2. QED
    BY <1>1, <1>7, <2>1 DEF HandOver, TypeOK
<1>8. CASE Take \/ TakeFailed \/ TakeThenStopped
  <2>1. queue \in Seq(Item) /\ queue # <<>> /\ queue' = Tail(queue)
    BY <1>1, <1>8 DEF Take, TakeFailed, TakeThenStopped, TypeOK
  <2>2. queue' \in Seq(Item) /\ Head(queue) \in Item
    BY <2>1, TailItems
  <2>3. CASE Take
    <3>1. Head(queue).kind \in {"end", "idle", "batch"}
      BY <1>1, <2>1, <2>3, TailItems DEF QueueHolds, Take, Item
    <3>2. batch' \in Item \cup {None}
      BY <2>2, <2>3 DEF Take, Received
    <3>3. pc' \in {"exit", "event", "body"}
      BY <2>3, <3>1 DEF Take, Received
    <3>4. QED
      BY <1>1, <2>2, <2>3, <3>2, <3>3 DEF Take, Received, TypeOK
  <2>4. CASE TakeFailed
    BY <1>1, <2>2, <2>4 DEF TakeFailed, TypeOK
  <2>5. CASE TakeThenStopped
    BY <1>1, <2>2, <2>5 DEF TakeThenStopped, Fault, TypeOK
  <2>6. QED
    BY <1>8, <2>3, <2>4, <2>5
<1>9. CASE Done \/ Rewind
  <2>1. batch \in Item
    BY <1>1, <1>9 DEF Done, Rewind, LoopHolds, TypeOK
  <2>2. batch.first \in Nat /\ batch.next \in Nat
    BY <2>1 DEF Item
  <2>3. CASE Done
    BY <1>1, <2>2, <2>3 DEF Done, TypeOK
  <2>4. CASE Rewind
    BY <1>1, <2>2, <2>4 DEF Rewind, TypeOK
  <2>5. QED
    BY <1>9, <2>3, <2>4
<1>10. CASE Joined \/ JoinTimesOut \/ JoinLast
  <2>1. queue' = <<>>
    BY <1>10 DEF Joined, JoinTimesOut, JoinLast
  <2>2. queue' \in Seq(Item)
    BY <2>1
  <2>3. CASE Joined
    BY <1>1, <2>2, <2>3 DEF Joined, TypeOK
  <2>4. CASE JoinTimesOut
    BY <1>1, <2>2, <2>4 DEF JoinTimesOut, Fault, TypeOK
  <2>5. CASE JoinLast
    BY <1>1, <2>2, <2>5 DEF JoinLast, TypeOK
  <2>6. QED
    BY <1>10, <2>3, <2>4, <2>5
<1>11. CASE RequestEvent \/ TakeStopped \/ BodyFails
  BY <1>1, <1>11 DEF RequestEvent, TakeStopped, BodyFails, Fault, TypeOK
<1>12. CASE SignalStop \/ SignalForce
  <2>1. CASE SignalStop
    BY <1>1, <2>1 DEF SignalStop, Fault, TypeOK
  <2>2. CASE SignalForce
    BY <1>1, <2>2 DEF SignalForce, Fault, TypeOK
  <2>3. QED
    BY <1>12, <2>1, <2>2
<1>13. CASE Exit \/ StopReader \/ CloseConsumer
  BY <1>1, <1>13 DEF Exit, StopReader, CloseConsumer, TypeOK
<1>14. CASE TakeWaits \/ Ended
  BY <1>1, <1>14 DEF TakeWaits, Ended, vars, TypeOK
<1>15. QED
  BY <1>2, <1>3, <1>4, <1>5, <1>6, <1>7, <1>8, <1>9, <1>10, <1>11, <1>12,
     <1>13, <1>14
  DEF Next, ReaderThread, LoopThread, Faults

-----------------------------------------------------------------------------
(***************************************************************************)
(* The steps that leave the line alone, or drop some of it.                *)
(***************************************************************************)
lineVars == <<readerVars, batch, position, nextSeq, oldest, requested>>

LEMMA QuietInv ==
    ASSUME LineInv, TypeOK', UNCHANGED <<lineVars, inputUsedUp>>,
           Working' => Working,
           readerStop' => ~Working',
           pc' \in {"event", "take"} => batch = None,
           pc' \in {"body", "join", "rewind"} => batch # None,
           pc' = "rewind" => pc = "rewind"
    PROVE  LineInv'
<1> USE DEF lineVars, readerVars
<1>1. Numbered' = Numbered /\ Reading' = Reading /\ Unnumbered' = Unnumbered
  BY DEF Numbered, Reading, Unnumbered
<1>2. ReaderHolds' /\ QueueHolds'
  BY DEF LineInv, ReaderHolds, QueueHolds
<1>3. LoopHolds'
  BY DEF LineInv, LoopHolds
<1>4. LineInOrder'
  BY <1>1 DEF LineInv, LineInOrder
<1>5. LineComplete' /\ EndCommitted'
  BY <1>1 DEF LineInv, LineComplete, EndCommitted
<1>6. LineContiguous'
  BY <1>1 DEF LineInv, LineContiguous, CommitsAreContiguous
<1>7. IdleHolds'
  BY <1>1 DEF LineInv, IdleHolds
<1>8. QED
  BY <1>2, <1>3, <1>4, <1>5, <1>6, <1>7 DEF LineInv

\* The loop has ended, and drops what it held or what was queued.
LEMMA DropInv ==
    ASSUME LineInv, TypeOK', ~Working', pc' # "join",
           UNCHANGED <<reader, held, position, nextSeq, oldest, requested,
                       inputUsedUp>>,
           batch' \in {batch, None},
           queue' \in {queue, <<>>},
           pc' = "rewind" => batch' # None /\ reader = "ended" /\ queue' = <<>>
    PROVE  LineInv'
<1>1. \A b \in Numbered' : b \in Numbered
  BY DEF Numbered, Range
<1>2. Len(queue) \in Nat /\ Len(<<>>) = 0
  BY InLine DEF LineInv
<1>3. (Reading' => Reading) /\ Unnumbered' = Unnumbered
  BY <1>2 DEF Reading, Unnumbered
<1>4. ReaderHolds'
  BY DEF LineInv, ReaderHolds
<1>5. QueueHolds'
  BY <1>2 DEF LineInv, QueueHolds
<1>6. LoopHolds'
  BY DEF LineInv, LoopHolds, Working
<1>7. LineInOrder'
  BY <1>1, <1>2 DEF LineInv, LineInOrder
<1>8. LineComplete' /\ EndCommitted'
  BY DEF LineInv, LineComplete, EndCommitted
<1>9. LineContiguous'
  BY <1>1, <1>3 DEF LineInv, LineContiguous, CommitsAreContiguous
<1>10. IdleHolds'
  BY <1>1, <1>2 DEF LineInv, IdleHolds
<1>11. QED
  BY <1>4, <1>5, <1>6, <1>7, <1>8, <1>9, <1>10 DEF LineInv

\* The reader gives up what it held, or goes on without a batch.
LEMMA ReaderInv ==
    ASSUME LineInv, TypeOK',
           UNCHANGED <<queue, pc, batch, readerStop, inputUsedUp, position,
                       nextSeq, oldest, requested>>,
           ReaderHolds',
           reader' # "parse" /\ (reader' = "check" => reader = "check"),
           held' # None => held'.kind # "batch",
           held # None /\ held.kind = "batch" => readerStop,
           Reading' => reader \in {"check", "poll"} \/ reader = "ended",
           reader = "ended" => reader' = "ended"
    PROVE  LineInv'
<1>1. \A b \in Numbered' : b \in Numbered
  BY DEF Numbered
<1>2. ~readerStop => Numbered' = Numbered
  BY DEF Numbered
<1>3. Len(queue) \in Nat
  BY InLine DEF LineInv
<1>4. (Reading' => Reading) /\ (Reading' => Unnumbered' = Unnumbered)
  BY DEF Reading, Unnumbered
<1>5. QueueHolds'
  BY <1>3 DEF LineInv, QueueHolds
<1>6. LoopHolds'
  BY DEF LineInv, LoopHolds, Working
<1>7. LineInOrder'
  BY <1>1, <1>3 DEF LineInv, LineInOrder
<1>8. LineComplete' /\ EndCommitted'
  BY <1>2 DEF LineInv, LineComplete, EndCommitted, LoopHolds, Working
<1>9. LineContiguous'
  BY <1>1, <1>4 DEF LineInv, LineContiguous, CommitsAreContiguous
<1>10. IdleHolds'
  BY <1>1 DEF LineInv, IdleHolds
<1>11. QED
  BY <1>5, <1>6, <1>7, <1>8, <1>9, <1>10 DEF LineInv

-----------------------------------------------------------------------------
(***************************************************************************)
(* The reader.                                                             *)
(***************************************************************************)
LEMMA PollInv ==
    ASSUME LineInv, TypeOK', Poll
    PROVE  LineInv'
<1>1. PICK k \in 1..BatchSize :
          /\ held' = [kind |-> "polled", seq |-> 0,
                      first |-> position, next |-> position + k]
          /\ position' = position + k
  BY DEF Poll
<1>2. k \in Nat /\ position \in Nat
  BY ReadAheadConstants DEF LineInv, TypeOK
<1>3. /\ held' # None /\ held'.kind = "polled" /\ held'.first = position
      /\ held'.next = position'
  BY <1>1, <1>2, ReadAheadConstants DEF Item
<1>4. reader = "poll" /\ reader' = "parse" /\ held = None
  BY DEF Poll, LineInv, ReaderHolds
<1>5. UNCHANGED <<queue, pc, batch, readerStop, inputUsedUp, nextSeq, oldest,
                  requested>>
  BY DEF Poll, loopVars
<1>6. Numbered' = Numbered /\ Unnumbered' = Unnumbered /\ Reading
  BY <1>3, <1>4, <1>5 DEF Numbered, Unnumbered, Reading
<1>7. ReaderHolds'
  BY <1>1, <1>2, <1>3, <1>4 DEF ReaderHolds
<1>8. QueueHolds'
  BY <1>4, <1>5 DEF LineInv, QueueHolds
<1>9. LoopHolds'
  BY <1>4, <1>5 DEF LineInv, LoopHolds, Working
<1>10. LineInOrder'
  BY <1>3, <1>5, <1>6 DEF LineInv, LineInOrder
<1>11. LineComplete' /\ EndCommitted'
  BY <1>5, <1>6 DEF LineInv, LineComplete, EndCommitted, Working
<1>12. LineContiguous'
  BY <1>5, <1>6 DEF LineInv, LineContiguous, CommitsAreContiguous
<1>13. IdleHolds'
  BY <1>3, <1>5, <1>6 DEF LineInv, IdleHolds
<1>14. QED
  BY <1>7, <1>8, <1>9, <1>10, <1>11, <1>12, <1>13 DEF LineInv

LEMMA NumberInv ==
    ASSUME LineInv, TypeOK', Number
    PROVE  LineInv'
<1>1. /\ reader = "parse" /\ reader' = "hand" /\ nextSeq' = nextSeq + 1
      /\ UNCHANGED <<queue, pc, batch, readerStop, inputUsedUp, position, oldest,
                     requested>>
  BY DEF Number, loopVars
<1>2. held \in Item /\ held # None /\ held.kind = "polled"
  BY <1>1 DEF LineInv, ReaderHolds, TypeOK
<1>3. /\ held' \in Item /\ held' # None
      /\ held'.kind = "batch" /\ held'.seq = nextSeq
      /\ held'.first = held.first /\ held'.next = held.next
  BY <1>2, ReadAheadConstants DEF Number, Item, LineInv, TypeOK
<1>4. Numbered' = Numbered \cup {held'}
  BY <1>1, <1>2, <1>3 DEF Numbered
<1>5. /\ Reading /\ Unnumbered = held.first /\ Unnumbered' = held.next
      /\ held.next = position /\ held.first <= position
  BY <1>1 DEF Reading, Unnumbered, LineInv, ReaderHolds
<1>6. nextSeq \in Nat /\ oldest \in Nat /\ position \in Nat /\ held.first \in Nat
  BY <1>2 DEF LineInv, TypeOK, Item
<1>7. \A b \in Numbered : b.seq \in Nat /\ b.next \in Nat /\ b.first \in Nat
  BY LineTypes DEF LineInv
<1>8. ReaderHolds'
  BY <1>1, <1>3 DEF ReaderHolds
<1>9. QueueHolds'
  BY <1>1 DEF LineInv, QueueHolds
<1>10. LoopHolds'
  BY <1>1 DEF LineInv, LoopHolds, Working
<1>11. \A b \in Numbered : b.seq < nextSeq
  BY DEF LineInv, LineInOrder
<1>12. LineInOrder'
  <2>1. \A i \in 1..Len(queue) : queue[i].kind = "batch" => queue[i] \in Numbered
    BY InLine DEF LineInv
  <2>2. batch # None => batch \in Numbered
    BY DEF Numbered
  <2>3. oldest <= nextSeq + 1
    BY <1>6 DEF LineInv, LineInOrder
  <2>4. \A b \in Numbered' : b.seq < nextSeq + 1
    BY <1>3, <1>4, <1>6, <1>7, <1>11
  <2>5. QED
    BY <1>1, <1>3, <1>11, <2>1, <2>2, <2>3, <2>4 DEF LineInv, LineInOrder
<1>13. LineComplete'
  <2>1. Working' = Working
    BY <1>1 DEF Working
  <2>2. ASSUME Working, NEW s \in oldest..nextSeq PROVE \E b \in Numbered' : b.seq = s
    BY <1>3, <1>4, <1>6, <2>2 DEF LineInv, LineComplete
  <2>3. Working => \A b \in Numbered' : oldest <= b.seq
    BY <1>3, <1>4 DEF LineInv, LineComplete, LineInOrder
  <2>4. QED
    BY <1>1, <1>6, <2>1, <2>2, <2>3 DEF LineComplete
<1>14. EndCommitted'
  BY <1>1 DEF LineInv, EndCommitted, Working
<1>15. LineContiguous'
  <2>1. /\ \A b \in Numbered : b.next <= held.first
        /\ \A b \in Numbered : b.seq = nextSeq - 1 => b.next = held.first
        /\ oldest = nextSeq => requested = held.first
    BY <1>5 DEF LineInv, LineContiguous
  <2>2. CommitsAreContiguous'
    BY <1>1, <1>3, <1>4, <2>1 DEF CommitsAreContiguous, LineInv, LineContiguous
  <2>3. \A b, c \in Numbered' :
          /\ c.seq = b.seq + 1 => c.first = b.next
          /\ b.seq < c.seq => b.next <= c.first
    BY <1>3, <1>4, <1>6, <1>7, <1>11, <2>1 DEF LineInv, LineContiguous
  <2>4. /\ \A b \in Numbered' : b.next <= Unnumbered'
        /\ \A b \in Numbered' : b.seq = nextSeq' - 1 => b.next = Unnumbered'
    BY <1>1, <1>3, <1>4, <1>5, <1>6, <1>7, <1>11, <2>1
  <2>5. oldest' # nextSeq'
    BY <1>1, <1>6 DEF LineInv, LineInOrder
  <2>6. QED
    BY <2>2, <2>3, <2>4, <2>5 DEF LineContiguous
<1>16. IdleHolds'
  <2>1. SUFFICES ASSUME NEW i \in 1..Len(queue), queue[i].kind = "idle"
                 PROVE  /\ queue[i].seq <= nextSeq + 1
                        /\ held'.seq + 1 # queue[i].seq
                        /\ queue[i].seq <= held'.seq
    BY <1>1, <1>3, <1>4 DEF LineInv, IdleHolds
  <2>2. queue[i] \in Item
    BY InLine DEF LineInv
  <2>3. queue[i].seq <= nextSeq /\ queue[i].seq \in Nat
    BY <2>1, <2>2 DEF LineInv, IdleHolds, Item
  <2>4. QED
    BY <1>3, <1>6, <2>3
<1>17. QED
  BY <1>8, <1>9, <1>10, <1>12, <1>13, <1>14, <1>15, <1>16 DEF LineInv

LEMMA HandOverInv ==
    ASSUME LineInv, TypeOK', HandOver
    PROVE  LineInv'
<1>1. /\ reader = "hand" /\ queue' = Append(queue, held) /\ held' = None
      /\ reader' = IF held.kind \in {"failed", "end"} THEN "ended" ELSE "check"
      /\ UNCHANGED <<pc, batch, readerStop, inputUsedUp, position, nextSeq, oldest,
                     requested>>
  BY DEF HandOver, loopVars, consumerVars
<1>2. /\ held \in Item /\ held # None /\ held.kind # "polled"
      /\ held.kind = "end" => position = LogEnd
  BY <1>1 DEF LineInv, ReaderHolds, TypeOK
<1>3. /\ Len(queue) \in Nat /\ Len(queue') = Len(queue) + 1
      /\ \A i \in 1..Len(queue) : queue'[i] = queue[i]
      /\ queue'[Len(queue) + 1] = held
  BY <1>1, <1>2, AppendItem DEF LineInv, TypeOK
<1>4. \A i \in 1..Len(queue') :
          i \in 1..Len(queue) \/ (i = Len(queue) + 1 /\ queue'[i] = held)
  BY <1>3
<1>5. \A i \in 1..Len(queue) : queue[i].kind \notin {"polled", "end", "failed"}
  BY <1>1 DEF LineInv, QueueHolds
<1>6. \A b : b \in Numbered' <=> b \in Numbered
  BY <1>1, <1>2, AppendBatches DEF LineInv, TypeOK, Numbered, BatchesOf
<1>7. (Reading' => Reading) /\ Unnumbered' = Unnumbered
  BY <1>1, <1>3, <1>4, <1>5 DEF Reading, Unnumbered
<1>8. ReaderHolds'
  BY <1>1 DEF ReaderHolds
<1>9. QueueHolds'
  BY <1>1, <1>2, <1>3, <1>4, <1>5 DEF QueueHolds
<1>10. LoopHolds'
  BY <1>1 DEF LineInv, LoopHolds, Working
<1>11. LineInOrder'
  BY <1>1, <1>2, <1>3, <1>4, <1>6 DEF LineInv, LineInOrder
<1>12. LineComplete' /\ EndCommitted'
  BY <1>1, <1>6 DEF LineInv, LineComplete, EndCommitted, Working
<1>13. LineContiguous'
  BY <1>1, <1>6, <1>7 DEF LineInv, LineContiguous, CommitsAreContiguous
<1>14. ASSUME held.kind = "idle"
      PROVE  /\ held.seq = nextSeq /\ oldest <= held.seq
             /\ oldest = held.seq => requested = held.next
             /\ \A b \in Numbered : b.seq < held.seq
             /\ \A b \in Numbered : b.seq + 1 = held.seq => b.next = held.next
  <2>1. held.seq = nextSeq /\ held.next = position
    BY <1>1, <1>14 DEF LineInv, ReaderHolds
  <2>2. Reading /\ Unnumbered = position
    BY <1>1, <1>14 DEF Reading, Unnumbered
  <2>3. \A b \in Numbered : b.seq \in Nat /\ nextSeq \in Nat
    BY LineTypes DEF LineInv, TypeOK
  <2>4. QED
    BY <2>1, <2>2, <2>3 DEF LineInv, LineInOrder, LineContiguous
<1>15. IdleHolds'
  <2>1. \A i \in 1..Len(queue) : queue[i].kind = "batch" => queue[i] \in Numbered
    BY InLine DEF LineInv
  <2>2. batch # None => batch \in Numbered
    BY DEF Numbered
  <2>3. /\ nextSeq \in Nat
        /\ \A i \in 1..Len(queue) : ~(Len(queue) + 1 < i) /\ i # Len(queue) + 1
    BY <1>3 DEF LineInv, TypeOK
  <2>4. ASSUME NEW i \in 1..Len(queue), queue[i].kind = "idle"
        PROVE  /\ oldest <= queue[i].seq /\ queue[i].seq <= nextSeq
               /\ oldest = queue[i].seq => requested = queue[i].next
               /\ \A b \in Numbered' : b.seq + 1 = queue[i].seq => b.next = queue[i].next
               /\ \A j \in 1..Len(queue') : queue'[j].kind = "batch" =>
                     /\ j < i => queue'[j].seq < queue[i].seq
                     /\ i < j => queue[i].seq <= queue'[j].seq
               /\ batch # None => batch.seq < queue[i].seq
    BY <1>2, <1>3, <1>4, <1>6, <2>3, <2>4 DEF LineInv, IdleHolds
  <2>5. ASSUME held.kind = "idle"
        PROVE  /\ oldest <= held.seq /\ held.seq <= nextSeq
               /\ oldest = held.seq => requested = held.next
               /\ \A b \in Numbered' : b.seq + 1 = held.seq => b.next = held.next
               /\ \A j \in 1..Len(queue') : queue'[j].kind = "batch" =>
                     /\ j < Len(queue) + 1 => queue'[j].seq < held.seq
                     /\ ~(Len(queue) + 1 < j)
               /\ batch # None => batch.seq < held.seq
    BY <1>3, <1>4, <1>6, <1>14, <2>1, <2>2, <2>3, <2>5
  <2>6. QED
    BY <1>1, <1>3, <1>4, <2>4, <2>5 DEF IdleHolds
<1>16. QED
  BY <1>8, <1>9, <1>10, <1>11, <1>12, <1>13, <1>15 DEF LineInv

-----------------------------------------------------------------------------
(***************************************************************************)
(* The loop.                                                               *)
(***************************************************************************)

\* The queue without its first item.
LEMMA TailHolds ==
    ASSUME LineInv, queue # <<>>, queue' = Tail(queue),
           UNCHANGED <<reader, held, position>>
    PROVE  /\ Len(queue') \in Nat
           /\ \A i \in 1..Len(queue') :
                i + 1 \in 1..Len(queue) /\ queue'[i] = queue[i + 1]
           /\ \A i \in 1..Len(queue) :
                i = 1 \/ (i - 1 \in 1..Len(queue') /\ queue[i] = queue'[i - 1])
           /\ 1 \in 1..Len(queue) /\ Head(queue) = queue[1]
           /\ QueueHolds'
           /\ Reading' => Reading
<1>1. /\ Len(queue) \in Nat \ {0} /\ Len(queue') = Len(queue) - 1
      /\ Head(queue) = queue[1]
      /\ \A i \in 1..(Len(queue) - 1) : queue'[i] = queue[i + 1]
  BY TailItems DEF LineInv, TypeOK
<1>2. /\ \A i \in 1..Len(queue') : i + 1 \in 1..Len(queue) /\ queue'[i] = queue[i + 1]
      /\ \A i \in 1..Len(queue) :
           i = 1 \/ (i - 1 \in 1..Len(queue') /\ queue[i] = queue'[i - 1])
  BY <1>1
<1>3. QueueHolds'
  <2>1. ASSUME NEW i \in 1..Len(queue')
        PROVE  /\ queue'[i] = queue[i + 1] /\ i + 1 \in 1..Len(queue)
               /\ i + 1 = Len(queue) <=> i = Len(queue')
    BY <1>1, <1>2
  <2>2. QED
    BY <2>1 DEF LineInv, QueueHolds
<1>4. Reading' => Reading
  BY <1>2 DEF Reading
<1>5. QED
  BY <1>1, <1>2, <1>3, <1>4

\* An item that is taken and not kept: it held no batch, or the loop ends.
LEMMA TakenInv ==
    ASSUME LineInv, TypeOK', queue # <<>>, queue' = Tail(queue), batch = None,
           UNCHANGED <<reader, held, batch, readerStop, position, nextSeq, oldest,
                       requested>>,
           pc' \in {"event", "exit"},
           pc' = "event" => pc = "take" /\ Head(queue).kind # "batch",
           EndCommitted'
    PROVE  LineInv'
<1>1. /\ \A i \in 1..Len(queue') : i + 1 \in 1..Len(queue) /\ queue'[i] = queue[i + 1]
      /\ \A i \in 1..Len(queue) :
            i = 1 \/ (i - 1 \in 1..Len(queue') /\ queue[i] = queue'[i - 1])
      /\ Head(queue) = queue[1]
      /\ QueueHolds'
      /\ Reading' => Reading
      /\ Len(queue') \in Nat
  BY TailHolds
<1>2. queue \in Seq(Item) /\ queue' \in Seq(Item)
  BY DEF LineInv, TypeOK
<1>3. \A b \in Numbered' : b \in Numbered
  BY <1>2, TailBatches DEF Numbered, BatchesOf
<1>4. Head(queue).kind # "batch" => \A b \in Numbered : b \in Numbered'
  BY <1>2, TailBatches DEF Numbered, BatchesOf
<1>5. ReaderHolds' /\ Unnumbered' = Unnumbered
  BY DEF LineInv, ReaderHolds, Unnumbered
<1>6. LoopHolds'
  BY DEF LineInv, LoopHolds, Working
<1>7. LineInOrder'
  <2>1. \A i, j \in 1..Len(queue') : i < j => i + 1 < j + 1
    BY <1>1
  <2>2. QED
    BY <1>1, <1>3, <2>1 DEF LineInv, LineInOrder
<1>8. LineComplete'
  BY <1>3, <1>4 DEF LineInv, LineComplete, Working
<1>9. LineContiguous'
  BY <1>1, <1>3, <1>5 DEF LineInv, LineContiguous, CommitsAreContiguous
<1>10. IdleHolds'
  <2>1. \A i, j \in 1..Len(queue') : i < j => i + 1 < j + 1
    BY <1>1
  <2>2. QED
    BY <1>1, <1>3, <2>1 DEF LineInv, IdleHolds
<1>11. QED
  BY <1>1, <1>5, <1>6, <1>7, <1>8, <1>9, <1>10 DEF LineInv

\* What the loop takes while it works is the consumer's oldest batch.
LEMMA HeadIsOldest ==
    ASSUME LineInv, pc = "take", queue # <<>>, Head(queue).kind = "batch"
    PROVE  Head(queue).seq = oldest
<1>1. Head(queue) = queue[1] /\ 1 \in 1..Len(queue) /\ Len(queue) \in Nat
  BY TailItems DEF LineInv, TypeOK
<1>2. Head(queue) \in Numbered /\ TypeOK
  BY <1>1, InLine DEF LineInv
<1>3. oldest <= Head(queue).seq /\ Head(queue).seq < nextSeq
  BY <1>2 DEF LineInv, LineInOrder, LineComplete, Working
<1>4. oldest \in Nat /\ nextSeq \in Nat /\ Head(queue).seq \in Nat
  BY <1>2, LineTypes DEF TypeOK
<1>5. PICK b \in Numbered : b.seq = oldest
  BY <1>3, <1>4 DEF LineInv, LineComplete, Working
<1>6. batch = None
  BY DEF LineInv, LoopHolds
<1>7. CASE held # None /\ held.kind = "batch" /\ b = held
  BY <1>1, <1>3, <1>4, <1>5, <1>7 DEF LineInv, LineInOrder
<1>8. ASSUME NEW i \in 1..Len(queue), b = queue[i], b.kind = "batch"
      PROVE  Head(queue).seq = oldest
  <2>1. CASE i = 1
    BY <1>1, <1>5, <1>8, <2>1
  <2>2. CASE 1 < i
    BY <1>1, <1>3, <1>4, <1>5, <1>8, <2>2 DEF LineInv, LineInOrder
  <2>3. QED
    BY <1>1, <2>1, <2>2
<1>9. QED
  BY <1>2, <1>5, <1>6, <1>7, <1>8, InLine

LEMMA TakeBatchInv ==
    ASSUME LineInv, TypeOK', Take, Head(queue).kind = "batch"
    PROVE  LineInv'
<1>1. /\ pc = "take" /\ queue # <<>> /\ queue' = Tail(queue)
      /\ batch' = Head(queue) /\ pc' = "body"
      /\ UNCHANGED <<reader, held, readerStop, position, nextSeq, oldest, requested>>
      /\ ~inputUsedUp'
  BY DEF Take, Received, consumerVars
<1>2. batch = None
  BY <1>1 DEF LineInv, LoopHolds
<1>3. /\ \A i \in 1..Len(queue') : i + 1 \in 1..Len(queue) /\ queue'[i] = queue[i + 1]
      /\ \A i \in 1..Len(queue) :
            i = 1 \/ (i - 1 \in 1..Len(queue') /\ queue[i] = queue'[i - 1])
      /\ 1 \in 1..Len(queue)
      /\ Head(queue) = queue[1]
      /\ QueueHolds'
      /\ Reading' => Reading
      /\ Len(queue') \in Nat
  BY <1>1, TailHolds
<1>4. queue \in Seq(Item) /\ queue' \in Seq(Item)
  BY DEF LineInv, TypeOK
<1>5. batch' \in Item /\ batch' # None /\ batch'.kind = "batch" /\ batch'.seq = oldest
  BY <1>1, <1>4, HeadIsOldest, TailItems, ReadAheadConstants
<1>6. \A b : b \in Numbered' <=> b \in Numbered
  BY <1>1, <1>2, <1>4, <1>5, TailBatches DEF Numbered, BatchesOf
<1>7. ReaderHolds' /\ Unnumbered' = Unnumbered
  BY <1>1 DEF LineInv, ReaderHolds, Unnumbered
<1>8. LoopHolds'
  BY <1>1, <1>5 DEF LineInv, LoopHolds, Working
<1>9. LineInOrder'
  <2>1. \A i, j \in 1..Len(queue') : i < j => i + 1 < j + 1
    BY <1>3
  <2>2. \A i \in 1..Len(queue') : 1 < i + 1
    BY <1>3
  <2>3. QED
    BY <1>1, <1>3, <1>5, <1>6, <2>1, <2>2 DEF LineInv, LineInOrder
<1>10. LineComplete' /\ EndCommitted'
  BY <1>1, <1>6 DEF LineInv, LineComplete, EndCommitted, Working
<1>11. LineContiguous'
  BY <1>1, <1>3, <1>6, <1>7 DEF LineInv, LineContiguous, CommitsAreContiguous
<1>12. IdleHolds'
  <2>1. \A i, j \in 1..Len(queue') : i < j => i + 1 < j + 1
    BY <1>3
  <2>2. \A i \in 1..Len(queue') : 1 < i + 1
    BY <1>3
  <2>3. QED
    BY <1>1, <1>3, <1>5, <1>6, <2>1, <2>2 DEF LineInv, IdleHolds
<1>13. QED
  BY <1>3, <1>7, <1>8, <1>9, <1>10, <1>11, <1>12 DEF LineInv

\* When the loop takes the end of the input, all that was read is committed.
LEMMA EndIsCommitted ==
    ASSUME LineInv, pc = "take", queue # <<>>, Head(queue).kind = "end"
    PROVE  requested = LogEnd
<1>1. Head(queue) = queue[1] /\ 1 \in 1..Len(queue) /\ Len(queue) \in Nat
  BY TailItems DEF LineInv, TypeOK
<1>2. Len(queue) = 1 /\ reader = "ended" /\ position = LogEnd
  BY <1>1 DEF LineInv, QueueHolds
<1>3. batch = None /\ (held # None => held.kind # "batch")
  BY <1>2 DEF LineInv, LoopHolds, ReaderHolds
<1>4. \A b : b \notin Numbered
  BY <1>1, <1>2, <1>3, InLine DEF LineInv
<1>5. oldest \in Nat /\ nextSeq \in Nat /\ oldest <= nextSeq
  BY DEF LineInv, TypeOK, LineInOrder
<1>6. oldest = nextSeq
  BY <1>4, <1>5 DEF LineInv, LineComplete, Working
<1>7. Reading /\ Unnumbered = position
  BY <1>1, <1>2 DEF Reading, Unnumbered
<1>8. QED
  BY <1>2, <1>6, <1>7 DEF LineInv, LineContiguous

\* When the loop takes an empty poll, all that was read before it is committed.
LEMMA IdleIsCommitted ==
    ASSUME LineInv
    PROVE  IdleComesLast
<1> SUFFICES ASSUME pc = "take", queue # <<>>, Head(queue).kind = "idle"
             PROVE  requested = Head(queue).next
  BY DEF IdleComesLast
<1>1. Head(queue) = queue[1] /\ 1 \in 1..Len(queue) /\ Len(queue) \in Nat
  BY TailItems DEF LineInv, TypeOK
<1>2. /\ oldest \in Nat /\ nextSeq \in Nat /\ queue[1].seq \in Nat /\ batch = None
      /\ \A b \in Numbered : b.seq \in Nat
  BY <1>1, InLine, LineTypes DEF LineInv, TypeOK, Item, LoopHolds
<1>3. /\ oldest <= queue[1].seq /\ queue[1].seq <= nextSeq
      /\ oldest = queue[1].seq => requested = queue[1].next
      /\ \A j \in 1..Len(queue) :
            queue[j].kind = "batch" /\ 1 < j => queue[1].seq <= queue[j].seq
      /\ held # None /\ held.kind = "batch" => queue[1].seq <= held.seq
  BY <1>1 DEF LineInv, IdleHolds
<1>4. \A b \in Numbered : queue[1].seq <= b.seq
  <2>1. \A j \in 1..Len(queue) : queue[j].kind = "batch" => 1 < j
    BY <1>1
  <2>2. QED
    BY <1>2, <1>3, <2>1, InLine DEF LineInv
<1>5. oldest = queue[1].seq
  <2>1. SUFFICES ASSUME oldest < queue[1].seq PROVE FALSE
    BY <1>2, <1>3
  <2>2. PICK b \in Numbered : b.seq = oldest
    BY <1>2, <1>3, <2>1 DEF LineInv, LineComplete, Working
  <2>3. QED
    BY <1>2, <1>4, <2>1, <2>2
<1>6. QED
  BY <1>1, <1>3, <1>5

LEMMA TakeOtherInv ==
    ASSUME LineInv, TypeOK', Take, Head(queue).kind # "batch"
    PROVE  LineInv'
<1>1. /\ pc = "take" /\ queue # <<>> /\ queue' = Tail(queue)
      /\ Head(queue).kind # "failed" /\ batch' = None
      /\ inputUsedUp' = (Head(queue).kind = "end")
      /\ UNCHANGED <<reader, held, readerStop, position, nextSeq, oldest, requested>>
  BY DEF Take, Received, consumerVars
<1>2. Head(queue) \in Item /\ Head(queue).kind # "polled"
  BY <1>1, TailItems DEF LineInv, TypeOK, QueueHolds
<1>3. Head(queue).kind \in {"end", "idle"}
  BY <1>1, <1>2 DEF Item
<1>4. pc' \in {"event", "exit"} /\ (Head(queue).kind = "end" => pc' = "exit")
  BY <1>3 DEF Take, Received
<1>5. batch = None
  BY <1>1 DEF LineInv, LoopHolds
<1>6. EndCommitted'
  BY <1>1, <1>4, EndIsCommitted DEF EndCommitted, Working
<1>7. QED
  BY <1>1, <1>4, <1>5, <1>6, TakenInv

LEMMA TakeFailedInv ==
    ASSUME LineInv, TypeOK', TakeFailed
    PROVE  LineInv'
<1>1. /\ pc = "take" /\ batch = None
      /\ inputUsedUp' = FALSE
  BY DEF TakeFailed, LineInv, LoopHolds, EndCommitted, Working, TypeOK
<1>2. EndCommitted'
  BY <1>1 DEF EndCommitted
<1>3. QED
  BY <1>1, <1>2, TakenInv DEF TakeFailed, consumerVars

LEMMA TakeThenStoppedInv ==
    ASSUME LineInv, TypeOK', TakeThenStopped
    PROVE  LineInv'
<1>1. pc = "take" /\ batch = None /\ inputUsedUp' = FALSE
  BY DEF TakeThenStopped, LineInv, LoopHolds, EndCommitted, Working, TypeOK
<1>2. EndCommitted'
  BY <1>1 DEF EndCommitted
<1>3. QED
  BY <1>1, <1>2, TakenInv DEF TakeThenStopped, consumerVars

LEMMA DoneInv ==
    ASSUME LineInv, TypeOK', Done
    PROVE  LineInv'
<1>1. /\ pc = "body" /\ pc' = "event" /\ batch.seq = oldest /\ requested' = batch.next
      /\ oldest' = oldest + 1 /\ batch' = None
      /\ UNCHANGED <<reader, held, queue, readerStop, inputUsedUp, position, nextSeq>>
  BY DEF Done, readerVars
<1>2. batch # None /\ batch \in Item /\ batch \in Numbered
  BY <1>1 DEF LineInv, LoopHolds, TypeOK, Numbered
<1>3. \A b : b \in Numbered <=> b \in Numbered' \/ b = batch
  BY <1>1, <1>2 DEF Numbered
<1>4. /\ oldest \in Nat /\ nextSeq \in Nat
      /\ \A b \in Numbered : b.seq \in Nat /\ b.first \in Nat /\ b.next \in Nat
  BY LineTypes DEF LineInv, TypeOK
<1>5. batch.seq < nextSeq
  BY <1>2 DEF LineInv, LineInOrder
<1>6. \A b \in Numbered' : oldest < b.seq
  <2>1. \A b : b \in BatchesOf(queue) => batch.seq < b.seq
    BY <1>2, BatchesIn DEF LineInv, LineInOrder, TypeOK
  <2>2. held # None /\ held.kind = "batch" => batch.seq < held.seq
    BY <1>2 DEF LineInv, LineInOrder
  <2>3. QED
    BY <1>1, <2>1, <2>2 DEF Numbered, BatchesOf
<1>7. Reading' = Reading /\ Unnumbered' = Unnumbered
  BY <1>1 DEF Reading, Unnumbered
<1>8. ReaderHolds' /\ QueueHolds'
  BY <1>1 DEF LineInv, ReaderHolds, QueueHolds
<1>9. LoopHolds'
  BY <1>1 DEF LineInv, LoopHolds, Working
<1>10. LineInOrder'
  BY <1>1, <1>3, <1>4, <1>5 DEF LineInv, LineInOrder
<1>11. LineComplete'
  <2>1. \A b \in Numbered' : oldest + 1 <= b.seq
    BY <1>3, <1>4, <1>6
  <2>2. ASSUME NEW s \in (oldest + 1)..(nextSeq - 1)
        PROVE  \E b \in Numbered' : b.seq = s
    <3>1. PICK b \in Numbered : b.seq = s
      BY <1>1, <1>4 DEF LineInv, LineComplete, Working
    <3>2. b # batch
      BY <1>1, <1>4, <3>1
    <3>3. QED
      BY <1>3, <3>1, <3>2
  <2>3. QED
    BY <1>1, <2>1, <2>2 DEF LineComplete
<1>12. EndCommitted'
  BY <1>1 DEF LineInv, EndCommitted, Working
<1>13. LineContiguous'
  <2>1. CommitsAreContiguous'
    BY <1>1, <1>2, <1>3 DEF LineInv, LineContiguous, CommitsAreContiguous
  <2>2. Reading /\ oldest + 1 = nextSeq => batch.next = Unnumbered
    BY <1>1, <1>2, <1>4 DEF LineInv, LineContiguous
  <2>3. QED
    BY <1>1, <1>3, <1>7, <2>1, <2>2 DEF LineInv, LineContiguous
<1>14. IdleHolds'
  <2>1. ASSUME NEW i \in 1..Len(queue), queue[i].kind = "idle"
        PROVE  /\ oldest + 1 <= queue[i].seq
               /\ oldest + 1 = queue[i].seq => batch.next = queue[i].next
    <3>1. queue[i] \in Item
      BY InLine DEF LineInv
    <3>2. queue[i].seq \in Nat
      BY <3>1 DEF Item
    <3>3. batch.seq < queue[i].seq
      BY <1>2, <2>1 DEF LineInv, IdleHolds
    <3>4. batch.seq + 1 = queue[i].seq => batch.next = queue[i].next
      BY <1>2, <2>1 DEF LineInv, IdleHolds
    <3>5. QED
      BY <1>1, <1>4, <3>2, <3>3, <3>4
  <2>2. QED
    BY <1>1, <1>3, <2>1 DEF LineInv, IdleHolds
<1>15. QED
  BY <1>8, <1>9, <1>10, <1>11, <1>12, <1>13, <1>14 DEF LineInv

\* The rewind: the reader has ended, so nothing is numbered after it.
LEMMA RewindInv ==
    ASSUME LineInv, TypeOK', Rewind
    PROVE  LineInv'
<1>1. /\ pc = "rewind" /\ pc' = "close" /\ oldest' = nextSeq /\ batch' = None
      /\ UNCHANGED <<reader, held, queue, readerStop, inputUsedUp, nextSeq, requested>>
  BY DEF Rewind, readerVars
<1>2. reader = "ended" /\ queue = <<>> /\ Len(queue) = 0
  BY <1>1 DEF LineInv, LoopHolds
<1>3. \A b \in Numbered' : FALSE
  BY <1>1, <1>2 DEF LineInv, ReaderHolds, Numbered, Range
<1>4. ~Reading'
  BY <1>1, <1>2 DEF Reading
<1>5. ReaderHolds' /\ QueueHolds'
  BY <1>1, <1>2 DEF LineInv, ReaderHolds, QueueHolds
<1>6. LoopHolds'
  BY <1>1 DEF LoopHolds, Working
<1>7. LineInOrder'
  BY <1>1, <1>2, <1>3 DEF LineInOrder, TypeOK
<1>8. LineComplete' /\ EndCommitted'
  BY <1>1 DEF LineInv, LineComplete, EndCommitted, Working
<1>9. LineContiguous'
  BY <1>3, <1>4 DEF LineContiguous, CommitsAreContiguous
<1>10. IdleHolds'
  BY <1>1, <1>2 DEF IdleHolds
<1>11. QED
  BY <1>5, <1>6, <1>7, <1>8, <1>9, <1>10 DEF LineInv

-----------------------------------------------------------------------------
LEMMA InitInv == Init => LineInv
<1> SUFFICES ASSUME Init PROVE LineInv
  OBVIOUS
<1>1. TypeOK
  BY InitTypes
<1>2. /\ reader = "check" /\ held = None /\ queue = <<>> /\ batch = None
      /\ pc = "event" /\ readerStop = FALSE /\ inputUsedUp = FALSE
      /\ position = 0 /\ nextSeq = 0 /\ oldest = 0 /\ requested = 0
  BY DEF Init
<1>3. \A b \in Numbered : FALSE
  BY <1>2 DEF Numbered, Range
<1>4. Len(queue) = 0
  BY <1>2
<1>5. ReaderHolds /\ LoopHolds /\ EndCommitted /\ QueueHolds
  BY <1>2, <1>4 DEF ReaderHolds, LoopHolds, EndCommitted, QueueHolds
<1>6. LineInOrder /\ LineComplete
  BY <1>2, <1>3, <1>4 DEF LineInOrder, LineComplete
<1>7. LineContiguous
  BY <1>2, <1>3 DEF LineContiguous, CommitsAreContiguous, Unnumbered
<1>8. IdleHolds
  BY <1>4 DEF IdleHolds
<1>9. QED
  BY <1>1, <1>5, <1>6, <1>7, <1>8 DEF LineInv

LEMMA NextInv == LineInv /\ [Next]_vars => LineInv'
<1> SUFFICES ASSUME LineInv, [Next]_vars PROVE LineInv'
  OBVIOUS
<1>1. TypeOK'
  BY NextTypes
<1> USE <1>1 DEF readerVars, loopVars, consumerVars
<1>2. CASE UNCHANGED vars \/ TakeWaits \/ Ended
  <2>1. UNCHANGED vars
    BY <1>2 DEF TakeWaits, Ended
  <2>2. QED
    BY <2>1, QuietInv DEF vars, lineVars, LineInv, LoopHolds, Working
<1>3. CASE RequestEvent
  BY <1>3, QuietInv DEF RequestEvent, lineVars, LineInv, LoopHolds, Working
<1>4. CASE TakeStopped
  BY <1>4, QuietInv DEF TakeStopped, lineVars, LineInv, LoopHolds, Working
<1>5. CASE BodyFails
  BY <1>5, QuietInv DEF BodyFails, lineVars, LineInv, LoopHolds, Working
<1>6. CASE SignalStop
  BY <1>6, QuietInv DEF SignalStop, lineVars, LineInv, LoopHolds, Working
<1>7. CASE Exit
  BY <1>7, QuietInv DEF Exit, lineVars, LineInv, LoopHolds, Working
<1>8. CASE CloseConsumer
  BY <1>8, QuietInv DEF CloseConsumer, lineVars, LineInv, LoopHolds, Working
<1>9. CASE SignalForce
  BY <1>9, DropInv DEF SignalForce, Working
<1>10. CASE StopReader
  BY <1>10, DropInv DEF StopReader, Working
<1>11. CASE Joined
  BY <1>11, DropInv DEF Joined, LineInv, LoopHolds, Working
<1>12. CASE JoinTimesOut
  BY <1>12, DropInv DEF JoinTimesOut, Working
<1>13. CASE JoinLast
  BY <1>13, DropInv DEF JoinLast, Working
<1>14. CASE Check
  BY <1>14, ReaderInv DEF Check, LineInv, ReaderHolds, Reading
<1>15. CASE PollEmpty
  <2>1. held' # None /\ held'.kind = "idle"
    BY <1>15, ReadAheadConstants DEF PollEmpty, Item, LineInv, TypeOK
  <2>2. held'.seq = nextSeq /\ held'.next = position
    BY <1>15 DEF PollEmpty
  <2>3. QED
    BY <1>15, <2>1, <2>2, ReaderInv DEF PollEmpty, LineInv, ReaderHolds, Reading
<1>16. CASE PollEnds
  BY <1>16, ReaderInv, MarkIsItem DEF PollEnds, LineInv, ReaderHolds, Reading
<1>17. CASE PollClosed
  BY <1>17, ReaderInv, MarkIsItem DEF PollClosed, LineInv, ReaderHolds, Reading
<1>18. CASE ParseFails
  <2>1. ~Reading' /\ ReaderHolds'
    BY <1>18, MarkIsItem DEF ParseFails, LineInv, ReaderHolds, QueueHolds, Reading
  <2>2. QED
    BY <1>18, <2>1, ReaderInv, MarkIsItem DEF ParseFails, LineInv, ReaderHolds
<1>19. CASE HandOverStopped
  <2>1. ~Reading' /\ ReaderHolds'
    BY <1>19 DEF HandOverStopped, LineInv, ReaderHolds, QueueHolds, Reading
  <2>2. QED
    BY <1>19, <2>1, ReaderInv DEF HandOverStopped
<1>20. CASE Take
  BY <1>20, TakeBatchInv, TakeOtherInv
<1>21. QED
  BY <1>2, <1>3, <1>4, <1>5, <1>6, <1>7, <1>8, <1>9, <1>10, <1>11, <1>12, <1>13,
     <1>14, <1>15, <1>16, <1>17, <1>18, <1>19, <1>20, PollInv, NumberInv,
     HandOverInv, TakeFailedInv, TakeThenStoppedInv, DoneInv, RewindInv
  DEF Next, ReaderThread, LoopThread, Faults

LEMMA AlwaysInv == Spec => []LineInv
BY InitInv, NextInv, PTL DEF Spec

-----------------------------------------------------------------------------
(***************************************************************************)
(* The theorems.                                                           *)
(***************************************************************************)

\* The loop never commits across messages that were read and dropped: by a stop
\* between the take and the check, by a failed read, or by the seek of the exit
\* while the reader was in a read (_next_event, __exit__).
THEOREM CommitsWithoutGap == Spec => []CommitsAreContiguous
<1>1. LineInv => CommitsAreContiguous
  BY DEF LineInv, LineContiguous
<1>2. QED
  BY AlwaysInv, <1>1, PTL

\* What is read ahead reaches the node in read order, all of it before an empty
\* poll that comes after it, and to its last message when the end of the input
\* ends the loop (_hand_over, _take, stop_when_idle, _end_of_input).
THEOREM NothingLost == Spec => []NothingReadAheadIsLost
<1>1. LineInv => NothingReadAheadIsLost
  BY IdleIsCommitted DEF LineInv, LoopHolds, LineContiguous, EndCommitted,
         NothingReadAheadIsLost, HandedOutInOrder, EndDropsNothing
<1>2. QED
  BY AlwaysInv, <1>1, PTL

=============================================================================
