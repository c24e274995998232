------------------------ MODULE ClickhouseProducerProofs ------------------------
(***************************************************************************)
(* What holds of ClickhouseProducer for any batch, any rows the server     *)
(* rejects and any split factor: a call puts a row into the table twice    *)
(* only where the server rejects an insert it has begun to write, files    *)
(* only bad rows in the DLQ, and has placed every row when it returns.     *)
(*                                                                         *)
(* The invariant is about the frontier of the descent.  The chunks still   *)
(* to be inserted lie one behind the other; a chunk the call has sent lies *)
(* in front of them, is the one at the head, or was split into those it    *)
(* does not lie in front of.  Their tokens are incomparable, or one is the *)
(* other's beginning, so that no insert is ever taken for another.         *)
(***************************************************************************)
EXTENDS ClickhouseProducer, Integers, SequenceTheorems, TLAPS

-----------------------------------------------------------------------------
(***************************************************************************)
(* The invariant.                                                          *)
(***************************************************************************)
After(chunk) == chunk.first + chunk.len

\* Two chunks of the split tree neither of which was split from the other.
Incomparable(s, t) == \E k \in (1..Len(s)) \cap (1..Len(t)) : s[k] # t[k]

Before(a, b) == After(a) <= b.first /\ Incomparable(a.token, b.token)

\* A chunk of the batch.
Fits(chunk) == After(chunk) <= Rows + 1 /\ chunk.token # <<>>

\* The chunks the server has rows of, or still holds.
Sent == limbo \cup {x.chunk : x \in table}

Apart(a, b) == Before(a, b) \/ SplitFrom(a, b)

\* The chunks still to be inserted, in order.
WorkInv ==
    /\ ~Inserting => work = <<>>
    /\ pc = "direct" => work = <<Whole(call)>>
    /\ \A i \in 1..Len(work) : Fits(work[i]) /\ work[i].token[1] = call
    /\ \A i, j \in 1..Len(work) : i < j => Before(work[i], work[j])

\* What the server has been sent, against each other.
SentInv ==
    /\ \A b \in Sent : Fits(b) /\ b.token[1] \in 1..call
    /\ \A a, b \in Sent :
          a.token[1] = b.token[1] => a = b \/ Apart(a, b) \/ Apart(b, a)

\* And in this call against the list, of which its head may have been sent.
FrontInv ==
    \A b \in Sent, i \in 1..Len(work) :
        b.token[1] = call => b = work[1] \/ Apart(b, work[i])

RowInv == \A x \in table : x.row \in RowsOf(x.chunk) \ Bad

\* The DLQ's rows lie in front of the head of the list.
DlqInv ==
    /\ DlqHoldsBadRows
    /\ \A i \in 1..Len(dlq) :
          /\ dlq[i].call <= call
          /\ dlq[i].call = call /\ Inserting => dlq[i].row < work[1].first
          /\ dlq[i].call = call /\ pc = "returned" => dlq[i].fate # "out"

Placed(row) ==
    \/ row \in Bad /\ \E i \in 1..Len(dlq) : dlq[i].call = call /\ dlq[i].row = row
    \/ row \notin Bad /\ \E x \in table : OfCall(x, call) /\ x.row = row

\* While the call runs, every row is placed or still in the list.
PlacedInv ==
    pc # "raised" =>
        \A row \in 1..Rows :
            Placed(row) \/ \E i \in 1..Len(work) : row \in RowsOf(work[i])

FrontierInv ==
    TypeOK /\ WorkInv /\ SentInv /\ FrontInv /\ RowInv /\ DlqInv /\ PlacedInv

-----------------------------------------------------------------------------
(***************************************************************************)
(* Division, and the slices of a chunk.                                    *)
(***************************************************************************)
LEMMA Quotient ==
    ASSUME NEW k \in Nat, NEW size \in Nat \ {0}
    PROVE  /\ k \div size \in Nat
           /\ (k \div size) * size <= k
           /\ k < (k \div size) * size + size
OBVIOUS

LEMMA StepsApart ==
    ASSUME NEW i \in Nat, NEW j \in Nat, NEW size \in Nat, i < j
    PROVE  i * size \in Nat /\ j * size \in Nat /\ i * size + size <= j * size
OBVIOUS

\* As many slices as it takes: all but the last are full, and it is not empty.
LEMMA SliceCount ==
    ASSUME NEW n \in Nat \ {0}, NEW size \in Nat \ {0}, NEW count,
           count = (n + size - 1) \div size
    PROVE  /\ count \in Nat \ {0}
           /\ (count - 1) * size \in Nat
           /\ (count - 1) * size < n
           /\ n <= (count - 1) * size + size
<1>1. n + size - 1 \in Nat
  OBVIOUS
<1>2. count \in Nat /\ count * size <= n + size - 1 /\ n + size - 1 < count * size + size
  BY <1>1, Quotient
<1>3. count # 0
  BY <1>2
<1>4. count - 1 \in Nat
  BY <1>2, <1>3
<1>5. (count - 1) * size \in Nat /\ count * size = (count - 1) * size + size
  BY <1>4
<1>6. QED
  BY <1>2, <1>3, <1>5

\* The slices lie in the chunk one behind the other, and leave no row of it out
\* (_table_slices).
LEMMA SlicesOfChunk ==
    ASSUME NEW c \in Chunk, After(c) <= Rows + 1, splitFactor \in Nat \ {0}
    PROVE  /\ Slices(c) \in Seq(Chunk)
           /\ \A i \in 1..Len(Slices(c)) :
                 /\ c.first <= Slices(c)[i].first
                 /\ After(Slices(c)[i]) <= After(c)
                 /\ Slices(c)[i].token = Append(c.token, i - 1)
           /\ \A i, j \in 1..Len(Slices(c)) :
                 i < j => After(Slices(c)[i]) <= Slices(c)[j].first
           /\ \A row \in RowsOf(c) :
                 \E i \in 1..Len(Slices(c)) : row \in RowsOf(Slices(c)[i])
<1> DEFINE share == c.len \div splitFactor
           size  == IF share = 0 THEN 1 ELSE share
           count == (c.len + size - 1) \div size
           s     == Slices(c)
<1>1. /\ c.first \in Nat \ {0} /\ c.len \in Nat \ {0} /\ c.token \in Seq(Nat)
      /\ Rows \in Nat /\ c.first + c.len <= Rows + 1
  BY ClickhouseConstants DEF Chunk, After
<1>2. size \in Nat \ {0}
  BY <1>1, Quotient
<1>3. s = [i \in 1..count |->
              [first |-> c.first + (i - 1) * size,
               len   |-> IF i < count THEN size ELSE c.len - (count - 1) * size,
               token |-> Append(c.token, i - 1)]]
  BY DEF Slices
<1> HIDE DEF size, s
<1> DEFINE at(i) == (i - 1) * size
<1>4. /\ count \in Nat \ {0}
      /\ at(count) \in Nat /\ at(count) < c.len /\ c.len <= at(count) + size
  BY <1>1, <1>2, SliceCount
<1> HIDE DEF count
<1>5. \A i, j \in Nat \ {0} :
         /\ at(i) \in Nat
         /\ i < j => at(i) + size <= at(j)
  <2>1. SUFFICES ASSUME NEW i \in Nat \ {0}, NEW j \in Nat \ {0}
                 PROVE  at(i) \in Nat /\ (i < j => at(i) + size <= at(j))
    OBVIOUS
  <2>2. i - 1 \in Nat /\ j - 1 \in Nat /\ (i < j => i - 1 < j - 1)
    OBVIOUS
  <2>3. at(i) \in Nat
    BY <2>2, <1>2
  <2>4. i < j => at(i) + size <= at(j)
    BY <2>2, <1>2, StepsApart
  <2>5. QED
    BY <2>3, <2>4
<1>6. \A k \in Nat : \E q \in Nat : at(q + 1) <= k /\ k < at(q + 1) + size
  <2>1. SUFFICES ASSUME NEW k \in Nat
                 PROVE  \E q \in Nat : at(q + 1) <= k /\ k < at(q + 1) + size
    OBVIOUS
  <2> DEFINE q == k \div size
  <2>2. q \in Nat /\ q * size <= k /\ k < q * size + size
    BY <1>2, Quotient
  <2> HIDE DEF q
  <2>3. (q + 1) - 1 = q
    BY <2>2
  <2>4. QED
    BY <2>2, <2>3
<1> DEFINE length(i) == IF i < count THEN size ELSE c.len - at(count)
<1>7. ASSUME NEW i \in 1..count
      PROVE  /\ s[i] = [first |-> c.first + at(i), len |-> length(i),
                        token |-> Append(c.token, i - 1)]
             /\ s[i].first = c.first + at(i)
             /\ s[i].len = length(i)
             /\ s[i].token = Append(c.token, i - 1)
  <2>1. s[i] = [first |-> c.first + at(i), len |-> length(i),
                token |-> Append(c.token, i - 1)]
    BY <1>3
  <2> HIDE DEF at, length
  <2>2. QED
    BY <2>1
<1> HIDE DEF at
<1>8. ASSUME NEW i \in 1..count
      PROVE  /\ s[i].first \in Nat /\ s[i].len \in Nat \ {0}
             /\ c.first <= s[i].first /\ s[i].first + s[i].len <= c.first + c.len
             /\ s[i] \in Chunk
  <2>1. i \in Nat \ {0} /\ at(i) \in Nat /\ (i < count => at(i) + size <= at(count))
    BY <1>4, <1>5
  <2> DEFINE first == s[i].first
             len   == s[i].len
  <2>0. first = c.first + at(i) /\ len = length(i)
    BY <1>7
  <2> HIDE DEF first, len, length
  <2>2. /\ first \in Nat /\ len \in Nat \ {0}
        /\ c.first <= first /\ first + len <= c.first + c.len
    <3>1. CASE i < count
      <4>1. len = size
        BY <3>1, <2>0 DEF length
      <4>2. at(i) + size < c.len
        BY <3>1, <2>1, <1>1, <1>2, <1>4
      <4>3. QED
        BY <4>1, <4>2, <2>0, <2>1, <1>1, <1>2
    <3>2. CASE i = count
      <4>1. len = c.len - at(i) /\ at(i) < c.len
        BY <3>2, <2>0, <1>4 DEF length
      <4>2. len \in Nat \ {0}
        BY <4>1, <2>1, <1>1
      <4>3. first \in Nat /\ c.first <= first
        BY <2>0, <2>1, <1>1
      <4>4. first + len = c.first + c.len
        BY <4>1, <2>0, <2>1, <1>1
      <4>5. QED
        BY <4>2, <4>3, <4>4, <1>1
    <3>3. QED
      BY <3>1, <3>2, <1>4
  <2>3. first \in 1..Rows /\ len \in 1..Rows
    BY <2>2, <1>1
  <2>4. i - 1 \in Nat
    BY <1>4
  <2>5. Append(c.token, i - 1) \in Seq(Nat)
    BY <2>4, <1>1, AppendProperties
  <2>6. s[i] \in Chunk
    <3>1. s[i] = [first |-> first, len |-> len, token |-> Append(c.token, i - 1)]
      BY <1>7, <2>0
    <3>2. QED
      BY <3>1, <2>3, <2>5 DEF Chunk
  <2>7. QED
    BY <2>2, <2>6 DEF first, len
<1>9. s \in Seq(Chunk) /\ Len(s) = count
  <2>1. s \in [1..count -> Chunk]
    BY <1>3, <1>8
  <2>2. QED
    BY <2>1, <1>4
<1>10. ASSUME NEW i \in 1..count, NEW j \in 1..count, i < j
       PROVE  s[i].first + s[i].len <= s[j].first
  <2>1. /\ i < count /\ at(i) \in Nat /\ at(j) \in Nat
        /\ at(i) + size <= at(j)
    BY <1>4, <1>5, <1>10
  <2>2. /\ s[i].first = c.first + at(i) /\ s[i].len = size
        /\ s[j].first = c.first + at(j)
    BY <2>1, <1>7
  <2>3. QED
    BY <2>1, <2>2, <1>1, <1>2
<1>11. ASSUME NEW row \in RowsOf(c)
       PROVE  \E i \in 1..count : row \in RowsOf(s[i])
  <2>1. row \in Nat /\ c.first <= row /\ row < c.first + c.len
    BY <1>1, <1>11 DEF RowsOf
  <2>2. row - c.first \in Nat /\ row - c.first < c.len
    BY <2>1, <1>1
  <2>3. PICK q \in Nat : at(q + 1) <= row - c.first /\ row - c.first < at(q + 1) + size
    BY <2>2, <1>6
  <2> DEFINE i == q + 1
  <2>4. /\ i \in Nat \ {0} /\ at(i) \in Nat
        /\ at(i) <= row - c.first /\ row - c.first < at(i) + size
    BY <2>3, <1>5
  <2> HIDE DEF i
  <2>5. i <= count
    <3>1. SUFFICES ASSUME count < i PROVE FALSE
      BY <2>4, <1>4
    <3>2. at(count) + size <= at(i)
      BY <3>1, <1>4, <1>5, <2>4
    <3>3. QED
      BY <3>2, <2>1, <2>2, <2>4, <1>1, <1>2, <1>4
  <2>6. i \in 1..count
    BY <2>4, <2>5
  <2>9. s[i].first = c.first + at(i) /\ s[i].len = length(i)
    BY <1>7, <2>6
  <2>7. s[i].first <= row /\ row < s[i].first + s[i].len
    <3>1. CASE i < count
      BY <3>1, <1>1, <1>2, <2>9, <2>1, <2>4
    <3>2. CASE i = count
      BY <3>2, <1>1, <1>2, <1>4, <2>9, <2>1, <2>4
    <3>3. QED
      BY <3>1, <3>2, <2>5, <2>4, <1>4
  <2>8. QED
    BY <1>8, <2>1, <2>6, <2>7 DEF RowsOf
<1>12. QED
  BY <1>7, <1>8, <1>9, <1>10, <1>11 DEF s, After

-----------------------------------------------------------------------------
(***************************************************************************)
(* Tokens and chunks.                                                      *)
(***************************************************************************)

\* Splitting a chunk keeps its slices apart from the others.
LEMMA StaysIncomparable ==
    ASSUME NEW s \in Seq(Nat), NEW t \in Seq(Nat), NEW x \in Nat
    PROVE  /\ Incomparable(s, t) => Incomparable(Append(s, x), t)
           /\ Incomparable(t, s) => Incomparable(t, Append(s, x))
<1>1. /\ Len(s) \in Nat /\ Len(t) \in Nat /\ Len(Append(s, x)) = Len(s) + 1
      /\ \A k \in 1..Len(s) : Append(s, x)[k] = s[k]
  BY AppendProperties, LenProperties
<1>2. ASSUME NEW k \in (1..Len(s)) \cap (1..Len(t))
      PROVE  k \in 1..Len(Append(s, x)) /\ Append(s, x)[k] = s[k]
  BY <1>1
<1>3. QED
  BY <1>2 DEF Incomparable

\* And from each other.
LEMMA SiblingsIncomparable ==
    ASSUME NEW s \in Seq(Nat), NEW x \in Nat, NEW y \in Nat, x # y
    PROVE  Incomparable(Append(s, x), Append(s, y))
<1>1. /\ Len(s) \in Nat /\ Len(Append(s, x)) = Len(s) + 1
      /\ Len(Append(s, y)) = Len(s) + 1
      /\ Append(s, x)[Len(s) + 1] = x /\ Append(s, y)[Len(s) + 1] = y
  BY AppendProperties, LenProperties
<1>2. QED
  BY <1>1 DEF Incomparable

\* A slice's token begins as the chunk's does.
LEMMA LongerToken ==
    ASSUME NEW s \in Seq(Nat), s # <<>>, NEW x \in Nat
    PROVE  /\ Append(s, x) \in Seq(Nat) /\ Append(s, x) # <<>>
           /\ Append(s, x)[1] = s[1]
<1>1. /\ Len(s) \in Nat \ {0} /\ Len(Append(s, x)) = Len(s) + 1
      /\ Append(s, x) \in Seq(Nat)
      /\ \A k \in 1..Len(s) : Append(s, x)[k] = s[k]
  BY AppendProperties, LenProperties, EmptySeq
<1>2. QED
  BY <1>1, EmptySeq

LEMMA ChunkParts ==
    ASSUME NEW c \in Chunk
    PROVE  /\ c.first \in Nat \ {0} /\ c.len \in Nat \ {0} /\ c.token \in Seq(Nat)
           /\ After(c) \in Nat /\ c.first < After(c)
           /\ \A row : row \in RowsOf(c) <=>
                 row \in Nat /\ c.first <= row /\ row < After(c)
BY ClickhouseConstants DEF Chunk, After, RowsOf

LEMMA ApartAreOther ==
    ASSUME NEW a \in Chunk, NEW b \in Chunk, Apart(a, b)
    PROVE  /\ a # b /\ a.token # b.token
           /\ RowsOf(a) \cap RowsOf(b) # {} => SplitFrom(a, b)
<1>1. /\ a.token \in Seq(Nat) /\ b.token \in Seq(Nat)
      /\ Len(a.token) \in Nat /\ Len(b.token) \in Nat
  BY ChunkParts, LenProperties
<1>2. a.token # b.token
  BY <1>1 DEF Apart, Before, Incomparable, SplitFrom
<1>3. Before(a, b) => RowsOf(a) \cap RowsOf(b) = {}
  BY ChunkParts DEF Before
<1>4. QED
  BY <1>2, <1>3 DEF Apart

\* What is apart from a chunk is apart from its slices, and the chunk itself is.
LEMMA ApartFromSlice ==
    ASSUME NEW b \in Chunk, NEW c \in Chunk, NEW s \in Chunk, NEW x \in Nat,
           s.token = Append(c.token, x), c.first <= s.first
    PROVE  /\ Apart(b, c) => Apart(b, s)
           /\ Rejects(c) => Apart(c, s)
<1>1. /\ b.token \in Seq(Nat) /\ c.token \in Seq(Nat)
      /\ Len(b.token) \in Nat /\ Len(c.token) \in Nat
      /\ Len(s.token) = Len(c.token) + 1
      /\ \A k \in 1..Len(c.token) : s.token[k] = c.token[k]
  BY ChunkParts, LenProperties, AppendProperties
<1>2. Before(b, c) => Before(b, s)
  <2>1. Incomparable(b.token, c.token) => Incomparable(b.token, s.token)
    BY <1>1, StaysIncomparable
  <2>2. After(b) \in Nat /\ c.first \in Nat /\ s.first \in Nat
    BY ChunkParts
  <2>3. QED
    BY <2>1, <2>2 DEF Before
<1>3. SplitFrom(b, c) => SplitFrom(b, s)
  BY <1>1 DEF SplitFrom
<1>4. Rejects(c) => SplitFrom(c, s)
  BY <1>1 DEF SplitFrom
<1>5. QED
  BY <1>2, <1>3, <1>4 DEF Apart

LEMMA TailChunks ==
    ASSUME NEW s \in Seq(Chunk), s # <<>>
    PROVE  /\ Tail(s) \in Seq(Chunk)
           /\ Len(s) \in Nat \ {0} /\ Len(Tail(s)) = Len(s) - 1
           /\ Head(s) = s[1] /\ s[1] \in Chunk
           /\ \A i \in 1..Len(Tail(s)) : i + 1 \in 1..Len(s) /\ Tail(s)[i] = s[i + 1]
           /\ \A i \in 1..Len(s) :
                 i = 1 \/ (i - 1 \in 1..Len(Tail(s)) /\ s[i] = Tail(s)[i - 1])
<1>1. Len(s) \in Nat \ {0} /\ DOMAIN s = 1..Len(s)
  BY EmptySeq, LenProperties
<1>2. /\ Tail(s) \in Seq(Chunk) /\ Len(Tail(s)) = Len(s) - 1
      /\ \A i \in 1..Len(Tail(s)) : Tail(s)[i] = s[i + 1]
  BY HeadTailProperties
<1>3. Head(s) = s[1] /\ s[1] \in Chunk
  BY <1>1, ElementOfSeq
<1>4. /\ \A i \in 1..Len(Tail(s)) : i + 1 \in 1..Len(s)
      /\ \A i \in 1..Len(s) : i # 1 => i - 1 \in 1..Len(Tail(s)) /\ (i - 1) + 1 = i
  BY <1>1, <1>2
<1>5. QED
  BY <1>1, <1>2, <1>3, <1>4

LEMMA WorkChunks ==
    ASSUME TypeOK
    PROVE  /\ Len(work) \in Nat
           /\ \A i \in 1..Len(work) : work[i] \in Chunk
           /\ work # <<>> => 1 \in 1..Len(work) /\ Head(work) = work[1]
           /\ Inserting => work # <<>>
BY LenProperties, ElementOfSeq, TailChunks, EmptySeq DEF TypeOK

LEMMA WholeFits ==
    ASSUME NEW n \in 1..MaxCalls
    PROVE  /\ Whole(n) \in Chunk /\ After(Whole(n)) = Rows + 1
           /\ Whole(n).token # <<>> /\ Whole(n).token[1] = n
           /\ RowsOf(Whole(n)) = 1..Rows /\ Whole(n).first = 1
           /\ <<Whole(n)>> \in Seq(Chunk) /\ Len(<<Whole(n)>>) = 1
           /\ <<Whole(n)>>[1] = Whole(n) /\ <<Whole(n)>> # <<>>
<1>1. Rows \in Nat \ {0} /\ MaxCalls \in Nat \ {0} /\ n \in Nat
  BY ClickhouseConstants
<1>2. Whole(n) \in Chunk
  BY <1>1 DEF Whole, Chunk
<1>3. After(Whole(n)) = Rows + 1 /\ RowsOf(Whole(n)) = 1..Rows /\ Whole(n).first = 1
  BY <1>1 DEF Whole, After, RowsOf
<1>4. Whole(n).token # <<>> /\ Whole(n).token[1] = n
  BY <1>1 DEF Whole
<1>5. QED
  BY <1>2, <1>3, <1>4

DlqItem == [call : 1..MaxCalls, row : 1..Rows, fate : {"out", "there", "lost"}]

DlqTypes == dlq \in Seq(DlqItem)

LEMMA TypesOfDlq == TypeOK => DlqTypes
BY DEF TypeOK, DlqTypes, DlqItem

LEMMA DlqItems ==
    ASSUME NEW s \in Seq(DlqItem)
    PROVE  /\ Len(s) \in Nat
           /\ \A i \in 1..Len(s) :
                 /\ s[i] \in DlqItem
                 /\ s[i].call \in Nat /\ s[i].row \in Nat \ {0} /\ s[i].row \in 1..Rows
<1>1. Len(s) \in Nat /\ \A i \in 1..Len(s) : s[i] \in DlqItem
  BY LenProperties, ElementOfSeq
<1>2. QED
  BY <1>1, ClickhouseConstants DEF DlqItem

-----------------------------------------------------------------------------
(***************************************************************************)
(* What the steps have in common.                                          *)
(***************************************************************************)

\* The server writes good rows of a chunk, or none.
Takes(chunk) ==
    /\ table \subseteq table'
    /\ table' \subseteq table \cup [row : RowsOf(chunk) \ Bad, chunk : {chunk}]

LEMMA StoreTakes ==
    ASSUME NEW chunk, NEW rows, Store(chunk, rows), rows \subseteq RowsOf(chunk) \ Bad
    PROVE  Takes(chunk)
BY DEF Store, Takes

LEMMA PartTakes ==
    ASSUME NEW chunk, NEW rows \in Written(chunk), Store(chunk, rows)
    PROVE  Takes(chunk)
<1>1. rows \subseteq RowsOf(chunk) \ Bad
  BY DEF Written
<1>2. QED
  BY <1>1, StoreTakes

LEMMA RejectedTakes ==
    ASSUME TypeOK, NEW chunk, Rejected(chunk)
    PROVE  Takes(chunk) /\ faults' \in 0..MaxFaults
<1>1. CASE UNCHANGED <<table, faults>>
  BY <1>1 DEF Takes, TypeOK
<1>2. CASE Fault /\ \E rows \in Written(chunk) : Store(chunk, rows)
  <2>1. faults' \in 0..MaxFaults
    BY <1>2, ClickhouseConstants DEF TypeOK, Fault
  <2>2. QED
    BY <1>2, <2>1, PartTakes
<1>3. QED
  BY <1>1, <1>2 DEF Rejected

\* A chunk that fits into the batch, taken by the server.
LEMMA TakenRows ==
    ASSUME FrontierInv, NEW chunk \in Chunk, Fits(chunk), Takes(chunk)
    PROVE  /\ table' \subseteq [row : 1..Rows, chunk : Chunk] /\ RowInv'
           /\ \A x \in table' : x \in table \/ x.chunk = chunk
<1>1. \A row \in RowsOf(chunk) : row \in 1..Rows
  BY ChunkParts, ClickhouseConstants DEF Fits
<1>2. table' \subseteq [row : 1..Rows, chunk : Chunk]
  BY <1>1 DEF Takes, FrontierInv, TypeOK
<1>3. RowInv'
  BY DEF Takes, FrontierInv, RowInv
<1>4. QED
  BY <1>2, <1>3 DEF Takes

\* The head of the list is sent.
LEMMA HeadSent ==
    ASSUME FrontierInv, Inserting, call' = call,
           Takes(work[1]), limbo' \subseteq limbo \cup {work[1]}
    PROVE  /\ SentInv' /\ RowInv'
           /\ table' \subseteq [row : 1..Rows, chunk : Chunk] /\ limbo' \subseteq Chunk
           /\ \A b \in Sent', i \in 1..Len(work) :
                 b.token[1] = call => b = work[1] \/ Apart(b, work[i])
<1>1. /\ Len(work) \in Nat /\ 1 \in 1..Len(work)
      /\ \A i \in 1..Len(work) : work[i] \in Chunk
  BY WorkChunks DEF FrontierInv
<1>2. Fits(work[1]) /\ work[1].token[1] = call /\ call \in 1..call
  BY <1>1, ClickhouseConstants DEF FrontierInv, WorkInv, TypeOK
<1>3. /\ table' \subseteq [row : 1..Rows, chunk : Chunk] /\ RowInv'
      /\ \A x \in table' : x \in table \/ x.chunk = work[1]
  BY <1>1, <1>2, TakenRows
<1>4. \A b \in Sent' : b = work[1] \/ b \in Sent
  BY <1>3 DEF Sent
<1>5. \A b \in Sent' : Fits(b) /\ b.token[1] \in 1..call'
  BY <1>2, <1>4 DEF FrontierInv, SentInv
<1>6. \A b \in Sent : b.token[1] = call => b = work[1] \/ Apart(b, work[1])
  BY <1>1 DEF FrontierInv, FrontInv
<1>7. \A a, b \in Sent' :
         a.token[1] = b.token[1] => a = b \/ Apart(a, b) \/ Apart(b, a)
  BY <1>2, <1>4, <1>6 DEF FrontierInv, SentInv
<1>8. \A b \in Sent', i \in 1..Len(work) :
         b.token[1] = call => b = work[1] \/ Apart(b, work[i])
  BY <1>4 DEF FrontierInv, FrontInv
<1>9. limbo' \subseteq Chunk
  BY <1>1 DEF FrontierInv, TypeOK
<1>10. QED
  BY <1>3, <1>5, <1>7, <1>8, <1>9 DEF SentInv

\* A call that raises leaves its rows behind, in the table and the DLQ.
LEMMA RaiseKeeps ==
    ASSUME FrontierInv, Inserting, Ends("raised"),
           Takes(work[1]), limbo' \subseteq limbo \cup {work[1]},
           faults' \in 0..MaxFaults, UNCHANGED <<splitFactor, call, dlq>>
    PROVE  FrontierInv'
<1>1. pc' = "raised" /\ work' = <<>> /\ attempt' = 1 /\ Len(work') = 0
  BY EmptySeq DEF Ends
<1>2. /\ SentInv' /\ RowInv'
      /\ table' \subseteq [row : 1..Rows, chunk : Chunk] /\ limbo' \subseteq Chunk
  BY HeadSent
<1>3. TypeOK'
  BY <1>1, <1>2, ClickhouseConstants, EmptySeq DEF TypeOK, FrontierInv, Inserting
<1>4. WorkInv' /\ FrontInv'
  BY <1>1 DEF WorkInv, FrontInv
<1>5. DlqInv'
  BY <1>1 DEF FrontierInv, DlqInv, DlqHoldsBadRows, Inserting
<1>6. PlacedInv'
  BY <1>1 DEF PlacedInv
<1>7. QED
  BY <1>2, <1>3, <1>4, <1>5, <1>6 DEF FrontierInv

\* A call that goes on with the next chunk, or is done with the last.
LEMMA ProceedKeeps ==
    ASSUME FrontierInv, Inserting, Proceed,
           Takes(work[1]), limbo' \subseteq limbo \cup {work[1]}, DlqTypes',
           UNCHANGED <<splitFactor, call, faults>>,
           DlqHoldsBadRows',
           \A i \in 1..Len(dlq') :
               /\ dlq'[i].call <= call
               /\ dlq'[i].call = call => dlq'[i].row < After(work[1]),
           pc = "direct" => dlq' = dlq,
           \A row \in 1..Rows : Placed(row) \/ row \in RowsOf(work[1]) => Placed(row)'
    PROVE  FrontierInv'
<1>1. /\ Len(work) \in Nat \ {0} /\ 1 \in 1..Len(work)
      /\ \A i \in 1..Len(work) : work[i] \in Chunk
      /\ work # <<>> /\ work \in Seq(Chunk)
  BY WorkChunks, EmptySeq DEF FrontierInv, TypeOK
<1>0. /\ SentInv' /\ RowInv'
      /\ table' \subseteq [row : 1..Rows, chunk : Chunk] /\ limbo' \subseteq Chunk
      /\ \A b \in Sent', i \in 1..Len(work) :
            b.token[1] = call => b = work[1] \/ Apart(b, work[i])
  BY HeadSent
<1>2. CASE pc = "direct"
  <2>1. /\ pc' = "returned" /\ work' = <<>> /\ attempt' = 1 /\ Len(work') = 0
    BY <1>2, EmptySeq DEF Proceed, Ends
  <2>2. TypeOK'
    BY <1>0, <2>1, ClickhouseConstants, EmptySeq
       DEF TypeOK, FrontierInv, Inserting, DlqTypes, DlqItem
  <2>3. WorkInv' /\ FrontInv'
    BY <2>1 DEF WorkInv, FrontInv
  <2>4. Len(work) = 1 /\ work[1].first = 1
    BY <1>2, WholeFits DEF FrontierInv, WorkInv, TypeOK
  <2>5. \A i \in 1..Len(dlq) : dlq[i].row \in Nat \ {0}
    BY DlqItems, TypesOfDlq DEF FrontierInv, DlqTypes
  <2>6. \A i \in 1..Len(dlq) : dlq[i].call # call
    BY <2>4, <2>5 DEF FrontierInv, DlqInv
  <2>7. DlqInv'
    BY <1>2, <2>1, <2>6 DEF DlqInv, Inserting
  <2>8. PlacedInv'
    BY <1>2, <2>4 DEF FrontierInv, PlacedInv
  <2>9. QED
    BY <1>0, <2>2, <2>3, <2>7, <2>8 DEF FrontierInv
<1>3. CASE pc = "descend"
  <2> DEFINE rest == Tail(work)
  <2>1. /\ work' = rest /\ attempt' = 1
        /\ pc' = IF Len(work) = 1 THEN "flush" ELSE "descend"
    BY <1>3 DEF Proceed
  <2>2. /\ rest \in Seq(Chunk) /\ Len(rest) = Len(work) - 1
        /\ \A i \in 1..Len(rest) : i + 1 \in 1..Len(work) /\ rest[i] = work[i + 1]
        /\ \A i \in 1..Len(work) :
              i = 1 \/ (i - 1 \in 1..Len(rest) /\ work[i] = rest[i - 1])
    BY <1>1, TailChunks
  <2> HIDE DEF rest
  <2>3. rest = <<>> <=> Len(work) = 1
    BY <1>1, <2>2, EmptySeq
  <2>4. TypeOK'
    BY <1>0, <2>1, <2>2, <2>3, ClickhouseConstants
       DEF TypeOK, FrontierInv, Inserting, DlqTypes, DlqItem
  <2>5. WorkInv'
    <3>1. ~Inserting' => work' = <<>>
      BY <2>1, <2>3 DEF Inserting
    <3>2. pc' # "direct"
      BY <2>1
    <3>3. \A i \in 1..Len(work') : Fits(work'[i]) /\ work'[i].token[1] = call
      BY <2>1, <2>2 DEF FrontierInv, WorkInv
    <3>4. \A i, j \in 1..Len(work') : i < j => Before(work'[i], work'[j])
      <4>1. \A i, j \in 1..Len(rest) :
               i < j => i + 1 < j + 1 /\ rest[i] = work[i + 1] /\ rest[j] = work[j + 1]
        BY <2>2
      <4>2. QED
        BY <4>1, <2>1, <2>2 DEF FrontierInv, WorkInv
    <3>5. QED
      BY <3>1, <3>2, <3>3, <3>4 DEF WorkInv
  <2>6. FrontInv'
    <3>1. SUFFICES ASSUME NEW b \in Sent', NEW i \in 1..Len(rest), b.token[1] = call
                   PROVE  Apart(b, rest[i])
      BY <2>1 DEF FrontInv
    <3>2. i + 1 \in 1..Len(work) /\ 1 < i + 1 /\ rest[i] = work[i + 1]
      BY <2>2, <1>1
    <3>3. b = work[1] \/ Apart(b, work[i + 1])
      BY <1>0, <3>1, <3>2
    <3>4. Apart(work[1], work[i + 1])
      BY <3>2, <1>1 DEF FrontierInv, WorkInv, Apart
    <3>5. QED
      BY <3>2, <3>3, <3>4
  <2>7. DlqInv'
    <3>1. pc' # "returned"
      BY <2>1
    <3>2. ASSUME NEW i \in 1..Len(dlq'), dlq'[i].call = call, Inserting'
          PROVE  dlq'[i].row < work'[1].first
      <4>1. Len(work) # 1
        BY <3>2, <2>1 DEF Inserting
      <4>2. 1 \in 1..Len(rest) /\ 2 \in 1..Len(work) /\ rest[1] = work[2]
        BY <4>1, <1>1, <2>2
      <4>3. After(work[1]) <= work[2].first
        BY <4>2, <1>1 DEF FrontierInv, WorkInv, Before
      <4>4. dlq'[i].row \in Nat
        BY DlqItems DEF DlqTypes
      <4>5. /\ After(work[1]) \in Nat /\ work[2].first \in Nat
        BY <1>1, <4>2, ChunkParts
      <4>6. dlq'[i].row < After(work[1])
        BY <3>2
      <4>7. QED
        BY <2>1, <4>2, <4>3, <4>4, <4>5, <4>6
    <3>3. QED
      BY <3>1, <3>2 DEF DlqInv
  <2>8. PlacedInv'
    <3>1. SUFFICES ASSUME NEW row \in 1..Rows
                   PROVE  Placed(row)' \/ \E i \in 1..Len(rest) : row \in RowsOf(rest[i])
      BY <2>1 DEF PlacedInv, RowsOf
    <3>2. Placed(row) \/ \E i \in 1..Len(work) : row \in RowsOf(work[i])
      BY <1>3 DEF FrontierInv, PlacedInv
    <3>3. QED
      BY <3>2, <2>2
  <2>9. QED
    BY <1>0, <2>4, <2>5, <2>6, <2>7, <2>8 DEF FrontierInv
<1>4. QED
  BY <1>2, <1>3 DEF Inserting

-----------------------------------------------------------------------------
(***************************************************************************)
(* The invariant is inductive.                                             *)
(***************************************************************************)
LEMMA InitInv == Init => FrontierInv
<1> SUFFICES ASSUME Init PROVE FrontierInv
  OBVIOUS
<1>1. /\ pc = "direct" /\ call = 1 /\ work = <<Whole(1)>> /\ attempt = 1
      /\ table = {} /\ limbo = {} /\ dlq = <<>> /\ faults = 0
      /\ splitFactor \in SplitFactors
  BY DEF Init
<1>2. 1 \in 1..MaxCalls /\ 1 \in 1..InsertAttempts /\ 0 \in 0..MaxFaults
  BY ClickhouseConstants
<1>3. /\ Len(work) = 1 /\ work[1] = Whole(1) /\ work \in Seq(Chunk) /\ work # <<>>
      /\ After(Whole(1)) = Rows + 1 /\ Whole(1).token # <<>>
      /\ Whole(1).token[1] = 1 /\ RowsOf(Whole(1)) = 1..Rows
  BY <1>1, <1>2, WholeFits
<1>4. Len(dlq) = 0 /\ dlq \in Seq(DlqItem)
  BY <1>1, EmptySeq
<1>5. TypeOK
  BY <1>1, <1>2, <1>3, <1>4 DEF TypeOK, DlqItem
<1>6. WorkInv
  BY <1>1, <1>3, ClickhouseConstants DEF WorkInv, Fits, Inserting
<1>7. SentInv /\ FrontInv /\ RowInv
  BY <1>1 DEF SentInv, FrontInv, RowInv, Sent
<1>8. DlqInv
  BY <1>4 DEF DlqInv, DlqHoldsBadRows
<1>9. PlacedInv
  <2>1. 1 \in 1..Len(work) /\ RowsOf(work[1]) = 1..Rows
    BY <1>3
  <2>2. QED
    BY <2>1 DEF PlacedInv
<1>10. QED
  BY <1>5, <1>6, <1>7, <1>8, <1>9 DEF FrontierInv

\* A placed row stays placed.
LEMMA StaysPlaced ==
    ASSUME TypeOK, table \subseteq table', call' = call,
           Len(dlq') \in Nat, Len(dlq) <= Len(dlq'),
           \A i \in 1..Len(dlq) : dlq'[i].call = dlq[i].call /\ dlq'[i].row = dlq[i].row
    PROVE  \A row : Placed(row) => Placed(row)'
<1>1. Len(dlq) \in Nat
  BY TypesOfDlq, DlqItems DEF DlqTypes
<1>2. QED
  BY <1>1 DEF Placed, OfCall

LEMMA LandLateKeeps ==
    ASSUME FrontierInv, LandLate
    PROVE  FrontierInv'
<1>1. PICK chunk \in limbo :
         /\ \E rows \in Written(chunk) : Store(chunk, rows)
         /\ limbo' = limbo \ {chunk}
         /\ UNCHANGED <<splitFactor, pc, call, work, attempt, dlq, faults>>
  BY DEF LandLate
<1>2. Takes(chunk) /\ chunk \in Chunk /\ Fits(chunk)
  BY <1>1, PartTakes DEF FrontierInv, TypeOK, SentInv, Sent
<1>3. /\ table' \subseteq [row : 1..Rows, chunk : Chunk] /\ RowInv'
      /\ \A x \in table' : x \in table \/ x.chunk = chunk
  BY <1>2, TakenRows
<1>4. Sent' \subseteq Sent
  BY <1>1, <1>3 DEF Sent
<1>5. TypeOK'
  BY <1>1, <1>3 DEF FrontierInv, TypeOK, Inserting
<1>6. WorkInv'
  BY <1>1 DEF FrontierInv, WorkInv, Inserting
<1>7. SentInv' /\ FrontInv'
  BY <1>1, <1>4 DEF FrontierInv, SentInv, FrontInv
<1>8. DlqInv'
  BY <1>1 DEF FrontierInv, DlqInv, DlqHoldsBadRows, Inserting
<1>9. PlacedInv'
  BY <1>1, <1>2 DEF FrontierInv, PlacedInv, Placed, OfCall, Takes
<1>10. QED
  BY <1>3, <1>5, <1>6, <1>7, <1>8, <1>9 DEF FrontierInv

LEMMA InsertOkKeeps ==
    ASSUME FrontierInv, InsertOk
    PROVE  FrontierInv'
<1>1. /\ Inserting /\ Proceed
      /\ UNCHANGED <<splitFactor, call, limbo, dlq, faults>>
  BY DEF InsertOk
<1>2. /\ Head(work) = work[1] /\ 1 \in 1..Len(work) /\ work[1] \in Chunk
      /\ ~Rejects(work[1]) /\ Store(work[1], RowsOf(work[1]))
      /\ work[1].token[1] = call
  BY <1>1, WorkChunks DEF InsertOk, FrontierInv, WorkInv
<1>3. Takes(work[1])
  BY <1>2, StoreTakes DEF Rejects
\* What the server has of its token is the chunk itself.
<1>4. ASSUME NEW x \in table, x.chunk.token = work[1].token
      PROVE  x.chunk = work[1]
  <2>1. x.chunk \in Sent /\ x.chunk \in Chunk /\ x.chunk.token[1] = call
    BY <1>2, <1>4 DEF Sent, FrontierInv, TypeOK
  <2>2. x.chunk = work[1] \/ Apart(x.chunk, work[1])
    BY <1>2, <2>1 DEF FrontierInv, FrontInv
  <2>3. QED
    BY <1>2, <1>4, <2>1, <2>2, ApartAreOther
<1>5. ASSUME NEW row \in RowsOf(work[1])
      PROVE  \E x \in table' : x.chunk = work[1] /\ x.row = row
  <2>1. CASE Known(work[1], row)
    <3>1. PICK x \in table : /\ x.chunk.token = work[1].token
                             /\ x.row + work[1].first = row + x.chunk.first
      BY <2>1 DEF Known
    <3>2. x.chunk = work[1] /\ x.row \in Nat
      BY <1>4, <3>1 DEF FrontierInv, TypeOK
    <3>3. x.row = row
      BY <1>2, <1>5, <3>1, <3>2, ChunkParts
    <3>4. QED
      BY <1>3, <3>2, <3>3 DEF Takes
  <2>2. CASE ~Known(work[1], row)
    <3>1. [row |-> row, chunk |-> work[1]] \in table'
      BY <1>2, <1>5, <2>2 DEF Store
    <3>2. QED
      BY <3>1
  <2>3. QED
    BY <2>1, <2>2
<1>6. DlqTypes' /\ Len(dlq) \in Nat
  BY <1>1, TypesOfDlq, DlqItems DEF FrontierInv, DlqTypes
<1>7. ASSUME NEW i \in 1..Len(dlq')
      PROVE  /\ dlq'[i].call <= call
             /\ dlq'[i].call = call => dlq'[i].row < After(work[1])
  <2>1. dlq[i].row \in Nat
    BY <1>1, <1>6, DlqItems DEF DlqTypes
  <2>2. QED
    BY <1>1, <1>2, <2>1, ChunkParts DEF FrontierInv, DlqInv
<1>8. ASSUME NEW row \in 1..Rows, Placed(row) \/ row \in RowsOf(work[1])
      PROVE  Placed(row)'
  <2>1. CASE Placed(row)
    BY <2>1, <1>1, <1>3, <1>6, StaysPlaced DEF FrontierInv, Takes
  <2>2. CASE row \in RowsOf(work[1])
    <3>1. row \notin Bad
      BY <2>2, <1>2 DEF Rejects
    <3>2. QED
      BY <2>2, <3>1, <1>1, <1>2, <1>5 DEF Placed, OfCall
  <2>3. QED
    BY <1>8, <2>1, <2>2
<1>9. DlqHoldsBadRows'
  BY <1>1 DEF FrontierInv, DlqInv, DlqHoldsBadRows
<1>10. QED
  BY <1>1, <1>3, <1>6, <1>7, <1>8, <1>9, ProceedKeeps

LEMMA InsertFailsKeeps ==
    ASSUME FrontierInv, InsertFails
    PROVE  FrontierInv'
<1>1. /\ Inserting /\ faults < MaxFaults /\ faults' = faults + 1
      /\ UNCHANGED <<splitFactor, call, dlq>>
  BY DEF InsertFails, Fault
<1>2. Head(work) = work[1] /\ 1 \in 1..Len(work) /\ work[1] \in Chunk
  BY <1>1, WorkChunks DEF FrontierInv
<1>3. Takes(work[1]) /\ limbo' \subseteq limbo \cup {work[1]}
  BY <1>2, PartTakes DEF InsertFails
<1>4. /\ SentInv' /\ RowInv'
      /\ table' \subseteq [row : 1..Rows, chunk : Chunk] /\ limbo' \subseteq Chunk
      /\ \A b \in Sent', i \in 1..Len(work) :
            b.token[1] = call => b = work[1] \/ Apart(b, work[i])
  BY <1>1, <1>3, HeadSent
<1>5. faults' \in 0..MaxFaults
  BY <1>1, ClickhouseConstants DEF FrontierInv, TypeOK
<1>6. CASE attempt < InsertAttempts
  <2>1. attempt' = attempt + 1 /\ UNCHANGED <<pc, work>>
    BY <1>6 DEF InsertFails
  <2>2. TypeOK'
    BY <1>1, <1>4, <1>5, <1>6, <2>1, ClickhouseConstants
       DEF FrontierInv, TypeOK, Inserting
  <2>3. WorkInv'
    BY <1>1, <2>1 DEF FrontierInv, WorkInv, Inserting
  <2>4. FrontInv'
    BY <1>1, <1>4, <2>1 DEF FrontInv
  <2>5. DlqInv'
    BY <1>1, <2>1 DEF FrontierInv, DlqInv, DlqHoldsBadRows, Inserting
  <2>6. PlacedInv'
    BY <1>1, <1>3, <2>1 DEF FrontierInv, PlacedInv, Placed, OfCall, Takes
  <2>7. QED
    BY <1>4, <2>2, <2>3, <2>4, <2>5, <2>6 DEF FrontierInv
<1>7. CASE ~(attempt < InsertAttempts)
  BY <1>1, <1>3, <1>5, <1>7, RaiseKeeps DEF InsertFails
<1>8. QED
  BY <1>6, <1>7

LEMMA DirectRejectedKeeps ==
    ASSUME FrontierInv, DirectRejected
    PROVE  FrontierInv'
<1>1. pc = "direct" /\ Inserting /\ UNCHANGED <<splitFactor, call, limbo, dlq>>
  BY DEF DirectRejected, Inserting
<1>2. Takes(work[1]) /\ faults' \in 0..MaxFaults
  BY <1>1, WorkChunks, RejectedTakes DEF DirectRejected, FrontierInv
<1>3. CASE HasDlq
  <2>1. pc' = "descend" /\ attempt' = 1 /\ work' = work
    BY <1>3 DEF DirectRejected
  <2>2. /\ SentInv' /\ RowInv'
        /\ table' \subseteq [row : 1..Rows, chunk : Chunk] /\ limbo' \subseteq Chunk
        /\ \A b \in Sent', i \in 1..Len(work) :
              b.token[1] = call => b = work[1] \/ Apart(b, work[i])
    BY <1>1, <1>2, HeadSent
  <2>3. TypeOK'
    BY <1>1, <1>2, <2>1, <2>2, ClickhouseConstants DEF FrontierInv, TypeOK, Inserting
  <2>4. WorkInv' /\ FrontInv'
    BY <1>1, <2>1, <2>2 DEF FrontierInv, WorkInv, FrontInv, Inserting
  <2>5. DlqInv'
    BY <1>1, <2>1 DEF FrontierInv, DlqInv, DlqHoldsBadRows, Inserting
  <2>6. PlacedInv'
    BY <1>1, <1>2, <2>1 DEF FrontierInv, PlacedInv, Placed, OfCall, Takes
  <2>7. QED
    BY <2>2, <2>3, <2>4, <2>5, <2>6 DEF FrontierInv
<1>4. CASE ~HasDlq
  BY <1>1, <1>2, <1>4, RaiseKeeps DEF DirectRejected
<1>5. QED
  BY <1>3, <1>4

\* The slices of the head in front of the rest of the list.
LEMMA SplitChunkKeeps ==
    ASSUME FrontierInv, SplitChunk
    PROVE  FrontierInv'
<1> DEFINE s == Slices(work[1])
           rest == Tail(work)
<1>1. /\ pc = "descend" /\ pc' = pc /\ splitFactor \in Nat \ {0} /\ attempt' = 1
      /\ UNCHANGED <<splitFactor, call, limbo, dlq>>
  BY ClickhouseConstants DEF SplitChunk, FrontierInv, TypeOK
<1>2. /\ Head(work) = work[1] /\ 1 \in 1..Len(work) /\ work[1] \in Chunk
      /\ work \in Seq(Chunk) /\ work # <<>>
      /\ \A i \in 1..Len(work) : work[i] \in Chunk
  BY <1>1, WorkChunks DEF FrontierInv, TypeOK, Inserting
<1>3. /\ Rejected(work[1]) /\ Rejects(work[1]) /\ work' = s \o rest
  BY <1>2 DEF SplitChunk, Rejected
<1>4. /\ Fits(work[1]) /\ work[1].token[1] = call
      /\ work[1].token # <<>> /\ work[1].token \in Seq(Nat)
  BY <1>2, ChunkParts DEF FrontierInv, WorkInv, Fits
<1>5. /\ s \in Seq(Chunk)
      /\ \A i \in 1..Len(s) :
            /\ work[1].first <= s[i].first
            /\ After(s[i]) <= After(work[1])
            /\ s[i].token = Append(work[1].token, i - 1)
      /\ \A i, j \in 1..Len(s) : i < j => After(s[i]) <= s[j].first
      /\ \A row \in RowsOf(work[1]) : \E i \in 1..Len(s) : row \in RowsOf(s[i])
  BY <1>1, <1>2, <1>4, SlicesOfChunk DEF Fits
<1>6. Len(s) \in Nat /\ \A i \in 1..Len(s) : s[i] \in Chunk
  BY <1>5, LenProperties, ElementOfSeq
<1>7. /\ rest \in Seq(Chunk) /\ Len(rest) \in Nat
      /\ \A i \in 1..Len(rest) : i + 1 \in 1..Len(work) /\ rest[i] = work[i + 1]
      /\ \A i \in 1..Len(work) :
            i = 1 \/ (i - 1 \in 1..Len(rest) /\ work[i] = rest[i - 1])
  BY <1>2, TailChunks, LenProperties
<1> HIDE DEF s, rest
\* The new list, place by place.
<1>8. /\ work' \in Seq(Chunk)
      /\ Len(work') = Len(s) + Len(rest)
      /\ \A i \in 1..Len(s) : i \in 1..Len(work') /\ work'[i] = s[i]
      /\ \A i \in 1..Len(rest) :
            Len(s) + i \in 1..Len(work') /\ work'[Len(s) + i] = rest[i]
      /\ \A i \in 1..Len(work') :
            i \in 1..Len(s) \/ (i - Len(s) \in 1..Len(rest) /\ i = Len(s) + (i - Len(s)))
  BY <1>3, <1>5, <1>6, <1>7, ConcatProperties
<1>9. ASSUME NEW i \in 1..Len(s)
      PROVE  /\ Fits(s[i]) /\ s[i].token \in Seq(Nat) /\ s[i].token[1] = call
             /\ i - 1 \in Nat
  <2>1. i - 1 \in Nat
    BY <1>6
  <2>2. /\ s[i].token \in Seq(Nat) /\ s[i].token # <<>> /\ s[i].token[1] = call
    BY <1>4, <1>5, <2>1, LongerToken
  <2>3. After(s[i]) <= Rows + 1
    <3>1. After(s[i]) \in Nat /\ After(work[1]) \in Nat /\ Rows \in Nat
      BY <1>2, <1>6, ChunkParts, ClickhouseConstants
    <3>2. After(s[i]) <= After(work[1]) /\ After(work[1]) <= Rows + 1
      BY <1>4, <1>5 DEF Fits
    <3>3. QED
      BY <3>1, <3>2
  <2>4. QED
    BY <2>1, <2>2, <2>3 DEF Fits
\* The slices are in front of what was behind the head.
<1>10. ASSUME NEW i \in 1..Len(s), NEW c \in Chunk, Before(work[1], c)
       PROVE  Before(s[i], c)
  <2>1. Incomparable(s[i].token, c.token)
    <3>1. s[i].token = Append(work[1].token, i - 1) /\ i - 1 \in Nat
      BY <1>5, <1>9
    <3>2. Incomparable(work[1].token, c.token) /\ c.token \in Seq(Nat)
      BY <1>10, ChunkParts DEF Before
    <3>3. QED
      BY <1>4, <3>1, <3>2, StaysIncomparable
  <2>2. After(s[i]) <= After(work[1]) /\ After(work[1]) <= c.first
    BY <1>5, <1>10 DEF Before
  <2>3. /\ After(s[i]) \in Nat /\ After(work[1]) \in Nat /\ c.first \in Nat
    BY <1>2, <1>6, ChunkParts
  <2>4. QED
    BY <2>1, <2>2, <2>3 DEF Before
<1>11. Len(s) # 0
  <2>1. work[1].first \in RowsOf(work[1])
    BY <1>2, ChunkParts
  <2>2. QED
    BY <1>5, <2>1
<1>12. /\ SentInv' /\ RowInv' /\ faults' \in 0..MaxFaults
       /\ table' \subseteq [row : 1..Rows, chunk : Chunk] /\ limbo' \subseteq Chunk
       /\ table \subseteq table'
       /\ \A b \in Sent', i \in 1..Len(work) :
             b.token[1] = call => b = work[1] \/ Apart(b, work[i])
  <2>1. Takes(work[1]) /\ faults' \in 0..MaxFaults
    BY <1>3, RejectedTakes DEF FrontierInv
  <2>2. Inserting /\ limbo' \subseteq limbo \cup {work[1]} /\ call' = call
    BY <1>1 DEF Inserting
  <2>3. table \subseteq table'
    BY <2>1 DEF Takes
  <2>4. QED
    BY <2>1, <2>2, <2>3, HeadSent
<1>13. TypeOK'
  <2>1. work' # <<>>
    BY <1>6, <1>7, <1>8, <1>11, EmptySeq
  <2>2. QED
    BY <1>1, <1>8, <1>12, <2>1, ClickhouseConstants DEF FrontierInv, TypeOK, Inserting
<1>14. WorkInv'
  <2>1. \A i \in 1..Len(work') : Fits(work'[i]) /\ work'[i].token[1] = call
    <3>1. \A i \in 1..Len(rest) : Fits(rest[i]) /\ rest[i].token[1] = call
      BY <1>7 DEF FrontierInv, WorkInv
    <3>2. SUFFICES ASSUME NEW i \in 1..Len(work')
                   PROVE  Fits(work'[i]) /\ work'[i].token[1] = call
      OBVIOUS
    <3>3. CASE i \in 1..Len(s)
      BY <1>8, <1>9, <3>3
    <3>4. CASE i \notin 1..Len(s)
      <4>1. PICK k \in 1..Len(rest) : work'[i] = rest[k]
        BY <1>8, <3>4
      <4>2. QED
        BY <3>1, <4>1
    <3>5. QED
      BY <3>3, <3>4
  <2>2. ASSUME NEW i \in 1..Len(work'), NEW j \in 1..Len(work'), i < j
        PROVE  Before(work'[i], work'[j])
    <3>1. CASE i \in 1..Len(s) /\ j \in 1..Len(s)
      <4>1. i - 1 \in Nat /\ j - 1 \in Nat /\ i - 1 # j - 1
        BY <1>6, <2>2, <3>1
      <4>2. Incomparable(s[i].token, s[j].token)
        BY <1>4, <1>5, <3>1, <4>1, SiblingsIncomparable
      <4>3. QED
        BY <1>5, <1>8, <2>2, <3>1, <4>2 DEF Before
    <3>2. CASE i \in 1..Len(s) /\ j \notin 1..Len(s)
      <4>1. PICK k \in 1..Len(rest) : work'[j] = rest[k]
        BY <1>8, <3>2
      <4>2. k + 1 \in 1..Len(work) /\ 1 < k + 1 /\ rest[k] = work[k + 1]
        BY <1>7
      <4>3. Before(work[1], work[k + 1]) /\ work[k + 1] \in Chunk
        BY <4>2, <1>2 DEF FrontierInv, WorkInv
      <4>4. QED
        BY <1>8, <1>10, <3>2, <4>1, <4>2, <4>3
    <3>3. CASE i \notin 1..Len(s)
      <4>1. /\ i - Len(s) \in 1..Len(rest) /\ work'[i] = rest[i - Len(s)]
            /\ j - Len(s) \in 1..Len(rest) /\ work'[j] = rest[j - Len(s)]
        <5>1. j \notin 1..Len(s)
          BY <1>6, <1>7, <1>8, <2>2, <3>3
        <5>2. QED
          BY <1>8, <3>3, <5>1
      <4>2. \A k, l \in 1..Len(rest) : k < l => Before(rest[k], rest[l])
        <5>1. \A k, l \in 1..Len(rest) :
                 k < l => k + 1 < l + 1 /\ rest[k] = work[k + 1] /\ rest[l] = work[l + 1]
          BY <1>7
        <5>2. QED
          BY <1>7, <5>1 DEF FrontierInv, WorkInv
      <4>3. i - Len(s) < j - Len(s)
        BY <1>6, <1>7, <1>8, <2>2
      <4>4. QED
        BY <4>1, <4>2, <4>3
    <3>4. QED
      BY <3>1, <3>2, <3>3
  <2>3. QED
    BY <1>1, <2>1, <2>2 DEF WorkInv, Inserting
<1>15. FrontInv'
  <2>1. SUFFICES ASSUME NEW b \in Sent', NEW i \in 1..Len(work'), b.token[1] = call
                 PROVE  Apart(b, work'[i])
    BY <1>1 DEF FrontInv
  <2>2. b \in Chunk
    BY <1>12 DEF Sent
  <2>3. \A k \in 1..Len(work) : b = work[1] \/ Apart(b, work[k])
    BY <1>12, <2>1
  <2>4. ASSUME NEW k \in 1..Len(rest)
        PROVE  Apart(b, rest[k])
    <3>1. k + 1 \in 1..Len(work) /\ 1 < k + 1 /\ rest[k] = work[k + 1]
      BY <1>7
    <3>2. Apart(work[1], work[k + 1])
      BY <1>2, <3>1 DEF FrontierInv, WorkInv, Apart
    <3>3. QED
      BY <2>3, <3>1, <3>2
  <2>5. ASSUME NEW k \in 1..Len(s)
        PROVE  Apart(b, s[k])
    <3>1. /\ s[k] \in Chunk /\ k - 1 \in Nat
          /\ s[k].token = Append(work[1].token, k - 1) /\ work[1].first <= s[k].first
      BY <1>5, <1>6, <1>9
    <3>2. /\ Apart(b, work[1]) => Apart(b, s[k])
          /\ Apart(work[1], s[k])
      BY <1>2, <1>3, <2>2, <3>1, ApartFromSlice
    <3>3. QED
      BY <1>2, <2>3, <3>2
  <2>6. QED
    BY <1>8, <2>4, <2>5
<1>16. DlqInv'
  <2>1. ASSUME NEW i \in 1..Len(dlq), dlq[i].call = call
        PROVE  dlq[i].row < work'[1].first
    <3>1. dlq[i].row < work[1].first
      BY <1>1, <2>1 DEF FrontierInv, DlqInv, Inserting
    <3>2. 1 \in 1..Len(s) /\ work'[1] = s[1] /\ work[1].first <= s[1].first
      BY <1>5, <1>6, <1>8, <1>11
    <3>3. dlq[i].row \in Nat
      BY TypesOfDlq, DlqItems DEF FrontierInv, DlqTypes
    <3>4. work[1].first \in Nat /\ s[1].first \in Nat
      BY <1>2, <1>6, <3>2, ChunkParts
    <3>5. QED
      BY <3>1, <3>2, <3>3, <3>4
  <2>2. QED
    BY <1>1, <2>1 DEF FrontierInv, DlqInv, DlqHoldsBadRows
<1>17. PlacedInv'
  <2>1. SUFFICES ASSUME NEW row \in 1..Rows
                 PROVE  Placed(row)' \/ \E i \in 1..Len(work') : row \in RowsOf(work'[i])
    BY DEF PlacedInv
  <2>2. Placed(row) => Placed(row)'
    BY <1>1, <1>12 DEF Placed, OfCall
  <2>3. Placed(row) \/ \E i \in 1..Len(work) : row \in RowsOf(work[i])
    BY <1>1 DEF FrontierInv, PlacedInv
  <2>4. ASSUME NEW i \in 1..Len(work), row \in RowsOf(work[i])
        PROVE  \E k \in 1..Len(work') : row \in RowsOf(work'[k])
    <3>1. CASE i = 1
      <4>1. PICK k \in 1..Len(s) : row \in RowsOf(s[k])
        BY <1>5, <2>4, <3>1
      <4>2. k \in 1..Len(work') /\ row \in RowsOf(work'[k])
        BY <1>8, <4>1
      <4>3. QED
        BY <4>2
    <3>2. CASE i # 1
      <4>1. i - 1 \in 1..Len(rest) /\ work[i] = rest[i - 1]
        BY <1>7, <3>2
      <4>2. /\ Len(s) + (i - 1) \in 1..Len(work')
            /\ row \in RowsOf(work'[Len(s) + (i - 1)])
        BY <1>8, <2>4, <4>1
      <4>3. QED
        BY <4>2
    <3>3. QED
      BY <3>1, <3>2
  <2>5. QED
    BY <2>2, <2>3, <2>4
<1>18. QED
  BY <1>12, <1>13, <1>14, <1>15, <1>16, <1>17 DEF FrontierInv

LEMMA ToDlqKeeps ==
    ASSUME FrontierInv, ToDlq
    PROVE  FrontierInv'
<1>1. /\ pc = "descend" /\ Inserting /\ Proceed
      /\ UNCHANGED <<splitFactor, call, table, limbo, faults>>
  BY DEF ToDlq, Inserting
<1>2. /\ Head(work) = work[1] /\ 1 \in 1..Len(work) /\ work[1] \in Chunk
  BY <1>1, WorkChunks DEF FrontierInv
<1> DEFINE new == [call |-> call, row |-> work[1].first, fate |-> "out"]
<1>3. /\ Rejects(work[1]) /\ work[1].len = 1 /\ dlq' = Append(dlq, new)
  BY <1>2 DEF ToDlq, HandToDlq
<1>4. /\ work[1].first \in 1..Rows /\ work[1].first \in Nat
      /\ After(work[1]) = work[1].first + 1
      /\ work[1].first \in Bad /\ RowsOf(work[1]) = {work[1].first}
  <2>1. work[1].first \in 1..Rows /\ work[1].first \in Nat
    BY <1>2, ClickhouseConstants DEF Chunk
  <2>2. After(work[1]) = work[1].first + 1 /\ RowsOf(work[1]) = {work[1].first}
    BY <1>3, <2>1 DEF After, RowsOf
  <2>3. QED
    BY <1>3, <2>1, <2>2 DEF Rejects
<1>5. new \in DlqItem /\ call \in Nat
  BY <1>4, ClickhouseConstants DEF FrontierInv, TypeOK, DlqItem
<1>6. /\ dlq \in Seq(DlqItem) /\ Len(dlq) \in Nat
      /\ \A i \in 1..Len(dlq) : dlq[i].call \in Nat /\ dlq[i].row \in Nat
  BY TypesOfDlq, DlqItems DEF FrontierInv, DlqTypes
<1> HIDE DEF new
<1>7. /\ dlq' \in Seq(DlqItem) /\ Len(dlq') = Len(dlq) + 1
      /\ \A i \in 1..Len(dlq) : i \in 1..Len(dlq') /\ dlq'[i] = dlq[i]
      /\ dlq'[Len(dlq) + 1] = new /\ Len(dlq) + 1 \in 1..Len(dlq')
      /\ \A i \in 1..Len(dlq') : i \in 1..Len(dlq) \/ i = Len(dlq) + 1
  BY <1>3, <1>5, <1>6, AppendProperties
<1>8. new.call = call /\ new.row = work[1].first
  BY DEF new
<1>9. \A i \in 1..Len(dlq) :
         /\ dlq[i].call <= call
         /\ dlq[i].call = call => dlq[i].row < work[1].first
  BY <1>1 DEF FrontierInv, DlqInv
<1>10. Takes(work[1]) /\ limbo' \subseteq limbo \cup {work[1]}
  BY <1>1 DEF Takes
<1>11. DlqHoldsBadRows'
  <2>1. \A i \in 1..Len(dlq') : dlq'[i].row \in Bad
    BY <1>4, <1>7, <1>8 DEF FrontierInv, DlqInv, DlqHoldsBadRows
  <2>2. \A i \in 1..Len(dlq) : ~(dlq[i].call = new.call /\ dlq[i].row = new.row)
    BY <1>4, <1>6, <1>8, <1>9
  <2>3. \A i, j \in 1..Len(dlq) :
           dlq[i].call = dlq[j].call /\ dlq[i].row = dlq[j].row => i = j
    BY DEF FrontierInv, DlqInv, DlqHoldsBadRows
  <2>4. ASSUME NEW i \in 1..Len(dlq'), NEW j \in 1..Len(dlq'),
               dlq'[i].call = dlq'[j].call, dlq'[i].row = dlq'[j].row
        PROVE  i = j
    BY <1>7, <2>2, <2>3, <2>4
  <2>5. QED
    BY <2>1, <2>4 DEF DlqHoldsBadRows
<1>12. ASSUME NEW i \in 1..Len(dlq')
       PROVE  /\ dlq'[i].call <= call
              /\ dlq'[i].call = call => dlq'[i].row < After(work[1])
  <2>1. CASE i \in 1..Len(dlq)
    BY <2>1, <1>4, <1>6, <1>7, <1>9
  <2>2. CASE i = Len(dlq) + 1
    BY <2>2, <1>4, <1>5, <1>7, <1>8
  <2>3. QED
    BY <2>1, <2>2, <1>7
<1>13. ASSUME NEW row \in 1..Rows, Placed(row) \/ row \in RowsOf(work[1])
       PROVE  Placed(row)'
  <2>1. CASE Placed(row)
    <3>1. Len(dlq') \in Nat /\ Len(dlq) <= Len(dlq')
      BY <1>6, <1>7
    <3>2. QED
      BY <2>1, <3>1, <1>1, <1>7, StaysPlaced DEF FrontierInv
  <2>2. CASE row \in RowsOf(work[1])
    BY <2>2, <1>1, <1>4, <1>7, <1>8 DEF Placed
  <2>3. QED
    BY <1>13, <2>1, <2>2
<1>14. DlqTypes'
  BY <1>7 DEF DlqTypes
<1>15. QED
  BY <1>1, <1>10, <1>11, <1>12, <1>13, <1>14, ProceedKeeps

\* A report changes a row's fate and nothing else of it.
LEMMA ReportDlqKeeps ==
    ASSUME FrontierInv, ReportDlq
    PROVE  FrontierInv'
<1>1. PICK k \in 1..Len(dlq), f \in {"there", "lost"} :
         /\ dlq' = [dlq EXCEPT ![k].fate = f]
         /\ faults' = faults \/ Fault
         /\ UNCHANGED <<splitFactor, pc, call, work, attempt, table, limbo>>
  BY DEF ReportDlq
<1>2. dlq \in Seq(DlqItem) /\ Len(dlq) \in Nat /\ dlq[k] \in DlqItem
  BY TypesOfDlq, DlqItems DEF FrontierInv, DlqTypes
<1> DEFINE new == [dlq[k] EXCEPT !.fate = f]
<1>3. /\ new \in DlqItem /\ new.call = dlq[k].call /\ new.row = dlq[k].row
      /\ new.fate = f
  BY <1>2 DEF DlqItem
<1>4. dlq' = [dlq EXCEPT ![k] = new]
  BY <1>1
<1> HIDE DEF new
<1>5. /\ dlq' \in Seq(DlqItem) /\ Len(dlq') = Len(dlq)
      /\ \A i \in 1..Len(dlq) : dlq'[i] = IF i = k THEN new ELSE dlq[i]
  BY <1>2, <1>3, <1>4, ExceptSeq
<1>6. \A i \in 1..Len(dlq) :
         /\ dlq'[i].call = dlq[i].call /\ dlq'[i].row = dlq[i].row
         /\ dlq'[i].fate = "out" => dlq[i].fate = "out"
  <2>1. SUFFICES ASSUME NEW i \in 1..Len(dlq)
                 PROVE  /\ dlq'[i].call = dlq[i].call /\ dlq'[i].row = dlq[i].row
                        /\ dlq'[i].fate = "out" => dlq[i].fate = "out"
    OBVIOUS
  <2>2. CASE i = k
    BY <1>3, <1>5, <2>2
  <2>3. CASE i # k
    BY <1>5, <2>3
  <2>4. QED
    BY <2>2, <2>3
<1>7. faults' \in 0..MaxFaults
  <2>1. faults \in 0..MaxFaults /\ MaxFaults \in Nat
    BY ClickhouseConstants DEF FrontierInv, TypeOK
  <2>2. faults' = faults \/ (faults < MaxFaults /\ faults' = faults + 1)
    BY <1>1 DEF Fault
  <2>3. QED
    BY <2>1, <2>2
<1>8. TypeOK'
  BY <1>1, <1>5, <1>7 DEF FrontierInv, TypeOK, Inserting, DlqItem
<1>9. WorkInv' /\ SentInv' /\ FrontInv' /\ RowInv'
  BY <1>1 DEF FrontierInv, WorkInv, SentInv, FrontInv, RowInv, Sent, Inserting
<1>10. DlqInv'
  BY <1>1, <1>5, <1>6 DEF FrontierInv, DlqInv, DlqHoldsBadRows, Inserting
<1>11. PlacedInv'
  BY <1>1, <1>2, <1>5, <1>6, StaysPlaced DEF FrontierInv, PlacedInv
<1>12. QED
  BY <1>8, <1>9, <1>10, <1>11 DEF FrontierInv

LEMMA FlushDlqKeeps ==
    ASSUME FrontierInv, FlushDlq
    PROVE  FrontierInv'
<1>1. /\ pc = "flush" /\ pc' = "returned" /\ work' = <<>> /\ attempt' = 1
      /\ \A i \in 1..Len(dlq) : dlq[i].fate # "out"
      /\ UNCHANGED <<splitFactor, call, table, limbo, dlq, faults>>
  BY DEF FlushDlq, Ends
<1>2. work = <<>> /\ Len(work') = 0
  BY <1>1, EmptySeq DEF FrontierInv, WorkInv, Inserting
<1>3. TypeOK'
  BY <1>1, ClickhouseConstants, EmptySeq DEF FrontierInv, TypeOK, Inserting
<1>4. WorkInv' /\ SentInv' /\ FrontInv' /\ RowInv'
  BY <1>1, <1>2 DEF FrontierInv, WorkInv, SentInv, FrontInv, RowInv, Sent
<1>5. DlqInv'
  BY <1>1 DEF FrontierInv, DlqInv, DlqHoldsBadRows, Inserting
<1>6. PlacedInv'
  BY <1>1, <1>2 DEF FrontierInv, PlacedInv, Placed, OfCall
<1>7. QED
  BY <1>3, <1>4, <1>5, <1>6 DEF FrontierInv

\* The next call's token is nobody's yet.
LEMMA CallAgainKeeps ==
    ASSUME FrontierInv, CallAgain
    PROVE  FrontierInv'
<1>1. /\ call < MaxCalls /\ call' = call + 1 /\ work' = <<Whole(call')>>
      /\ attempt' = 1 /\ pc' = "direct"
      /\ UNCHANGED <<splitFactor, table, limbo, dlq, faults>>
  BY DEF CallAgain
<1>2. call \in Nat \ {0} /\ call' \in 1..MaxCalls /\ call \in 1..MaxCalls
  BY <1>1, ClickhouseConstants DEF FrontierInv, TypeOK
<1>3. /\ Len(work') = 1 /\ work'[1] = Whole(call') /\ work' \in Seq(Chunk)
      /\ work' # <<>>
      /\ After(Whole(call')) = Rows + 1 /\ Whole(call').token # <<>>
      /\ Whole(call').token[1] = call' /\ RowsOf(Whole(call')) = 1..Rows
  BY <1>1, <1>2, WholeFits
<1>4. TypeOK'
  BY <1>1, <1>2, <1>3, ClickhouseConstants DEF FrontierInv, TypeOK
<1>5. WorkInv'
  BY <1>1, <1>3, ClickhouseConstants DEF WorkInv, Fits, Inserting
<1>6. \A b \in Sent' : b \in Sent /\ b.token[1] \in 1..call
  BY <1>1 DEF FrontierInv, SentInv, Sent
<1>7. SentInv' /\ RowInv'
  BY <1>1, <1>2, <1>6 DEF FrontierInv, SentInv, RowInv
<1>8. FrontInv'
  BY <1>1, <1>2, <1>6 DEF FrontInv
<1>9. DlqInv'
  <2>1. \A i \in 1..Len(dlq) : dlq[i].call \in Nat /\ dlq[i].call <= call
    BY TypesOfDlq, DlqItems DEF FrontierInv, DlqInv, DlqTypes
  <2>2. \A i \in 1..Len(dlq) : dlq[i].call <= call' /\ dlq[i].call # call'
    BY <1>1, <1>2, <2>1
  <2>3. QED
    BY <1>1, <2>2 DEF FrontierInv, DlqInv, DlqHoldsBadRows
<1>10. PlacedInv'
  <2>1. 1 \in 1..Len(work') /\ \A row \in 1..Rows : row \in RowsOf(work'[1])
    BY <1>3
  <2>2. QED
    BY <2>1 DEF PlacedInv
<1>11. QED
  BY <1>4, <1>5, <1>7, <1>8, <1>9, <1>10 DEF FrontierInv

LEMMA StepInv == FrontierInv /\ [Next]_vars => FrontierInv'
<1> SUFFICES ASSUME FrontierInv, [Next]_vars PROVE FrontierInv'
  OBVIOUS
<1>1. CASE InsertOk
  BY <1>1, InsertOkKeeps
<1>2. CASE DirectRejected
  BY <1>2, DirectRejectedKeeps
<1>3. CASE SplitChunk
  BY <1>3, SplitChunkKeeps
<1>4. CASE SplitFails
  <2>1. Inserting /\ UNCHANGED <<splitFactor, call, limbo, dlq>> /\ Ends("raised")
    BY <1>4 DEF SplitFails, Inserting
  <2>2. Takes(work[1]) /\ faults' \in 0..MaxFaults
    BY <1>4, <2>1, WorkChunks, RejectedTakes DEF SplitFails, FrontierInv
  <2>3. QED
    BY <2>1, <2>2, RaiseKeeps
<1>5. CASE ToDlq
  BY <1>5, ToDlqKeeps
<1>6. CASE FlushDlq
  BY <1>6, FlushDlqKeeps
<1>7. CASE CallAgain
  BY <1>7, CallAgainKeeps
<1>8. CASE ReportDlq
  BY <1>8, ReportDlqKeeps
<1>9. CASE LandLate
  BY <1>9, LandLateKeeps
<1>10. CASE InsertFails
  BY <1>10, InsertFailsKeeps
<1>11. CASE DlqFails
  <2>1. faults' \in 0..MaxFaults
    BY <1>11, ClickhouseConstants DEF DlqFails, Fault, FrontierInv, TypeOK
  <2>2. QED
    BY <1>11, <2>1, RaiseKeeps DEF DlqFails, Takes, Inserting
<1>12. CASE UNCHANGED vars
  BY <1>12
     DEF vars, FrontierInv, TypeOK, WorkInv, SentInv, FrontInv, RowInv, DlqInv,
         PlacedInv, DlqHoldsBadRows, Placed, OfCall, Sent, Inserting
<1>13. QED
  BY <1>1, <1>2, <1>3, <1>4, <1>5, <1>6, <1>7, <1>8, <1>9, <1>10, <1>11, <1>12
     DEF Next, Producer

LEMMA AlwaysInv == Spec => []FrontierInv
BY InitInv, StepInv, PTL DEF Spec

-----------------------------------------------------------------------------
(***************************************************************************)
(* The theorems.                                                           *)
(***************************************************************************)

\* A retry, a resend, a split, a late landing or a dropped duplicate does not put
\* a row into the table twice within one call; what does is a chunk the server
\* rejects with some of its rows written, and the chunk split from it that holds
\* them (produce_arrow, _insert_with_dlq_fallback).
THEOREM RowsLandOnceUnlessSplit == Spec => []OnceUnlessSplit
<1>1. FrontierInv => OnceUnlessSplit
  <2>1. SUFFICES ASSUME FrontierInv, NEW x \in table, NEW y \in table,
                        x # y, x.row = y.row, x.chunk.token[1] = y.chunk.token[1]
                 PROVE  SplitFrom(x.chunk, y.chunk) \/ SplitFrom(y.chunk, x.chunk)
    BY DEF OnceUnlessSplit
  <2>2. /\ x.chunk \in Sent /\ x.chunk \in Chunk
        /\ y.chunk \in Sent /\ y.chunk \in Chunk
    BY <2>1 DEF FrontierInv, TypeOK, Sent
  <2>3. x.chunk # y.chunk
    BY <2>1 DEF FrontierInv, TypeOK
  <2>4. x.row \in RowsOf(x.chunk) \cap RowsOf(y.chunk)
    BY <2>1 DEF FrontierInv, RowInv
  <2>5. Apart(x.chunk, y.chunk) \/ Apart(y.chunk, x.chunk)
    BY <2>1, <2>2, <2>3 DEF FrontierInv, SentInv
  <2>6. QED
    BY <2>2, <2>4, <2>5, ApartAreOther
<1>2. QED
  BY AlwaysInv, <1>1, PTL

\* The DLQ gets only rows the server rejects, each once per call
\* (_insert_with_dlq_fallback).
THEOREM DlqGetsBadRows == Spec => []DlqHoldsBadRows
<1>1. FrontierInv => DlqHoldsBadRows
  BY DEF FrontierInv, DlqInv
<1>2. QED
  BY AlwaysInv, <1>1, PTL

\* A call that returns has put every row in the table or, reported, in the DLQ,
\* for any batch, any bad rows and any split_factor (produce_arrow).
THEOREM ReturnsPlaced == Spec => []ReturnedMeansPlaced
<1>1. FrontierInv => ReturnedMeansPlaced
  <2> SUFFICES ASSUME FrontierInv, pc = "returned" PROVE ReturnedMeansPlaced
    BY DEF ReturnedMeansPlaced
  <2>1. \A row \in 1..Rows : Placed(row)
    <3>1. Len(work) = 0
      BY EmptySeq DEF FrontierInv, WorkInv, Inserting
    <3>2. QED
      BY <3>1 DEF FrontierInv, PlacedInv
  <2>2. {x.row : x \in {y \in table : OfCall(y, call)}} = (1..Rows) \ Bad
    <3>1. \A x \in table : x.row \in (1..Rows) \ Bad
      BY DEF FrontierInv, TypeOK, RowInv
    <3>2. \A row \in (1..Rows) \ Bad : \E x \in table : OfCall(x, call) /\ x.row = row
      BY <2>1 DEF Placed
    <3>3. QED
      BY <3>1, <3>2
  <2>3. DlqRows(call, {"there", "lost"}) = Bad
    <3>1. /\ Len(dlq) \in Nat
          /\ \A i \in 1..Len(dlq) : dlq[i].fate \in {"out", "there", "lost"}
      BY TypesOfDlq, DlqItems DEF FrontierInv, DlqTypes, DlqItem
    <3>2. \A i \in 1..Len(dlq) :
             /\ dlq[i].row \in Bad
             /\ dlq[i].call = call => dlq[i].fate \in {"there", "lost"}
      BY <3>1 DEF FrontierInv, DlqInv, DlqHoldsBadRows
    <3>3. \A row \in Bad : \E i \in 1..Len(dlq) : dlq[i].call = call /\ dlq[i].row = row
      BY <2>1, ClickhouseConstants DEF Placed
    <3>4. QED
      BY <3>2, <3>3 DEF DlqRows
  <2>4. QED
    BY <2>2, <2>3 DEF ReturnedMeansPlaced
<1>2. QED
  BY AlwaysInv, <1>1, PTL

\* Every variable keeps its type; a slice of an uneven split is a chunk of the
\* batch (_table_slices).
THEOREM ProducerTypes == Spec => []TypeOK
<1>1. FrontierInv => TypeOK
  BY DEF FrontierInv
<1>2. QED
  BY AlwaysInv, <1>1, PTL

=============================================================================
