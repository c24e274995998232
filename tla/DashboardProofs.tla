----------------------------- MODULE DashboardProofs -----------------------------
(***************************************************************************)
(* Proofs about the dashboard's requests (Dashboard), for any number of    *)
(* directories, files, fragments and partitions, any topic, and any        *)
(* changes around a request:                                               *)
(*                                                                         *)
(*   - a graph that is served is one of what its files have held           *)
(*     (ServedFromHeldFiles);                                              *)
(*   - a lag that is served hides no message (LagIsNeverUnderstated);      *)
(*   - a request that nothing happens to is answered exactly               *)
(*     (QuietIsExact).                                                     *)
(***************************************************************************)
EXTENDS Dashboard, FiniteSetTheorems, TLAPS

-----------------------------------------------------------------------------
(***************************************************************************)
(* The graph.  What is merged so far is the union of what was found in the *)
(* files read so far, each of which held that at some moment of the load;  *)
(* a file that was not listed was not there when the directory was.        *)
(***************************************************************************)

\* What the files hold now has been seen, while a load is under way.
SeenInv ==
    /\ seen \in [Places -> [Names -> SUBSET (Fragment \cup {Absent, Broken})]]
    /\ loading \notin {"no", "done"} =>
         \A r \in Places, f \in Names : disk[r][f] \in seen[r][f]

ReadIn(version) == {version[f] : f \in Names} \ {Absent}

\* The graph so far is that of these versions of the files.
Merged(version) ==
    /\ nodes = UNION {Definitions(x) : x \in ReadIn(version)}
    /\ ToSet(edges) = UNION {ToSet(x.edges) : x \in ReadIn(version)}

\* Of a file still to be read, nothing; of the others, what has been seen.
VersionOf(version) ==
    /\ version \in [Names -> Fragment \cup {Absent}]
    /\ \A f \in paths : version[f] = Absent
    /\ \A f \in Names \ paths : version[f] \in seen[found][f]

GraphInv ==
    /\ edges \in Seq(ToSet(edges))
    /\ loading \in {"scan", "list"} => nodes = {} /\ edges = <<>>
    /\ loading \in {"list", "read"} => found \in Places
    /\ loading \in {"scan", "list", "read"} => status = 200
    /\ loading = "read" \/ (loading = "done" /\ status = 200) =>
         /\ found \in Places
         /\ Functional(nodes)
         /\ \E version : VersionOf(version) /\ Merged(version)
    /\ loading = "done" /\ status = 200 => paths = {} /\ Sound

-----------------------------------------------------------------------------
(***************************************************************************)
(* The lookups.  A message keeps its partition and its offset, low         *)
(* watermarks only rise, and each partition is counted once.               *)
(***************************************************************************)

\* Which endpoint is looking, and that it does so after its graph is there.
StageInv ==
    /\ \A p \in Partition : low[p] <= High(p)
    /\ looking # "no" =>
         loading = "done" /\ request # None /\ request.endpoint # "graph"
    /\ looking \in {"committed", "lag"} => request.endpoint = "lag"
    /\ looking = "config" => request.endpoint = "topic-stats"
    /\ looking \in {"tails", "poll"} => request.endpoint = "snapshot"
    /\ looking \in {"no", "metadata"} => total = 0 /\ want = 0 /\ messages = {}
    /\ looking = "committed" => total = 0
    /\ looking = "tails" => messages = {}
    /\ looking \in {"metadata", "committed"} => ask = Partition
    /\ looking = "poll" => ask = {}
    /\ looking = "done" /\ status = 200 /\ request.endpoint # "topic-stats" => ask = {}

\* A lag lookup that has its offsets.
Counting == looking \in {"lag", "done"} /\ status = 200 /\ request.endpoint = "lag"

\* What was unread when the offsets were fetched, is still there, and whose
\* partition has been counted.
Hidden == {i \in behind : log[i] \notin ask /\ OffsetOf(i) >= low[log[i]]}

LagInv ==
    Counting =>
        /\ \A i \in behind : current[log[i]] # None => OffsetOf(i) >= current[log[i]]
        /\ total >= Cardinality(Hidden)

ServedInv == TypeOK /\ SeenInv /\ GraphInv /\ StageInv /\ LagInv

-----------------------------------------------------------------------------
(***************************************************************************)
(* Requests that nothing happens to.                                       *)
(***************************************************************************)

\* The fragments, each of which can be merged into some graph.
Readable(r) ==
    /\ Fragments(r) # {}
    /\ Broken \notin Fragments(r)
    /\ \A x \in Fragments(r) : ~Invalid(x) /\ \A n \in x.node : n.id # None

\* A dataflow as the code has it: a single node keeps its "id".
AllDefinitions(r) == UNION {Definitions(x) : x \in Fragments(r)}

Accepted(r) ==
    /\ Readable(r)
    /\ Functional(AllDefinitions(r))
    /\ \A x \in AllDefinitions(r) : x[2].schema # "unknown"
    /\ \A e \in AllEdges(r) : ToSet(e) \subseteq {x[1] : x \in AllDefinitions(r)}

\* The graph's part of QuietIsExact.
GraphIsExact ==
    /\ status = 404 => Candidates = {} \/ request.endpoint # "graph"
    /\ Candidates = {} => status = 404
    /\ Cardinality(Candidates) > 1 => status = 500
    /\ \A r \in Candidates : Cardinality(Candidates) = 1 =>
        /\ status = 200 => Accepted(r)
        /\ Readable(r) /\ ~Accepted(r) => status = 422
        /\ Accepted(r) =>
            /\ nodes = AllDefinitions(r)
            /\ ToSet(edges) = AllEdges(r)
            /\ request.endpoint = "graph" => status = 200

\* A file that breaks no dataflow.
Fits(x) == x \in Fragment /\ ~Invalid(x) /\ \A n \in x.node : n.id # None

QuietLoad ==
    quiet /\ request # None =>
        /\ loading # "no"
        /\ \A r \in Places, f \in Names : seen[r][f] = {disk[r][f]}
        /\ loading = "scan" =>
             /\ found \in Candidates \cup {None}
             /\ \A r \in Candidates : r = found \/ r \in ToSet(toScan)
        /\ loading \in {"list", "read"} => Candidates = {found}
        /\ loading = "read" =>
             /\ paths \subseteq Present(found)
             /\ Present(found) # {}
             /\ \A f \in Present(found) \ paths : Fits(disk[found][f])
        /\ loading = "done" => GraphIsExact

\* The messages at the tails of the partitions.
Tails == {i \in DOMAIN log : OffsetOf(i) >= TailOf(log[i])}

QuietLook ==
    quiet /\ request # None =>
        /\ Counting =>
             /\ current = committed
             /\ total = Cardinality({i \in Unread : log[i] \notin ask})
        /\ looking = "tails" =>
             /\ want = Cardinality({i \in Tails : log[i] \notin ask})
             /\ \A p \in Partition \ ask : next[p] = TailOf(p)
        /\ looking = "poll" =>
             /\ want = Cardinality(Tails)
             /\ \A p \in Partition : TailOf(p) <= next[p]
             /\ messages = {i \in Tails : OffsetOf(i) < next[log[i]]}
        /\ looking = "done" /\ status = 200 /\ request.endpoint = "snapshot" =>
             messages = Tails

QuietInv == ServedInv /\ QuietLoad /\ QuietLook

-----------------------------------------------------------------------------
(***************************************************************************)
(* Counting messages.                                                      *)
(***************************************************************************)
LEMMA MessagesFinite ==
    ASSUME log \in Seq(Partition)
    PROVE  \A S \in SUBSET DOMAIN log : IsFiniteSet(S) /\ Cardinality(S) \in Nat
<1>1. DOMAIN log = 1 .. Len(log) /\ Len(log) \in Nat
  OBVIOUS
<1>2. IsFiniteSet(DOMAIN log)
  BY <1>1, FS_Interval
<1>3. QED
  BY <1>2, FS_Subset, FS_CardinalityType

\* A part of a set of messages is not larger, and if it is as large, it is all.
LEMMA PartIsSmaller ==
    ASSUME log \in Seq(Partition), NEW S \in SUBSET DOMAIN log, NEW T \in SUBSET S
    PROVE  /\ Cardinality(T) <= Cardinality(S)
           /\ Cardinality(T) >= Cardinality(S) => T = S
           /\ Cardinality(T) \in Nat /\ Cardinality(S) \in Nat
<1>1. IsFiniteSet(S) /\ Cardinality(S) \in Nat /\ Cardinality(T) \in Nat
  BY MessagesFinite
<1>2. Cardinality(T) <= Cardinality(S) /\ (Cardinality(S) = Cardinality(T) => S = T)
  BY <1>1, FS_Subset
<1>3. QED
  BY <1>1, <1>2

\* Two sets of messages that share none: the sizes add up.
LEMMA DisjointSizes ==
    ASSUME log \in Seq(Partition),
           NEW S \in SUBSET DOMAIN log, NEW T \in SUBSET DOMAIN log, S \cap T = {}
    PROVE  Cardinality(S \cup T) = Cardinality(S) + Cardinality(T)
<1>1. /\ IsFiniteSet(S) /\ Cardinality(S) \in Nat
      /\ IsFiniteSet(T) /\ Cardinality(T) \in Nat
  BY MessagesFinite
<1>2. Cardinality(S \cup T) = Cardinality(S) + Cardinality(T) - Cardinality(S \cap T)
  BY <1>1, FS_Union
<1>3. Cardinality(S \cap T) = 0
  BY FS_EmptySet
<1>4. QED
  BY <1>1, <1>2, <1>3

LEMMA SameSize ==
    ASSUME NEW S, NEW T, IsFiniteSet(S), NEW f \in Bijection(S, T)
    PROVE  Cardinality(S) = Cardinality(T)
BY FS_Bijection DEF ExistsBijection

\* The offsets of a partition are below its high watermark and rise along the log.
LEMMA OffsetsRise ==
    ASSUME log \in Seq(Partition), NEW p \in Partition
    PROVE  /\ High(p) \in Nat
           /\ \A i \in Of(p) : OffsetOf(i) \in 0 .. High(p) - 1
           /\ \A i, j \in Of(p) : i < j => OffsetOf(i) < OffsetOf(j)
<1> DEFINE Before(i) == {j \in Of(p) : j < i}
<1>1. Of(p) \in SUBSET DOMAIN log /\ DOMAIN log \subseteq Nat
  BY DEF Of
<1>2. \A i \in Of(p) : OffsetOf(i) = Cardinality(Before(i))
  BY DEF Of, OffsetOf
<1>3. High(p) \in Nat
  BY <1>1, MessagesFinite DEF High
<1>4. ASSUME NEW i \in Of(p) PROVE OffsetOf(i) \in 0 .. High(p) - 1
  <2>1. Before(i) \in SUBSET Of(p) /\ Before(i) # Of(p)
    BY <1>1
  <2>2. /\ Cardinality(Before(i)) <= High(p) /\ Cardinality(Before(i)) \in Nat
        /\ ~(Cardinality(Before(i)) >= High(p))
    BY <1>1, <2>1, PartIsSmaller DEF High
  <2>3. QED
    BY <1>2, <1>3, <2>2
<1>5. ASSUME NEW i \in Of(p), NEW j \in Of(p), i < j
      PROVE  OffsetOf(i) < OffsetOf(j)
  <2>1. Before(i) \in SUBSET Before(j) /\ i \in Before(j) \ Before(i)
    BY <1>1, <1>5
  <2>2. Before(j) \in SUBSET DOMAIN log
    BY <1>1
  <2>3. /\ Cardinality(Before(i)) <= Cardinality(Before(j))
        /\ ~(Cardinality(Before(i)) >= Cardinality(Before(j)))
        /\ Cardinality(Before(i)) \in Nat /\ Cardinality(Before(j)) \in Nat
    BY <2>1, <2>2, PartIsSmaller
  <2>4. QED
    BY <1>2, <2>3
<1>6. QED
  BY <1>3, <1>4, <1>5

\* A partition holds one message of each offset: from offset o on there are as
\* many as there are offsets.
LEMMA TailCount ==
    ASSUME log \in Seq(Partition), NEW p \in Partition, NEW o \in Nat
    PROVE  Cardinality({i \in Of(p) : OffsetOf(i) >= o}) =
               IF High(p) > o THEN High(p) - o ELSE 0
<1> DEFINE n == High(p)
           offset == [i \in Of(p) |-> OffsetOf(i)]
           T == {i \in Of(p) : OffsetOf(i) >= o}
           tail == [i \in T |-> OffsetOf(i)]
<1>1. n \in Nat /\ Of(p) \in SUBSET DOMAIN log /\ DOMAIN log \subseteq Nat
  BY OffsetsRise DEF Of
<1>2. \A i, j \in Of(p) : OffsetOf(i) = OffsetOf(j) => i = j
  BY <1>1, OffsetsRise
<1>3. offset \in Injection(Of(p), 0 .. n - 1)
  <2>1. offset \in [Of(p) -> 0 .. n - 1]
    BY OffsetsRise
  <2>2. \A i, j \in Of(p) : offset[i] = offset[j] => i = j
    BY <1>2
  <2>3. QED
    BY <2>1, <2>2 DEF Injection, IsInjective
<1>4. IsFiniteSet(0 .. n - 1) /\ Cardinality(0 .. n - 1) = n
  <2> HIDE DEF n
  <2>1. 0 \in Int /\ n - 1 \in Int
    BY <1>1
  <2>2. /\ IsFiniteSet(0 .. n - 1)
        /\ Cardinality(0 .. n - 1) = IF 0 > n - 1 THEN 0 ELSE n - 1 - 0 + 1
    BY <2>1, FS_Interval
  <2>3. QED
    BY <1>1, <2>2
<1>5. offset \in Surjection(Of(p), 0 .. n - 1)
  BY <1>3, <1>4, FS_Injection DEF High
<1>6. tail \in Bijection(T, o .. n - 1)
  <2>1. tail \in [T -> o .. n - 1]
    BY <1>1, OffsetsRise
  <2>2. ASSUME NEW k \in o .. n - 1 PROVE \E i \in T : tail[i] = k
    <3>1. k \in 0 .. n - 1 /\ k >= o
      BY <1>1
    <3>2. PICK i \in Of(p) : offset[i] = k
      BY <1>5, <3>1 DEF Surjection
    <3>3. OffsetOf(i) = k
      BY <3>2
    <3>4. i \in T /\ tail[i] = k
      BY <3>1, <3>3
    <3>5. QED
      BY <3>4
  <2>3. \A i, j \in T : tail[i] = tail[j] => i = j
    BY <1>2
  <2>4. QED
    BY <2>1, <2>2, <2>3 DEF Bijection, Injection, Surjection, IsInjective
<1>7. IsFiniteSet(T)
  BY <1>1, MessagesFinite
<1>8. Cardinality(T) = Cardinality(o .. n - 1)
  BY <1>6, <1>7, SameSize
<1>9. Cardinality(o .. n - 1) = IF o > n - 1 THEN 0 ELSE n - 1 - o + 1
  <2> HIDE DEF n
  <2>1. o \in Int /\ n - 1 \in Int
    BY <1>1
  <2>2. QED
    BY <2>1, FS_Interval
<1>10. QED
  BY <1>1, <1>8, <1>9

\* A tail is not below the low watermark, and not more than `limit` from the end.
LEMMA TailStarts ==
    ASSUME TypeOK, NEW p \in Partition, low[p] <= High(p)
    PROVE  /\ TailOf(p) \in Nat /\ low[p] <= TailOf(p) /\ TailOf(p) <= High(p)
           /\ TailOf(p) > low[p] => TailOf(p) = High(p) - Limit
BY OffsetsRise, TopicConstants DEF TypeOK, TailOf

\* The last messages of each partition are those at its tail.
LEMMA TailsAreTheLast ==
    ASSUME TypeOK, \A p \in Partition : low[p] <= High(p)
    PROVE  Tails = LastOfEach /\ Tails \subseteq Available
<1>1. log \in Seq(Partition) /\ Limit \in Nat /\ DOMAIN log \subseteq Nat
  BY TopicConstants DEF TypeOK
<1> DEFINE later(i) == {j \in Available : log[j] = log[i] /\ j > i}
<1>2. ASSUME NEW i \in DOMAIN log
      PROVE  i \in Tails <=> i \in Available /\ Cardinality(later(i)) < Limit
  <2> DEFINE p == log[i]
             o == OffsetOf(i) + 1
  <2>1. p \in Partition /\ i \in Of(p)
    BY <1>1 DEF Of
  <2>2. /\ OffsetOf(i) \in 0 .. High(p) - 1 /\ High(p) \in Nat /\ o \in Nat
        /\ low[p] \in Nat
    BY <1>1, <2>1, OffsetsRise DEF TypeOK
  <2>3. TailOf(p) \in Nat /\ low[p] <= TailOf(p) /\ TailOf(p) <= High(p)
    BY <2>1, TailStarts
  <2>4. ASSUME i \in Available PROVE later(i) = {j \in Of(p) : OffsetOf(j) >= o}
    <3>1. OffsetOf(i) >= low[p]
      BY <2>4 DEF Available
    <3>2. ASSUME NEW j \in Of(p)
          PROVE  j \in Available /\ j > i <=> OffsetOf(j) >= o
      <4>1. /\ j \in DOMAIN log /\ log[j] = p /\ OffsetOf(j) \in Int
            /\ i < j => OffsetOf(i) < OffsetOf(j)
            /\ j < i => OffsetOf(j) < OffsetOf(i)
        BY <1>1, <2>1, OffsetsRise DEF Of
      <4>2. i \in Int /\ j \in Int
        BY <1>1, <4>1
      <4>3. j \in Available <=> OffsetOf(j) >= low[p]
        BY <4>1 DEF Available
      <4>4. QED
        BY <2>2, <3>1, <4>1, <4>2, <4>3
    <3>3. later(i) = {j \in Of(p) : j \in Available /\ j > i}
      BY DEF Available, Of
    <3>4. QED
      BY <3>2, <3>3
  <2>5. ASSUME i \in Available
        PROVE  Cardinality(later(i)) = High(p) - OffsetOf(i) - 1
    <3>1. Cardinality({j \in Of(p) : OffsetOf(j) >= o}) =
              IF High(p) > o THEN High(p) - o ELSE 0
      BY <1>1, <2>1, <2>2, TailCount
    <3> HIDE DEF later
    <3>2. Cardinality(later(i)) = IF High(p) > o THEN High(p) - o ELSE 0
      BY <2>4, <2>5, <3>1
    <3>3. QED
      BY <2>2, <3>2
  <2>6. i \in Tails <=> OffsetOf(i) >= TailOf(p)
    BY DEF Tails
  <2>7. i \in Available <=> OffsetOf(i) >= low[p]
    BY DEF Available
  <2>8. TailOf(p) = IF High(p) - Limit > low[p] THEN High(p) - Limit ELSE low[p]
    BY DEF TailOf
  <2> HIDE DEF later
  <2>9. CASE i \notin Available
    BY <2>2, <2>3, <2>6, <2>7, <2>9
  <2>10. CASE i \in Available
    BY <1>1, <2>2, <2>5, <2>6, <2>7, <2>8, <2>10
  <2>11. QED
    BY <2>9, <2>10
<1>3. LastOfEach = {i \in Available : Cardinality(later(i)) < Limit}
  BY DEF LastOfEach
<1>4. Available \subseteq DOMAIN log /\ Tails \subseteq DOMAIN log
  BY DEF Available, Tails
<1> HIDE DEF later
<1>5. QED
  BY <1>2, <1>3, <1>4

\* A message that is in no tail has `limit` later ones of its own partition.
LEMMA FullTail ==
    ASSUME TypeOK, \A p \in Partition : low[p] <= High(p),
           NEW j \in Available \ Tails
    PROVE  \E T \in SUBSET Tails :
               /\ Cardinality(T) = Limit
               /\ \A k \in T : log[k] = log[j] /\ k > j
<1> DEFINE p == log[j]
           T == {k \in Of(p) : OffsetOf(k) >= TailOf(p)}
<1>1. log \in Seq(Partition) /\ Limit \in Nat /\ DOMAIN log \subseteq Nat
  BY TopicConstants DEF TypeOK
<1>2. j \in DOMAIN log /\ p \in Partition /\ j \in Of(p) /\ OffsetOf(j) >= low[p]
  BY <1>1 DEF Available, Of
<1>3. OffsetOf(j) \in Nat /\ low[p] \in Nat /\ High(p) \in Nat
  BY <1>1, <1>2, OffsetsRise DEF TypeOK
<1>4. OffsetOf(j) < TailOf(p) /\ TailOf(p) \in Nat /\ TailOf(p) = High(p) - Limit
  BY <1>1, <1>2, <1>3, TailStarts DEF Tails
<1>5. Cardinality(T) = Limit
  <2>1. Cardinality(T) = IF High(p) > TailOf(p) THEN High(p) - TailOf(p) ELSE 0
    BY <1>1, <1>2, <1>4, TailCount
  <2> HIDE DEF T
  <2>2. QED
    BY <1>1, <1>3, <1>4, <2>1
<1>6. ASSUME NEW k \in T PROVE k \in Tails /\ log[k] = log[j] /\ k > j
  <2>1. k \in DOMAIN log /\ log[k] = p /\ k \in Of(p) /\ OffsetOf(k) >= TailOf(p)
    BY DEF Of
  <2>2. k \in Tails
    BY <2>1 DEF Tails
  <2>3. k > j
    <3>1. OffsetOf(j) < OffsetOf(k) /\ OffsetOf(k) \in Nat
      BY <1>1, <1>2, <1>3, <1>4, <2>1, OffsetsRise
    <3>2. k < j => OffsetOf(k) < OffsetOf(j)
      BY <1>1, <1>2, <2>1, OffsetsRise
    <3>3. QED
      BY <1>1, <1>2, <1>3, <2>1, <3>1, <3>2
  <2>4. QED
    BY <2>1, <2>2, <2>3
<1>7. T \in SUBSET Tails
  BY <1>6
<1>8. QED
  BY <1>5, <1>6, <1>7

\* What a snapshot shows of the tails it may show of all that is there, if the
\* timestamps rise along each partition: a message that is in no tail is not later
\* than `limit` others.
LEMMA LatestOfTails ==
    ASSUME TypeOK, \A p \in Partition : low[p] <= High(p), Chronological
    PROVE  Shown(Tails) \subseteq Shown(Available)
<1>1. /\ log \in Seq(Partition) /\ Limit \in Nat /\ DOMAIN log \subseteq Nat
      /\ \A i \in DOMAIN log : stamp[i] \in Int
  BY TopicConstants DEF TypeOK, Stamped
<1>2. Tails \subseteq Available /\ Tails \in SUBSET DOMAIN log /\ Available \subseteq DOMAIN log
  BY TailsAreTheLast DEF Tails, Available
<1> SUFFICES ASSUME NEW S \in Shown(Tails) PROVE S \in Shown(Available)
  OBVIOUS
<1>3. /\ S \in SUBSET Tails /\ S \in SUBSET DOMAIN log
      /\ Cardinality(S) <= Limit /\ (S = Tails \/ Cardinality(S) = Limit)
      /\ \A i \in S, j \in Tails \ S : stamp[j] <= stamp[i]
  BY <1>2 DEF Shown
<1>4. Cardinality(S) \in Nat
  BY <1>1, <1>3, MessagesFinite
<1>5. S = Available \/ Cardinality(S) = Limit
  <2> SUFFICES ASSUME S = Tails, NEW j \in Available \ Tails
               PROVE  Cardinality(S) = Limit
    BY <1>2, <1>3
  <2>1. PICK T \in SUBSET Tails : Cardinality(T) = Limit
    BY FullTail
  <2>2. Cardinality(T) <= Cardinality(Tails)
    BY <1>1, <1>2, PartIsSmaller
  <2>3. QED
    BY <1>1, <1>3, <1>4, <2>1, <2>2
<1>6. ASSUME NEW i \in S, NEW j \in Available \ S PROVE stamp[j] <= stamp[i]
  <2>1. CASE j \in Tails
    BY <1>3, <2>1
  <2>2. CASE j \notin Tails
    <3>1. PICK T \in SUBSET Tails :
            /\ Cardinality(T) = Limit
            /\ \A k \in T : log[k] = log[j] /\ k > j
      BY <2>2, FullTail
    <3>2. \A k \in T : stamp[j] <= stamp[k] /\ k \in DOMAIN log
      BY <1>1, <1>2, <3>1 DEF Chronological
    <3>3. CASE i \in T
      BY <3>2, <3>3
    <3>4. CASE i \notin T
      <4>1. \E k \in T : k \notin S
        <5> SUFFICES ASSUME T \subseteq S PROVE FALSE
          OBVIOUS
        <5>1. Cardinality(T) >= Cardinality(S)
          BY <1>1, <1>3, <1>4, <3>1
        <5>2. T = S
          BY <1>1, <1>3, <5>1, PartIsSmaller
        <5>3. QED
          BY <3>4, <5>2
      <4>2. PICK k \in T : k \notin S
        BY <4>1
      <4>3. stamp[j] <= stamp[k] /\ stamp[k] <= stamp[i]
        BY <1>3, <3>1, <3>2, <4>2
      <4>4. stamp[i] \in Int /\ stamp[j] \in Int /\ stamp[k] \in Int
        BY <1>1, <1>2, <1>3, <3>2
      <4>5. QED
        BY <4>3, <4>4
    <3>5. QED
      BY <3>3, <3>4
  <2>3. QED
    BY <2>1, <2>2
<1>7. QED
  BY <1>2, <1>3, <1>5, <1>6 DEF Shown

-----------------------------------------------------------------------------
(***************************************************************************)
(* Types.                                                                  *)
(***************************************************************************)
\* A step that leaves the messages leaves their timestamps.
LEMMA StampsKept ==
    ASSUME Stamped, UNCHANGED <<log, stamp>>
    PROVE  Stamped'
BY DEF Stamped

LEMMA TypesAtFirst == Init => TypeOK /\ StageInv
<1> SUFFICES ASSUME Init PROVE TypeOK /\ StageInv
  OBVIOUS
<1>1. log \in Seq(Partition) /\ low = Zero /\ committed \in [Partition -> Nat \cup {None}]
  BY TopicConstants DEF Init, TopicInit
<1>2. Zero \in [Partition -> Nat] /\ \A p \in Partition : Zero[p] = 0
  BY DEF Zero
<1>3. Stamped
  BY TopicConstants DEF Init, TopicInit, Stamped
<1>4. TypeOK
  BY <1>1, <1>2, <1>3, FlowConstants DEF Init, DataflowInit, TopicInit, TypeOK
<1>5. StageInv
  BY <1>1, <1>2, OffsetsRise DEF Init, TopicInit, StageInv
<1>6. QED
  BY <1>4, <1>5

LEMMA LoadTypes ==
    ASSUME TypeOK, Load
    PROVE  TypeOK'
<1>1. /\ UNCHANGED <<topicVars, lookVars, request, quiet, disk, changes>>
  BY DEF Load, LoadStep, Scan, Resolved, List, ReadFragment, Validate, diskVars
<1>2. /\ loading' \in {"no", "scan", "list", "read", "done"}
      /\ status' \in {200, 404, 422, 500, 502}
      /\ toScan' \in Seq(Places) /\ found' \in Places \cup {None}
      /\ paths' \subseteq Names
  <2>1. CASE Scan
    <3>1. /\ toScan \in Seq(Places) /\ toScan # <<>> /\ found \in Places \cup {None}
          /\ paths' = paths /\ paths \subseteq Names /\ loading = "scan"
          /\ status \in {200, 404, 422, 500, 502}
      BY <2>1 DEF TypeOK, Scan
    <3>2. Head(toScan) \in Places /\ Tail(toScan) \in Seq(Places)
      BY <3>1
    <3>3. CASE loading' = "done" /\ status' = 500 /\ UNCHANGED <<toScan, found>>
      BY <3>1, <3>3
    <3>4. CASE /\ found' \in {Head(toScan), found} /\ toScan' = Tail(toScan)
               /\ UNCHANGED <<loading, status>>
      BY <3>1, <3>2, <3>4
    <3>5. QED
      BY <2>1, <3>3, <3>4 DEF Scan, Refuse
  <2>2. CASE Resolved
    <3>1. /\ toScan' = toScan /\ found' = found /\ paths' = paths
          /\ loading' \in {"done", "list"} /\ status' \in {status, 404}
      BY <2>2 DEF Resolved, Refuse
    <3>2. QED
      BY <3>1 DEF TypeOK
  <2>3. CASE List
    BY <2>3 DEF TypeOK, List, Refuse, Present
  <2>4. CASE ReadFragment
    BY <2>4 DEF TypeOK, ReadFragment, Refuse
  <2>5. CASE Validate
    BY <2>5 DEF TypeOK, Validate, Refuse
  <2>6. QED
    BY <2>1, <2>2, <2>3, <2>4, <2>5 DEF Load, LoadStep
<1>3. QED
  BY <1>1, <1>2, StampsKept DEF TypeOK, topicVars, lookVars

LEMMA RequestTypes ==
    ASSUME TypeOK,
           (\E r \in Request : Receive(r)) \/ PastGate \/ Respond \/ LookFails \/ TimeUp
    PROVE  TypeOK'
<1>1. Zero \in [Partition -> Nat]
  BY DEF Zero
<1>2. ASSUME NEW r \in Request, Receive(r) PROVE TypeOK'
  BY <1>2, FlowConstants, StampsKept DEF TypeOK, Receive, StartLoad, topicVars, lookVars
<1>3. CASE PastGate
  <2>1. Gate \in {200, 404, 422}
    BY DEF Gate
  <2>2. CASE Gate = 200
    BY <1>3, <2>2, StampsKept DEF TypeOK, PastGate, StartLook, topicVars, loadVars, diskVars
  <2>3. CASE Gate # 200
    BY <1>3, <2>1, <2>3, StampsKept DEF TypeOK, PastGate, Refuse, topicVars, lookVars, diskVars
  <2>4. QED
    BY <2>2, <2>3
<1>4. CASE Respond
  <2>1. /\ disk' = disk /\ changes' = changes /\ log' = log /\ low' = low
        /\ stamp' = stamp /\ committed' = committed /\ loading' = "no" /\ toScan' = <<>> /\ found' = None
        /\ paths' = {} /\ status' = 200 /\ looking' = "no" /\ ask' = {}
        /\ current' = Zero /\ total' = 0 /\ next' = Zero /\ want' = 0
        /\ messages' = {} /\ behind' = {} /\ request' = None /\ quiet' = TRUE
    BY <1>4 DEF Respond, EndLoad, EndLook, topicVars
  <2>2. Zero \in [Partition -> Nat \cup {None}]
    BY <1>1
  <2>3. QED
    BY <1>1, <2>1, <2>2, StampsKept DEF TypeOK
<1>5. CASE LookFails
  <2>1. /\ changes' \in 0 .. MaxChanges
    BY <1>5, FlowConstants DEF TypeOK, LookFails, Change
  <2>2. /\ loading' = "done" /\ status' \in {500, 502} /\ looking' = "done"
        /\ quiet' = FALSE
        /\ UNCHANGED <<disk, toScan, found, paths, log, stamp, low, committed, ask, current,
                      total, next, want, messages, behind, request>>
    BY <1>5 DEF LookFails, Refuse, LookTo, topicVars, diskVars
  <2>3. quiet' \in BOOLEAN
    BY <2>2, Zenon
  <2>4. QED
    BY <2>1, <2>2, <2>3, StampsKept DEF TypeOK
<1>6. CASE TimeUp
  <2>1. /\ looking' = "done"
        /\ UNCHANGED <<diskVars, loadVars, changes, log, stamp, low, committed, ask, current,
                      total, next, want, messages, behind, request>>
    BY <1>6 DEF TimeUp, Deadline, LookTo, topicVars
  <2>2. quiet' \in BOOLEAN
    BY <1>6, Zenon DEF TimeUp
  <2>3. QED
    BY <2>1, <2>2, StampsKept DEF TypeOK, diskVars, loadVars
<1>7. QED
  BY <1>2, <1>3, <1>4, <1>5, <1>6

\* A lookup changes nothing but itself.
LEMMA LookLeaves ==
    ASSUME Look
    PROVE  UNCHANGED <<topicVars, diskVars, loadVars, changes, request, quiet>>
BY DEF Look, LookStep, Resolve, FetchConfig, FetchCommitted, PollNothing, FetchLag,
       FetchTail, PollMessage, PollResets, LookTo

LEMMA LookTypes ==
    ASSUME TypeOK, StageInv, Look
    PROVE  TypeOK'
<1>1. UNCHANGED <<topicVars, diskVars, loadVars, changes, request, quiet>>
  BY LookLeaves
<1>2. \A p \in Partition : High(p) \in Nat
  BY OffsetsRise DEF TypeOK
<1>3. /\ looking' \in {"no", "metadata", "config", "committed", "lag", "tails", "poll", "done"}
      /\ ask' \subseteq Partition
      /\ current' \in [Partition -> Nat \cup {None}] /\ total' \in Nat
      /\ next' \in [Partition -> Nat] /\ want' \in Nat
      /\ messages' \subseteq DOMAIN log /\ behind' \subseteq DOMAIN log
  <2>1. CASE Resolve
    <3>1. request \in Request /\ request.endpoint \in {"lag", "snapshot", "topic-stats"}
      <4>1. request # None /\ request.endpoint # "graph" /\ request \in Request
        BY <2>1 DEF StageInv, Resolve, TypeOK
      <4>2. QED
        BY <4>1, DashboardConstants DEF Request
    <3>2. QED
      BY <2>1, <3>1 DEF TypeOK, Resolve, LookTo
  <2>2. CASE FetchConfig
    BY <2>2 DEF TypeOK, FetchConfig, LookTo
  <2>3. CASE FetchCommitted
    BY <2>3 DEF TypeOK, FetchCommitted, Unread
  <2>4. CASE PollNothing
    BY <2>4 DEF TypeOK, PollNothing, lookVars
  <2>5. ASSUME NEW p \in Partition, FetchLag(p) PROVE <1>3!:
    <3>1. From(current, p) \in Nat
      BY DEF TypeOK, From
    <3>2. total' \in Nat
      BY <1>2, <2>5, <3>1 DEF TypeOK, FetchLag
    <3>3. QED
      BY <2>5, <3>2 DEF TypeOK, FetchLag
  <2>6. ASSUME NEW p \in Partition, FetchTail(p) PROVE <1>3!:
    <3>1. TailOf(p) \in Nat /\ TailOf(p) <= High(p)
      <4>1. low[p] <= High(p)
        BY DEF StageInv
      <4>2. QED
        BY <4>1, TailStarts
    <3>2. /\ want' = want + High(p) - TailOf(p)
          /\ next' = [next EXCEPT ![p] = TailOf(p)]
          /\ ask' = ask \ {p} /\ looking' \in {"tails", "done", "poll"}
          /\ UNCHANGED <<log, current, total, messages, behind>>
      BY <2>6 DEF FetchTail, topicVars
    <3>3. want' \in Nat /\ next' \in [Partition -> Nat]
      BY <1>2, <3>1, <3>2 DEF TypeOK
    <3>4. QED
      BY <3>2, <3>3 DEF TypeOK
  <2>7. ASSUME NEW p \in Partition, PollMessage(p) PROVE <1>3!:
    BY <2>7 DEF TypeOK, PollMessage, Of
  <2>8. ASSUME NEW p \in Partition, PollResets(p) PROVE <1>3!:
    BY <1>2, <2>8 DEF TypeOK, PollResets
  <2>9. QED
    BY <2>1, <2>2, <2>3, <2>4, <2>5, <2>6, <2>7, <2>8 DEF Look, LookStep
<1>4. QED
  BY <1>1, <1>3, StampsKept DEF TypeOK, topicVars, diskVars, loadVars

\* What is written, deleted and committed meanwhile: a message keeps its partition
\* and its offset, and no partition gets shorter.
LEMMA AppendKeeps ==
    ASSUME TypeOK, NEW q \in Partition, log' = Append(log, q)
    PROVE  /\ log' \in Seq(Partition)
           /\ DOMAIN log \subseteq DOMAIN log'
           /\ \A i \in DOMAIN log : log'[i] = log[i] /\ OffsetOf(i)' = OffsetOf(i)
           /\ \A p \in Partition : High(p)' >= High(p) /\ High(p)' \in Nat
<1>1. log \in Seq(Partition)
  BY DEF TypeOK
<1>2. /\ log' \in Seq(Partition) /\ Len(log) \in Nat
      /\ DOMAIN log = 1 .. Len(log) /\ DOMAIN log' = 1 .. Len(log) + 1
      /\ \A i \in DOMAIN log : log'[i] = log[i]
  BY <1>1
<1>3. \A p \in Partition : Of(p) \in SUBSET Of(p)' /\ Of(p)' \in SUBSET DOMAIN log'
  BY <1>2 DEF Of
<1>4. ASSUME NEW i \in DOMAIN log PROVE OffsetOf(i)' = OffsetOf(i)
  <2>1. {j \in Of(log[i])' : j < i} = {j \in Of(log[i]) : j < i}
    BY <1>2 DEF Of
  <2>2. QED
    BY <1>2, <2>1 DEF OffsetOf, Of
<1>5. ASSUME NEW p \in Partition PROVE High(p)' >= High(p) /\ High(p)' \in Nat
  <2>1. IsFiniteSet(Of(p)')
    <3>1. IsFiniteSet(DOMAIN log')
      BY <1>2, FS_Interval
    <3>2. QED
      BY <1>3, <3>1, FS_Subset
  <2>2. Cardinality(Of(p)) <= Cardinality(Of(p)') /\ Cardinality(Of(p)) \in Nat
        /\ Cardinality(Of(p)') \in Nat
    BY <1>3, <2>1, FS_Subset, FS_CardinalityType
  <2>3. QED
    BY <2>2 DEF High
<1>6. QED
  BY <1>2, <1>4, <1>5

LEMMA SurroundingsTypes ==
    ASSUME TypeOK, StageInv, Surroundings
    PROVE  TypeOK' /\ \A p \in Partition : low'[p] <= High(p)'
<1>1. \A p \in Partition : low[p] <= High(p) /\ High(p) \in Nat
  BY OffsetsRise DEF TypeOK, StageInv
<1>2. quiet' \in BOOLEAN
  <2>1. quiet' = FALSE
    BY DEF Surroundings
  <2>2. QED
    BY <2>1, Zenon
<1>3. request' = request
  BY DEF Surroundings
<1>4. ASSUME Change PROVE changes' \in 0 .. MaxChanges
  BY <1>4, FlowConstants DEF Change, TypeOK
<1>5. ASSUME NEW r \in Places, NEW f \in Names, Edit(r, f), UNCHANGED <<topicVars, lookVars>>
      PROVE  TypeOK' /\ \A p \in Partition : low'[p] <= High(p)'
  <2>1. PICK content \in Fragment \cup {Absent, Broken} :
            disk' = [disk EXCEPT ![r][f] = content]
    BY <1>5 DEF Edit
  <2>2. disk' \in [Places -> [Names -> Fragment \cup {Absent, Broken}]]
    BY <2>1 DEF TypeOK
  <2>3. changes' \in 0 .. MaxChanges
    BY <1>4, <1>5 DEF Edit
  <2>4. /\ UNCHANGED <<log, stamp, low, committed, looking, ask, current, total, next, want,
                      messages, behind>>
        /\ UNCHANGED <<loading, toScan, found, paths, status>>
    BY <1>5 DEF Edit, topicVars, lookVars, loadVars
  <2>5. TypeOK'
    BY <1>2, <1>3, <2>2, <2>3, <2>4, StampsKept DEF TypeOK
  <2>6. QED
    BY <1>1, <2>4, <2>5 DEF High, Of
<1>6. ASSUME NEW p \in Partition, Produced(p) \/ Committed(p) \/ Deleted(p),
             UNCHANGED <<diskVars, loadVars>>
      PROVE  TypeOK' /\ \A q \in Partition : low'[q] <= High(q)'
  <2>1. /\ changes' \in 0 .. MaxChanges
        /\ UNCHANGED <<looking, ask, current, total, next, want, messages, behind>>
        /\ UNCHANGED <<disk, loading, toScan, found, paths, status>>
    BY <1>4, <1>6 DEF Produced, Committed, Deleted, lookVars, diskVars, loadVars
  <2>2. CASE Produced(p)
    <3>1. log' = Append(log, p) /\ UNCHANGED <<low, committed>>
      BY <2>2 DEF Produced
    <3>2. /\ log' \in Seq(Partition) /\ DOMAIN log \subseteq DOMAIN log'
          /\ \A q \in Partition : High(q)' >= High(q) /\ High(q)' \in Nat
      BY <3>1, AppendKeeps
    <3>3. Stamped'
      <4>1. PICK t \in Int : stamp' = Append(stamp, t)
        BY <2>2, TopicConstants DEF Produced
      <4>2. log \in Seq(Partition) /\ Stamped
        BY DEF TypeOK
      <4>3. QED
        BY <3>1, <4>1, <4>2 DEF Stamped
    <3>4. TypeOK'
      BY <1>2, <1>3, <2>1, <3>1, <3>2, <3>3 DEF TypeOK
    <3>5. \A q \in Partition : low[q] \in Nat
      BY DEF TypeOK
    <3>6. QED
      BY <1>1, <3>1, <3>2, <3>4, <3>5
  <2>3. CASE Committed(p)
    <3>1. /\ log' = log /\ stamp' = stamp /\ low' = low
          /\ \E o \in 0 .. High(p) : committed' = [committed EXCEPT ![p] = o]
      BY <2>3 DEF Committed
    <3>2. committed' \in [Partition -> Nat \cup {None}]
      BY <1>1, <3>1 DEF TypeOK
    <3>3. TypeOK'
      BY <1>2, <1>3, <2>1, <3>1, <3>2, StampsKept DEF TypeOK
    <3>4. QED
      BY <1>1, <3>1, <3>3 DEF High, Of
  <2>4. CASE Deleted(p)
    <3>1. /\ log' = log /\ stamp' = stamp /\ committed' = committed
          /\ low[p] < High(p) /\ low' = [low EXCEPT ![p] = @ + 1]
      BY <2>4 DEF Deleted
    <3>2. low' \in [Partition -> Nat]
      BY <3>1 DEF TypeOK
    <3>3. TypeOK'
      BY <1>2, <1>3, <2>1, <3>1, <3>2, StampsKept DEF TypeOK
    <3>4. \A q \in Partition : High(q)' = High(q) /\ low[q] \in Nat
      BY <3>1 DEF High, Of, TypeOK
    <3>5. \A q \in Partition : low'[q] <= High(q)
      BY <1>1, <3>1, <3>4 DEF TypeOK
    <3>6. QED
      BY <3>3, <3>4, <3>5
  <2>5. QED
    BY <1>6, <2>2, <2>3, <2>4
<1>7. QED
  BY <1>5, <1>6 DEF Surroundings

-----------------------------------------------------------------------------
(***************************************************************************)
(* The stages of a lookup, and its lag.                                    *)
(***************************************************************************)

\* What a step that is no lookup's, nor the topic's, leaves to be shown.
LEMMA StageKept ==
    ASSUME StageInv, LagInv, UNCHANGED <<topicVars, lookVars>>, looking = "no"
    PROVE  StageInv' /\ LagInv'
<1>1. /\ looking' = "no" /\ total' = total /\ want' = want /\ messages' = messages
      /\ log' = log /\ low' = low
  BY DEF lookVars, topicVars
<1>2. \A p \in Partition : low'[p] <= High(p)'
  BY <1>1 DEF StageInv, High, Of
<1>3. StageInv'
  BY <1>1, <1>2 DEF StageInv
<1>4. LagInv'
  BY <1>1 DEF LagInv, Counting
<1>5. QED
  BY <1>3, <1>4

LEMMA RequestStages ==
    ASSUME TypeOK, StageInv, LagInv,
           (\E r \in Request : Receive(r)) \/ Load \/ PastGate \/ Respond \/ LookFails
           \/ TimeUp
    PROVE  StageInv' /\ LagInv'
<1>1. ASSUME NEW r \in Request, Receive(r) PROVE StageInv' /\ LagInv'
  <2>1. UNCHANGED <<topicVars, lookVars>> /\ looking = "no"
    BY <1>1 DEF Receive, StageInv
  <2>2. QED
    BY <2>1, StageKept
<1>2. CASE Load
  <2>1. UNCHANGED <<topicVars, lookVars>> /\ loading # "done"
    BY <1>2 DEF Load, LoadStep, Scan, Resolved, List, ReadFragment, Validate
  <2>2. looking = "no"
    BY <2>1 DEF StageInv
  <2>3. QED
    BY <2>1, <2>2, StageKept
<1>3. CASE PastGate
  <2>1. CASE Gate = 200
    <3>1. /\ looking' = "metadata" /\ ask' = Partition /\ log' = log /\ low' = low
          /\ looking = "no" /\ total' = total /\ want' = want /\ messages' = messages
          /\ loading' = loading /\ loading = "done" /\ request' = request
          /\ request # None /\ request.endpoint # "graph"
      BY <1>3, <2>1 DEF PastGate, StartLook, topicVars, loadVars
    <3>2. \A p \in Partition : low'[p] <= High(p)'
      BY <3>1 DEF StageInv, High, Of
    <3>3. StageInv'
      BY <3>1, <3>2 DEF StageInv
    <3>4. QED
      BY <3>1, <3>3 DEF LagInv, Counting
  <2>2. CASE Gate # 200
    <3>1. UNCHANGED <<topicVars, lookVars>> /\ looking = "no"
      BY <1>3, <2>2 DEF PastGate
    <3>2. QED
      BY <3>1, StageKept
  <2>3. QED
    BY <2>1, <2>2
<1>4. CASE Respond
  <2>1. /\ looking' = "no" /\ total' = 0 /\ want' = 0 /\ messages' = {}
        /\ log' = log /\ low' = low
    BY <1>4 DEF Respond, EndLook, topicVars
  <2>2. \A p \in Partition : low'[p] <= High(p)'
    BY <2>1 DEF StageInv, High, Of
  <2>3. QED
    BY <2>1, <2>2 DEF StageInv, LagInv, Counting
<1>5. CASE LookFails
  <2>1. /\ looking' = "done" /\ status' # 200 /\ loading' = "done" /\ looking # "no"
        /\ request' = request /\ log' = log /\ low' = low
    BY <1>5 DEF LookFails, LookTo, Refuse, topicVars, Looking
  <2>2. \A p \in Partition : low'[p] <= High(p)'
    BY <2>1 DEF StageInv, High, Of
  <2>3. request' # None /\ request'.endpoint # "graph"
    BY <2>1 DEF StageInv
  <2>4. StageInv'
    BY <2>1, <2>2, <2>3 DEF StageInv
  <2>5. QED
    BY <2>1, <2>4 DEF LagInv, Counting
<1>6. CASE TimeUp
  <2>1. /\ looking' = "done" /\ looking = "poll" /\ ask' = ask
        /\ request' = request /\ log' = log /\ low' = low /\ loading' = loading
    BY <1>6 DEF TimeUp, Deadline, LookTo, topicVars, loadVars
  <2>2. \A p \in Partition : low'[p] <= High(p)'
    BY <2>1 DEF StageInv, High, Of
  <2>3. /\ request # None /\ request.endpoint = "snapshot" /\ loading = "done"
        /\ ask = {}
    BY <2>1 DEF StageInv
  <2>4. StageInv'
    BY <2>1, <2>2, <2>3 DEF StageInv
  <2>5. QED
    BY <2>1, <2>3, <2>4 DEF LagInv, Counting
<1>7. QED
  BY <1>1, <1>2, <1>3, <1>4, <1>5, <1>6

\* Past the metadata, each endpoint has its own next call.
LEMMA ResolveTo ==
    ASSUME TypeOK, StageInv, Resolve
    PROVE  /\ looking = "metadata"
           /\ \/ request.endpoint = "lag" /\ looking' = "committed"
              \/ request.endpoint = "snapshot" /\ looking' = "tails"
              \/ request.endpoint = "topic-stats" /\ looking' = "config"
           /\ UNCHANGED <<topicVars, ask, current, total, next, want, messages, behind>>
<1>1. /\ looking = "metadata"
      /\ looking' = CASE request.endpoint = "lag" -> "committed"
                      [] request.endpoint = "snapshot" -> "tails"
                      [] request.endpoint = "topic-stats" -> "config"
      /\ UNCHANGED <<topicVars, ask, current, total, next, want, messages, behind>>
  BY DEF Resolve, LookTo
<1>2. request # None /\ request.endpoint # "graph" /\ request \in Request
  BY <1>1 DEF StageInv, TypeOK
<1>3. request.endpoint \in {"lag", "snapshot", "topic-stats"}
  BY <1>2, DashboardConstants DEF Request
<1>4. QED
  BY <1>1, <1>3

LEMMA LookStages ==
    ASSUME TypeOK, StageInv, Look
    PROVE  StageInv'
<1> DEFINE Staged == 
      /\ looking' \notin {"no", "metadata"}
      /\ looking' \in {"committed", "lag"} => request.endpoint = "lag"
      /\ looking' = "config" => request.endpoint = "topic-stats"
      /\ looking' \in {"tails", "poll"} => request.endpoint = "snapshot"
      /\ looking' = "committed" => total' = 0
      /\ looking' = "tails" => messages' = {}
      /\ looking' \in {"metadata", "committed"} => ask' = Partition
      /\ looking' = "poll" => ask' = {}
      /\ looking' = "done" /\ request.endpoint # "topic-stats" => ask' = {}
<1>1. UNCHANGED <<topicVars, diskVars, loadVars, changes, request, quiet>>
  BY LookLeaves
<1>2. looking # "no" /\ looking # "done"
  BY DEF Look, LookStep, Resolve, FetchConfig, FetchCommitted, PollNothing, FetchLag,
         FetchTail, PollMessage, PollResets
<1>3. /\ request # None /\ request.endpoint # "graph" /\ loading = "done"
  BY <1>2 DEF StageInv
<1>4. CASE Resolve
  <2>1. /\ looking = "metadata"
        /\ \/ request.endpoint = "lag" /\ looking' = "committed"
           \/ request.endpoint = "snapshot" /\ looking' = "tails"
           \/ request.endpoint = "topic-stats" /\ looking' = "config"
        /\ UNCHANGED <<topicVars, ask, total, messages>>
    BY <1>4, ResolveTo
  <2>2. total = 0 /\ messages = {} /\ ask = Partition
    BY <2>1 DEF StageInv
  <2>3. Staged
    BY <2>1, <2>2
  <2>4. QED
    BY <1>1, <1>3, <2>3 DEF StageInv, High, Of, topicVars, loadVars
<1>5. CASE FetchConfig
  <2>1. looking' = "done" /\ looking = "config"
    BY <1>5 DEF FetchConfig, LookTo
  <2>2. Staged
    BY <2>1 DEF StageInv
  <2>3. QED
    BY <1>1, <1>3, <2>2 DEF StageInv, High, Of, topicVars, loadVars
<1>6. CASE FetchCommitted
  <2>1. looking' = "lag" /\ looking = "committed"
    BY <1>6 DEF FetchCommitted
  <2>2. Staged
    BY <2>1 DEF StageInv
  <2>3. QED
    BY <1>1, <1>3, <2>2 DEF StageInv, High, Of, topicVars, loadVars
<1>7. CASE PollNothing
  <2>1. looking' = "poll" /\ looking = "poll" /\ ask' = ask
    BY <1>7 DEF PollNothing, lookVars
  <2>2. Staged
    BY <2>1 DEF StageInv
  <2>3. QED
    BY <1>1, <1>3, <2>2 DEF StageInv, High, Of, topicVars, loadVars
<1>8. ASSUME NEW p \in Partition, FetchLag(p) PROVE StageInv'
  <2>1. looking = "lag" /\ looking' = IF ask' = {} THEN "done" ELSE "lag"
    BY <1>8 DEF FetchLag
  <2>2. Staged
    BY <2>1 DEF StageInv
  <2>3. QED
    BY <1>1, <1>3, <2>2 DEF StageInv, High, Of, topicVars, loadVars
<1>9. ASSUME NEW p \in Partition, FetchTail(p) PROVE StageInv'
  <2>1. /\ looking = "tails" /\ messages' = messages
        /\ looking' = IF ask' # {} THEN "tails" ELSE IF want' = 0 THEN "done" ELSE "poll"
    BY <1>9 DEF FetchTail
  <2>2. Staged
    BY <2>1 DEF StageInv
  <2>3. QED
    BY <1>1, <1>3, <2>2 DEF StageInv, High, Of, topicVars, loadVars
<1>10. ASSUME NEW p \in Partition, PollMessage(p) \/ PollResets(p) PROVE StageInv'
  <2>1. looking = "poll" /\ looking' \in {"poll", "done"} /\ ask' = ask
    BY <1>10 DEF PollMessage, PollResets
  <2>2. Staged
    BY <2>1 DEF StageInv
  <2>3. QED
    BY <1>1, <1>3, <2>2 DEF StageInv, High, Of, topicVars, loadVars
<1>11. QED
  BY <1>4, <1>5, <1>6, <1>7, <1>8, <1>9, <1>10 DEF Look, LookStep

LEMMA LookLag ==
    ASSUME TypeOK, StageInv, LagInv, Look
    PROVE  LagInv'
<1>1. UNCHANGED <<log, low, committed, status, request>> /\ log \in Seq(Partition)
  BY LookLeaves DEF topicVars, loadVars, TypeOK
<1>2. \A i \in DOMAIN log : log[i] \in Partition /\ i \in Of(log[i])
  BY <1>1 DEF Of
<1>3. \A i : OffsetOf(i)' = OffsetOf(i)
  BY <1>1 DEF OffsetOf, Of
<1>4. CASE Resolve \/ FetchConfig \/ PollNothing
           \/ \E p \in Partition : FetchTail(p) \/ PollMessage(p) \/ PollResets(p)
  <2>1. looking \in {"config", "tails", "poll"} \/ looking' \notin {"lag", "done"}
    BY <1>4, ResolveTo DEF FetchConfig, PollNothing, FetchTail, PollMessage, PollResets
  <2>2. looking' \in {"lag", "done"} => request.endpoint # "lag"
    BY <2>1 DEF StageInv
  <2>3. QED
    BY <1>1, <2>2 DEF LagInv, Counting
<1>5. CASE FetchCommitted
  <2>1. /\ looking = "committed" /\ behind' = Unread /\ current' = committed
        /\ ask' = ask /\ total' = total
    BY <1>5 DEF FetchCommitted
  <2>2. ask = Partition /\ total = 0
    BY <2>1 DEF StageInv
  <2>3. Hidden' = {}
    BY <1>1, <1>2, <2>1, <2>2 DEF Hidden, Unread
  <2>4. Cardinality(Hidden') = 0
    BY <2>3, FS_EmptySet
  <2>5. \A i \in behind' : current'[log'[i]] # None => OffsetOf(i)' >= current'[log'[i]]
    BY <1>1, <1>3, <2>1 DEF Unread
  <2>6. QED
    BY <2>1, <2>2, <2>4, <2>5 DEF LagInv
<1>6. ASSUME NEW p \in Partition, FetchLag(p) PROVE LagInv'
  <2> DEFINE o == From(current, p)
             Counted == {i \in Of(p) : OffsetOf(i) >= o}
  <2>1. /\ looking = "lag" /\ p \in ask /\ ask' = ask \ {p}
        /\ total' = total + (IF High(p) > o THEN High(p) - o ELSE 0)
        /\ behind' = behind /\ current' = current
    BY <1>6 DEF FetchLag
  <2>2. SUFFICES ASSUME Counting'
                 PROVE  /\ total' >= Cardinality(Hidden')
                        /\ \A i \in behind : current[log[i]] # None =>
                               OffsetOf(i) >= current[log[i]]
    BY <1>1, <1>3, <2>1 DEF LagInv
  <2>3. Counting
    BY <1>1, <2>1, <2>2 DEF Counting
  <2>4. /\ total >= Cardinality(Hidden)
        /\ \A i \in behind : current[log[i]] # None => OffsetOf(i) >= current[log[i]]
    BY <2>3 DEF LagInv
  <2>5. o \in Nat /\ High(p) \in Nat /\ total \in Nat /\ behind \subseteq DOMAIN log
    BY <1>1, OffsetsRise DEF From, TypeOK
  <2>6. Cardinality(Counted) = IF High(p) > o THEN High(p) - o ELSE 0
    BY <1>1, <2>5, TailCount
  <2>7. Hidden' \subseteq Hidden \cup Counted
    <3> SUFFICES ASSUME NEW i \in Hidden', i \notin Hidden PROVE i \in Counted
      OBVIOUS
    <3>1. i \in behind /\ log[i] \notin ask \ {p} /\ OffsetOf(i) >= low[log[i]]
      BY <1>1, <1>3, <2>1 DEF Hidden
    <3>2. log[i] = p /\ i \in Of(p)
      BY <1>2, <2>5, <3>1 DEF Hidden
    <3>3. OffsetOf(i) >= o
      BY <2>4, <3>1, <3>2 DEF From
    <3>4. QED
      BY <3>2, <3>3
  <2>8. Hidden \cap Counted = {}
    BY <2>1 DEF Hidden, Of
  <2>9. /\ Hidden \in SUBSET DOMAIN log /\ Counted \in SUBSET DOMAIN log
    BY <2>5 DEF Hidden, Of
  <2>10. Cardinality(Hidden \cup Counted) = Cardinality(Hidden) + Cardinality(Counted)
    BY <1>1, <2>8, <2>9, DisjointSizes
  <2>11. /\ Cardinality(Hidden') <= Cardinality(Hidden \cup Counted)
         /\ Cardinality(Hidden') \in Nat
    BY <1>1, <2>7, <2>9, PartIsSmaller
  <2>12. Cardinality(Hidden) \in Nat /\ Cardinality(Counted) \in Nat
    BY <1>1, <2>9, MessagesFinite
  <2> HIDE DEF Counted, o
  <2>13. total' = total + Cardinality(Counted)
    BY <2>1, <2>6
  <2>14. QED
    BY <2>4, <2>5, <2>10, <2>11, <2>12, <2>13
<1>7. QED
  BY <1>4, <1>5, <1>6 DEF Look, LookStep

LEMMA SurroundingsLag ==
    ASSUME TypeOK, StageInv, LagInv, Surroundings
    PROVE  StageInv' /\ LagInv'
<1>1. /\ TypeOK' /\ \A p \in Partition : low'[p] <= High(p)'
      /\ request' = request /\ UNCHANGED <<lookVars, loading, status>>
  BY SurroundingsTypes
     DEF Surroundings, Edit, Produced, Committed, Deleted, loadVars, lookVars
<1>2. StageInv'
  BY <1>1 DEF StageInv, lookVars
<1>3. /\ log \in Seq(Partition) /\ behind \subseteq DOMAIN log
      /\ \A p \in Partition : low[p] \in Nat /\ low'[p] \in Nat
  BY <1>1 DEF TypeOK
<1>4. \A p \in Partition : low[p] <= low'[p]
  <2>1. CASE low' = low
    BY <1>3, <2>1
  <2>2. ASSUME NEW p \in Partition, Deleted(p) PROVE <1>4!:
    <3>1. low' = [low EXCEPT ![p] = @ + 1] /\ low \in [Partition -> Nat]
      BY <2>2 DEF Deleted, TypeOK
    <3>2. QED
      BY <1>3, <3>1
  <2>3. QED
    BY <2>1, <2>2 DEF Surroundings, topicVars, Produced, Committed
<1>5. \A i \in DOMAIN log : log'[i] = log[i] /\ OffsetOf(i)' = OffsetOf(i)
  <2>1. CASE log' = log
    BY <2>1 DEF OffsetOf, Of
  <2>2. ASSUME NEW p \in Partition, log' = Append(log, p) PROVE <1>5!:
    BY <2>2, AppendKeeps
  <2>3. QED
    BY <2>1, <2>2 DEF Surroundings, topicVars, Produced, Committed, Deleted
<1>6. \A i \in DOMAIN log : OffsetOf(i) \in Nat /\ log[i] \in Partition
  BY <1>3, OffsetsRise DEF Of
<1>7. Hidden' \subseteq Hidden /\ Hidden \in SUBSET DOMAIN log
  BY <1>1, <1>3, <1>4, <1>5, <1>6 DEF Hidden, lookVars
<1>8. /\ Cardinality(Hidden') <= Cardinality(Hidden)
      /\ Cardinality(Hidden') \in Nat /\ Cardinality(Hidden) \in Nat
  BY <1>3, <1>7, PartIsSmaller
<1>9. LagInv'
  <2> SUFFICES ASSUME Counting'
               PROVE  /\ \A i \in behind : current[log[i]] # None =>
                             OffsetOf(i) >= current[log[i]]
                      /\ total >= Cardinality(Hidden')
    BY <1>1, <1>3, <1>5 DEF LagInv, lookVars
  <2>1. Counting /\ total \in Nat
    BY <1>1 DEF Counting, lookVars, TypeOK
  <2>2. QED
    BY <1>8, <2>1 DEF LagInv
<1>10. QED
  BY <1>2, <1>9

-----------------------------------------------------------------------------
(***************************************************************************)
(* The graph.                                                              *)
(***************************************************************************)
LEMMA JoinedEdges ==
    ASSUME NEW s, s \in Seq(ToSet(s)), NEW t, t \in Seq(ToSet(t))
    PROVE  s \o t \in Seq(ToSet(s \o t)) /\ ToSet(s \o t) = ToSet(s) \cup ToSet(t)
<1>1. /\ Len(s) \in Nat /\ DOMAIN s = 1 .. Len(s)
      /\ Len(t) \in Nat /\ DOMAIN t = 1 .. Len(t)
  OBVIOUS
<1>2. /\ s \o t \in Seq(ToSet(s) \cup ToSet(t))
      /\ DOMAIN (s \o t) = 1 .. Len(s) + Len(t)
      /\ \A i \in 1 .. Len(s) : (s \o t)[i] = s[i]
      /\ \A i \in 1 .. Len(t) : (s \o t)[Len(s) + i] = t[i]
  <2>1. s \in Seq(ToSet(s) \cup ToSet(t)) /\ t \in Seq(ToSet(s) \cup ToSet(t))
    BY <1>1 DEF ToSet
  <2>2. QED
    BY <1>1, <2>1
<1>3. ToSet(s \o t) = ToSet(s) \cup ToSet(t)
  <2>1. ASSUME NEW e \in ToSet(s) PROVE e \in ToSet(s \o t)
    <3>1. PICK i \in 1 .. Len(s) : e = s[i]
      BY <1>1 DEF ToSet
    <3>2. i \in DOMAIN (s \o t) /\ (s \o t)[i] = e
      BY <1>1, <1>2, <3>1
    <3>3. QED
      BY <3>2 DEF ToSet
  <2>2. ASSUME NEW e \in ToSet(t) PROVE e \in ToSet(s \o t)
    <3>1. PICK i \in 1 .. Len(t) : e = t[i]
      BY <1>1 DEF ToSet
    <3>2. Len(s) + i \in DOMAIN (s \o t) /\ (s \o t)[Len(s) + i] = e
      BY <1>1, <1>2, <3>1
    <3>3. QED
      BY <3>2 DEF ToSet
  <2>3. ASSUME NEW e \in ToSet(s \o t) PROVE e \in ToSet(s) \cup ToSet(t)
    <3>1. PICK i \in DOMAIN (s \o t) : e = (s \o t)[i]
      BY DEF ToSet
    <3>2. e \in ToSet(s) \cup ToSet(t)
      BY <1>2, <3>1
    <3>3. QED
      BY <3>2
  <2>4. QED
    BY <2>1, <2>2, <2>3
<1>4. QED
  BY <1>2, <1>3

LEMMA NoEdges == <<>> \in Seq(ToSet(<<>>)) /\ ToSet(<<>>) = {}
BY DEF ToSet

LEMMA GraphAtFirst == Init => SeenInv /\ GraphInv
<1> SUFFICES ASSUME Init PROVE SeenInv /\ GraphInv
  OBVIOUS
<1>1. /\ loading = "no" /\ edges = <<>>
      /\ seen = [r \in Places |-> [f \in Names |-> {}]]
  BY DEF Init, DataflowInit, NothingSeen
<1>2. QED
  BY <1>1, NoEdges DEF SeenInv, GraphInv

\* A step that touches neither the files nor the load keeps the graph.
LEMMA GraphKept ==
    ASSUME SeenInv, GraphInv, UNCHANGED <<diskVars, loadVars>>
    PROVE  SeenInv' /\ GraphInv'
<1>1. UNCHANGED <<disk, seen, loading, toScan, found, paths, nodes, edges, status>>
  BY DEF diskVars, loadVars
<1>2. SeenInv'
  BY <1>1 DEF SeenInv
<1>3. \A v : (VersionOf(v) /\ Merged(v)) => (VersionOf(v) /\ Merged(v))'
  BY <1>1 DEF VersionOf, Merged, ReadIn
<1>4. Sound' <=> Sound
  BY <1>1 DEF Sound
<1>5. GraphInv'
  BY <1>1, <1>3, <1>4 DEF GraphInv
<1>6. QED
  BY <1>2, <1>5

\* A request that is refused leaves nothing to be served.
LEMMA RefusedKeeps ==
    ASSUME SeenInv, GraphInv, NEW code, code # 200, Refuse(code), UNCHANGED diskVars
    PROVE  SeenInv' /\ GraphInv'
BY DEF SeenInv, GraphInv, Refuse, diskVars

LEMMA ReadKeeps ==
    ASSUME TypeOK, SeenInv, GraphInv, NEW f \in paths, NEW x \in Fragment,
           x = disk[found][f], Mergeable(x), loading = "read", paths' = paths \ {f},
           nodes' = nodes \cup Definitions(x), edges' = edges \o x.edges,
           UNCHANGED <<diskVars, loading, toScan, found, status>>
    PROVE  SeenInv' /\ GraphInv'
<1>1. UNCHANGED <<disk, seen>> /\ f \in Names
  BY DEF diskVars, TypeOK
<1>2. SeenInv'
  BY <1>1 DEF SeenInv
<1>3. edges \in Seq(ToSet(edges)) /\ found \in Places
  BY DEF GraphInv
<1>4. /\ edges' \in Seq(ToSet(edges'))
      /\ ToSet(edges') = ToSet(edges) \cup ToSet(x.edges)
  <2>1. x.edges \in Seq(ToSet(x.edges))
    BY FragmentsAreGraphs
  <2>2. QED
    BY <1>3, <2>1, JoinedEdges
<1>5. Functional(nodes')
  BY DEF Mergeable
<1>6. PICK version : VersionOf(version) /\ Merged(version)
  BY DEF GraphInv
<1>7. PICK version2 : version2 = [version EXCEPT ![f] = x]
  OBVIOUS
<1>8. x \in seen[found][f] /\ x # Absent
  BY <1>1, <1>3, DistinctValues DEF SeenInv
<1>9. VersionOf(version2)'
  <2>1. /\ version \in [Names -> Fragment \cup {Absent}]
        /\ \A g \in paths : version[g] = Absent
        /\ \A g \in Names \ paths : version[g] \in seen[found][g]
    BY <1>6 DEF VersionOf
  <2>2. version2 \in [Names -> Fragment \cup {Absent}]
    BY <1>7, <2>1
  <2>3. \A g \in paths \ {f} : version2[g] = Absent
    BY <1>1, <1>7, <2>1 DEF TypeOK
  <2>4. \A g \in Names \ (paths \ {f}) : version2[g] \in seen[found][g]
    BY <1>1, <1>7, <1>8, <2>1
  <2>5. QED
    BY <1>1, <2>2, <2>3, <2>4 DEF VersionOf
<1>10. ReadIn(version2) = ReadIn(version) \cup {x}
  <2>1. version \in [Names -> Fragment \cup {Absent}] /\ version[f] = Absent
    BY <1>6 DEF VersionOf
  <2>2. \A g \in Names : version2[g] = IF g = f THEN x ELSE version[g]
    BY <1>7, <2>1
  <2>3. QED
    BY <1>1, <1>8, <2>1, <2>2 DEF ReadIn
<1>11. Merged(version2)'
  <2>1. ReadIn(version2)' = ReadIn(version2)
    BY DEF ReadIn
  <2>2. /\ nodes = UNION {Definitions(y) : y \in ReadIn(version)}
        /\ ToSet(edges) = UNION {ToSet(y.edges) : y \in ReadIn(version)}
    BY <1>6 DEF Merged
  <2>3. nodes' = UNION {Definitions(y) : y \in ReadIn(version2)}
    BY <1>10, <2>2
  <2>4. ToSet(edges') = UNION {ToSet(y.edges) : y \in ReadIn(version2)}
    BY <1>4, <1>10, <2>2
  <2>5. QED
    BY <2>1, <2>3, <2>4 DEF Merged
<1>12. \E v : (VersionOf(v) /\ Merged(v))'
  BY <1>9, <1>11
<1>13. GraphInv'
  BY <1>3, <1>4, <1>5, <1>12 DEF GraphInv
<1>14. QED
  BY <1>2, <1>13

LEMMA LoadGraph ==
    ASSUME TypeOK, SeenInv, GraphInv, Load
    PROVE  SeenInv' /\ GraphInv'
<1>1. UNCHANGED diskVars
  BY DEF Load, LoadStep, Scan, Resolved, List, ReadFragment, Validate
<1>2. ASSUME NEW code \in {404, 422, 500}, Refuse(code) PROVE SeenInv' /\ GraphInv'
  BY <1>1, <1>2, RefusedKeeps
<1>3. CASE Scan
  <2>1. CASE Refuse(500)
    BY <1>2, <2>1
  <2>2. CASE UNCHANGED <<loading, nodes, edges, status>> /\ loading = "scan"
    BY <1>1, <2>2 DEF SeenInv, GraphInv, diskVars
  <2>3. QED
    BY <1>3, <2>1, <2>2 DEF Scan
<1>4. CASE Resolved
  <2>1. CASE Refuse(404)
    BY <1>2, <2>1
  <2>2. CASE /\ found # None /\ loading = "scan" /\ loading' = "list"
             /\ UNCHANGED <<toScan, found, nodes, edges, status>>
    BY <1>1, <2>2 DEF SeenInv, GraphInv, diskVars, TypeOK
  <2>3. QED
    BY <1>4, <2>1, <2>2 DEF Resolved
<1>5. CASE List
  <2>1. CASE Refuse(422)
    BY <1>2, <2>1
  <2>2. CASE /\ loading = "list" /\ loading' = "read" /\ paths' = Present(found)
             /\ UNCHANGED <<toScan, found, nodes, edges, status>>
    <3> DEFINE version == [f \in Names |-> Absent]
    <3>1. UNCHANGED <<disk, seen>> /\ found \in Places /\ nodes = {} /\ edges = <<>>
      BY <1>1, <2>2 DEF diskVars, GraphInv
    <3>2. SeenInv'
      BY <2>2, <3>1 DEF SeenInv
    <3>3. VersionOf(version)'
      <4>1. \A f \in Names \ Present(found) : disk[found][f] = Absent
        BY DEF Present
      <4>2. \A f \in Names \ Present(found) : Absent \in seen[found][f]
        BY <2>2, <3>1, <4>1 DEF SeenInv
      <4>3. paths' \subseteq Names
        BY <2>2 DEF Present
      <4>4. QED
        BY <2>2, <3>1, <4>2, <4>3 DEF VersionOf
    <3>4. Merged(version)'
      <4>1. ReadIn(version)' = {}
        BY DEF ReadIn
      <4>2. nodes' = {} /\ ToSet(edges') = {}
        BY <2>2, <3>1, NoEdges
      <4>3. QED
        BY <4>1, <4>2 DEF Merged
    <3>5. \E v : (VersionOf(v) /\ Merged(v))'
      BY <3>3, <3>4
    <3>6. Functional(nodes')
      BY <2>2, <3>1 DEF Functional
    <3>7. GraphInv'
      BY <2>2, <3>1, <3>5, <3>6 DEF GraphInv
    <3>8. QED
      BY <3>2, <3>7
  <2>3. QED
    BY <1>5, <2>1, <2>2 DEF List
<1>6. CASE ReadFragment
  <2>1. CASE \E code \in {422, 500} : Refuse(code)
    BY <1>2, <2>1
  <2>2. ASSUME NEW f \in paths, NEW x \in Fragment, x = disk[found][f],
               Mergeable(x), loading = "read", paths' = paths \ {f},
               nodes' = nodes \cup Definitions(x), edges' = edges \o x.edges,
               UNCHANGED <<loading, toScan, found, status>>
        PROVE  SeenInv' /\ GraphInv'
    BY <1>1, <2>2, ReadKeeps
  <2>3. PICK f \in paths :
          \/ \E code \in {422, 500} : Refuse(code)
          \/ /\ disk[found][f] \in Fragment /\ Mergeable(disk[found][f])
             /\ nodes' = nodes \cup Definitions(disk[found][f])
             /\ edges' = edges \o disk[found][f].edges
             /\ UNCHANGED <<loading, toScan, found, status>>
             /\ loading = "read" /\ paths' = paths \ {f}
    BY <1>6 DEF ReadFragment, IsNext
  <2>4. QED
    BY <2>1, <2>2, <2>3
<1>7. CASE Validate
  <2>1. CASE Refuse(422)
    BY <1>2, <2>1
  <2>2. CASE /\ loading = "read" /\ paths = {} /\ Sound /\ loading' = "done"
             /\ UNCHANGED <<toScan, found, paths, nodes, edges, status>>
    <3>1. SeenInv'
      BY <1>1, <2>2 DEF SeenInv, diskVars
    <3>2. \A v : (VersionOf(v) /\ Merged(v)) => (VersionOf(v) /\ Merged(v))'
      BY <1>1, <2>2 DEF VersionOf, Merged, ReadIn, diskVars
    <3>3. Sound'
      BY <2>2 DEF Sound
    <3>4. GraphInv'
      BY <2>2, <3>2, <3>3 DEF GraphInv
    <3>5. QED
      BY <3>1, <3>4
  <2>3. QED
    BY <1>7, <2>1, <2>2 DEF Validate
<1>8. QED
  BY <1>3, <1>4, <1>5, <1>6, <1>7 DEF Load, LoadStep

LEMMA EditGraph ==
    ASSUME TypeOK, SeenInv, GraphInv, NEW r \in Places, NEW f \in Names, Edit(r, f)
    PROVE  SeenInv' /\ GraphInv'
<1>1. PICK content \in Fragment \cup {Absent, Broken} :
          /\ disk' = [disk EXCEPT ![r][f] = content]
          /\ seen' = [seen EXCEPT ![r][f] = @ \cup {content}]
  BY DEF Edit
<1>2. /\ UNCHANGED <<loading, toScan, found, paths, nodes, edges, status>>
      /\ loading # "done"
  BY DEF Edit, loadVars
<1>3. \A q \in Places, g \in Names : seen[q][g] \subseteq seen'[q][g]
  BY <1>1 DEF SeenInv
<1>4. SeenInv'
  <2>1. seen' \in [Places -> [Names -> SUBSET (Fragment \cup {Absent, Broken})]]
    BY <1>1 DEF SeenInv
  <2>2. ASSUME NEW q \in Places, NEW g \in Names, loading' \notin {"no", "done"}
        PROVE  disk'[q][g] \in seen'[q][g]
    <3>1. disk[q][g] \in seen[q][g]
      BY <1>2, <2>2 DEF SeenInv
    <3>2. CASE q = r /\ g = f
      BY <1>1, <3>2 DEF SeenInv, TypeOK
    <3>3. CASE ~(q = r /\ g = f)
      BY <1>1, <3>1, <3>3 DEF SeenInv, TypeOK
    <3>4. QED
      BY <3>2, <3>3
  <2>3. QED
    BY <2>1, <2>2 DEF SeenInv
<1>5. ASSUME NEW v, found \in Places, VersionOf(v), Merged(v)
      PROVE  (VersionOf(v) /\ Merged(v))'
  <2>1. VersionOf(v)'
    BY <1>2, <1>3, <1>5 DEF VersionOf
  <2>2. Merged(v)'
    BY <1>2, <1>5 DEF Merged, ReadIn
  <2>3. QED
    BY <2>1, <2>2
<1>6. GraphInv'
  BY <1>2, <1>5 DEF GraphInv
<1>7. QED
  BY <1>4, <1>6

LEMMA GraphStep ==
    ASSUME TypeOK, SeenInv, GraphInv, StageInv, Next
    PROVE  SeenInv' /\ GraphInv'
<1>1. ASSUME NEW r \in Request, Receive(r) PROVE SeenInv' /\ GraphInv'
  <2>1. /\ loading' = "scan" /\ status' = 200
        /\ nodes' = {} /\ edges' = <<>> /\ disk' = disk
        /\ seen' = [q \in Places |-> [f \in Names |-> {disk[q][f]}]]
    BY <1>1 DEF Receive, StartLoad
  <2>2. SeenInv'
    BY <2>1 DEF SeenInv, TypeOK
  <2>3. GraphInv'
    BY <2>1, NoEdges DEF GraphInv
  <2>4. QED
    BY <2>2, <2>3
<1>2. CASE Load
  BY <1>2, LoadGraph
<1>3. CASE PastGate
  <2>1. CASE Gate = 200
    <3>1. UNCHANGED <<diskVars, loadVars>>
      BY <1>3, <2>1 DEF PastGate
    <3>2. QED
      BY <3>1, GraphKept
  <2>2. CASE Gate # 200
    <3>1. Refuse(Gate) /\ UNCHANGED diskVars
      BY <1>3, <2>2 DEF PastGate
    <3>2. QED
      BY <2>2, <3>1, RefusedKeeps
  <2>3. QED
    BY <2>1, <2>2
<1>4. CASE Look
  BY <1>4, LookLeaves, GraphKept
<1>5. CASE LookFails
  <2>1. Refuse(IF looking \in {"metadata", "config", "committed"} THEN 502 ELSE 500)
        /\ UNCHANGED diskVars
    BY <1>5 DEF LookFails
  <2>2. QED
    BY <2>1, RefusedKeeps
<1>6. CASE TimeUp
  <2>1. UNCHANGED <<diskVars, loadVars>>
    BY <1>6 DEF TimeUp
  <2>2. QED
    BY <2>1, GraphKept
<1>7. CASE Respond
  <2>1. loading' = "no" /\ edges' = <<>> /\ seen' = NothingSeen
    BY <1>7 DEF Respond, EndLoad
  <2>2. QED
    BY <2>1, NoEdges DEF SeenInv, GraphInv, NothingSeen
<1>8. CASE Surroundings
  <2>1. ASSUME NEW r \in Places, NEW f \in Names, Edit(r, f) PROVE SeenInv' /\ GraphInv'
    BY <2>1, EditGraph
  <2>2. CASE UNCHANGED <<diskVars, loadVars>>
    BY <2>2, GraphKept
  <2>3. QED
    BY <1>8, <2>1, <2>2 DEF Surroundings
<1>9. QED
  BY <1>1, <1>2, <1>3, <1>4, <1>5, <1>6, <1>7, <1>8 DEF Next

-----------------------------------------------------------------------------
(***************************************************************************)
(* What is served, whatever happens around the request.                    *)
(***************************************************************************)
LEMMA ServedAtFirst == Init => ServedInv
<1> SUFFICES ASSUME Init PROVE ServedInv
  OBVIOUS
<1>1. looking = "no"
  BY DEF Init, TopicInit
<1>2. LagInv
  BY <1>1 DEF LagInv, Counting
<1>3. QED
  BY <1>2, TypesAtFirst, GraphAtFirst DEF ServedInv

LEMMA ServedStep == ServedInv /\ [Next]_vars => ServedInv'
<1> SUFFICES ASSUME ServedInv, [Next]_vars PROVE ServedInv'
  OBVIOUS
<1> USE DEF ServedInv
<1>1. CASE Next
  <2>1. SeenInv' /\ GraphInv'
    BY <1>1, GraphStep
  <2>2. CASE (\E r \in Request : Receive(r)) \/ PastGate \/ Respond \/ LookFails \/ TimeUp
    BY <2>1, <2>2, RequestTypes, RequestStages
  <2>3. CASE Load
    BY <2>1, <2>3, LoadTypes, RequestStages
  <2>4. CASE Look
    BY <2>1, <2>4, LookTypes, LookStages, LookLag
  <2>5. CASE Surroundings
    BY <2>1, <2>5, SurroundingsTypes, SurroundingsLag
  <2>6. QED
    BY <1>1, <2>2, <2>3, <2>4, <2>5 DEF Next
<1>2. CASE UNCHANGED vars
  <2>1. /\ UNCHANGED <<disk, loading, toScan, found, paths, nodes, edges, status, seen>>
        /\ UNCHANGED <<changes, log, stamp, low, committed, looking, ask, current, total>>
        /\ UNCHANGED <<next, want, messages, behind, request, quiet>>
        /\ UNCHANGED <<diskVars, loadVars>>
    BY <1>2 DEF vars, diskVars, loadVars, topicVars, lookVars
  <2>2. TypeOK'
    BY <2>1, StampsKept DEF TypeOK
  <2>3. SeenInv' /\ GraphInv'
    BY <2>1, GraphKept
  <2>4. StageInv'
    BY <2>1 DEF StageInv, High, Of
  <2>5. LagInv'
    BY <2>1 DEF LagInv, Counting, Hidden, OffsetOf, Of
  <2>6. QED
    BY <2>2, <2>3, <2>4, <2>5
<1>3. QED
  BY <1>1, <1>2

LEMMA ServedAlways == Spec => []ServedInv
BY ServedAtFirst, ServedStep, PTL DEF Spec

\* Every variable of a request keeps its type.
THEOREM RequestTypesHold == Spec => []TypeOK
<1>1. ServedInv => TypeOK
  BY DEF ServedInv
<1>2. QED
  BY <1>1, ServedAlways, PTL

\* However its files change while they are read, a flow that is served is the union
\* of one content of each of them, which the file held during the request.
THEOREM GraphsAreOfHeldFiles == Spec => []ServedFromHeldFiles
<1>1. ServedInv => ServedFromHeldFiles
  <2> SUFFICES ASSUME ServedInv, Responding, status = 200
               PROVE  /\ Functional(nodes) /\ Sound
                      /\ \E version \in [Names -> Fragment \cup {Absent}] :
                           /\ \A f \in Names : version[f] \in seen[found][f]
                           /\ Merged(version)
    BY DEF ServedFromHeldFiles, Merged, ReadIn
  <2>1. loading = "done" /\ GraphInv
    BY DEF Responding, ServedInv
  <2>2. paths = {} /\ Sound /\ Functional(nodes)
    BY <2>1 DEF GraphInv
  <2>3. PICK version : VersionOf(version) /\ Merged(version)
    BY <2>1 DEF GraphInv
  <2>4. QED
    BY <2>2, <2>3 DEF VersionOf
<1>2. QED
  BY <1>1, ServedAlways, PTL

\* A lag that is served counts every message that the group had not read when its
\* offsets were fetched and that is still there.
THEOREM LagHidesNothing == Spec => []LagIsNeverUnderstated
<1>1. ServedInv => LagIsNeverUnderstated
  <2> SUFFICES ASSUME ServedInv, Responding, status = 200, request.endpoint = "lag"
               PROVE  total >= Cardinality({i \in behind : OffsetOf(i) >= low[log[i]]})
    BY DEF LagIsNeverUnderstated
  <2>1. looking = "done" /\ Counting
    BY DEF Responding, Counting
  <2>2. ask = {}
    BY <2>1 DEF ServedInv, StageInv
  <2>3. {i \in behind : OffsetOf(i) >= low[log[i]]} = Hidden
    BY <2>2 DEF Hidden
  <2>4. QED
    BY <2>1, <2>3 DEF ServedInv, LagInv
<1>2. QED
  BY <1>1, ServedAlways, PTL

-----------------------------------------------------------------------------
(***************************************************************************)
(* Requests that nothing happens to: the graph.                            *)
(***************************************************************************)
LEMMA CandidateCount ==
    /\ \A r : Candidates = {r} => Cardinality(Candidates) = 1
    /\ \A r, s \in Candidates : r # s => Cardinality(Candidates) > 1
    /\ Candidates = {} => Cardinality(Candidates) = 0
    /\ Candidates \subseteq Places
<1>1. Candidates \in SUBSET Places
  BY DEF Candidates
<1>2. IsFiniteSet(Places)
  <2> DEFINE place == [i \in 1 .. Len(Root) |-> Root[i]]
  <2>1. Len(Root) \in Nat /\ DOMAIN Root = 1 .. Len(Root)
    BY FlowConstants
  <2>2. place \in Surjection(1 .. Len(Root), Places)
    BY <2>1 DEF Surjection, Places, ToSet
  <2>3. IsFiniteSet(1 .. Len(Root))
    BY <2>1, FS_Interval
  <2> HIDE DEF place
  <2>4. QED
    BY <2>2, <2>3, FS_Surjection
<1>3. IsFiniteSet(Candidates) /\ Cardinality(Candidates) \in Nat
  BY <1>1, <1>2, FS_Subset, FS_CardinalityType
<1>4. /\ Cardinality(Candidates) = 0 <=> Candidates = {}
      /\ Cardinality(Candidates) = 1 <=> \E r : Candidates = {r}
  BY <1>3, FS_EmptySet, FS_Singleton
<1>5. ASSUME NEW r \in Candidates, NEW s \in Candidates, r # s
      PROVE  Cardinality(Candidates) > 1
  <2>1. Candidates # {} /\ ~\E x : Candidates = {x}
    BY <1>5
  <2>2. QED
    BY <1>3, <1>4, <2>1
<1>6. QED
  BY <1>1, <1>4, <1>5

LEMMA HeadAndRest ==
    ASSUME NEW S, NEW s \in Seq(S), s # <<>>
    PROVE  \A x \in ToSet(s) : x = Head(s) \/ x \in ToSet(Tail(s))
<1> SUFFICES ASSUME NEW i \in DOMAIN s, i # 1 PROVE s[i] \in ToSet(Tail(s))
  BY DEF ToSet
<1>1. Len(s) \in Nat /\ i \in 2 .. Len(s) /\ DOMAIN Tail(s) = 1 .. Len(s) - 1
  OBVIOUS
<1>2. i - 1 \in DOMAIN Tail(s) /\ Tail(s)[i - 1] = s[i]
  BY <1>1
<1>3. QED
  BY <1>2 DEF ToSet

\* What has been read of the found directory.
Done == {disk[found][f] : f \in Present(found) \ paths}

\* In a quiet request the graph so far is that of the files as they are.
LEMMA QuietMerged ==
    ASSUME ServedInv, QuietLoad, quiet, request # None, loading = "read"
    PROVE  /\ nodes = UNION {Definitions(x) : x \in Done}
           /\ ToSet(edges) = UNION {ToSet(x.edges) : x \in Done}
<1>1. /\ found \in Places /\ paths \subseteq Present(found)
      /\ \A f \in Names : seen[found][f] = {disk[found][f]}
  BY DEF ServedInv, GraphInv, QuietLoad
<1>2. PICK version : VersionOf(version) /\ Merged(version)
  BY DEF ServedInv, GraphInv
<1>3. /\ \A f \in paths : version[f] = Absent
      /\ \A f \in Names \ paths : version[f] = disk[found][f]
  BY <1>1, <1>2 DEF VersionOf
<1>4. ReadIn(version) = Done
  BY <1>1, <1>3 DEF ReadIn, Done, Present
<1>5. QED
  BY <1>2, <1>4 DEF Merged

\* An error of the load is one the files deserve.
LEMMA RefusedExactly ==
    ASSUME Candidates = {found}, ~Accepted(found), NEW code \in {422, 500},
           Readable(found) => code = 422,
           Refuse(code), UNCHANGED <<disk, request>>
    PROVE  GraphIsExact'
<1>1. /\ status' = code
      /\ Candidates' = Candidates /\ \A r : Readable(r)' = Readable(r) /\ Accepted(r)' = Accepted(r)
  BY DEF Refuse, Candidates, Accepted, Readable, AllDefinitions, AllEdges, Fragments, Present
<1>2. Cardinality(Candidates) = 1 /\ Candidates # {}
  BY CandidateCount
<1>3. QED
  BY <1>1, <1>2 DEF GraphIsExact

LEMMA ScanExactly ==
    ASSUME ServedInv, QuietLoad, quiet, request # None, Scan,
           UNCHANGED <<quiet, request>>
    PROVE  QuietLoad'
<1> DEFINE r == Head(toScan)
<1>1. /\ UNCHANGED <<disk, seen>> /\ loading = "scan"
      /\ \A q : Present(q)' = Present(q)
      /\ Candidates' = Candidates
  BY DEF Scan, diskVars, Candidates, Present
<1>2. /\ \A q \in Places, f \in Names : seen[q][f] = {disk[q][f]}
      /\ found \in Candidates \cup {None}
      /\ \A q \in Candidates : q = found \/ q \in ToSet(toScan)
  BY <1>1 DEF QuietLoad
<1>3. /\ toScan \in Seq(Places) /\ toScan # <<>> /\ r \in Places
      /\ \A q \in ToSet(toScan) : q = r \/ q \in ToSet(Tail(toScan))
  <2>1. toScan \in Seq(Places) /\ toScan # <<>>
    BY DEF ServedInv, TypeOK, Scan
  <2>2. QED
    BY <2>1, HeadAndRest
<1>4. r \in Candidates <=> r \in Fixed \/ Present(r) # {}
  BY <1>3 DEF Candidates
<1>5. CASE r \in Candidates /\ found \notin {None, r} /\ Refuse(500)
  <2>1. Cardinality(Candidates) > 1 /\ Candidates # {}
    BY <1>2, <1>5, CandidateCount
  <2>2. loading' = "done" /\ status' = 500
    BY <1>5 DEF Refuse
  <2>3. GraphIsExact'
    BY <1>1, <2>1, <2>2 DEF GraphIsExact
  <2>4. QED
    BY <1>1, <1>2, <2>2, <2>3 DEF QuietLoad
<1>6. CASE /\ ~(r \in Candidates /\ found \notin {None, r})
           /\ found' = IF r \in Candidates THEN r ELSE found
           /\ toScan' = Tail(toScan) /\ loading' = loading
  <2>1. found' \in Candidates \cup {None}
    BY <1>2, <1>6
  <2>2. ASSUME NEW q \in Candidates PROVE q = found' \/ q \in ToSet(toScan')
    <3>1. q # None
      BY CandidateCount, DistinctValues
    <3>2. CASE q = found
      BY <1>6, <3>1, <3>2
    <3>3. CASE q \in ToSet(toScan)
      BY <1>3, <1>6, <3>3
    <3>4. QED
      BY <1>2, <3>2, <3>3
  <2>3. QED
    BY <1>1, <1>2, <1>6, <2>1, <2>2 DEF QuietLoad
<1>7. QED
  BY <1>4, <1>5, <1>6 DEF Scan

LEMMA ResolvedExactly ==
    ASSUME ServedInv, QuietLoad, quiet, request # None, Resolved,
           UNCHANGED <<quiet, request>>
    PROVE  QuietLoad'
<1>1. /\ UNCHANGED <<disk, seen>> /\ loading = "scan" /\ toScan = <<>>
      /\ Candidates' = Candidates
  BY DEF Resolved, diskVars, Candidates, Present
<1>2. /\ \A q \in Places, f \in Names : seen[q][f] = {disk[q][f]}
      /\ found \in Candidates \cup {None}
      /\ \A q \in Candidates : q = found
  <2>1. ToSet(toScan) = {}
    BY <1>1, NoEdges
  <2>2. QED
    BY <1>1, <2>1 DEF QuietLoad
<1>3. CASE found = None /\ Refuse(404)
  <2>1. Candidates = {}
    BY <1>2, <1>3, CandidateCount, DistinctValues
  <2>2. loading' = "done" /\ status' = 404
    BY <1>3 DEF Refuse
  <2>3. Cardinality(Candidates) = 0
    BY <2>1, CandidateCount
  <2>4. GraphIsExact'
    BY <1>1, <2>1, <2>2, <2>3 DEF GraphIsExact
  <2>5. QED
    BY <1>1, <1>2, <2>2, <2>4 DEF QuietLoad
<1>4. CASE found # None /\ loading' = "list" /\ found' = found
  BY <1>1, <1>2, <1>4 DEF QuietLoad
<1>5. QED
  BY <1>3, <1>4 DEF Resolved

LEMMA ListExactly ==
    ASSUME ServedInv, QuietLoad, quiet, request # None, List,
           UNCHANGED <<quiet, request>>
    PROVE  QuietLoad'
<1>1. /\ UNCHANGED <<disk, seen>> /\ loading = "list" /\ paths' = Present(found)
      /\ \A q : Present(q)' = Present(q)
      /\ Candidates' = Candidates
  BY DEF List, diskVars, Candidates, Present
<1>2. /\ \A q \in Places, f \in Names : seen[q][f] = {disk[q][f]}
      /\ Candidates = {found}
  BY <1>1 DEF QuietLoad
<1>3. CASE Present(found) = {} /\ Refuse(422)
  <2>1. Fragments(found) = {}
    BY <1>3 DEF Fragments
  <2>2. GraphIsExact'
    BY <1>1, <1>2, <1>3, <2>1, RefusedExactly DEF Accepted, Readable
  <2>3. loading' = "done"
    BY <1>3 DEF Refuse
  <2>4. QED
    BY <1>1, <1>2, <2>2, <2>3 DEF QuietLoad
<1>4. CASE Present(found) # {} /\ loading' = "read" /\ found' = found
  BY <1>1, <1>2, <1>4 DEF QuietLoad
<1>5. QED
  BY <1>1, <1>3, <1>4 DEF List

LEMMA ReadExactly ==
    ASSUME ServedInv, QuietLoad, quiet, request # None, ReadFragment,
           UNCHANGED <<quiet, request>>
    PROVE  QuietLoad'
<1>1. /\ UNCHANGED <<disk, seen>> /\ loading = "read"
      /\ \A q : Present(q)' = Present(q)
      /\ Candidates' = Candidates
  BY DEF ReadFragment, diskVars, Candidates, Present
<1>2. /\ \A q \in Places, f \in Names : seen[q][f] = {disk[q][f]}
      /\ Candidates = {found}
      /\ paths \subseteq Present(found) /\ Present(found) # {}
      /\ \A f \in Present(found) \ paths : Fits(disk[found][f])
  BY <1>1 DEF QuietLoad
<1>3. PICK f \in paths :
        \/ disk[found][f] \in {Absent, Broken} /\ Refuse(422)
        \/ disk[found][f] \in Fragment /\ ~Mergeable(disk[found][f]) /\ Refuse(422)
        \/ disk[found][f] \in Fragment /\ Invalid(disk[found][f]) /\ Refuse(500)
        \/ /\ disk[found][f] \in Fragment /\ ~Invalid(disk[found][f])
           /\ Mergeable(disk[found][f])
           /\ UNCHANGED <<loading, found>> /\ paths' = paths \ {f}
  BY DEF ReadFragment, IsNext
<1>4. PICK x : x = disk[found][f]
  OBVIOUS
<1>5. x \in Fragments(found) /\ x # Absent
  BY <1>2, <1>3, <1>4 DEF Fragments, Present
<1>6. ASSUME ~Accepted(found), NEW code \in {422, 500}, Refuse(code),
             Readable(found) => code = 422
      PROVE  QuietLoad'
  <2>1. GraphIsExact'
    BY <1>1, <1>2, <1>6, RefusedExactly
  <2>2. loading' = "done"
    BY <1>6 DEF Refuse
  <2>3. QED
    BY <1>1, <1>2, <2>1, <2>2 DEF QuietLoad
<1>7. CASE x \in {Absent, Broken} /\ Refuse(422)
  BY <1>5, <1>6, <1>7 DEF Accepted, Readable
<1>8. CASE x \in Fragment /\ ~Mergeable(x) /\ Refuse(422)
  <2>1. CASE \E n \in x.node : n.id = None
    BY <1>5, <1>6, <1>8, <2>1 DEF Accepted, Readable
  <2>2. CASE ~Functional(nodes \cup Definitions(x))
    <3>1. nodes = UNION {Definitions(y) : y \in Done}
      BY <1>1, QuietMerged
    <3>2. Done \subseteq Fragments(found)
      BY DEF Done, Fragments
    <3>3. nodes \cup Definitions(x) \subseteq AllDefinitions(found)
      BY <1>5, <3>1, <3>2 DEF AllDefinitions
    <3>4. ~Functional(AllDefinitions(found))
      BY <2>2, <3>3 DEF Functional
    <3>5. QED
      BY <1>6, <1>8, <3>4 DEF Accepted, Readable
  <2>3. QED
    BY <1>8, <2>1, <2>2 DEF Mergeable
<1>9. CASE x \in Fragment /\ Invalid(x) /\ Refuse(500)
  BY <1>5, <1>6, <1>9 DEF Accepted, Readable
<1>10. CASE /\ x \in Fragment /\ ~Invalid(x) /\ Mergeable(x)
            /\ UNCHANGED <<loading, found>> /\ paths' = paths \ {f}
  <2>1. Fits(x)
    BY <1>10 DEF Fits, Mergeable
  <2>2. \A g \in Present(found) \ paths' : Fits(disk[found][g])
    BY <1>2, <1>4, <1>10, <2>1
  <2>3. QED
    BY <1>1, <1>2, <1>10, <2>2 DEF QuietLoad
<1>11. QED
  BY <1>3, <1>4, <1>7, <1>8, <1>9, <1>10

LEMMA ValidateExactly ==
    ASSUME ServedInv, QuietLoad, quiet, request # None, Validate,
           UNCHANGED <<quiet, request>>
    PROVE  QuietLoad'
<1>1. /\ UNCHANGED <<disk, seen>> /\ loading = "read" /\ paths = {} /\ loading' = "done"
      /\ Candidates' = Candidates
      /\ UNCHANGED <<nodes, edges, found>>
  BY DEF Validate, Refuse, diskVars, Candidates, Present
<1>2. /\ \A q \in Places, f \in Names : seen[q][f] = {disk[q][f]}
      /\ Candidates = {found} /\ Present(found) # {}
      /\ \A f \in Present(found) : Fits(disk[found][f])
  BY <1>1 DEF QuietLoad
<1>3. /\ \A x \in Fragments(found) : Fits(x)
      /\ Fragments(found) # {}
  BY <1>2 DEF Fragments
<1>4. Done = Fragments(found)
  BY <1>1 DEF Done, Fragments
<1>5. nodes = AllDefinitions(found) /\ ToSet(edges) = AllEdges(found)
  BY <1>1, <1>4, QuietMerged DEF AllDefinitions, AllEdges
<1>6. Functional(nodes) /\ status = 200
  BY <1>1 DEF ServedInv, GraphInv
<1>7. Sound <=> /\ \A x \in AllDefinitions(found) : x[2].schema # "unknown"
                /\ \A e \in AllEdges(found) :
                     ToSet(e) \subseteq {x[1] : x \in AllDefinitions(found)}
  <2>1. (\A i \in DOMAIN edges : ToSet(edges[i]) \subseteq {x[1] : x \in nodes}) <=>
        (\A e \in ToSet(edges) : ToSet(e) \subseteq {x[1] : x \in nodes})
    <3>1. ToSet(edges) = {edges[i] : i \in DOMAIN edges}
      BY DEF ToSet
    <3>2. QED
      BY <3>1
  <2>2. QED
    BY <1>5, <2>1 DEF Sound
<1>8. Accepted(found) <=> Sound
  <2>1. Broken \notin Fragments(found)
    BY <1>3, DistinctValues DEF Fits
  <2>2. QED
    BY <1>3, <1>5, <1>6, <1>7, <2>1 DEF Accepted, Readable, Fits
<1>9. GraphIsExact'
  <2>1. CASE ~Sound
    <3>1. Refuse(422)
      BY <2>1 DEF Validate
    <3>2. QED
      BY <1>1, <1>2, <1>8, <2>1, <3>1, RefusedExactly
  <2>2. CASE Sound
    <3>1. status' = 200
      BY <1>6, <2>2 DEF Validate
    <3>2. Cardinality(Candidates) = 1
      BY <1>2, CandidateCount
    <3>3. /\ \A r : Readable(r)' = Readable(r) /\ Accepted(r)' = Accepted(r)
          /\ \A r : AllDefinitions(r)' = AllDefinitions(r) /\ AllEdges(r)' = AllEdges(r)
      BY <1>1 DEF Accepted, Readable, AllDefinitions, AllEdges, Fragments, Present
    <3>4. QED
      BY <1>1, <1>2, <1>5, <1>8, <2>2, <3>1, <3>2, <3>3 DEF GraphIsExact
  <2>3. QED
    BY <2>1, <2>2
<1>10. QED
  BY <1>1, <1>2, <1>9 DEF QuietLoad

LEMMA QuietLoadKept ==
    ASSUME QuietLoad, UNCHANGED <<diskVars, loadVars, request, quiet>>
    PROVE  QuietLoad'
<1>1. UNCHANGED <<disk, seen, loading, toScan, found, paths, nodes, edges, status,
                  request, quiet>>
  BY DEF diskVars, loadVars
<1>2. /\ Candidates' = Candidates
      /\ \A r : Present(r)' = Present(r)
      /\ \A r : Readable(r)' = Readable(r) /\ Accepted(r)' = Accepted(r)
      /\ \A r : AllDefinitions(r)' = AllDefinitions(r) /\ AllEdges(r)' = AllEdges(r)
  BY <1>1 DEF Candidates, Present, Accepted, Readable, AllDefinitions, AllEdges, Fragments
<1>3. GraphIsExact' = GraphIsExact
  BY <1>1, <1>2 DEF GraphIsExact
<1>4. QED
  BY <1>1, <1>2, <1>3 DEF QuietLoad

LEMMA ReceiveExactly ==
    ASSUME NEW r \in Request, Receive(r)
    PROVE  QuietLoad'
<1>1. /\ loading' = "scan" /\ found' = None /\ toScan' = Root
      /\ \A q \in Places, f \in Names : seen'[q][f] = {disk'[q][f]}
  BY DEF Receive, StartLoad
<1>2. Candidates' \subseteq Places /\ ToSet(toScan') = Places
  BY <1>1 DEF Candidates, Places
<1>3. QED
  BY <1>1, <1>2 DEF QuietLoad

\* A request that is refused at the gate had its graph.
LEMMA GateExactly ==
    ASSUME QuietLoad, quiet, PastGate
    PROVE  QuietLoad'
<1>1. /\ UNCHANGED <<diskVars, request, quiet>> /\ loading = "done" /\ status = 200
      /\ request # None /\ request.endpoint # "graph"
  BY DEF PastGate
<1>2. CASE Gate = 200
  <2>1. UNCHANGED <<diskVars, loadVars>>
    BY <1>2 DEF PastGate
  <2>2. QED
    BY <1>1, <2>1, QuietLoadKept
<1>3. CASE Gate # 200
  <2>1. /\ loading' = "done" /\ UNCHANGED <<found, nodes, edges, disk, seen>>
        /\ status' \in {404, 422}
    BY <1>1, <1>3 DEF PastGate, Refuse, Gate, diskVars
  <2>2. /\ Candidates' = Candidates
        /\ \A r : Present(r)' = Present(r)
        /\ \A r : Readable(r)' = Readable(r) /\ Accepted(r)' = Accepted(r)
        /\ \A r : AllDefinitions(r)' = AllDefinitions(r) /\ AllEdges(r)' = AllEdges(r)
    BY <2>1 DEF Candidates, Present, Accepted, Readable, AllDefinitions, AllEdges, Fragments
  <2>3. GraphIsExact /\ \A r \in Places, f \in Names : seen[r][f] = {disk[r][f]}
    BY <1>1 DEF QuietLoad
  <2>4. Candidates # {} /\ ~(Cardinality(Candidates) > 1)
    BY <1>1, <2>3 DEF GraphIsExact
  <2>5. GraphIsExact'
    BY <1>1, <2>1, <2>2, <2>3, <2>4 DEF GraphIsExact
  <2>6. QED
    BY <1>1, <2>1, <2>3, <2>5 DEF QuietLoad
<1>4. QED
  BY <1>2, <1>3

-----------------------------------------------------------------------------
(***************************************************************************)
(* Requests that nothing happens to: the lookups.                          *)
(***************************************************************************)
LEMMA NoLookYet ==
    ASSUME looking' \in {"no", "metadata", "config", "committed"}
    PROVE  QuietLook'
BY DEF QuietLook, Counting

\* What a lookup is counted against stays as it is.
LEMMA TopicKept ==
    ASSUME UNCHANGED <<log, low, committed>>
    PROVE  /\ \A i : OffsetOf(i)' = OffsetOf(i)
           /\ \A p : High(p)' = High(p) /\ TailOf(p)' = TailOf(p)
           /\ Tails' = Tails /\ Unread' = Unread
<1>1. \A i : OffsetOf(i)' = OffsetOf(i)
  BY DEF OffsetOf, Of
<1>2. \A p : High(p)' = High(p)
  BY DEF High, Of
<1>3. \A p : TailOf(p)' = TailOf(p)
  BY <1>2 DEF TailOf
<1>4. Tails' = Tails
  BY <1>1, <1>3 DEF Tails
<1>5. Unread' = Unread
  BY <1>1 DEF Unread
<1>6. QED
  BY <1>1, <1>2, <1>3, <1>4, <1>5

\* Each partition's unread messages are counted when its watermarks come.
LEMMA LagExactly ==
    ASSUME ServedInv, QuietLook, NEW p \in Partition, FetchLag(p),
           UNCHANGED <<status, request, quiet>>, quiet, request # None
    PROVE  QuietLook'
<1> DEFINE o == From(current, p)
           Counted == {i \in Of(p) : OffsetOf(i) >= o}
           Known == {i \in Unread : log[i] \notin ask}
<1>1. /\ looking = "lag" /\ looking' \in {"lag", "done"} /\ p \in ask /\ ask' = ask \ {p}
      /\ total' = total + (IF High(p) > o THEN High(p) - o ELSE 0)
      /\ UNCHANGED <<log, low, committed, current>>
  BY DEF FetchLag, topicVars
<1>2. request.endpoint = "lag" /\ TypeOK
  BY <1>1 DEF ServedInv, StageInv
<1>3. SUFFICES ASSUME Counting'
               PROVE  /\ current' = committed'
                      /\ total' = Cardinality({i \in Unread' : log'[i] \notin ask'})
  BY <1>1, <1>2 DEF QuietLook
<1>4. Counting
  BY <1>1, <1>3 DEF Counting
<1>5. current = committed /\ total = Cardinality(Known)
  BY <1>4 DEF QuietLook
<1>6. o \in Nat /\ High(p) \in Nat /\ total \in Nat /\ log \in Seq(Partition)
  BY <1>2, OffsetsRise DEF From, TypeOK
<1>7. Cardinality(Counted) = IF High(p) > o THEN High(p) - o ELSE 0
  BY <1>6, TailCount
<1>8. {i \in Unread' : log'[i] \notin ask'} = Known \cup Counted
  <2>1. Unread' = Unread
    BY <1>1, TopicKept
  <2>2. Counted = {i \in Unread : log[i] = p}
    BY <1>5 DEF Unread, From, Of
  <2>3. QED
    BY <1>1, <2>1, <2>2
<1>9. Known \cap Counted = {}
  BY <1>1 DEF Of
<1>10. Known \in SUBSET DOMAIN log /\ Counted \in SUBSET DOMAIN log
  BY DEF Unread, Of
<1>11. Cardinality(Known \cup Counted) = Cardinality(Known) + Cardinality(Counted)
  BY <1>6, <1>9, <1>10, DisjointSizes
<1> HIDE DEF o, Counted, Known
<1>12. total' = Cardinality(Known \cup Counted)
  BY <1>1, <1>5, <1>7, <1>11
<1>13. QED
  BY <1>1, <1>5, <1>8, <1>12

\* Each partition's tail is waited for once its watermarks are known.
LEMMA TailExactly ==
    ASSUME ServedInv, QuietLook, NEW p \in Partition, FetchTail(p),
           UNCHANGED <<status, request, quiet>>, quiet, request # None
    PROVE  QuietLook'
<1> DEFINE Counted == {i \in Of(p) : OffsetOf(i) >= TailOf(p)}
           Known == {i \in Tails : log[i] \notin ask}
<1>1. /\ looking = "tails" /\ p \in ask /\ ask' = ask \ {p}
      /\ next' = [next EXCEPT ![p] = TailOf(p)]
      /\ want' = want + High(p) - TailOf(p)
      /\ looking' = IF ask' # {} THEN "tails" ELSE IF want' = 0 THEN "done" ELSE "poll"
      /\ UNCHANGED <<log, low, committed, current, total, messages>>
  BY DEF FetchTail, topicVars
<1>2. /\ request.endpoint = "snapshot" /\ messages = {} /\ TypeOK
      /\ \A q \in Partition : low[q] <= High(q)
  BY <1>1 DEF ServedInv, StageInv
<1>3. /\ want = Cardinality(Known)
      /\ \A q \in Partition \ ask : next[q] = TailOf(q)
  BY <1>1 DEF QuietLook
<1>4. /\ log \in Seq(Partition) /\ next \in [Partition -> Nat] /\ want \in Nat
      /\ ask \subseteq Partition
      /\ TailOf(p) \in Nat /\ High(p) \in Nat /\ TailOf(p) <= High(p)
  BY <1>2, TailStarts, OffsetsRise DEF TypeOK
<1>5. Cardinality(Counted) = High(p) - TailOf(p)
  <2>1. Cardinality(Counted) = IF High(p) > TailOf(p) THEN High(p) - TailOf(p) ELSE 0
    BY <1>4, TailCount
  <2> HIDE DEF Counted
  <2>2. QED
    BY <1>4, <2>1
<1>6. {i \in Tails : log[i] \notin ask'} = Known \cup Counted
  <2>1. Counted = {i \in Tails : log[i] = p}
    BY DEF Tails, Of
  <2>2. QED
    BY <1>1, <2>1
<1>7. Known \cap Counted = {}
  BY <1>1 DEF Of
<1>8. Known \in SUBSET DOMAIN log /\ Counted \in SUBSET DOMAIN log
  BY DEF Tails, Of
<1>9. Cardinality(Known \cup Counted) = Cardinality(Known) + Cardinality(Counted)
  BY <1>4, <1>7, <1>8, DisjointSizes
<1>10. want' = Cardinality({i \in Tails : log[i] \notin ask'})
  <2> HIDE DEF Counted, Known
  <2>1. want' = Cardinality(Known \cup Counted)
    BY <1>1, <1>3, <1>4, <1>5, <1>9
  <2>2. QED
    BY <1>6, <2>1
<1>11. \A q \in Partition \ ask' : next'[q] = TailOf(q)
  BY <1>1, <1>3, <1>4
<1>12. /\ Tails' = Tails /\ \A q : TailOf(q)' = TailOf(q)
       /\ \A i : OffsetOf(i)' = OffsetOf(i)
  BY <1>1, TopicKept
<1>13. CASE ask' # {}
  <2>1. looking' = "tails"
    BY <1>1, <1>13
  <2>2. QED
    BY <1>1, <1>10, <1>11, <1>12, <2>1 DEF QuietLook, Counting
<1>14. CASE ask' = {}
  <2>1. want' = Cardinality(Tails)
    <3>1. {i \in Tails : log[i] \notin ask'} = Tails
      BY <1>14
    <3>2. QED
      BY <1>10, <3>1
  <2>2. \A q \in Partition : next'[q] = TailOf(q) /\ TailOf(q) \in Nat
    BY <1>2, <1>11, <1>14, TailStarts
  <2>3. \A i \in Tails : /\ log[i] \in Partition /\ OffsetOf(i) \in Nat
                         /\ OffsetOf(i) >= TailOf(log[i])
    BY <1>4, OffsetsRise DEF Tails, Of
  <2>4. CASE want' = 0
    <3>1. Tails \in SUBSET DOMAIN log
      BY DEF Tails
    <3>2. IsFiniteSet(Tails)
      BY <1>4, <3>1, MessagesFinite
    <3>3. Tails = {}
      BY <2>1, <2>4, <3>2, FS_EmptySet
    <3>4. looking' = "done"
      BY <1>1, <1>14, <2>4
    <3>5. QED
      BY <1>1, <1>2, <1>12, <3>3, <3>4 DEF QuietLook, Counting
  <2>5. CASE want' # 0
    <3>1. looking' = "poll"
      BY <1>1, <1>14, <2>5
    <3>2. {i \in Tails : OffsetOf(i) < next'[log[i]]} = {}
      BY <2>2, <2>3
    <3>3. \A q \in Partition : TailOf(q) <= next'[q]
      BY <2>2
    <3>4. QED
      BY <1>1, <1>2, <1>12, <2>1, <3>1, <3>2, <3>3 DEF QuietLook, Counting
  <2>6. QED
    BY <2>4, <2>5
<1>15. QED
  BY <1>13, <1>14

\* A poll brings the tails' messages in the order of their partitions, each once.
LEMMA PollExactly ==
    ASSUME ServedInv, QuietLook, NEW p \in Partition, PollMessage(p),
           UNCHANGED <<status, request, quiet>>, quiet, request # None
    PROVE  QuietLook'
<1>1. /\ looking = "poll"
      /\ next' = [next EXCEPT ![p] = @ + 1]
      /\ looking' = IF Cardinality(messages') < want THEN "poll" ELSE "done"
      /\ UNCHANGED <<log, low, committed, want>>
  BY DEF PollMessage, topicVars
<1>2. PICK i \in Of(p) : OffsetOf(i) = next[p] /\ messages' = messages \cup {i}
  BY DEF PollMessage
<1>3. request.endpoint = "snapshot" /\ TypeOK
  BY <1>1 DEF ServedInv, StageInv
<1>4. /\ want = Cardinality(Tails)
      /\ \A q \in Partition : TailOf(q) <= next[q]
      /\ messages = {j \in Tails : OffsetOf(j) < next[log[j]]}
  BY <1>1 DEF QuietLook
<1>5. /\ log \in Seq(Partition) /\ next \in [Partition -> Nat]
      /\ \A j \in DOMAIN log : log[j] \in Partition /\ j \in Of(log[j]) /\ j \in Nat
  BY <1>3 DEF TypeOK, Of
<1>6. \A j \in DOMAIN log : OffsetOf(j) \in Nat
  BY <1>5, OffsetsRise
<1>7. \A q \in Partition : TailOf(q) \in Nat
  BY <1>3, TailStarts DEF ServedInv, StageInv
<1>8. i \in DOMAIN log /\ log[i] = p /\ i \in Tails
  <2>1. i \in DOMAIN log /\ log[i] = p
    BY DEF Of
  <2>2. OffsetOf(i) >= TailOf(log[i])
    BY <1>2, <1>4, <1>5, <1>7, <2>1
  <2>3. QED
    BY <2>1, <2>2 DEF Tails
<1>9. \A j \in Of(p) : OffsetOf(j) = next[p] => j = i
  <2> SUFFICES ASSUME NEW j \in Of(p), OffsetOf(j) = next[p], j # i PROVE FALSE
    OBVIOUS
  <2>1. j \in Nat /\ i \in Nat /\ next[p] \in Nat
    BY <1>5 DEF Of
  <2>2. /\ i < j => OffsetOf(i) < OffsetOf(j)
        /\ j < i => OffsetOf(j) < OffsetOf(i)
    BY <1>2, <1>5, OffsetsRise
  <2>3. QED
    BY <1>2, <2>1, <2>2
<1>10. messages' = {j \in Tails : OffsetOf(j) < next'[log[j]]}
  <2>1. ASSUME NEW j \in Tails
        PROVE  j \in messages' <=> OffsetOf(j) < next'[log[j]]
    <3>1. j \in DOMAIN log /\ log[j] \in Partition /\ OffsetOf(j) \in Nat /\ j \in Of(log[j])
      BY <1>5, <1>6 DEF Tails
    <3>2. CASE log[j] = p
      <4>1. next'[log[j]] = next[p] + 1 /\ next[p] \in Nat
        BY <1>1, <1>5, <3>2
      <4>2. OffsetOf(j) < next'[log[j]] <=> OffsetOf(j) < next[p] \/ OffsetOf(j) = next[p]
        BY <3>1, <4>1
      <4>3. OffsetOf(j) = next[p] <=> j = i
        BY <1>2, <1>9, <3>1, <3>2
      <4>4. QED
        BY <1>2, <1>4, <3>2, <4>2, <4>3
    <3>3. CASE log[j] # p
      <4>1. next'[log[j]] = next[log[j]] /\ j # i
        BY <1>1, <1>5, <1>8, <3>1, <3>3
      <4>2. QED
        BY <1>2, <1>4, <4>1
    <3>4. QED
      BY <3>2, <3>3
  <2>2. messages' \subseteq Tails
    BY <1>2, <1>4, <1>8
  <2>3. QED
    BY <2>1, <2>2
<1>11. \A q \in Partition : TailOf(q) <= next'[q]
  BY <1>1, <1>4, <1>5, <1>7
<1>12. /\ Tails' = Tails /\ \A q : TailOf(q)' = TailOf(q)
       /\ \A j : OffsetOf(j)' = OffsetOf(j)
  BY <1>1, TopicKept
<1>13. looking' = "done" => messages' = Tails
  <2>1. messages' \in SUBSET Tails /\ Tails \in SUBSET DOMAIN log
    BY <1>10 DEF Tails
  <2>2. /\ Cardinality(messages') >= Cardinality(Tails) => messages' = Tails
        /\ Cardinality(messages') \in Nat /\ Cardinality(Tails) \in Nat
    BY <1>5, <2>1, PartIsSmaller
  <2>3. QED
    BY <1>1, <1>4, <2>2
<1>14. looking' \in {"poll", "done"}
  BY <1>1
<1>15. QED
  BY <1>1, <1>3, <1>4, <1>10, <1>11, <1>12, <1>13, <1>14 DEF QuietLook, Counting

LEMMA LookExactly ==
    ASSUME ServedInv, QuietLook, Look, quiet, request # None
    PROVE  QuietLook'
<1>1. UNCHANGED <<log, low, committed, status, request, quiet>>
  BY LookLeaves DEF topicVars, loadVars
<1>2. TypeOK /\ StageInv
  BY DEF ServedInv
<1>3. /\ Tails' = Tails /\ Unread' = Unread
      /\ \A p : TailOf(p)' = TailOf(p)
      /\ \A i : OffsetOf(i)' = OffsetOf(i)
  BY <1>1, TopicKept
<1>4. \A i \in DOMAIN log : log[i] \in Partition
  BY <1>2 DEF TypeOK
<1>5. CASE Resolve
  <2>1. /\ looking = "metadata"
        /\ looking' \in {"committed", "config", "tails"}
        /\ UNCHANGED <<ask, want>>
    BY <1>2, <1>5, ResolveTo
  <2>2. ask = Partition /\ want = 0
    BY <1>2, <2>1 DEF StageInv
  <2>3. {i \in Tails : log[i] \notin ask} = {}
    BY <1>4, <2>2 DEF Tails
  <2>4. want' = Cardinality({i \in Tails' : log'[i] \notin ask'})
    BY <1>1, <1>3, <2>1, <2>2, <2>3, FS_EmptySet
  <2>5. looking' = "tails" => QuietLook'
    BY <2>1, <2>2, <2>4 DEF QuietLook, Counting
  <2>6. QED
    BY <2>1, <2>5, NoLookYet
<1>6. CASE FetchConfig
  <2>1. looking' = "done" /\ request.endpoint = "topic-stats"
    BY <1>2, <1>6 DEF FetchConfig, LookTo, StageInv
  <2>2. QED
    BY <1>1, <2>1 DEF QuietLook, Counting
<1>7. CASE FetchCommitted
  <2>1. /\ looking = "committed" /\ looking' = "lag" /\ current' = committed
        /\ UNCHANGED <<ask, total>>
    BY <1>7 DEF FetchCommitted
  <2>2. ask = Partition /\ total = 0
    BY <1>2, <2>1 DEF StageInv
  <2>3. {i \in Unread : log[i] \notin ask} = {}
    BY <1>4, <2>2 DEF Unread
  <2>4. total' = Cardinality({i \in Unread' : log'[i] \notin ask'})
    BY <1>1, <1>3, <2>1, <2>2, <2>3, FS_EmptySet
  <2>5. QED
    BY <1>1, <2>1, <2>4 DEF QuietLook
<1>8. CASE PollNothing
  <2>1. UNCHANGED <<looking, ask, current, total, next, want, messages>>
    BY <1>8 DEF PollNothing, lookVars
  <2>2. QED
    BY <1>1, <1>3, <2>1 DEF QuietLook, Counting
<1>9. ASSUME NEW p \in Partition, PollResets(p) PROVE FALSE
  <2>1. looking = "poll" /\ next[p] < low[p]
    BY <1>9 DEF PollResets
  <2>2. TailOf(p) <= next[p]
    BY <2>1 DEF QuietLook
  <2>3. low[p] <= High(p)
    BY <1>2 DEF StageInv
  <2>4. low[p] <= TailOf(p) /\ TailOf(p) \in Nat
    BY <1>2, <2>3, TailStarts
  <2>5. low[p] \in Nat /\ next[p] \in Nat
    BY <1>2 DEF TypeOK
  <2>6. QED
    BY <2>1, <2>2, <2>4, <2>5
<1>10. ASSUME NEW p \in Partition, FetchLag(p) \/ FetchTail(p) \/ PollMessage(p)
       PROVE  QuietLook'
  BY <1>1, <1>10, LagExactly, TailExactly, PollExactly
<1>11. QED
  BY <1>5, <1>6, <1>7, <1>8, <1>9, <1>10 DEF Look, LookStep

-----------------------------------------------------------------------------
LEMMA QuietAtFirst == Init => QuietInv
<1> SUFFICES ASSUME Init PROVE QuietInv
  OBVIOUS
<1>1. request = None
  BY DEF Init
<1>2. QED
  BY <1>1, ServedAtFirst DEF QuietInv, QuietLoad, QuietLook

LEMMA QuietStep == QuietInv /\ [Next]_vars => QuietInv'
<1> SUFFICES ASSUME QuietInv, [Next]_vars PROVE QuietInv'
  OBVIOUS
<1>1. ServedInv /\ QuietLoad /\ QuietLook
  BY DEF QuietInv
<1>2. ServedInv'
  BY <1>1, ServedStep
<1>3. StageInv
  BY <1>1 DEF ServedInv
<1> SUFFICES QuietLoad' /\ QuietLook'
  BY <1>2 DEF QuietInv
<1>4. ASSUME NEW r \in Request, Receive(r) PROVE QuietLoad' /\ QuietLook'
  <2>1. looking' = "no"
    BY <1>3, <1>4 DEF Receive, StageInv, lookVars
  <2>2. QED
    BY <1>4, <2>1, ReceiveExactly, NoLookYet
<1>5. CASE Load
  <2>1. UNCHANGED <<looking, quiet, request>> /\ loading # "done"
    BY <1>5 DEF Load, LoadStep, Scan, Resolved, List, ReadFragment, Validate, lookVars
  <2>2. QuietLook'
    BY <1>3, <2>1, NoLookYet DEF StageInv
  <2>3. quiet /\ request # None => QuietLoad'
    BY <1>1, <1>5, <2>1, ScanExactly, ResolvedExactly, ListExactly, ReadExactly,
       ValidateExactly DEF Load, LoadStep
  <2>4. QED
    BY <2>1, <2>2, <2>3 DEF QuietLoad
<1>6. CASE PastGate
  <2>1. looking' \in {"no", "metadata"} /\ quiet' = quiet
    BY <1>6 DEF PastGate, StartLook, lookVars
  <2>2. quiet => QuietLoad'
    BY <1>1, <1>6, GateExactly
  <2>3. QED
    BY <2>1, <2>2, NoLookYet DEF QuietLoad
<1>7. CASE Look
  <2>1. UNCHANGED <<diskVars, loadVars, request, quiet>>
    BY <1>7, LookLeaves
  <2>2. quiet /\ request # None => QuietLook'
    BY <1>1, <1>7, LookExactly
  <2>3. QuietLoad'
    BY <1>1, <2>1, QuietLoadKept
  <2>4. QED
    BY <2>1, <2>2, <2>3 DEF QuietLook
<1>8. CASE LookFails \/ TimeUp \/ Surroundings
  <2>1. quiet' = FALSE
    BY <1>8 DEF LookFails, TimeUp, Surroundings
  <2>2. QED
    BY <2>1 DEF QuietLoad, QuietLook
<1>9. CASE Respond
  <2>1. request' = None
    BY <1>9 DEF Respond
  <2>2. QED
    BY <2>1 DEF QuietLoad, QuietLook
<1>10. CASE UNCHANGED vars
  <2>1. /\ UNCHANGED <<diskVars, loadVars, request, quiet, log, low, committed, status>>
        /\ UNCHANGED <<looking, ask, current, total, next, want, messages>>
    BY <1>10 DEF vars, loadVars, topicVars, lookVars
  <2>2. /\ Tails' = Tails /\ Unread' = Unread
        /\ \A p : TailOf(p)' = TailOf(p)
        /\ \A i : OffsetOf(i)' = OffsetOf(i)
    BY <2>1, TopicKept
  <2>3. QuietLook'
    BY <1>1, <2>1, <2>2 DEF QuietLook, Counting
  <2>4. QED
    BY <1>1, <2>1, <2>3, QuietLoadKept
<1>11. QED
  BY <1>4, <1>5, <1>6, <1>7, <1>8, <1>9, <1>10 DEF Next

LEMMA QuietAlways == Spec => []QuietInv
BY QuietAtFirst, QuietStep, PTL DEF Spec

-----------------------------------------------------------------------------
(***************************************************************************)
(* What the files mean, and what the code makes of it.                     *)
(***************************************************************************)

\* A single node as the code has it, with its "id" in the definition.
LEMMA KeptId ==
    ASSUME NEW x \in Fragment, NEW n \in x.node
    PROVE  LET kept == [n.def EXCEPT !.extra = @ \cup {"id"}]
           IN  /\ n.def = [kept EXCEPT !.extra = @ \ {"id"}]
               /\ kept.schema = n.def.schema
               /\ kept # n.def
               /\ [kept EXCEPT !.extra = @ \ {"id"}] = [n.def EXCEPT !.extra = @ \ {"id"}]
<1> DEFINE def == n.def
           kept == [n.def EXCEPT !.extra = @ \cup {"id"}]
<1>1. /\ def = [type |-> def.type, schema |-> def.schema,
                connected |-> def.connected, extra |-> def.extra]
      /\ "id" \notin def.extra
  BY FragmentsAreGraphs
<1>2. kept = [type |-> def.type, schema |-> def.schema,
              connected |-> def.connected, extra |-> def.extra \cup {"id"}]
  BY <1>1
<1>3. (def.extra \cup {"id"}) \ {"id"} = def.extra /\ def.extra \ {"id"} = def.extra
  BY <1>1
<1> HIDE DEF def, kept
<1>4. [kept EXCEPT !.extra = @ \ {"id"}] =
        [type |-> def.type, schema |-> def.schema,
         connected |-> def.connected, extra |-> def.extra]
  BY <1>2, <1>3
<1>5. [def EXCEPT !.extra = @ \ {"id"}] =
        [type |-> def.type, schema |-> def.schema,
         connected |-> def.connected, extra |-> def.extra]
  BY <1>1, <1>3
<1>6. kept.schema = def.schema /\ kept.extra = def.extra \cup {"id"}
  BY <1>2
<1>7. kept # def
  BY <1>1, <1>6
<1>8. QED
  BY <1>1, <1>4, <1>5, <1>6, <1>7 DEF def, kept

\* But for nodes in both forms the code accepts what is a dataflow, and merges it
\* to what its files mean; a dataflow with such a node it never accepts.
LEMMA FormsExactly ==
    ASSUME TypeOK, NEW r \in Places, Readable(r)
    PROVE  /\ ~BothForms(r) => (Accepted(r) <=> IsDataflow(r))
           /\ Bare(AllDefinitions(r)) = Bare(AllMeant(r))
           /\ IsDataflow(r) /\ BothForms(r) => ~Accepted(r)
<1> DEFINE kept(n) == [n.def EXCEPT !.extra = @ \cup {"id"}]
           Keyed == UNION {x.nodes : x \in Fragments(r)}
           Singles == UNION {x.node : x \in Fragments(r)}
<1>1. Fragments(r) \subseteq Fragment /\ Broken \notin Fragments(r)
  BY DEF Fragments, Present, TypeOK, Readable
<1>2. \A n \in Singles : /\ n.def = [kept(n) EXCEPT !.extra = @ \ {"id"}]
                         /\ kept(n).schema = n.def.schema
                         /\ kept(n) # n.def
                         /\ [kept(n) EXCEPT !.extra = @ \ {"id"}] =
                              [n.def EXCEPT !.extra = @ \ {"id"}]
  <2> SUFFICES ASSUME NEW n \in Singles
               PROVE  /\ n.def = [kept(n) EXCEPT !.extra = @ \ {"id"}]
                      /\ kept(n).schema = n.def.schema
                      /\ kept(n) # n.def
                      /\ [kept(n) EXCEPT !.extra = @ \ {"id"}] =
                           [n.def EXCEPT !.extra = @ \ {"id"}]
    OBVIOUS
  <2>1. PICK x \in Fragments(r) : n \in x.node
    OBVIOUS
  <2>2. x \in Fragment
    BY <1>1
  <2>3. QED
    BY <2>1, <2>2, KeptId
<1>3. /\ \A d \in Keyed : d \in AllMeant(r)
      /\ \A n \in Singles : <<n.id, n.def>> \in AllMeant(r)
      /\ \A d \in AllMeant(r) : d \in Keyed \/ \E n \in Singles : d = <<n.id, n.def>>
  BY DEF AllMeant, Meant
<1>4. /\ \A d \in Keyed : d \in AllDefinitions(r)
      /\ \A n \in Singles : <<n.id, kept(n)>> \in AllDefinitions(r)
      /\ \A d \in AllDefinitions(r) : d \in Keyed \/ \E n \in Singles : d = <<n.id, kept(n)>>
  <2>1. \A x : Definitions(x) = x.nodes \cup {<<n.id, kept(n)>> : n \in x.node}
    BY DEF Definitions
  <2> HIDE DEF kept
  <2>2. QED
    BY <2>1 DEF AllDefinitions
<1>5. BothForms(r) <=> \E d \in Keyed, n \in Singles : d[1] = n.id
  BY <1>1 DEF BothForms
<1>6. \A m, n \in Singles : kept(m) = kept(n) <=> m.def = n.def
  BY <1>2
<1> HIDE DEF kept, Keyed, Singles
<1>7. /\ {d[1] : d \in AllMeant(r)} = {d[1] : d \in AllDefinitions(r)}
      /\ (\A d \in AllMeant(r) : d[2].schema # "unknown") <=>
           \A d \in AllDefinitions(r) : d[2].schema # "unknown"
  <2>1. ASSUME NEW d \in AllMeant(r)
        PROVE  \E e \in AllDefinitions(r) : e[1] = d[1] /\ e[2].schema = d[2].schema
    <3>1. CASE d \in Keyed
      BY <1>4, <3>1
    <3>2. ASSUME NEW n \in Singles, d = <<n.id, n.def>>
          PROVE  \E e \in AllDefinitions(r) : e[1] = d[1] /\ e[2].schema = d[2].schema
      <4>1. PICK e \in AllDefinitions(r) : e = <<n.id, kept(n)>>
        BY <1>4
      <4>2. e[1] = n.id /\ e[2] = kept(n) /\ d[1] = n.id /\ d[2] = n.def
        BY <3>2, <4>1
      <4>3. QED
        BY <1>2, <4>2
    <3>3. QED
      BY <1>3, <3>1, <3>2
  <2>2. ASSUME NEW d \in AllDefinitions(r)
        PROVE  \E e \in AllMeant(r) : e[1] = d[1] /\ e[2].schema = d[2].schema
    <3>1. CASE d \in Keyed
      BY <1>3, <3>1
    <3>2. ASSUME NEW n \in Singles, d = <<n.id, kept(n)>>
          PROVE  \E e \in AllMeant(r) : e[1] = d[1] /\ e[2].schema = d[2].schema
      <4>1. PICK e \in AllMeant(r) : e = <<n.id, n.def>>
        BY <1>3
      <4>2. e[1] = n.id /\ e[2] = n.def /\ d[1] = n.id /\ d[2] = kept(n)
        BY <3>2, <4>1
      <4>3. QED
        BY <1>2, <4>2
    <3>3. QED
      BY <1>4, <3>1, <3>2
  <2>3. QED
    BY <2>1, <2>2
<1>8. ASSUME ~BothForms(r)
      PROVE  Functional(AllMeant(r)) <=> Functional(AllDefinitions(r))
  <2>1. \A d \in Keyed, n \in Singles : d[1] # n.id
    BY <1>5, <1>8
  <2>2. \A n \in Singles : /\ <<n.id, n.def>>[1] = n.id /\ <<n.id, n.def>>[2] = n.def
                           /\ <<n.id, kept(n)>>[1] = n.id /\ <<n.id, kept(n)>>[2] = kept(n)
    OBVIOUS
  <2>3. ASSUME Functional(AllMeant(r)) PROVE Functional(AllDefinitions(r))
    <3>1. \A m, n \in Singles : m.id = n.id => m.def = n.def
      BY <1>3, <2>2, <2>3 DEF Functional
    <3>2. \A d, e \in Keyed : d[1] = e[1] => d = e
      BY <1>3, <2>3 DEF Functional
    <3>3. SUFFICES ASSUME NEW d \in AllDefinitions(r), NEW e \in AllDefinitions(r),
                          d[1] = e[1]
                   PROVE  d = e
      BY DEF Functional
    <3>4. CASE d \in Keyed /\ e \in Keyed
      BY <3>2, <3>3, <3>4
    <3>5. CASE d \in Keyed /\ e \notin Keyed
      BY <1>4, <2>1, <2>2, <3>3, <3>5
    <3>6. CASE d \notin Keyed /\ e \in Keyed
      BY <1>4, <2>1, <2>2, <3>3, <3>6
    <3>7. CASE d \notin Keyed /\ e \notin Keyed
      <4>1. PICK m \in Singles, n \in Singles : d = <<m.id, kept(m)>> /\ e = <<n.id, kept(n)>>
        BY <1>4, <3>7
      <4>2. m.id = n.id
        BY <2>2, <3>3, <4>1
      <4>3. QED
        BY <1>6, <3>1, <4>1, <4>2
    <3>8. QED
      BY <3>4, <3>5, <3>6, <3>7
  <2>4. ASSUME Functional(AllDefinitions(r)) PROVE Functional(AllMeant(r))
    <3>1. \A m, n \in Singles : m.id = n.id => kept(m) = kept(n)
      BY <1>4, <2>2, <2>4 DEF Functional
    <3>2. \A d, e \in Keyed : d[1] = e[1] => d = e
      BY <1>4, <2>4 DEF Functional
    <3>3. SUFFICES ASSUME NEW d \in AllMeant(r), NEW e \in AllMeant(r), d[1] = e[1]
                   PROVE  d = e
      BY DEF Functional
    <3>4. CASE d \in Keyed /\ e \in Keyed
      BY <3>2, <3>3, <3>4
    <3>5. CASE d \in Keyed /\ e \notin Keyed
      BY <1>3, <2>1, <2>2, <3>3, <3>5
    <3>6. CASE d \notin Keyed /\ e \in Keyed
      BY <1>3, <2>1, <2>2, <3>3, <3>6
    <3>7. CASE d \notin Keyed /\ e \notin Keyed
      <4>1. PICK m \in Singles, n \in Singles : d = <<m.id, m.def>> /\ e = <<n.id, n.def>>
        BY <1>3, <3>7
      <4>2. m.id = n.id
        BY <2>2, <3>3, <4>1
      <4>3. QED
        BY <1>6, <3>1, <4>1, <4>2
    <3>8. QED
      BY <3>4, <3>5, <3>6, <3>7
  <2>5. QED
    BY <2>3, <2>4
<1>9. ASSUME Functional(AllMeant(r)), BothForms(r) PROVE ~Functional(AllDefinitions(r))
  <2>1. PICK d \in Keyed, n \in Singles : d[1] = n.id
    BY <1>5, <1>9
  <2>2. <<n.id, n.def>>[1] = n.id /\ <<n.id, kept(n)>>[1] = n.id
    OBVIOUS
  <2>3. d = <<n.id, n.def>>
    BY <1>3, <1>9, <2>1, <2>2 DEF Functional
  <2>4. d # <<n.id, kept(n)>>
    BY <1>2, <2>3
  <2>5. d \in AllDefinitions(r) /\ <<n.id, kept(n)>> \in AllDefinitions(r)
    BY <1>4
  <2>6. QED
    BY <2>1, <2>2, <2>4, <2>5 DEF Functional
<1>10. Bare(AllDefinitions(r)) = Bare(AllMeant(r))
  <2> DEFINE bare(d) == <<d[1], [d[2] EXCEPT !.extra = @ \ {"id"}]>>
  <2>1. \A n \in Singles : bare(<<n.id, kept(n)>>) = bare(<<n.id, n.def>>)
    <3> TAKE n \in Singles
    <3>1. /\ bare(<<n.id, kept(n)>>) = <<n.id, [kept(n) EXCEPT !.extra = @ \ {"id"}]>>
          /\ bare(<<n.id, n.def>>) = <<n.id, [n.def EXCEPT !.extra = @ \ {"id"}]>>
      OBVIOUS
    <3>2. QED
      BY <1>2, <3>1
  <2>2. /\ Bare(AllDefinitions(r)) = {bare(d) : d \in AllDefinitions(r)}
        /\ Bare(AllMeant(r)) = {bare(d) : d \in AllMeant(r)}
    BY DEF Bare
  <2> HIDE DEF bare
  <2>3. \A d \in AllDefinitions(r) : \E e \in AllMeant(r) : bare(d) = bare(e)
    <3> TAKE d \in AllDefinitions(r)
    <3>1. CASE d \in Keyed
      BY <1>3, <3>1
    <3>2. CASE \E n \in Singles : d = <<n.id, kept(n)>>
      BY <1>3, <2>1, <3>2
    <3>3. QED
      BY <1>4, <3>1, <3>2
  <2>4. \A d \in AllMeant(r) : \E e \in AllDefinitions(r) : bare(d) = bare(e)
    <3> TAKE d \in AllMeant(r)
    <3>1. CASE d \in Keyed
      BY <1>4, <3>1
    <3>2. CASE \E n \in Singles : d = <<n.id, n.def>>
      BY <1>4, <2>1, <3>2
    <3>3. QED
      BY <1>3, <3>1, <3>2
  <2>5. QED
    BY <2>2, <2>3, <2>4
<1>11. QED
  BY <1>7, <1>8, <1>9, <1>10 DEF Accepted, IsDataflow, Readable

\* A request that nothing happens to is answered exactly: with the flow it names
\* or the error its files deserve, with a lag that is what the group has not
\* read, and with the last messages of each partition, of which it shows the latest
\* of the whole topic if the timestamps are chronological.
THEOREM QuietRequestsAreExact == Spec => []QuietIsExact
<1>1. QuietInv => QuietIsExact
  <2> SUFFICES ASSUME QuietInv, Responding, quiet PROVE QuietIsExact
    BY DEF QuietIsExact
  <2>1. ServedInv /\ QuietLoad /\ QuietLook /\ request # None /\ loading = "done"
    BY DEF QuietInv, Responding
  <2>2. GraphIsExact /\ TypeOK /\ \A p \in Partition : low[p] <= High(p)
    BY <2>1 DEF QuietLoad, ServedInv, StageInv
  <2>3. ASSUME NEW r \in Candidates, Cardinality(Candidates) = 1
        PROVE  /\ IsDataflow(r) /\ BothForms(r) => status = 422
               /\ IsDataflow(r) /\ ~BothForms(r) =>
                    /\ Bare(nodes) = Bare(AllMeant(r))
                    /\ ToSet(edges) = AllEdges(r)
                    /\ request.endpoint = "graph" => status = 200
               /\ status = 200 /\ ~BothForms(r) => IsDataflow(r)
    <3>1. /\ status = 200 => Accepted(r)
          /\ Readable(r) /\ ~Accepted(r) => status = 422
          /\ Accepted(r) => /\ nodes = AllDefinitions(r)
                            /\ ToSet(edges) = AllEdges(r)
                            /\ request.endpoint = "graph" => status = 200
      BY <2>2, <2>3 DEF GraphIsExact
    <3>2. (IsDataflow(r) => Readable(r)) /\ (Accepted(r) => Readable(r))
      BY DEF IsDataflow, Accepted, Readable
    <3>3. CASE Readable(r)
      <4>1. r \in Places
        BY CandidateCount
      <4>2. /\ ~BothForms(r) => (Accepted(r) <=> IsDataflow(r))
            /\ Bare(AllDefinitions(r)) = Bare(AllMeant(r))
            /\ IsDataflow(r) /\ BothForms(r) => ~Accepted(r)
        BY <2>2, <3>3, <4>1, FormsExactly
      <4>3. QED
        BY <3>1, <3>3, <4>2
    <3>4. CASE ~Readable(r)
      BY <3>1, <3>2, <3>4
    <3>5. QED
      BY <3>3, <3>4
  <2>4. ASSUME status = 200, request.endpoint = "lag"
        PROVE  total = Cardinality(Unread)
    <3>1. looking = "done" /\ Counting
      BY <2>4 DEF Responding, Counting
    <3>2. ask = {}
      BY <2>1, <2>4, <3>1 DEF ServedInv, StageInv
    <3>3. {i \in Unread : log[i] \notin ask} = Unread
      BY <3>2
    <3>4. QED
      BY <2>1, <3>1, <3>3 DEF QuietLook
  <2>5. ASSUME status = 200, request.endpoint = "snapshot"
        PROVE  /\ messages = LastOfEach
               /\ Chronological => Shown(messages) \subseteq Shown(Available)
    <3>1. looking = "done"
      BY <2>5 DEF Responding
    <3>2. messages = Tails
      BY <2>1, <2>5, <3>1 DEF QuietLook
    <3>3. QED
      BY <2>2, <3>2, TailsAreTheLast, LatestOfTails
  <2>6. QED
    BY <2>2, <2>3, <2>4, <2>5 DEF QuietIsExact, GraphIsExact
<1>2. QED
  BY <1>1, QuietAlways, PTL

=============================================================================
