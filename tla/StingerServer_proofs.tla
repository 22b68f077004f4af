------------------------ MODULE StingerServer_proofs ------------------------
(***************************************************************************)
(* Theorems about StingerServer for any dataset the benchmark accepts, any *)
(* batch size and window, any number of threads, and both sort modes.      *)
(***************************************************************************)
EXTENDS StingerServer, WellFoundedInduction, FiniteSetTheorems, TLAPS

-----------------------------------------------------------------------------
(* The inductive invariant.                                                *)

Counters == [inDegree : Nat, outDegree : Nat, degree : Nat]

\* A slot is in use while it has a direction; what is known to be no older than
\* the dataset is the time of a slot with the direction OUT.
SlotOK(slot, oldest) ==
  /\ slot \in Slots
  /\ slot.neighbor = Blank <=> slot.dirs = {}
  /\ "OUT" \in slot.dirs => slot.timeRecent >= oldest

\* A list: its slots, of which no two are of the same neighbour.
ListOK(l, oldest) ==
  /\ l \in Seq(Slots)
  /\ \A i \in DOMAIN l : SlotOK(l[i], oldest)
  /\ \A i, j \in DOMAIN l : l[i].neighbor = l[j].neighbor /\ l[i].neighbor # Blank => i = j

Directed(l, d) == Cardinality({i \in DOMAIN l : d \in l[i].dirs})
Used(l) == Cardinality({i \in DOMAIN l : l[i].neighbor # Blank})

\* The counters of a vertex are those of its own slots.
Counts(l) == [inDegree |-> Directed(l, "IN"), outDegree |-> Directed(l, "OUT"), degree |-> Used(l)]

\* The half of an edge is in the lists.
HalfDone(L, e, d) ==
  IF d = "OUT" THEN e.dst \in Neighbors(L[e.src], "OUT") ELSE e.src \in Neighbors(L[e.dst], "IN")

SetupOK ==
  /\ edges \in Datasets /\ window \in Windows /\ num_threads \in ThreadCounts
  /\ sort_mode \in SortModes

\* The edges of the batch after the filter.
BatchFirst == FilteredStart(BatchStart(batch_id), batch_id)
BatchLast == BatchEnd(batch_id)

\* Where the trial is.
ControlOK ==
  /\ batch_id \in 0 .. NumBatches
  /\ phase \in {"before_batch", "deletions", "insertions", "done"}
  /\ phase = "done" <=> batch_id = NumBatches
  /\ sort_mode = "SNAPSHOT" => phase \in {"before_batch", "done"}
  /\ next \in 1 .. Len(edges) + 1
  /\ phase = "insertions" => next \in BatchFirst .. BatchLast + 1

\* The edges under way.
InflightOK ==
  /\ inflight \subseteq [edge : DOMAIN edges, half : {1, 2}]
  /\ IsFiniteSet(inflight) /\ Cardinality(inflight) <= num_threads
  /\ phase # "insertions" => inflight = {}

\* The graph of run_dynamic.
UpdatedOK == sort_mode = "UNSORTED" =>
  /\ lists \in [Vertices -> Seq(Slots)]
  /\ \A v \in Vertices : ListOK(lists[v], MinTimestamp)
  /\ vertex = [v \in Vertices |-> Counts(lists[v])]
  /\ snapshot = {}

\* Of the edges of a batch handed out so far the halves not under way are there.
BatchDone ==
  phase = "insertions" =>
    \A i \in BatchFirst .. next - 1 : \A half \in {1, 2} :
      (\A c \in inflight : c.edge = i => c.half > half) =>
        HalfDone(lists, edges[i], HalfDirection(edges[i], half))

\* The graph of run_static.
LoadedOK == sort_mode = "SNAPSHOT" =>
  /\ snapshot \subseteq Range(edges)
  /\ \A e, f \in snapshot : SameEdge(e, f) => e = f
  /\ lists = [v \in Vertices |-> LoadedList(snapshot, v)]
  /\ vertex = [v \in Vertices |-> LoadedVertex(lists, v)]

\* What before_batch recorded is still what expires.
RecordedOK ==
  /\ recentDeletions \subseteq Vertices \X Vertices
  /\ phase = "deletions" => recentDeletions = Expiring(lists)

IInv ==
  /\ SetupOK /\ ControlOK /\ InflightOK /\ UpdatedOK /\ BatchDone /\ LoadedOK /\ RecordedOK
  /\ BatchIsWhole /\ max_active_vertex \in Vertices \cup {0}

-----------------------------------------------------------------------------
(* Numbers.                                                                *)

LEMMA MinOf ==
  ASSUME NEW A \in SUBSET Nat, A # {}
  PROVE  Min(A) \in A /\ \A x \in A : Min(A) <= x
<1>1. \E x \in A : \A y \in A : ~(<<y, x>> \in OpToRel(<, Nat))
  BY NatLessThanWellFounded, WFMin
<1>2. PICK x \in A : \A y \in A : <<y, x>> \notin OpToRel(<, Nat)
  BY <1>1
<1>3. \A y \in A : ~(y < x)
  BY <1>2, Zenon DEF OpToRel
<1>4. \E z \in A : \A y \in A : z <= y
  BY <1>3
<1> QED BY <1>4 DEF Min

\* A finite set of numbers has a greatest one: the one that fewest are above of.
LEMMA MaxOf ==
  ASSUME NEW A \in SUBSET Nat, IsFiniteSet(A), A # {}
  PROVE  Max(A) \in A /\ \A x \in A : x <= Max(A)
<1> DEFINE Above(x) == {y \in A : y > x}
           T == {Cardinality(Above(x)) : x \in A}
<1>1. \A x \in A : IsFiniteSet(Above(x)) /\ Cardinality(Above(x)) \in Nat
  <2> SUFFICES ASSUME NEW x \in A PROVE IsFiniteSet(Above(x)) /\ Cardinality(Above(x)) \in Nat
    OBVIOUS
  <2>1. Above(x) \in SUBSET A
    OBVIOUS
  <2> QED BY <2>1, FS_Subset, FS_CardinalityType
<1>2. T \in SUBSET Nat /\ T # {}
  BY <1>1
<1>3. Min(T) \in T /\ \A y \in T : Min(T) <= y
  BY <1>2, MinOf
<1>4. PICK x \in A : Min(T) = Cardinality(Above(x))
  BY <1>3
<1>5. \A y \in A : x >= y
  <2> SUFFICES ASSUME NEW y \in A, y > x PROVE FALSE
    OBVIOUS
  <2>1. Above(y) \in SUBSET Above(x) /\ Above(y) # Above(x)
    <3>1. y \in Above(x) /\ y \notin Above(y)
      OBVIOUS
    <3>2. \A z \in Above(y) : z \in Above(x)
      OBVIOUS
    <3> HIDE DEF Above
    <3> QED BY <3>1, <3>2
  <2>2. Cardinality(Above(y)) <= Cardinality(Above(x)) /\ Cardinality(Above(y)) # Cardinality(Above(x))
    BY <1>1, <2>1, FS_Subset
  <2>3. Min(T) <= Cardinality(Above(y))
    BY <1>3
  <2> HIDE DEF Above, T
  <2> QED BY <1>1, <1>4, <2>2, <2>3
<1>6. \E z \in A : \A y \in A : z >= y
  BY <1>5
<1>7. Max(A) \in A /\ \A y \in A : Max(A) >= y
  BY <1>6 DEF Max
<1> QED BY <1>7

\* A set of numbers has an i-th smallest one for every i up to its size, and
\* every one of it is the i-th smallest for one i.
LEMMA NthOf ==
  ASSUME NEW A \in SUBSET Nat, IsFiniteSet(A)
  PROVE  /\ Cardinality(A) \in Nat
         /\ \A i \in 1 .. Cardinality(A) : Nth(A, i) \in A
         /\ \A n \in A : \E i \in 1 .. Cardinality(A) : Nth(A, i) = n
         /\ \A i, j \in 1 .. Cardinality(A) : Nth(A, i) = Nth(A, j) => i = j
<1> DEFINE Below(x) == {y \in A : y < x}
           N == Cardinality(A)
           rank == [x \in A |-> Cardinality(Below(x)) + 1]
<1>1. N \in Nat
  BY FS_CardinalityType
<1>2. \A x \in A : IsFiniteSet(Below(x)) /\ Cardinality(Below(x)) \in 0 .. N - 1
  <2> SUFFICES ASSUME NEW x \in A PROVE IsFiniteSet(Below(x)) /\ Cardinality(Below(x)) \in 0 .. N - 1
    OBVIOUS
  <2>1. Below(x) \in SUBSET A /\ Below(x) # A
    OBVIOUS
  <2>2. IsFiniteSet(Below(x)) /\ Cardinality(Below(x)) <= N /\ Cardinality(Below(x)) # N
    BY <2>1, FS_Subset
  <2>3. Cardinality(Below(x)) \in Nat
    BY <2>2, FS_CardinalityType
  <2> HIDE DEF Below, N
  <2> QED BY <1>1, <2>2, <2>3
<1>3. \A x, y \in A : x < y => Cardinality(Below(x)) < Cardinality(Below(y))
  <2> SUFFICES ASSUME NEW x \in A, NEW y \in A, x < y
               PROVE  Cardinality(Below(x)) < Cardinality(Below(y))
    OBVIOUS
  <2>1. Below(x) \in SUBSET Below(y) /\ Below(x) # Below(y)
    <3>1. x \in Below(y) /\ x \notin Below(x)
      OBVIOUS
    <3>2. \A z \in Below(x) : z \in Below(y)
      OBVIOUS
    <3> HIDE DEF Below
    <3> QED BY <3>1, <3>2
  <2>2. Cardinality(Below(x)) <= Cardinality(Below(y)) /\ Cardinality(Below(x)) # Cardinality(Below(y))
    BY <1>2, <2>1, FS_Subset
  <2> HIDE DEF Below, N
  <2> QED BY <1>2, <2>2
<1>4. \A x, y \in A : Cardinality(Below(x)) = Cardinality(Below(y)) => x = y
  <2> SUFFICES ASSUME NEW x \in A, NEW y \in A, Cardinality(Below(x)) = Cardinality(Below(y)), x # y
               PROVE  FALSE
    OBVIOUS
  <2>1. x < y \/ y < x
    OBVIOUS
  <2> HIDE DEF Below, N
  <2> QED BY <1>1, <1>2, <1>3, <2>1
<1>5. rank \in [A -> 1 .. N]
  <2> HIDE DEF Below, N
  <2> QED BY <1>1, <1>2
<1>6. rank \in Injection(A, 1 .. N)
  <2>1. \A x, y \in A : rank[x] = rank[y] => x = y
    <3> HIDE DEF Below, N
    <3> QED BY <1>1, <1>2, <1>4
  <2> HIDE DEF rank, N
  <2> QED BY <1>5, <2>1 DEF Injection, IsInjective
<1>7. IsFiniteSet(1 .. N) /\ Cardinality(1 .. N) = N
  <2> HIDE DEF N
  <2> QED BY <1>1, FS_Interval
<1>8. rank \in Surjection(A, 1 .. N)
  <2>1. Cardinality(1 .. N) = Cardinality(A)
    BY <1>7
  <2> HIDE DEF rank, N
  <2> QED BY <1>6, <1>7, <2>1, FS_Injection
<1>9. \A i \in 1 .. N : \E x \in A : rank[x] = i
  <2> HIDE DEF rank, N
  <2> QED BY <1>8 DEF Surjection
<1>10. \A i \in 1 .. N : Nth(A, i) \in A /\ Cardinality(Below(Nth(A, i))) = i - 1
  <2> SUFFICES ASSUME NEW i \in 1 .. N
               PROVE  Nth(A, i) \in A /\ Cardinality(Below(Nth(A, i))) = i - 1
    OBVIOUS
  <2>1. \E x \in A : Cardinality(Below(x)) = i - 1
    <3>1. PICK x \in A : rank[x] = i
      BY <1>9
    <3>2. rank[x] = Cardinality(Below(x)) + 1
      OBVIOUS
    <3> HIDE DEF rank, Below, N
    <3> QED BY <1>1, <1>2, <3>1, <3>2
  <2> QED BY <2>1 DEF Nth
<1>11. \A n \in A : \E i \in 1 .. N : Nth(A, i) = n
  <2> SUFFICES ASSUME NEW n \in A PROVE \E i \in 1 .. N : Nth(A, i) = n
    OBVIOUS
  <2> DEFINE i == Cardinality(Below(n)) + 1
  <2>1. i \in 1 .. N /\ i - 1 = Cardinality(Below(n))
    <3> HIDE DEF Below, N
    <3> QED BY <1>1, <1>2
  <2>2. Nth(A, i) \in A /\ Cardinality(Below(Nth(A, i))) = i - 1
    <3> HIDE DEF Below, N, i
    <3> QED BY <1>10, <2>1
  <2>3. Nth(A, i) = n
    <3> HIDE DEF Below, N, i
    <3> QED BY <1>4, <2>1, <2>2
  <2> HIDE DEF Below, N, i
  <2> QED BY <2>1, <2>3
<1>12. \A i, j \in 1 .. N : Nth(A, i) = Nth(A, j) => i = j
  <2> HIDE DEF Below, N
  <2> QED BY <1>1, <1>10
<1> QED BY <1>1, <1>10, <1>11, <1>12

LEMMA Division ==
  ASSUME NEW x \in Nat, NEW b \in Nat \ {0}
  PROVE  /\ x \div b \in Nat /\ x % b \in Nat
         /\ x = b * (x \div b) + (x % b) /\ x % b < b
OBVIOUS

LEMMA WithinBatches ==
  ASSUME NEW b \in Nat, NEW q \in Nat, NEW size \in Nat, b < q
  PROVE  /\ (b + 1) * size \in Nat /\ b * size \in Nat /\ q * size \in Nat
         /\ (b + 1) * size = b * size + size
         /\ (b + 1) * size <= q * size
<1>1. PICK m \in Nat : q = b + 1 + m
  <2>1. q - b - 1 \in Nat /\ q = b + 1 + (q - b - 1)
    OBVIOUS
  <2> QED BY <2>1
<1>2. q * size = b * size + size + m * size /\ m * size \in Nat /\ b * size \in Nat
  BY <1>1
<1> QED BY <1>2

-----------------------------------------------------------------------------
(* The dataset.                                                            *)

Dataset ==
  /\ edges \in Seq(Edges) /\ Len(edges) >= BatchSize
  /\ \A i \in DOMAIN edges : edges[i].src # edges[i].dst
  /\ \A i, j \in DOMAIN edges : i < j => edges[i].timestamp <= edges[j].timestamp
  /\ window \in Nat /\ num_threads \in Nat \ {0} /\ BatchSize \in Nat \ {0}
  /\ sort_mode \in {"UNSORTED", "SNAPSHOT"}

LEMMA DatasetFacts ==
  ASSUME SetupOK
  PROVE  Dataset
BY DatasetAssumption DEF SetupOK, Dataset

LEMMA BatchFacts ==
  ASSUME Dataset
  PROVE  /\ NumBatches \in Nat \ {0}
         /\ \A b \in 0 .. NumBatches - 1 :
              /\ BatchStart(b) \in Nat \ {0} /\ BatchEnd(b) \in DOMAIN edges
              /\ BatchStart(b) <= BatchEnd(b) /\ BatchEnd(b) <= Len(edges)
<1> DEFINE len == Len(edges)
           q == len \div BatchSize
<1>1. /\ len \in Nat /\ DOMAIN edges = 1 .. len /\ len >= BatchSize
      /\ BatchSize \in Nat \ {0}
  BY DEF Dataset
<1>2. q \in Nat /\ len % BatchSize \in Nat /\ len = BatchSize * q + (len % BatchSize)
      /\ len % BatchSize < BatchSize
  <2> HIDE DEF len
  <2> QED BY <1>1, Division
<1>3. q # 0
  <2> SUFFICES ASSUME q = 0 PROVE FALSE
    OBVIOUS
  <2>1. BatchSize * q = 0
    <3> HIDE DEF q
    <3> QED BY <1>1
  <2> HIDE DEF q, len
  <2> QED BY <1>1, <1>2, <2>1
<1>4. NumBatches = q
  BY DEF NumBatches
<1>5. q * BatchSize = BatchSize * q /\ q * BatchSize \in Nat
  <2> HIDE DEF q, len
  <2> QED BY <1>1, <1>2
<1>6. \A b \in 0 .. q - 1 :
        /\ BatchStart(b) \in Nat \ {0} /\ BatchEnd(b) \in 1 .. len
        /\ BatchStart(b) <= BatchEnd(b) /\ BatchEnd(b) <= len
  <2> SUFFICES ASSUME NEW b \in 0 .. q - 1
               PROVE  /\ BatchStart(b) \in Nat \ {0} /\ BatchEnd(b) \in 1 .. len
                      /\ BatchStart(b) <= BatchEnd(b) /\ BatchEnd(b) <= len
    OBVIOUS
  <2> HIDE DEF q, len
  <2>1. b \in Nat /\ b < q
    BY <1>2
  <2>2. /\ (b + 1) * BatchSize \in Nat /\ b * BatchSize \in Nat /\ q * BatchSize \in Nat
        /\ (b + 1) * BatchSize = b * BatchSize + BatchSize
        /\ (b + 1) * BatchSize <= q * BatchSize
    BY <1>1, <1>2, <2>1, WithinBatches
  <2> QED BY <1>1, <1>2, <1>5, <2>2 DEF BatchStart, BatchEnd
<1> HIDE DEF q
<1> QED BY <1>1, <1>2, <1>3, <1>4, <1>6

\* The oldest and the newest timestamp, and the threshold of a batch.
LEMMA TimeFacts ==
  ASSUME Dataset
  PROVE  /\ MinTimestamp \in Nat /\ MaxTimestamp \in Nat
         /\ \A i \in DOMAIN edges :
              /\ edges[i] \in Edges
              /\ MinTimestamp <= edges[i].timestamp /\ edges[i].timestamp <= MaxTimestamp
         /\ \A b \in 0 .. NumBatches - 1 :
              /\ Threshold(b) \in Nat /\ Threshold(b) >= MinTimestamp
              /\ ~Windowed => Threshold(b) = MinTimestamp
<1>1. /\ 1 \in DOMAIN edges /\ Len(edges) \in DOMAIN edges /\ Len(edges) \in Nat
      /\ DOMAIN edges = 1 .. Len(edges)
      /\ \A i \in DOMAIN edges : edges[i] \in Edges /\ edges[i].timestamp \in Nat
  <2>1. /\ Len(edges) \in Nat /\ Len(edges) >= 1 /\ DOMAIN edges = 1 .. Len(edges)
        /\ \A i \in DOMAIN edges : edges[i] \in Edges
    BY DEF Dataset
  <2>2. \A e \in Edges : e.timestamp \in Nat
    BY DEF Edges
  <2> QED BY <2>1, <2>2
<1>2. \A i, j \in DOMAIN edges : i < j => edges[i].timestamp <= edges[j].timestamp
  BY DEF Dataset
<1>3. MinTimestamp \in Nat /\ MaxTimestamp \in Nat
  BY <1>1 DEF MinTimestamp, MaxTimestamp
<1>4. \A i \in DOMAIN edges :
        MinTimestamp <= edges[i].timestamp /\ edges[i].timestamp <= MaxTimestamp
  <2> SUFFICES ASSUME NEW i \in DOMAIN edges
               PROVE  MinTimestamp <= edges[i].timestamp /\ edges[i].timestamp <= MaxTimestamp
    OBVIOUS
  <2>1. i = 1 \/ 1 < i
    BY <1>1
  <2>2. i = Len(edges) \/ i < Len(edges)
    BY <1>1
  <2>3. MinTimestamp <= edges[i].timestamp
    BY <1>1, <1>2, <2>1 DEF MinTimestamp
  <2>4. edges[i].timestamp <= MaxTimestamp
    BY <1>1, <1>2, <2>2 DEF MaxTimestamp
  <2> QED BY <2>3, <2>4
<1>5. ASSUME NEW b \in 0 .. NumBatches - 1
      PROVE  /\ Threshold(b) \in Nat /\ Threshold(b) >= MinTimestamp
             /\ ~Windowed => Threshold(b) = MinTimestamp
  <2>1. BatchEnd(b) \in DOMAIN edges
    BY BatchFacts
  <2> DEFINE t == edges[BatchEnd(b)].timestamp
  <2>2. t \in Nat /\ t <= MaxTimestamp /\ window \in Nat
    BY <1>1, <1>4, <2>1 DEF Dataset
  <2>3. Threshold(b) = IF MinTimestamp > t - window THEN MinTimestamp ELSE t - window
    BY DEF Threshold, Ref!Later
  <2>4. ~Windowed => window >= MaxTimestamp - MinTimestamp
    BY <1>3, <2>2 DEF Windowed
  <2> HIDE DEF t
  <2> QED BY <1>3, <2>2, <2>3, <2>4
<1> QED BY <1>1, <1>3, <1>4, <1>5

\* Where a batch begins once it is filtered; a larger part of the dataset
\* begins no later.
LEMMA FilterFacts ==
  ASSUME Dataset, NEW b \in 0 .. NumBatches - 1, NEW from \in Nat \ {0}, from <= BatchEnd(b)
  PROVE  /\ FilteredStart(from, b) \in from .. BatchEnd(b) + 1
         /\ \A i \in from .. BatchEnd(b) :
              edges[i].timestamp >= Threshold(b) => FilteredStart(from, b) <= i
<1> DEFINE last == BatchEnd(b)
           A == {i \in from .. last : edges[i].timestamp >= Threshold(b)} \cup {last + 1}
<1>1. last \in Nat /\ from <= last
  BY BatchFacts DEF Dataset
<1>2. A \in SUBSET Nat /\ A # {} /\ A \subseteq from .. last + 1 /\ last + 1 \in A
  <2>1. last + 1 \in A
    OBVIOUS
  <2>2. \A i \in A : i \in from .. last \/ i = last + 1
    OBVIOUS
  <2> HIDE DEF A, last
  <2> QED BY <1>1, <2>1, <2>2
<1>3. Min(A) \in A /\ \A x \in A : Min(A) <= x
  <2> HIDE DEF A
  <2> QED BY <1>2, MinOf
<1>4. FilteredStart(from, b) = Min(A)
  BY DEF FilteredStart
<1>5. \A i \in from .. last : edges[i].timestamp >= Threshold(b) => i \in A
  OBVIOUS
<1> HIDE DEF A, last
<1>6. FilteredStart(from, b) \in from .. last + 1
  BY <1>1, <1>2, <1>3, <1>4
<1>7. \A i \in from .. last : edges[i].timestamp >= Threshold(b) => FilteredStart(from, b) <= i
  BY <1>3, <1>4, <1>5
<1> QED BY <1>6, <1>7 DEF last

\* What is in a filtered batch is in the filtered prefix of the dataset too.
LEMMA PrefixHasBatch ==
  ASSUME Dataset, NEW b \in 0 .. NumBatches - 1
  PROVE  FilteredStart(1, b) <= FilteredStart(BatchStart(b), b)
<1> DEFINE last == BatchEnd(b)
           s == BatchStart(b)
           A == {i \in s .. last : edges[i].timestamp >= Threshold(b)} \cup {last + 1}
<1>1. last \in Nat \ {0} /\ s \in Nat \ {0} /\ s <= last /\ 1 <= last
  BY BatchFacts DEF Dataset
<1>2. A \in SUBSET Nat /\ A # {}
  <2>1. last + 1 \in A
    OBVIOUS
  <2>2. \A i \in A : i \in s .. last \/ i = last + 1
    OBVIOUS
  <2> HIDE DEF A, last, s
  <2> QED BY <1>1, <2>1, <2>2
<1>3. Min(A) \in A
  <2> HIDE DEF A
  <2> QED BY <1>2, MinOf
<1>4. FilteredStart(s, b) = Min(A)
  BY DEF FilteredStart
<1>5. /\ FilteredStart(1, b) \in 1 .. last + 1
      /\ \A i \in 1 .. last : edges[i].timestamp >= Threshold(b) => FilteredStart(1, b) <= i
  BY <1>1, FilterFacts
<1>6. CASE Min(A) = last + 1
  <2> HIDE DEF A, last, s
  <2> QED BY <1>1, <1>4, <1>5, <1>6 DEF s
<1>7. CASE Min(A) # last + 1
  <2>1. Min(A) \in s .. last /\ edges[Min(A)].timestamp >= Threshold(b)
    BY <1>3, <1>7
  <2>2. Min(A) \in 1 .. last
    <3> HIDE DEF A, last, s
    <3> QED BY <1>1, <2>1
  <2> HIDE DEF A, last
  <2> QED BY <1>4, <1>5, <2>1, <2>2
<1> QED BY <1>6, <1>7

-----------------------------------------------------------------------------
(* The lists under updates and deletions.                                  *)

Put(l, i, s) == [l EXCEPT ![i] = s]

\* No slot in use is lost or loses a direction.
Keeps(l, l2) ==
  \A i \in DOMAIN l : l[i].neighbor # Blank =>
    i \in DOMAIN l2 /\ l2[i].neighbor = l[i].neighbor /\ l[i].dirs \subseteq l2[i].dirs

\* No slot gets a direction but one of neighbour n, which gets d.
OnlyAdds(l, l2, n, d) ==
  \A i \in DOMAIN l2 : \A dd \in l2[i].dirs :
    \/ l2[i].neighbor = n /\ dd = d
    \/ i \in DOMAIN l /\ dd \in l[i].dirs /\ l2[i].neighbor = l[i].neighbor

\* Every outgoing slot is the old one, or the one of neighbour n with time ts.
OutTimes(l, l2, n, d, ts) ==
  \A i \in DOMAIN l2 : "OUT" \in l2[i].dirs =>
    \/ d = "OUT" /\ l2[i].neighbor = n /\ l2[i].timeRecent = ts
    \/ /\ i \in DOMAIN l /\ "OUT" \in l[i].dirs
       /\ l2[i].neighbor = l[i].neighbor /\ l2[i].timeRecent = l[i].timeRecent

LEMMA PutSlot ==
  ASSUME NEW t \in Nat, NEW l, ListOK(l, t), NEW i \in DOMAIN l, NEW s, SlotOK(s, t),
         \A j \in DOMAIN l : j # i => l[j].neighbor = Blank \/ l[j].neighbor # s.neighbor
  PROVE  /\ ListOK(Put(l, i, s), t)
         /\ DOMAIN Put(l, i, s) = DOMAIN l
         /\ \A j \in DOMAIN l : Put(l, i, s)[j] = IF j = i THEN s ELSE l[j]
<1>1. l \in Seq(Slots) /\ s \in Slots
  BY DEF ListOK, SlotOK
<1>2. /\ Put(l, i, s) \in Seq(Slots) /\ DOMAIN Put(l, i, s) = DOMAIN l
      /\ \A j \in DOMAIN l : Put(l, i, s)[j] = IF j = i THEN s ELSE l[j]
  BY <1>1 DEF Put
<1> DEFINE l2 == Put(l, i, s)
<1> HIDE DEF l2
<1>3. \A j \in DOMAIN l : l2[j] = IF j = i THEN s ELSE l[j]
  BY <1>2 DEF l2
<1>4. l2 \in Seq(Slots) /\ DOMAIN l2 = DOMAIN l
  BY <1>2 DEF l2
<1>5. \A j \in DOMAIN l : SlotOK(l[j], t)
  BY DEF ListOK
<1>6. \A j, k \in DOMAIN l : l[j].neighbor = l[k].neighbor /\ l[j].neighbor # Blank => j = k
  BY DEF ListOK
<1>7. \A j \in DOMAIN l2 : SlotOK(l2[j], t)
  BY <1>3, <1>4, <1>5
<1>8. \A j, k \in DOMAIN l2 : l2[j].neighbor = l2[k].neighbor /\ l2[j].neighbor # Blank => j = k
  <2> SUFFICES ASSUME NEW j \in DOMAIN l, NEW k \in DOMAIN l,
                      l2[j].neighbor = l2[k].neighbor, l2[j].neighbor # Blank
               PROVE  j = k
    BY <1>4
  <2>1. CASE j = i /\ k # i
    BY <1>3, <2>1
  <2>2. CASE j # i /\ k = i
    BY <1>3, <2>2
  <2>3. CASE j # i /\ k # i
    BY <1>3, <1>6, <2>3
  <2> QED BY <2>1, <2>2, <2>3
<1>9. ListOK(l2, t)
  BY <1>4, <1>7, <1>8 DEF ListOK
<1> QED BY <1>2, <1>9 DEF l2

LEMMA AppendSlot ==
  ASSUME NEW t \in Nat, NEW l, ListOK(l, t), NEW s, SlotOK(s, t),
         \A j \in DOMAIN l : l[j].neighbor = Blank \/ l[j].neighbor # s.neighbor
  PROVE  /\ ListOK(Append(l, s), t)
         /\ DOMAIN l \subseteq DOMAIN Append(l, s)
         /\ \A j \in DOMAIN l : Append(l, s)[j] = l[j]
         /\ Len(l) + 1 \in DOMAIN Append(l, s) /\ Append(l, s)[Len(l) + 1] = s
<1>1. l \in Seq(Slots) /\ s \in Slots
  BY DEF ListOK, SlotOK
<1> DEFINE l2 == Append(l, s)
           m == Len(l) + 1
<1>2. /\ l2 \in Seq(Slots) /\ DOMAIN l2 = 1 .. m /\ DOMAIN l = 1 .. Len(l) /\ Len(l) \in Nat
      /\ \A j \in DOMAIN l : l2[j] = l[j]
      /\ l2[m] = s
  BY <1>1
<1>3. \A j \in DOMAIN l2 : j \in DOMAIN l \/ j = m
  BY <1>2
<1>4. m \in DOMAIN l2 /\ DOMAIN l \subseteq DOMAIN l2
  BY <1>2
<1> HIDE DEF l2, m
<1>5. \A j \in DOMAIN l : SlotOK(l[j], t)
  BY DEF ListOK
<1>6. \A j, k \in DOMAIN l : l[j].neighbor = l[k].neighbor /\ l[j].neighbor # Blank => j = k
  BY DEF ListOK
<1>7. \A j \in DOMAIN l2 : SlotOK(l2[j], t)
  BY <1>2, <1>3, <1>5
<1>8. \A j, k \in DOMAIN l2 : l2[j].neighbor = l2[k].neighbor /\ l2[j].neighbor # Blank => j = k
  <2> SUFFICES ASSUME NEW j \in DOMAIN l2, NEW k \in DOMAIN l2,
                      l2[j].neighbor = l2[k].neighbor, l2[j].neighbor # Blank
               PROVE  j = k
    OBVIOUS
  <2>1. CASE j \in DOMAIN l /\ k = m
    BY <1>2, <2>1
  <2>2. CASE j = m /\ k \in DOMAIN l
    BY <1>2, <2>2
  <2>3. CASE j \in DOMAIN l /\ k \in DOMAIN l
    BY <1>2, <1>6, <2>3
  <2>4. CASE j = m /\ k = m
    BY <2>4
  <2> QED BY <1>3, <2>1, <2>2, <2>3, <2>4
<1>9. ListOK(l2, t)
  BY <1>2, <1>7, <1>8 DEF ListOK
<1> QED BY <1>2, <1>4, <1>9 DEF l2, m

\* The slot update_edge_data_and_direction leaves behind.
LEMMA WrittenSlot ==
  ASSUME NEW t \in Nat, NEW s \in Slots, SlotOK(s, t), NEW n \in Vertices, NEW d \in {"OUT", "IN"},
         NEW w \in Nat, NEW ts \in Nat, ts >= t
  PROVE  /\ SlotOK(Written(s, n, d, w, ts), t)
         /\ Written(s, n, d, w, ts).neighbor = n
         /\ Written(s, n, d, w, ts).dirs = s.dirs \cup {d}
         /\ Written(s, n, d, w, ts).timeRecent = IF d = "OUT" THEN ts ELSE s.timeRecent
<1>1. n \in Nat /\ n # Blank
  BY DatasetAssumption DEF Blank
<1>2. /\ s.dirs \in SUBSET {"OUT", "IN"} /\ s.weight \in Nat /\ s.timeRecent \in Nat
  BY DEF Slots
<1>3. /\ Written(s, n, d, w, ts).neighbor = n
      /\ Written(s, n, d, w, ts).dirs = s.dirs \cup {d}
      /\ Written(s, n, d, w, ts).timeRecent = IF d = "OUT" THEN ts ELSE s.timeRecent
  BY DEF Written
<1>4. Written(s, n, d, w, ts) \in Slots
  BY <1>2 DEF Written, Slots
<1>5. "OUT" \in s.dirs => s.timeRecent >= t
  BY DEF SlotOK
<1>6. "OUT" \in s.dirs \cup {d} => (IF d = "OUT" THEN ts ELSE s.timeRecent) >= t
  BY <1>5
<1> QED BY <1>1, <1>3, <1>4, <1>6 DEF SlotOK

LEMMA BlankSlotOK ==
  ASSUME NEW t \in Nat
  PROVE  NewSlot \in Slots /\ SlotOK(NewSlot, t)
BY DEF NewSlot, Slots, SlotOK

\* What one update of a list does.
LEMMA UpdateFacts ==
  ASSUME NEW t \in Nat, NEW l, ListOK(l, t), NEW n \in Vertices, NEW d \in {"OUT", "IN"},
         NEW w \in Nat, NEW ts \in Nat, ts >= t
  PROVE  /\ ListOK(Update(l, n, d, w, ts), t)
         /\ Keeps(l, Update(l, n, d, w, ts))
         /\ n \in Neighbors(Update(l, n, d, w, ts), d)
         /\ OnlyAdds(l, Update(l, n, d, w, ts), n, d)
         /\ OutTimes(l, Update(l, n, d, w, ts), n, d, ts)
<1> DEFINE same == SlotsOf(l, n)
           free == SlotsOf(l, Blank)
           l2 == Update(l, n, d, w, ts)
<1>1. l \in Seq(Slots) /\ DOMAIN l \in SUBSET Nat /\ \A i \in DOMAIN l : l[i] \in Slots /\ SlotOK(l[i], t)
  BY DEF ListOK
<1>2. same \in SUBSET DOMAIN l /\ free \in SUBSET DOMAIN l
  BY DEF SlotsOf
<1>3. n # Blank
  BY DatasetAssumption DEF Blank
<1>4. \A i \in DOMAIN l : l[i].weight \in Nat
  BY <1>1 DEF Slots
<1>5. CASE same # {}
  <2> DEFINE i == Min(same)
             s == Written(l[i], n, d, l[i].weight + w, ts)
  <2>1. i \in same
    BY <1>1, <1>2, <1>5, MinOf
  <2>2. i \in DOMAIN l /\ l[i].neighbor = n
    BY <2>1 DEF SlotsOf
  <2>3. l2 = Put(l, i, s)
    BY <1>5 DEF Update, Put
  <2>4. /\ SlotOK(s, t) /\ s.neighbor = n /\ s.dirs = l[i].dirs \cup {d}
        /\ s.timeRecent = IF d = "OUT" THEN ts ELSE l[i].timeRecent
    <3>1. l[i] \in Slots /\ SlotOK(l[i], t) /\ l[i].weight + w \in Nat
      BY <1>1, <1>4, <2>2
    <3> HIDE DEF i
    <3> QED BY <3>1, WrittenSlot
  <2> HIDE DEF i, s, l2, same
  <2>5. \A j \in DOMAIN l : j # i => l[j].neighbor = Blank \/ l[j].neighbor # s.neighbor
    BY <1>3, <2>2, <2>4 DEF ListOK
  <2>6. /\ ListOK(l2, t) /\ DOMAIN l2 = DOMAIN l
        /\ \A j \in DOMAIN l : l2[j] = IF j = i THEN s ELSE l[j]
    BY <2>2, <2>3, <2>4, <2>5, PutSlot
  <2>7. Keeps(l, l2)
    BY <2>2, <2>4, <2>6 DEF Keeps
  <2>8. n \in Neighbors(l2, d)
    BY <2>2, <2>4, <2>6 DEF Neighbors
  <2>9. OnlyAdds(l, l2, n, d)
    BY <2>2, <2>4, <2>6 DEF OnlyAdds
  <2>12. OutTimes(l, l2, n, d, ts)
    BY <2>2, <2>4, <2>6 DEF OutTimes
  <2> QED BY <2>6, <2>7, <2>8, <2>9, <2>12 DEF l2
<1>6. CASE same = {} /\ free # {}
  <2> DEFINE i == Min(free)
             s == Written(l[i], n, d, w, ts)
  <2>1. i \in free
    BY <1>1, <1>2, <1>6, MinOf
  <2>2. i \in DOMAIN l /\ l[i].neighbor = Blank
    BY <2>1 DEF SlotsOf
  <2>3. l2 = Put(l, i, s)
    BY <1>6 DEF Update, Put
  <2>4. /\ SlotOK(s, t) /\ s.neighbor = n /\ s.dirs = l[i].dirs \cup {d}
        /\ s.timeRecent = IF d = "OUT" THEN ts ELSE l[i].timeRecent
    <3>1. l[i] \in Slots /\ SlotOK(l[i], t)
      BY <1>1, <2>2
    <3> HIDE DEF i
    <3> QED BY <3>1, WrittenSlot
  <2>5. \A j \in DOMAIN l : l[j].neighbor # n
    BY <1>6 DEF SlotsOf
  <2> HIDE DEF i, s, l2, same, free
  <2>6. /\ ListOK(l2, t) /\ DOMAIN l2 = DOMAIN l
        /\ \A j \in DOMAIN l : l2[j] = IF j = i THEN s ELSE l[j]
    BY <2>2, <2>3, <2>4, <2>5, PutSlot
  <2>7. Keeps(l, l2)
    BY <2>2, <2>4, <2>6 DEF Keeps
  <2>8. n \in Neighbors(l2, d)
    BY <2>2, <2>4, <2>6 DEF Neighbors
  <2>10. l[i].dirs = {}
    BY <1>1, <2>2 DEF SlotOK
  <2>9. OnlyAdds(l, l2, n, d)
    BY <2>2, <2>4, <2>6, <2>10 DEF OnlyAdds
  <2>12. OutTimes(l, l2, n, d, ts)
    BY <2>2, <2>4, <2>6, <2>10 DEF OutTimes
  <2> QED BY <2>6, <2>7, <2>8, <2>9, <2>12 DEF l2
<1>7. CASE same = {} /\ free = {}
  <2> DEFINE s == Written(NewSlot, n, d, w, ts)
             i == Len(l) + 1
  <2>3. l2 = Append(l, s)
    BY <1>7 DEF Update
  <2>14. NewSlot \in Slots /\ SlotOK(NewSlot, t)
    BY BlankSlotOK
  <2>4. SlotOK(s, t) /\ s.neighbor = n /\ s.dirs = NewSlot.dirs \cup {d}
    BY <2>14, WrittenSlot
  <2>13. s.timeRecent = IF d = "OUT" THEN ts ELSE NewSlot.timeRecent
    BY <2>14, WrittenSlot
  <2>5. \A j \in DOMAIN l : l[j].neighbor # n
    BY <1>7 DEF SlotsOf
  <2> HIDE DEF s, l2, same, free
  <2>6. /\ ListOK(l2, t) /\ DOMAIN l \subseteq DOMAIN l2
        /\ \A j \in DOMAIN l : l2[j] = l[j]
        /\ i \in DOMAIN l2 /\ l2[i] = s
    BY <2>3, <2>4, <2>5, AppendSlot
  <2>7. Keeps(l, l2)
    BY <2>6 DEF Keeps
  <2> HIDE DEF i
  <2>8. n \in Neighbors(l2, d)
    BY <2>4, <2>6 DEF Neighbors
  <2>10. NewSlot.dirs = {}
    BY DEF NewSlot
  <2>11. \A j \in DOMAIN l2 : j \in DOMAIN l \/ j = i
    BY <1>1, <2>3, <2>4 DEF i, SlotOK
  <2>9. OnlyAdds(l, l2, n, d)
    BY <2>4, <2>6, <2>10, <2>11 DEF OnlyAdds
  <2>12. OutTimes(l, l2, n, d, ts)
    BY <2>4, <2>6, <2>10, <2>11, <2>13 DEF OutTimes
  <2> QED BY <2>6, <2>7, <2>8, <2>9, <2>12 DEF l2
<1> QED BY <1>5, <1>6, <1>7

\* Once there a neighbour stays, whatever else is inserted.
LEMMA KeepsNeighbors ==
  ASSUME NEW l, NEW l2, Keeps(l, l2), NEW n \in Vertices, NEW d, n \in Neighbors(l, d)
  PROVE  n \in Neighbors(l2, d)
<1>1. n # Blank
  BY DatasetAssumption DEF Blank
<1>2. PICK i \in DOMAIN l : d \in l[i].dirs /\ l[i].neighbor = n
  BY DEF Neighbors
<1>3. i \in DOMAIN l2 /\ l2[i].neighbor = n /\ d \in l2[i].dirs
  BY <1>1, <1>2 DEF Keeps
<1> QED BY <1>3 DEF Neighbors

LEMMA CountTypes ==
  ASSUME NEW l \in Seq(Slots)
  PROVE  /\ Directed(l, "IN") \in Nat /\ Directed(l, "OUT") \in Nat /\ Used(l) \in Nat
         /\ Counts(l) \in Counters
<1>1. IsFiniteSet(DOMAIN l)
  <2>1. Len(l) \in Nat /\ DOMAIN l = 1 .. Len(l)
    OBVIOUS
  <2> QED BY <2>1, FS_Interval
<1>2. \A S \in SUBSET DOMAIN l : Cardinality(S) \in Nat
  BY <1>1, FS_Subset, FS_CardinalityType
<1>3. \A d : Directed(l, d) \in Nat
  <2> SUFFICES ASSUME NEW d PROVE Directed(l, d) \in Nat
    OBVIOUS
  <2>1. {i \in DOMAIN l : d \in l[i].dirs} \in SUBSET DOMAIN l
    OBVIOUS
  <2> QED BY <1>2, <2>1 DEF Directed
<1>4. Used(l) \in Nat
  <2>1. {i \in DOMAIN l : l[i].neighbor # Blank} \in SUBSET DOMAIN l
    OBVIOUS
  <2> QED BY <1>2, <2>1 DEF Used
<1> QED BY <1>3, <1>4 DEF Counts, Counters

\* The counters follow the slots.
LEMMA RecountFacts ==
  ASSUME NEW l \in Seq(Slots), NEW l2 \in Seq(Slots)
  PROVE  Recount(Counts(l), l, l2) = Counts(l2)
<1>1. /\ Directed(l, "IN") \in Nat /\ Directed(l, "OUT") \in Nat /\ Used(l) \in Nat
      /\ Directed(l2, "IN") \in Nat /\ Directed(l2, "OUT") \in Nat /\ Used(l2) \in Nat
  BY CountTypes
<1>2. Recount(Counts(l), l, l2) =
        [inDegree |-> Counts(l).inDegree + Directed(l2, "IN") - Directed(l, "IN"),
         outDegree |-> Counts(l).outDegree + Directed(l2, "OUT") - Directed(l, "OUT"),
         degree |-> Counts(l).degree + Used(l2) - Used(l)]
  BY DEF Recount, Directed, Used
<1>3. /\ Counts(l).inDegree = Directed(l, "IN") /\ Counts(l).outDegree = Directed(l, "OUT")
      /\ Counts(l).degree = Used(l)
  BY DEF Counts
<1>4. /\ Counts(l).inDegree + Directed(l2, "IN") - Directed(l, "IN") = Directed(l2, "IN")
      /\ Counts(l).outDegree + Directed(l2, "OUT") - Directed(l, "OUT") = Directed(l2, "OUT")
      /\ Counts(l).degree + Used(l2) - Used(l) = Used(l2)
  BY <1>1, <1>3
<1> QED BY <1>2, <1>4 DEF Counts

\* What the deletions leave of a list.
Survivors(l, threshold) == [i \in DOMAIN l |-> Expired(l[i], threshold)]

LEMMA ExpiredSlot ==
  ASSUME NEW t \in Nat, NEW h \in Nat, NEW s \in Slots, SlotOK(s, t)
  PROVE  /\ Expired(s, h) \in Slots /\ SlotOK(Expired(s, h), t)
         /\ Expired(s, h).neighbor = s.neighbor \/ Expired(s, h).neighbor = Blank
         /\ "OUT" \in Expired(s, h).dirs <=> "OUT" \in s.dirs /\ ~(s.timeRecent < h)
         /\ "OUT" \in Expired(s, h).dirs => Expired(s, h).neighbor = s.neighbor
         /\ Expired(s, h).timeRecent = s.timeRecent
<1>1. /\ s.dirs \in SUBSET {"OUT", "IN"} /\ s.weight \in Nat /\ s.timeRecent \in Nat
      /\ s.neighbor \in Vertices \cup {Blank}
  BY DEF Slots
<1>2. s.neighbor = Blank <=> s.dirs = {}
  BY DEF SlotOK
<1>3. CASE s.neighbor = Blank \/ s.timeRecent >= h
  <2>1. Expired(s, h) = s
    BY <1>3 DEF Expired
  <2> QED BY <1>1, <1>2, <1>3, <2>1
<1>4. CASE ~(s.neighbor = Blank \/ s.timeRecent >= h)
  <2> DEFINE left == s.dirs \ (IF "OUT" \in s.dirs THEN {"OUT"} ELSE {"IN"})
             nb == IF left = {} THEN Blank ELSE s.neighbor
  <2>1. Expired(s, h) = [s EXCEPT !.dirs = left, !.neighbor = nb]
    BY <1>4 DEF Expired
  <2>2. Expired(s, h) = [neighbor |-> nb, dirs |-> left, weight |-> s.weight, timeRecent |-> s.timeRecent]
    BY <2>1 DEF Slots
  <2>3. left \in SUBSET {"OUT", "IN"} /\ "OUT" \notin left
    BY <1>1
  <2>4. nb \in Vertices \cup {Blank} /\ (nb = Blank <=> left = {})
    BY <1>1, <1>4
  <2>5. nb = s.neighbor \/ nb = Blank
    OBVIOUS
  <2> HIDE DEF left, nb
  <2>6. Expired(s, h) \in Slots
    BY <1>1, <2>2, <2>3, <2>4 DEF Slots
  <2>7. /\ Expired(s, h).neighbor = nb /\ Expired(s, h).dirs = left
        /\ Expired(s, h).timeRecent = s.timeRecent
    BY <2>2
  <2>8. SlotOK(Expired(s, h), t)
    BY <2>3, <2>4, <2>6, <2>7 DEF SlotOK
  <2>9. s.timeRecent < h
    BY <1>1, <1>4
  <2> QED BY <2>3, <2>5, <2>6, <2>7, <2>8, <2>9
<1> QED BY <1>3, <1>4

\* Every outgoing slot left is an old one that is not too old.
OutLeft(l, l2, h) ==
  \A i \in DOMAIN l2 : "OUT" \in l2[i].dirs =>
    /\ i \in DOMAIN l /\ "OUT" \in l[i].dirs /\ l[i].timeRecent >= h
    /\ l2[i].neighbor = l[i].neighbor /\ l2[i].timeRecent = l[i].timeRecent

LEMMA SurvivorsOK ==
  ASSUME NEW t \in Nat, NEW h \in Nat, NEW l, ListOK(l, t)
  PROVE  /\ ListOK(Survivors(l, h), t)
         /\ \A n \in Vertices :
              n \in Neighbors(Survivors(l, h), "OUT") <=>
                \E i \in DOMAIN l : l[i].neighbor = n /\ "OUT" \in l[i].dirs /\ ~(l[i].timeRecent < h)
         /\ OutLeft(l, Survivors(l, h), h)
<1> DEFINE l2 == Survivors(l, h)
<1>1. l \in Seq(Slots) /\ \A i \in DOMAIN l : l[i] \in Slots /\ SlotOK(l[i], t)
  BY DEF ListOK
<1>2. DOMAIN l2 = DOMAIN l /\ \A i \in DOMAIN l : l2[i] = Expired(l[i], h)
  BY DEF Survivors
<1>3. Len(l) \in Nat /\ DOMAIN l = 1 .. Len(l)
  BY <1>1
<1>4. \A i \in DOMAIN l :
        /\ l2[i] \in Slots /\ SlotOK(l2[i], t)
        /\ l2[i].neighbor = l[i].neighbor \/ l2[i].neighbor = Blank
        /\ "OUT" \in l2[i].dirs <=> "OUT" \in l[i].dirs /\ ~(l[i].timeRecent < h)
        /\ "OUT" \in l2[i].dirs => l2[i].neighbor = l[i].neighbor
        /\ l2[i].timeRecent = l[i].timeRecent
  <2> SUFFICES ASSUME NEW i \in DOMAIN l
               PROVE  /\ l2[i] \in Slots /\ SlotOK(l2[i], t)
                      /\ l2[i].neighbor = l[i].neighbor \/ l2[i].neighbor = Blank
                      /\ "OUT" \in l2[i].dirs <=> "OUT" \in l[i].dirs /\ ~(l[i].timeRecent < h)
                      /\ "OUT" \in l2[i].dirs => l2[i].neighbor = l[i].neighbor
                      /\ l2[i].timeRecent = l[i].timeRecent
    OBVIOUS
  <2>1. l[i] \in Slots /\ SlotOK(l[i], t) /\ l2[i] = Expired(l[i], h)
    BY <1>1, <1>2
  <2>2. /\ Expired(l[i], h) \in Slots /\ SlotOK(Expired(l[i], h), t)
        /\ Expired(l[i], h).neighbor = l[i].neighbor \/ Expired(l[i], h).neighbor = Blank
        /\ "OUT" \in Expired(l[i], h).dirs <=> "OUT" \in l[i].dirs /\ ~(l[i].timeRecent < h)
        /\ "OUT" \in Expired(l[i], h).dirs => Expired(l[i], h).neighbor = l[i].neighbor
        /\ Expired(l[i], h).timeRecent = l[i].timeRecent
    BY <2>1, ExpiredSlot
  <2> HIDE DEF l2
  <2> QED BY <2>1, <2>2
<1>5. l2 \in Seq(Slots)
  <2>1. l2 = [i \in 1 .. Len(l) |-> Expired(l[i], h)]
    BY <1>3 DEF Survivors
  <2>2. \A i \in 1 .. Len(l) : Expired(l[i], h) \in Slots
    BY <1>2, <1>3, <1>4
  <2> HIDE DEF l2
  <2> QED BY <1>3, <2>1, <2>2
<1> HIDE DEF l2
<1>6. \A i, j \in DOMAIN l : l[i].neighbor = l[j].neighbor /\ l[i].neighbor # Blank => i = j
  BY DEF ListOK
<1>7. \A i, j \in DOMAIN l2 : l2[i].neighbor = l2[j].neighbor /\ l2[i].neighbor # Blank => i = j
  BY <1>2, <1>4, <1>6
<1>8. ListOK(l2, t)
  BY <1>2, <1>4, <1>5, <1>7 DEF ListOK
<1>9. ASSUME NEW n \in Vertices
      PROVE  n \in Neighbors(l2, "OUT") <=>
               \E i \in DOMAIN l : l[i].neighbor = n /\ "OUT" \in l[i].dirs /\ ~(l[i].timeRecent < h)
  BY <1>2, <1>4 DEF Neighbors
<1>10. OutLeft(l, l2, h)
  <2>1. \A i \in DOMAIN l : l[i].timeRecent \in Nat
    BY <1>1 DEF Slots
  <2>2. \A i \in DOMAIN l2 : "OUT" \in l2[i].dirs =>
          /\ i \in DOMAIN l /\ "OUT" \in l[i].dirs /\ l[i].timeRecent >= h
          /\ l2[i].neighbor = l[i].neighbor /\ l2[i].timeRecent = l[i].timeRecent
    BY <1>2, <1>4, <2>1
  <2> QED BY <2>2 DEF OutLeft
<1> QED BY <1>8, <1>9, <1>10 DEF l2

-----------------------------------------------------------------------------
(* The lists the loading of a snapshot makes.                              *)

\* A batch as the preprocessing for run_static returns it.
SnapshotOK(batch) ==
  /\ batch \in SUBSET Edges
  /\ \A e \in batch : e.src # e.dst
  /\ \A e, f \in batch : SameEdge(e, f) => e = f

HalvesTo(batch, v, n) == {h \in Halves(batch, v) : h.neighbor = n}

HasEdge(batch, u, v) == \E e \in batch : e.src = u /\ e.dst = v

LoadedNeighbors(batch, v) == {n \in Vertices : HasEdge(batch, v, n) \/ HasEdge(batch, n, v)}

LEMMA HalfFacts ==
  ASSUME NEW e \in Edges, NEW d \in {"OUT", "IN"}
  PROVE  /\ Half(e, d) \in Slots /\ Half(e, d).dirs = {d} /\ Half(e, d).weight = e.weight
         /\ Half(e, d).timeRecent = e.timestamp
         /\ Half(e, d).neighbor = IF d = "OUT" THEN e.dst ELSE e.src
         /\ Half(e, d).neighbor \in Vertices
<1>1. /\ e.src \in Vertices /\ e.dst \in Vertices /\ e.weight \in Nat /\ e.timestamp \in Nat
  BY DEF Edges
<1> DEFINE nb == IF d = "OUT" THEN e.dst ELSE e.src
<1>2. Half(e, d) = [neighbor |-> nb, dirs |-> {d}, weight |-> e.weight, timeRecent |-> e.timestamp]
  BY DEF Half
<1>3. nb \in Vertices
  BY <1>1
<1> HIDE DEF nb
<1>4. Half(e, d) \in Slots
  BY <1>1, <1>2, <1>3 DEF Slots
<1> QED BY <1>2, <1>3, <1>4 DEF nb

LEMMA HalvesFacts ==
  ASSUME NEW batch, SnapshotOK(batch), NEW v \in Vertices
  PROVE  /\ \A h \in Halves(batch, v) :
              /\ h \in Slots /\ h.neighbor \in Vertices
              /\ \E e \in batch : \/ h = Half(e, "OUT") /\ e.src = v
                                  \/ h = Half(e, "IN") /\ e.dst = v
         /\ \A e \in batch : /\ e.src = v => Half(e, "OUT") \in Halves(batch, v)
                             /\ e.dst = v => Half(e, "IN") \in Halves(batch, v)
<1>1. batch \in SUBSET Edges
  BY DEF SnapshotOK
<1>2. \A h \in Halves(batch, v) : \E e \in batch : \/ h = Half(e, "OUT") /\ e.src = v
                                                   \/ h = Half(e, "IN") /\ e.dst = v
  BY DEF Halves
<1>3. \A h \in Halves(batch, v) : h \in Slots /\ h.neighbor \in Vertices
  BY <1>1, <1>2, HalfFacts
<1>4. \A e \in batch : /\ e.src = v => Half(e, "OUT") \in Halves(batch, v)
                       /\ e.dst = v => Half(e, "IN") \in Halves(batch, v)
  BY DEF Halves
<1> QED BY <1>2, <1>3, <1>4

\* The halves of the edges between two vertices.
LEMMA HalvesToFacts ==
  ASSUME NEW batch, SnapshotOK(batch), NEW v \in Vertices, NEW n \in Vertices
  PROVE  /\ HalvesTo(batch, v, n) \in SUBSET Slots
         /\ \A h \in HalvesTo(batch, v, n) : h.neighbor = n /\ h.dirs \in {{"OUT"}, {"IN"}}
         /\ (\E h \in HalvesTo(batch, v, n) : h.dirs = {"OUT"}) <=> HasEdge(batch, v, n)
         /\ (\E h \in HalvesTo(batch, v, n) : h.dirs = {"IN"}) <=> HasEdge(batch, n, v)
<1>1. /\ \A h \in Halves(batch, v) :
           /\ h \in Slots /\ h.neighbor \in Vertices
           /\ \E e \in batch : \/ h = Half(e, "OUT") /\ e.src = v
                               \/ h = Half(e, "IN") /\ e.dst = v
      /\ \A e \in batch : /\ e.src = v => Half(e, "OUT") \in Halves(batch, v)
                          /\ e.dst = v => Half(e, "IN") \in Halves(batch, v)
  BY HalvesFacts
<1>2. \A e \in batch : /\ Half(e, "OUT").dirs = {"OUT"} /\ Half(e, "OUT").neighbor = e.dst
                       /\ Half(e, "IN").dirs = {"IN"} /\ Half(e, "IN").neighbor = e.src
  <2>1. batch \in SUBSET Edges
    BY DEF SnapshotOK
  <2> QED BY <2>1, HalfFacts
<1>3. {"OUT"} # {"IN"}
  OBVIOUS
<1>4. \A h \in HalvesTo(batch, v, n) : h \in Halves(batch, v) /\ h.neighbor = n
  BY DEF HalvesTo
<1>5. ASSUME NEW h \in HalvesTo(batch, v, n)
      PROVE  /\ h \in Slots /\ h.dirs \in {{"OUT"}, {"IN"}}
             /\ h.dirs = {"OUT"} => HasEdge(batch, v, n)
             /\ h.dirs = {"IN"} => HasEdge(batch, n, v)
  <2>1. PICK e \in batch : \/ h = Half(e, "OUT") /\ e.src = v
                           \/ h = Half(e, "IN") /\ e.dst = v
    BY <1>1, <1>4
  <2>2. CASE h = Half(e, "OUT") /\ e.src = v
    BY <1>1, <1>2, <1>3, <1>4, <2>2 DEF HasEdge
  <2>3. CASE h = Half(e, "IN") /\ e.dst = v
    BY <1>1, <1>2, <1>3, <1>4, <2>3 DEF HasEdge
  <2> QED BY <2>1, <2>2, <2>3
<1>6. ASSUME HasEdge(batch, v, n)
      PROVE  \E h \in HalvesTo(batch, v, n) : h.dirs = {"OUT"}
  BY <1>1, <1>2, <1>6 DEF HasEdge, HalvesTo
<1>7. ASSUME HasEdge(batch, n, v)
      PROVE  \E h \in HalvesTo(batch, v, n) : h.dirs = {"IN"}
  BY <1>1, <1>2, <1>7 DEF HasEdge, HalvesTo
<1> QED BY <1>4, <1>5, <1>6, <1>7

SameData(s, h) == s.weight = h.weight /\ s.timeRecent = h.timeRecent

\* What the merge makes of them.
LEMMA MergedFacts ==
  ASSUME NEW H \in SUBSET Slots, H # {}, NEW n \in Vertices,
         \A h \in H : h.neighbor = n /\ h.dirs \in {{"OUT"}, {"IN"}}
  PROVE  /\ Merged(H) \in Slots /\ Merged(H).neighbor = n
         /\ "OUT" \in Merged(H).dirs <=> \E h \in H : h.dirs = {"OUT"}
         /\ "IN" \in Merged(H).dirs <=> \E h \in H : h.dirs = {"IN"}
         /\ \E h \in H : SameData(Merged(H), h)
<1> DEFINE last == IF \E h \in H : h.dirs = {"IN"} THEN {"IN"} ELSE {"OUT"}
           kept == CHOOSE h \in H : h.dirs = last
           all == UNION {h.dirs : h \in H}
<1>1. kept \in H
  <2>1. \E h \in H : h.dirs = last
    OBVIOUS
  <2> HIDE DEF last
  <2> QED BY <2>1
<1>2. Merged(H) = [kept EXCEPT !.dirs = all]
  BY DEF Merged
<1>3. kept \in Slots /\ kept.neighbor = n
  BY <1>1
<1>4. "OUT" \in all <=> \E h \in H : h.dirs = {"OUT"}
  OBVIOUS
<1>5. "IN" \in all <=> \E h \in H : h.dirs = {"IN"}
  OBVIOUS
<1>6. all \in SUBSET {"OUT", "IN"}
  OBVIOUS
<1> HIDE DEF kept, all, last
<1>7. /\ Merged(H) \in Slots /\ Merged(H).neighbor = n /\ Merged(H).dirs = all
      /\ SameData(Merged(H), kept)
  BY <1>2, <1>3, <1>6 DEF Slots, SameData
<1> QED BY <1>1, <1>4, <1>5, <1>7

\* The list of a vertex: one slot for each vertex it has an edge to or from,
\* with the directions there are and a weight of one of these edges.
LEMMA LoadedFacts ==
  ASSUME NEW batch, SnapshotOK(batch), NEW v \in Vertices
  PROVE  /\ LoadedList(batch, v) \in Seq(Slots)
         /\ Len(LoadedList(batch, v)) = Cardinality(LoadedNeighbors(batch, v))
         /\ \A i, j \in DOMAIN LoadedList(batch, v) :
              LoadedList(batch, v)[i].neighbor = LoadedList(batch, v)[j].neighbor => i = j
         /\ \A n \in Vertices :
              /\ SlotsOf(LoadedList(batch, v), n) # {} <=> n \in LoadedNeighbors(batch, v)
              /\ n \in Neighbors(LoadedList(batch, v), "OUT") <=> HasEdge(batch, v, n)
              /\ n \in Neighbors(LoadedList(batch, v), "IN") <=> HasEdge(batch, n, v)
              /\ \A i \in SlotsOf(LoadedList(batch, v), n) :
                   \E h \in HalvesTo(batch, v, n) : SameData(LoadedList(batch, v)[i], h)
<1> DEFINE N == {h.neighbor : h \in Halves(batch, v)}
           M == LoadedNeighbors(batch, v)
           l == LoadedList(batch, v)
           c == Cardinality(N)
<1>1. /\ \A n \in Vertices :
           /\ HalvesTo(batch, v, n) \in SUBSET Slots
           /\ \A h \in HalvesTo(batch, v, n) : h.neighbor = n /\ h.dirs \in {{"OUT"}, {"IN"}}
           /\ (\E h \in HalvesTo(batch, v, n) : h.dirs = {"OUT"}) <=> HasEdge(batch, v, n)
           /\ (\E h \in HalvesTo(batch, v, n) : h.dirs = {"IN"}) <=> HasEdge(batch, n, v)
  BY HalvesToFacts
<1>2. \A n \in Vertices : n \in N <=> HalvesTo(batch, v, n) # {}
  BY DEF HalvesTo
<1>3. \A n \in N : n \in Vertices
  BY HalvesFacts
<1>4. \A n \in Vertices : n \in N <=> n \in M
  <2> SUFFICES ASSUME NEW n \in Vertices PROVE n \in N <=> n \in M
    OBVIOUS
  <2>1. HalvesTo(batch, v, n) # {} <=> HasEdge(batch, v, n) \/ HasEdge(batch, n, v)
    BY <1>1
  <2> HIDE DEF N
  <2> QED BY <1>2, <2>1 DEF LoadedNeighbors
<1>5. N = M
  <2>1. \A n \in M : n \in Vertices
    BY DEF LoadedNeighbors
  <2> HIDE DEF N, M
  <2> QED BY <1>3, <1>4, <2>1
<1>6. N \in SUBSET Nat /\ IsFiniteSet(N)
  <2>1. N \in SUBSET Vertices /\ IsFiniteSet(Vertices) /\ Vertices \subseteq Nat
    BY <1>3, DatasetAssumption
  <2> HIDE DEF N
  <2> QED BY <2>1, FS_Subset
<1>7. /\ c \in Nat
      /\ \A i \in 1 .. c : Nth(N, i) \in N
      /\ \A n \in N : \E i \in 1 .. c : Nth(N, i) = n
      /\ \A i, j \in 1 .. c : Nth(N, i) = Nth(N, j) => i = j
  <2> HIDE DEF N
  <2> QED BY <1>6, NthOf
<1>8. l = [i \in 1 .. c |-> Merged(HalvesTo(batch, v, Nth(N, i)))]
  BY DEF LoadedList, HalvesTo
<1> HIDE DEF l, N, M, c
<1>9. \A n \in N :
        /\ Merged(HalvesTo(batch, v, n)) \in Slots
        /\ Merged(HalvesTo(batch, v, n)).neighbor = n
        /\ "OUT" \in Merged(HalvesTo(batch, v, n)).dirs <=> HasEdge(batch, v, n)
        /\ "IN" \in Merged(HalvesTo(batch, v, n)).dirs <=> HasEdge(batch, n, v)
        /\ \E h \in HalvesTo(batch, v, n) : SameData(Merged(HalvesTo(batch, v, n)), h)
  <2> SUFFICES ASSUME NEW n \in N
               PROVE  /\ Merged(HalvesTo(batch, v, n)) \in Slots
                      /\ Merged(HalvesTo(batch, v, n)).neighbor = n
                      /\ "OUT" \in Merged(HalvesTo(batch, v, n)).dirs <=> HasEdge(batch, v, n)
                      /\ "IN" \in Merged(HalvesTo(batch, v, n)).dirs <=> HasEdge(batch, n, v)
                      /\ \E h \in HalvesTo(batch, v, n) : SameData(Merged(HalvesTo(batch, v, n)), h)
    OBVIOUS
  <2> DEFINE H == HalvesTo(batch, v, n)
  <2>1. n \in Vertices
    BY <1>3
  <2>2. /\ H \in SUBSET Slots /\ H # {}
        /\ \A h \in H : h.neighbor = n /\ h.dirs \in {{"OUT"}, {"IN"}}
        /\ (\E h \in H : h.dirs = {"OUT"}) <=> HasEdge(batch, v, n)
        /\ (\E h \in H : h.dirs = {"IN"}) <=> HasEdge(batch, n, v)
    BY <1>1, <1>2, <2>1
  <2> HIDE DEF H
  <2>3. /\ Merged(H) \in Slots /\ Merged(H).neighbor = n
        /\ "OUT" \in Merged(H).dirs <=> \E h \in H : h.dirs = {"OUT"}
        /\ "IN" \in Merged(H).dirs <=> \E h \in H : h.dirs = {"IN"}
        /\ \E h \in H : SameData(Merged(H), h)
    BY <2>1, <2>2, MergedFacts
  <2> QED BY <2>2, <2>3 DEF H
<1>10. DOMAIN l = 1 .. c /\ \A i \in 1 .. c : l[i] = Merged(HalvesTo(batch, v, Nth(N, i)))
  BY <1>8
<1>11. \A i \in 1 .. c :
         /\ l[i] \in Slots
         /\ l[i].neighbor = Nth(N, i)
         /\ "OUT" \in l[i].dirs <=> HasEdge(batch, v, Nth(N, i))
         /\ "IN" \in l[i].dirs <=> HasEdge(batch, Nth(N, i), v)
         /\ \E h \in HalvesTo(batch, v, Nth(N, i)) : SameData(l[i], h)
  BY <1>7, <1>9, <1>10
<1>12. l \in Seq(Slots) /\ Len(l) = c
  <2> DEFINE F(i) == Merged(HalvesTo(batch, v, Nth(N, i)))
  <2>1. \A i \in 1 .. c : F(i) \in Slots
    BY <1>10, <1>11
  <2>2. l = [i \in 1 .. c |-> F(i)]
    BY <1>8
  <2> HIDE DEF F
  <2> QED BY <1>7, <2>1, <2>2
<1>13. \A i, j \in DOMAIN l : l[i].neighbor = l[j].neighbor => i = j
  BY <1>7, <1>10, <1>11
<1>14. ASSUME NEW n \in Vertices
       PROVE  /\ SlotsOf(l, n) # {} <=> n \in M
              /\ n \in Neighbors(l, "OUT") <=> HasEdge(batch, v, n)
              /\ n \in Neighbors(l, "IN") <=> HasEdge(batch, n, v)
              /\ \A i \in SlotsOf(l, n) : \E h \in HalvesTo(batch, v, n) : SameData(l[i], h)
  <2>1. \A i \in SlotsOf(l, n) : i \in 1 .. c /\ Nth(N, i) = n
    BY <1>10, <1>11 DEF SlotsOf
  <2>2. n \in N => \E i \in 1 .. c : Nth(N, i) = n /\ i \in SlotsOf(l, n)
    BY <1>7, <1>10, <1>11 DEF SlotsOf
  <2>3. SlotsOf(l, n) # {} <=> n \in M
    BY <1>5, <1>7, <2>1, <2>2
  <2>4. \A i \in SlotsOf(l, n) : \E h \in HalvesTo(batch, v, n) : SameData(l[i], h)
    BY <1>11, <2>1
  <2>5. HasEdge(batch, v, n) \/ HasEdge(batch, n, v) => n \in N
    BY <1>4 DEF M, LoadedNeighbors
  <2>6. ASSUME NEW d, n \in Neighbors(l, d)
        PROVE  \E i \in 1 .. c : Nth(N, i) = n /\ d \in l[i].dirs
    BY <1>10, <1>11, <2>6 DEF Neighbors
  <2>7. ASSUME NEW d, NEW i \in 1 .. c, Nth(N, i) = n, d \in l[i].dirs
        PROVE  n \in Neighbors(l, d)
    BY <1>10, <1>11, <2>7 DEF Neighbors
  <2>8. n \in Neighbors(l, "OUT") <=> HasEdge(batch, v, n)
    BY <1>11, <2>2, <2>5, <2>6, <2>7
  <2>9. n \in Neighbors(l, "IN") <=> HasEdge(batch, n, v)
    BY <1>11, <2>2, <2>5, <2>6, <2>7
  <2> QED BY <2>3, <2>4, <2>8, <2>9
<1> QED BY <1>5, <1>12, <1>13, <1>14 DEF l, M, c

\* A snapshot that is loaded has what SnapshotLoads says, whatever the state is
\* otherwise.
LEMMA SnapshotIsOK ==
  ASSUME Dataset, LoadedOK, sort_mode = "SNAPSHOT"
  PROVE  SnapshotOK(snapshot)
<1>1. \A i \in DOMAIN edges : edges[i] \in Edges /\ edges[i].src # edges[i].dst
  BY DEF Dataset
<1>2. \A e \in snapshot : \E i \in DOMAIN edges : e = edges[i]
  BY DEF LoadedOK, Range
<1> QED BY <1>1, <1>2 DEF LoadedOK, SnapshotOK

LEMMA LoadedEdges ==
  ASSUME NEW batch, SnapshotOK(batch), NEW L, L = [v \in Vertices |-> LoadedList(batch, v)]
  PROVE  /\ OutEdges(L) = {e \in Vertices \X Vertices : HasEdge(batch, e[1], e[2])}
         /\ InEdges(L) = OutEdges(L)
<1>1. \A v, n \in Vertices :
        /\ n \in Neighbors(L[v], "OUT") <=> HasEdge(batch, v, n)
        /\ n \in Neighbors(L[v], "IN") <=> HasEdge(batch, n, v)
  BY LoadedFacts
<1>2. \A e \in Vertices \X Vertices :
        /\ e[2] \in Neighbors(L[e[1]], "OUT") <=> HasEdge(batch, e[1], e[2])
        /\ e[1] \in Neighbors(L[e[2]], "IN") <=> HasEdge(batch, e[1], e[2])
  BY <1>1
<1> QED BY <1>2 DEF OutEdges, InEdges

NoOpposite(batch, e) == \A f \in batch : f.src # e.dst \/ f.dst # e.src

Loads(L, batch) == L = [v \in Vertices |-> LoadedList(batch, v)]

LEMMA LoadedWeights ==
  ASSUME NEW batch, SnapshotOK(batch), NEW L, Loads(L, batch),
         NEW e \in batch, NoOpposite(batch, e)
  PROVE  /\ L[e.src][Min(SlotsOf(L[e.src], e.dst))].weight = e.weight
         /\ L[e.dst][Min(SlotsOf(L[e.dst], e.src))].weight = e.weight
         /\ \A i \in SlotsOf(L[e.src], e.dst) : L[e.src][i].timeRecent = e.timestamp
<1>1. batch \in SUBSET Edges /\ e \in Edges /\ e.src \in Vertices /\ e.dst \in Vertices
  BY DEF SnapshotOK, Edges
<1>2. \A f \in batch : f.src = e.src /\ f.dst = e.dst => f = e
  BY DEF SnapshotOK, SameEdge
<1>3. ASSUME NEW v \in Vertices, NEW n \in Vertices,
             (v = e.src /\ n = e.dst) \/ (v = e.dst /\ n = e.src)
      PROVE  /\ L[v][Min(SlotsOf(L[v], n))].weight = e.weight
             /\ \A i \in SlotsOf(L[v], n) : L[v][i].timeRecent = e.timestamp
  <2>1. ASSUME NEW h \in HalvesTo(batch, v, n)
        PROVE  h.weight = e.weight /\ h.timeRecent = e.timestamp
    <3>1. h \in Halves(batch, v) /\ h.neighbor = n
      BY DEF HalvesTo
    <3>2. PICK f \in batch : \/ h = Half(f, "OUT") /\ f.src = v
                             \/ h = Half(f, "IN") /\ f.dst = v
      BY <3>1, HalvesFacts
    <3>3. /\ Half(f, "OUT").neighbor = f.dst /\ Half(f, "OUT").weight = f.weight
          /\ Half(f, "IN").neighbor = f.src /\ Half(f, "IN").weight = f.weight
          /\ Half(f, "OUT").timeRecent = f.timestamp /\ Half(f, "IN").timeRecent = f.timestamp
      BY <1>1, HalfFacts
    <3>4. h.weight = f.weight /\ h.timeRecent = f.timestamp /\ ((f.src = v /\ f.dst = n) \/ (f.dst = v /\ f.src = n))
      <4>1. CASE h = Half(f, "OUT") /\ f.src = v
        BY <3>1, <3>3, <4>1
      <4>2. CASE h = Half(f, "IN") /\ f.dst = v
        BY <3>1, <3>3, <4>2
      <4> QED BY <3>2, <4>1, <4>2
    <3>5. f.src = e.src /\ f.dst = e.dst
      BY <1>3, <3>4 DEF NoOpposite
    <3> QED BY <1>2, <3>2, <3>4, <3>5
  <2> DEFINE S == SlotsOf(L[v], n)
  <2>2. L[v] = LoadedList(batch, v)
    BY DEF Loads
  <2>3. L[v] \in Seq(Slots)
    BY <2>2, LoadedFacts
  <2>4. S # {} /\ \A i \in S : \E h \in HalvesTo(batch, v, n) : SameData(L[v][i], h)
    <3>1. HasEdge(batch, v, n) \/ HasEdge(batch, n, v)
      BY <1>3 DEF HasEdge
    <3>2. n \in LoadedNeighbors(batch, v)
      BY <3>1 DEF LoadedNeighbors
    <3> QED BY <2>2, <3>2, LoadedFacts
  <2>5. S \in SUBSET Nat
    BY <2>3 DEF SlotsOf
  <2> HIDE DEF S
  <2>6. Min(S) \in S
    BY <2>4, <2>5, MinOf
  <2>7. L[v][Min(S)].weight = e.weight /\ \A i \in S : L[v][i].timeRecent = e.timestamp
    BY <2>1, <2>4, <2>6 DEF SameData
  <2> QED BY <2>7 DEF S
<1>4. L[e.src][Min(SlotsOf(L[e.src], e.dst))].weight = e.weight
  BY <1>1, <1>3
<1>5. L[e.dst][Min(SlotsOf(L[e.dst], e.src))].weight = e.weight
  BY <1>1, <1>3
<1>6. \A i \in SlotsOf(L[e.src], e.dst) : L[e.src][i].timeRecent = e.timestamp
  BY <1>1, <1>3
<1> QED BY <1>4, <1>5, <1>6

LEMMA SnapshotIsLoaded ==
  ASSUME Dataset, LoadedOK
  PROVE  SnapshotLoads
<1> SUFFICES ASSUME sort_mode = "SNAPSHOT"
             PROVE  /\ Consistent
                    /\ \A v \in Vertices :
                         /\ \A n \in Vertices : Cardinality(SlotsOf(lists[v], n)) <= 1
                         /\ vertex[v].degree = Cardinality({n \in Vertices : SlotsOf(lists[v], n) # {}})
                    /\ \A e \in snapshot :
                         (\A f \in snapshot : f.src # e.dst \/ f.dst # e.src) =>
                           /\ lists[e.src][Min(SlotsOf(lists[e.src], e.dst))].weight = e.weight
                           /\ lists[e.dst][Min(SlotsOf(lists[e.dst], e.src))].weight = e.weight
  BY DEF SnapshotLoads
<1>1. SnapshotOK(snapshot)
  BY SnapshotIsOK
<1>2. lists = [v \in Vertices |-> LoadedList(snapshot, v)] /\ vertex = [v \in Vertices |-> LoadedVertex(lists, v)]
  BY DEF LoadedOK
<1>3. InEdges(lists) = OutEdges(lists)
  BY <1>1, <1>2, LoadedEdges
<1>4. \A v \in Vertices :
        /\ vertex[v].inDegree = Cardinality({e \in OutEdges(lists) : e[2] = v})
        /\ vertex[v].outDegree = Cardinality({e \in OutEdges(lists) : e[1] = v})
        /\ vertex[v].degree = Len(lists[v])
  BY <1>2 DEF LoadedVertex
<1>5. Consistent
  BY <1>3, <1>4 DEF Consistent
<1>6. ASSUME NEW v \in Vertices
      PROVE  /\ \A n \in Vertices : Cardinality(SlotsOf(lists[v], n)) <= 1
             /\ vertex[v].degree = Cardinality({n \in Vertices : SlotsOf(lists[v], n) # {}})
  <2> DEFINE l == lists[v]
  <2>1. l = LoadedList(snapshot, v)
    BY <1>2
  <2> HIDE DEF l
  <2>2. /\ Len(l) = Cardinality(LoadedNeighbors(snapshot, v))
        /\ \A i, j \in DOMAIN l : l[i].neighbor = l[j].neighbor => i = j
        /\ \A n \in Vertices : SlotsOf(l, n) # {} <=> n \in LoadedNeighbors(snapshot, v)
    BY <1>1, <2>1, LoadedFacts
  <2>3. ASSUME NEW n \in Vertices PROVE Cardinality(SlotsOf(l, n)) <= 1
    <3>1. \A i, j \in SlotsOf(l, n) : i = j
      BY <2>2 DEF SlotsOf
    <3>2. SlotsOf(l, n) = {} \/ \E i : SlotsOf(l, n) = {i}
      BY <3>1
    <3> QED BY <3>2, FS_EmptySet, FS_Singleton
  <2>4. {n \in Vertices : SlotsOf(l, n) # {}} = LoadedNeighbors(snapshot, v)
    BY <2>2 DEF LoadedNeighbors
  <2> QED BY <1>4, <2>2, <2>3, <2>4 DEF l
<1>7. ASSUME NEW e \in snapshot, \A f \in snapshot : f.src # e.dst \/ f.dst # e.src
      PROVE  /\ lists[e.src][Min(SlotsOf(lists[e.src], e.dst))].weight = e.weight
             /\ lists[e.dst][Min(SlotsOf(lists[e.dst], e.src))].weight = e.weight
  BY <1>1, <1>2, <1>7, LoadedWeights DEF Loads, NoOpposite
<1> QED BY <1>5, <1>6, <1>7

-----------------------------------------------------------------------------
(* What the invariant says of the types and of single batches.             *)

LEMMA MaxActiveIn ==
  ASSUME NEW V
  PROVE  /\ MaxActive(V) \in Vertices \cup {0} /\ MaxActive(V) \in Nat
         /\ \A v \in Vertices : V[v].outDegree > 0 => v <= MaxActive(V)
<1> DEFINE B == {v \in Vertices : V[v].inDegree > 0 \/ V[v].outDegree > 0}
           A == {0} \cup B
<1>1. B \in SUBSET Vertices /\ IsFiniteSet(Vertices) /\ Vertices \subseteq Nat
  BY DatasetAssumption
<1>2. IsFiniteSet(B)
  <2> HIDE DEF B
  <2> QED BY <1>1, FS_Subset
<1>3. IsFiniteSet(A)
  <2>1. IsFiniteSet(B \cup {0})
    <3> HIDE DEF B
    <3> QED BY <1>2, FS_AddElement
  <2>2. A = B \cup {0}
    OBVIOUS
  <2> QED BY <2>1, <2>2
<1>4. A \in SUBSET Nat /\ A # {} /\ A \subseteq Vertices \cup {0}
  <2> HIDE DEF B
  <2> QED BY <1>1
<1>5. MaxActive(V) = Max(A)
  BY DEF MaxActive
<1>6. \A v \in Vertices : V[v].outDegree > 0 => v \in A
  OBVIOUS
<1> HIDE DEF A
<1>7. Max(A) \in A /\ \A x \in A : x <= Max(A)
  BY <1>3, <1>4, MaxOf
<1> QED BY <1>4, <1>5, <1>6, <1>7

LEMMA LoadedVertexType ==
  ASSUME NEW L \in [Vertices -> Seq(Slots)], NEW v \in Vertices
  PROVE  LoadedVertex(L, v) \in Counters
<1>1. IsFiniteSet(Vertices \X Vertices)
  BY DatasetAssumption, FS_Product
<1>2. \A S \in SUBSET (Vertices \X Vertices) : Cardinality(S) \in Nat
  BY <1>1, FS_Subset, FS_CardinalityType
<1>3. OutEdges(L) \in SUBSET (Vertices \X Vertices)
  BY DEF OutEdges
<1>4. /\ {e \in OutEdges(L) : e[2] = v} \in SUBSET (Vertices \X Vertices)
      /\ {e \in OutEdges(L) : e[1] = v} \in SUBSET (Vertices \X Vertices)
  BY <1>3
<1>5. Len(L[v]) \in Nat
  OBVIOUS
<1>6. /\ Cardinality({e \in OutEdges(L) : e[2] = v}) \in Nat
      /\ Cardinality({e \in OutEdges(L) : e[1] = v}) \in Nat
  BY <1>2, <1>4
<1> QED BY <1>5, <1>6 DEF LoadedVertex, Counters

LEMMA GraphTypes ==
  ASSUME Dataset, UpdatedOK, LoadedOK
  PROVE  /\ lists \in [Vertices -> Seq(Slots)] /\ vertex \in [Vertices -> Counters]
         /\ snapshot \subseteq Range(edges)
<1>1. CASE sort_mode = "UNSORTED"
  <2>1. lists \in [Vertices -> Seq(Slots)] /\ vertex = [v \in Vertices |-> Counts(lists[v])]
        /\ snapshot = {}
    BY <1>1 DEF UpdatedOK
  <2>2. \A v \in Vertices : Counts(lists[v]) \in Counters
    BY <2>1, CountTypes
  <2> QED BY <2>1, <2>2
<1>2. CASE sort_mode = "SNAPSHOT"
  <2>1. SnapshotOK(snapshot)
    BY <1>2, SnapshotIsOK
  <2>2. /\ lists = [v \in Vertices |-> LoadedList(snapshot, v)]
        /\ vertex = [v \in Vertices |-> LoadedVertex(lists, v)]
        /\ snapshot \subseteq Range(edges)
    BY <1>2 DEF LoadedOK
  <2>3. \A v \in Vertices : LoadedList(snapshot, v) \in Seq(Slots)
    BY <2>1, LoadedFacts
  <2>4. lists \in [Vertices -> Seq(Slots)]
    BY <2>2, <2>3
  <2>5. \A v \in Vertices : LoadedVertex(lists, v) \in Counters
    BY <2>4, LoadedVertexType
  <2> QED BY <2>2, <2>4, <2>5
<1> QED BY <1>1, <1>2 DEF Dataset

\* The type invariant of the model follows.
LEMMA Types ==
  ASSUME IInv
  PROVE  TypeOK
<1>1. Dataset /\ UpdatedOK /\ LoadedOK /\ ControlOK /\ InflightOK /\ SetupOK /\ RecordedOK
  BY DatasetFacts DEF IInv
<1>2. /\ lists \in [Vertices -> Seq(Slots)] /\ vertex \in [Vertices -> Counters]
      /\ snapshot \subseteq Range(edges)
  BY <1>1, GraphTypes
<1>3. edges \in Seq(Edges) /\ window \in Windows /\ num_threads \in ThreadCounts /\ sort_mode \in SortModes
  BY <1>1 DEF Dataset, SetupOK
<1>4. /\ batch_id \in 0 .. NumBatches
      /\ phase \in {"before_batch", "deletions", "insertions", "done"}
      /\ next \in 1 .. Len(edges) + 1
  BY <1>1 DEF ControlOK
<1>5. inflight \subseteq [edge : DOMAIN edges, half : {1, 2}] /\ Cardinality(inflight) <= num_threads
  BY <1>1 DEF InflightOK
<1>6. recentDeletions \subseteq Vertices \X Vertices /\ max_active_vertex \in Vertices \cup {0}
  BY <1>1 DEF RecordedOK, IInv
<1> QED BY <1>2, <1>3, <1>4, <1>5, <1>6 DEF TypeOK, Counters

\* The batch at hand.
LEMMA CurrentBatch ==
  ASSUME Dataset, ControlOK, phase # "done"
  PROVE  /\ batch_id \in 0 .. NumBatches - 1
         /\ BatchFirst \in Nat \ {0} /\ BatchLast \in DOMAIN edges
         /\ BatchFirst <= BatchLast + 1 /\ BatchLast <= Len(edges) /\ BatchLast \in Nat
         /\ Batch(batch_id) = BatchFirst .. BatchLast
         /\ Threshold(batch_id) \in Nat /\ Threshold(batch_id) >= MinTimestamp
         /\ ~Windowed => Threshold(batch_id) = MinTimestamp
<1>1. NumBatches \in Nat \ {0} /\ batch_id \in 0 .. NumBatches /\ batch_id # NumBatches
  BY BatchFacts DEF ControlOK
<1>2. batch_id \in 0 .. NumBatches - 1
  BY <1>1
<1>3. /\ BatchStart(batch_id) \in Nat \ {0} /\ BatchEnd(batch_id) \in DOMAIN edges
      /\ BatchStart(batch_id) <= BatchEnd(batch_id) /\ BatchEnd(batch_id) <= Len(edges)
  BY <1>2, BatchFacts
<1>4. FilteredStart(BatchStart(batch_id), batch_id) \in BatchStart(batch_id) .. BatchEnd(batch_id) + 1
  BY <1>2, <1>3, FilterFacts
<1>5. BatchEnd(batch_id) \in Nat
  BY <1>3 DEF Dataset
<1>6. Batch(batch_id) = BatchFirst .. BatchLast
  BY DEF Batch, BatchFirst, BatchLast
<1> QED BY <1>2, <1>3, <1>4, <1>5, <1>6, TimeFacts DEF BatchFirst, BatchLast

-----------------------------------------------------------------------------
(* The steps.                                                              *)

\* Nothing about the dataset changes.
LEMMA SameSetup ==
  ASSUME SetupOK, UNCHANGED setup
  PROVE  /\ SetupOK' /\ Dataset' /\ Dataset
         /\ edges' = edges /\ sort_mode' = sort_mode /\ num_threads' = num_threads
         /\ MinTimestamp' = MinTimestamp /\ NumBatches' = NumBatches
         /\ \A b : Batch(b)' = Batch(b)
<1>1. edges' = edges /\ window' = window /\ sort_mode' = sort_mode /\ num_threads' = num_threads
  BY DEF setup
<1>2. SetupOK'
  BY <1>1 DEF SetupOK
<1>3. Dataset
  BY DatasetFacts
<1>4. Dataset'
  BY <1>1, <1>3 DEF Dataset
<1>5. MinTimestamp' = MinTimestamp /\ NumBatches' = NumBatches
  BY <1>1 DEF MinTimestamp, NumBatches
<1>6. \A b : Batch(b)' = Batch(b)
  BY <1>1 DEF Batch, FilteredStart, Threshold, MinTimestamp, BatchStart, BatchEnd, Ref!Later
<1> QED BY <1>1, <1>2, <1>3, <1>4, <1>5, <1>6

\* Nor about the batch.
LEMMA SameBatch ==
  ASSUME UNCHANGED setup, batch_id' = batch_id
  PROVE  /\ BatchFirst' = BatchFirst /\ BatchLast' = BatchLast
         /\ Threshold(batch_id)' = Threshold(batch_id)
<1>1. edges' = edges /\ window' = window
  BY DEF setup
<1> QED BY <1>1 DEF BatchFirst, BatchLast, FilteredStart, Threshold, MinTimestamp,
                    BatchStart, BatchEnd, Ref!Later

\* Nor about the graph.
LEMMA SameGraph ==
  ASSUME SetupOK, UpdatedOK, LoadedOK, UNCHANGED <<setup, lists, vertex, snapshot>>
  PROVE  UpdatedOK' /\ LoadedOK' /\ OutEdges(lists)' = OutEdges(lists) /\ InEdges(lists)' = InEdges(lists)
<1>1. /\ edges' = edges /\ sort_mode' = sort_mode /\ MinTimestamp' = MinTimestamp
      /\ lists' = lists /\ vertex' = vertex /\ snapshot' = snapshot
  BY SameSetup
<1>2. UpdatedOK'
  BY <1>1 DEF UpdatedOK
<1>3. LoadedOK'
  BY <1>1 DEF LoadedOK
<1> QED BY <1>1, <1>2, <1>3

\* Between batches nothing changes what the last batch left.
LEMMA SameWhole ==
  ASSUME SetupOK, BatchIsWhole, UNCHANGED <<setup, lists, batch_id, phase>>
  PROVE  BatchIsWhole'
<1>1. edges' = edges /\ lists' = lists /\ batch_id' = batch_id /\ phase' = phase
      /\ \A b : Batch(b)' = Batch(b)
  BY SameSetup
<1>2. Batch(batch_id - 1)' = Batch(batch_id - 1)
  <2>1. edges' = edges /\ window' = window /\ batch_id' = batch_id
    BY DEF setup
  <2> QED BY <2>1 DEF Batch, FilteredStart, Threshold, MinTimestamp, BatchStart, BatchEnd, Ref!Later
<1>3. OutEdges(lists)' = OutEdges(lists) /\ InEdges(lists)' = InEdges(lists)
  BY <1>1
<1> QED BY <1>1, <1>2, <1>3 DEF BatchIsWhole

LEMMA InitInv ==
  ASSUME Init
  PROVE  IInv
<1>1. SetupOK
  BY DEF Init, SetupOK
<1>2. Dataset /\ MinTimestamp \in Nat /\ NumBatches \in Nat \ {0} /\ Len(edges) \in Nat
  <2>1. Dataset
    BY <1>1, DatasetFacts
  <2>2. Len(edges) \in Nat
    BY <2>1 DEF Dataset
  <2> QED BY <2>1, <2>2, TimeFacts, BatchFacts
<1>3. ControlOK
  BY <1>2 DEF Init, ControlOK
<1>4. InflightOK
  <2>1. num_threads \in Nat \ {0}
    BY <1>2 DEF Dataset
  <2> QED BY <2>1, FS_EmptySet DEF Init, InflightOK
<1>5. <<>> \in Seq(Slots) /\ DOMAIN <<>> = {} /\ Len(<<>>) = 0
  OBVIOUS
<1>6. UpdatedOK
  <2>1. ListOK(<<>>, MinTimestamp)
    BY <1>5 DEF ListOK
  <2>2. Counts(<<>>) = NewVertex
    <3>1. \A d : Directed(<<>>, d) = 0
      <4>1. \A d : {i \in DOMAIN <<>> : d \in (<<>>)[i].dirs} = {}
        BY <1>5
      <4> QED BY <4>1, FS_EmptySet DEF Directed
    <3>2. Used(<<>>) = 0
      <4>1. {i \in DOMAIN <<>> : (<<>>)[i].neighbor # Blank} = {}
        BY <1>5
      <4> QED BY <4>1, FS_EmptySet DEF Used
    <3> QED BY <3>1, <3>2 DEF Counts, NewVertex
  <2>3. /\ lists = [v \in Vertices |-> <<>>] /\ vertex = [v \in Vertices |-> NewVertex]
        /\ snapshot = {}
    BY DEF Init
  <2> QED BY <1>5, <2>1, <2>2, <2>3 DEF UpdatedOK
<1>7. LoadedOK
  <2>1. /\ lists = [v \in Vertices |-> <<>>] /\ vertex = [v \in Vertices |-> NewVertex]
        /\ snapshot = {}
    BY DEF Init
  <2>2. SnapshotOK({})
    BY DEF SnapshotOK
  <2>3. ASSUME NEW v \in Vertices PROVE LoadedList({}, v) = <<>>
    <3>1. LoadedNeighbors({}, v) = {}
      BY DEF LoadedNeighbors, HasEdge
    <3>2. LoadedList({}, v) \in Seq(Slots) /\ Len(LoadedList({}, v)) = 0
      BY <2>2, <3>1, LoadedFacts, FS_EmptySet
    <3> QED BY <3>2
  <2>4. ASSUME NEW v \in Vertices PROVE LoadedVertex(lists, v) = NewVertex
    <3>1. OutEdges(lists) = {}
      BY <1>5, <2>1 DEF OutEdges, Neighbors
    <3>2. /\ {e \in OutEdges(lists) : e[2] = v} = {}
          /\ {e \in OutEdges(lists) : e[1] = v} = {}
      BY <3>1
    <3>3. Len(lists[v]) = 0
      BY <1>5, <2>1
    <3> QED BY <3>2, <3>3, FS_EmptySet DEF LoadedVertex, NewVertex
  <2>5. lists = [v \in Vertices |-> LoadedList(snapshot, v)]
    BY <2>1, <2>3
  <2>6. vertex = [v \in Vertices |-> LoadedVertex(lists, v)]
    BY <2>1, <2>4
  <2> QED BY <2>1, <2>5, <2>6 DEF LoadedOK
<1>8. BatchDone /\ RecordedOK /\ BatchIsWhole /\ max_active_vertex \in Vertices \cup {0}
  BY DEF Init, BatchDone, RecordedOK, BatchIsWhole
<1> QED BY <1>1, <1>3, <1>4, <1>6, <1>7, <1>8 DEF IInv

LEMMA BeforeBatchInv ==
  ASSUME IInv, BeforeBatch
  PROVE  IInv'
<1>1. SetupOK /\ ControlOK /\ InflightOK /\ UpdatedOK /\ LoadedOK /\ RecordedOK
  BY DEF IInv
<1>2. /\ UNCHANGED <<setup, lists, vertex, max_active_vertex, batch_id, next, inflight, snapshot>>
      /\ phase = "before_batch" /\ phase' = "deletions" /\ sort_mode = "UNSORTED"
      /\ recentDeletions' = Expiring(lists)
  BY DEF BeforeBatch
<1>3. SetupOK' /\ edges' = edges /\ sort_mode' = sort_mode /\ num_threads' = num_threads
      /\ NumBatches' = NumBatches
  BY <1>1, <1>2, SameSetup
<1>4. UpdatedOK' /\ LoadedOK'
  BY <1>1, <1>2, SameGraph
<1>5. ControlOK'
  BY <1>1, <1>2, <1>3 DEF ControlOK
<1>6. InflightOK'
  BY <1>1, <1>2, <1>3 DEF InflightOK
<1>7. RecordedOK'
  <2>1. Expiring(lists) \subseteq Vertices \X Vertices
    BY DEF Expiring, OutEdges
  <2>2. Expiring(lists)' = Expiring(lists)
    <3>1. Threshold(batch_id)' = Threshold(batch_id) /\ lists' = lists
      BY <1>2, SameBatch
    <3> QED BY <3>1 DEF Expiring, OutEdges, OutSlot, SlotsOf, Neighbors
  <2> QED BY <1>2, <2>1, <2>2 DEF RecordedOK
<1>8. BatchDone' /\ BatchIsWhole' /\ max_active_vertex' \in Vertices \cup {0}
  BY <1>2 DEF BatchDone, BatchIsWhole, IInv
<1> QED BY <1>3, <1>4, <1>5, <1>6, <1>7, <1>8 DEF IInv

\* What the deletions do to the graph.
LEMMA DeleteGraph ==
  ASSUME Dataset, ControlOK, UpdatedOK, Delete, sort_mode = "UNSORTED"
  PROVE  /\ lists' \in [Vertices -> Seq(Slots)]
         /\ \A v \in Vertices :
              lists'[v] = IF Windowed THEN Survivors(lists[v], Threshold(batch_id)) ELSE lists[v]
         /\ \A v \in Vertices : ListOK(lists'[v], MinTimestamp)
         /\ vertex' = [v \in Vertices |-> Counts(lists'[v])]
         /\ max_active_vertex' \in Vertices \cup {0} \/ max_active_vertex' = max_active_vertex
<1>1. phase = "deletions"
  BY DEF Delete
<1>2. Threshold(batch_id) \in Nat /\ MinTimestamp \in Nat
  BY <1>1, CurrentBatch, TimeFacts
<1>3. /\ lists \in [Vertices -> Seq(Slots)] /\ vertex = [v \in Vertices |-> Counts(lists[v])]
      /\ \A v \in Vertices : ListOK(lists[v], MinTimestamp)
  BY DEF UpdatedOK
<1>4. CASE Windowed
  <2> DEFINE h == Threshold(batch_id)
  <2>1. /\ lists' = [v \in Vertices |-> [i \in DOMAIN lists[v] |-> Expired(lists[v][i], h)]]
        /\ vertex' = [v \in Vertices |-> Recount(vertex[v], lists[v], lists'[v])]
        /\ max_active_vertex' = MaxActive(vertex')
    BY <1>4 DEF Delete
  <2> HIDE DEF h
  <2>2. \A v \in Vertices : lists'[v] = Survivors(lists[v], h)
    BY <2>1 DEF Survivors
  <2>3. \A v \in Vertices : ListOK(Survivors(lists[v], h), MinTimestamp)
    BY <1>2, <1>3, SurvivorsOK DEF h
  <2>4. lists' = [v \in Vertices |-> lists'[v]]
    BY <2>1
  <2>5. \A v \in Vertices : lists'[v] \in Seq(Slots) /\ ListOK(lists'[v], MinTimestamp)
    BY <2>2, <2>3 DEF ListOK
  <2>6. \A v \in Vertices : Recount(vertex[v], lists[v], lists'[v]) = Counts(lists'[v])
    BY <1>3, <2>5, RecountFacts
  <2>7. vertex' = [v \in Vertices |-> Counts(lists'[v])]
    BY <2>1, <2>6
  <2>8. max_active_vertex' \in Vertices \cup {0}
    BY <2>1, MaxActiveIn
  <2>9. lists' \in [Vertices -> Seq(Slots)]
    BY <2>4, <2>5
  <2> QED BY <1>4, <2>2, <2>5, <2>7, <2>8, <2>9 DEF h
<1>5. CASE ~Windowed
  <2>1. UNCHANGED <<lists, vertex, max_active_vertex>>
    BY <1>5 DEF Delete
  <2> QED BY <1>3, <1>5, <2>1
<1> QED BY <1>4, <1>5

LEMMA DeleteInv ==
  ASSUME IInv, Delete
  PROVE  IInv'
<1>1. SetupOK /\ ControlOK /\ InflightOK /\ UpdatedOK /\ LoadedOK /\ RecordedOK
  BY DEF IInv
<1>2. /\ UNCHANGED <<setup, recentDeletions, batch_id, inflight, snapshot>>
      /\ phase = "deletions" /\ phase' = "insertions"
      /\ next' = BatchFirst
  BY DEF Delete, BatchFirst
<1>3. /\ SetupOK' /\ Dataset /\ edges' = edges /\ sort_mode' = sort_mode
      /\ num_threads' = num_threads /\ NumBatches' = NumBatches /\ MinTimestamp' = MinTimestamp
  BY <1>1, <1>2, SameSetup
<1>4. sort_mode = "UNSORTED"
  BY <1>1, <1>2, <1>3 DEF Dataset, ControlOK
<1>5. BatchFirst' = BatchFirst /\ BatchLast' = BatchLast
  BY <1>2, SameBatch
<1>6. /\ BatchFirst \in Nat \ {0} /\ BatchFirst <= BatchLast + 1 /\ BatchLast <= Len(edges)
      /\ BatchLast \in Nat /\ Len(edges) \in Nat
  BY <1>1, <1>2, <1>3, CurrentBatch DEF Dataset
<1>7. /\ lists' \in [Vertices -> Seq(Slots)]
      /\ \A v \in Vertices : ListOK(lists'[v], MinTimestamp)
      /\ vertex' = [v \in Vertices |-> Counts(lists'[v])]
      /\ max_active_vertex' \in Vertices \cup {0} \/ max_active_vertex' = max_active_vertex
  BY <1>1, <1>3, <1>4, DeleteGraph
<1>8. UpdatedOK'
  <2>1. snapshot' = {}
    BY <1>1, <1>2, <1>4 DEF UpdatedOK
  <2> QED BY <1>3, <1>7, <2>1 DEF UpdatedOK
<1>9. LoadedOK'
  BY <1>3, <1>4 DEF LoadedOK
<1>10. ControlOK'
  BY <1>1, <1>2, <1>3, <1>4, <1>5, <1>6 DEF ControlOK
<1>11. InflightOK'
  BY <1>1, <1>2, <1>3 DEF InflightOK
<1>12. BatchDone'
  BY <1>2, <1>5, <1>6 DEF BatchDone
<1>13. RecordedOK' /\ BatchIsWhole'
  BY <1>1, <1>2 DEF RecordedOK, BatchIsWhole
<1>14. max_active_vertex' \in Vertices \cup {0}
  BY <1>7 DEF IInv
<1> QED BY <1>3, <1>8, <1>9, <1>10, <1>11, <1>12, <1>13, <1>14 DEF IInv

LEMMA TakeInv ==
  ASSUME IInv, Take
  PROVE  IInv'
<1>1. SetupOK /\ ControlOK /\ InflightOK /\ UpdatedOK /\ LoadedOK /\ RecordedOK /\ BatchDone
  BY DEF IInv
<1> DEFINE new == [edge |-> next, half |-> 1]
<1>2. /\ UNCHANGED <<setup, lists, vertex, max_active_vertex, recentDeletions, batch_id, phase, snapshot>>
      /\ phase = "insertions" /\ next <= BatchLast /\ Cardinality(inflight) < num_threads
      /\ inflight' = inflight \cup {new} /\ next' = next + 1
  BY DEF Take, BatchLast
<1>3. /\ SetupOK' /\ Dataset /\ edges' = edges /\ sort_mode' = sort_mode
      /\ num_threads' = num_threads /\ NumBatches' = NumBatches
  BY <1>1, <1>2, SameSetup
<1>4. UpdatedOK' /\ LoadedOK'
  BY <1>1, <1>2, SameGraph
<1>5. BatchFirst' = BatchFirst /\ BatchLast' = BatchLast
  BY <1>2, SameBatch
<1>6. /\ BatchFirst \in Nat \ {0} /\ BatchLast <= Len(edges) /\ BatchLast \in Nat
      /\ Len(edges) \in Nat /\ DOMAIN edges = 1 .. Len(edges) /\ num_threads \in Nat
  BY <1>1, <1>2, <1>3, CurrentBatch DEF Dataset
<1>7. next \in BatchFirst .. BatchLast + 1
  BY <1>1, <1>2 DEF ControlOK
<1>8. ControlOK'
  <2>1. next' \in 1 .. Len(edges) + 1 /\ next' \in BatchFirst .. BatchLast + 1
    BY <1>2, <1>6, <1>7
  <2> QED BY <1>1, <1>2, <1>3, <1>5, <2>1 DEF ControlOK
<1>9. InflightOK'
  <2>1. /\ inflight \subseteq [edge : DOMAIN edges, half : {1, 2}]
        /\ IsFiniteSet(inflight) /\ Cardinality(inflight) \in Nat
    BY <1>1, FS_CardinalityType DEF InflightOK
  <2>2. new \in [edge : DOMAIN edges, half : {1, 2}]
    BY <1>2, <1>6, <1>7
  <2> HIDE DEF new
  <2>3. /\ IsFiniteSet(inflight')
        /\ Cardinality(inflight') = Cardinality(inflight) \/ Cardinality(inflight') = Cardinality(inflight) + 1
    BY <1>2, <2>1, FS_AddElement
  <2>4. Cardinality(inflight') <= num_threads
    BY <1>2, <1>6, <2>1, <2>3
  <2>5. inflight' \subseteq [edge : DOMAIN edges, half : {1, 2}]
    BY <1>2, <2>1, <2>2
  <2> QED BY <1>2, <1>3, <2>3, <2>4, <2>5 DEF InflightOK
<1>10. BatchDone'
  <2> SUFFICES ASSUME NEW i \in BatchFirst .. next, NEW half \in {1, 2},
                      \A c \in inflight' : c.edge = i => c.half > half
               PROVE  HalfDone(lists, edges[i], HalfDirection(edges[i], half))
    <3>1. next' - 1 = next
      BY <1>2, <1>6, <1>7
    <3>2. \A e, d : HalfDone(lists, e, d)' = HalfDone(lists, e, d)
      BY <1>2 DEF HalfDone, Neighbors
    <3> HIDE DEF new
    <3> QED BY <1>2, <1>3, <1>5, <3>1, <3>2 DEF BatchDone, HalfDone
  <2>1. new \in inflight' /\ new.edge = next /\ new.half = 1
    BY <1>2
  <2>2. i # next
    BY <2>1
  <2>3. i \in BatchFirst .. next - 1
    BY <1>6, <1>7, <2>2
  <2>4. \A c \in inflight : c.edge = i => c.half > half
    BY <1>2
  <2> HIDE DEF new
  <2> QED BY <1>1, <1>2, <2>3, <2>4 DEF BatchDone
<1>11. RecordedOK' /\ BatchIsWhole' /\ max_active_vertex' \in Vertices \cup {0}
  BY <1>1, <1>2 DEF RecordedOK, BatchIsWhole, IInv
<1> QED BY <1>3, <1>4, <1>8, <1>9, <1>10, <1>11 DEF IInv

\* The neighbour and the direction one half of an insertion gives a vertex.
Adds(c, x, m, dd) ==
  /\ dd = HalfDirection(edges[c.edge], c.half)
  /\ x = IF dd = "OUT" THEN edges[c.edge].src ELSE edges[c.edge].dst
  /\ m = IF dd = "OUT" THEN edges[c.edge].dst ELSE edges[c.edge].src

\* An outgoing slot of x is the old one, or that of the edge e.
OutFrom(L, L2, x, i, e) ==
  \/ x = e.src /\ L2[x][i].neighbor = e.dst /\ L2[x][i].timeRecent = e.timestamp
  \/ /\ i \in DOMAIN L[x] /\ "OUT" \in L[x][i].dirs
     /\ L2[x][i].neighbor = L[x][i].neighbor /\ L2[x][i].timeRecent = L[x][i].timeRecent

\* What one half of an insertion does to the graph.
LEMMA InsertGraph ==
  ASSUME Dataset, UpdatedOK, sort_mode = "UNSORTED", InflightOK, NEW c \in inflight, InsertHalf(c)
  PROVE  /\ lists' \in [Vertices -> Seq(Slots)]
         /\ \A v \in Vertices : ListOK(lists'[v], MinTimestamp) /\ Keeps(lists[v], lists'[v])
         /\ vertex' = [v \in Vertices |-> Counts(lists'[v])]
         /\ HalfDone(lists', edges[c.edge], HalfDirection(edges[c.edge], c.half))
         /\ \A x, m \in Vertices : \A dd :
              m \in Neighbors(lists'[x], dd) => m \in Neighbors(lists[x], dd) \/ Adds(c, x, m, dd)
         /\ \A x \in Vertices : \A i \in DOMAIN lists'[x] :
              "OUT" \in lists'[x][i].dirs => OutFrom(lists, lists', x, i, edges[c.edge])
<1> DEFINE e == edges[c.edge]
           d == HalfDirection(e, c.half)
           v == IF d = "OUT" THEN e.src ELSE e.dst
           n == IF d = "OUT" THEN e.dst ELSE e.src
           list2 == Update(lists[v], n, d, e.weight, e.timestamp)
<1>1. /\ lists \in [Vertices -> Seq(Slots)] /\ vertex = [x \in Vertices |-> Counts(lists[x])]
      /\ \A x \in Vertices : ListOK(lists[x], MinTimestamp)
  BY DEF UpdatedOK
<1>2. c.edge \in DOMAIN edges /\ c.half \in {1, 2}
  BY DEF InflightOK
<1>3. /\ e.src \in Vertices /\ e.dst \in Vertices /\ e.weight \in Nat /\ e.timestamp \in Nat
      /\ e.timestamp >= MinTimestamp /\ MinTimestamp \in Nat
  <2>1. e \in Edges /\ e.timestamp >= MinTimestamp /\ MinTimestamp \in Nat
    <3>1. e \in Edges /\ MinTimestamp <= e.timestamp /\ MinTimestamp \in Nat
      BY <1>2, TimeFacts
    <3>2. e.timestamp \in Nat
      <4> HIDE DEF e
      <4> QED BY <3>1 DEF Edges
    <3> HIDE DEF e
    <3> QED BY <3>1, <3>2
  <2> HIDE DEF e
  <2> QED BY <2>1 DEF Edges
<1>4. d \in {"OUT", "IN"}
  BY DEF HalfDirection
<1>5. lists' = [lists EXCEPT ![v] = list2] /\ vertex' = [vertex EXCEPT ![v] = Recount(@, lists[v], list2)]
  BY DEF InsertHalf
<1> HIDE DEF e, d
<1>6. v \in Vertices /\ n \in Vertices
  BY <1>3
<1> HIDE DEF v, n
<1>7. ListOK(list2, MinTimestamp) /\ Keeps(lists[v], list2) /\ n \in Neighbors(list2, d)
  BY <1>1, <1>3, <1>4, <1>6, UpdateFacts
<1>14. OnlyAdds(lists[v], list2, n, d) /\ OutTimes(lists[v], list2, n, d, e.timestamp)
  BY <1>1, <1>3, <1>4, <1>6, UpdateFacts
<1> HIDE DEF list2
<1>8. list2 \in Seq(Slots)
  BY <1>7 DEF ListOK
<1>9. /\ lists' \in [Vertices -> Seq(Slots)] /\ lists'[v] = list2
      /\ \A x \in Vertices : x # v => lists'[x] = lists[x]
  BY <1>1, <1>5, <1>6, <1>8
<1>10. \A x \in Vertices : ListOK(lists'[x], MinTimestamp) /\ Keeps(lists[x], lists'[x])
  <2> SUFFICES ASSUME NEW x \in Vertices
               PROVE  ListOK(lists'[x], MinTimestamp) /\ Keeps(lists[x], lists'[x])
    OBVIOUS
  <2>1. Keeps(lists[x], lists[x])
    BY DEF Keeps
  <2> QED BY <1>1, <1>7, <1>9, <2>1
<1>11. Recount(vertex[v], lists[v], list2) = Counts(list2)
  BY <1>1, <1>6, <1>8, RecountFacts
<1>12. vertex' = [x \in Vertices |-> Counts(lists'[x])]
  <2>1. vertex' = [x \in Vertices |-> IF x = v THEN Counts(list2) ELSE Counts(lists[x])]
    BY <1>1, <1>5, <1>6, <1>11
  <2> QED BY <1>9, <2>1
<1>13. HalfDone(lists', e, d)
  <2>1. CASE d = "OUT"
    <3>1. v = e.src /\ n = e.dst
      BY <2>1 DEF v, n
    <3> QED BY <1>7, <1>9, <2>1, <3>1 DEF HalfDone
  <2>2. CASE d # "OUT"
    <3>1. v = e.dst /\ n = e.src /\ d = "IN"
      BY <1>4, <2>2 DEF v, n
    <3> QED BY <1>7, <1>9, <2>2, <3>1 DEF HalfDone
  <2> QED BY <2>1, <2>2
<1>15. ASSUME NEW x \in Vertices, NEW m \in Vertices, NEW dd,
              m \in Neighbors(lists'[x], dd), m \notin Neighbors(lists[x], dd)
       PROVE  Adds(c, x, m, dd)
  <2>1. x = v /\ m \in Neighbors(list2, dd)
    BY <1>9, <1>15
  <2>2. PICK i \in DOMAIN list2 : dd \in list2[i].dirs /\ list2[i].neighbor = m
    BY <2>1 DEF Neighbors
  <2>3. ~(i \in DOMAIN lists[v] /\ dd \in lists[v][i].dirs /\ list2[i].neighbor = lists[v][i].neighbor)
    BY <1>15, <2>1, <2>2 DEF Neighbors
  <2>4. m = n /\ dd = d
    BY <1>14, <2>2, <2>3 DEF OnlyAdds
  <2> QED BY <2>1, <2>4 DEF Adds, e, d, v, n
<1>16. \A x, m \in Vertices : \A dd :
         m \in Neighbors(lists'[x], dd) => m \in Neighbors(lists[x], dd) \/ Adds(c, x, m, dd)
  BY <1>15
<1>17. ASSUME NEW x \in Vertices, NEW i \in DOMAIN lists'[x], "OUT" \in lists'[x][i].dirs
       PROVE  OutFrom(lists, lists', x, i, e)
  <2>1. CASE x = v
    <3>1. \/ d = "OUT" /\ list2[i].neighbor = n /\ list2[i].timeRecent = e.timestamp
          \/ /\ i \in DOMAIN lists[v] /\ "OUT" \in lists[v][i].dirs
             /\ list2[i].neighbor = lists[v][i].neighbor
             /\ list2[i].timeRecent = lists[v][i].timeRecent
      BY <1>9, <1>14, <1>17, <2>1 DEF OutTimes
    <3>2. d = "OUT" => v = e.src /\ n = e.dst
      BY DEF v, n
    <3> QED BY <1>9, <2>1, <3>1, <3>2 DEF OutFrom
  <2>2. CASE x # v
    <3>1. lists'[x] = lists[x]
      BY <1>9, <2>2
    <3> QED BY <1>17, <3>1 DEF OutFrom
  <2> QED BY <2>1, <2>2
<1> QED BY <1>9, <1>10, <1>12, <1>13, <1>16, <1>17 DEF e, d

LEMMA InsertHalfInv ==
  ASSUME IInv, NEW c \in inflight, InsertHalf(c)
  PROVE  IInv'
<1>1. SetupOK /\ ControlOK /\ InflightOK /\ UpdatedOK /\ LoadedOK /\ RecordedOK /\ BatchDone
  BY DEF IInv
<1> DEFINE second == [c EXCEPT !.half = 2]
           more == IF c.half = 1 THEN {second} ELSE {}
<1>2. /\ UNCHANGED <<setup, max_active_vertex, recentDeletions, batch_id, phase, next, snapshot>>
      /\ inflight' = (inflight \ {c}) \cup more
  BY DEF InsertHalf
<1>3. phase = "insertions"
  BY <1>1 DEF InflightOK
<1>4. /\ SetupOK' /\ Dataset /\ edges' = edges /\ sort_mode' = sort_mode
      /\ num_threads' = num_threads /\ NumBatches' = NumBatches /\ MinTimestamp' = MinTimestamp
  BY <1>1, <1>2, SameSetup
<1>5. sort_mode = "UNSORTED"
  BY <1>1, <1>3, <1>4 DEF ControlOK, Dataset
<1>6. BatchFirst' = BatchFirst /\ BatchLast' = BatchLast
  BY <1>2, SameBatch
<1>7. /\ lists' \in [Vertices -> Seq(Slots)]
      /\ \A v \in Vertices : ListOK(lists'[v], MinTimestamp) /\ Keeps(lists[v], lists'[v])
      /\ vertex' = [v \in Vertices |-> Counts(lists'[v])]
      /\ HalfDone(lists', edges[c.edge], HalfDirection(edges[c.edge], c.half))
  BY <1>1, <1>4, <1>5, InsertGraph
<1>8. UpdatedOK'
  <2>1. snapshot' = {}
    BY <1>1, <1>2, <1>5 DEF UpdatedOK
  <2> QED BY <1>4, <1>7, <2>1 DEF UpdatedOK
<1>9. LoadedOK'
  BY <1>4, <1>5 DEF LoadedOK
<1>10. ControlOK'
  BY <1>1, <1>2, <1>4, <1>6 DEF ControlOK
<1>11. c \in [edge : DOMAIN edges, half : {1, 2}]
  BY <1>1 DEF InflightOK
<1>12. c.edge \in DOMAIN edges /\ c.half \in {1, 2}
  BY <1>11
<1>13. second \in [edge : DOMAIN edges, half : {1, 2}] /\ second.edge = c.edge /\ second.half = 2
  BY <1>11
<1> HIDE DEF second
<1>14. InflightOK'
  <2>1. /\ inflight \subseteq [edge : DOMAIN edges, half : {1, 2}]
        /\ IsFiniteSet(inflight) /\ Cardinality(inflight) \in Nat /\ Cardinality(inflight) <= num_threads
    BY <1>1, FS_CardinalityType DEF InflightOK
  <2> DEFINE rest == inflight \ {c}
  <2>2. IsFiniteSet(rest) /\ Cardinality(rest) = Cardinality(inflight) - 1
    BY <2>1, FS_RemoveElement
  <2>3. rest \subseteq [edge : DOMAIN edges, half : {1, 2}]
    BY <2>1
  <2>4. inflight' = rest \/ inflight' = rest \cup {second}
    BY <1>2
  <2> HIDE DEF rest
  <2>5. IsFiniteSet(rest \cup {second}) /\ (\/ Cardinality(rest \cup {second}) = Cardinality(rest)
                                            \/ Cardinality(rest \cup {second}) = Cardinality(rest) + 1)
    BY <2>2, FS_AddElement
  <2>6. IsFiniteSet(inflight') /\ Cardinality(inflight') <= Cardinality(inflight)
    <3>1. CASE inflight' = rest
      BY <2>1, <2>2, <3>1
    <3>2. CASE inflight' = rest \cup {second}
      BY <2>1, <2>2, <2>5, <3>2
    <3> QED BY <2>4, <3>1, <3>2
  <2>7. inflight' \subseteq [edge : DOMAIN edges, half : {1, 2}]
    BY <1>13, <2>3, <2>4
  <2>8. Cardinality(inflight') <= num_threads
    <3>1. num_threads \in Nat /\ Cardinality(inflight') \in Nat
      BY <1>4, <2>6, FS_CardinalityType DEF Dataset
    <3> QED BY <2>1, <2>6, <3>1
  <2> QED BY <1>2, <1>3, <1>4, <2>6, <2>7, <2>8 DEF InflightOK
<1>15. BatchDone'
  <2>1. ASSUME NEW e \in Edges, NEW d, HalfDone(lists, e, d)
        PROVE  HalfDone(lists', e, d)
    <3>1. e.src \in Vertices /\ e.dst \in Vertices
      BY DEF Edges
    <3> QED BY <1>7, <2>1, <3>1, KeepsNeighbors DEF HalfDone
  <2>2. ASSUME NEW i \in BatchFirst .. next - 1, NEW half \in {1, 2},
               \A k \in inflight' : k.edge = i => k.half > half
        PROVE  HalfDone(lists', edges[i], HalfDirection(edges[i], half))
    <3>1. CASE c.edge = i /\ c.half = half
      BY <1>7, <3>1
    <3>2. CASE ~(c.edge = i /\ c.half = half)
      <4>1. c.edge = i => c.half > half
        <5> SUFFICES ASSUME c.edge = i, c.half = 1, half = 2 PROVE FALSE
          BY <1>12, <3>2
        <5>1. second \in inflight' /\ second.edge = i /\ second.half = 2
          BY <1>2, <1>13
        <5> QED BY <2>2, <5>1
      <4>2. \A k \in inflight : k.edge = i => k.half > half
        <5> SUFFICES ASSUME NEW k \in inflight, k.edge = i PROVE k.half > half
          OBVIOUS
        <5>1. CASE k = c
          BY <4>1, <5>1
        <5>2. CASE k # c
          <6>1. k \in inflight'
            BY <1>2, <5>2
          <6> QED BY <2>2, <6>1
        <5> QED BY <5>1, <5>2
      <4>3. HalfDone(lists, edges[i], HalfDirection(edges[i], half))
        BY <1>1, <1>3, <4>2 DEF BatchDone
      <4>4. edges[i] \in Edges
        <5>1. i \in DOMAIN edges
          <6>1. BatchFirst \in Nat \ {0} /\ next \in 1 .. Len(edges) + 1
            BY <1>1, <1>3, <1>4, CurrentBatch DEF ControlOK
          <6>2. DOMAIN edges = 1 .. Len(edges) /\ Len(edges) \in Nat
            BY <1>4 DEF Dataset
          <6> QED BY <6>1, <6>2
        <5> QED BY <1>4, <5>1, TimeFacts
      <4> QED BY <2>1, <4>3, <4>4
    <3> QED BY <3>1, <3>2
  <2>3. next' = next
    BY <1>2
  <2> QED BY <1>4, <1>6, <2>2, <2>3 DEF BatchDone, HalfDone, HalfDirection
<1>16. RecordedOK' /\ BatchIsWhole' /\ max_active_vertex' \in Vertices \cup {0}
  BY <1>1, <1>2, <1>3 DEF RecordedOK, BatchIsWhole, IInv
<1> QED BY <1>4, <1>8, <1>9, <1>10, <1>14, <1>15, <1>16 DEF IInv

\* The end of a batch: where a trial goes on.
LEMMA NextBatch ==
  ASSUME Dataset, ControlOK, phase # "done", UNCHANGED setup, NumBatches' = NumBatches,
         batch_id' = batch_id + 1,
         phase' = IF batch_id' = NumBatches THEN "done" ELSE "before_batch", next' = next
  PROVE  ControlOK'
<1>1. batch_id \in 0 .. NumBatches - 1 /\ NumBatches \in Nat
  BY CurrentBatch, BatchFacts
<1>2. batch_id' \in 0 .. NumBatches'
  BY <1>1
<1>3. phase' \in {"before_batch", "done"} /\ (phase' = "done" <=> batch_id' = NumBatches')
  OBVIOUS
<1>4. next' \in 1 .. Len(edges') + 1
  BY DEF ControlOK, setup
<1> QED BY <1>2, <1>3, <1>4 DEF ControlOK

LEMMA EndBatchInv ==
  ASSUME IInv, EndBatch
  PROVE  IInv'
<1>1. SetupOK /\ ControlOK /\ InflightOK /\ UpdatedOK /\ LoadedOK /\ RecordedOK /\ BatchDone
  BY DEF IInv
<1>2. /\ UNCHANGED <<setup, lists, vertex, recentDeletions, next, inflight, snapshot>>
      /\ phase = "insertions" /\ next > BatchLast /\ inflight = {}
      /\ max_active_vertex' = MaxActive(vertex)
      /\ batch_id' = batch_id + 1
      /\ phase' = IF batch_id' = NumBatches THEN "done" ELSE "before_batch"
  BY DEF EndBatch, BatchLast
<1>3. /\ SetupOK' /\ Dataset /\ edges' = edges /\ sort_mode' = sort_mode
      /\ num_threads' = num_threads /\ NumBatches' = NumBatches
      /\ \A b : Batch(b)' = Batch(b)
  BY <1>1, <1>2, SameSetup
<1>4. UpdatedOK' /\ LoadedOK' /\ OutEdges(lists)' = OutEdges(lists) /\ InEdges(lists)' = InEdges(lists)
  BY <1>1, <1>2, SameGraph
<1>5. ControlOK'
  BY <1>1, <1>2, <1>3, NextBatch
<1>6. InflightOK'
  BY <1>1, <1>2, <1>3 DEF InflightOK
<1>7. phase' \in {"before_batch", "done"}
  BY <1>2
<1>8. BatchDone' /\ RecordedOK'
  BY <1>1, <1>2, <1>7 DEF BatchDone, RecordedOK
<1>9. max_active_vertex' \in Vertices \cup {0}
  BY <1>2, MaxActiveIn
<1>10. /\ batch_id \in Nat /\ Batch(batch_id) = BatchFirst .. BatchLast
       /\ BatchFirst \in Nat \ {0} /\ BatchLast \in Nat /\ BatchLast <= Len(edges)
       /\ Len(edges) \in Nat /\ DOMAIN edges = 1 .. Len(edges)
  BY <1>1, <1>2, <1>3, CurrentBatch DEF Dataset
<1>11. Batch(batch_id - 1)' = Batch(batch_id)
  <2>1. batch_id' - 1 = batch_id
    BY <1>2, <1>10
  <2>2. edges' = edges /\ window' = window
    BY <1>2 DEF setup
  <2> QED BY <2>1, <2>2 DEF Batch, FilteredStart, Threshold, MinTimestamp, BatchStart, BatchEnd, Ref!Later
<1>12. ASSUME NEW i \in Batch(batch_id)
       PROVE  <<edges[i].src, edges[i].dst>> \in OutEdges(lists) \cap InEdges(lists)
  <2>1. i \in BatchFirst .. next - 1 /\ i \in DOMAIN edges
    <3>1. next \in BatchFirst .. BatchLast + 1
      BY <1>1, <1>2 DEF ControlOK
    <3> QED BY <1>2, <1>10, <3>1
  <2>2. /\ HalfDone(lists, edges[i], HalfDirection(edges[i], 1))
        /\ HalfDone(lists, edges[i], HalfDirection(edges[i], 2))
    BY <1>1, <1>2, <2>1 DEF BatchDone
  <2>3. HalfDone(lists, edges[i], "OUT") /\ HalfDone(lists, edges[i], "IN")
    BY <2>2 DEF HalfDirection
  <2>4. edges[i] \in Edges
    BY <1>3, <2>1, TimeFacts
  <2>5. edges[i].src \in Vertices /\ edges[i].dst \in Vertices
    BY <2>4 DEF Edges
  <2> DEFINE p == <<edges[i].src, edges[i].dst>>
  <2>6. p \in Vertices \X Vertices /\ p[1] = edges[i].src /\ p[2] = edges[i].dst
    BY <2>5
  <2> HIDE DEF p
  <2>7. p[2] \in Neighbors(lists[p[1]], "OUT") /\ p[1] \in Neighbors(lists[p[2]], "IN")
    BY <2>3, <2>6 DEF HalfDone
  <2>8. p \in OutEdges(lists) /\ p \in InEdges(lists)
    BY <2>6, <2>7 DEF OutEdges, InEdges
  <2> QED BY <2>8 DEF p
<1>13. BatchIsWhole'
  BY <1>3, <1>4, <1>11, <1>12 DEF BatchIsWhole
<1> QED BY <1>3, <1>4, <1>5, <1>6, <1>8, <1>9, <1>13 DEF IInv

\* What the preprocessing returns: every edge of the filtered prefix once.
LEMMA SnapshotsFacts ==
  ASSUME Dataset, NEW b \in 0 .. NumBatches - 1, NEW S \in Snapshots(b)
  PROVE  /\ S \subseteq Range(edges)
         /\ \A e, f \in S : SameEdge(e, f) => e = f
         /\ \A i \in Batch(b) : i \in DOMAIN edges /\ HasEdge(S, edges[i].src, edges[i].dst)
<1> DEFINE entries == {edges[i] : i \in FilteredStart(1, b) .. BatchEnd(b)}
<1>1. /\ BatchEnd(b) \in DOMAIN edges /\ BatchEnd(b) <= Len(edges) /\ BatchStart(b) \in Nat \ {0}
      /\ BatchStart(b) <= BatchEnd(b) /\ Len(edges) \in Nat /\ DOMAIN edges = 1 .. Len(edges)
  BY BatchFacts DEF Dataset
<1>2. /\ FilteredStart(1, b) \in 1 .. BatchEnd(b) + 1
      /\ FilteredStart(BatchStart(b), b) \in BatchStart(b) .. BatchEnd(b) + 1
      /\ FilteredStart(1, b) <= FilteredStart(BatchStart(b), b)
  <2>1. 1 \in Nat \ {0} /\ 1 <= BatchEnd(b)
    BY <1>1
  <2> QED BY <1>1, <2>1, FilterFacts, PrefixHasBatch
<1>3. /\ S \in SUBSET entries
      /\ \A e \in entries : \E f \in S : {g \in S : SameEdge(e, g)} = {f}
  BY DEF Snapshots, Deduplicated
<1>4. entries \subseteq Range(edges)
  <2>1. \A i \in FilteredStart(1, b) .. BatchEnd(b) : i \in DOMAIN edges
    BY <1>1, <1>2
  <2> QED BY <2>1 DEF Range
<1>5. ASSUME NEW e \in S, NEW f \in S, SameEdge(e, f)
      PROVE  e = f
  <2>1. PICK k \in S : {g \in S : SameEdge(e, g)} = {k}
    BY <1>3
  <2>2. SameEdge(e, e)
    BY DEF SameEdge
  <2>3. e \in {g \in S : SameEdge(e, g)} /\ f \in {g \in S : SameEdge(e, g)}
    BY <1>5, <2>2
  <2> QED BY <2>1, <2>3
<1>6. ASSUME NEW i \in Batch(b)
      PROVE  i \in DOMAIN edges /\ HasEdge(S, edges[i].src, edges[i].dst)
  <2>1. i \in FilteredStart(1, b) .. BatchEnd(b) /\ i \in DOMAIN edges
    BY <1>1, <1>2 DEF Batch
  <2>2. edges[i] \in entries
    BY <2>1
  <2> HIDE DEF entries
  <2>3. PICK f \in S : {g \in S : SameEdge(edges[i], g)} = {f}
    BY <1>3, <2>2
  <2>4. SameEdge(edges[i], f)
    BY <2>3
  <2> QED BY <2>1, <2>4 DEF HasEdge, SameEdge
<1> QED BY <1>3, <1>4, <1>5, <1>6

LEMMA ConstructInv ==
  ASSUME IInv, Construct
  PROVE  IInv'
<1>1. SetupOK /\ ControlOK /\ InflightOK /\ UpdatedOK /\ LoadedOK /\ RecordedOK
  BY DEF IInv
<1>2. /\ UNCHANGED <<setup, recentDeletions, next, inflight>>
      /\ phase = "before_batch" /\ sort_mode = "SNAPSHOT"
      /\ snapshot' \in Snapshots(batch_id)
      /\ lists' = [v \in Vertices |-> LoadedList(snapshot', v)]
      /\ vertex' = [v \in Vertices |-> LoadedVertex(lists', v)]
      /\ max_active_vertex' = MaxActive(vertex')
      /\ batch_id' = batch_id + 1
      /\ phase' = IF batch_id' = NumBatches THEN "done" ELSE "before_batch"
  BY DEF Construct
<1>3. /\ SetupOK' /\ Dataset /\ Dataset' /\ edges' = edges /\ sort_mode' = sort_mode
      /\ num_threads' = num_threads /\ NumBatches' = NumBatches
      /\ \A b : Batch(b)' = Batch(b)
  BY <1>1, <1>2, SameSetup
<1>4. batch_id \in 0 .. NumBatches - 1 /\ batch_id \in Nat
  BY <1>1, <1>2, <1>3, CurrentBatch
<1>5. /\ snapshot' \subseteq Range(edges)
      /\ \A e, f \in snapshot' : SameEdge(e, f) => e = f
      /\ \A i \in Batch(batch_id) : i \in DOMAIN edges /\ HasEdge(snapshot', edges[i].src, edges[i].dst)
  BY <1>2, <1>3, <1>4, SnapshotsFacts
<1>6. UpdatedOK'
  BY <1>2, <1>3 DEF UpdatedOK
<1>7. LoadedOK'
  BY <1>2, <1>3, <1>5 DEF LoadedOK
<1>8. ControlOK'
  BY <1>1, <1>2, <1>3, NextBatch
<1>9. phase' \in {"before_batch", "done"}
  BY <1>2
<1>10. InflightOK' /\ BatchDone' /\ RecordedOK'
  BY <1>1, <1>2, <1>3, <1>9 DEF InflightOK, BatchDone, RecordedOK
<1>11. max_active_vertex' \in Vertices \cup {0}
  BY <1>2, MaxActiveIn
<1>12. SnapshotOK(snapshot')
  <2>1. \A i \in DOMAIN edges : edges[i] \in Edges /\ edges[i].src # edges[i].dst
    BY <1>3 DEF Dataset
  <2>2. \A e \in snapshot' : \E i \in DOMAIN edges : e = edges[i]
    BY <1>5 DEF Range
  <2> QED BY <1>5, <2>1, <2>2 DEF SnapshotOK
<1>13. /\ OutEdges(lists') = {e \in Vertices \X Vertices : HasEdge(snapshot', e[1], e[2])}
       /\ InEdges(lists') = OutEdges(lists')
  BY <1>2, <1>12, LoadedEdges
<1>14. ASSUME NEW i \in Batch(batch_id)
       PROVE  <<edges[i].src, edges[i].dst>> \in OutEdges(lists') \cap InEdges(lists')
  <2>1. i \in DOMAIN edges /\ HasEdge(snapshot', edges[i].src, edges[i].dst)
    BY <1>5
  <2>2. edges[i].src \in Vertices /\ edges[i].dst \in Vertices
    <3>1. edges[i] \in Edges
      BY <1>3, <2>1, TimeFacts
    <3> QED BY <3>1 DEF Edges
  <2> QED BY <1>13, <2>1, <2>2
<1>15. Batch(batch_id - 1)' = Batch(batch_id)
  <2>1. batch_id' - 1 = batch_id
    BY <1>2, <1>4
  <2>2. edges' = edges /\ window' = window
    BY <1>2 DEF setup
  <2> QED BY <2>1, <2>2 DEF Batch, FilteredStart, Threshold, MinTimestamp, BatchStart, BatchEnd, Ref!Later
<1>16. BatchIsWhole'
  BY <1>3, <1>14, <1>15 DEF BatchIsWhole
<1> QED BY <1>3, <1>6, <1>7, <1>8, <1>10, <1>11, <1>16 DEF IInv

LEMMA StutterInv ==
  ASSUME IInv, UNCHANGED vars
  PROVE  IInv'
<1>1. SetupOK /\ ControlOK /\ InflightOK /\ UpdatedOK /\ LoadedOK /\ RecordedOK /\ BatchDone /\ BatchIsWhole
  BY DEF IInv
<1>2. UNCHANGED <<setup, lists, vertex, max_active_vertex, recentDeletions,
                  batch_id, phase, next, inflight, snapshot>>
  BY DEF vars
<1>3. /\ SetupOK' /\ edges' = edges /\ sort_mode' = sort_mode
      /\ num_threads' = num_threads /\ NumBatches' = NumBatches
  BY <1>1, <1>2, SameSetup
<1>4. UpdatedOK' /\ LoadedOK' /\ BatchIsWhole'
  BY <1>1, <1>2, SameGraph, SameWhole
<1>5. BatchFirst' = BatchFirst /\ BatchLast' = BatchLast /\ Threshold(batch_id)' = Threshold(batch_id)
  BY <1>2, SameBatch
<1>6. ControlOK'
  BY <1>1, <1>2, <1>3, <1>5 DEF ControlOK
<1>7. InflightOK'
  BY <1>1, <1>2, <1>3 DEF InflightOK
<1>8. BatchDone'
  <2>1. /\ edges' = edges /\ lists' = lists /\ phase' = phase /\ next' = next
        /\ inflight' = inflight
    BY <1>2, <1>3
  <2>2. BatchDone
    BY <1>1
  <2> QED BY <1>5, <2>1, <2>2 DEF BatchDone
<1>9. RecordedOK'
  <2>1. Expiring(lists)' = Expiring(lists)
    BY <1>2, <1>5 DEF Expiring, OutEdges, OutSlot, SlotsOf, Neighbors
  <2> QED BY <1>1, <1>2, <2>1 DEF RecordedOK
<1> QED BY <1>2, <1>3, <1>4, <1>6, <1>7, <1>8, <1>9 DEF IInv

LEMMA NextInv ==
  ASSUME IInv, [Next]_vars
  PROVE  IInv'
<1>1. CASE BeforeBatch
  BY <1>1, BeforeBatchInv
<1>2. CASE Delete
  BY <1>2, DeleteInv
<1>3. CASE Take
  BY <1>3, TakeInv
<1>4. CASE EndBatch
  BY <1>4, EndBatchInv
<1>5. CASE Construct
  BY <1>5, ConstructInv
<1>6. ASSUME NEW c \in inflight, InsertHalf(c)
      PROVE  IInv'
  BY <1>6, InsertHalfInv
<1>7. CASE Done \/ UNCHANGED vars
  BY <1>7, StutterInv DEF Done
<1> QED BY <1>1, <1>2, <1>3, <1>4, <1>5, <1>6, <1>7 DEF Next

-----------------------------------------------------------------------------
(* The theorems.                                                           *)

LEMMA Invariant == Spec => []IInv
<1>1. Init => IInv
  BY InitInv
<1>2. IInv /\ [Next]_vars => IInv'
  BY NextInv
<1> QED BY <1>1, <1>2, PTL DEF Spec

\* In any trial every variable keeps its type, which means that no counter
\* is ever below zero and no thread has two edges, and when a batch ends each
\* of its edges is in the lists of both of its ends, whatever the deletions had
\* left of it and however the threads shared the batch (insert_batch of
\* stinger_server.cpp with stinger_incr_edge).
THEOREM BatchesOKHolds == Spec => []BatchesOK
<1>1. IInv => BatchesOK
  BY Types DEF IInv, BatchesOK
<1> QED BY <1>1, Invariant, PTL

\* A graph run_static builds (insert_using_set_initial_edges and
\* stinger_set_initial_edges) has consistent degrees, one slot for each
\* neighbour, and at both ends the weight of each edge that has no opposite,
\* whatever the batch it is built from.
THEOREM SnapshotLoadsHolds == Spec => []SnapshotLoads
<1>1. IInv => SnapshotLoads
  BY DatasetFacts, SnapshotIsLoaded DEF IInv
<1> QED BY <1>1, Invariant, PTL

\* An outgoing edge has one slot.
IsOutSlot(L, u, v, i) ==
  /\ i \in DOMAIN L[u] /\ OutSlot(L, u, v) = L[u][i]
  /\ L[u][i].neighbor = v /\ "OUT" \in L[u][i].dirs
  /\ \A j \in DOMAIN L[u] : L[u][j].neighbor = v => j = i

LEMMA OutSlotIs ==
  ASSUME NEW L, NEW u \in Vertices, NEW t, ListOK(L[u], t),
         NEW v \in Vertices, v \in Neighbors(L[u], "OUT")
  PROVE  \E i : IsOutSlot(L, u, v, i)
<1> DEFINE A == {i \in SlotsOf(L[u], v) : "OUT" \in L[u][i].dirs}
<1>1. L[u] \in Seq(Slots) /\ DOMAIN L[u] \in SUBSET Nat
  BY DEF ListOK
<1>2. A \in SUBSET Nat /\ A # {}
  BY <1>1 DEF SlotsOf, Neighbors
<1>3. Min(A) \in A
  <2> HIDE DEF A
  <2> QED BY <1>2, MinOf
<1>4. OutSlot(L, u, v) = L[u][Min(A)]
  BY DEF OutSlot
<1>5. \A i \in A : i \in DOMAIN L[u] /\ L[u][i].neighbor = v /\ "OUT" \in L[u][i].dirs
  BY DEF SlotsOf
<1>6. v # Blank
  BY DatasetAssumption DEF Blank
<1>7. \A i, j \in DOMAIN L[u] : L[u][i].neighbor = v /\ L[u][j].neighbor = v => i = j
  BY <1>6 DEF ListOK
<1> HIDE DEF A
<1>8. IsOutSlot(L, u, v, Min(A))
  BY <1>3, <1>4, <1>5, <1>7 DEF IsOutSlot
<1> QED BY <1>8

LEMMA DeleteRemovesRecorded ==
  ASSUME IInv, Delete
  PROVE  recentDeletions = OutEdges(lists) \ OutEdges(lists')
<1>1. SetupOK /\ ControlOK /\ InflightOK /\ UpdatedOK /\ LoadedOK /\ RecordedOK /\ Dataset
  BY DatasetFacts DEF IInv
<1>2. phase = "deletions"
  BY DEF Delete
<1>3. sort_mode = "UNSORTED"
  BY <1>1, <1>2 DEF Dataset, ControlOK
<1> DEFINE h == Threshold(batch_id)
<1>4. /\ h \in Nat /\ h >= MinTimestamp /\ (~Windowed => h = MinTimestamp) /\ MinTimestamp \in Nat
  BY <1>1, <1>2, CurrentBatch, TimeFacts
<1>5. recentDeletions = {e \in OutEdges(lists) : OutSlot(lists, e[1], e[2]).timeRecent < h}
  BY <1>1, <1>2 DEF RecordedOK, Expiring
<1>6. /\ lists \in [Vertices -> Seq(Slots)] /\ \A v \in Vertices : ListOK(lists[v], MinTimestamp)
  BY <1>1, <1>3 DEF UpdatedOK
<1>7. \A v \in Vertices : lists'[v] = IF Windowed THEN Survivors(lists[v], h) ELSE lists[v]
  BY <1>1, <1>3, DeleteGraph
<1> HIDE DEF h
<1>8. ASSUME NEW e \in Vertices \X Vertices
      PROVE  e \in recentDeletions <=> e \in OutEdges(lists) /\ e \notin OutEdges(lists')
  <2> DEFINE u == e[1]
             v == e[2]
             l == lists[u]
  <2>1. u \in Vertices /\ v \in Vertices
    OBVIOUS
  <2>2. /\ e \in OutEdges(lists) <=> v \in Neighbors(l, "OUT")
        /\ e \in OutEdges(lists') <=> v \in Neighbors(lists'[u], "OUT")
    BY DEF OutEdges
  <2>3. CASE e \notin OutEdges(lists)
    BY <1>5, <2>3
  <2>4. CASE e \in OutEdges(lists)
    <3>1. PICK i \in DOMAIN l :
            /\ OutSlot(lists, u, v) = l[i] /\ l[i].neighbor = v /\ "OUT" \in l[i].dirs
            /\ \A j \in DOMAIN l : l[j].neighbor = v => j = i
      <4>1. /\ lists \in [Vertices -> Seq(Slots)] /\ u \in Vertices /\ v \in Vertices
            /\ ListOK(lists[u], MinTimestamp) /\ v \in Neighbors(lists[u], "OUT")
        BY <1>6, <2>1, <2>2, <2>4
      <4>2. l = lists[u]
        OBVIOUS
      <4> HIDE DEF u, v, l
      <4>3. PICK i : IsOutSlot(lists, u, v, i)
        BY <4>1, OutSlotIs
      <4> QED BY <4>2, <4>3 DEF IsOutSlot
    <3>2. e \in recentDeletions <=> l[i].timeRecent < h
      BY <1>5, <2>4, <3>1
    <3>3. CASE Windowed
      <4>1. v \in Neighbors(Survivors(l, h), "OUT") <=>
              \E j \in DOMAIN l : l[j].neighbor = v /\ "OUT" \in l[j].dirs /\ ~(l[j].timeRecent < h)
        BY <1>4, <1>6, <2>1, SurvivorsOK
      <4>2. v \in Neighbors(Survivors(l, h), "OUT") <=> ~(l[i].timeRecent < h)
        BY <3>1, <4>1
      <4>3. lists'[u] = Survivors(l, h)
        BY <1>7, <2>1, <3>3
      <4> QED BY <2>2, <2>4, <3>2, <4>2, <4>3
    <3>4. CASE ~Windowed
      <4>1. lists'[u] = l
        BY <1>7, <2>1, <3>4
      <4>2. l[i].timeRecent >= MinTimestamp /\ l[i].timeRecent \in Nat
        BY <1>6, <2>1, <3>1 DEF ListOK, SlotOK, Slots
      <4>3. ~(l[i].timeRecent < h)
        BY <1>4, <3>4, <4>2
      <4> QED BY <2>2, <2>4, <3>2, <4>1, <4>3
    <3> QED BY <3>3, <3>4
  <2> QED BY <2>3, <2>4
<1>9. /\ recentDeletions \subseteq Vertices \X Vertices
      /\ OutEdges(lists) \subseteq Vertices \X Vertices
  BY <1>1 DEF RecordedOK, OutEdges
<1> QED BY <1>8, <1>9

\* What before_batch tells the algorithms is exactly what the deletions of the
\* same batch then take out of the lists of outgoing edges, under any window and
\* whatever slots earlier batches and deletions have left: an edge outside the
\* record survives and one inside does not (StingerServer::before_batch and
\* deleteOlderThan).
THEOREM RecordedDeletionsHappenHolds == Spec => RecordedDeletionsHappen
<1>1. ASSUME IInv, [Next]_vars
      PROVE  [phase = "deletions" => recentDeletions = OutEdges(lists) \ OutEdges(lists')]_vars
  <2> SUFFICES ASSUME phase = "deletions", ~(UNCHANGED vars)
               PROVE  recentDeletions = OutEdges(lists) \ OutEdges(lists')
    OBVIOUS
  <2>1. InflightOK
    BY <1>1 DEF IInv
  <2>2. inflight = {}
    BY <2>1 DEF InflightOK
  <2>3. Next
    BY <1>1
  <2>4. Delete
    BY <2>2, <2>3 DEF Next, BeforeBatch, Take, EndBatch, Construct, Done
  <2> QED BY <1>1, <2>4, DeleteRemovesRecorded
<1> QED BY <1>1, Invariant, PTL DEF Spec, RecordedDeletionsHappen

-----------------------------------------------------------------------------
(* Without deletions, no order of the insertions leaves half an edge.      *)

Other(d) == IF d = "OUT" THEN "IN" ELSE "OUT"

\* The half of direction d of the edge from u to w is in its list.
There(L, u, w, d) ==
  IF d = "OUT" THEN w \in Neighbors(L[u], "OUT") ELSE u \in Neighbors(L[w], "IN")

\* A thread is about to put it there.
Pending(u, w, d) ==
  \E c \in inflight : /\ c.half = 2 /\ HalfDirection(edges[c.edge], 2) = d
                      /\ edges[c.edge].src = u /\ edges[c.edge].dst = w

HasOther(u, w, d) == There(lists, u, w, d) => There(lists, u, w, Other(d)) \/ Pending(u, w, Other(d))

\* An edge is in both of its lists, or a thread has put it into one and is about
\* to put it into the other.
Paired ==
  sort_mode = "UNSORTED" /\ ~Windowed =>
    /\ \A u, w \in Vertices : \A d \in {"OUT", "IN"} : HasOther(u, w, d)
    /\ \A c \in inflight : c.half = 2 =>
         There(lists, edges[c.edge].src, edges[c.edge].dst, HalfDirection(edges[c.edge], 1))

LEMMA SamePaired ==
  ASSUME SetupOK, Paired, UNCHANGED <<setup, lists>>,
         \A c \in inflight : c \in inflight', \A c \in inflight' : c.half = 2 => c \in inflight
  PROVE  Paired'
<1>1. /\ edges' = edges /\ sort_mode' = sort_mode /\ lists' = lists
      /\ Windowed' = Windowed
  BY DEF setup, Windowed, MaxTimestamp, MinTimestamp
<1> SUFFICES ASSUME sort_mode = "UNSORTED", ~Windowed
             PROVE  /\ \A u, w \in Vertices : \A d \in {"OUT", "IN"} : HasOther(u, w, d)'
                    /\ \A c \in inflight' : c.half = 2 =>
                         There(lists, edges[c.edge].src, edges[c.edge].dst, HalfDirection(edges[c.edge], 1))
  BY <1>1 DEF Paired, There, HalfDirection
<1>2. /\ \A u, w \in Vertices : \A d \in {"OUT", "IN"} : HasOther(u, w, d)
      /\ \A c \in inflight : c.half = 2 =>
           There(lists, edges[c.edge].src, edges[c.edge].dst, HalfDirection(edges[c.edge], 1))
  BY DEF Paired
<1>3. \A u, w, d : Pending(u, w, d) => Pending(u, w, d)'
  BY <1>1 DEF Pending, HalfDirection
<1>4. \A u, w, d : There(lists, u, w, d)' <=> There(lists, u, w, d)
  BY <1>1 DEF There, Neighbors
<1>5. \A u, w, d : HasOther(u, w, d) => HasOther(u, w, d)'
  BY <1>3, <1>4 DEF HasOther, Other
<1> QED BY <1>2, <1>5

LEMMA InsertPaired ==
  ASSUME IInv, Paired, NEW c \in inflight, InsertHalf(c)
  PROVE  Paired'
<1>1. SetupOK /\ ControlOK /\ InflightOK /\ UpdatedOK /\ Dataset
  BY DatasetFacts DEF IInv
<1> DEFINE second == [c EXCEPT !.half = 2]
<1>2. /\ UNCHANGED setup
      /\ inflight' = (inflight \ {c}) \cup (IF c.half = 1 THEN {second} ELSE {})
  BY DEF InsertHalf
<1>3. c \in [edge : DOMAIN edges, half : {1, 2}]
  BY <1>1 DEF InflightOK
<1>4. second.edge = c.edge /\ second.half = 2 /\ c.half \in {1, 2} /\ c.edge \in DOMAIN edges
  BY <1>3
<1> HIDE DEF second
<1>5. edges' = edges /\ sort_mode' = sort_mode /\ Windowed' = Windowed
  BY <1>2 DEF setup, Windowed, MaxTimestamp, MinTimestamp
<1> SUFFICES ASSUME sort_mode = "UNSORTED", ~Windowed
             PROVE  /\ \A u, w \in Vertices : \A d \in {"OUT", "IN"} : HasOther(u, w, d)'
                    /\ \A k \in inflight' : k.half = 2 =>
                         There(lists', edges[k.edge].src, edges[k.edge].dst, HalfDirection(edges[k.edge], 1))
  BY <1>5 DEF Paired, There, HalfDirection
<1>6. /\ \A u, w \in Vertices : \A d \in {"OUT", "IN"} : HasOther(u, w, d)
      /\ \A k \in inflight : k.half = 2 =>
           There(lists, edges[k.edge].src, edges[k.edge].dst, HalfDirection(edges[k.edge], 1))
  BY DEF Paired
<1>7. /\ \A v \in Vertices : Keeps(lists[v], lists'[v])
      /\ HalfDone(lists', edges[c.edge], HalfDirection(edges[c.edge], c.half))
      /\ \A x, m \in Vertices : \A dd :
           m \in Neighbors(lists'[x], dd) => m \in Neighbors(lists[x], dd) \/ Adds(c, x, m, dd)
  BY <1>1, InsertGraph
<1> DEFINE src == edges[c.edge].src
           dst == edges[c.edge].dst
           dir == HalfDirection(edges[c.edge], c.half)
<1>8. \A i \in DOMAIN edges : edges[i].src \in Vertices /\ edges[i].dst \in Vertices
  <2>1. \A i \in DOMAIN edges : edges[i] \in Edges
    BY <1>1 DEF Dataset
  <2>2. \A e \in Edges : e.src \in Vertices /\ e.dst \in Vertices
    BY DEF Edges
  <2> QED BY <2>1, <2>2
<1>9. There(lists', src, dst, dir)
  BY <1>7 DEF There, HalfDone
<1>10. \A u, w \in Vertices : \A d \in {"OUT", "IN"} : There(lists, u, w, d) => There(lists', u, w, d)
  BY <1>7, KeepsNeighbors DEF There
<1>11. ASSUME NEW u \in Vertices, NEW w \in Vertices, NEW d \in {"OUT", "IN"},
              There(lists', u, w, d), ~There(lists, u, w, d)
       PROVE  u = src /\ w = dst /\ d = dir
  <2>1. CASE d = "OUT"
    <3>1. Adds(c, u, w, "OUT")
      BY <1>7, <1>11, <2>1 DEF There
    <3> QED BY <2>1, <3>1 DEF Adds
  <2>2. CASE d = "IN"
    <3>1. Adds(c, w, u, "IN")
      BY <1>7, <1>11, <2>2 DEF There
    <3> QED BY <2>2, <3>1 DEF Adds
  <2> QED BY <2>1, <2>2
<1>12. HalfDirection(edges[c.edge], 1) = Other(HalfDirection(edges[c.edge], 2))
       /\ HalfDirection(edges[c.edge], 2) = Other(HalfDirection(edges[c.edge], 1))
  BY DEF HalfDirection, Other
<1>13. \A k \in inflight : k.half = 2 => k = c \/ k \in inflight'
  BY <1>2
<1>14. ASSUME NEW u, NEW w, NEW d, Pending(u, w, d)
       PROVE  Pending(u, w, d)' \/ (c.half = 2 /\ u = src /\ w = dst /\ d = dir)
  <2>1. PICK k \in inflight : /\ k.half = 2 /\ HalfDirection(edges[k.edge], 2) = d
                              /\ edges[k.edge].src = u /\ edges[k.edge].dst = w
    BY <1>14 DEF Pending
  <2>2. CASE k = c
    BY <2>1, <2>2
  <2>3. CASE k # c
    <3>1. k \in inflight'
      BY <1>13, <2>1, <2>3
    <3> QED BY <1>5, <2>1, <3>1 DEF Pending, HalfDirection
  <2> QED BY <2>2, <2>3
<1>15. ASSUME NEW u, NEW w, NEW d, c.half = 1, u = src, w = dst, d = Other(dir)
       PROVE  Pending(u, w, d)'
  <2>1. second \in inflight'
    BY <1>2, <1>15
  <2>2. HalfDirection(edges[second.edge], 2) = d
    BY <1>4, <1>12, <1>15
  <2>3. /\ second.half = 2 /\ edges[second.edge].src = u /\ edges[second.edge].dst = w
    BY <1>4, <1>15
  <2> HIDE DEF src, dst, dir
  <2> QED BY <1>5, <2>1, <2>2, <2>3 DEF Pending, HalfDirection
<1>16. c.half = 2 => There(lists', src, dst, Other(dir))
  <2> SUFFICES ASSUME c.half = 2 PROVE There(lists', src, dst, Other(dir))
    OBVIOUS
  <2>1. There(lists, src, dst, Other(dir))
    BY <1>6, <1>12
  <2>2. Other(dir) \in {"OUT", "IN"} /\ src \in Vertices /\ dst \in Vertices
    BY <1>4, <1>8 DEF Other
  <2> HIDE DEF src, dst, dir
  <2> QED BY <1>10, <2>1, <2>2
<1>17. ASSUME NEW u \in Vertices, NEW w \in Vertices, NEW d \in {"OUT", "IN"},
              There(lists', u, w, d)
       PROVE  There(lists', u, w, Other(d)) \/ Pending(u, w, Other(d))'
  <2>0. Other(d) \in {"OUT", "IN"} /\ Other(Other(d)) = d
    BY DEF Other
  <2>1. CASE ~There(lists, u, w, d)
    <3>1. u = src /\ w = dst /\ d = dir
      BY <1>11, <1>17, <2>1
    <3> HIDE DEF src, dst, dir
    <3>2. CASE c.half = 1
      BY <1>15, <3>1, <3>2
    <3>3. CASE c.half = 2
      BY <1>16, <3>1, <3>3
    <3> QED BY <1>4, <3>2, <3>3
  <2>2. CASE There(lists, u, w, d)
    <3>1. There(lists, u, w, Other(d)) \/ Pending(u, w, Other(d))
      BY <1>6, <2>2 DEF HasOther
    <3>2. CASE There(lists, u, w, Other(d))
      BY <1>10, <2>0, <3>2
    <3>3. CASE Pending(u, w, Other(d))
      <4>1. Pending(u, w, Other(d))' \/ (u = src /\ w = dst /\ Other(d) = dir)
        BY <1>14, <3>3
      <4> HIDE DEF src, dst, dir
      <4> QED BY <1>9, <4>1
    <3> QED BY <3>1, <3>2, <3>3
  <2> QED BY <2>1, <2>2
<1>18. \A u, w \in Vertices : \A d \in {"OUT", "IN"} : HasOther(u, w, d)'
  <2>1. \A u, w, d : There(lists, u, w, d)' <=> There(lists', u, w, d)
    BY DEF There, Neighbors
  <2> QED BY <1>17, <2>1 DEF HasOther, Other
<1>19. ASSUME NEW k \in inflight', k.half = 2
       PROVE  There(lists', edges[k.edge].src, edges[k.edge].dst, HalfDirection(edges[k.edge], 1))
  <2>1. CASE k \in inflight
    <3>1. There(lists, edges[k.edge].src, edges[k.edge].dst, HalfDirection(edges[k.edge], 1))
      BY <1>6, <1>19, <2>1
    <3>2. k.edge \in DOMAIN edges
      BY <1>1, <2>1 DEF InflightOK
    <3>3. HalfDirection(edges[k.edge], 1) \in {"OUT", "IN"}
      BY DEF HalfDirection
    <3> QED BY <1>8, <1>10, <3>1, <3>2, <3>3
  <2>2. CASE k \notin inflight
    <3>1. c.half = 1 /\ k = second
      BY <1>2, <2>2
    <3> QED BY <1>4, <1>9, <3>1
  <2> QED BY <2>1, <2>2
<1> QED BY <1>18, <1>19

LEMMA PairedAlways == Spec => []Paired
<1>1. ASSUME Init PROVE Paired
  <2>1. \A v \in Vertices : lists[v] = <<>> /\ inflight = {}
    BY <1>1 DEF Init
  <2>2. \A v \in Vertices : \A d : Neighbors(lists[v], d) = {}
    BY <2>1 DEF Neighbors
  <2>3. inflight = {}
    BY <1>1 DEF Init
  <2> QED BY <2>2, <2>3 DEF Paired, HasOther, There
<1>2. ASSUME IInv, Paired, [Next]_vars
      PROVE  Paired'
  <2>1. SetupOK
    BY <1>2 DEF IInv
  <2>2. CASE BeforeBatch
    BY <1>2, <2>1, <2>2, SamePaired DEF BeforeBatch
  <2>3. CASE Delete
    <3>1. UNCHANGED <<setup, inflight>>
      BY <2>3 DEF Delete
    <3>2. CASE Windowed
      <4>1. Windowed'
        BY <3>1, <3>2 DEF setup, Windowed, MaxTimestamp, MinTimestamp
      <4> QED BY <4>1 DEF Paired
    <3>3. CASE ~Windowed
      <4>1. lists' = lists
        BY <2>3, <3>3 DEF Delete
      <4> QED BY <1>2, <2>1, <3>1, <4>1, SamePaired
    <3> QED BY <3>2, <3>3
  <2>4. CASE Take
    <3>1. UNCHANGED <<setup, lists>> /\ inflight' = inflight \cup {[edge |-> next, half |-> 1]}
      BY <2>4 DEF Take
    <3>2. \A c \in inflight' : c.half = 2 => c \in inflight
      BY <3>1
    <3> QED BY <1>2, <2>1, <3>1, <3>2, SamePaired
  <2>5. CASE EndBatch
    BY <1>2, <2>1, <2>5, SamePaired DEF EndBatch
  <2>6. CASE Construct
    <3>1. sort_mode = "SNAPSHOT" /\ sort_mode' = sort_mode
      BY <2>6 DEF Construct, setup
    <3> QED BY <3>1 DEF Paired
  <2>7. ASSUME NEW c \in inflight, InsertHalf(c)
        PROVE  Paired'
    BY <1>2, <2>7, InsertPaired
  <2>8. CASE Done \/ UNCHANGED vars
    BY <1>2, <2>1, <2>8, SamePaired DEF Done, vars
  <2> QED BY <1>2, <2>2, <2>3, <2>4, <2>5, <2>6, <2>7, <2>8 DEF Next
<1> QED BY <1>1, <1>2, Invariant, PTL DEF Spec

\* The slots of a vertex with a direction are as many as its neighbours there.
LEMMA NeighborCount ==
  ASSUME NEW t, NEW l, ListOK(l, t), NEW d \in {"OUT", "IN"}
  PROVE  /\ Neighbors(l, d) \subseteq Vertices /\ IsFiniteSet(Neighbors(l, d))
         /\ Directed(l, d) = Cardinality(Neighbors(l, d))
<1> DEFINE S == {i \in DOMAIN l : d \in l[i].dirs}
           f == [i \in S |-> l[i].neighbor]
           T == Neighbors(l, d)
<1>1. l \in Seq(Slots) /\ Len(l) \in Nat /\ DOMAIN l = 1 .. Len(l)
  BY DEF ListOK
<1>2. IsFiniteSet(S)
  <2>1. S \in SUBSET (1 .. Len(l)) /\ IsFiniteSet(1 .. Len(l))
    BY <1>1, FS_Interval
  <2> HIDE DEF S
  <2> QED BY <2>1, FS_Subset
<1>3. T = {l[i].neighbor : i \in S}
  BY DEF Neighbors
<1>4. \A i \in S : l[i].neighbor \in Vertices
  <2> SUFFICES ASSUME NEW i \in S PROVE l[i].neighbor \in Vertices
    OBVIOUS
  <2>1. l[i] \in Slots /\ (l[i].neighbor = Blank <=> l[i].dirs = {}) /\ d \in l[i].dirs
    BY DEF ListOK, SlotOK
  <2> QED BY <2>1 DEF Slots
<1>5. \A i, j \in S : l[i].neighbor = l[j].neighbor => i = j
  <2>1. \A i \in S : l[i].neighbor # Blank
    BY <1>4, DatasetAssumption DEF Blank
  <2>2. \A i, j \in DOMAIN l : l[i].neighbor = l[j].neighbor /\ l[i].neighbor # Blank => i = j
    BY DEF ListOK
  <2> QED BY <2>1, <2>2
<1>6. f \in [S -> T] /\ (\A i, j \in S : f[i] = f[j] => i = j) /\ (\A x \in T : \E i \in S : f[i] = x)
  <2> HIDE DEF S, T
  <2> QED BY <1>3, <1>5
<1>7. ExistsBijection(S, T)
  <2>1. f \in Bijection(S, T)
    <3> HIDE DEF f, S, T
    <3> QED BY <1>6 DEF Bijection, Injection, Surjection, IsInjective
  <2> HIDE DEF f, S, T
  <2> QED BY <2>1 DEF ExistsBijection
<1>8. IsFiniteSet(T) /\ Cardinality(T) = Cardinality(S)
  <2> HIDE DEF S, T
  <2> QED BY <1>2, <1>7, FS_Bijection
<1>9. T \subseteq Vertices
  <2> HIDE DEF S
  <2> QED BY <1>3, <1>4
<1> QED BY <1>8, <1>9 DEF Directed

\* As many are the edges to or from a vertex.
LEMMA EdgeCount ==
  ASSUME NEW v \in Vertices, NEW N \in SUBSET Vertices, IsFiniteSet(N)
  PROVE  /\ Cardinality({e \in Vertices \X Vertices : e[2] = v /\ e[1] \in N}) = Cardinality(N)
         /\ Cardinality({e \in Vertices \X Vertices : e[1] = v /\ e[2] \in N}) = Cardinality(N)
<1> DEFINE To == {e \in Vertices \X Vertices : e[2] = v /\ e[1] \in N}
           From == {e \in Vertices \X Vertices : e[1] = v /\ e[2] \in N}
           f == [n \in N |-> <<n, v>>]
           g == [n \in N |-> <<v, n>>]
<1>1. f \in [N -> To] /\ (\A i, j \in N : f[i] = f[j] => i = j) /\ (\A x \in To : \E i \in N : f[i] = x)
  OBVIOUS
<1>2. g \in [N -> From] /\ (\A i, j \in N : g[i] = g[j] => i = j) /\ (\A x \in From : \E i \in N : g[i] = x)
  OBVIOUS
<1> HIDE DEF To, From, f, g
<1>3. f \in Bijection(N, To)
  BY <1>1 DEF Bijection, Injection, Surjection, IsInjective
<1>4. g \in Bijection(N, From)
  BY <1>2 DEF Bijection, Injection, Surjection, IsInjective
<1>5. ExistsBijection(N, To) /\ ExistsBijection(N, From)
  BY <1>3, <1>4 DEF ExistsBijection
<1>6. Cardinality(To) = Cardinality(N) /\ Cardinality(From) = Cardinality(N)
  BY <1>5, FS_Bijection
<1> QED BY <1>6 DEF To, From

LEMMA InsertedIsConsistent ==
  ASSUME IInv, Paired
  PROVE  sort_mode = "UNSORTED" /\ ~Windowed => Consistent
<1> SUFFICES ASSUME sort_mode = "UNSORTED", ~Windowed, inflight = {}
             PROVE  \A v \in Vertices :
                      /\ vertex[v].inDegree = Cardinality({e \in OutEdges(lists) : e[2] = v})
                      /\ vertex[v].outDegree = Cardinality({e \in InEdges(lists) : e[1] = v})
  BY DEF Consistent, AtRest
<1>1. /\ vertex = [v \in Vertices |-> Counts(lists[v])]
      /\ \A v \in Vertices : ListOK(lists[v], MinTimestamp)
  BY DEF IInv, UpdatedOK
<1>2. \A u, w \in Vertices : \A d \in {"OUT", "IN"} :
        There(lists, u, w, d) => There(lists, u, w, Other(d))
  BY DEF Paired, HasOther, Pending
<1>3. \A u, w \in Vertices : w \in Neighbors(lists[u], "OUT") <=> u \in Neighbors(lists[w], "IN")
  <2> SUFFICES ASSUME NEW u \in Vertices, NEW w \in Vertices
               PROVE  w \in Neighbors(lists[u], "OUT") <=> u \in Neighbors(lists[w], "IN")
    OBVIOUS
  <2>1. There(lists, u, w, "OUT") <=> There(lists, u, w, "IN")
    BY <1>2 DEF Other
  <2> QED BY <2>1 DEF There
<1>4. ASSUME NEW v \in Vertices
      PROVE  /\ vertex[v].inDegree = Cardinality({e \in OutEdges(lists) : e[2] = v})
             /\ vertex[v].outDegree = Cardinality({e \in InEdges(lists) : e[1] = v})
  <2> DEFINE I == Neighbors(lists[v], "IN")
             O == Neighbors(lists[v], "OUT")
  <2>1. /\ I \in SUBSET Vertices /\ IsFiniteSet(I) /\ Directed(lists[v], "IN") = Cardinality(I)
        /\ O \in SUBSET Vertices /\ IsFiniteSet(O) /\ Directed(lists[v], "OUT") = Cardinality(O)
    BY <1>1, NeighborCount
  <2>2. {e \in OutEdges(lists) : e[2] = v} = {e \in Vertices \X Vertices : e[2] = v /\ e[1] \in I}
    BY <1>3 DEF OutEdges
  <2>3. {e \in InEdges(lists) : e[1] = v} = {e \in Vertices \X Vertices : e[1] = v /\ e[2] \in O}
    BY <1>3 DEF InEdges
  <2>4. vertex[v].inDegree = Directed(lists[v], "IN") /\ vertex[v].outDegree = Directed(lists[v], "OUT")
    BY <1>1 DEF Counts
  <2> HIDE DEF I, O
  <2>5. /\ Cardinality({e \in Vertices \X Vertices : e[2] = v /\ e[1] \in I}) = Cardinality(I)
        /\ Cardinality({e \in Vertices \X Vertices : e[1] = v /\ e[2] \in O}) = Cardinality(O)
    BY <2>1, EdgeCount
  <2> QED BY <2>1, <2>2, <2>3, <2>4, <2>5
<1> QED BY <1>4

\* Without deletions every order of insertion by any number of threads leaves
\* consistent degrees when no thread is inserting: the in-degree of a vertex is
\* the number of edges in the lists of their sources, and its out-degree that of
\* the edges in the lists of their destinations.  This is what
\* stinger_consistency_check asks of the graph, and what MatchesReference says of
\* run_dynamic when the window is the whole dataset.
THEOREM InsertionsKeepConsistent ==
  Spec => [](sort_mode = "UNSORTED" /\ ~Windowed => Consistent)
BY InsertedIsConsistent, Invariant, PairedAlways, PTL

-----------------------------------------------------------------------------
(* The reference implementation.                                           *)

Entries == [weight : Nat, timestamp : Nat]

RefGraph(g) == DOMAIN g \subseteq Vertices \X Vertices /\ g \in [DOMAIN g -> Entries]

\* The graph has the edge k, and it is no older than ts.
Covers(g, k, ts) == k \in DOMAIN g /\ g[k].timestamp >= ts

Ends(e) == <<e.src, e.dst>>

LEMMA InsertEdgeFacts ==
  ASSUME NEW g, RefGraph(g), NEW e \in Edges
  PROVE  /\ RefGraph(Ref!InsertEdge(g, e))
         /\ Covers(Ref!InsertEdge(g, e), Ends(e), e.timestamp)
         /\ \A k : \A ts \in Nat : Covers(g, k, ts) => Covers(Ref!InsertEdge(g, e), k, ts)
<1> DEFINE key == Ends(e)
           first == [weight |-> e.weight, timestamp |-> e.timestamp]
           more == [weight |-> g[key].weight + e.weight,
                    timestamp |-> Ref!Later(g[key].timestamp, e.timestamp)]
           new == key \notin DOMAIN g \/ g[key].weight = -1
           r == Ref!InsertEdge(g, e)
<1>1. /\ e.src \in Vertices /\ e.dst \in Vertices /\ e.weight \in Nat /\ e.timestamp \in Nat
  BY DEF Edges
<1>2. key \in Vertices \X Vertices
  BY <1>1 DEF Ends
<1>3. r = [k \in DOMAIN g \cup {key} |-> IF k # key THEN g[k] ELSE IF new THEN first ELSE more]
  BY DEF Ref!InsertEdge, Ends
<1>4. first \in Entries /\ first.timestamp = e.timestamp
  BY <1>1 DEF Entries
<1>5. \A k \in DOMAIN g : g[k] \in Entries /\ g[k].weight \in Nat /\ g[k].timestamp \in Nat
  <2>1. \A x \in Entries : x.weight \in Nat /\ x.timestamp \in Nat
    BY DEF Entries
  <2> QED BY <2>1 DEF RefGraph
<1>6. key \in DOMAIN g => /\ ~new /\ more \in Entries
                          /\ more.timestamp >= e.timestamp /\ more.timestamp >= g[key].timestamp
  <2> SUFFICES ASSUME key \in DOMAIN g
               PROVE  /\ ~new /\ more \in Entries
                      /\ more.timestamp >= e.timestamp /\ more.timestamp >= g[key].timestamp
    OBVIOUS
  <2>1. g[key].weight \in Nat /\ g[key].timestamp \in Nat
    BY <1>5
  <2> DEFINE old == g[key].timestamp
             late == Ref!Later(old, e.timestamp)
             sum == g[key].weight + e.weight
  <2>2. late \in Nat /\ late >= e.timestamp /\ late >= old
    BY <1>1, <2>1 DEF Ref!Later
  <2>3. sum \in Nat /\ g[key].weight # -1
    BY <1>1, <2>1
  <2> HIDE DEF late, sum
  <2> QED BY <2>1, <2>2, <2>3 DEF Entries, late, sum
<1> HIDE DEF key, first, more, new, r
<1>7. DOMAIN r = DOMAIN g \cup {key} /\ \A k \in DOMAIN g : k # key => r[k] = g[k]
  BY <1>3
<1>8. r[key] = IF new THEN first ELSE more
  BY <1>3
<1>9. r[key] \in Entries /\ r[key].timestamp >= e.timestamp
      /\ (key \in DOMAIN g => r[key].timestamp >= g[key].timestamp)
  <2>1. CASE key \in DOMAIN g
    BY <1>6, <1>8, <2>1
  <2>2. CASE key \notin DOMAIN g
    <3>1. r[key] = first
      BY <1>8, <2>2 DEF new
    <3> QED BY <1>1, <1>4, <2>2, <3>1
  <2> QED BY <2>1, <2>2
<1>10. RefGraph(r)
  <2>1. \A k \in DOMAIN r : r[k] \in Entries
    BY <1>5, <1>7, <1>9
  <2>2. r = [k \in DOMAIN r |-> r[k]]
    BY <1>3
  <2>3. DOMAIN r \subseteq Vertices \X Vertices
    BY <1>2, <1>7 DEF RefGraph
  <2>4. r \in [DOMAIN r -> Entries]
    BY <2>1, <2>2
  <2> QED BY <2>3, <2>4 DEF RefGraph
<1>11. Covers(r, key, e.timestamp)
  BY <1>7, <1>9 DEF Covers
<1>12. ASSUME NEW k, NEW ts \in Nat, Covers(g, k, ts)
       PROVE  Covers(r, k, ts)
  <2>1. k \in DOMAIN g /\ g[k].timestamp >= ts /\ g[k].timestamp \in Nat
    BY <1>5, <1>12 DEF Covers
  <2>2. CASE k = key
    <3>1. r[key].timestamp \in Nat
      BY <1>9 DEF Entries
    <3> QED BY <1>7, <1>9, <2>1, <2>2, <3>1 DEF Covers
  <2>3. CASE k # key
    BY <1>7, <2>1, <2>3 DEF Covers
  <2> QED BY <2>2, <2>3
<1> QED BY <1>10, <1>11, <1>12 DEF r, key

\* The graphs after each edge of a batch.
IsAfter(f, g, s, n) == f = [i \in 0 .. n |-> IF i = 0 THEN g ELSE Ref!InsertEdge(f[i - 1], s[i])]

LEMMA AfterExists ==
  ASSUME NEW g, NEW s, NEW n \in Nat
  PROVE  \E f : IsAfter(f, g, s, n)
<1> DEFINE A == {m \in Nat : ~(\E f : IsAfter(f, g, s, m))}
<1> SUFFICES ASSUME A # {} PROVE FALSE
  OBVIOUS
<1> DEFINE m == Min(A)
<1>1. A \in SUBSET Nat
  OBVIOUS
<1>2. m \in A /\ \A x \in A : m <= x
  <2> HIDE DEF A
  <2> QED BY <1>1, MinOf
<1>3. m \in Nat /\ ~(\E f : IsAfter(f, g, s, m))
  BY <1>2
<1>4. CASE m = 0
  <2> DEFINE f == [i \in 0 .. 0 |-> g]
  <2>1. f = [i \in 0 .. 0 |-> IF i = 0 THEN g ELSE Ref!InsertEdge(f[i - 1], s[i])]
    OBVIOUS
  <2>2. IsAfter(f, g, s, 0)
    BY <2>1 DEF IsAfter
  <2> HIDE DEF f, m, A
  <2> QED BY <1>3, <1>4, <2>2
<1>5. CASE m # 0
  <2>1. m - 1 \in Nat /\ m - 1 \notin A
    <3> HIDE DEF A, m
    <3> QED BY <1>2, <1>3, <1>5
  <2>2. PICK f : IsAfter(f, g, s, m - 1)
    BY <2>1
  <2> HIDE DEF A, m
  <2>3. f = [i \in 0 .. m - 1 |-> IF i = 0 THEN g ELSE Ref!InsertEdge(f[i - 1], s[i])]
    BY <2>2 DEF IsAfter
  <2> DEFINE h == [i \in 0 .. m |-> IF i < m THEN f[i] ELSE Ref!InsertEdge(f[m - 1], s[m])]
  <2>4. \A i \in 0 .. m - 1 : h[i] = f[i]
    BY <1>3
  <2>5. \A i \in 0 .. m - 1 : f[i] = IF i = 0 THEN g ELSE Ref!InsertEdge(f[i - 1], s[i])
    BY <2>3
  <2>6. h[m] = Ref!InsertEdge(f[m - 1], s[m])
    BY <1>3
  <2>7. h = [i \in 0 .. m |-> h[i]]
    OBVIOUS
  <2> HIDE DEF h
  <2>8. ASSUME NEW i \in 0 .. m
        PROVE  h[i] = IF i = 0 THEN g ELSE Ref!InsertEdge(h[i - 1], s[i])
    <3>1. CASE i = m
      <4>1. m - 1 \in 0 .. m - 1
        BY <2>1
      <4> QED BY <1>5, <2>4, <2>6, <3>1, <4>1
    <3>2. CASE i # m
      <4>1. i \in 0 .. m - 1 /\ (i # 0 => i - 1 \in 0 .. m - 1)
        BY <1>3, <3>2
      <4> QED BY <2>4, <2>5, <4>1
    <3> QED BY <3>1, <3>2
  <2>9. h = [i \in 0 .. m |-> IF i = 0 THEN g ELSE Ref!InsertEdge(h[i - 1], s[i])]
    BY <2>7, <2>8
  <2>10. IsAfter(h, g, s, m)
    BY <2>9 DEF IsAfter
  <2> QED BY <1>3, <2>10
<1> QED BY <1>4, <1>5

\* A batch leaves in the graph what was there and puts all of its edges there.
LEMMA InsertBatchFacts ==
  ASSUME NEW g, RefGraph(g), NEW s \in Seq(Edges)
  PROVE  /\ RefGraph(Ref!InsertBatch(g, s))
         /\ \A k : \A ts \in Nat : Covers(g, k, ts) => Covers(Ref!InsertBatch(g, s), k, ts)
         /\ \A i \in DOMAIN s : Covers(Ref!InsertBatch(g, s), Ends(s[i]), s[i].timestamp)
<1> DEFINE n == Len(s)
           a == CHOOSE f : IsAfter(f, g, s, n)
<1>1. n \in Nat /\ DOMAIN s = 1 .. n /\ \A i \in 1 .. n : s[i] \in Edges
  OBVIOUS
<1>2. Ref!InsertBatch(g, s) = a[n]
  BY DEF Ref!InsertBatch, IsAfter
<1>3. IsAfter(a, g, s, n)
  <2> HIDE DEF n
  <2> QED BY <1>1, AfterExists
<1> HIDE DEF n, a
<1>4. a[0] = g /\ \A i \in 1 .. n : a[i] = Ref!InsertEdge(a[i - 1], s[i])
  BY <1>1, <1>3 DEF IsAfter
<1> DEFINE P(m) == /\ RefGraph(a[m])
                   /\ \A k : \A ts \in Nat : Covers(g, k, ts) => Covers(a[m], k, ts)
                   /\ \A i \in 1 .. m : Covers(a[m], Ends(s[i]), s[i].timestamp)
           A == {m \in 0 .. n : ~P(m)}
<1>5. A = {}
  <2> SUFFICES ASSUME A # {} PROVE FALSE
    OBVIOUS
  <2> DEFINE m == Min(A)
  <2>1. A \in SUBSET Nat
    BY <1>1
  <2>2. m \in A /\ \A x \in A : m <= x
    <3> HIDE DEF A
    <3> QED BY <2>1, MinOf
  <2>3. m \in 0 .. n /\ ~P(m)
    BY <2>2
  <2>4. P(0)
    BY <1>4
  <2>5. m # 0
    BY <2>3, <2>4
  <2>6. m \in 1 .. n /\ m - 1 \in 0 .. n /\ m - 1 \notin A
    <3> HIDE DEF A, m
    <3> QED BY <1>1, <2>2, <2>3, <2>5
  <2>7. P(m - 1)
    BY <2>6
  <2>8. a[m] = Ref!InsertEdge(a[m - 1], s[m]) /\ s[m] \in Edges
    BY <1>1, <1>4, <2>6
  <2> HIDE DEF m, A
  <2>9. /\ RefGraph(a[m]) /\ Covers(a[m], Ends(s[m]), s[m].timestamp)
        /\ \A k : \A ts \in Nat : Covers(a[m - 1], k, ts) => Covers(a[m], k, ts)
    BY <2>7, <2>8, InsertEdgeFacts
  <2>10. \A i \in 1 .. m : i = m \/ i \in 1 .. m - 1
    BY <2>6
  <2>11. \A i \in 1 .. n : s[i].timestamp \in Nat
    BY <1>1 DEF Edges
  <2>12. \A i \in 1 .. m : Covers(a[m], Ends(s[i]), s[i].timestamp)
    <3> SUFFICES ASSUME NEW i \in 1 .. m PROVE Covers(a[m], Ends(s[i]), s[i].timestamp)
      OBVIOUS
    <3>1. CASE i = m
      BY <2>9, <3>1
    <3>2. CASE i # m
      <4>1. i \in 1 .. m - 1 /\ i \in 1 .. n
        BY <1>1, <2>6, <3>2
      <4> QED BY <2>7, <2>9, <2>11, <4>1
    <3> QED BY <3>1, <3>2
  <2>13. \A k : \A ts \in Nat : Covers(g, k, ts) => Covers(a[m], k, ts)
    BY <2>7, <2>9
  <2> QED BY <2>3, <2>9, <2>12, <2>13
<1>6. n \in 0 .. n
  BY <1>1
<1>7. P(n)
  BY <1>5, <1>6
<1> QED BY <1>1, <1>2, <1>7

LEMMA DeleteOlderFacts ==
  ASSUME NEW g, RefGraph(g), NEW h \in Nat
  PROVE  /\ RefGraph(Ref!DeleteOlderThan(g, h))
         /\ \A k : \A ts \in Nat : Covers(g, k, ts) /\ ts >= h => Covers(Ref!DeleteOlderThan(g, h), k, ts)
<1> DEFINE D == {k \in DOMAIN g : g[k].timestamp >= h}
           r == Ref!DeleteOlderThan(g, h)
<1>1. r = [k \in D |-> g[k]]
  BY DEF Ref!DeleteOlderThan, Ref!Restrict
<1>2. D \subseteq DOMAIN g
  OBVIOUS
<1>3. \A k \in DOMAIN g : g[k].timestamp \in Nat /\ g[k] \in Entries
  BY DEF RefGraph, Entries
<1>4. RefGraph(r)
  <2> HIDE DEF D
  <2> QED BY <1>1, <1>2, <1>3 DEF RefGraph
<1>5. ASSUME NEW k, NEW ts \in Nat, Covers(g, k, ts), ts >= h
      PROVE  Covers(r, k, ts)
  <2>1. k \in DOMAIN g /\ g[k].timestamp >= ts /\ g[k].timestamp \in Nat
    BY <1>3, <1>5 DEF Covers
  <2>2. k \in D
    BY <1>5, <2>1
  <2> HIDE DEF D
  <2> QED BY <1>1, <2>1, <2>2 DEF Covers
<1> QED BY <1>4, <1>5

\* The same of the part of the dataset from the first to the last index given.
LEMMA InsertSpan ==
  ASSUME Dataset, NEW g, RefGraph(g), NEW a \in Nat \ {0}, NEW z \in Nat, a <= z + 1, z <= Len(edges)
  PROVE  /\ RefGraph(Ref!InsertBatch(g, SubSeq(edges, a, z)))
         /\ \A k : \A ts \in Nat :
              Covers(g, k, ts) => Covers(Ref!InsertBatch(g, SubSeq(edges, a, z)), k, ts)
         /\ \A i \in a .. z :
              Covers(Ref!InsertBatch(g, SubSeq(edges, a, z)), Ends(edges[i]), edges[i].timestamp)
<1> DEFINE s == SubSeq(edges, a, z)
<1>1. edges \in Seq(Edges) /\ Len(edges) \in Nat
  BY DEF Dataset
<1>2. s = [i \in 1 .. z - a + 1 |-> edges[i + a - 1]]
  BY <1>1
<1>3. \A i \in 1 .. z - a + 1 : i + a - 1 \in 1 .. Len(edges)
  BY <1>1
<1>4. s \in Seq(Edges) /\ DOMAIN s = 1 .. z - a + 1
  <2>1. z - a + 1 \in Nat
    OBVIOUS
  <2>2. \A i \in 1 .. z - a + 1 : edges[i + a - 1] \in Edges
    BY <1>1, <1>3
  <2> HIDE DEF s
  <2> QED BY <1>2, <2>1, <2>2
<1> HIDE DEF s
<1>5. /\ RefGraph(Ref!InsertBatch(g, s))
      /\ \A k : \A ts \in Nat : Covers(g, k, ts) => Covers(Ref!InsertBatch(g, s), k, ts)
      /\ \A i \in DOMAIN s : Covers(Ref!InsertBatch(g, s), Ends(s[i]), s[i].timestamp)
  BY <1>4, InsertBatchFacts
<1>6. ASSUME NEW i \in a .. z
      PROVE  Covers(Ref!InsertBatch(g, s), Ends(edges[i]), edges[i].timestamp)
  <2>1. i - a + 1 \in 1 .. z - a + 1 /\ (i - a + 1) + a - 1 = i
    OBVIOUS
  <2>2. s[i - a + 1] = edges[i]
    BY <1>2, <2>1
  <2> QED BY <1>4, <1>5, <2>1, <2>2
<1> QED BY <1>5, <1>6 DEF s

\* A batch is never filtered away as a whole, and an edge that is too old for a
\* batch is too old for the next.
LEMMA BatchNotEmpty ==
  ASSUME Dataset, NEW b \in 0 .. NumBatches - 1
  PROVE  FilteredStart(BatchStart(b), b) <= BatchEnd(b) /\ Min(Batch(b)) = FilteredStart(BatchStart(b), b)
<1> DEFINE first == FilteredStart(BatchStart(b), b)
           last == BatchEnd(b)
<1>1. /\ BatchStart(b) \in Nat \ {0} /\ last \in DOMAIN edges /\ BatchStart(b) <= last
      /\ last \in Nat
  BY BatchFacts DEF Dataset
<1>2. edges[last].timestamp >= Threshold(b)
  <2> DEFINE t == edges[last].timestamp
  <2>1. edges[last] \in Edges /\ MinTimestamp <= t /\ MinTimestamp \in Nat /\ window \in Nat
    BY <1>1, TimeFacts DEF Dataset
  <2>2. t \in Nat
    BY <2>1 DEF Edges
  <2>3. Threshold(b) = IF MinTimestamp > t - window THEN MinTimestamp ELSE t - window
    BY DEF Threshold, Ref!Later
  <2> HIDE DEF t
  <2>4. t >= Threshold(b)
    BY <2>1, <2>2, <2>3
  <2> QED BY <2>4 DEF t
<1>3. /\ first \in BatchStart(b) .. last + 1
      /\ \A i \in BatchStart(b) .. last : edges[i].timestamp >= Threshold(b) => first <= i
  BY <1>1, FilterFacts
<1>4. first <= last /\ first \in Nat
  <2>1. last \in BatchStart(b) .. last
    BY <1>1
  <2> HIDE DEF first, last
  <2> QED BY <1>1, <1>2, <1>3, <2>1
<1>5. Batch(b) = first .. last
  BY DEF Batch
<1> HIDE DEF first, last
<1>6. Min(first .. last) = first
  <2>1. first .. last \in SUBSET Nat /\ first \in first .. last
    BY <1>1, <1>4
  <2>2. Min(first .. last) \in first .. last /\ Min(first .. last) <= first
    BY <2>1, MinOf
  <2> QED BY <1>1, <1>4, <2>2
<1> QED BY <1>4, <1>5, <1>6 DEF first, last

LEMMA FilteredIsNew ==
  ASSUME Dataset, NEW b \in 0 .. NumBatches - 1, NEW from \in Nat \ {0}, from <= BatchEnd(b),
         NEW i \in FilteredStart(from, b) .. BatchEnd(b)
  PROVE  i \in from .. BatchEnd(b) /\ edges[i].timestamp >= Threshold(b)
<1> DEFINE last == BatchEnd(b)
           start == FilteredStart(from, b)
           h == Threshold(b)
           A == {j \in from .. last : edges[j].timestamp >= h} \cup {last + 1}
<1>1. /\ last \in DOMAIN edges /\ last \in Nat /\ last <= Len(edges)
      /\ Len(edges) \in Nat /\ DOMAIN edges = 1 .. Len(edges) /\ h \in Nat
  BY BatchFacts, TimeFacts DEF Dataset
<1>2. start \in from .. last + 1
  BY FilterFacts
<1>3. start = Min(A)
  BY DEF FilteredStart
<1>4. A \in SUBSET Nat /\ A # {}
  BY <1>1
<1>5. start \in A
  <2> HIDE DEF A, start
  <2> QED BY <1>3, <1>4, MinOf
<1>6. i \in start .. last
  OBVIOUS
<1>7. start # last + 1
  <2> HIDE DEF A, start, last
  <2> QED BY <1>1, <1>2, <1>6
<1>8. start \in from .. last /\ edges[start].timestamp >= h
  BY <1>5, <1>7
<1> HIDE DEF A, start, last, h
<1>9. i \in from .. last /\ start \in DOMAIN edges /\ i \in DOMAIN edges /\ (start = i \/ start < i)
  BY <1>1, <1>6, <1>8
<1>10. \A j \in DOMAIN edges : edges[j].timestamp \in Nat
  <2>1. \A j \in DOMAIN edges : edges[j] \in Edges
    BY TimeFacts
  <2> QED BY <2>1 DEF Edges
<1> DEFINE x == edges[start].timestamp
           y == edges[i].timestamp
<1>11. x >= h /\ x <= y /\ x \in Nat /\ y \in Nat
  BY <1>8, <1>9, <1>10 DEF Dataset
<1> HIDE DEF x, y
<1>12. y >= h
  BY <1>1, <1>11
<1> QED BY <1>9, <1>12 DEF y, h, last

LEMMA ThresholdGrows ==
  ASSUME Dataset, NEW b \in 1 .. NumBatches - 1
  PROVE  /\ Threshold(b - 1) <= Threshold(b) /\ BatchEnd(b - 1) + 1 = BatchStart(b)
         /\ b - 1 \in 0 .. NumBatches - 1
<1>1. NumBatches \in Nat /\ b \in 0 .. NumBatches - 1 /\ b - 1 \in 0 .. NumBatches - 1
  BY BatchFacts
<1> DEFINE x == BatchEnd(b - 1)
           y == BatchEnd(b)
           tx == edges[x].timestamp
           ty == edges[y].timestamp
<1>2. x \in DOMAIN edges /\ y \in DOMAIN edges /\ x \in Nat /\ y \in Nat /\ BatchStart(b) <= y
  BY <1>1, BatchFacts DEF Dataset
<1>3. x + 1 = BatchStart(b)
  <2>1. b - 1 + 1 = b
    OBVIOUS
  <2> QED BY <2>1 DEF BatchStart, BatchEnd
<1>4. x < y
  <2> HIDE DEF x, y
  <2> QED BY <1>2, <1>3
<1>5. tx <= ty
  BY <1>2, <1>4 DEF Dataset
<1>6. tx \in Nat /\ ty \in Nat /\ MinTimestamp \in Nat /\ window \in Nat
  <2>1. edges[x] \in Edges /\ edges[y] \in Edges /\ MinTimestamp \in Nat
    BY <1>2, TimeFacts
  <2> HIDE DEF x, y
  <2> QED BY <2>1 DEF Edges, Dataset
<1>7. /\ Threshold(b - 1) = IF MinTimestamp > tx - window THEN MinTimestamp ELSE tx - window
      /\ Threshold(b) = IF MinTimestamp > ty - window THEN MinTimestamp ELSE ty - window
  BY DEF Threshold, Ref!Later
<1> HIDE DEF tx, ty
<1>8. Threshold(b - 1) <= Threshold(b)
  BY <1>5, <1>6, <1>7
<1> QED BY <1>1, <1>3, <1>8

-----------------------------------------------------------------------------
(* The second invariant: how the graph is related to the reference graph.  *)

\* One of the edges the loop handed out.
HandedOut(k, ts) ==
  phase = "insertions" /\
  \E j \in BatchFirst .. next - 1 : Ends(edges[j]) = k /\ edges[j].timestamp >= ts

Known(k, ts) == Covers(reference, k, ts) \/ HandedOut(k, ts)

\* The outgoing slots of run_dynamic are of edges the reference has, or will
\* have at the end of the batch, with a timestamp as new.
SlotsKnown(L) ==
  \A u \in Vertices : \A i \in DOMAIN L[u] :
    "OUT" \in L[u][i].dirs => Known(<<u, L[u][i].neighbor>>, L[u][i].timeRecent)

\* Every entry up to the end of batch b that its window does not exclude.
PrefixCovered(g, b) ==
  \A i \in 1 .. BatchEnd(b) :
    edges[i].timestamp >= Threshold(b) => Covers(g, Ends(edges[i]), edges[i].timestamp)

RefInv ==
  /\ RefGraph(reference)
  /\ \A c \in inflight : c.edge \in BatchFirst .. next - 1
  /\ sort_mode = "UNSORTED" => SlotsKnown(lists)
  /\ sort_mode = "SNAPSHOT" =>
       /\ \A e \in snapshot : Ends(e) \in DOMAIN reference
       /\ batch_id > 0 => PrefixCovered(reference, batch_id - 1)

\* Where nothing happens to the graphs and what was handed out stays so.
LEMMA SameKnown ==
  ASSUME SetupOK, RefInv, UNCHANGED <<setup, lists, snapshot, batch_id, reference>>,
         \A k : \A ts : HandedOut(k, ts) => HandedOut(k, ts)',
         \A c \in inflight' : c.edge \in (BatchFirst .. next - 1)'
  PROVE  RefInv'
<1>1. /\ edges' = edges /\ window' = window /\ sort_mode' = sort_mode /\ lists' = lists
      /\ snapshot' = snapshot /\ batch_id' = batch_id /\ reference' = reference
  BY DEF setup
<1>2. \A g, b : PrefixCovered(g, b)' <=> PrefixCovered(g', b)
  BY <1>1 DEF PrefixCovered, BatchEnd, Threshold, MinTimestamp, Ref!Later
<1>3. sort_mode = "UNSORTED" => SlotsKnown(lists)'
  <2>1. \A k, ts : Known(k, ts) => Known(k, ts)'
    BY <1>1 DEF Known, Covers
  <2> QED BY <1>1, <2>1 DEF RefInv, SlotsKnown
<1>4. RefGraph(reference)'
  BY <1>1 DEF RefInv, RefGraph
<1>5. sort_mode = "SNAPSHOT" /\ batch_id > 0 => PrefixCovered(reference, batch_id - 1)'
  BY <1>1 DEF RefInv, PrefixCovered, BatchEnd, Threshold, MinTimestamp, Ref!Later, Covers
<1> QED BY <1>1, <1>3, <1>4, <1>5 DEF RefInv

LEMMA InitRef ==
  ASSUME Init
  PROVE  RefInv
<1>1. reference = Ref!EmptyGraph /\ inflight = {} /\ snapshot = {} /\ batch_id = 0
      /\ lists = [v \in Vertices |-> <<>>]
  BY DEF Init
<1>2. RefGraph(reference)
  <2>1. reference = [e \in {} |-> [weight |-> 0, timestamp |-> 0]]
    BY <1>1 DEF Ref!EmptyGraph
  <2>2. DOMAIN reference = {}
    BY <2>1
  <2>3. reference \in [DOMAIN reference -> Entries]
    BY <2>1
  <2> QED BY <2>2, <2>3 DEF RefGraph
<1>3. \A v \in Vertices : DOMAIN lists[v] = {}
  BY <1>1
<1>4. SlotsKnown(lists)
  BY <1>3 DEF SlotsKnown
<1> QED BY <1>1, <1>2, <1>4 DEF RefInv

LEMMA DeleteRef ==
  ASSUME IInv, RefInv, Delete
  PROVE  RefInv'
<1>1. SetupOK /\ ControlOK /\ InflightOK /\ UpdatedOK /\ Dataset
  BY DatasetFacts DEF IInv
<1>2. /\ UNCHANGED <<setup, recentDeletions, batch_id, inflight, snapshot>>
      /\ phase = "deletions"
  BY DEF Delete
<1>3. sort_mode = "UNSORTED" /\ sort_mode' = sort_mode /\ inflight' = {}
  <2>1. sort_mode' = sort_mode
    BY <1>2 DEF setup
  <2>2. inflight = {}
    BY <1>1, <1>2 DEF InflightOK
  <2> QED BY <1>1, <1>2, <2>1, <2>2 DEF Dataset, ControlOK
<1> DEFINE h == Threshold(batch_id)
<1>4. h \in Nat /\ MinTimestamp \in Nat
  BY <1>1, <1>2, CurrentBatch, TimeFacts
<1>5. /\ \A v \in Vertices : lists'[v] = IF Windowed THEN Survivors(lists[v], h) ELSE lists[v]
  BY <1>1, <1>3, DeleteGraph
<1>6. reference' = IF Windowed THEN Ref!DeleteOlderThan(reference, h) ELSE reference
  BY DEF Delete
<1> HIDE DEF h
<1>7. \A k, ts : Known(k, ts) => Covers(reference, k, ts)
  BY <1>2 DEF Known, HandedOut
<1>8. \A v \in Vertices : ListOK(lists[v], MinTimestamp)
  BY <1>1, <1>3 DEF UpdatedOK
<1>9. RefGraph(reference)
  BY DEF RefInv
<1>10. ASSUME NEW u \in Vertices, NEW i \in DOMAIN lists'[u], "OUT" \in lists'[u][i].dirs
       PROVE  Covers(reference', <<u, lists'[u][i].neighbor>>, lists'[u][i].timeRecent)
  <2>1. CASE Windowed
    <3>1. lists'[u] = Survivors(lists[u], h) /\ OutLeft(lists[u], Survivors(lists[u], h), h)
      BY <1>4, <1>5, <1>8, <2>1, SurvivorsOK
    <3>2. /\ i \in DOMAIN lists[u] /\ "OUT" \in lists[u][i].dirs /\ lists[u][i].timeRecent >= h
          /\ lists'[u][i].neighbor = lists[u][i].neighbor
          /\ lists'[u][i].timeRecent = lists[u][i].timeRecent
      BY <1>10, <3>1 DEF OutLeft
    <3>3. Covers(reference, <<u, lists[u][i].neighbor>>, lists[u][i].timeRecent)
      BY <1>3, <1>7, <3>2 DEF RefInv, SlotsKnown
    <3>4. lists[u][i].timeRecent \in Nat
      <4>1. lists[u][i] \in Slots
        BY <1>8, <3>2 DEF ListOK
      <4> QED BY <4>1 DEF Slots
    <3> QED BY <1>4, <1>6, <1>9, <2>1, <3>2, <3>3, <3>4, DeleteOlderFacts
  <2>2. CASE ~Windowed
    <3>1. lists'[u] = lists[u] /\ reference' = reference
      BY <1>5, <1>6, <2>2
    <3> QED BY <1>3, <1>7, <1>10, <3>1 DEF RefInv, SlotsKnown
  <2> QED BY <2>1, <2>2
<1>11. SlotsKnown(lists)'
  BY <1>10 DEF SlotsKnown, Known, Covers
<1>12. RefGraph(reference')
  BY <1>4, <1>6, <1>9, DeleteOlderFacts
<1>13. RefGraph(reference)'
  BY <1>12 DEF RefGraph
<1> QED BY <1>3, <1>11, <1>13 DEF RefInv

LEMMA TakeRef ==
  ASSUME IInv, RefInv, Take
  PROVE  RefInv'
<1>1. SetupOK /\ ControlOK /\ Dataset
  BY DatasetFacts DEF IInv
<1>2. /\ UNCHANGED <<setup, lists, batch_id, phase, snapshot, reference>> /\ phase = "insertions"
      /\ inflight' = inflight \cup {[edge |-> next, half |-> 1]} /\ next' = next + 1
  BY DEF Take
<1>3. BatchFirst' = BatchFirst
  BY <1>2, SameBatch
<1>4. BatchFirst \in Nat /\ next \in Nat /\ BatchFirst <= next
  BY <1>1, <1>2, CurrentBatch DEF ControlOK
<1>5. \A j \in BatchFirst .. next - 1 : j \in BatchFirst .. next' - 1
  BY <1>2, <1>4
<1>6. \A k : \A ts : HandedOut(k, ts) => HandedOut(k, ts)'
  <2>1. edges' = edges
    BY <1>2 DEF setup
  <2> QED BY <1>2, <1>3, <1>5, <2>1 DEF HandedOut, Ends
<1>7. ASSUME NEW c \in inflight'
      PROVE  c.edge \in (BatchFirst .. next - 1)'
  <2>1. c \in inflight \/ c.edge = next
    BY <1>2
  <2>2. next \in BatchFirst .. next' - 1
    BY <1>2, <1>4
  <2> QED BY <1>3, <1>5, <2>1, <2>2 DEF RefInv
<1> QED BY <1>1, <1>2, <1>6, <1>7, SameKnown

LEMMA InsertHalfRef ==
  ASSUME IInv, RefInv, NEW c \in inflight, InsertHalf(c)
  PROVE  RefInv'
<1>1. SetupOK /\ ControlOK /\ InflightOK /\ UpdatedOK /\ Dataset
  BY DatasetFacts DEF IInv
<1> DEFINE e == edges[c.edge]
           second == [c EXCEPT !.half = 2]
<1>2. /\ UNCHANGED <<setup, batch_id, phase, next, snapshot, reference>>
      /\ inflight' = (inflight \ {c}) \cup (IF c.half = 1 THEN {second} ELSE {})
  BY DEF InsertHalf
<1>3. phase = "insertions" /\ c.edge \in DOMAIN edges /\ second.edge = c.edge
  <2>1. phase = "insertions" /\ c \in [edge : DOMAIN edges, half : {1, 2}]
    BY <1>1 DEF InflightOK
  <2> QED BY <2>1
<1> HIDE DEF second
<1>4. sort_mode = "UNSORTED" /\ sort_mode' = sort_mode /\ edges' = edges
  BY <1>1, <1>2, <1>3 DEF ControlOK, Dataset, setup
<1>5. BatchFirst' = BatchFirst /\ next' = next
  BY <1>2, SameBatch
<1>6. c.edge \in BatchFirst .. next - 1
  BY DEF RefInv
<1>7. \A x \in Vertices : \A i \in DOMAIN lists'[x] :
        "OUT" \in lists'[x][i].dirs => OutFrom(lists, lists', x, i, e)
  BY <1>1, <1>4, InsertGraph
<1>8. e.timestamp \in Nat
  <2>1. e \in Edges
    BY <1>1, <1>3, TimeFacts
  <2> HIDE DEF e
  <2> QED BY <2>1 DEF Edges
<1>9. \A k, ts : Known(k, ts) => Known(k, ts)'
  BY <1>2, <1>4, <1>5 DEF Known, HandedOut, Covers
<1>10. Known(Ends(e), e.timestamp)
  BY <1>3, <1>6, <1>8 DEF Known, HandedOut
<1> HIDE DEF e
<1>11. ASSUME NEW u \in Vertices, NEW i \in DOMAIN lists'[u], "OUT" \in lists'[u][i].dirs
       PROVE  Known(<<u, lists'[u][i].neighbor>>, lists'[u][i].timeRecent)
  <2>1. OutFrom(lists, lists', u, i, e)
    BY <1>7, <1>11
  <2>2. CASE u = e.src /\ lists'[u][i].neighbor = e.dst /\ lists'[u][i].timeRecent = e.timestamp
    BY <1>10, <2>2 DEF Ends
  <2>3. CASE ~(u = e.src /\ lists'[u][i].neighbor = e.dst /\ lists'[u][i].timeRecent = e.timestamp)
    BY <1>4, <2>1, <2>3 DEF OutFrom, RefInv, SlotsKnown
  <2> QED BY <2>2, <2>3
<1>12. SlotsKnown(lists)'
  BY <1>9, <1>11 DEF SlotsKnown
<1>13. \A x \in inflight' : x.edge \in (BatchFirst .. next - 1)'
  BY <1>2, <1>3, <1>5, <1>6 DEF RefInv
<1>14. RefGraph(reference)'
  BY <1>2 DEF RefInv, RefGraph
<1> QED BY <1>4, <1>12, <1>13, <1>14 DEF RefInv

\* The part of the dataset the reference gets at the end of a batch.
LEMMA EndBatchSpan ==
  ASSUME IInv, EndBatch
  PROVE  /\ Batch(batch_id) = BatchFirst .. BatchLast /\ BatchFirst \in Nat \ {0} /\ BatchLast \in Nat
         /\ BatchFirst <= BatchLast + 1 /\ BatchLast <= Len(edges)
         /\ next - 1 = BatchLast /\ phase = "insertions" /\ inflight = {} /\ sort_mode = "UNSORTED"
         /\ reference' = Ref!InsertBatch(reference, SubSeq(edges, BatchFirst, BatchLast))
<1>1. SetupOK /\ ControlOK /\ InflightOK /\ UpdatedOK /\ Dataset
  BY DatasetFacts DEF IInv
<1>2. /\ phase = "insertions" /\ next > BatchLast /\ inflight = {}
      /\ reference' = Ref!InsertBatch(reference, SubSeq(edges, Min(Batch(batch_id) \cup {next}), next - 1))
  BY DEF EndBatch, BatchLast
<1>3. sort_mode = "UNSORTED"
  BY <1>1, <1>2 DEF Dataset, ControlOK
<1>4. /\ Batch(batch_id) = BatchFirst .. BatchLast /\ BatchFirst \in Nat \ {0} /\ BatchLast \in Nat
      /\ BatchFirst <= BatchLast + 1 /\ BatchLast <= Len(edges)
      /\ BatchLast \in DOMAIN edges
  BY <1>1, <1>2, CurrentBatch
<1>5. next = BatchLast + 1
  <2>1. next \in BatchFirst .. BatchLast + 1
    BY <1>1, <1>2 DEF ControlOK
  <2> QED BY <1>2, <1>4, <2>1
<1>6. Min(Batch(batch_id) \cup {next}) = BatchFirst
  <2> DEFINE A == (BatchFirst .. BatchLast) \cup {next}
  <2>1. A \in SUBSET Nat /\ BatchFirst \in A /\ \A x \in A : BatchFirst <= x
    BY <1>4, <1>5
  <2>2. Min(A) \in A /\ Min(A) <= BatchFirst
    <3> HIDE DEF A
    <3> QED BY <2>1, MinOf
  <2> HIDE DEF A
  <2>3. Min(A) = BatchFirst
    <3>1. Min(A) \in Nat /\ BatchFirst <= Min(A)
      BY <2>1, <2>2
    <3> QED BY <1>4, <2>2, <3>1
  <2> QED BY <1>4, <2>3 DEF A
<1>7. reference' = Ref!InsertBatch(reference, SubSeq(edges, BatchFirst, BatchLast)) /\ next - 1 = BatchLast
  <2>1. next - 1 = BatchLast
    BY <1>4, <1>5
  <2> QED BY <1>2, <1>6, <2>1
<1> QED BY <1>2, <1>3, <1>4, <1>7

LEMMA EndBatchRef ==
  ASSUME IInv, RefInv, EndBatch
  PROVE  RefInv'
<1>1. SetupOK /\ ControlOK /\ InflightOK /\ UpdatedOK /\ Dataset
  BY DatasetFacts DEF IInv
<1>2. /\ UNCHANGED <<setup, lists, vertex, recentDeletions, next, inflight, snapshot>>
      /\ phase = "insertions" /\ inflight = {}
  BY DEF EndBatch
<1>3. sort_mode = "UNSORTED" /\ sort_mode' = sort_mode
  <2>1. sort_mode' = sort_mode
    BY <1>2 DEF setup
  <2> QED BY <1>1, <1>2, <2>1 DEF Dataset, ControlOK
<1>4. /\ BatchFirst \in Nat \ {0} /\ BatchLast \in Nat
      /\ BatchFirst <= BatchLast + 1 /\ BatchLast <= Len(edges)
  BY EndBatchSpan
<1>7. reference' = Ref!InsertBatch(reference, SubSeq(edges, BatchFirst, BatchLast)) /\ next - 1 = BatchLast
  BY EndBatchSpan
<1>8. /\ RefGraph(reference')
      /\ \A k : \A ts \in Nat : Covers(reference, k, ts) => Covers(reference', k, ts)
      /\ \A i \in BatchFirst .. BatchLast : Covers(reference', Ends(edges[i]), edges[i].timestamp)
  <2>1. RefGraph(reference)
    BY DEF RefInv
  <2> QED BY <1>1, <1>4, <1>7, <2>1, InsertSpan
<1>9. \A j \in BatchFirst .. BatchLast : edges[j].timestamp \in Nat
  <2> SUFFICES ASSUME NEW j \in BatchFirst .. BatchLast PROVE edges[j].timestamp \in Nat
    OBVIOUS
  <2>1. j \in DOMAIN edges
    BY <1>1, <1>4 DEF Dataset
  <2>2. edges[j] \in Edges
    BY <1>1, <2>1, TimeFacts
  <2> QED BY <2>2 DEF Edges
<1>10. \A k : \A ts \in Nat : Known(k, ts) => Covers(reference', k, ts)
  <2> SUFFICES ASSUME NEW k, NEW ts \in Nat, Known(k, ts) PROVE Covers(reference', k, ts)
    OBVIOUS
  <2>1. CASE Covers(reference, k, ts)
    BY <1>8, <2>1
  <2>2. CASE ~Covers(reference, k, ts)
    <3>1. PICK j \in BatchFirst .. next - 1 : Ends(edges[j]) = k /\ edges[j].timestamp >= ts
      BY <2>2 DEF Known, HandedOut
    <3>2. j \in BatchFirst .. BatchLast
      BY <1>7, <3>1
    <3>3. k \in DOMAIN reference' /\ reference'[k].timestamp >= edges[j].timestamp
      BY <1>8, <3>1, <3>2 DEF Covers
    <3>4. reference'[k].timestamp \in Nat
      BY <1>8, <3>3 DEF RefGraph, Entries
    <3>5. edges[j].timestamp \in Nat
      BY <1>9, <3>2
    <3> DEFINE a == reference'[k].timestamp
               b == edges[j].timestamp
    <3>6. a >= b /\ b >= ts /\ a \in Nat /\ b \in Nat
      BY <3>1, <3>3, <3>4, <3>5
    <3> HIDE DEF a, b
    <3>7. a >= ts
      BY <3>6
    <3> QED BY <3>3, <3>7 DEF Covers, a
  <2> QED BY <2>1, <2>2
<1>11. ASSUME NEW u \in Vertices, NEW i \in DOMAIN lists'[u], "OUT" \in lists'[u][i].dirs
       PROVE  Covers(reference', <<u, lists'[u][i].neighbor>>, lists'[u][i].timeRecent)
  <2>1. lists' = lists
    BY <1>2
  <2>2. Known(<<u, lists[u][i].neighbor>>, lists[u][i].timeRecent)
    BY <1>3, <1>11, <2>1 DEF RefInv, SlotsKnown
  <2>3. lists[u][i].timeRecent \in Nat
    <3>1. lists[u] \in Seq(Slots)
      BY <1>1, <1>3 DEF UpdatedOK
    <3>2. lists[u][i] \in Slots
      BY <1>11, <2>1, <3>1
    <3> QED BY <3>2 DEF Slots
  <2> QED BY <1>10, <2>1, <2>2, <2>3
<1>12. SlotsKnown(lists)'
  BY <1>11 DEF SlotsKnown, Known, Covers
<1>13. RefGraph(reference)'
  BY <1>8 DEF RefGraph
<1>14. inflight' = {}
  BY <1>2
<1> QED BY <1>3, <1>12, <1>13, <1>14 DEF RefInv

LEMMA ConstructRef ==
  ASSUME IInv, RefInv, Construct
  PROVE  RefInv'
<1>1. SetupOK /\ ControlOK /\ InflightOK /\ Dataset
  BY DatasetFacts DEF IInv
<1> DEFINE b == batch_id
           first == FilteredStart(BatchStart(b), b)
           last == BatchEnd(b)
           h == Threshold(b)
           kept == IF Windowed THEN Ref!DeleteOlderThan(reference, h) ELSE reference
<1>2. /\ UNCHANGED <<setup, recentDeletions, next, inflight>>
      /\ phase = "before_batch" /\ sort_mode = "SNAPSHOT" /\ snapshot' \in Snapshots(b)
      /\ reference' = Ref!InsertBatch(kept, SubSeq(edges, Min(Batch(b)), last))
      /\ batch_id' = b + 1
  BY DEF Construct
<1>3. edges' = edges /\ window' = window /\ sort_mode' = sort_mode /\ inflight' = {}
  <2>1. inflight = {}
    BY <1>1, <1>2 DEF InflightOK
  <2> QED BY <1>2, <2>1 DEF setup
<1>4. /\ b \in 0 .. NumBatches - 1 /\ b \in Nat
      /\ h \in Nat /\ h >= MinTimestamp /\ (~Windowed => h = MinTimestamp)
  <2>1. b \in 0 .. NumBatches - 1
    BY <1>1, <1>2, CurrentBatch
  <2> QED BY <1>1, <2>1, TimeFacts
<1>5. Min(Batch(b)) = first /\ first <= last
  BY <1>1, <1>4, BatchNotEmpty
<1>6. /\ BatchStart(b) \in Nat \ {0} /\ last \in DOMAIN edges /\ last \in Nat
      /\ BatchStart(b) <= last /\ last <= Len(edges)
      /\ Len(edges) \in Nat /\ DOMAIN edges = 1 .. Len(edges)
  BY <1>1, <1>4, BatchFacts DEF Dataset
<1>7. /\ first \in BatchStart(b) .. last + 1
      /\ \A i \in BatchStart(b) .. last : edges[i].timestamp >= h => first <= i
  BY <1>1, <1>4, <1>6, FilterFacts
<1>8. \A i \in DOMAIN edges : edges[i].timestamp \in Nat /\ edges[i].timestamp >= MinTimestamp
  <2> SUFFICES ASSUME NEW i \in DOMAIN edges
               PROVE  edges[i].timestamp \in Nat /\ edges[i].timestamp >= MinTimestamp
    OBVIOUS
  <2>1. edges[i] \in Edges /\ MinTimestamp <= edges[i].timestamp /\ MinTimestamp \in Nat
    BY <1>1, TimeFacts
  <2>2. edges[i].timestamp \in Nat
    BY <2>1 DEF Edges
  <2> QED BY <2>1, <2>2
<1>9. /\ RefGraph(kept)
      /\ \A k : \A ts \in Nat : Covers(reference, k, ts) /\ ts >= h => Covers(kept, k, ts)
  <2>1. RefGraph(reference)
    BY DEF RefInv
  <2> HIDE DEF h
  <2> QED BY <1>4, <2>1, DeleteOlderFacts
<1> HIDE DEF b, first, last, h, kept
<1>10. /\ RefGraph(reference')
       /\ \A k : \A ts \in Nat : Covers(kept, k, ts) => Covers(reference', k, ts)
       /\ \A i \in first .. last : Covers(reference', Ends(edges[i]), edges[i].timestamp)
  <2>1. first \in Nat \ {0} /\ first <= last + 1
    BY <1>5, <1>6, <1>7
  <2> QED BY <1>1, <1>2, <1>5, <1>6, <1>9, <2>1, InsertSpan
<1>11. ASSUME NEW i \in 1 .. last, edges[i].timestamp >= h
       PROVE  Covers(reference', Ends(edges[i]), edges[i].timestamp)
  <2>1. CASE i >= BatchStart(b)
    <3>1. i \in first .. last
      BY <1>6, <1>7, <1>11, <2>1
    <3> QED BY <1>10, <3>1
  <2>2. CASE ~(i >= BatchStart(b))
    <3>1. b # 0
      <4>1. 0 * BatchSize = 0
        BY <1>1 DEF Dataset
      <4> QED BY <1>6, <2>2, <4>1 DEF BatchStart
    <3>2. b \in 1 .. NumBatches - 1
      BY <1>4, <3>1
    <3>3. /\ Threshold(b - 1) <= h /\ BatchEnd(b - 1) + 1 = BatchStart(b)
          /\ b - 1 \in 0 .. NumBatches - 1
      BY <1>1, <3>2, ThresholdGrows DEF h
    <3>4. Threshold(b - 1) \in Nat /\ BatchEnd(b - 1) \in Nat
      BY <1>1, <1>6, <3>3, TimeFacts, BatchFacts
    <3>5. i \in 1 .. BatchEnd(b - 1)
      BY <1>6, <2>2, <3>3, <3>4
    <3>6. edges[i].timestamp \in Nat
      BY <1>6, <1>8
    <3>7. edges[i].timestamp >= Threshold(b - 1)
      BY <1>4, <1>11, <3>3, <3>4, <3>6
    <3>8. PrefixCovered(reference, b - 1)
      BY <1>2, <1>4, <3>1 DEF RefInv, b
    <3>9. Covers(reference, Ends(edges[i]), edges[i].timestamp)
      BY <3>5, <3>7, <3>8 DEF PrefixCovered
    <3>10. Covers(kept, Ends(edges[i]), edges[i].timestamp)
      BY <1>9, <1>11, <3>6, <3>9
    <3> QED BY <1>10, <3>6, <3>10
  <2> QED BY <2>1, <2>2
<1>12. ASSUME NEW e \in snapshot'
       PROVE  Ends(e) \in DOMAIN reference'
  <2> DEFINE start == FilteredStart(1, b)
  <2>1. PICK i \in start .. last : e = edges[i]
    <3>1. snapshot' \subseteq {edges[i] : i \in start .. last}
      BY <1>2 DEF Snapshots, Deduplicated, last
    <3> HIDE DEF start
    <3> QED BY <1>12, <3>1
  <2>3. i \in 1 .. last /\ edges[i].timestamp >= h
    <3>1. 1 \in Nat \ {0} /\ 1 <= last
      BY <1>6
    <3> QED BY <1>1, <1>4, <2>1, <3>1, FilteredIsNew DEF last, h
  <2>5. Covers(reference', Ends(edges[i]), edges[i].timestamp)
    BY <1>11, <2>3
  <2> QED BY <2>1, <2>5 DEF Covers
<1>13. PrefixCovered(reference, batch_id - 1)'
  <2>1. batch_id' - 1 = b
    BY <1>2, <1>4
  <2>2. PrefixCovered(reference', b)
    BY <1>11 DEF PrefixCovered, last, h
  <2>3. BatchEnd(batch_id - 1)' = BatchEnd(b) /\ Threshold(batch_id - 1)' = Threshold(b)
    BY <1>3, <2>1 DEF BatchEnd, Threshold, MinTimestamp, Ref!Later
  <2> QED BY <1>3, <2>2, <2>3 DEF PrefixCovered, Covers, Ends
<1>14. RefGraph(reference)'
  BY <1>10 DEF RefGraph
<1>15. sort_mode' # "UNSORTED"
  BY <1>2, <1>3
<1> QED BY <1>3, <1>12, <1>13, <1>14, <1>15 DEF RefInv, Ends

LEMMA RefAlways == Spec => []RefInv
<1>1. ASSUME IInv, RefInv, [Next]_vars
      PROVE  RefInv'
  <2>1. SetupOK
    BY <1>1 DEF IInv
  <2>2. CASE UNCHANGED vars
    <3>1. UNCHANGED <<setup, lists, snapshot, batch_id, reference, phase, next, inflight>>
      BY <2>2 DEF vars
    <3>2. BatchFirst' = BatchFirst
      BY <3>1, SameBatch
    <3>3. edges' = edges
      BY <3>1 DEF setup
    <3>4. \A k : \A ts : HandedOut(k, ts) => HandedOut(k, ts)'
      BY <3>1, <3>2, <3>3 DEF HandedOut
    <3>5. \A c \in inflight' : c.edge \in (BatchFirst .. next - 1)'
      BY <1>1, <3>1, <3>2 DEF RefInv
    <3> QED BY <1>1, <2>1, <3>1, <3>4, <3>5, SameKnown
  <2>3. CASE BeforeBatch
    <3>1. UNCHANGED <<setup, lists, snapshot, batch_id, reference, inflight>> /\ phase = "before_batch"
      BY <2>3 DEF BeforeBatch
    <3>2. inflight = {}
      BY <1>1, <3>1 DEF IInv, InflightOK
    <3>3. \A k : \A ts : HandedOut(k, ts) => HandedOut(k, ts)'
      BY <3>1 DEF HandedOut
    <3>4. \A c \in inflight' : c.edge \in (BatchFirst .. next - 1)'
      BY <3>1, <3>2
    <3> QED BY <1>1, <2>1, <3>1, <3>3, <3>4, SameKnown
  <2>4. CASE Delete
    BY <1>1, <2>4, DeleteRef
  <2>5. CASE Take
    BY <1>1, <2>5, TakeRef
  <2>6. CASE EndBatch
    BY <1>1, <2>6, EndBatchRef
  <2>7. CASE Construct
    BY <1>1, <2>7, ConstructRef
  <2>8. ASSUME NEW c \in inflight, InsertHalf(c)
        PROVE  RefInv'
    BY <1>1, <2>8, InsertHalfRef
  <2> QED BY <1>1, <2>2, <2>3, <2>4, <2>5, <2>6, <2>7, <2>8 DEF Next, Done
<1>2. Init => RefInv
  BY InitRef
<1> QED BY <1>1, <1>2, Invariant, PTL DEF Spec

\* Between parallel loops no edge of the batch has been handed out.
LEMMA AtRestMeans ==
  ASSUME Dataset, ControlOK, AtRest
  PROVE  /\ inflight = {}
         /\ phase = "insertions" => next = BatchFirst /\ BatchFirst .. next - 1 = {}
<1>1. inflight = {}
  BY DEF AtRest
<1>2. ASSUME phase = "insertions"
      PROVE  next = BatchFirst /\ BatchFirst .. next - 1 = {}
  <2>1. /\ Batch(batch_id) = BatchFirst .. BatchLast /\ BatchFirst \in Nat \ {0} /\ BatchLast \in Nat
        /\ BatchFirst <= BatchLast + 1 /\ next \in BatchFirst .. BatchLast + 1
    BY <1>2, CurrentBatch DEF ControlOK
  <2> DEFINE A == (BatchFirst .. BatchLast) \cup {next}
  <2>2. A \in SUBSET Nat /\ BatchFirst \in A
    BY <2>1
  <2>3. next = Min(A)
    BY <1>2, <2>1 DEF AtRest
  <2>4. next <= BatchFirst
    <3> HIDE DEF A
    <3> QED BY <2>2, <2>3, MinOf
  <2> HIDE DEF A
  <2> QED BY <2>1, <2>4
<1> QED BY <1>1, <1>2

LEMMA NoStale ==
  ASSUME IInv, RefInv
  PROVE  NoStaleEdge
<1> SUFFICES ASSUME AtRest, NEW e \in OutEdges(lists)
             PROVE  e \in DOMAIN reference
  BY DEF NoStaleEdge, RefEdges
<1>1. SetupOK /\ ControlOK /\ UpdatedOK /\ LoadedOK /\ Dataset
  BY DatasetFacts DEF IInv
<1>2. e \in Vertices \X Vertices /\ e[2] \in Neighbors(lists[e[1]], "OUT") /\ e = <<e[1], e[2]>>
  BY DEF OutEdges
<1>3. CASE sort_mode = "SNAPSHOT"
  <2>1. SnapshotOK(snapshot) /\ lists = [v \in Vertices |-> LoadedList(snapshot, v)]
    BY <1>1, <1>3, SnapshotIsOK DEF LoadedOK
  <2>2. HasEdge(snapshot, e[1], e[2])
    BY <2>1, LoadedEdges
  <2>3. PICK f \in snapshot : f.src = e[1] /\ f.dst = e[2]
    BY <2>2 DEF HasEdge
  <2> QED BY <1>2, <1>3, <2>3 DEF RefInv, Ends
<1>4. CASE sort_mode = "UNSORTED"
  <2>1. PICK i \in DOMAIN lists[e[1]] : "OUT" \in lists[e[1]][i].dirs /\ lists[e[1]][i].neighbor = e[2]
    BY <1>2 DEF Neighbors
  <2>2. Known(e, lists[e[1]][i].timeRecent)
    BY <1>2, <1>4, <2>1 DEF RefInv, SlotsKnown
  <2>3. ~HandedOut(e, lists[e[1]][i].timeRecent)
    BY <1>1, AtRestMeans DEF HandedOut
  <2> QED BY <2>2, <2>3 DEF Known, Covers
<1> QED BY <1>1, <1>3, <1>4 DEF Dataset

\* Under any window, with any number of threads and in both sort modes, every
\* edge of the graph between parallel loops is in the graph of the reference
\* implementation: deleteOlderThan leaves no slot of an edge the reference
\* deletes, neither when it visits a slot of both directions nor when the slot
\* was reused, and a snapshot takes nothing from before the window.
THEOREM NoStaleEdgeHolds == Spec => []NoStaleEdge
BY NoStale, Invariant, RefAlways, PTL

-----------------------------------------------------------------------------
(* Sums.                                                                   *)

\* Induction up to n.
LEMMA UpTo ==
  ASSUME NEW n \in Nat, NEW S, 0 \in S, \A i \in 1 .. n : i - 1 \in S => i \in S
  PROVE  n \in S
<1> DEFINE A == {i \in 0 .. n : i \notin S}
<1> SUFFICES ASSUME A # {} PROVE FALSE
  OBVIOUS
<1> DEFINE m == Min(A)
<1>1. A \in SUBSET Nat
  OBVIOUS
<1>2. m \in A /\ \A x \in A : m <= x
  <2> HIDE DEF A
  <2> QED BY <1>1, MinOf
<1>3. m \in 0 .. n /\ m \notin S /\ m \in Nat
  BY <1>2
<1>4. m - 1 \in 0 .. n /\ m \in 1 .. n
  <2> HIDE DEF m
  <2> QED BY <1>3
<1>5. m - 1 \in S
  <2>1. m - 1 \notin A
    <3> HIDE DEF A, m
    <3> QED BY <1>2, <1>3
  <2> HIDE DEF m
  <2> QED BY <1>4, <2>1
<1> HIDE DEF A, m
<1> QED BY <1>3, <1>4, <1>5

\* The partial sums of inc.
IsSum(f, inc, n) == f = [i \in 0 .. n |-> IF i = 0 THEN 0 ELSE f[i - 1] + inc[i]]

SumTo(inc, n) == (CHOOSE f : IsSum(f, inc, n))[n]

LEMMA SumExists ==
  ASSUME NEW inc, NEW n \in Nat
  PROVE  \E f : IsSum(f, inc, n)
<1> DEFINE S == {m \in 0 .. n : \E f : IsSum(f, inc, m)}
<1>1. 0 \in S
  <2> DEFINE f == [i \in 0 .. 0 |-> 0]
  <2>1. f = [i \in 0 .. 0 |-> IF i = 0 THEN 0 ELSE f[i - 1] + inc[i]]
    OBVIOUS
  <2>2. IsSum(f, inc, 0)
    BY <2>1 DEF IsSum
  <2> HIDE DEF f
  <2> QED BY <2>2
<1>2. ASSUME NEW m \in 1 .. n, m - 1 \in S
      PROVE  m \in S
  <2>1. PICK f : IsSum(f, inc, m - 1)
    BY <1>2
  <2>2. f = [i \in 0 .. m - 1 |-> IF i = 0 THEN 0 ELSE f[i - 1] + inc[i]]
    BY <2>1 DEF IsSum
  <2> DEFINE h == [i \in 0 .. m |-> IF i < m THEN f[i] ELSE f[m - 1] + inc[m]]
  <2>3. \A i \in 0 .. m - 1 : h[i] = f[i]
    OBVIOUS
  <2>4. \A i \in 0 .. m - 1 : f[i] = IF i = 0 THEN 0 ELSE f[i - 1] + inc[i]
    BY <2>2
  <2>5. h[m] = f[m - 1] + inc[m]
    OBVIOUS
  <2>6. h = [i \in 0 .. m |-> h[i]]
    OBVIOUS
  <2> HIDE DEF h
  <2>7. ASSUME NEW i \in 0 .. m
        PROVE  h[i] = IF i = 0 THEN 0 ELSE h[i - 1] + inc[i]
    <3>1. CASE i = m
      <4>1. m - 1 \in 0 .. m - 1
        OBVIOUS
      <4> QED BY <2>3, <2>5, <3>1, <4>1
    <3>2. CASE i # m
      <4>1. i \in 0 .. m - 1 /\ (i # 0 => i - 1 \in 0 .. m - 1)
        BY <3>2
      <4> QED BY <2>3, <2>4, <4>1
    <3> QED BY <3>1, <3>2
  <2>8. h = [i \in 0 .. m |-> IF i = 0 THEN 0 ELSE h[i - 1] + inc[i]]
    BY <2>6, <2>7
  <2>9. IsSum(h, inc, m)
    BY <2>8 DEF IsSum
  <2> QED BY <2>9
<1>3. n \in S
  <2> HIDE DEF S
  <2> QED BY <1>1, <1>2, UpTo
<1> QED BY <1>3

LEMMA SumFacts ==
  ASSUME NEW n \in Nat, NEW inc, \A i \in 1 .. n : inc[i] \in Nat, NEW f, IsSum(f, inc, n)
  PROVE  /\ f[0] = 0 /\ \A i \in 1 .. n : f[i] = f[i - 1] + inc[i]
         /\ \A i \in 0 .. n : f[i] \in Nat
<1>1. \A i \in 0 .. n : f[i] = IF i = 0 THEN 0 ELSE f[i - 1] + inc[i]
  BY DEF IsSum
<1>2. f[0] = 0 /\ \A i \in 1 .. n : f[i] = f[i - 1] + inc[i]
  BY <1>1
<1>3. ASSUME NEW i \in 0 .. n
      PROVE  f[i] \in Nat
  <2> DEFINE S == {m \in 0 .. i : f[m] \in Nat}
  <2>1. 0 \in S /\ \A m \in 1 .. i : m - 1 \in S => m \in S
    BY <1>2
  <2>2. i \in S
    <3> HIDE DEF S
    <3> QED BY <2>1, UpTo
  <2> QED BY <2>2
<1> QED BY <1>2, <1>3

\* One more of x at j.
Bumped(inc, inc2, n, j, x) ==
  /\ \A i \in 1 .. n : inc[i] \in Nat
  /\ \A i \in 1 .. n : inc2[i] = IF i = j THEN inc[i] + x ELSE inc[i]

LEMMA SumBump ==
  ASSUME NEW n \in Nat, NEW inc, NEW inc2, NEW j \in 1 .. n, NEW x \in Nat,
         Bumped(inc, inc2, n, j, x),
         NEW f, IsSum(f, inc, n), NEW g, IsSum(g, inc2, n)
  PROVE  f[n] \in Nat /\ g[n] = f[n] + x
<1>1. /\ \A i \in 1 .. n : inc[i] \in Nat /\ inc2[i] \in Nat
      /\ \A i \in 1 .. n : inc2[i] = IF i = j THEN inc[i] + x ELSE inc[i]
  BY DEF Bumped
<1>2. /\ f[0] = 0 /\ \A i \in 1 .. n : f[i] = f[i - 1] + inc[i]
      /\ \A i \in 0 .. n : f[i] \in Nat
  BY <1>1, SumFacts
<1>3. /\ g[0] = 0 /\ \A i \in 1 .. n : g[i] = g[i - 1] + inc2[i]
      /\ \A i \in 0 .. n : g[i] \in Nat
  BY <1>1, SumFacts
<1> DEFINE S == {m \in 0 .. n : g[m] = f[m] + (IF m >= j THEN x ELSE 0)}
<1>4. 0 \in S
  BY <1>2, <1>3
<1>5. ASSUME NEW i \in 1 .. n, i - 1 \in S
      PROVE  i \in S
  <2>1. i - 1 \in 0 .. n /\ f[i - 1] \in Nat /\ inc[i] \in Nat
    BY <1>1, <1>2
  <2>2. g[i - 1] = f[i - 1] + (IF i - 1 >= j THEN x ELSE 0)
    BY <1>5
  <2>3. g[i] = g[i - 1] + inc2[i] /\ f[i] = f[i - 1] + inc[i] /\ inc2[i] = IF i = j THEN inc[i] + x ELSE inc[i]
    BY <1>1, <1>2, <1>3
  <2>4. g[i] = f[i] + (IF i >= j THEN x ELSE 0)
    <3>1. CASE i = j
      BY <2>1, <2>2, <2>3, <3>1
    <3>2. CASE i < j
      BY <2>1, <2>2, <2>3, <3>2
    <3>3. CASE i > j
      BY <2>1, <2>2, <2>3, <3>3
    <3> QED BY <3>1, <3>2, <3>3
  <2> QED BY <2>4
<1>6. n \in S
  <2> HIDE DEF S
  <2> QED BY <1>4, <1>5, UpTo
<1> QED BY <1>2, <1>6

LEMMA SumOf ==
  ASSUME NEW n \in Nat, NEW inc
  PROVE  \E f : IsSum(f, inc, n) /\ SumTo(inc, n) = f[n]
<1>1. IsSum(CHOOSE f : IsSum(f, inc, n), inc, n)
  BY SumExists
<1> QED BY <1>1 DEF SumTo

LEMMA SumToBump ==
  ASSUME NEW n \in Nat, NEW inc, NEW inc2, NEW j \in 1 .. n, NEW x \in Nat,
         Bumped(inc, inc2, n, j, x)
  PROVE  SumTo(inc, n) \in Nat /\ SumTo(inc2, n) = SumTo(inc, n) + x
<1>1. PICK f : IsSum(f, inc, n) /\ SumTo(inc, n) = f[n]
  BY SumOf
<1>2. PICK g : IsSum(g, inc2, n) /\ SumTo(inc2, n) = g[n]
  BY SumOf
<1>3. f[n] \in Nat /\ g[n] = f[n] + x
  BY <1>1, <1>2, SumBump
<1> QED BY <1>1, <1>2, <1>3

LEMMA SumToNone ==
  ASSUME NEW n \in Nat, NEW inc, \A i \in 1 .. n : inc[i] = 0
  PROVE  SumTo(inc, n) = 0
<1>1. PICK f : IsSum(f, inc, n) /\ SumTo(inc, n) = f[n]
  BY SumOf
<1>2. f[0] = 0 /\ \A i \in 1 .. n : f[i] = f[i - 1] + inc[i]
  BY <1>1, SumFacts
<1> DEFINE S == {m \in 0 .. n : f[m] = 0}
<1>3. 0 \in S /\ \A i \in 1 .. n : i - 1 \in S => i \in S
  BY <1>2
<1>4. n \in S
  <2> HIDE DEF S
  <2> QED BY <1>3, UpTo
<1> QED BY <1>1, <1>4

PerSource(inc, E, n) == \A i \in 1 .. n : inc[i] = Cardinality({e \in E : e[1] = i - 1})

\* A set of edges is counted by its sources.
LEMMA CountBySource ==
  ASSUME NEW E, IsFiniteSet(E), \A e \in E : e[1] \in Nat, NEW n \in Nat,
         NEW inc, PerSource(inc, E, n),
         NEW f, IsSum(f, inc, n)
  PROVE  f[n] = Cardinality({e \in E : e[1] < n})
<1> DEFINE From(i) == {e \in E : e[1] = i}
           Below(i) == {e \in E : e[1] < i}
<1>1. \A i : From(i) \in SUBSET E /\ Below(i) \in SUBSET E
  OBVIOUS
<1>2. \A i : /\ IsFiniteSet(From(i)) /\ Cardinality(From(i)) \in Nat
             /\ IsFiniteSet(Below(i)) /\ Cardinality(Below(i)) \in Nat
  <2> HIDE DEF From, Below
  <2> QED BY <1>1, FS_Subset, FS_CardinalityType
<1>3. /\ f[0] = 0 /\ \A i \in 1 .. n : f[i] = f[i - 1] + inc[i]
      /\ \A i \in 0 .. n : f[i] \in Nat
  <2>1. \A i \in 1 .. n : inc[i] = Cardinality(From(i - 1))
    BY DEF PerSource
  <2>2. \A i \in 1 .. n : inc[i] \in Nat
    <3> HIDE DEF From
    <3> QED BY <1>2, <2>1
  <2> QED BY <2>2, SumFacts
<1> DEFINE S == {m \in 0 .. n : f[m] = Cardinality(Below(m))}
<1>4. 0 \in S
  <2>1. Below(0) = {}
    OBVIOUS
  <2>2. f[0] = Cardinality(Below(0))
    <3> HIDE DEF Below
    <3> QED BY <1>3, <2>1, FS_EmptySet
  <2> QED BY <2>2
<1>5. ASSUME NEW i \in 1 .. n, i - 1 \in S
      PROVE  i \in S
  <2>1. Below(i) = Below(i - 1) \cup From(i - 1) /\ Below(i - 1) \cap From(i - 1) = {}
    <3>1. \A e \in E : e[1] < i <=> e[1] < i - 1 \/ e[1] = i - 1
      OBVIOUS
    <3>2. \A e \in E : ~(e[1] < i - 1 /\ e[1] = i - 1)
      OBVIOUS
    <3> QED BY <3>1, <3>2
  <2>2. inc[i] = Cardinality(From(i - 1)) /\ f[i - 1] = Cardinality(Below(i - 1))
    BY <1>5 DEF PerSource
  <2> HIDE DEF Below, From
  <2>3. Cardinality(Below(i)) = Cardinality(Below(i - 1)) + Cardinality(From(i - 1)) - Cardinality(Below(i - 1) \cap From(i - 1))
    BY <1>2, <2>1, FS_Union
  <2>4. Cardinality(Below(i - 1) \cap From(i - 1)) = 0
    BY <2>1, FS_EmptySet
  <2> QED BY <1>2, <1>3, <2>2, <2>3, <2>4
<1>6. n \in S
  <2> HIDE DEF S
  <2> QED BY <1>4, <1>5, UpTo
<1> QED BY <1>6

-----------------------------------------------------------------------------
(* Weights, and where the entries of the reference come from.              *)

WeightIn(g, k) == IF k \in DOMAIN g THEN g[k].weight ELSE 0

\* What the entries D of the dataset add to the weight of the edge k.
Share(k, D) == [i \in 1 .. Len(edges) |-> IF i \in D /\ Ends(edges[i]) = k THEN edges[i].weight ELSE 0]
Total(k, D) == SumTo(Share(k, D), Len(edges))

LEMMA TotalFacts ==
  ASSUME Dataset, NEW k
  PROVE  /\ Total(k, {}) = 0
         /\ \A D : \A j \in 1 .. Len(edges) :
              j \notin D =>
                /\ Total(k, D) \in Nat
                /\ Total(k, D \cup {j}) = Total(k, D) + (IF Ends(edges[j]) = k THEN edges[j].weight ELSE 0)
<1> DEFINE n == Len(edges)
<1>1. n \in Nat /\ \A i \in 1 .. n : edges[i].weight \in Nat
  <2>1. n \in Nat /\ DOMAIN edges = 1 .. n
    BY DEF Dataset
  <2>2. \A i \in 1 .. n : edges[i] \in Edges
    BY <2>1, TimeFacts
  <2> HIDE DEF n
  <2> QED BY <2>1, <2>2 DEF Edges
<1>2. \A D : \A i \in 1 .. n : Share(k, D)[i] = IF i \in D /\ Ends(edges[i]) = k THEN edges[i].weight ELSE 0
  BY DEF Share
<1>3. \A D : Total(k, D) = SumTo(Share(k, D), n)
  BY DEF Total
<1> HIDE DEF n
<1>4. Total(k, {}) = 0
  BY <1>1, <1>2, <1>3, SumToNone
<1>5. ASSUME NEW D, NEW j \in 1 .. n, j \notin D
      PROVE  /\ Total(k, D) \in Nat
             /\ Total(k, D \cup {j}) = Total(k, D) + (IF Ends(edges[j]) = k THEN edges[j].weight ELSE 0)
  <2> DEFINE x == IF Ends(edges[j]) = k THEN edges[j].weight ELSE 0
             inc == Share(k, D)
             inc2 == Share(k, D \cup {j})
  <2>1. x \in Nat
    BY <1>1
  <2>2. \A i \in 1 .. n : inc[i] \in Nat
    BY <1>1, <1>2
  <2>3. ASSUME NEW i \in 1 .. n
        PROVE  inc2[i] = IF i = j THEN inc[i] + x ELSE inc[i]
    <3>1. CASE i = j
      <4>1. inc2[i] = x /\ inc[i] = 0
        BY <1>2, <1>5, <3>1
      <4> HIDE DEF x, inc, inc2
      <4> QED BY <2>1, <3>1, <4>1
    <3>2. CASE i # j
      BY <1>2, <3>2
    <3> QED BY <3>1, <3>2
  <2> HIDE DEF x, inc, inc2
  <2>5. Bumped(inc, inc2, n, j, x)
    BY <2>2, <2>3 DEF Bumped
  <2>4. SumTo(inc, n) \in Nat /\ SumTo(inc2, n) = SumTo(inc, n) + x
    BY <1>1, <2>1, <2>5, SumToBump
  <2> QED BY <1>3, <2>4 DEF x, inc, inc2
<1> QED BY <1>4, <1>5 DEF n

LEMMA InsertEdgeMore ==
  ASSUME NEW g, RefGraph(g), NEW e \in Edges
  PROVE  /\ \A k : WeightIn(g, k) \in Nat
         /\ \A k : WeightIn(Ref!InsertEdge(g, e), k) =
                     WeightIn(g, k) + (IF Ends(e) = k THEN e.weight ELSE 0)
         /\ \A k \in DOMAIN Ref!InsertEdge(g, e) :
              \/ k \in DOMAIN g /\ Ref!InsertEdge(g, e)[k].timestamp = g[k].timestamp
              \/ k = Ends(e) /\ Ref!InsertEdge(g, e)[k].timestamp = e.timestamp
<1> DEFINE key == Ends(e)
           first == [weight |-> e.weight, timestamp |-> e.timestamp]
           more == [weight |-> g[key].weight + e.weight,
                    timestamp |-> Ref!Later(g[key].timestamp, e.timestamp)]
           new == key \notin DOMAIN g \/ g[key].weight = -1
           r == Ref!InsertEdge(g, e)
<1>1. e.weight \in Nat
  BY DEF Edges
<1>2. r = [k \in DOMAIN g \cup {key} |-> IF k # key THEN g[k] ELSE IF new THEN first ELSE more]
  BY DEF Ref!InsertEdge, Ends
<1>3. \A k \in DOMAIN g : g[k].weight \in Nat
  <2>1. \A x \in Entries : x.weight \in Nat
    BY DEF Entries
  <2> QED BY <2>1 DEF RefGraph
<1>4. key \in DOMAIN g => ~new
  <2>1. key \in DOMAIN g => g[key].weight # -1
    BY <1>3
  <2> QED BY <2>1
<1>5. /\ first.weight = e.weight /\ first.timestamp = e.timestamp
      /\ more.weight = g[key].weight + e.weight
      /\ more.timestamp = g[key].timestamp \/ more.timestamp = e.timestamp
  BY DEF Ref!Later
<1>6. key \notin DOMAIN g => new
  OBVIOUS
<1> HIDE DEF first, more, new, r
<1>7. \A k : WeightIn(g, k) \in Nat
  BY <1>3 DEF WeightIn
<1>8. DOMAIN r = DOMAIN g \cup {key} /\ (\A k \in DOMAIN g : k # key => r[k] = g[k])
      /\ r[key] = IF key \in DOMAIN g THEN more ELSE first
  BY <1>2, <1>4, <1>6
<1> HIDE DEF key
<1>9. ASSUME NEW k
      PROVE  WeightIn(r, k) = WeightIn(g, k) + (IF key = k THEN e.weight ELSE 0)
  <2>1. CASE k = key /\ k \in DOMAIN g
    BY <1>5, <1>8, <2>1 DEF WeightIn
  <2>2. CASE k = key /\ k \notin DOMAIN g
    <3>1. WeightIn(r, k) = e.weight /\ WeightIn(g, k) = 0
      BY <1>5, <1>8, <2>2 DEF WeightIn
    <3> QED BY <1>1, <2>2, <3>1
  <2>3. CASE k # key
    <3>1. WeightIn(r, k) = WeightIn(g, k)
      BY <1>8, <2>3 DEF WeightIn
    <3> QED BY <1>7, <2>3, <3>1
  <2> QED BY <2>1, <2>2, <2>3
<1>10. ASSUME NEW k \in DOMAIN r
       PROVE  \/ k \in DOMAIN g /\ r[k].timestamp = g[k].timestamp
              \/ k = key /\ r[k].timestamp = e.timestamp
  BY <1>5, <1>8
<1> QED BY <1>7, <1>9, <1>10 DEF r, key

\* An entry of the graph r made from g and the entries a to z of the dataset.
CameFrom(r, g, k, a, z) ==
  \/ k \in DOMAIN g /\ r[k].timestamp = g[k].timestamp
  \/ \E i \in a .. z : Ends(edges[i]) = k /\ edges[i].timestamp = r[k].timestamp

LEMMA SpanMore ==
  ASSUME Dataset, NEW g, RefGraph(g), NEW a \in Nat \ {0}, NEW z \in Nat, a <= z + 1, z <= Len(edges)
  PROVE  /\ \A k \in DOMAIN Ref!InsertBatch(g, SubSeq(edges, a, z)) :
              CameFrom(Ref!InsertBatch(g, SubSeq(edges, a, z)), g, k, a, z)
         /\ \A k : WeightIn(Ref!InsertBatch(g, SubSeq(edges, a, z)), k) =
                     WeightIn(g, k) + Total(k, a .. z)
<1> DEFINE s == SubSeq(edges, a, z)
           n == z - a + 1
           f == CHOOSE f : IsAfter(f, g, s, n)
<1>1. edges \in Seq(Edges) /\ Len(edges) \in Nat /\ n \in Nat
  BY DEF Dataset
<1>2. s = [i \in 1 .. n |-> edges[i + a - 1]]
  BY <1>1
<1>3. \A i \in 1 .. n : i + a - 1 \in 1 .. Len(edges) /\ i + a - 1 \in a .. z
  BY <1>1
<1>4. Len(s) = n /\ \A i \in 1 .. n : s[i] = edges[i + a - 1] /\ s[i] \in Edges
  <2>1. s \in Seq(Edges) /\ Len(s) = n
    <3>1. \A i \in 1 .. n : edges[i + a - 1] \in Edges
      BY <1>1, <1>3
    <3> HIDE DEF s, n
    <3> QED BY <1>1, <1>2, <3>1
  <2> HIDE DEF s, n
  <2> QED BY <1>1, <1>2, <1>3, <2>1
<1>5. Ref!InsertBatch(g, s) = f[n]
  <2> HIDE DEF s, n
  <2> QED BY <1>4 DEF Ref!InsertBatch, IsAfter, f
<1>6. IsAfter(f, g, s, n)
  <2> HIDE DEF n, s
  <2> QED BY <1>1, AfterExists
<1> HIDE DEF s, f
<1>7. f[0] = g /\ \A i \in 1 .. n : f[i] = Ref!InsertEdge(f[i - 1], edges[i + a - 1])
  <2> HIDE DEF n
  <2> QED BY <1>1, <1>4, <1>6 DEF IsAfter
<1> DEFINE P(m) == /\ RefGraph(f[m])
                   /\ \A k \in DOMAIN f[m] : CameFrom(f[m], g, k, a, m + a - 1)
                   /\ \A k : WeightIn(f[m], k) = WeightIn(g, k) + Total(k, a .. m + a - 1)
           S == {m \in 0 .. n : P(m)}
<1>8. 0 \in S
  <2>1. \A k \in DOMAIN f[0] : CameFrom(f[0], g, k, a, a - 1)
    BY <1>7 DEF CameFrom
  <2>2. ASSUME NEW k PROVE WeightIn(f[0], k) = WeightIn(g, k) + Total(k, a .. a - 1)
    <3>1. a .. a - 1 = {}
      OBVIOUS
    <3>2. Total(k, {}) = 0
      BY TotalFacts
    <3>3. WeightIn(g, k) \in Nat
      <4>1. \A x \in Entries : x.weight \in Nat
        BY DEF Entries
      <4> QED BY <4>1 DEF WeightIn, RefGraph
    <3> QED BY <1>7, <3>1, <3>2, <3>3
  <2>3. P(0)
    <3>1. 0 + a - 1 = a - 1
      OBVIOUS
    <3> QED BY <1>7, <2>1, <2>2, <3>1
  <2> QED BY <1>1, <2>3
<1>9. ASSUME NEW i \in 1 .. n, i - 1 \in S
      PROVE  i \in S
  <2> DEFINE j == i + a - 1
             e == edges[j]
  <2>1. P(i - 1)
    BY <1>9
  <2>2. j - 1 = (i - 1) + a - 1 /\ j \in 1 .. Len(edges) /\ j \in a .. z /\ e \in Edges
        /\ f[i] = Ref!InsertEdge(f[i - 1], e)
    BY <1>1, <1>3, <1>4, <1>7
  <2> HIDE DEF n
  <2>3. a .. j = (a .. j - 1) \cup {j} /\ j \notin a .. j - 1
    <3> HIDE DEF j
    <3> QED BY <2>2
  <2>4. /\ RefGraph(f[i - 1])
        /\ \A k \in DOMAIN f[i - 1] : CameFrom(f[i - 1], g, k, a, j - 1)
        /\ \A k : WeightIn(f[i - 1], k) = WeightIn(g, k) + Total(k, a .. j - 1)
    <3> HIDE DEF j
    <3> QED BY <2>1, <2>2
  <2> HIDE DEF P, S, j, e
  <2>5. RefGraph(f[i])
    BY <2>2, <2>4, InsertEdgeFacts
  <2>6. ASSUME NEW k \in DOMAIN f[i]
        PROVE  CameFrom(f[i], g, k, a, j)
    <3>1. \/ k \in DOMAIN f[i - 1] /\ f[i][k].timestamp = f[i - 1][k].timestamp
          \/ k = Ends(e) /\ f[i][k].timestamp = e.timestamp
      BY <2>2, <2>4, InsertEdgeMore
    <3>2. CASE k \in DOMAIN f[i - 1] /\ f[i][k].timestamp = f[i - 1][k].timestamp
      <4>1. CameFrom(f[i - 1], g, k, a, j - 1)
        BY <2>4, <3>2
      <4> QED BY <2>3, <3>2, <4>1 DEF CameFrom
    <3>3. CASE k = Ends(e) /\ f[i][k].timestamp = e.timestamp
      BY <2>3, <3>3 DEF CameFrom, e
    <3> QED BY <3>1, <3>2, <3>3
  <2>7. ASSUME NEW k
        PROVE  WeightIn(f[i], k) = WeightIn(g, k) + Total(k, a .. j)
    <3> DEFINE x == IF Ends(e) = k THEN e.weight ELSE 0
    <3>1. WeightIn(f[i], k) = WeightIn(f[i - 1], k) + x
      BY <2>2, <2>4, InsertEdgeMore
    <3>2. Total(k, a .. j) = Total(k, a .. j - 1) + x /\ Total(k, a .. j - 1) \in Nat
      <4>1. /\ Total(k, a .. j - 1) \in Nat
            /\ Total(k, (a .. j - 1) \cup {j}) = Total(k, a .. j - 1) +
                 (IF Ends(edges[j]) = k THEN edges[j].weight ELSE 0)
        BY <2>2, <2>3, TotalFacts
      <4>2. Total(k, a .. j) = Total(k, (a .. j - 1) \cup {j})
        BY <2>3
      <4> QED BY <4>1, <4>2 DEF e
    <3>3. WeightIn(g, k) \in Nat /\ x \in Nat
      BY <2>2, InsertEdgeMore DEF Edges
    <3> HIDE DEF x
    <3> QED BY <2>4, <3>1, <3>2, <3>3
  <2>8. P(i)
    BY <2>5, <2>6, <2>7 DEF P, j
  <2> QED BY <2>8 DEF S
<1>10. n \in S
  <2> HIDE DEF S, n
  <2> QED BY <1>1, <1>8, <1>9, UpTo
<1>11. P(n)
  BY <1>10
<1>12. n + a - 1 = z
  OBVIOUS
<1> HIDE DEF n
<1> QED BY <1>5, <1>11, <1>12 DEF s

-----------------------------------------------------------------------------
(* What an update does to the weights of a list without blank slots, and   *)
(* to the time of the slot it is about.                                    *)

NoBlank(l) == \A i \in DOMAIN l : l[i].neighbor # Blank

SlotWeight(l, m) == IF SlotsOf(l, m) = {} THEN 0 ELSE l[Min(SlotsOf(l, m))].weight

LEMMA SlotWeightIs ==
  ASSUME NEW t, NEW l, ListOK(l, t), NEW m \in Vertices
  PROVE  /\ \A i \in DOMAIN l : l[i].neighbor = m => SlotWeight(l, m) = l[i].weight
         /\ (\A i \in DOMAIN l : l[i].neighbor # m) => SlotWeight(l, m) = 0
<1>1. l \in Seq(Slots) /\ SlotsOf(l, m) \in SUBSET Nat
  BY DEF ListOK, SlotsOf
<1>2. m # Blank
  BY DatasetAssumption DEF Blank
<1>3. ASSUME NEW i \in DOMAIN l, l[i].neighbor = m
      PROVE  SlotWeight(l, m) = l[i].weight
  <2>1. SlotsOf(l, m) # {}
    BY <1>3 DEF SlotsOf
  <2>2. Min(SlotsOf(l, m)) \in SlotsOf(l, m)
    BY <1>1, <2>1, MinOf
  <2>3. \A j \in SlotsOf(l, m) : j = i
    BY <1>2, <1>3 DEF SlotsOf, ListOK
  <2> QED BY <2>1, <2>2, <2>3 DEF SlotWeight
<1>4. (\A i \in DOMAIN l : l[i].neighbor # m) => SlotWeight(l, m) = 0
  BY DEF SlotWeight, SlotsOf
<1> QED BY <1>3, <1>4

LEMMA UpdateMore ==
  ASSUME NEW t \in Nat, NEW l, ListOK(l, t), NEW n \in Vertices, NEW d \in {"OUT", "IN"},
         NEW w \in Nat, NEW ts \in Nat, ts >= t
  PROVE  /\ d = "OUT" => \A i \in DOMAIN Update(l, n, d, w, ts) :
              Update(l, n, d, w, ts)[i].neighbor = n => Update(l, n, d, w, ts)[i].timeRecent = ts
         /\ NoBlank(l) =>
              /\ NoBlank(Update(l, n, d, w, ts))
              /\ \A m \in Vertices :
                   SlotWeight(Update(l, n, d, w, ts), m) =
                     SlotWeight(l, m) + (IF m = n /\ d = "OUT" THEN w ELSE 0)
<1> DEFINE same == SlotsOf(l, n)
           free == SlotsOf(l, Blank)
           l2 == Update(l, n, d, w, ts)
<1>1. l \in Seq(Slots) /\ DOMAIN l \in SUBSET Nat /\ \A i \in DOMAIN l : l[i] \in Slots /\ SlotOK(l[i], t)
  BY DEF ListOK
<1>2. same \in SUBSET DOMAIN l /\ free \in SUBSET DOMAIN l
  BY DEF SlotsOf
<1>3. n # Blank
  BY DatasetAssumption DEF Blank
<1>4. \A i \in DOMAIN l : l[i].weight \in Nat
  BY <1>1 DEF Slots
<1>5. ListOK(l2, t)
  BY UpdateFacts
<1>6. \A s, x : /\ Written(s, n, d, x, ts).neighbor = n
                /\ Written(s, n, d, x, ts).weight = IF d = "OUT" THEN x ELSE s.weight
                /\ d = "OUT" => Written(s, n, d, x, ts).timeRecent = ts
  BY DEF Written
<1>7. \A m \in Vertices : SlotWeight(l, m) \in Nat
  <2> SUFFICES ASSUME NEW m \in Vertices PROVE SlotWeight(l, m) \in Nat
    OBVIOUS
  <2>1. CASE \E i \in DOMAIN l : l[i].neighbor = m
    BY <1>4, <2>1, SlotWeightIs
  <2>2. CASE ~(\E i \in DOMAIN l : l[i].neighbor = m)
    BY <2>2, SlotWeightIs
  <2> QED BY <2>1, <2>2
\* The slot i of the new list is the one of n, and the others are the old ones.
<1> DEFINE Changes(i, added) ==
             /\ i \in DOMAIN l2 /\ l2[i].neighbor = n
             /\ d = "OUT" => l2[i].timeRecent = ts
             /\ \A j \in DOMAIN l2 : j # i => j \in DOMAIN l /\ l2[j] = l[j]
             /\ \A j \in DOMAIN l : j # i => j \in DOMAIN l2 /\ l2[j] = l[j]
             /\ added => l2[i].weight = SlotWeight(l, n) + (IF d = "OUT" THEN w ELSE 0)
             /\ i \in DOMAIN l => l[i].neighbor \in {n, Blank}
<1>8. ASSUME same # {}
      PROVE  \E i : Changes(i, NoBlank(l))
  <2> DEFINE i == Min(same)
             s == Written(l[i], n, d, l[i].weight + w, ts)
  <2>1. i \in same
    BY <1>1, <1>2, <1>8, MinOf
  <2>2. i \in DOMAIN l /\ l[i].neighbor = n
    BY <2>1 DEF SlotsOf
  <2>3. l2 = Put(l, i, s)
    BY <1>8 DEF Update, Put
  <2>4. /\ s.neighbor = n /\ (d = "OUT" => s.timeRecent = ts)
        /\ s.weight = IF d = "OUT" THEN l[i].weight + w ELSE l[i].weight
    BY <1>6
  <2>5. SlotWeight(l, n) = l[i].weight /\ l[i].weight \in Nat
    BY <1>4, <2>2, SlotWeightIs
  <2> HIDE DEF i, s, l2, same
  <2>6. DOMAIN l2 = DOMAIN l /\ \A j \in DOMAIN l : l2[j] = IF j = i THEN s ELSE l[j]
    BY <1>1, <2>2, <2>3 DEF Put
  <2>7. l2[i].weight = SlotWeight(l, n) + (IF d = "OUT" THEN w ELSE 0)
    BY <2>2, <2>4, <2>5, <2>6
  <2>8. Changes(i, NoBlank(l))
    BY <2>2, <2>4, <2>6, <2>7
  <2> QED BY <2>8
<1>9. ASSUME same = {}, free # {}
      PROVE  \E i : Changes(i, NoBlank(l))
  <2> DEFINE i == Min(free)
             s == Written(l[i], n, d, w, ts)
  <2>1. i \in free
    BY <1>1, <1>2, <1>9, MinOf
  <2>2. i \in DOMAIN l /\ l[i].neighbor = Blank
    BY <2>1 DEF SlotsOf
  <2>3. l2 = Put(l, i, s)
    BY <1>9 DEF Update, Put
  <2>4. s.neighbor = n /\ (d = "OUT" => s.timeRecent = ts)
    BY <1>6
  <2> HIDE DEF i, s, l2, same
  <2>6. DOMAIN l2 = DOMAIN l /\ \A j \in DOMAIN l : l2[j] = IF j = i THEN s ELSE l[j]
    BY <1>1, <2>2, <2>3 DEF Put
  <2>7. ~NoBlank(l)
    BY <2>2 DEF NoBlank
  <2>8. Changes(i, NoBlank(l))
    BY <2>2, <2>4, <2>6, <2>7
  <2> QED BY <2>8
<1>10. ASSUME same = {}, free = {}
       PROVE  \E i : Changes(i, NoBlank(l))
  <2> DEFINE s == Written(NewSlot, n, d, w, ts)
             i == Len(l) + 1
  <2>3. l2 = Append(l, s)
    BY <1>10 DEF Update
  <2>4. /\ s.neighbor = n /\ (d = "OUT" => s.timeRecent = ts)
        /\ s.weight = IF d = "OUT" THEN w ELSE 0
    BY <1>6 DEF NewSlot
  <2>5. \A j \in DOMAIN l : l[j].neighbor # n
    BY <1>10 DEF SlotsOf
  <2>6. SlotWeight(l, n) = 0
    BY <2>5, SlotWeightIs
  <2>9. i \notin DOMAIN l /\ DOMAIN l = 1 .. Len(l) /\ Len(l) \in Nat
    BY <1>1
  <2> HIDE DEF s, l2, same, free
  <2>7. /\ DOMAIN l2 = DOMAIN l \cup {i} /\ l2[i] = s
        /\ \A j \in DOMAIN l : l2[j] = l[j]
    <3>1. DOMAIN l2 = 1 .. Len(l) + 1 /\ l2[Len(l) + 1] = s /\ \A j \in 1 .. Len(l) : l2[j] = l[j]
      BY <1>1, <2>3
    <3> QED BY <2>9, <3>1
  <2> HIDE DEF i
  <2>10. l2[i].weight = SlotWeight(l, n) + (IF d = "OUT" THEN w ELSE 0)
    BY <2>4, <2>6, <2>7
  <2>8. Changes(i, NoBlank(l))
    BY <2>4, <2>7, <2>9, <2>10
  <2> QED BY <2>8
<1>11. PICK i : Changes(i, NoBlank(l))
  <2> HIDE DEF Changes, same, free
  <2> QED BY <1>8, <1>9, <1>10
<1> HIDE DEF l2, same, free
<1>12. ASSUME d = "OUT", NEW j \in DOMAIN l2, l2[j].neighbor = n
       PROVE  l2[j].timeRecent = ts
  <2>1. j = i
    BY <1>3, <1>5, <1>11, <1>12 DEF ListOK
  <2> QED BY <1>11, <1>12, <2>1
<1>13. NoBlank(l) => NoBlank(l2)
  BY <1>3, <1>11 DEF NoBlank
<1>14. ASSUME NoBlank(l), NEW m \in Vertices
       PROVE  SlotWeight(l2, m) = SlotWeight(l, m) + (IF m = n /\ d = "OUT" THEN w ELSE 0)
  <2>1. CASE m = n
    <3>1. SlotWeight(l2, m) = l2[i].weight
      BY <1>5, <1>11, <2>1, SlotWeightIs
    <3>2. l2[i].weight = SlotWeight(l, n) + (IF d = "OUT" THEN w ELSE 0)
      BY <1>11, <1>14
    <3> QED BY <2>1, <3>1, <3>2
  <2>2. CASE m # n
    <3>1. SlotWeight(l2, m) = SlotWeight(l, m)
      <4>1. CASE \E j \in DOMAIN l : l[j].neighbor = m
        <5>1. PICK j \in DOMAIN l : l[j].neighbor = m
          BY <4>1
        <5>2. j # i
          <6>1. m # Blank
            BY DatasetAssumption DEF Blank
          <6> QED BY <1>11, <2>2, <5>1, <6>1
        <5>3. j \in DOMAIN l2 /\ l2[j] = l[j]
          BY <1>11, <5>1, <5>2
        <5>4. SlotWeight(l, m) = l[j].weight
          BY <5>1, SlotWeightIs
        <5>5. SlotWeight(l2, m) = l2[j].weight
          BY <1>5, <5>1, <5>3, SlotWeightIs
        <5> QED BY <5>3, <5>4, <5>5
      <4>2. CASE ~(\E j \in DOMAIN l : l[j].neighbor = m)
        <5>1. \A j \in DOMAIN l2 : l2[j].neighbor # m
          BY <1>11, <2>2, <4>2
        <5> QED BY <1>5, <4>2, <5>1, SlotWeightIs
      <4> QED BY <4>1, <4>2
    <3> QED BY <1>7, <2>2, <3>1
  <2> QED BY <2>1, <2>2
<1> QED BY <1>12, <1>13, <1>14 DEF l2

-----------------------------------------------------------------------------
(* The third invariant: how the weights and times of the two graphs are    *)
(* related.                                                                *)

\* Of the halves from h on there is the outgoing one.
OutLeftOf(e, h) == \E half \in h .. 2 : HalfDirection(e, half) = "OUT"

OutPending(j) == \E c \in inflight : c.edge = j /\ OutLeftOf(edges[j], c.half)

\* The edges of the batch that are in the lists of their sources.
Applied ==
  IF phase = "insertions" THEN {j \in BatchFirst .. next - 1 : ~OutPending(j)} ELSE {}

\* Every slot has the weight of its edge in the reference, with what the edges
\* of the batch that are applied add to it.
WeightsAre(L, g, D) ==
  /\ \A u \in Vertices : NoBlank(L[u])
  /\ \A u, v \in Vertices : SlotWeight(L[u], v) = WeightIn(g, <<u, v>>) + Total(<<u, v>>, D)

\* Every entry of the graph is one of the first m edges.
FromUpTo(g, m) ==
  \A k \in DOMAIN g : \E i \in 1 .. m : Ends(edges[i]) = k /\ edges[i].timestamp = g[k].timestamp

\* The edge k is there, no older than ts.
Holds(L, k, ts) ==
  \E i \in DOMAIN L[k[1]] :
    L[k[1]][i].neighbor = k[2] /\ "OUT" \in L[k[1]][i].dirs /\ L[k[1]][i].timeRecent >= ts

AllHeld(L, g, D) ==
  /\ \A k \in DOMAIN g : Holds(L, k, g[k].timestamp)
  /\ \A j \in D : Holds(L, Ends(edges[j]), edges[j].timestamp)

Single == \A c, d \in inflight : c.edge = d.edge => c = d

WeightsOK == sort_mode = "UNSORTED" /\ ~Windowed => WeightsAre(lists, reference, Applied)

\* One thread leaves nothing older than the reference: it is at the last edge.
HeldOK ==
  sort_mode = "UNSORTED" /\ num_threads = 1 =>
    AllHeld(lists, reference, Applied) /\ \A c \in inflight : c.edge = next - 1

KeptAll(S, g) == \A k \in DOMAIN g : \E f \in S : Ends(f) = k /\ f.timestamp = g[k].timestamp

SnapshotHeld == sort_mode = "SNAPSHOT" => KeptAll(snapshot, reference)

MaxOK == phase # "insertions" \/ next = BatchFirst => max_active_vertex = MaxActive(vertex)

Mirror ==
  /\ Single /\ WeightsOK /\ FromUpTo(reference, batch_id * BatchSize)
  /\ HeldOK /\ SnapshotHeld /\ MaxOK

\* Each of the two halves has one direction.
LEMMA HalvesLeft ==
  ASSUME NEW e
  PROVE  /\ OutLeftOf(e, 1)
         /\ OutLeftOf(e, 2) <=> HalfDirection(e, 2) = "OUT"
         /\ HalfDirection(e, 1) = "OUT" <=> HalfDirection(e, 2) # "OUT"
<1>1. HalfDirection(e, 1) = "OUT" <=> HalfDirection(e, 2) # "OUT"
  BY DEF HalfDirection
<1>2. 1 \in 1 .. 2 /\ 2 \in 1 .. 2 /\ 2 .. 2 = {2}
  OBVIOUS
<1> QED BY <1>1, <1>2 DEF OutLeftOf

\* What one half of an insertion does to the edges applied.
LEMMA InsertApplied ==
  ASSUME IInv, RefInv, Single, NEW c \in inflight, InsertHalf(c)
  PROVE  /\ Single'
         /\ Applied' = Applied \cup (IF HalfDirection(edges[c.edge], c.half) = "OUT" THEN {c.edge} ELSE {})
         /\ HalfDirection(edges[c.edge], c.half) = "OUT" => c.edge \notin Applied
         /\ c.edge \in BatchFirst .. next - 1 /\ c.edge \in DOMAIN edges /\ phase = "insertions"
<1> DEFINE k == c.edge
           e == edges[c.edge]
           second == [c EXCEPT !.half = 2]
           range == BatchFirst .. next - 1
<1>1. SetupOK /\ ControlOK /\ InflightOK
  BY DEF IInv
<1>2. /\ UNCHANGED <<setup, batch_id, phase, next>>
      /\ inflight' = (inflight \ {c}) \cup (IF c.half = 1 THEN {second} ELSE {})
  BY DEF InsertHalf
<1>3. phase = "insertions" /\ c \in [edge : DOMAIN edges, half : {1, 2}]
  BY <1>1 DEF InflightOK
<1>4. second.edge = k /\ second.half = 2 /\ c.half \in {1, 2} /\ k \in DOMAIN edges
  BY <1>3
<1>5. edges' = edges /\ BatchFirst' = BatchFirst /\ next' = next /\ phase' = phase
  BY <1>2, SameBatch DEF setup
<1>6. k \in range
  BY DEF RefInv
<1> HIDE DEF second, k, e
<1>7. /\ \A x \in inflight : x # c => x.edge # k /\ x \in inflight'
      /\ \A x \in inflight' : (x \in inflight /\ x # c) \/ (x = second /\ c.half = 1)
      /\ c.half = 1 => second \in inflight'
  BY <1>2 DEF Single, k
<1>8. Single'
  <2> SUFFICES ASSUME NEW x \in inflight', NEW y \in inflight', x.edge = y.edge
               PROVE  x = y
    BY DEF Single
  <2> QED BY <1>4, <1>7 DEF Single
<1>9. \A j : OutPending(j)' <=> \E x \in inflight' : x.edge = j /\ OutLeftOf(edges[j], x.half)
  BY <1>5 DEF OutPending, OutLeftOf, HalfDirection
<1>10. ASSUME NEW j, j # k
       PROVE  OutPending(j)' <=> OutPending(j)
  <2>1. \A x : x.edge = j => (x \in inflight' <=> x \in inflight)
    BY <1>4, <1>7, <1>10 DEF k
  <2> QED BY <1>9, <2>1 DEF OutPending
<1>11. OutPending(k) <=> OutLeftOf(e, c.half)
  BY <1>7 DEF OutPending, e, k
<1>12. OutPending(k)' <=> c.half = 1 /\ OutLeftOf(e, 2)
  <2>1. \A x \in inflight' : x.edge = k => x = second /\ c.half = 1
    BY <1>7
  <2> QED BY <1>4, <1>7, <1>9, <2>1 DEF e, k
<1>13. /\ OutLeftOf(e, 1) /\ (OutLeftOf(e, 2) <=> HalfDirection(e, 2) = "OUT")
       /\ (HalfDirection(e, 1) = "OUT" <=> HalfDirection(e, 2) # "OUT")
  BY HalvesLeft
<1> DEFINE out == HalfDirection(e, c.half) = "OUT"
<1>14. (out => OutPending(k) /\ ~OutPending(k)') /\ (~out => (OutPending(k)' <=> OutPending(k)))
  <2>1. CASE c.half = 1
    BY <1>11, <1>12, <1>13, <2>1
  <2>2. CASE c.half = 2
    BY <1>11, <1>12, <1>13, <2>2
  <2> QED BY <1>4, <2>1, <2>2
<1>15. Applied = {j \in range : ~OutPending(j)}
  BY <1>3 DEF Applied
<1>16. \A j : j \in Applied' <=> j \in range /\ ~OutPending(j)'
  BY <1>3, <1>5 DEF Applied
<1> HIDE DEF out, range
<1>17. \A j : j \in Applied' <=> j \in Applied \/ (out /\ j = k)
  BY <1>6, <1>10, <1>14, <1>15, <1>16
<1>18. Applied' = Applied \cup (IF out THEN {k} ELSE {}) /\ (out => k \notin Applied)
  <2>1. out => k \notin Applied
    BY <1>14, <1>15
  <2>2. \A j : j \in Applied' <=> j \in Applied \cup (IF out THEN {k} ELSE {})
    BY <1>17
  <2> QED BY <2>1, <2>2
<1> QED BY <1>3, <1>4, <1>6, <1>8, <1>18 DEF out, e, k, range

\* An edge just handed out is not applied.
LEMMA TakeApplied ==
  ASSUME IInv, RefInv, Single, Take
  PROVE  Single' /\ Applied' = Applied /\ next' # BatchFirst'
<1> DEFINE new == [edge |-> next, half |-> 1]
<1>1. SetupOK /\ ControlOK /\ Dataset
  BY DatasetFacts DEF IInv
<1>2. /\ UNCHANGED <<setup, lists, batch_id, phase>> /\ phase = "insertions"
      /\ inflight' = inflight \cup {new} /\ next' = next + 1
  BY DEF Take
<1>3. BatchFirst' = BatchFirst /\ edges' = edges /\ phase' = phase
  BY <1>2, SameBatch DEF setup
<1>4. BatchFirst \in Nat /\ next \in Nat /\ BatchFirst <= next
  BY <1>1, <1>2, CurrentBatch DEF ControlOK
<1>5. \A c \in inflight : c.edge \in BatchFirst .. next - 1
  BY DEF RefInv
<1>6. new.edge = next /\ new.half = 1
  OBVIOUS
<1> HIDE DEF new
<1>7. \A c \in inflight : c.edge # next
  BY <1>4, <1>5
<1>8. Single'
  <2> SUFFICES ASSUME NEW x \in inflight', NEW y \in inflight', x.edge = y.edge
               PROVE  x = y
    BY DEF Single
  <2> QED BY <1>2, <1>6, <1>7 DEF Single
<1>9. \A j : OutPending(j)' <=> \E x \in inflight' : x.edge = j /\ OutLeftOf(edges[j], x.half)
  BY <1>3 DEF OutPending, OutLeftOf, HalfDirection
<1>17. PICK n : n = next
  OBVIOUS
<1>10. \A j : j # n => (OutPending(j)' <=> OutPending(j))
  BY <1>2, <1>6, <1>9, <1>17 DEF OutPending
<1>11. OutPending(n)'
  <2>1. OutLeftOf(edges[n], new.half)
    BY <1>6, HalvesLeft
  <2>2. new \in inflight'
    BY <1>2
  <2> QED BY <1>6, <1>9, <1>17, <2>1, <2>2
<1>12. \A j : j \in Applied' <=> j \in BatchFirst .. n /\ ~OutPending(j)'
  <2>1. next' - 1 = n
    BY <1>2, <1>4, <1>17
  <2> QED BY <1>2, <1>3, <2>1 DEF Applied
<1>13. \A j : j \in BatchFirst .. n <=> j \in BatchFirst .. n - 1 \/ j = n
  BY <1>4, <1>17
<1>14. n \notin BatchFirst .. n - 1 /\ \A j : j \in Applied <=> j \in BatchFirst .. n - 1 /\ ~OutPending(j)
  BY <1>2, <1>4, <1>17 DEF Applied
<1>15. \A j : j \in Applied' <=> j \in Applied
  BY <1>10, <1>11, <1>12, <1>13, <1>14
<1>16. next' # BatchFirst'
  BY <1>2, <1>3, <1>4
<1> QED BY <1>8, <1>15, <1>16

\* What one half of an insertion does to the weights and times.
LEMMA InsertMore ==
  ASSUME Dataset, UpdatedOK, sort_mode = "UNSORTED", InflightOK, NEW c \in inflight, InsertHalf(c)
  PROVE  /\ (\A x \in Vertices : NoBlank(lists[x])) =>
              /\ \A x \in Vertices : NoBlank(lists'[x])
              /\ \A x, m \in Vertices :
                   SlotWeight(lists'[x], m) =
                     SlotWeight(lists[x], m) +
                       (IF HalfDirection(edges[c.edge], c.half) = "OUT" /\ <<x, m>> = Ends(edges[c.edge])
                        THEN edges[c.edge].weight ELSE 0)
         /\ \A k \in Vertices \X Vertices : \A t :
              Holds(lists, k, t) =>
                \/ Holds(lists', k, t)
                \/ k = Ends(edges[c.edge]) /\ Holds(lists', k, edges[c.edge].timestamp)
         /\ HalfDirection(edges[c.edge], c.half) = "OUT" =>
              Holds(lists', Ends(edges[c.edge]), edges[c.edge].timestamp)
<1> DEFINE e == edges[c.edge]
           d == HalfDirection(e, c.half)
           v == IF d = "OUT" THEN e.src ELSE e.dst
           n == IF d = "OUT" THEN e.dst ELSE e.src
           list2 == Update(lists[v], n, d, e.weight, e.timestamp)
<1>1. /\ lists \in [Vertices -> Seq(Slots)]
      /\ \A x \in Vertices : ListOK(lists[x], MinTimestamp)
  BY DEF UpdatedOK
<1>2. /\ \A x \in Vertices : Keeps(lists[x], lists'[x])
      /\ HalfDone(lists', e, d)
      /\ \A x \in Vertices : \A i \in DOMAIN lists'[x] :
           "OUT" \in lists'[x][i].dirs => OutFrom(lists, lists', x, i, e)
  BY InsertGraph
<1>3. c.edge \in DOMAIN edges
  BY DEF InflightOK
<1>4. /\ e.src \in Vertices /\ e.dst \in Vertices /\ e.weight \in Nat /\ e.timestamp \in Nat
      /\ e.timestamp >= MinTimestamp /\ MinTimestamp \in Nat
  <2>1. e \in Edges /\ MinTimestamp <= e.timestamp /\ MinTimestamp \in Nat
    BY <1>3, TimeFacts
  <2> HIDE DEF e
  <2>2. e.timestamp \in Nat /\ e.src \in Vertices /\ e.dst \in Vertices /\ e.weight \in Nat
    BY <2>1 DEF Edges
  <2> QED BY <2>1, <2>2
<1>5. d \in {"OUT", "IN"}
  BY DEF HalfDirection
<1>6. lists' = [lists EXCEPT ![v] = list2]
  BY DEF InsertHalf
<1> HIDE DEF e, d
<1>7. v \in Vertices /\ n \in Vertices
  BY <1>4
<1>8. d = "OUT" => v = e.src /\ n = e.dst
  OBVIOUS
<1> HIDE DEF v, n
<1>9. /\ d = "OUT" => \A i \in DOMAIN list2 : list2[i].neighbor = n => list2[i].timeRecent = e.timestamp
      /\ NoBlank(lists[v]) =>
           /\ NoBlank(list2)
           /\ \A m \in Vertices :
                SlotWeight(list2, m) = SlotWeight(lists[v], m) + (IF m = n /\ d = "OUT" THEN e.weight ELSE 0)
  BY <1>1, <1>4, <1>5, <1>7, UpdateMore
<1> HIDE DEF list2
<1>10. lists'[v] = list2 /\ \A x \in Vertices : x # v => lists'[x] = lists[x]
  BY <1>1, <1>6, <1>7
<1>11. ASSUME \A x \in Vertices : NoBlank(lists[x])
       PROVE  /\ \A x \in Vertices : NoBlank(lists'[x])
              /\ \A x, m \in Vertices :
                   SlotWeight(lists'[x], m) =
                     SlotWeight(lists[x], m) + (IF d = "OUT" /\ <<x, m>> = Ends(e) THEN e.weight ELSE 0)
  <2>1. \A x \in Vertices : NoBlank(lists'[x])
    <3> SUFFICES ASSUME NEW x \in Vertices PROVE NoBlank(lists'[x])
      OBVIOUS
    <3>1. CASE x = v
      BY <1>9, <1>10, <1>11, <3>1
    <3>2. CASE x # v
      BY <1>10, <1>11, <3>2
    <3> QED BY <3>1, <3>2
  <2>2. ASSUME NEW x \in Vertices, NEW m \in Vertices
        PROVE  SlotWeight(lists'[x], m) =
                 SlotWeight(lists[x], m) + (IF d = "OUT" /\ <<x, m>> = Ends(e) THEN e.weight ELSE 0)
    <3>1. CASE x = v
      <4>1. SlotWeight(list2, m) = SlotWeight(lists[v], m) + (IF m = n /\ d = "OUT" THEN e.weight ELSE 0)
        BY <1>7, <1>9, <1>11
      <4>2. (m = n /\ d = "OUT") <=> (d = "OUT" /\ <<x, m>> = Ends(e))
        BY <1>8, <3>1 DEF Ends
      <4> QED BY <1>10, <3>1, <4>1, <4>2
    <3>2. CASE x # v
      <4>1. lists'[x] = lists[x]
        BY <1>10, <3>2
      <4>2. ~(d = "OUT" /\ <<x, m>> = Ends(e))
        BY <1>8, <3>2 DEF Ends
      <4>3. SlotWeight(lists[x], m) \in Nat
        <5>1. ListOK(lists[x], MinTimestamp)
          BY <1>1
        <5>2. \A i \in DOMAIN lists[x] : lists[x][i].weight \in Nat
          BY <5>1 DEF ListOK, SlotOK, Slots
        <5> QED BY <5>1, <5>2, SlotWeightIs
      <4> QED BY <4>1, <4>2, <4>3
    <3> QED BY <3>1, <3>2
  <2> QED BY <2>1, <2>2
<1>12. ASSUME NEW k \in Vertices \X Vertices, NEW t, Holds(lists, k, t)
       PROVE  Holds(lists', k, t) \/ (k = Ends(e) /\ Holds(lists', k, e.timestamp))
  <2> DEFINE x == k[1]
  <2>1. x \in Vertices /\ k[2] \in Vertices /\ k = <<x, k[2]>>
    OBVIOUS
  <2> HIDE DEF x
  <2>2. PICK i \in DOMAIN lists[x] :
          lists[x][i].neighbor = k[2] /\ "OUT" \in lists[x][i].dirs /\ lists[x][i].timeRecent >= t
    BY <1>12 DEF Holds, x
  <2>3. k[2] # Blank
    BY <2>1, DatasetAssumption DEF Blank
  <2>4. i \in DOMAIN lists'[x] /\ lists'[x][i].neighbor = k[2] /\ "OUT" \in lists'[x][i].dirs
    BY <1>2, <2>1, <2>2, <2>3 DEF Keeps
  <2>5. OutFrom(lists, lists', x, i, e)
    BY <1>2, <2>1, <2>4
  <2>6. CASE x = e.src /\ lists'[x][i].neighbor = e.dst /\ lists'[x][i].timeRecent = e.timestamp
    <3>1. k = Ends(e)
      BY <2>1, <2>4, <2>6 DEF Ends
    <3>2. lists'[x][i].timeRecent >= e.timestamp
      BY <1>4, <2>6
    <3> QED BY <2>4, <3>1, <3>2 DEF Holds, x
  <2>7. CASE lists'[x][i].timeRecent = lists[x][i].timeRecent
    BY <2>2, <2>4, <2>7 DEF Holds, x
  <2> QED BY <2>5, <2>6, <2>7 DEF OutFrom
<1>13. ASSUME d = "OUT"
       PROVE  Holds(lists', Ends(e), e.timestamp)
  <2>1. e.dst \in Neighbors(lists'[e.src], "OUT")
    BY <1>2, <1>13 DEF HalfDone
  <2>2. PICK i \in DOMAIN lists'[e.src] :
          "OUT" \in lists'[e.src][i].dirs /\ lists'[e.src][i].neighbor = e.dst
    BY <2>1 DEF Neighbors
  <2>3. lists'[e.src][i].timeRecent = e.timestamp
    BY <1>8, <1>9, <1>10, <1>13, <2>2
  <2>4. Ends(e)[1] = e.src /\ Ends(e)[2] = e.dst
    BY DEF Ends
  <2>5. lists'[e.src][i].timeRecent >= e.timestamp
    BY <1>4, <2>3
  <2> QED BY <2>2, <2>4, <2>5 DEF Holds
<1> QED BY <1>11, <1>12, <1>13 DEF e, d

\* The invariant after a step, from its parts about the new state.
LEMMA MirrorNext ==
  ASSUME UNCHANGED setup, Single', MaxOK',
         sort_mode = "UNSORTED" /\ ~Windowed => WeightsAre(lists', reference', Applied'),
         FromUpTo(reference', batch_id' * BatchSize),
         sort_mode = "UNSORTED" /\ num_threads = 1 =>
           AllHeld(lists', reference', Applied') /\ \A c \in inflight' : c.edge = next' - 1,
         sort_mode = "SNAPSHOT" => KeptAll(snapshot', reference')
  PROVE  Mirror'
<1>1. /\ edges' = edges /\ sort_mode' = sort_mode /\ num_threads' = num_threads
      /\ Windowed' = Windowed
  BY DEF setup, Windowed, MinTimestamp, MaxTimestamp
<1>2. WeightsOK'
  <2> SUFFICES ASSUME sort_mode = "UNSORTED", ~Windowed
               PROVE  WeightsAre(lists, reference, Applied)'
    BY <1>1 DEF WeightsOK
  <2>1. WeightsAre(lists', reference', Applied')
    OBVIOUS
  <2>2. \A k : Total(k, Applied') = Total(k, Applied)'
    BY <1>1 DEF Total, Share, Ends
  <2> QED BY <2>1, <2>2 DEF WeightsAre, WeightIn, NoBlank, SlotWeight, SlotsOf
<1>3. FromUpTo(reference, batch_id * BatchSize)'
  BY <1>1 DEF FromUpTo, Ends
<1>4. HeldOK'
  <2> SUFFICES ASSUME sort_mode = "UNSORTED", num_threads = 1
               PROVE  AllHeld(lists, reference, Applied)' /\ \A c \in inflight' : c.edge = next' - 1
    BY <1>1 DEF HeldOK
  <2>1. AllHeld(lists', reference', Applied') /\ \A c \in inflight' : c.edge = next' - 1
    OBVIOUS
  <2> QED BY <1>1, <2>1 DEF AllHeld, Holds, Ends
<1>5. SnapshotHeld'
  BY <1>1 DEF SnapshotHeld, KeptAll, Ends
<1> QED BY <1>2, <1>3, <1>4, <1>5 DEF Mirror

LEMMA InitMirror ==
  ASSUME Init
  PROVE  Mirror
<1>1. SetupOK /\ Dataset
  BY DatasetFacts DEF Init, SetupOK
<1>2. /\ inflight = {} /\ phase = "before_batch" /\ lists = [v \in Vertices |-> <<>>]
      /\ DOMAIN reference = {} /\ batch_id = 0
      /\ vertex = [v \in Vertices |-> NewVertex] /\ max_active_vertex = 0
  BY DEF Init, Ref!EmptyGraph
<1>3. Applied = {}
  BY <1>2 DEF Applied
<1>4. WeightsAre(lists, reference, {})
  <2>1. ASSUME NEW u \in Vertices
        PROVE  NoBlank(lists[u]) /\ \A v : SlotWeight(lists[u], v) = 0
    <3>1. DOMAIN lists[u] = {}
      BY <1>2
    <3> QED BY <3>1 DEF NoBlank, SlotWeight, SlotsOf
  <2>2. \A k : WeightIn(reference, k) = 0 /\ Total(k, {}) = 0
    BY <1>1, <1>2, TotalFacts DEF WeightIn
  <2> QED BY <2>1, <2>2 DEF WeightsAre
<1>5. AllHeld(lists, reference, {}) /\ KeptAll(snapshot, reference) /\ FromUpTo(reference, batch_id * BatchSize)
  BY <1>2 DEF AllHeld, KeptAll, FromUpTo
<1>6. MaxActive(vertex) = 0
  <2> DEFINE A == {0} \cup {v \in Vertices : vertex[v].inDegree > 0 \/ vertex[v].outDegree > 0}
  <2>1. \A v \in Vertices : vertex[v].inDegree = 0 /\ vertex[v].outDegree = 0
    BY <1>2 DEF NewVertex
  <2>2. A = {0}
    BY <2>1
  <2>3. A \in SUBSET Nat /\ IsFiniteSet(A) /\ A # {}
    <3>1. IsFiniteSet({0})
      BY FS_Singleton
    <3> HIDE DEF A
    <3> QED BY <2>2, <3>1
  <2>4. Max(A) \in A
    <3> HIDE DEF A
    <3> QED BY <2>3, MaxOf
  <2> HIDE DEF A
  <2>5. Max(A) = 0
    BY <2>2, <2>4
  <2> QED BY <2>5 DEF MaxActive, A
<1> QED BY <1>2, <1>3, <1>4, <1>5, <1>6 DEF Mirror, Single, WeightsOK, HeldOK, SnapshotHeld, MaxOK

\* A step that leaves the graphs as they are.
LEMMA SameMirror ==
  ASSUME Mirror, UNCHANGED <<setup, lists, vertex, max_active_vertex, batch_id, snapshot, reference>>,
         Single', Applied' = Applied,
         num_threads = 1 => \A c \in inflight' : c.edge = next' - 1,
         phase' # "insertions" \/ (next = BatchFirst)' => phase # "insertions" \/ next = BatchFirst
  PROVE  Mirror'
<1>1. MaxOK'
  <2>1. MaxActive(vertex)' = MaxActive(vertex)
    BY DEF MaxActive
  <2> QED BY <2>1 DEF Mirror, MaxOK
<1>2. sort_mode = "UNSORTED" /\ ~Windowed => WeightsAre(lists', reference', Applied')
  BY DEF Mirror, WeightsOK
<1>3. sort_mode = "UNSORTED" /\ num_threads = 1 => AllHeld(lists', reference', Applied')
  BY DEF Mirror, HeldOK
<1>4. FromUpTo(reference', batch_id' * BatchSize) /\ (sort_mode = "SNAPSHOT" => KeptAll(snapshot', reference'))
  BY DEF Mirror, SnapshotHeld
<1>5. UNCHANGED setup
  OBVIOUS
<1> QED BY <1>1, <1>2, <1>3, <1>4, <1>5, MirrorNext

LEMMA BeforeBatchMirror ==
  ASSUME IInv, Mirror, BeforeBatch
  PROVE  Mirror'
<1>1. InflightOK
  BY DEF IInv
<1>2. /\ UNCHANGED <<setup, lists, vertex, max_active_vertex, batch_id, snapshot, reference>>
      /\ inflight' = inflight /\ phase # "insertions" /\ phase' # "insertions" /\ next' = next
  BY DEF BeforeBatch
<1>3. inflight = {} /\ Applied = {} /\ Applied' = {}
  BY <1>1, <1>2 DEF InflightOK, Applied
<1> QED BY <1>2, <1>3, SameMirror DEF Single

LEMMA StutterMirror ==
  ASSUME Mirror, UNCHANGED vars
  PROVE  Mirror'
<1>1. /\ UNCHANGED <<setup, lists, vertex, max_active_vertex, batch_id, snapshot, reference>>
      /\ inflight' = inflight /\ phase' = phase /\ next' = next /\ edges' = edges
      /\ sort_mode' = sort_mode /\ window' = window /\ num_threads' = num_threads
  BY DEF vars, setup
<1>2. BatchFirst' = BatchFirst
  BY <1>1, SameBatch
<1>3. Applied' = Applied /\ Single'
  <2>1. \A j : OutPending(j)' <=> OutPending(j)
    BY <1>1 DEF OutPending, OutLeftOf, HalfDirection
  <2> QED BY <1>1, <1>2, <2>1 DEF Mirror, Single, Applied
<1>4. sort_mode = "UNSORTED" /\ num_threads = 1 => \A c \in inflight' : c.edge = next' - 1
  BY <1>1 DEF Mirror, HeldOK
<1>5. MaxOK'
  <2>1. MaxActive(vertex)' = MaxActive(vertex)
    BY <1>1 DEF MaxActive
  <2> QED BY <1>1, <1>2, <2>1 DEF Mirror, MaxOK
<1>6. sort_mode = "UNSORTED" /\ ~Windowed => WeightsAre(lists', reference', Applied')
  BY <1>1, <1>3 DEF Mirror, WeightsOK
<1>7. sort_mode = "UNSORTED" /\ num_threads = 1 => AllHeld(lists', reference', Applied')
  BY <1>1, <1>3 DEF Mirror, HeldOK
<1>8. FromUpTo(reference', batch_id' * BatchSize) /\ (sort_mode = "SNAPSHOT" => KeptAll(snapshot', reference'))
  BY <1>1 DEF Mirror, SnapshotHeld
<1> QED BY <1>1, <1>3, <1>4, <1>5, <1>6, <1>7, <1>8, MirrorNext

\* The only thread is idle when it takes an edge.
LEMMA TakeMirror ==
  ASSUME IInv, RefInv, Mirror, Take
  PROVE  Mirror'
<1>1. SetupOK /\ ControlOK /\ InflightOK /\ Dataset
  BY DatasetFacts DEF IInv
<1>2. /\ UNCHANGED <<setup, lists, vertex, max_active_vertex, batch_id, snapshot, reference>>
      /\ phase' = phase /\ phase = "insertions" /\ Cardinality(inflight) < num_threads
      /\ inflight' = inflight \cup {[edge |-> next, half |-> 1]} /\ next' = next + 1
  BY DEF Take
<1>3. Single' /\ Applied' = Applied /\ next' # BatchFirst'
  BY TakeApplied DEF Mirror
<1>4. ASSUME num_threads = 1, NEW c \in inflight'
      PROVE  c.edge = next' - 1
  <2>1. Cardinality(inflight) = 0
    <3>1. Cardinality(inflight) \in Nat
      BY <1>1, FS_CardinalityType DEF InflightOK
    <3> QED BY <1>2, <1>4, <3>1
  <2>2. inflight = {}
    BY <1>1, <2>1, FS_EmptySet DEF InflightOK
  <2>3. c = [edge |-> next, half |-> 1]
    BY <1>2, <2>2
  <2>4. next \in Nat
    BY <1>1 DEF ControlOK, Dataset
  <2> QED BY <1>2, <2>3, <2>4
<1> QED BY <1>2, <1>3, <1>4, SameMirror

\* The edges of the batches before are no newer than those of the batch.
LEMMA EarlierIsOlder ==
  ASSUME Dataset, ControlOK, phase # "done",
         NEW i \in 1 .. batch_id * BatchSize, NEW j \in BatchFirst .. BatchLast
  PROVE  /\ i \in DOMAIN edges /\ j \in DOMAIN edges
         /\ edges[i].timestamp \in Nat /\ edges[j].timestamp \in Nat
         /\ edges[i].timestamp <= edges[j].timestamp
<1>1. /\ batch_id \in 0 .. NumBatches - 1 /\ BatchFirst \in Nat \ {0}
      /\ BatchLast \in DOMAIN edges /\ BatchLast <= Len(edges) /\ BatchLast \in Nat
  BY CurrentBatch
<1>2. /\ BatchStart(batch_id) \in Nat \ {0} /\ BatchStart(batch_id) <= BatchEnd(batch_id)
      /\ BatchEnd(batch_id) \in DOMAIN edges
  BY <1>1, BatchFacts
<1>3. BatchFirst \in BatchStart(batch_id) .. BatchEnd(batch_id) + 1
  BY <1>1, <1>2, FilterFacts DEF BatchFirst
<1>4. BatchStart(batch_id) = batch_id * BatchSize + 1
  BY DEF BatchStart
<1>5. batch_id * BatchSize \in Nat
  BY <1>1, BatchFacts DEF Dataset
<1>6. i < j /\ i \in 1 .. Len(edges) /\ j \in 1 .. Len(edges)
  <2> DEFINE m == batch_id * BatchSize
  <2>1. m \in Nat /\ i <= m /\ m < BatchFirst
    <3>1. BatchFirst >= BatchStart(batch_id)
      BY <1>2, <1>3
    <3> QED BY <1>1, <1>4, <1>5, <3>1
  <2> HIDE DEF m
  <2>2. i \in Nat \ {0}
    BY <1>5
  <2> QED BY <1>1, <2>1, <2>2 DEF Dataset
<1>7. DOMAIN edges = 1 .. Len(edges)
  BY DEF Dataset
<1>8. edges[i] \in Edges /\ edges[j] \in Edges
  BY <1>6, <1>7, TimeFacts
<1> QED BY <1>6, <1>7, <1>8 DEF Dataset, Edges

LEMMA HoldsOlder ==
  ASSUME NEW L, NEW k, L[k[1]] \in Seq(Slots), NEW t \in Nat, NEW t2 \in Nat, t2 <= t, Holds(L, k, t)
  PROVE  Holds(L, k, t2)
<1> DEFINE l == L[k[1]]
<1>1. PICK i \in DOMAIN l : l[i].neighbor = k[2] /\ "OUT" \in l[i].dirs /\ l[i].timeRecent >= t
  BY DEF Holds
<1>2. l[i] \in Slots
  BY <1>1
<1>3. l[i].timeRecent \in Nat
  <2> HIDE DEF l
  <2> QED BY <1>2 DEF Slots
<1>4. l[i].timeRecent >= t2
  <2> HIDE DEF l
  <2> QED BY <1>1, <1>3
<1> QED BY <1>1, <1>4 DEF Holds

LEMMA InsertHalfMirror ==
  ASSUME IInv, RefInv, Mirror, NEW c \in inflight, InsertHalf(c)
  PROVE  Mirror'
<1> DEFINE k == c.edge
           e == edges[k]
           out == HalfDirection(e, c.half) = "OUT"
<1>1. SetupOK /\ ControlOK /\ InflightOK /\ UpdatedOK /\ Dataset
  BY DatasetFacts DEF IInv
<1>2. /\ UNCHANGED <<setup, max_active_vertex, batch_id, snapshot, reference>>
      /\ phase' = phase /\ next' = next
      /\ inflight' = (inflight \ {c}) \cup (IF c.half = 1 THEN {[c EXCEPT !.half = 2]} ELSE {})
  BY DEF InsertHalf
<1>3. /\ Single' /\ Applied' = Applied \cup (IF out THEN {k} ELSE {}) /\ (out => k \notin Applied)
      /\ k \in BatchFirst .. next - 1 /\ k \in DOMAIN edges /\ phase = "insertions"
  BY InsertApplied DEF Mirror
<1>4. sort_mode = "UNSORTED"
  BY <1>1, <1>3 DEF ControlOK, Dataset
<1>5. BatchFirst' = BatchFirst /\ edges' = edges
  BY <1>2, SameBatch DEF setup
<1>6. /\ BatchFirst \in Nat \ {0} /\ BatchLast \in Nat /\ BatchLast <= Len(edges)
      /\ next \in BatchFirst .. BatchLast + 1
  BY <1>1, <1>3, CurrentBatch DEF ControlOK
<1>7. MaxOK'
  <2>1. next # BatchFirst
    BY <1>3, <1>6
  <2> QED BY <1>2, <1>3, <1>5, <2>1 DEF MaxOK
<1>8. k \in BatchFirst .. BatchLast /\ k \in 1 .. Len(edges)
  BY <1>1, <1>3, <1>6 DEF Dataset
<1>9. e \in Edges /\ e.timestamp \in Nat /\ e.weight \in Nat
  <2>1. e \in Edges
    BY <1>1, <1>3, TimeFacts
  <2> HIDE DEF e
  <2> QED BY <2>1 DEF Edges
<1>10. /\ (\A x \in Vertices : NoBlank(lists[x])) =>
            /\ \A x \in Vertices : NoBlank(lists'[x])
            /\ \A x, m \in Vertices :
                 SlotWeight(lists'[x], m) =
                   SlotWeight(lists[x], m) + (IF out /\ <<x, m>> = Ends(e) THEN e.weight ELSE 0)
       /\ \A kk \in Vertices \X Vertices : \A t :
            Holds(lists, kk, t) =>
              \/ Holds(lists', kk, t)
              \/ kk = Ends(e) /\ Holds(lists', kk, e.timestamp)
       /\ out => Holds(lists', Ends(e), e.timestamp)
  BY <1>1, <1>4, InsertMore
<1>11. lists' \in [Vertices -> Seq(Slots)] /\ lists \in [Vertices -> Seq(Slots)]
       /\ \A v \in Vertices : ListOK(lists[v], MinTimestamp)
  BY <1>1, <1>4, InsertGraph DEF UpdatedOK
<1>12. RefGraph(reference) /\ reference' = reference
  BY <1>2 DEF RefInv
<1> HIDE DEF e, out, k
<1>13. ASSUME ~Windowed
       PROVE  WeightsAre(lists', reference', Applied')
  <2>1. WeightsAre(lists, reference, Applied)
    BY <1>4, <1>13 DEF Mirror, WeightsOK
  <2>2. ASSUME NEW u \in Vertices, NEW v \in Vertices
        PROVE  SlotWeight(lists'[u], v) = WeightIn(reference, <<u, v>>) + Total(<<u, v>>, Applied')
    <3> DEFINE uv == <<u, v>>
    <3>1. SlotWeight(lists[u], v) = WeightIn(reference, uv) + Total(uv, Applied)
      BY <2>1 DEF WeightsAre
    <3>2. SlotWeight(lists'[u], v) = SlotWeight(lists[u], v) + (IF out /\ uv = Ends(e) THEN e.weight ELSE 0)
      BY <1>10, <2>1 DEF WeightsAre
    <3>3. SlotWeight(lists[u], v) \in Nat
      <4>1. ListOK(lists[u], MinTimestamp)
        BY <1>11
      <4>2. \A i \in DOMAIN lists[u] : lists[u][i].weight \in Nat
        BY <4>1 DEF ListOK, SlotOK, Slots
      <4> QED BY <4>1, <4>2, SlotWeightIs
    <3>4. WeightIn(reference, uv) \in Nat
      BY <1>9, <1>12, InsertEdgeMore
    <3> HIDE DEF uv
    <3>5. CASE out
      <4>1. Applied' = Applied \cup {k} /\ k \notin Applied
        BY <1>3, <3>5
      <4>2. /\ Total(uv, Applied) \in Nat
            /\ Total(uv, Applied \cup {k}) = Total(uv, Applied) + (IF Ends(e) = uv THEN e.weight ELSE 0)
        BY <1>1, <1>8, <4>1, TotalFacts DEF e
      <4>3. SlotWeight(lists[u], v) + (IF uv = Ends(e) THEN e.weight ELSE 0) =
              WeightIn(reference, uv) + Total(uv, Applied')
        BY <1>9, <3>1, <3>4, <4>1, <4>2
      <4> QED BY <3>2, <3>5, <4>3 DEF uv
    <3>6. CASE ~out
      <4>1. Applied' = Applied
        BY <1>3, <3>6
      <4> QED BY <3>1, <3>2, <3>3, <3>6, <4>1 DEF uv
    <3> QED BY <3>5, <3>6
  <2> QED BY <1>10, <1>12, <2>1, <2>2 DEF WeightsAre
<1>14. FromUpTo(reference', batch_id' * BatchSize)
  BY <1>2, <1>12 DEF Mirror
<1>15. ASSUME num_threads = 1
       PROVE  AllHeld(lists', reference', Applied') /\ \A x \in inflight' : x.edge = next' - 1
  <2>1. AllHeld(lists, reference, Applied) /\ \A x \in inflight : x.edge = next - 1
    BY <1>4, <1>15 DEF Mirror, HeldOK
  <2>2. k = next - 1
    BY <2>1 DEF k
  <2>3. \A x \in inflight' : x.edge = next' - 1
    <3>1. c \in [edge : DOMAIN edges, half : {1, 2}]
      BY <1>1 DEF InflightOK
    <3>2. [c EXCEPT !.half = 2].edge = k
      BY <3>1 DEF k
    <3> QED BY <1>2, <2>1, <2>2, <3>2
  <2>4. ASSUME NEW kk \in Vertices \X Vertices, NEW t \in Nat, Holds(lists, kk, t), t <= e.timestamp
        PROVE  Holds(lists', kk, t)
    <3>1. lists'[kk[1]] \in Seq(Slots)
      BY <1>11
    <3>2. Holds(lists', kk, t) \/ Holds(lists', kk, e.timestamp)
      BY <1>10, <2>4
    <3> QED BY <1>9, <2>4, <3>1, <3>2, HoldsOlder
  <2>5. ASSUME NEW kk \in DOMAIN reference
        PROVE  Holds(lists', kk, reference[kk].timestamp)
    <3>1. PICK i \in 1 .. batch_id * BatchSize :
            Ends(edges[i]) = kk /\ edges[i].timestamp = reference[kk].timestamp
      BY DEF Mirror, FromUpTo
    <3>2. edges[i].timestamp \in Nat /\ edges[i].timestamp <= e.timestamp
      BY <1>1, <1>3, <1>8, EarlierIsOlder DEF e
    <3>3. kk \in Vertices \X Vertices
      BY <1>12 DEF RefGraph
    <3>4. Holds(lists, kk, reference[kk].timestamp)
      BY <2>1 DEF AllHeld
    <3> QED BY <2>4, <3>1, <3>2, <3>3, <3>4
  <2>6. ASSUME NEW j \in Applied'
        PROVE  Holds(lists', Ends(edges[j]), edges[j].timestamp)
    <3>1. CASE j \in Applied
      <4>1. Holds(lists, Ends(edges[j]), edges[j].timestamp)
        BY <2>1, <3>1 DEF AllHeld
      <4>2. j \in BatchFirst .. next - 1
        BY <1>3, <3>1 DEF Applied
      <4>3. j \in 1 .. Len(edges) /\ j <= k
        BY <1>6, <1>8, <2>2, <4>2
      <4>4. edges[j] \in Edges
        BY <1>1, <4>3, TimeFacts DEF Dataset
      <4>5. Ends(edges[j]) \in Vertices \X Vertices /\ edges[j].timestamp \in Nat
        BY <4>4 DEF Edges, Ends
      <4>6. edges[j].timestamp <= e.timestamp
        <5>1. CASE j = k
          BY <1>9, <5>1 DEF e
        <5>2. CASE j # k
          <6>1. j < k
            BY <1>8, <4>3, <5>2
          <6> QED BY <1>1, <1>8, <4>3, <6>1 DEF Dataset, e
        <5> QED BY <5>1, <5>2
      <4> QED BY <2>4, <4>1, <4>5, <4>6
    <3>2. CASE j \notin Applied
      <4>1. out /\ j = k
        BY <1>3, <2>6, <3>2
      <4> QED BY <1>10, <4>1 DEF e
    <3> QED BY <3>1, <3>2
  <2> QED BY <1>12, <2>3, <2>5, <2>6 DEF AllHeld
<1>16. UNCHANGED setup /\ (sort_mode = "SNAPSHOT" => KeptAll(snapshot', reference'))
  BY <1>2, <1>4
<1> QED BY <1>3, <1>7, <1>13, <1>14, <1>15, <1>16, MirrorNext

\* What a deletion leaves in the reference.
LEMMA DeleteOlderIs ==
  ASSUME NEW g, NEW h
  PROVE  /\ \A k : k \in DOMAIN Ref!DeleteOlderThan(g, h) <=> k \in DOMAIN g /\ g[k].timestamp >= h
         /\ \A k \in DOMAIN Ref!DeleteOlderThan(g, h) : Ref!DeleteOlderThan(g, h)[k] = g[k]
BY DEF Ref!DeleteOlderThan, Ref!Restrict

LEMMA DeleteMirror ==
  ASSUME IInv, RefInv, Mirror, Delete
  PROVE  Mirror'
<1> DEFINE h == Threshold(batch_id)
<1>1. SetupOK /\ ControlOK /\ InflightOK /\ UpdatedOK /\ Dataset
  BY DatasetFacts DEF IInv
<1>2. /\ UNCHANGED <<setup, recentDeletions, batch_id, inflight, snapshot>>
      /\ phase = "deletions" /\ phase' = "insertions" /\ next' = BatchFirst
      /\ IF Windowed THEN /\ max_active_vertex' = MaxActive(vertex')
                          /\ reference' = Ref!DeleteOlderThan(reference, h)
                     ELSE UNCHANGED <<lists, vertex, max_active_vertex, reference>>
  BY DEF Delete, BatchFirst
<1>3. sort_mode = "UNSORTED" /\ inflight' = {}
  BY <1>1, <1>2 DEF InflightOK, Dataset, ControlOK
<1>4. BatchFirst' = BatchFirst /\ BatchFirst \in Nat
  BY <1>1, <1>2, SameBatch, CurrentBatch
<1>5. Applied = {} /\ Applied' = {}
  <2>1. BatchFirst .. BatchFirst - 1 = {}
    BY <1>4
  <2> QED BY <1>2, <1>4, <2>1 DEF Applied
<1>6. h \in Nat /\ MinTimestamp \in Nat
  BY <1>1, <1>2, CurrentBatch, TimeFacts
<1>7. \A v \in Vertices : lists'[v] = IF Windowed THEN Survivors(lists[v], h) ELSE lists[v]
  BY <1>1, <1>3, DeleteGraph
<1> HIDE DEF h
<1>8. MaxOK'
  <2>1. MaxActive(vertex)' = MaxActive(vertex')
    BY DEF MaxActive
  <2>2. CASE Windowed
    BY <1>2, <2>1, <2>2 DEF MaxOK
  <2>3. CASE ~Windowed
    BY <1>2, <2>1, <2>3 DEF MaxOK, Mirror
  <2> QED BY <2>2, <2>3
<1>9. DOMAIN reference' \subseteq DOMAIN reference /\ \A k \in DOMAIN reference' : reference'[k] = reference[k]
  <2>1. CASE Windowed
    BY <1>2, <2>1, DeleteOlderIs
  <2>2. CASE ~Windowed
    BY <1>2, <2>2
  <2> QED BY <2>1, <2>2
<1>10. FromUpTo(reference', batch_id' * BatchSize)
  BY <1>2, <1>9 DEF Mirror, FromUpTo
<1>11. sort_mode = "UNSORTED" /\ ~Windowed => WeightsAre(lists', reference', Applied')
  BY <1>2, <1>5 DEF Mirror, WeightsOK
<1>12. ASSUME num_threads = 1
       PROVE  AllHeld(lists', reference', {})
  <2>1. AllHeld(lists, reference, {})
    BY <1>3, <1>5, <1>12 DEF Mirror, HeldOK
  <2>2. CASE ~Windowed
    BY <1>2, <2>1, <2>2
  <2>3. CASE Windowed
    <3> SUFFICES ASSUME NEW k \in DOMAIN reference'
                 PROVE  Holds(lists', k, reference'[k].timestamp)
      BY DEF AllHeld
    <3>1. k \in DOMAIN reference /\ reference[k].timestamp >= h /\ reference'[k] = reference[k]
      BY <1>2, <1>9, <2>3, DeleteOlderIs
    <3>2. k[1] \in Vertices /\ k[2] \in Vertices /\ reference[k].timestamp \in Nat
      <4>1. k \in Vertices \X Vertices /\ reference[k] \in Entries
        BY <3>1 DEF RefInv, RefGraph
      <4> QED BY <4>1 DEF Entries
    <3> DEFINE l == lists[k[1]]
    <3>3. PICK i \in DOMAIN l : l[i].neighbor = k[2] /\ "OUT" \in l[i].dirs
                                /\ l[i].timeRecent >= reference[k].timestamp
      BY <2>1, <3>1 DEF AllHeld, Holds
    <3>4. l[i].timeRecent \in Nat
      <4>1. ListOK(l, MinTimestamp)
        BY <1>1, <1>3, <3>2 DEF UpdatedOK
      <4>2. l[i] \in Slots
        BY <4>1 DEF ListOK
      <4> HIDE DEF l
      <4> QED BY <4>2 DEF Slots
    <3> HIDE DEF l
    <3>5. l[i].timeRecent >= h
      BY <1>6, <3>1, <3>2, <3>3, <3>4
    <3>6. lists'[k[1]] = Survivors(l, h)
      BY <1>7, <2>3, <3>2 DEF l
    <3>7. i \in DOMAIN Survivors(l, h) /\ Survivors(l, h)[i] = l[i]
      BY <3>3, <3>5 DEF Survivors, Expired
    <3> QED BY <3>1, <3>3, <3>6, <3>7 DEF Holds
  <2> QED BY <2>2, <2>3
<1> QED BY <1>2, <1>3, <1>5, <1>8, <1>10, <1>11, <1>12, MirrorNext DEF Single

LEMMA EndBatchMirror ==
  ASSUME IInv, RefInv, Mirror, EndBatch
  PROVE  Mirror'
<1> DEFINE span == BatchFirst .. BatchLast
<1>1. SetupOK /\ ControlOK /\ InflightOK /\ Dataset
  BY DatasetFacts DEF IInv
<1>2. /\ UNCHANGED <<setup, lists, vertex, next, inflight, snapshot>>
      /\ max_active_vertex' = MaxActive(vertex) /\ batch_id' = batch_id + 1
      /\ phase' # "insertions"
  BY DEF EndBatch
<1>3. /\ BatchFirst \in Nat \ {0} /\ BatchLast \in Nat
      /\ BatchFirst <= BatchLast + 1 /\ BatchLast <= Len(edges)
      /\ next - 1 = BatchLast /\ phase = "insertions" /\ inflight = {} /\ sort_mode = "UNSORTED"
      /\ reference' = Ref!InsertBatch(reference, SubSeq(edges, BatchFirst, BatchLast))
  BY EndBatchSpan
<1>4. Applied = span /\ Applied' = {}
  BY <1>2, <1>3 DEF Applied, OutPending
<1>5. RefGraph(reference) /\ RefGraph(reference')
  BY <1>1, <1>3, InsertSpan DEF RefInv
<1>6. /\ \A k \in DOMAIN reference' : CameFrom(reference', reference, k, BatchFirst, BatchLast)
      /\ \A k : WeightIn(reference', k) = WeightIn(reference, k) + Total(k, span)
  BY <1>1, <1>3, <1>5, SpanMore
<1> HIDE DEF span
<1>7. MaxOK'
  <2>1. MaxActive(vertex)' = MaxActive(vertex)
    BY <1>2 DEF MaxActive
  <2> QED BY <1>2, <2>1 DEF MaxOK
<1>8. /\ batch_id \in 0 .. NumBatches - 1 /\ batch_id \in Nat
      /\ BatchLast = batch_id' * BatchSize
      /\ batch_id * BatchSize \in Nat /\ batch_id * BatchSize <= BatchLast
  <2>1. batch_id \in 0 .. NumBatches - 1
    BY <1>1, <1>3, CurrentBatch
  <2>2. /\ BatchStart(batch_id) \in Nat \ {0} /\ BatchStart(batch_id) <= BatchEnd(batch_id)
    BY <1>1, <2>1, BatchFacts
  <2>3. batch_id \in Nat /\ BatchSize \in Nat
    BY <1>1, <2>1 DEF Dataset
  <2>4. batch_id * BatchSize \in Nat
    BY <2>3
  <2>5. batch_id * BatchSize <= BatchEnd(batch_id)
    BY <1>3, <2>2, <2>4 DEF BatchStart, BatchLast
  <2> QED BY <1>2, <2>1, <2>3, <2>4, <2>5 DEF BatchEnd, BatchLast
<1>9. ASSUME NEW k \in DOMAIN reference'
      PROVE  \/ k \in DOMAIN reference /\ reference'[k].timestamp = reference[k].timestamp
             \/ \E i \in span : Ends(edges[i]) = k /\ edges[i].timestamp = reference'[k].timestamp
  BY <1>6 DEF CameFrom, span
<1>10. ASSUME NEW k \in DOMAIN reference'
       PROVE  \E i \in 1 .. BatchLast : Ends(edges[i]) = k /\ edges[i].timestamp = reference'[k].timestamp
  <2>1. CASE k \in DOMAIN reference /\ reference'[k].timestamp = reference[k].timestamp
    <3>1. PICK i \in 1 .. batch_id * BatchSize :
            Ends(edges[i]) = k /\ edges[i].timestamp = reference[k].timestamp
      BY <2>1 DEF Mirror, FromUpTo
    <3>2. i \in 1 .. BatchLast
      BY <1>3, <1>8
    <3> QED BY <2>1, <3>1, <3>2
  <2>2. CASE \E i \in span : Ends(edges[i]) = k /\ edges[i].timestamp = reference'[k].timestamp
    <3>1. PICK i \in span : Ends(edges[i]) = k /\ edges[i].timestamp = reference'[k].timestamp
      BY <2>2
    <3>2. i \in 1 .. BatchLast
      BY <1>3 DEF span
    <3> QED BY <3>1, <3>2
  <2> QED BY <1>9, <2>1, <2>2
<1>11. FromUpTo(reference', batch_id' * BatchSize)
  BY <1>8, <1>10 DEF FromUpTo
<1>12. ASSUME ~Windowed
       PROVE  WeightsAre(lists', reference', {})
  <2>1. WeightsAre(lists, reference, span)
    BY <1>3, <1>4, <1>12 DEF Mirror, WeightsOK
  <2>2. ASSUME NEW u \in Vertices, NEW v \in Vertices
        PROVE  SlotWeight(lists'[u], v) = WeightIn(reference', <<u, v>>) + Total(<<u, v>>, {})
    <3>1. SlotWeight(lists[u], v) = WeightIn(reference', <<u, v>>)
      BY <1>6, <2>1 DEF WeightsAre
    <3>2. Total(<<u, v>>, {}) = 0
      BY <1>1, TotalFacts
    <3>3. WeightIn(reference', <<u, v>>) \in Nat
      <4>1. 1 \in DOMAIN edges
        BY <1>1 DEF Dataset
      <4>2. edges[1] \in Edges
        BY <1>1, <4>1, TimeFacts
      <4> QED BY <1>5, <4>2, InsertEdgeMore
    <3> QED BY <1>2, <3>1, <3>2, <3>3
  <2> QED BY <1>2, <2>1, <2>2 DEF WeightsAre
<1>13. ASSUME num_threads = 1
       PROVE  AllHeld(lists', reference', {})
  <2>1. AllHeld(lists, reference, span)
    BY <1>3, <1>4, <1>13 DEF Mirror, HeldOK
  <2> QED BY <1>2, <1>9, <2>1 DEF AllHeld
<1> QED BY <1>2, <1>3, <1>4, <1>7, <1>11, <1>12, <1>13, MirrorNext DEF Single

\* A snapshot has an entry of the reference's timestamp for every edge the
\* reference has: what is in the window has passed the filter of the snapshot.
LEMMA ConstructMirror ==
  ASSUME IInv, RefInv, Mirror, Construct
  PROVE  Mirror'
<1> DEFINE b == batch_id
           first == FilteredStart(BatchStart(b), b)
           last == BatchEnd(b)
           start == FilteredStart(1, b)
           h == Threshold(b)
           kept == IF Windowed THEN Ref!DeleteOlderThan(reference, h) ELSE reference
           entries == {edges[i] : i \in start .. last}
<1>1. SetupOK /\ ControlOK /\ InflightOK /\ Dataset
  BY DatasetFacts DEF IInv
<1>2. /\ UNCHANGED setup /\ inflight' = inflight
      /\ phase = "before_batch" /\ sort_mode = "SNAPSHOT" /\ snapshot' \in Snapshots(b)
      /\ max_active_vertex' = MaxActive(vertex')
      /\ reference' = Ref!InsertBatch(kept, SubSeq(edges, Min(Batch(b)), last))
      /\ batch_id' = b + 1 /\ phase' # "insertions"
  BY DEF Construct
<1>3. inflight = {} /\ edges' = edges /\ window' = window
  BY <1>1, <1>2 DEF InflightOK, setup
<1>4. /\ b \in 0 .. NumBatches - 1 /\ b \in Nat
      /\ h \in Nat /\ h >= MinTimestamp /\ (~Windowed => h = MinTimestamp)
  <2>1. b \in 0 .. NumBatches - 1
    BY <1>1, <1>2, CurrentBatch
  <2> QED BY <1>1, <2>1, TimeFacts
<1>5. /\ BatchStart(b) \in Nat \ {0} /\ last \in DOMAIN edges /\ last \in Nat
      /\ BatchStart(b) <= last /\ last <= Len(edges)
      /\ Len(edges) \in Nat /\ DOMAIN edges = 1 .. Len(edges)
  BY <1>1, <1>4, BatchFacts DEF Dataset
<1>6. Min(Batch(b)) = first /\ first <= last /\ first \in BatchStart(b) .. last + 1
  BY <1>1, <1>4, <1>5, BatchNotEmpty, FilterFacts
<1>7. start \in 1 .. last + 1 /\ \A i \in 1 .. last : edges[i].timestamp >= h => start <= i
  <2>1. 1 \in Nat \ {0} /\ 1 <= last
    BY <1>5
  <2> QED BY <1>1, <1>4, <2>1, FilterFacts
<1>8. \A i \in start .. last : i \in 1 .. last /\ edges[i].timestamp >= h
  <2>1. 1 \in Nat \ {0} /\ 1 <= last
    BY <1>5
  <2> QED BY <1>1, <1>4, <2>1, FilteredIsNew
<1>9. \A i \in first .. last : i \in 1 .. last /\ edges[i].timestamp >= h
  <2>1. \A i \in first .. last : edges[i].timestamp >= h
    BY <1>1, <1>4, <1>5, FilteredIsNew
  <2>2. first \in Nat \ {0}
    BY <1>5, <1>6
  <2> HIDE DEF first, last
  <2> QED BY <1>5, <2>1, <2>2
<1>10. \A i \in DOMAIN edges : edges[i].timestamp \in Nat /\ edges[i].timestamp >= MinTimestamp
  <2> SUFFICES ASSUME NEW i \in DOMAIN edges
               PROVE  edges[i].timestamp \in Nat /\ edges[i].timestamp >= MinTimestamp
    OBVIOUS
  <2>1. edges[i] \in Edges /\ MinTimestamp <= edges[i].timestamp /\ MinTimestamp \in Nat
    BY <1>1, TimeFacts
  <2>2. edges[i].timestamp \in Nat
    BY <2>1 DEF Edges
  <2> QED BY <2>1, <2>2
<1>11. b * BatchSize \in Nat /\ b * BatchSize <= last /\ last = batch_id' * BatchSize
  <2>1. b \in Nat /\ BatchSize \in Nat
    BY <1>1, <1>4 DEF Dataset
  <2>2. b * BatchSize \in Nat
    BY <2>1
  <2>3. BatchStart(b) = b * BatchSize + 1 /\ last = (b + 1) * BatchSize
    BY DEF BatchStart, BatchEnd
  <2> HIDE DEF b, last
  <2>4. b * BatchSize <= last
    BY <1>5, <2>2, <2>3
  <2> QED BY <1>2, <2>2, <2>3, <2>4
<1>12. RefGraph(kept) /\ DOMAIN kept \subseteq DOMAIN reference /\ \A k \in DOMAIN kept : kept[k] = reference[k]
  <2>1. RefGraph(reference)
    BY DEF RefInv
  <2> HIDE DEF h
  <2>2. CASE Windowed
    BY <1>4, <2>1, <2>2, DeleteOlderFacts, DeleteOlderIs
  <2>3. CASE ~Windowed
    BY <2>1, <2>3
  <2> QED BY <2>2, <2>3
<1>13. ASSUME NEW k \in DOMAIN kept
       PROVE  /\ \E i \in 1 .. last : Ends(edges[i]) = k /\ edges[i].timestamp = kept[k].timestamp
              /\ kept[k].timestamp >= h
  <2>1. PICK i \in 1 .. b * BatchSize : Ends(edges[i]) = k /\ edges[i].timestamp = reference[k].timestamp
    BY <1>12 DEF Mirror, FromUpTo
  <2>2. i \in 1 .. last
    <3> HIDE DEF last, b
    <3> QED BY <1>5, <1>11
  <2>3. kept[k].timestamp >= h
    <3>1. CASE Windowed
      BY <3>1, DeleteOlderIs
    <3>2. CASE ~Windowed
      <4>1. i \in DOMAIN edges
        BY <1>5, <2>2
      <4> QED BY <1>4, <1>10, <1>12, <2>1, <3>2, <4>1
    <3> QED BY <3>1, <3>2
  <2> QED BY <1>12, <2>1, <2>2, <2>3
<1>14. first \in Nat \ {0} /\ first <= last + 1
  BY <1>5, <1>6
<1> HIDE DEF b, first, last, start, h, kept, entries
<1>15. \A k \in DOMAIN reference' : CameFrom(reference', kept, k, first, last)
  BY <1>1, <1>2, <1>5, <1>6, <1>12, <1>14, SpanMore
<1>16. ASSUME NEW k \in DOMAIN reference'
       PROVE  \E i \in 1 .. last : /\ Ends(edges[i]) = k /\ edges[i].timestamp = reference'[k].timestamp
                                   /\ edges[i].timestamp >= h
  <2>1. CASE k \in DOMAIN kept /\ reference'[k].timestamp = kept[k].timestamp
    BY <1>13, <2>1
  <2>2. CASE \E i \in first .. last : Ends(edges[i]) = k /\ edges[i].timestamp = reference'[k].timestamp
    BY <1>9, <2>2
  <2> QED BY <1>15, <2>1, <2>2 DEF CameFrom
<1>17. FromUpTo(reference', batch_id' * BatchSize)
  BY <1>11, <1>16 DEF FromUpTo
<1>18. \A i \in 1 .. last : edges[i].timestamp >= h =>
         Covers(reference', Ends(edges[i]), edges[i].timestamp)
  <2>1. RefInv'
    BY ConstructRef
  <2>2. batch_id' - 1 = b /\ batch_id' > 0 /\ sort_mode' = "SNAPSHOT"
    BY <1>2, <1>4 DEF setup
  <2>3. PrefixCovered(reference, batch_id - 1)'
    BY <2>1, <2>2 DEF RefInv
  <2>4. BatchEnd(batch_id - 1)' = last /\ Threshold(batch_id - 1)' = h
    BY <1>3, <2>2 DEF BatchEnd, Threshold, MinTimestamp, Ref!Later, last, h
  <2> QED BY <1>3, <2>3, <2>4 DEF PrefixCovered, Covers, Ends
<1>19. /\ snapshot' \in SUBSET entries
       /\ \A e \in entries : \E f \in snapshot' :
            {g \in snapshot' : SameEdge(e, g)} = {f} /\ f.timestamp >= e.timestamp
  BY <1>2 DEF Snapshots, Deduplicated, entries, start, last
<1>20. ASSUME NEW k \in DOMAIN reference'
       PROVE  \E f \in snapshot' : Ends(f) = k /\ f.timestamp = reference'[k].timestamp
  <2>1. PICK i \in 1 .. last : /\ Ends(edges[i]) = k /\ edges[i].timestamp = reference'[k].timestamp
                               /\ edges[i].timestamp >= h
    BY <1>16
  <2>2. i \in start .. last
    BY <1>7, <2>1
  <2>3. edges[i] \in entries
    BY <2>2 DEF entries
  <2>4. PICK f \in snapshot' : {g \in snapshot' : SameEdge(edges[i], g)} = {f} /\ f.timestamp >= edges[i].timestamp
    BY <1>19, <2>3
  <2>5. SameEdge(edges[i], f)
    BY <2>4
  <2>6. Ends(f) = k
    BY <2>1, <2>5 DEF SameEdge, Ends
  <2>7. PICK j \in start .. last : f = edges[j]
    BY <1>19 DEF entries
  <2>8. j \in 1 .. last /\ edges[j].timestamp >= h
    BY <1>8
  <2>9. Covers(reference', k, f.timestamp)
    BY <1>18, <2>6, <2>7, <2>8
  <2>10. i \in DOMAIN edges /\ j \in DOMAIN edges
    BY <1>5, <2>1, <2>8
  <2>11. f.timestamp \in Nat /\ edges[i].timestamp \in Nat
    BY <1>10, <2>7, <2>10
  <2> QED BY <2>1, <2>4, <2>6, <2>9, <2>11 DEF Covers
<1>21. KeptAll(snapshot', reference')
  BY <1>20 DEF KeptAll
<1>22. MaxOK'
  <2>1. MaxActive(vertex)' = MaxActive(vertex')
    BY DEF MaxActive
  <2> QED BY <1>2, <2>1 DEF MaxOK
<1> QED BY <1>2, <1>3, <1>17, <1>21, <1>22, MirrorNext DEF Single

LEMMA MirrorAlways == Spec => []Mirror
<1>1. Init => Mirror
  BY InitMirror
<1>2. IInv /\ RefInv /\ Mirror /\ [Next]_vars => Mirror'
  <2> SUFFICES ASSUME IInv, RefInv, Mirror, [Next]_vars PROVE Mirror'
    OBVIOUS
  <2>1. CASE BeforeBatch
    BY <2>1, BeforeBatchMirror
  <2>2. CASE Delete
    BY <2>2, DeleteMirror
  <2>3. CASE Take
    BY <2>3, TakeMirror
  <2>4. CASE EndBatch
    BY <2>4, EndBatchMirror
  <2>5. CASE Construct
    BY <2>5, ConstructMirror
  <2>6. CASE Done \/ UNCHANGED vars
    BY <2>6, StutterMirror DEF Done
  <2>7. CASE \E c \in inflight : InsertHalf(c)
    BY <2>7, InsertHalfMirror
  <2> QED BY <2>1, <2>2, <2>3, <2>4, <2>5, <2>6, <2>7 DEF Next
<1> QED BY <1>1, <1>2, Invariant, RefAlways, PTL DEF Spec

-----------------------------------------------------------------------------
(* The graph is that of the reference implementation.                      *)

Exact == num_threads = 1 \/ sort_mode = "SNAPSHOT"

LEMMA SameEdges ==
  ASSUME IInv, RefInv, Mirror, AtRest, Exact
  PROVE  OutEdges(lists) = RefEdges
<1>1. SetupOK /\ LoadedOK /\ Dataset
  BY DatasetFacts DEF IInv
<1>2. OutEdges(lists) \subseteq RefEdges
  BY NoStale DEF NoStaleEdge
<1>3. ASSUME NEW k \in RefEdges
      PROVE  k \in OutEdges(lists)
  <2>1. k \in Vertices \X Vertices /\ k \in DOMAIN reference
    BY <1>3 DEF RefInv, RefGraph, RefEdges
  <2>2. CASE sort_mode = "UNSORTED"
    <3>1. Holds(lists, k, reference[k].timestamp)
      BY <2>1, <2>2 DEF Exact, Mirror, HeldOK, AllHeld
    <3>2. k[2] \in Neighbors(lists[k[1]], "OUT")
      BY <3>1 DEF Holds, Neighbors
    <3> QED BY <2>1, <3>2 DEF OutEdges
  <2>3. CASE sort_mode = "SNAPSHOT"
    <3>1. PICK f \in snapshot : Ends(f) = k
      BY <2>1, <2>3 DEF Mirror, SnapshotHeld, KeptAll
    <3>2. HasEdge(snapshot, k[1], k[2])
      BY <3>1 DEF HasEdge, Ends
    <3>3. SnapshotOK(snapshot) /\ lists = [v \in Vertices |-> LoadedList(snapshot, v)]
      BY <1>1, <2>3, SnapshotIsOK DEF LoadedOK
    <3> QED BY <2>1, <3>2, <3>3, LoadedEdges
  <2> QED BY <1>1, <2>2, <2>3 DEF Dataset
<1> QED BY <1>2, <1>3

LEMMA SameTimes ==
  ASSUME IInv, RefInv, Mirror, AtRest, Exact, NEW e \in RefEdges,
         sort_mode = "UNSORTED" \/ <<e[2], e[1]>> \notin RefEdges
  PROVE  OutSlot(lists, e[1], e[2]).timeRecent = reference[e].timestamp
<1>1. SetupOK /\ ControlOK /\ UpdatedOK /\ LoadedOK /\ Dataset
  BY DatasetFacts DEF IInv
<1>2. e \in Vertices \X Vertices /\ e \in DOMAIN reference /\ reference[e].timestamp \in Nat
  BY DEF RefInv, RefGraph, RefEdges, Entries
<1> DEFINE u == e[1]
           v == e[2]
<1>3. u \in Vertices /\ v \in Vertices /\ e = <<u, v>>
  BY <1>2
<1>4. v \in Neighbors(lists[u], "OUT")
  <2>1. e \in OutEdges(lists)
    BY SameEdges
  <2> QED BY <2>1 DEF OutEdges
<1> HIDE DEF u, v
<1>5. CASE sort_mode = "UNSORTED"
  <2>1. ListOK(lists[u], MinTimestamp)
    BY <1>1, <1>3, <1>5 DEF UpdatedOK
  <2>2. PICK i : IsOutSlot(lists, u, v, i)
    BY <1>3, <1>4, <2>1, OutSlotIs
  <2>3. Holds(lists, e, reference[e].timestamp)
    BY <1>2, <1>5 DEF Exact, Mirror, HeldOK, AllHeld
  <2>4. i \in DOMAIN lists[u] /\ lists[u][i].timeRecent >= reference[e].timestamp
    BY <2>2, <2>3 DEF Holds, IsOutSlot, u, v
  <2>5. Known(e, lists[u][i].timeRecent)
    BY <1>3, <1>5, <2>2 DEF IsOutSlot, RefInv, SlotsKnown
  <2>6. ~HandedOut(e, lists[u][i].timeRecent)
    BY <1>1, AtRestMeans DEF HandedOut
  <2>7. lists[u][i].timeRecent \in Nat
    <3>1. lists[u][i] \in Slots
      BY <2>1, <2>4 DEF ListOK
    <3> QED BY <3>1 DEF Slots
  <2>8. lists[u][i].timeRecent = reference[e].timestamp
    BY <1>2, <2>4, <2>5, <2>6, <2>7 DEF Known, Covers
  <2> QED BY <2>2, <2>8 DEF IsOutSlot, u, v
<1>6. CASE sort_mode = "SNAPSHOT"
  <2>1. SnapshotOK(snapshot) /\ Loads(lists, snapshot)
    BY <1>1, <1>6, SnapshotIsOK DEF LoadedOK, Loads
  <2>2. PICK f \in snapshot : Ends(f) = e /\ f.timestamp = reference[e].timestamp
    BY <1>2, <1>6 DEF Mirror, SnapshotHeld, KeptAll
  <2>3. f.src = u /\ f.dst = v
    BY <2>2 DEF Ends, u, v
  <2>4. NoOpposite(snapshot, f)
    <3> SUFFICES ASSUME NEW g \in snapshot, g.src = f.dst, g.dst = f.src PROVE FALSE
      BY DEF NoOpposite
    <3>1. Ends(g) \in DOMAIN reference
      BY <1>6 DEF RefInv
    <3>2. Ends(g) = <<v, u>>
      BY <2>3 DEF Ends
    <3> QED BY <1>6, <3>1, <3>2 DEF RefEdges, u, v
  <2>5. \A i \in SlotsOf(lists[u], v) : lists[u][i].timeRecent = f.timestamp
    BY <2>1, <2>3, <2>4, LoadedWeights
  <2> DEFINE A == {i \in SlotsOf(lists[u], v) : "OUT" \in lists[u][i].dirs}
  <2>6. A # {}
    BY <1>4 DEF Neighbors, SlotsOf
  <2>7. A \in SUBSET Nat
    <3>1. lists[u] \in Seq(Slots)
      BY <1>1, <1>3, GraphTypes
    <3>2. DOMAIN lists[u] \in SUBSET Nat
      BY <3>1
    <3> QED BY <3>2 DEF SlotsOf
  <2>8. Min(A) \in A
    <3> HIDE DEF A
    <3> QED BY <2>6, <2>7, MinOf
  <2>9. Min(A) \in SlotsOf(lists[u], v)
    BY <2>8
  <2>10. OutSlot(lists, u, v) = lists[u][Min(A)]
    BY DEF OutSlot
  <2> HIDE DEF A
  <2> QED BY <2>2, <2>5, <2>9, <2>10 DEF u, v
<1> QED BY <1>1, <1>5, <1>6 DEF Dataset

LEMMA SameDegrees ==
  ASSUME IInv, RefInv, Mirror, AtRest, Exact, NEW v \in Vertices
  PROVE  vertex[v].outDegree = Cardinality({e \in RefEdges : e[1] = v})
<1>1. SetupOK /\ UpdatedOK /\ LoadedOK /\ Dataset
  BY DatasetFacts DEF IInv
<1>2. RefEdges = OutEdges(lists)
  BY SameEdges
<1>3. CASE sort_mode = "SNAPSHOT"
  <2>1. vertex[v] = LoadedVertex(lists, v)
    BY <1>1, <1>3 DEF LoadedOK
  <2> QED BY <1>2, <2>1 DEF LoadedVertex
<1>4. CASE sort_mode = "UNSORTED"
  <2> DEFINE O == Neighbors(lists[v], "OUT")
  <2>1. ListOK(lists[v], MinTimestamp) /\ vertex[v].outDegree = Directed(lists[v], "OUT")
    BY <1>1, <1>4 DEF UpdatedOK, Counts
  <2>2. O \in SUBSET Vertices /\ IsFiniteSet(O) /\ Directed(lists[v], "OUT") = Cardinality(O)
    BY <2>1, NeighborCount
  <2>3. {e \in OutEdges(lists) : e[1] = v} = {e \in Vertices \X Vertices : e[1] = v /\ e[2] \in O}
    BY DEF OutEdges
  <2> HIDE DEF O
  <2>4. Cardinality({e \in Vertices \X Vertices : e[1] = v /\ e[2] \in O}) = Cardinality(O)
    BY <2>2, EdgeCount
  <2> QED BY <1>2, <2>1, <2>2, <2>3, <2>4
<1> QED BY <1>1, <1>3, <1>4 DEF Dataset

\* What the benchmark reports is a sum over all vertices up to the last active one.
LEMMA UpToIs ==
  ASSUME NEW V, NEW n \in Nat, NEW inc,
         \A i \in 1 .. n : inc[i] = IF i - 1 \in Vertices THEN V[i - 1].outDegree ELSE 0
  PROVE  \E f : IsSum(f, inc, n) /\ edges_up_to(V, n) = f[n]
<1> DEFINE Q(f) == f = [i \in 0 .. n |->
                         IF i = 0 THEN 0
                         ELSE f[i - 1] + (IF i - 1 \in Vertices THEN V[i - 1].outDegree ELSE 0)]
           a == CHOOSE f : Q(f)
<1>1. edges_up_to(V, n) = a[n]
  BY DEF edges_up_to
<1>2. ASSUME NEW f
      PROVE  Q(f) <=> IsSum(f, inc, n)
  <2>1. \A i \in 0 .. n :
          (IF i = 0 THEN 0
           ELSE f[i - 1] + (IF i - 1 \in Vertices THEN V[i - 1].outDegree ELSE 0)) =
          (IF i = 0 THEN 0 ELSE f[i - 1] + inc[i])
    <3> SUFFICES ASSUME NEW i \in 0 .. n, i # 0
                 PROVE  (IF i - 1 \in Vertices THEN V[i - 1].outDegree ELSE 0) = inc[i]
      OBVIOUS
    <3>1. i \in 1 .. n
      OBVIOUS
    <3> QED BY <3>1
  <2>2. [i \in 0 .. n |->
           IF i = 0 THEN 0
           ELSE f[i - 1] + (IF i - 1 \in Vertices THEN V[i - 1].outDegree ELSE 0)] =
        [i \in 0 .. n |-> IF i = 0 THEN 0 ELSE f[i - 1] + inc[i]]
    BY <2>1
  <2> QED BY <2>2 DEF IsSum
<1>3. \E f : Q(f)
  <2>1. PICK f : IsSum(f, inc, n)
    BY SumExists
  <2>2. Q(f)
    BY <1>2, <2>1
  <2> QED BY <2>2
<1> HIDE DEF Q
<1>4. Q(a)
  BY <1>3
<1> HIDE DEF a
<1> QED BY <1>1, <1>2, <1>4

LEMMA SameNumber ==
  ASSUME IInv, RefInv, Mirror, AtRest, Exact
  PROVE  get_num_edges = Cardinality(RefEdges)
<1>1. SetupOK /\ ControlOK /\ Dataset
  BY DatasetFacts DEF IInv
<1>2. RefEdges \in SUBSET (Vertices \X Vertices)
  BY DEF RefInv, RefGraph, RefEdges
<1>3. Vertices \subseteq Nat /\ IsFiniteSet(Vertices)
  BY DatasetAssumption
<1>4. IsFiniteSet(RefEdges)
  <2>1. IsFiniteSet(Vertices \X Vertices)
    BY <1>3, FS_Product
  <2> QED BY <1>2, <2>1, FS_Subset
<1>5. max_active_vertex = MaxActive(vertex)
  BY <1>1, AtRestMeans DEF Mirror, MaxOK
<1>6. /\ MaxActive(vertex) \in Nat
      /\ \A v \in Vertices : vertex[v].outDegree > 0 => v <= MaxActive(vertex)
  BY MaxActiveIn
<1> DEFINE n == max_active_vertex + 1
           inc == [i \in 1 .. n |-> IF i - 1 \in Vertices THEN vertex[i - 1].outDegree ELSE 0]
           From(v) == {e \in RefEdges : e[1] = v}
<1>7. n \in Nat /\ \A v : v <= MaxActive(vertex) /\ v \in Nat => v < n
  BY <1>5, <1>6
<1>8. \A i \in 1 .. n : inc[i] = IF i - 1 \in Vertices THEN vertex[i - 1].outDegree ELSE 0
  OBVIOUS
<1>9. get_num_edges = edges_up_to(vertex, n)
  BY DEF get_num_edges
<1> HIDE DEF n, inc
<1>10. PICK f : IsSum(f, inc, n) /\ edges_up_to(vertex, n) = f[n]
  BY <1>7, <1>8, UpToIs
<1>11. \A v \in Vertices : vertex[v].outDegree = Cardinality(From(v))
  BY SameDegrees
<1>12. PerSource(inc, RefEdges, n)
  <2> SUFFICES ASSUME NEW i \in 1 .. n
               PROVE  inc[i] = Cardinality(From(i - 1))
    BY DEF PerSource
  <2>1. CASE i - 1 \in Vertices
    <3> HIDE DEF From
    <3> QED BY <1>8, <1>11, <2>1
  <2>2. CASE i - 1 \notin Vertices
    <3>1. From(i - 1) = {}
      BY <1>2, <2>2
    <3>2. inc[i] = 0
      BY <1>8, <2>2
    <3> QED BY <3>1, <3>2, FS_EmptySet
  <2> QED BY <2>1, <2>2
<1>13. \A e \in RefEdges : e[1] \in Nat
  BY <1>2, <1>3
<1>14. f[n] = Cardinality({e \in RefEdges : e[1] < n})
  BY <1>4, <1>7, <1>10, <1>12, <1>13, CountBySource
<1>15. ASSUME NEW e \in RefEdges
       PROVE  e[1] < n
  <2>1. e[1] \in Vertices /\ e[1] \in Nat
    BY <1>2, <1>13
  <2>2. e \in From(e[1]) /\ From(e[1]) \in SUBSET RefEdges
    OBVIOUS
  <2>3. IsFiniteSet(From(e[1])) /\ Cardinality(From(e[1])) \in Nat
    BY <1>4, <2>2, FS_Subset, FS_CardinalityType
  <2>4. Cardinality(From(e[1])) # 0
    <3> HIDE DEF From
    <3> QED BY <2>2, <2>3, FS_EmptySet
  <2>5. vertex[e[1]].outDegree > 0
    <3> HIDE DEF From
    <3> QED BY <1>11, <2>1, <2>3, <2>4
  <2> QED BY <1>6, <1>7, <2>1, <2>5
<1>16. {e \in RefEdges : e[1] < n} = RefEdges
  BY <1>15
<1> QED BY <1>9, <1>10, <1>14, <1>16

LEMMA SameWeights ==
  ASSUME IInv, RefInv, Mirror, sort_mode = "UNSORTED", ~Windowed
  PROVE  WeightsMatch
<1> SUFFICES ASSUME AtRest, NEW e \in RefEdges \cap OutEdges(lists)
             PROVE  OutSlot(lists, e[1], e[2]).weight = reference[e].weight
  BY DEF WeightsMatch
<1>1. SetupOK /\ ControlOK /\ UpdatedOK /\ Dataset
  BY DatasetFacts DEF IInv
<1> DEFINE u == e[1]
           v == e[2]
<1>2. /\ u \in Vertices /\ v \in Vertices /\ e = <<u, v>> /\ v \in Neighbors(lists[u], "OUT")
      /\ e \in DOMAIN reference
  BY DEF OutEdges, RefEdges
<1>3. reference[e].weight \in Nat
  BY <1>2 DEF RefInv, RefGraph, Entries
<1> HIDE DEF u, v
<1>4. ListOK(lists[u], MinTimestamp)
  BY <1>1, <1>2 DEF UpdatedOK
<1>5. PICK i : IsOutSlot(lists, u, v, i)
  BY <1>2, <1>4, OutSlotIs
<1>6. SlotWeight(lists[u], v) = lists[u][i].weight
  BY <1>2, <1>4, <1>5, SlotWeightIs DEF IsOutSlot
<1>7. Applied = {}
  BY <1>1, AtRestMeans DEF Applied
<1>8. WeightsAre(lists, reference, {})
  BY <1>7 DEF Mirror, WeightsOK
<1>9. SlotWeight(lists[u], v) = WeightIn(reference, e) + Total(e, {})
  BY <1>2, <1>8 DEF WeightsAre
<1>10. Total(e, {}) = 0
  BY <1>1, TotalFacts
<1>11. WeightIn(reference, e) = reference[e].weight
  BY <1>2 DEF WeightIn
<1>12. lists[u][i].weight = reference[e].weight
  BY <1>3, <1>6, <1>9, <1>10, <1>11
<1> QED BY <1>5, <1>12 DEF IsOutSlot, u, v

\* run_dynamic with one thread, and run_static with any number, leave the graph
\* of the reference implementation, which gets the same deletions and batches:
\* the edges, the timestamps of their last updates, the out-degrees and
\* get_num_edges.  Without deletions, any number of threads in any order leave
\* consistent degrees and in every slot the sum of the weights inserted.
THEOREM MatchesReferenceHolds == Spec => []MatchesReference
<1>1. IInv /\ Paired /\ RefInv /\ Mirror => MatchesReference
  <2> SUFFICES ASSUME IInv, Paired, RefInv, Mirror PROVE MatchesReference
    OBVIOUS
  <2>1. ASSUME AtRest, Exact
        PROVE  /\ OutEdges(lists) = RefEdges
               /\ \A e \in RefEdges :
                    sort_mode = "UNSORTED" \/ <<e[2], e[1]>> \notin RefEdges =>
                      OutSlot(lists, e[1], e[2]).timeRecent = reference[e].timestamp
               /\ \A v \in Vertices : vertex[v].outDegree = Cardinality({e \in RefEdges : e[1] = v})
               /\ get_num_edges = Cardinality(RefEdges)
    BY <2>1, SameEdges, SameTimes, SameDegrees, SameNumber
  <2>2. sort_mode = "UNSORTED" /\ ~Windowed => Consistent /\ WeightsMatch
    BY InsertedIsConsistent, SameWeights
  <2> QED BY <2>1, <2>2 DEF MatchesReference, Exact
<1> QED BY <1>1, Invariant, PairedAlways, RefAlways, MirrorAlways, PTL
=============================================================================
