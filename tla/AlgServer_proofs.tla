-------------------------- MODULE AlgServer_proofs --------------------------
(***************************************************************************)
(* Theorems about AlgServer for any number of algorithms and batches.  In  *)
(* every scenario: what the tree of algorithms holds, with those that a    *)
(* registration cut off and the names that two threads were registering at *)
(* once told apart, and that the server and the algorithms agree on the    *)
(* next call.  In those where the names are distinct and no registration   *)
(* cuts the tree or shifts it under the process loop (Orderly): that an    *)
(* algorithm computes on a graph that stands still.  And in those where    *)
(* nothing is cut off between batches either (Tidy): that the loop serves  *)
(* every algorithm, in the order of the dependencies.                      *)
(***************************************************************************)
EXTENDS AlgServer, WellFoundedInduction, FiniteSetTheorems, SequenceTheorems, TLAPS

-----------------------------------------------------------------------------
(* Types.                                                                  *)

AlgStates == {"none", "READY_INIT", "PERFORMING_INIT", "READY_PRE", "PERFORMING_PRE",
              "READY_POST", "PERFORMING_POST", "ERROR"}
Levels == 0 .. Cardinality(Algs)

Types ==
  /\ scenario \in ScenarioType
  /\ alg_tree \in Seq(Seq(Algs))
  /\ alg_map \in [Algs -> Algs \cup {NoAlg}]
  /\ cut \subseteq Algs /\ contested \subseteq Algs
  /\ state \in [Algs -> AlgStates]
  /\ level \in [Algs -> Levels]
  /\ open \in [Algs -> BOOLEAN] /\ waiting \in [Algs -> BOOLEAN]
  /\ conn \in [Algs -> ConnStates]
  /\ call \in [Algs -> Actions \cup {"none", "register"}]
  /\ starts \in [Algs -> Nat]
  /\ to_server \in [Algs -> Actions \cup {NoMessage}]
  /\ to_alg \in [Algs -> [result : {"none", "success", "failure"}, batch : 0 .. NumBatches]]
  /\ joined \in [Algs -> Nat]
  /\ got \in [Algs -> [BeginActions -> 0 .. NumBatches]]
  /\ srv \in SrvType /\ srv.level > 0 /\ srv.index > 0
  /\ srv.pc = "handle" => srv.cur \in Algs
  /\ batch \in 0 .. NumBatches /\ graph \in Nat

LEMMA SizeIsNat == Cardinality(Algs) \in Nat
BY AlgServerAssumption, FS_CardinalityType

LEMMA PassNames ==
  Passes = {"init", "begin_pre", "end_pre", "begin_post", "end_post"}
BY DEF Passes, Exchanges, Exchange

LEMMA WorkingStates ==
  Working = {"READY_INIT", "PERFORMING_INIT", "READY_PRE", "PERFORMING_PRE", "READY_POST",
             "PERFORMING_POST"}
BY DEF Working, Exchanges, Exchange

LEMMA NextCalls ==
  /\ NextCall \in [Actions \cup {"register"} -> Actions]
  /\ NextCall["register"] = "begin_init" /\ NextCall["begin_init"] = "end_init"
  /\ NextCall["end_init"] = "begin_pre" /\ NextCall["begin_pre"] = "end_pre"
  /\ NextCall["end_pre"] = "begin_post" /\ NextCall["begin_post"] = "end_post"
  /\ NextCall["end_post"] = "begin_pre"
BY DEF NextCall, Actions

LEMMA InitTypes == Init => Types
<1> SUFFICES ASSUME Init PROVE Types
  OBVIOUS
<1> USE AlgServerAssumption DEF Init
<1>1. scenario \in ScenarioType /\ starts \in [Algs -> Nat]
  BY DEF ScenarioType
<1>2. alg_tree \in Seq(Seq(Algs))
  OBVIOUS
<1>3. 0 \in 0 .. NumBatches /\ 0 \in Levels
  BY SizeIsNat DEF Levels
<1>4. got \in [Algs -> [BeginActions -> 0 .. NumBatches]]
  <2>1. [begin_pre |-> 0, begin_post |-> 0] \in [BeginActions -> 0 .. NumBatches]
    BY <1>3 DEF BeginActions
  <2> QED BY <2>1
<1>5. to_alg \in [Algs -> [result : {"none", "success", "failure"}, batch : 0 .. NumBatches]]
  BY <1>3 DEF NoReply, Reply
<1>6. /\ srv \in SrvType /\ srv.level > 0 /\ srv.index > 0
      /\ srv.pc = "handle" => srv.cur \in Algs
  BY PassNames DEF SrvType
<1> QED BY <1>1, <1>2, <1>3, <1>4, <1>5, <1>6
        DEF Types, AlgStates, ConnStates, NoMessage
-----------------------------------------------------------------------------
(* Rows and trees.                                                         *)

\* A set of natural numbers that has elements has a least one.
LEMMA LeastOf ==
  ASSUME NEW N \in SUBSET Nat, N # {}
  PROVE  \E k \in N : \A m \in N : k <= m
<1>1. \E k \in N : \A m \in N : ~(<<m, k>> \in OpToRel(<, Nat))
  BY NatLessThanWellFounded, WFMin
<1>2. PICK k \in N : \A m \in N : <<m, k>> \notin OpToRel(<, Nat)
  BY <1>1
<1>3. \A m \in N : ~(m < k)
  BY <1>2, Zenon DEF OpToRel
<1> QED BY <1>3

\* How many of the first i places of a row stay.
Stay(gone, i) == i - Cardinality(gone \cap (1 .. i))

LEMMA StaySteps ==
  ASSUME NEW n \in Nat, NEW gone \in SUBSET (1 .. n)
  PROVE  /\ Stay(gone, 0) = 0 /\ Stay(gone, n) = n - Cardinality(gone)
         /\ IsFiniteSet(gone) /\ Cardinality(gone) \in Nat /\ Cardinality(gone) <= n
         /\ \A i \in 0 .. n : Stay(gone, i) \in Int
<1>1. IsFiniteSet(1 .. n) /\ Cardinality(1 .. n) = n
  <2>1. 1 \in Int /\ n \in Int
    OBVIOUS
  <2>2. Cardinality(1 .. n) = IF 1 > n THEN 0 ELSE n - 1 + 1
    BY <2>1, FS_Interval, Zenon
  <2> QED BY <2>1, <2>2, FS_Interval
<1>2. IsFiniteSet(gone) /\ Cardinality(gone) \in Nat /\ Cardinality(gone) <= n
  BY <1>1, FS_Subset, FS_CardinalityType
<1>3. \A i \in 0 .. n : /\ IsFiniteSet(gone \cap (1 .. i))
                        /\ Cardinality(gone \cap (1 .. i)) \in Nat
  BY <1>2, FS_Subset, FS_CardinalityType
<1>4. gone \cap (1 .. 0) = {} /\ gone \cap (1 .. n) = gone
  <2>1. \A k \in gone : k \in 1 .. n
    OBVIOUS
  <2>2. gone \cap (1 .. n) = gone
    BY <2>1, Zenon
  <2>3. 1 .. 0 = {}
    OBVIOUS
  <2> QED BY <2>2, <2>3
<1>5. Stay(gone, 0) = 0 /\ Stay(gone, n) = n - Cardinality(gone)
  BY <1>4, FS_EmptySet DEF Stay
<1>6. \A i \in 0 .. n : Stay(gone, i) \in Int
  BY <1>3 DEF Stay
<1> QED BY <1>2, <1>5, <1>6

LEMMA StayStep ==
  ASSUME NEW n \in Nat, NEW gone \in SUBSET (1 .. n), NEW i \in 1 .. n
  PROVE  /\ i \in gone => Stay(gone, i) = Stay(gone, i - 1)
         /\ i \notin gone => Stay(gone, i) = Stay(gone, i - 1) + 1
<1> DEFINE before == gone \cap (1 .. i - 1)
<1>1. i - 1 \in 0 .. n /\ i \notin before
  OBVIOUS
<1>2. IsFiniteSet(before) /\ Cardinality(before) \in Nat
  <2>1. IsFiniteSet(gone)
    BY StaySteps
  <2> QED BY <2>1, FS_Subset, FS_CardinalityType
<1>3. CASE i \in gone
  <2>1. gone \cap (1 .. i) = before \cup {i}
    BY <1>3
  <2> HIDE DEF before
  <2>2. Cardinality(before \cup {i}) = Cardinality(before) + 1
    BY <1>1, <1>2, FS_AddElement
  <2>3. Stay(gone, i) = i - (Cardinality(before) + 1) /\ Stay(gone, i - 1) = (i - 1) - Cardinality(before)
    BY <2>1, <2>2 DEF Stay, before
  <2> QED BY <1>2, <1>3, <2>3
<1>4. CASE i \notin gone
  <2>1. gone \cap (1 .. i) = before
    BY <1>4
  <2>2. Stay(gone, i) = i - Cardinality(before) /\ Stay(gone, i - 1) = (i - 1) - Cardinality(before)
    BY <2>1 DEF Stay
  <2> HIDE DEF before
  <2> QED BY <1>2, <1>4, <2>2
<1> QED BY <1>3, <1>4

\* A place that stays has more before it than any place before it.
LEMMA StayOrder ==
  ASSUME NEW n \in Nat, NEW gone \in SUBSET (1 .. n), NEW i \in 0 .. n, NEW j \in 0 .. n, i <= j
  PROVE  /\ Stay(gone, i) <= Stay(gone, j)
         /\ i < j /\ j \notin gone => Stay(gone, i) < Stay(gone, j)
<1> DEFINE behind == {k \in i .. n : Stay(gone, k) < Stay(gone, i)}
<1>1. behind = {}
  <2> SUFFICES ASSUME behind # {} PROVE FALSE
    OBVIOUS
  <2>1. PICK k \in behind : \A m \in behind : k <= m
    <3>1. behind \subseteq Nat /\ behind # {}
      OBVIOUS
    <3> HIDE DEF behind
    <3> QED BY <3>1, LeastOf
  <2>2. k \in i .. n /\ Stay(gone, k) < Stay(gone, i) /\ Stay(gone, i) \in Int
    BY StaySteps
  <2>3. k # i /\ k - 1 \in i .. n /\ k \in 1 .. n /\ k - 1 \in 0 .. n
    BY <2>2
  <2>4. k - 1 \notin behind
    BY <2>1, <2>3
  <2>5. Stay(gone, k - 1) >= Stay(gone, i) /\ Stay(gone, k) >= Stay(gone, k - 1)
    <3>1. Stay(gone, k - 1) \in Int /\ Stay(gone, k) \in Int
      BY <2>3, StaySteps
    <3>2. Stay(gone, k - 1) >= Stay(gone, i)
      BY <2>2, <2>3, <2>4, <3>1
    <3>3. Stay(gone, k) = Stay(gone, k - 1) \/ Stay(gone, k) = Stay(gone, k - 1) + 1
      BY <2>3, StayStep
    <3> QED BY <3>1, <3>2, <3>3
  <2> QED BY <2>2, <2>3, <2>5, StaySteps
<1>2. \A k \in i .. n : Stay(gone, i) <= Stay(gone, k)
  <2>1. \A k \in 0 .. n : Stay(gone, k) \in Int
    BY StaySteps
  <2>2. \A k \in i .. n : k \in 0 .. n
    OBVIOUS
  <2>3. \A k \in i .. n : ~(Stay(gone, k) < Stay(gone, i))
    BY <1>1
  <2> QED BY <2>1, <2>2, <2>3
<1>3. ASSUME i < j, j \notin gone
      PROVE  Stay(gone, i) < Stay(gone, j)
  <2>1. j - 1 \in i .. n /\ j \in 1 .. n /\ j - 1 \in 0 .. n
    BY <1>3
  <2>2. Stay(gone, j) = Stay(gone, j - 1) + 1
    <3>1. \A k \in 1 .. n : k \notin gone => Stay(gone, k) = Stay(gone, k - 1) + 1
      BY StayStep
    <3> QED BY <1>3, <2>1, <3>1
  <2>3. Stay(gone, i) <= Stay(gone, j - 1)
    BY <1>2, <2>1
  <2>4. Stay(gone, i) \in Int /\ Stay(gone, j - 1) \in Int
    <3>1. \A k \in 0 .. n : Stay(gone, k) \in Int
      BY StaySteps
    <3> QED BY <2>1, <3>1
  <2> QED BY <2>2, <2>3, <2>4
<1> QED BY <1>2, <1>3

\* Every number up to how many stay is that of a place that stays.
LEMMA StayOnto ==
  ASSUME NEW n \in Nat, NEW gone \in SUBSET (1 .. n), NEW k \in 1 .. n - Cardinality(gone)
  PROVE  \E i \in (1 .. n) \ gone : Stay(gone, i) = k
<1> DEFINE reach == {i \in 0 .. n : k <= Stay(gone, i)}
<1>1. n \in reach
  BY StaySteps
<1>2. PICK i \in reach : \A m \in reach : i <= m
  <2>1. reach \subseteq Nat /\ reach # {}
    BY <1>1
  <2> HIDE DEF reach
  <2> QED BY <2>1, LeastOf
<1>3. i \in 1 .. n
  <2>1. i # 0
    BY <1>2, StaySteps
  <2> QED BY <1>2, <2>1
<1>4. i - 1 \in 0 .. n /\ i - 1 \notin reach
  BY <1>2, <1>3
<1>5. k <= Stay(gone, i) /\ ~(k <= Stay(gone, i - 1))
  BY <1>2, <1>4
<1>6. Stay(gone, i) \in Int /\ Stay(gone, i - 1) \in Int
  BY <1>3, <1>4, StaySteps
<1>7. /\ i \in gone => Stay(gone, i) = Stay(gone, i - 1)
      /\ i \notin gone => Stay(gone, i) = Stay(gone, i - 1) + 1
  BY <1>3, StayStep
<1>8. i \notin gone /\ Stay(gone, i) = k
  <2> HIDE DEF reach
  <2>1. i \notin gone
    BY <1>5, <1>6, <1>7
  <2> QED BY <1>5, <1>6, <1>7, <2>1
<1> QED BY <1>3, <1>8

\* What stays of a row, in its order.
LEMMA WithoutRow ==
  ASSUME NEW S, NEW row \in Seq(S), NEW gone \in SUBSET (1 .. Len(row)),
         NEW new, new = Without(row, gone)
  PROVE  /\ new \in Seq(S)
         /\ \A k \in 1 .. Len(new) :
              \E i \in (1 .. Len(row)) \ gone : Stay(gone, i) = k /\ new[k] = row[i]
         /\ \A i \in (1 .. Len(row)) \ gone :
              Stay(gone, i) \in 1 .. Len(new) /\ new[Stay(gone, i)] = row[i]
<1> DEFINE n == Len(row)
           size == n - Cardinality(gone)
           from(k) == CHOOSE i \in DOMAIN row \ gone : i = k + Cardinality(gone \cap (1 .. i))
<1>1. n \in Nat /\ DOMAIN row = 1 .. n /\ \A i \in 1 .. n : row[i] \in S
  OBVIOUS
<1>2. size \in Nat
  BY <1>1, StaySteps
<1>3. new = [k \in 1 .. size |-> row[from(k)]]
  BY DEF Without
<1>4. ASSUME NEW k \in 1 .. size
      PROVE  from(k) \in (1 .. n) \ gone /\ Stay(gone, from(k)) = k
  <2>1. \E i \in (1 .. n) \ gone : Stay(gone, i) = k
    BY <1>1, StayOnto
  <2>2. \A i \in (1 .. n) \ gone : Cardinality(gone \cap (1 .. i)) \in Nat
    <3>1. IsFiniteSet(gone)
      BY <1>1, StaySteps
    <3> QED BY <3>1, FS_Subset, FS_CardinalityType
  <2>3. \A i \in (1 .. n) \ gone : Stay(gone, i) = k <=> i = k + Cardinality(gone \cap (1 .. i))
    BY <1>1, <2>2 DEF Stay
  <2>4. \E i \in DOMAIN row \ gone : i = k + Cardinality(gone \cap (1 .. i))
    BY <1>1, <2>1, <2>3
  <2>5. from(k) \in DOMAIN row \ gone /\ from(k) = k + Cardinality(gone \cap (1 .. from(k)))
    BY <2>4
  <2> HIDE DEF from
  <2> QED BY <1>1, <2>3, <2>5
<1> HIDE DEF from, size, n
<1>5. /\ new \in Seq(S) /\ Len(new) = size
      /\ \A k \in 1 .. size : new[k] = row[from(k)]
  <2>1. \A k \in 1 .. size : row[from(k)] \in S
    BY <1>1, <1>4
  <2> QED BY <1>2, <1>3, <2>1
<1>6. ASSUME NEW i \in (1 .. n) \ gone
      PROVE  Stay(gone, i) \in 1 .. size /\ from(Stay(gone, i)) = i
  <2>1. Stay(gone, 0) = 0 /\ Stay(gone, n) = size /\ Stay(gone, i) \in Int
    <3>1. /\ Stay(gone, 0) = 0 /\ Stay(gone, n) = size
          /\ \A k \in 0 .. n : Stay(gone, k) \in Int
      BY <1>1, StaySteps DEF size, n
    <3> QED BY <1>1, <3>1
  <2>2. Stay(gone, 0) < Stay(gone, i) /\ Stay(gone, i) <= Stay(gone, n)
    BY <1>1, StayOrder DEF n
  <2>3. Stay(gone, i) \in 1 .. size
    BY <1>2, <2>1, <2>2
  <2>4. from(Stay(gone, i)) \in (1 .. n) \ gone /\ Stay(gone, from(Stay(gone, i))) = Stay(gone, i)
    BY <1>4, <2>3
  <2>5. ASSUME NEW j \in (1 .. n) \ gone, Stay(gone, j) = Stay(gone, i)
        PROVE  j = i
    <3>1. Stay(gone, i) \in Int /\ i \in 0 .. n /\ j \in 0 .. n
      BY <1>1, <2>1
    <3>2. ~(i < j) /\ ~(j < i)
      BY <1>1, <2>5, <3>1, StayOrder DEF n
    <3> QED BY <1>1, <3>2
  <2> QED BY <2>3, <2>4, <2>5
<1> QED BY <1>4, <1>5, <1>6 DEF n

\* Whatever was on levels above that of the new algorithm is gone.
LEMMA AddedTree ==
  ASSUME NEW tree \in Seq(Seq(Algs)), NEW l \in Nat \ {0}, NEW a \in Algs
  PROVE  /\ AddToTree(tree, l, a) \in Seq(Seq(Algs))
         /\ Len(AddToTree(tree, l, a)) = l
         /\ AddToTree(tree, l, a)[l] =
              Append(IF l <= Len(tree) THEN tree[l] ELSE <<>>, a)
         /\ \A k \in 1 .. l : k # l =>
              AddToTree(tree, l, a)[k] = IF k <= Len(tree) THEN tree[k] ELSE <<>>
<1> DEFINE at(k) == IF k <= Len(tree) THEN tree[k] ELSE <<>>
           new(k) == IF k = l THEN Append(at(l), a) ELSE at(k)
<1>1. ASSUME NEW k \in 1 .. l
      PROVE  at(k) \in Seq(Algs)
  <2>1. Len(tree) \in Nat
    OBVIOUS
  <2>2. CASE k <= Len(tree)
    BY <2>1, <2>2, ElementOfSeq
  <2>3. CASE ~(k <= Len(tree))
    BY <2>3
  <2> QED BY <2>2, <2>3
<1>2. l \in 1 .. l
  OBVIOUS
<1>3. Append(at(l), a) \in Seq(Algs)
  BY <1>1, <1>2, AppendProperties
<1>4. AddToTree(tree, l, a) = [k \in 1 .. l |-> new(k)]
  BY <1>2 DEF AddToTree, Resize
<1>5. \A k \in 1 .. l : new(k) \in Seq(Algs)
  BY <1>1, <1>3
<1>6. [k \in 1 .. l |-> new(k)] \in Seq(Seq(Algs))
  <2> HIDE DEF new
  <2> QED BY <1>5, IsASeq
<1>7. Len([k \in 1 .. l |-> new(k)]) = l
  OBVIOUS
<1> QED BY <1>2, <1>4, <1>6, <1>7

\* a stands at place i of level l.
At(tree, a, l, i) ==
  l \in 1 .. Len(tree) /\ i \in 1 .. Len(tree[l]) /\ tree[l][i] = a

Absent(tree, a) == \A k, j \in Nat : ~At(tree, a, k, j)

\* The one place of a is at level l.
Only(tree, a, l) ==
  \E i \in Nat : At(tree, a, l, i) /\ \A k, j \in Nat : At(tree, a, k, j) => k = l /\ j = i

LEMMA TreeRows ==
  ASSUME NEW tree \in Seq(Seq(Algs))
  PROVE  /\ Len(tree) \in Nat
         /\ \A l \in 1 .. Len(tree) :
              /\ tree[l] \in Seq(Algs) /\ Len(tree[l]) \in Nat
              /\ \A i \in 1 .. Len(tree[l]) : tree[l][i] \in Algs
<1>1. Len(tree) \in Nat
  OBVIOUS
<1>2. \A l \in 1 .. Len(tree) : tree[l] \in Seq(Algs)
  BY ElementOfSeq
<1>3. \A row \in Seq(Algs) : Len(row) \in Nat /\ \A i \in 1 .. Len(row) : row[i] \in Algs
  BY ElementOfSeq
<1> QED BY <1>1, <1>2, <1>3

LEMMA AddedPlaces ==
  ASSUME NEW tree \in Seq(Seq(Algs)), NEW l \in Nat \ {0}, NEW a \in Algs,
         NEW new, new = AddToTree(tree, l, a)
  PROVE  /\ \A b \in Algs \ {a} : \A k, j \in Nat :
              At(new, b, k, j) <=> At(tree, b, k, j) /\ k <= l
         /\ Absent(tree, a) => Only(new, a, l)
<1> DEFINE old(k) == IF k <= Len(tree) THEN tree[k] ELSE <<>>
<1>1. /\ new \in Seq(Seq(Algs)) /\ Len(new) = l /\ new[l] = Append(old(l), a)
      /\ \A k \in 1 .. l : k # l => new[k] = old(k)
  BY AddedTree, ZenonT(40)
<1>2. Len(tree) \in Nat /\ l \in 1 .. l
  BY TreeRows
<1>3. ASSUME NEW k \in 1 .. l
      PROVE  /\ old(k) \in Seq(Algs) /\ Len(old(k)) \in Nat
             /\ \A b, j : At(tree, b, k, j) <=> j \in 1 .. Len(old(k)) /\ old(k)[j] = b
  <2>1. CASE k <= Len(tree)
    BY <1>2, <2>1, TreeRows DEF At
  <2>2. CASE ~(k <= Len(tree))
    BY <1>2, <2>2 DEF At
  <2> QED BY <2>1, <2>2
<1> HIDE DEF old
<1>4. /\ Len(new[l]) = Len(old(l)) + 1 /\ new[l][Len(old(l)) + 1] = a
      /\ \A j \in 1 .. Len(old(l)) : new[l][j] = old(l)[j]
  BY <1>1, <1>2, <1>3, AppendProperties
<1>5. ASSUME NEW b, NEW k \in 1 .. l, NEW j \in Nat, b # a \/ k # l \/ j # Len(old(l)) + 1
      PROVE  At(new, b, k, j) <=> At(tree, b, k, j)
  <2>1. At(new, b, k, j) <=> j \in 1 .. Len(new[k]) /\ new[k][j] = b
    BY <1>1 DEF At
  <2>2. At(tree, b, k, j) <=> j \in 1 .. Len(old(k)) /\ old(k)[j] = b
    BY <1>3
  <2>3. CASE k # l
    BY <1>1, <2>1, <2>2, <2>3
  <2>4. CASE k = l
    <3>1. j \in 1 .. Len(old(l)) + 1 <=> j \in 1 .. Len(old(l)) \/ j = Len(old(l)) + 1
      BY <1>2, <1>3
    <3> QED BY <1>4, <1>5, <2>1, <2>2, <2>4, <3>1
  <2> QED BY <2>3, <2>4
<1>6. ASSUME NEW b \in Algs \ {a}, NEW k \in Nat, NEW j \in Nat
      PROVE  At(new, b, k, j) <=> At(tree, b, k, j) /\ k <= l
  <2>1. CASE k \in 1 .. l
    BY <1>5, <2>1
  <2>2. CASE k \notin 1 .. l
    <3>1. ~At(new, b, k, j)
      BY <1>1, <2>2 DEF At
    <3>2. At(tree, b, k, j) => k > l
      BY <1>2, <2>2 DEF At
    <3> QED BY <3>1, <3>2
  <2> QED BY <2>1, <2>2
<1>7. ASSUME Absent(tree, a)
      PROVE  Only(new, a, l)
  <2>1. Len(old(l)) + 1 \in Nat /\ At(new, a, l, Len(old(l)) + 1)
    BY <1>1, <1>2, <1>3, <1>4 DEF At
  <2>2. ASSUME NEW k \in Nat, NEW j \in Nat, At(new, a, k, j)
        PROVE  k = l /\ j = Len(old(l)) + 1
    <3>1. k \in 1 .. l
      BY <1>1, <2>2 DEF At
    <3> QED BY <1>5, <1>7, <2>2, <3>1 DEF Absent
  <2> QED BY <2>1, <2>2 DEF Only
<1> QED BY <1>6, <1>7

\* Deleting a name takes nothing else out of a row, and the entry of that name
\* if there is but one.
OnceIn(row, b) == \A i, j \in 1 .. Len(row) : row[i] = b /\ row[j] = b => i = j
OneOfName(row, n) ==
  \A i, j \in 1 .. Len(row) : Name(row[i]) = n /\ Name(row[j]) = n => i = j
RowErased(row, n, new) ==
  /\ \A k \in 1 .. Len(new) : \E i \in 1 .. Len(row) : new[k] = row[i]
  /\ \A i \in 1 .. Len(row) : Name(row[i]) # n => \E k \in 1 .. Len(new) : new[k] = row[i]
  /\ \A b : Name(b) # n /\ OnceIn(row, b) => OnceIn(new, b)
  /\ OneOfName(row, n) => \A k \in 1 .. Len(new) : Name(new[k]) # n

LEMMA ErasedRow ==
  ASSUME NEW row \in Seq(Algs), NEW n, NEW new, new = Without(row, Erased(row, n))
  PROVE  new \in Seq(Algs) /\ RowErased(row, n, new)
<1> DEFINE found == {i \in DOMAIN row : scenario.name[row[i]] = n}
           gone == Erased(row, n)
<1>1. DOMAIN row = 1 .. Len(row) /\ Len(row) \in Nat
  OBVIOUS
<1>2. gone \in SUBSET (1 .. Len(row)) /\ \A i \in gone : Name(row[i]) = n
  BY <1>1 DEF Erased, Name
<1> HIDE DEF gone
<1>3. /\ new \in Seq(Algs)
      /\ \A k \in 1 .. Len(new) : \E i \in (1 .. Len(row)) \ gone : Stay(gone, i) = k /\ new[k] = row[i]
      /\ \A i \in (1 .. Len(row)) \ gone :
           Stay(gone, i) \in 1 .. Len(new) /\ new[Stay(gone, i)] = row[i]
  <2>1. new = Without(row, gone)
    BY DEF gone
  <2> QED BY <1>2, <2>1, WithoutRow
<1>4. ASSUME OneOfName(row, n)
      PROVE  found \subseteq gone
  <2> SUFFICES ASSUME NEW i \in found PROVE i \in gone
    OBVIOUS
  <2>1. i \in 1 .. Len(row) /\ i \in 1 .. i /\ (i - i) % 2 = 0 /\ i \in Nat /\ i .. i = {i}
    BY <1>1
  <2>2. i - 1 \notin found
    <3>1. i - 1 # i
      BY <2>1
    <3> QED BY <1>1, <1>4, <3>1 DEF Name, OneOfName
  <2>3. i .. i \subseteq found
    BY <2>1
  <2>4. \E j \in 1 .. i : j .. i \subseteq found /\ j - 1 \notin found /\ (i - j) % 2 = 0
    BY <2>1, <2>2, <2>3
  <2> QED BY <2>4 DEF Erased, gone
<1>5. ASSUME NEW b, Name(b) # n, OnceIn(row, b),
             NEW k \in 1 .. Len(new), NEW m \in 1 .. Len(new), new[k] = b, new[m] = b
      PROVE  k = m
  <2>1. PICK i \in (1 .. Len(row)) \ gone : Stay(gone, i) = k /\ new[k] = row[i]
    BY <1>3
  <2>2. PICK j \in (1 .. Len(row)) \ gone : Stay(gone, j) = m /\ new[m] = row[j]
    BY <1>3
  <2> QED BY <1>5, <2>1, <2>2 DEF OnceIn
<1>6. ASSUME OneOfName(row, n),
             NEW k \in 1 .. Len(new)
      PROVE  Name(new[k]) # n
  <2>1. PICK i \in (1 .. Len(row)) \ gone : new[k] = row[i]
    BY <1>3
  <2>2. i \notin found
    BY <1>4, <1>6, <2>1
  <2> QED BY <1>1, <2>1, <2>2 DEF Name
<1>7. \A i \in 1 .. Len(row) : Name(row[i]) # n => i \notin gone
  BY <1>2
<1>8. \A i \in 1 .. Len(row) : Name(row[i]) # n => \E k \in 1 .. Len(new) : new[k] = row[i]
  BY <1>3, <1>7
<1>9. \A b : Name(b) # n /\ OnceIn(row, b) => OnceIn(new, b)
  BY <1>5 DEF OnceIn
<1> QED BY <1>3, <1>6, <1>8, <1>9 DEF RowErased

LEMMA ErasedTree ==
  ASSUME NEW tree \in Seq(Seq(Algs)), NEW n, NEW new, new = EraseFromTree(tree, n)
  PROVE  /\ new \in Seq(Seq(Algs)) /\ Len(new) = Len(tree)
         /\ \A b : Name(b) # n =>
              /\ Absent(tree, b) => Absent(new, b)
              /\ \A l \in Nat : Only(tree, b, l) => Only(new, b, l)
         /\ (\A l \in 1 .. Len(tree) : OneOfName(tree[l], n)) =>
              \A b : Name(b) = n => Absent(new, b)
<1> DEFINE row(l) == Without(tree[l], Erased(tree[l], n))
<1>1. Len(tree) \in Nat /\ DOMAIN tree = 1 .. Len(tree)
  OBVIOUS
<1>2. new = [l \in 1 .. Len(tree) |-> row(l)]
  BY <1>1 DEF EraseFromTree
<1>3. \A l \in 1 .. Len(tree) : row(l) \in Seq(Algs)
  BY TreeRows, ErasedRow
<1>4. new \in Seq(Seq(Algs)) /\ Len(new) = Len(tree) /\ \A l \in 1 .. Len(tree) : new[l] = row(l)
  <2> HIDE DEF row
  <2> QED BY <1>1, <1>2, <1>3, IsASeq
<1>5. ASSUME NEW l \in 1 .. Len(tree)
      PROVE  RowErased(tree[l], n, new[l])
  <2>1. tree[l] \in Seq(Algs) /\ new[l] = Without(tree[l], Erased(tree[l], n))
    BY <1>4, TreeRows
  <2> QED BY <2>1, ErasedRow
<1> HIDE DEF row
<1>6. ASSUME NEW b, Absent(tree, b)
      PROVE  Absent(new, b)
  <2> SUFFICES ASSUME NEW l \in Nat, NEW k \in Nat, At(new, b, l, k) PROVE FALSE
    BY DEF Absent
  <2>1. l \in 1 .. Len(tree) /\ k \in 1 .. Len(new[l]) /\ new[l][k] = b
    BY <1>4 DEF At
  <2>2. PICK i \in 1 .. Len(tree[l]) : b = tree[l][i]
    BY <1>5, <2>1 DEF RowErased
  <2>3. i \in Nat /\ At(tree, b, l, i)
    BY <2>1, <2>2, TreeRows DEF At
  <2> QED BY <1>6, <2>3 DEF Absent
<1>7. ASSUME NEW b, Name(b) # n, NEW l \in Nat, Only(tree, b, l)
      PROVE  Only(new, b, l)
  <2>1. PICK i \in Nat : At(tree, b, l, i) /\ \A k, j \in Nat : At(tree, b, k, j) => k = l /\ j = i
    BY <1>7 DEF Only
  <2>2. l \in 1 .. Len(tree) /\ i \in 1 .. Len(tree[l]) /\ tree[l][i] = b
    BY <2>1 DEF At
  <2>3. PICK k \in 1 .. Len(new[l]) : new[l][k] = b
    BY <1>5, <1>7, <2>2 DEF RowErased
  <2>4. \A r \in 1 .. Len(new) : Len(new[r]) \in Nat
    BY <1>4, TreeRows
  <2>5. k \in Nat /\ At(new, b, l, k)
    BY <1>4, <2>2, <2>3, <2>4 DEF At
  <2>6. OnceIn(new[l], b)
    <3>1. \A p \in 1 .. Len(tree[l]) : tree[l][p] = b => p \in Nat /\ At(tree, b, l, p)
      BY <2>2, TreeRows DEF At
    <3>2. OnceIn(tree[l], b)
      BY <2>1, <3>1 DEF OnceIn
    <3> QED BY <1>5, <1>7, <2>2, <3>2 DEF RowErased
  <2>7. ASSUME NEW r \in Nat, NEW m \in Nat, At(new, b, r, m)
        PROVE  r = l /\ m = k
    <3>1. r \in 1 .. Len(tree) /\ m \in 1 .. Len(new[r]) /\ new[r][m] = b
      BY <1>4, <2>7 DEF At
    <3>2. PICK p \in 1 .. Len(tree[r]) : b = tree[r][p]
      BY <1>5, <3>1 DEF RowErased
    <3>3. p \in Nat /\ At(tree, b, r, p)
      BY <3>1, <3>2, TreeRows DEF At
    <3>4. r = l
      BY <2>1, <3>3
    <3> QED BY <2>3, <2>6, <3>1, <3>4 DEF OnceIn
  <2> QED BY <2>5, <2>7 DEF Only
<1>8. ASSUME \A l \in 1 .. Len(tree) : OneOfName(tree[l], n),
             NEW b, Name(b) = n
      PROVE  Absent(new, b)
  <2> SUFFICES ASSUME NEW l \in Nat, NEW k \in Nat, At(new, b, l, k) PROVE FALSE
    BY DEF Absent
  <2>1. l \in 1 .. Len(tree) /\ k \in 1 .. Len(new[l]) /\ new[l][k] = b
    BY <1>4 DEF At
  <2> QED BY <1>5, <1>8, <2>1 DEF RowErased
<1> QED BY <1>4, <1>6, <1>7, <1>8


-----------------------------------------------------------------------------
(* The registry, and a process and what the server knows of it.            *)

\* What the server waits for from an algorithm in each state.
Awaited(s) ==
  CASE s = "READY_INIT" -> "begin_init"
    [] s = "PERFORMING_INIT" -> "end_init"
    [] s = "READY_PRE" -> "begin_pre"
    [] s = "PERFORMING_PRE" -> "end_pre"
    [] s = "READY_POST" -> "begin_post"
    [] s = "PERFORMING_POST" -> "end_post"

\* The process is on its way to the call that is awaited, has sent it, or has
\* yet to take the answer that sends it there.
Coming(a) ==
  /\ call[a] = Awaited(state[a]) /\ to_alg[a] = NoReply
  /\ to_server[a] = IF waiting[a] THEN call[a] ELSE NoMessage
Answered(a) ==
  /\ call[a] # "none" /\ NextCall[call[a]] = Awaited(state[a]) /\ waiting[a]
  /\ to_server[a] = NoMessage /\ to_alg[a].result = "success"

\* A process without a socket of its own has died or is registering.
Outside(a) ==
  /\ call[a] \in {"none", "register"}
  /\ call[a] = "none" => ~waiting[a] /\ to_alg[a] = NoReply
  /\ call[a] = "register" => waiting[a] /\ to_alg[a].result # "success"

\* What the steps of a type need to know: a level is given before it is used,
\* and whoever waits has made a call.
Ready ==
  \A a \in Algs : (conn[a] = "add" => level[a] > 0) /\ (waiting[a] => call[a] # "none")

LEMMA PassCheckSteps ==
  ASSUME Types, NEW a \in Algs, NEW next \in ConnStates, PassCheck(a, next)
  PROVE  /\ conn' = [conn EXCEPT ![a] = next] /\ conn' \in [Algs -> ConnStates]
         /\ contested \subseteq contested' /\ contested' \subseteq Algs
<1>1. Name(a) \in Algs /\ contested \subseteq Algs /\ conn \in [Algs -> ConnStates]
  BY DEF Types, ScenarioType, Name
<1>2. contested' = contested \/ contested' = contested \cup {Name(a)}
  BY DEF PassCheck
<1>3. contested \subseteq contested' /\ contested' \subseteq Algs
  BY <1>1, <1>2
<1>4. conn' = [conn EXCEPT ![a] = next]
  BY DEF PassCheck
<1> QED BY <1>1, <1>3, <1>4

LEMMA ConnectionTypes ==
  ASSUME Types, Ready, NEW a \in Algs, Connection(a)
  PROVE  Types'
<1> USE AlgServerAssumption
<1>1. {"none", "check", "delete", "deps", "add"} \subseteq ConnStates
  BY DEF ConnStates
<1>2. \A r \in {"success", "failure"} :
        Reply(r, 0) \in [result : {"none", "success", "failure"}, batch : 0 .. NumBatches]
  BY DEF Reply
<1>3. ASSUME NEW r \in {"success", "failure"}, AnswerRegistration(a, Reply(r, 0))
      PROVE  to_alg' \in [Algs -> [result : {"none", "success", "failure"}, batch : 0 .. NumBatches]]
  BY <1>2, <1>3 DEF AnswerRegistration, Types
<1>4. CASE HasAlg(a) \/ CheckAlg(a)
  <2>1. conn' \in [Algs -> ConnStates] /\ contested' \subseteq Algs
    <3>1. CASE UNCHANGED contested /\ \E c \in {"none", "check"} : conn' = [conn EXCEPT ![a] = c]
      BY <1>1, <3>1 DEF Types
    <3>2. CASE PassCheck(a, "deps") \/ PassCheck(a, "delete")
      BY <1>1, <3>2, PassCheckSteps
    <3> QED BY <1>4, <3>1, <3>2 DEF HasAlg, CheckAlg
  <2>2. to_alg' \in [Algs -> [result : {"none", "success", "failure"}, batch : 0 .. NumBatches]]
    BY <1>3, <1>4 DEF HasAlg, CheckAlg, Types
  <2> QED BY <1>4, <2>1, <2>2 DEF HasAlg, CheckAlg, Types, client_vars
<1>5. CASE DeleteAlg(a)
  <2> DEFINE known == alg_map[Name(a)]
  <2>1. alg_tree' \in Seq(Seq(Algs))
    <3>1. alg_tree' = alg_tree \/ alg_tree' = EraseFromTree(alg_tree, Name(a))
      BY <1>5 DEF DeleteAlg
    <3> QED BY <3>1, ErasedTree DEF Types
  <2>2. known = NoAlg \/ known \in Algs
    BY DEF Types, ScenarioType, Name
  <2>3. /\ conn' \in [Algs -> ConnStates] /\ state' \in [Algs -> AlgStates]
        /\ to_server' \in [Algs -> Actions \cup {NoMessage}]
        /\ alg_map' \in [Algs -> Algs \cup {NoAlg}] /\ cut' \subseteq Algs
    <3>1. conn' \in [Algs -> ConnStates]
      BY <1>1, <1>5 DEF DeleteAlg, Types
    <3>2. CASE known = NoAlg
      BY <1>5, <3>1, <3>2 DEF DeleteAlg, Types
    <3>3. CASE known # NoAlg
      <4>1. /\ alg_map' = [alg_map EXCEPT ![Name(a)] = NoAlg] /\ cut' = cut \ {known}
            /\ state' = [state EXCEPT ![known] = "none"]
            /\ to_server' = [to_server EXCEPT ![known] = NoMessage]
        BY <1>5, <3>3 DEF DeleteAlg
      <4> HIDE DEF known
      <4> QED BY <3>1, <4>1 DEF Types, AlgStates
    <3> QED BY <3>2, <3>3
  <2> QED BY <1>5, <2>1, <2>3 DEF DeleteAlg, Types, client_vars
<1>6. CASE ResolveDeps(a)
  <2>1. conn' \in [Algs -> ConnStates]
    <3>1. conn' = [conn EXCEPT ![a] = "add"] \/ conn' = [conn EXCEPT ![a] = "none"]
      BY <1>6 DEF ResolveDeps
    <3>2. "none" \in ConnStates /\ "add" \in ConnStates /\ conn \in [Algs -> ConnStates]
      BY DEF ConnStates, Types
    <3> QED BY <3>1, <3>2
  <2>2. level' \in [Algs -> Levels]
    <3>1. 1 .. Cardinality(Algs) \subseteq Levels
      BY SizeIsNat DEF Levels
    <3>2. level' = level \/ \E l \in 1 .. Cardinality(Algs) : level' = [level EXCEPT ![a] = l]
      BY <1>6 DEF ResolveDeps
    <3> QED BY <3>1, <3>2 DEF Types
  <2> QED BY <1>6, <2>1, <2>2 DEF ResolveDeps, Types, client_vars
<1>7. CASE AddAlg(a)
  <2>1. alg_tree' \in Seq(Seq(Algs))
    <3>1. level[a] \in Nat \ {0} /\ alg_tree \in Seq(Seq(Algs))
      BY <1>7, SizeIsNat DEF AddAlg, Types, Ready, Levels
    <3> QED BY <1>7, <3>1, AddedTree DEF AddAlg
  <2>2. to_alg' \in [Algs -> [result : {"none", "success", "failure"}, batch : 0 .. NumBatches]]
    BY <1>3, <1>7 DEF AddAlg
  <2>3. /\ conn' \in [Algs -> ConnStates] /\ state' \in [Algs -> AlgStates]
        /\ to_server' \in [Algs -> Actions \cup {NoMessage}]
        /\ alg_map' \in [Algs -> Algs \cup {NoAlg}]
    BY <1>1, <1>7 DEF AddAlg, Types, AlgStates
  <2>4. open' \in [Algs -> BOOLEAN]
    <3>1. (call[a] = "register") \in BOOLEAN
      OBVIOUS
    <3>2. open' = [open EXCEPT ![a] = call[a] = "register"] /\ open \in [Algs -> BOOLEAN]
      BY <1>7 DEF AddAlg, Types
    <3> QED BY <3>1, <3>2, Zenon
  <2>5. joined' \in [Algs -> Nat]
    BY <1>7 DEF AddAlg, Types
  <2>6. cut' \subseteq Algs
    BY <1>7 DEF AddAlg, Types, Registered
  <2> QED BY <1>7, <2>1, <2>2, <2>3, <2>4, <2>5, <2>6 DEF AddAlg, Types, client_vars
<1> QED BY <1>4, <1>5, <1>6, <1>7 DEF Connection

LEMMA ClientTypes ==
  ASSUME Types, Ready, NEW a \in Algs, Connect(a) \/ Send(a) \/ Receive(a) \/ Crash(a)
  PROVE  Types'
<1> USE AlgServerAssumption
<1>1. CASE Connect(a)
  <2>1. [begin_pre |-> 0, begin_post |-> 0] \in [BeginActions -> 0 .. NumBatches]
    BY DEF BeginActions
  <2>2. got' \in [Algs -> [BeginActions -> 0 .. NumBatches]]
    BY <1>1, <2>1 DEF Connect, Types
  <2>3. /\ starts' \in [Algs -> Nat] /\ conn' \in [Algs -> ConnStates]
        /\ call' \in [Algs -> Actions \cup {"none", "register"}]
        /\ waiting' \in [Algs -> BOOLEAN]
    BY <1>1 DEF Connect, Types, ConnStates
  <2> QED BY <1>1, <2>2, <2>3 DEF Connect, Types, tree_vars
<1>2. CASE Send(a)
  BY <1>2 DEF Send, Types, tree_vars
<1>3. CASE Receive(a)
  <2>1. call[a] # "none"
    BY <1>3 DEF Receive, Ready
  <2>2. NextCall[call[a]] \in Actions
    BY <2>1, NextCalls DEF Types
  <2>3. call' \in [Algs -> Actions \cup {"none", "register"}]
    BY <1>3, <2>2 DEF Receive, Types
  <2>4. to_alg[a].batch \in 0 .. NumBatches
    BY DEF Types
  <2>5. got' \in [Algs -> [BeginActions -> 0 .. NumBatches]]
    <3>1. CASE call[a] \in BeginActions
      <4>1. got' = [got EXCEPT ![a] = [got[a] EXCEPT ![call[a]] = to_alg[a].batch]]
        BY <1>3, <3>1 DEF Receive
      <4>2. [got[a] EXCEPT ![call[a]] = to_alg[a].batch] \in [BeginActions -> 0 .. NumBatches]
        BY <2>4 DEF Types
      <4> QED BY <4>1, <4>2 DEF Types
    <3>2. CASE call[a] \notin BeginActions
      BY <1>3, <3>2 DEF Receive, Types
    <3> QED BY <3>1, <3>2
  <2>6. to_alg' \in [Algs -> [result : {"none", "success", "failure"}, batch : 0 .. NumBatches]]
    BY <1>3 DEF Receive, Types, NoReply, Reply
  <2>7. waiting' \in [Algs -> BOOLEAN]
    BY <1>3 DEF Receive, Types
  <2> QED BY <1>3, <2>3, <2>5, <2>6, <2>7 DEF Receive, Types, tree_vars
<1>4. CASE Crash(a)
  <2>1. to_alg' \in [Algs -> [result : {"none", "success", "failure"}, batch : 0 .. NumBatches]]
    BY <1>4 DEF Crash, Types, NoReply, Reply
  <2> QED BY <1>4, <2>1 DEF Crash, Types, tree_vars
<1> QED BY <1>1, <1>2, <1>3, <1>4

\* The loop's variables after each of the ways in which they are set.
Started(s, p, n) == [s EXCEPT !.pc = "level", !.pass = p, !.level = 1, !.stop_level = n]
Counting(s, n) == [s EXCEPT !.pc = "alg", !.index = 1, !.stop_index = n]
Taking(s, a) == [s EXCEPT !.pc = "handle", !.cur = a]
Passing(s) == [s EXCEPT !.pc = "alg", !.index = @ + 1, !.cur = NoAlg]
Turning(s, p) == [s EXCEPT !.pass = p, !.index = 1]
Climbing(s, p) == [s EXCEPT !.pc = "level", !.pass = p, !.level = @ + 1]
Resting(s) == [s EXCEPT !.pc = "dequeue", !.pass = "init", !.level = 1, !.index = 1,
                        !.stop_level = 0, !.stop_index = 0]

LEMMA SrvFields ==
  ASSUME NEW s \in SrvType
  PROVE  /\ \A p \in Passes, n \in Nat :
              LET t == Started(s, p, n) IN
              /\ t \in SrvType
              /\ t.pc = "level" /\ t.pass = p /\ t.level = 1 /\ t.stop_level = n
              /\ t.index = s.index /\ t.stop_index = s.stop_index /\ t.cur = s.cur
         /\ \A n \in Nat :
              LET t == Counting(s, n) IN
              /\ t \in SrvType
              /\ t.pc = "alg" /\ t.index = 1 /\ t.stop_index = n /\ t.pass = s.pass
              /\ t.level = s.level /\ t.stop_level = s.stop_level /\ t.cur = s.cur
         /\ \A a \in Algs :
              LET t == Taking(s, a) IN
              /\ t \in SrvType
              /\ t.pc = "handle" /\ t.cur = a /\ t.pass = s.pass /\ t.level = s.level
              /\ t.index = s.index /\ t.stop_level = s.stop_level /\ t.stop_index = s.stop_index
         /\ LET t == Passing(s) IN
              /\ t \in SrvType
              /\ t.pc = "alg" /\ t.index = s.index + 1 /\ t.cur = NoAlg
              /\ t.pass = s.pass /\ t.level = s.level
              /\ t.stop_level = s.stop_level /\ t.stop_index = s.stop_index
         /\ \A p \in Passes :
              LET t == Turning(s, p) IN
              /\ t \in SrvType
              /\ t.pc = s.pc /\ t.pass = p /\ t.index = 1 /\ t.level = s.level
              /\ t.stop_level = s.stop_level /\ t.stop_index = s.stop_index /\ t.cur = s.cur
         /\ \A p \in Passes :
              LET t == Climbing(s, p) IN
              /\ t \in SrvType
              /\ t.pc = "level" /\ t.pass = p /\ t.level = s.level + 1 /\ t.index = s.index
              /\ t.stop_level = s.stop_level /\ t.stop_index = s.stop_index /\ t.cur = s.cur
         /\ LET t == Resting(s) IN
              /\ t \in SrvType /\ t.pc = "dequeue" /\ t.pass = "init"
              /\ t.level = 1 /\ t.index = 1 /\ t.cur = s.cur
<1>1. /\ 0 \in Nat /\ 1 \in Nat /\ s.index + 1 \in Nat /\ s.level + 1 \in Nat /\ "init" \in Passes
  BY PassNames DEF SrvType
<1>2. ASSUME NEW p \in Passes, NEW n \in Nat, NEW t, t = Started(s, p, n)
      PROVE  /\ t \in SrvType
             /\ t.pc = "level" /\ t.pass = p /\ t.level = 1 /\ t.stop_level = n
             /\ t.index = s.index /\ t.stop_index = s.stop_index /\ t.cur = s.cur
  <2>1. t \in SrvType
    BY <1>1, <1>2, Zenon DEF Started, SrvType
  <2> QED BY <1>2, <2>1 DEF Started, SrvType
<1>3. ASSUME NEW n \in Nat, NEW t, t = Counting(s, n)
      PROVE  /\ t \in SrvType
             /\ t.pc = "alg" /\ t.index = 1 /\ t.stop_index = n /\ t.pass = s.pass
             /\ t.level = s.level /\ t.stop_level = s.stop_level /\ t.cur = s.cur
  <2>1. t \in SrvType
    BY <1>1, <1>3, Zenon DEF Counting, SrvType
  <2> QED BY <1>3, <2>1 DEF Counting, SrvType
<1>4. ASSUME NEW a \in Algs, NEW t, t = Taking(s, a)
      PROVE  /\ t \in SrvType
             /\ t.pc = "handle" /\ t.cur = a /\ t.pass = s.pass /\ t.level = s.level
             /\ t.index = s.index /\ t.stop_level = s.stop_level /\ t.stop_index = s.stop_index
  <2>1. t \in SrvType
    BY <1>1, <1>4, Zenon DEF Taking, SrvType
  <2> QED BY <1>4, <2>1 DEF Taking, SrvType
<1>5. ASSUME NEW t, t = Passing(s)
      PROVE  /\ t \in SrvType
             /\ t.pc = "alg" /\ t.index = s.index + 1 /\ t.cur = NoAlg
             /\ t.pass = s.pass /\ t.level = s.level
             /\ t.stop_level = s.stop_level /\ t.stop_index = s.stop_index
  <2>1. t \in SrvType
    BY <1>1, <1>5, Zenon DEF Passing, SrvType
  <2> QED BY <1>5, <2>1 DEF Passing, SrvType
<1>6. ASSUME NEW p \in Passes, NEW t, t = Turning(s, p)
      PROVE  /\ t \in SrvType
             /\ t.pc = s.pc /\ t.pass = p /\ t.index = 1 /\ t.level = s.level
             /\ t.stop_level = s.stop_level /\ t.stop_index = s.stop_index /\ t.cur = s.cur
  <2>1. t \in SrvType
    BY <1>1, <1>6, Zenon DEF Turning, SrvType
  <2> QED BY <1>6, <2>1 DEF Turning, SrvType
<1>7. ASSUME NEW p \in Passes, NEW t, t = Climbing(s, p)
      PROVE  /\ t \in SrvType
             /\ t.pc = "level" /\ t.pass = p /\ t.level = s.level + 1 /\ t.index = s.index
             /\ t.stop_level = s.stop_level /\ t.stop_index = s.stop_index /\ t.cur = s.cur
  <2>1. t \in SrvType
    BY <1>1, <1>7, Zenon DEF Climbing, SrvType
  <2> QED BY <1>7, <2>1 DEF Climbing, SrvType
<1>8. ASSUME NEW t, t = Resting(s)
      PROVE  /\ t \in SrvType
             /\ t.pc = "dequeue" /\ t.pass = "init" /\ t.level = 1 /\ t.index = 1 /\ t.cur = s.cur
  <2>1. t \in SrvType
    BY <1>1, <1>8, Zenon DEF Resting, SrvType
  <2> QED BY <1>8, <2>1 DEF Resting, SrvType
<1> QED BY <1>2, <1>3, <1>4, <1>5, <1>6, <1>7, <1>8

LEMMA LoopTypes ==
  ASSUME Types, ProcessLoop
  PROVE  Types'
<1> USE AlgServerAssumption, PassNames
<1>1. srv \in SrvType /\ Len(alg_tree) \in Nat /\ srv.level \in Nat \ {0} /\ srv.index \in Nat \ {0}
  BY DEF Types, SrvType
<1>2. CASE DequeueBatch
  <2>1. srv' \in SrvType /\ srv'.pc = "level" /\ srv'.level = 1 /\ srv'.index = srv.index
    <3>1. srv' = Started(srv, "init", Len(alg_tree))
      BY <1>2 DEF DequeueBatch, StartPasses, Started
    <3>2. "init" \in Passes
      OBVIOUS
    <3> QED BY <1>1, <3>1, <3>2, SrvFields
  <2>2. batch' \in 0 .. NumBatches
    BY <1>2 DEF DequeueBatch, Types
  <2> QED BY <1>1, <1>2, <2>1, <2>2
          DEF DequeueBatch, Types, others, unhandled, tree_vars, client_vars
<1>3. CASE ReadNumAlgs
  <2>1. Len(alg_tree[srv.level]) \in Nat
    <3>1. srv.level \in 1 .. Len(alg_tree)
      BY <1>1, <1>3 DEF ReadNumAlgs
    <3> QED BY <3>1, ElementOfSeq DEF Types
  <2>2. srv' \in SrvType /\ srv'.pc = "alg" /\ srv'.level = srv.level /\ srv'.index = 1
    <3>1. srv' = Counting(srv, Len(alg_tree[srv.level]))
      BY <1>3 DEF ReadNumAlgs, Counting
    <3> QED BY <1>1, <2>1, <3>1, SrvFields, SMTT(40)
  <2> QED BY <1>1, <1>3, <2>2 DEF ReadNumAlgs, Types, others, unhandled, tree_vars, client_vars
<1>4. CASE GetAlg
  <2>1. alg_tree[srv.level][srv.index] \in Algs
    <3>1. srv.level \in 1 .. Len(alg_tree) /\ srv.index <= Len(alg_tree[srv.level])
      BY <1>1, <1>4 DEF GetAlg
    <3>2. alg_tree[srv.level] \in Seq(Algs)
      BY <3>1, ElementOfSeq DEF Types
    <3>3. srv.index \in 1 .. Len(alg_tree[srv.level])
      BY <1>1, <3>1, <3>2
    <3> QED BY <3>2, <3>3, ElementOfSeq
  <2>2. /\ srv' \in SrvType /\ srv'.level = srv.level /\ srv'.index = srv.index
        /\ srv'.cur \in Algs
    <3>1. srv' = Taking(srv, alg_tree[srv.level][srv.index])
      BY <1>4 DEF GetAlg, Taking
    <3>2. /\ srv' \in SrvType /\ srv'.level = srv.level /\ srv'.index = srv.index
          /\ srv'.cur = alg_tree[srv.level][srv.index]
      BY <1>1, <2>1, <3>1, SrvFields
    <3> QED BY <2>1, <3>2
  <2> QED BY <1>1, <1>4, <2>2 DEF GetAlg, Types, others, unhandled, tree_vars, client_vars
<1>5. ASSUME srv' = NextIndex
      PROVE  /\ srv' \in SrvType /\ srv'.pc = "alg" /\ srv'.level = srv.level
             /\ srv'.index = srv.index + 1
  <2>1. srv' = Passing(srv)
    BY <1>5 DEF NextIndex, Passing
  <2> QED BY <1>1, <2>1, SrvFields
<1>6. CASE Skip
  <2>1. srv' = NextIndex
    BY <1>6 DEF Skip
  <2> QED BY <1>1, <1>5, <1>6, <2>1 DEF Skip, Types, others, unhandled, tree_vars, client_vars
<1>7. CASE EndLevel
  <2>1. srv.pass \in Passes /\ srv.pc = "alg"
    BY <1>1, <1>7 DEF EndLevel, SrvType
  <2>2. \/ \E p \in Passes : srv' = Turning(srv, p)
        \/ \E p \in Passes : srv' = Climbing(srv, p)
    BY <1>7, <2>1 DEF EndLevel, NextLevel, Turning, Climbing
  <2>3. /\ srv' \in SrvType /\ srv'.pc \in {"alg", "level"}
        /\ srv'.level \in {srv.level, srv.level + 1} /\ srv'.index \in {1, srv.index}
    <3>1. ASSUME NEW p \in Passes, srv' = Turning(srv, p)
          PROVE  /\ srv' \in SrvType /\ srv'.pc = srv.pc
                 /\ srv'.level = srv.level /\ srv'.index = 1
      BY <1>1, <3>1, SrvFields
    <3>2. ASSUME NEW p \in Passes, srv' = Climbing(srv, p)
          PROVE  /\ srv' \in SrvType /\ srv'.pc = "level"
                 /\ srv'.level = srv.level + 1 /\ srv'.index = srv.index
      BY <1>1, <3>2, SrvFields
    <3> QED BY <2>1, <2>2, <3>1, <3>2
  <2>4. srv'.level > 0 /\ srv'.index > 0 /\ srv'.pc # "handle"
    BY <1>1, <2>3
  <2> QED BY <1>7, <2>3, <2>4 DEF EndLevel, Types, others, unhandled, tree_vars, client_vars
<1>8. CASE EndInit \/ UpdateGraph
  <2>1. srv' \in SrvType /\ srv'.pc = "level" /\ srv'.level = 1 /\ srv'.index = srv.index
    <3>1. \E p \in Passes : srv' = Started(srv, p, Len(alg_tree))
      BY <1>8 DEF EndInit, UpdateGraph, StartPasses, Started
    <3> QED BY <1>1, <3>1, SrvFields
  <2>2. graph' \in Nat
    BY <1>8 DEF EndInit, UpdateGraph, Types
  <2> QED BY <1>1, <1>8, <2>1, <2>2
          DEF EndInit, UpdateGraph, Types, others, unhandled, tree_vars, client_vars
<1>9. CASE EndBatch
  <2>1. srv' \in SrvType /\ srv'.pc = "dequeue" /\ srv'.level = 1 /\ srv'.index = 1
    <3>1. srv' = Resting(srv)
      BY <1>9 DEF EndBatch, Resting
    <3> QED BY <1>1, <3>1, SrvFields
  <2> QED BY <1>9, <2>1 DEF EndBatch, Types, others, unhandled, tree_vars, client_vars
<1>10. ASSUME NEW e \in Exchanges, Handle(e)
       PROVE  Types'
  <2>1. srv.cur \in Algs /\ e.to \in AlgStates
    BY <1>10 DEF Handle, Types, Exchanges, Exchange, AlgStates
  <2>2. state' \in [Algs -> AlgStates] /\ to_server' \in [Algs -> Actions \cup {NoMessage}]
    BY <1>10, <2>1 DEF Handle, Types, AlgStates
  <2>3. to_alg' \in [Algs -> [result : {"none", "success", "failure"}, batch : 0 .. NumBatches]]
    <3>1. \A r \in {"success", "failure"}, n \in 0 .. NumBatches :
            Reply(r, n) \in [result : {"none", "success", "failure"}, batch : 0 .. NumBatches]
      BY DEF Reply
    <3>2. 0 \in 0 .. NumBatches /\ batch \in 0 .. NumBatches
      BY DEF Types
    <3>3. \/ to_alg' = to_alg
          \/ \E r \in {"success", "failure"}, n \in 0 .. NumBatches :
               to_alg' = [to_alg EXCEPT ![srv.cur] = Reply(r, n)]
      BY <1>10, <3>2 DEF Handle, Answer
    <3>4. ASSUME NEW v \in [result : {"none", "success", "failure"}, batch : 0 .. NumBatches],
                 to_alg' = [to_alg EXCEPT ![srv.cur] = v]
          PROVE  to_alg' \in [Algs -> [result : {"none", "success", "failure"}, batch : 0 .. NumBatches]]
      BY <3>4, Zenon DEF Types
    <3>5. to_alg \in [Algs -> [result : {"none", "success", "failure"}, batch : 0 .. NumBatches]]
      BY DEF Types
    <3> QED BY <3>1, <3>3, <3>4, <3>5, Zenon
  <2>4. srv' = srv \/ srv' = NextIndex
    BY <1>10 DEF Handle
  <2>5. /\ srv' \in SrvType /\ srv'.level > 0 /\ srv'.index > 0
        /\ srv'.pc = "handle" => srv'.cur \in Algs
    BY <1>1, <1>5, <2>1, <2>4
  <2> QED BY <1>10, <2>2, <2>3, <2>5 DEF Handle, Types, others, tree_vars, client_vars
<1> QED BY <1>2, <1>3, <1>4, <1>6, <1>7, <1>8, <1>9, <1>10 DEF ProcessLoop


LEMMA ReadyStep ==
  ASSUME Types, Ready, NEW a \in Algs,
         Connect(a) \/ Connection(a) \/ Send(a) \/ Receive(a) \/ Crash(a)
  PROVE  Ready'
<1> USE AlgServerAssumption
<1>1. CASE Connect(a) \/ Send(a) \/ Receive(a) \/ Crash(a)
  <2>1. level' = level /\ \A b \in Algs : conn'[b] = "add" => conn[b] = "add"
    BY <1>1 DEF Connect, Send, Receive, Crash, tree_vars, Types
  <2>2. \A b \in Algs : waiting'[b] => call'[b] # "none"
    <3>1. CASE Receive(a)
      <4>1. waiting' = [waiting EXCEPT ![a] = FALSE] /\ \A b \in Algs : b # a => call'[b] = call[b]
        BY <3>1 DEF Receive, Types
      <4> QED BY <4>1 DEF Types, Ready
    <3>2. CASE Crash(a)
      <4>1. waiting' = [waiting EXCEPT ![a] = FALSE] /\ \A b \in Algs : b # a => call'[b] = call[b]
        BY <3>2 DEF Crash, Types
      <4> QED BY <4>1 DEF Types, Ready
    <3>3. CASE Connect(a)
      <4>1. /\ call' = [call EXCEPT ![a] = "register"] /\ waiting' = [waiting EXCEPT ![a] = TRUE]
        BY <3>3 DEF Connect
      <4> QED BY <4>1 DEF Types, Ready
    <3>4. CASE Send(a)
      <4>1. /\ call' = call /\ waiting' = [waiting EXCEPT ![a] = TRUE] /\ call[a] \in Actions
        BY <3>4 DEF Send
      <4> QED BY <4>1 DEF Types, Ready, Actions
    <3> QED BY <1>1, <3>1, <3>2, <3>3, <3>4
  <2> QED BY <2>1, <2>2 DEF Ready
<1>2. CASE Connection(a)
  <2>1. call' = call /\ waiting' = waiting
    BY <1>2 DEF Connection, HasAlg, CheckAlg, DeleteAlg, ResolveDeps, AddAlg, client_vars
  <2>2. CASE ResolveDeps(a)
    <3>1. CASE DepsRegistered(a)
      <4>1. PICK l \in 1 .. Cardinality(Algs) : level' = [level EXCEPT ![a] = l]
        BY <2>2, <3>1 DEF ResolveDeps
      <4>2. l > 0 /\ conn' = [conn EXCEPT ![a] = "add"]
        BY <2>2, <3>1, SizeIsNat DEF ResolveDeps
      <4> QED BY <2>1, <4>1, <4>2 DEF Ready, Types
    <3>2. CASE ~DepsRegistered(a)
      <4>1. level' = level /\ conn' = [conn EXCEPT ![a] = "none"]
        BY <2>2, <3>2 DEF ResolveDeps
      <4> QED BY <2>1, <4>1 DEF Ready, Types
    <3> QED BY <3>1, <3>2
  <2>3. CASE ~ResolveDeps(a)
    <3>1. level' = level /\ \E c \in ConnStates \ {"add"} : conn' = [conn EXCEPT ![a] = c]
      BY <1>2, <2>3
         DEF Connection, HasAlg, CheckAlg, PassCheck, DeleteAlg, AddAlg, ConnStates
    <3> QED BY <2>1, <3>1 DEF Ready, Types
  <2> QED BY <2>2, <2>3
<1> QED BY <1>1, <1>2

LEMMA LoopReadyStays ==
  ASSUME Ready, ProcessLoop
  PROVE  Ready'
BY DEF Ready, ProcessLoop, DequeueBatch, ReadNumAlgs, GetAlg, Skip, EndLevel, EndInit, UpdateGraph,
       EndBatch, Handle, others, tree_vars, client_vars

\* Where each step of the loop leaves it.
LEMMA Moves ==
  ASSUME Types
  PROVE  /\ \A p \in Passes : StartPasses(p) =>
              /\ srv'.pc = "level" /\ srv'.pass = p /\ srv'.level = 1
              /\ srv'.stop_level = Len(alg_tree)
         /\ ReadNumAlgs =>
              /\ srv'.pc = "alg" /\ srv'.pass = srv.pass /\ srv'.level = srv.level
              /\ srv'.index = 1 /\ srv'.stop_level = srv.stop_level
              /\ srv'.stop_index = Len(alg_tree[srv.level])
         /\ GetAlg =>
              /\ srv'.pc = "handle" /\ srv'.pass = srv.pass /\ srv'.level = srv.level
              /\ srv'.index = srv.index /\ srv'.stop_level = srv.stop_level
              /\ srv'.stop_index = srv.stop_index
              /\ srv'.cur = alg_tree[srv.level][srv.index]
         /\ srv' = NextIndex =>
              /\ srv'.pc = "alg" /\ srv'.pass = srv.pass /\ srv'.level = srv.level
              /\ srv'.index = srv.index + 1 /\ srv'.stop_level = srv.stop_level
              /\ srv'.stop_index = srv.stop_index
         /\ EndLevel =>
              /\ srv'.stop_level = srv.stop_level /\ srv'.stop_index = srv.stop_index
              /\ \/ /\ srv'.pc = "alg" /\ srv'.level = srv.level /\ srv'.index = 1
                    /\ <<srv.pass, srv'.pass>> \in {<<"begin_pre", "end_pre">>, <<"begin_post", "end_post">>}
                 \/ /\ srv'.pc = "level" /\ srv'.level = srv.level + 1
                    /\ <<srv.pass, srv'.pass>> \in
                         {<<"end_pre", "begin_pre">>, <<"end_post", "begin_post">>, <<"init", "init">>}
         /\ EndBatch => srv'.pc = "dequeue" /\ srv'.pass = "init"
<1>1. srv \in SrvType /\ srv.pass \in Passes /\ Len(alg_tree) \in Nat
  BY DEF Types, SrvType
<1>2. ASSUME NEW p \in Passes, StartPasses(p)
      PROVE  /\ srv'.pc = "level" /\ srv'.pass = p /\ srv'.level = 1
             /\ srv'.stop_level = Len(alg_tree)
  <2>1. srv' = Started(srv, p, Len(alg_tree))
    BY <1>2 DEF StartPasses, Started
  <2>2. \A s \in SrvType, n \in Nat : LET t == Started(s, p, n) IN
          t.pc = "level" /\ t.pass = p /\ t.level = 1 /\ t.stop_level = n
    BY <1>2, SrvFields
  <2> QED BY <1>1, <2>1, <2>2
<1>3. ASSUME ReadNumAlgs
      PROVE  /\ srv'.pc = "alg" /\ srv'.pass = srv.pass /\ srv'.level = srv.level
             /\ srv'.index = 1 /\ srv'.stop_level = srv.stop_level
             /\ srv'.stop_index = Len(alg_tree[srv.level])
  <2>1. srv.level \in 1 .. Len(alg_tree)
    BY <1>1, <1>3 DEF ReadNumAlgs, Types, SrvType
  <2>2. Len(alg_tree[srv.level]) \in Nat
    BY <2>1, ElementOfSeq DEF Types
  <2>3. srv' = Counting(srv, Len(alg_tree[srv.level]))
    BY <1>3 DEF ReadNumAlgs, Counting
  <2> QED BY <1>1, <2>2, <2>3, SrvFields
<1>4. ASSUME GetAlg
      PROVE  /\ srv'.pc = "handle" /\ srv'.pass = srv.pass /\ srv'.level = srv.level
             /\ srv'.index = srv.index /\ srv'.stop_level = srv.stop_level
             /\ srv'.stop_index = srv.stop_index
             /\ srv'.cur = alg_tree[srv.level][srv.index]
  <2>1. alg_tree[srv.level][srv.index] \in Algs
    <3>1. srv.level \in 1 .. Len(alg_tree) /\ srv.index <= Len(alg_tree[srv.level])
      BY <1>1, <1>4 DEF GetAlg, Types, SrvType
    <3>2. alg_tree[srv.level] \in Seq(Algs)
      BY <3>1, ElementOfSeq DEF Types
    <3>3. srv.index \in 1 .. Len(alg_tree[srv.level])
      BY <1>1, <3>1, <3>2 DEF Types, SrvType
    <3> QED BY <3>2, <3>3, ElementOfSeq
  <2>2. srv' = Taking(srv, alg_tree[srv.level][srv.index])
    BY <1>4 DEF GetAlg, Taking
  <2> QED BY <1>1, <2>1, <2>2, SrvFields
<1>5. ASSUME srv' = NextIndex
      PROVE  /\ srv'.pc = "alg" /\ srv'.pass = srv.pass /\ srv'.level = srv.level
             /\ srv'.index = srv.index + 1 /\ srv'.stop_level = srv.stop_level
             /\ srv'.stop_index = srv.stop_index
  <2>1. srv' = Passing(srv)
    BY <1>5 DEF NextIndex, Passing
  <2> QED BY <1>1, <2>1, SrvFields
<1>6. ASSUME EndLevel
      PROVE  /\ srv'.stop_level = srv.stop_level /\ srv'.stop_index = srv.stop_index
             /\ \/ /\ srv'.pc = "alg" /\ srv'.level = srv.level /\ srv'.index = 1
                   /\ <<srv.pass, srv'.pass>> \in {<<"begin_pre", "end_pre">>, <<"begin_post", "end_post">>}
                \/ /\ srv'.pc = "level" /\ srv'.level = srv.level + 1
                   /\ <<srv.pass, srv'.pass>> \in
                        {<<"end_pre", "begin_pre">>, <<"end_post", "begin_post">>, <<"init", "init">>}
  <2>1. srv.pc = "alg"
    BY <1>6 DEF EndLevel
  <2>2. ASSUME NEW p \in Passes, srv' = Turning(srv, p)
        PROVE  /\ srv'.pc = "alg" /\ srv'.level = srv.level /\ srv'.index = 1 /\ srv'.pass = p
               /\ srv'.stop_level = srv.stop_level /\ srv'.stop_index = srv.stop_index
    BY <1>1, <2>1, <2>2, SrvFields
  <2>3. ASSUME NEW p \in Passes, srv' = Climbing(srv, p)
        PROVE  /\ srv'.pc = "level" /\ srv'.level = srv.level + 1 /\ srv'.pass = p
               /\ srv'.stop_level = srv.stop_level /\ srv'.stop_index = srv.stop_index
    <3>1. srv \in SrvType
      BY <1>1
    <3> QED BY <2>3, <3>1 DEF Climbing, SrvType
  <2>4. CASE srv.pass = "begin_pre"
    <3>1. srv' = Turning(srv, "end_pre")
      BY <1>6, <2>4 DEF EndLevel, Turning
    <3> QED BY <2>2, <2>4, <3>1, PassNames
  <2>5. CASE srv.pass = "begin_post"
    <3>1. srv' = Turning(srv, "end_post")
      BY <1>6, <2>5 DEF EndLevel, Turning
    <3> QED BY <2>2, <2>5, <3>1, PassNames
  <2>6. CASE srv.pass = "end_pre"
    <3>1. srv' = Climbing(srv, "begin_pre")
      BY <1>6, <2>6 DEF EndLevel, Climbing, NextLevel
    <3> QED BY <2>3, <2>6, <3>1, PassNames
  <2>7. CASE srv.pass = "end_post"
    <3>1. srv' = Climbing(srv, "begin_post")
      BY <1>6, <2>7 DEF EndLevel, Climbing, NextLevel
    <3> QED BY <2>3, <2>7, <3>1, PassNames
  <2>8. CASE srv.pass = "init"
    <3>1. srv' = Climbing(srv, "init")
      BY <1>6, <2>8 DEF EndLevel, Climbing, NextLevel
    <3> QED BY <2>3, <2>8, <3>1, PassNames
  <2> QED BY <1>1, <2>4, <2>5, <2>6, <2>7, <2>8, PassNames
<1>7. ASSUME EndBatch
      PROVE  srv'.pc = "dequeue" /\ srv'.pass = "init"
  <2>1. srv' = Resting(srv)
    BY <1>7 DEF EndBatch, Resting
  <2> QED BY <1>1, <2>1, SrvFields
<1> QED BY <1>2, <1>3, <1>4, <1>5, <1>6, <1>7

GraphOK ==
  /\ AtRest => srv.pass = "init" /\ graph = batch
  /\ ~AtRest => batch > 0
  /\ ~AtRest /\ srv.pass \in {"init", "begin_pre", "end_pre"} => graph = batch - 1
  /\ srv.pass \in {"begin_post", "end_post"} => graph = batch

JoinedOK == \A a \in Algs : joined[a] <= batch

\* No two threads were registering its name at once.
Alone(a) == Name(a) \notin contested

\* The threads that have passed the check of their name and not added it yet.
Past == {"delete", "deps", "add"}

\* The map holds what is registered, under its own name.
MapOK ==
  \A n \in Algs : alg_map[n] # NoAlg => Name(alg_map[n]) = n /\ state[alg_map[n]] # "none"

\* One thread at a time is past the check of the name; until it adds, the map
\* has no algorithm of that name or, before delete_alg, one in error.
NameOf(a) ==
  /\ \A b \in Algs \ {a} : Name(b) = Name(a) /\ conn[a] \in Past => conn[b] \notin Past
  /\ conn[a] \in {"deps", "add"} => alg_map[Name(a)] = NoAlg
  /\ state[a] # "none" => alg_map[Name(a)] = a
  /\ conn[a] = "delete" => alg_map[Name(a)] # NoAlg /\ state[alg_map[Name(a)]] = "ERROR"

\* Its process is at the call that its state awaits, or outside.
InStep(a) ==
  /\ IF open[a] THEN state[a] \in Working /\ (Coming(a) \/ Answered(a)) ELSE Outside(a)
  /\ conn[a] # "none" => ~open[a]
  /\ state[a] \in {"none", "ERROR"} => to_server[a] = NoMessage

PlaceOf(a) ==
  IF a \in Registered \ cut THEN Only(alg_tree, a, level[a]) ELSE Absent(alg_tree, a)

\* When the names are distinct none is contested, and a name that the check
\* found is still there.
DistinctOK ==
  (\A a \in Algs : Name(a) = a) =>
    contested = {} /\ \A a \in Algs : conn[a] = "check" => alg_map[a] # NoAlg

ServerInv ==
  /\ Types /\ Ready /\ scenario \in Scenarios /\ GraphOK /\ JoinedOK
  /\ MapOK /\ cut \subseteq Registered /\ DistinctOK
  /\ \A a \in Algs : Alone(a) => NameOf(a) /\ InStep(a) /\ PlaceOf(a)

LEMMA InitServer == Init => ServerInv
<1> SUFFICES ASSUME Init PROVE ServerInv
  OBVIOUS
<1>1. Types /\ scenario \in Scenarios
  BY InitTypes DEF Init
<1>2. Ready /\ MapOK /\ cut \subseteq Registered /\ DistinctOK /\ JoinedOK
  BY DEF Init, Ready, MapOK, Registered, DistinctOK, JoinedOK
<1>3. GraphOK
  BY DEF Init, GraphOK, AtRest
<1>4. ASSUME NEW a \in Algs PROVE NameOf(a) /\ InStep(a) /\ PlaceOf(a)
  <2>1. NameOf(a) /\ InStep(a)
    BY DEF Init, NameOf, Past, InStep, Outside
  <2>2. state[a] = "none" /\ alg_tree = <<>>
    BY DEF Init
  <2>3. Absent(alg_tree, a)
    BY <2>2 DEF Absent, At
  <2> QED BY <2>1, <2>2, <2>3 DEF PlaceOf, Registered
<1> QED BY <1>1, <1>2, <1>3, <1>4 DEF ServerInv

\* A name becomes contested only when a thread passes the check of it while
\* another is past it.
LEMMA NamesApart ==
  ASSUME ServerInv, NEW a \in Algs, Connection(a), NEW b \in Algs, Alone(b)'
  PROVE  /\ Alone(b) /\ Name(b)' = Name(b) /\ scenario' = scenario
         /\ b # a => conn'[b] = conn[b]
         /\ \A c \in Algs \ {b} : Name(c) = Name(b) /\ conn'[b] \in Past => conn'[c] \notin Past
<1>1. Types /\ conn \in [Algs -> ConnStates]
  BY DEF ServerInv, Types
<1>2. scenario' = scenario /\ Name(b)' = Name(b)
  BY DEF Connection, HasAlg, CheckAlg, DeleteAlg, ResolveDeps, AddAlg, Name
<1>3. /\ contested \subseteq contested'
      /\ \E c \in ConnStates : conn' = [conn EXCEPT ![a] = c]
      /\ \/ conn[a] \in Past
         \/ conn'[a] \notin Past
         \/ \E next \in ConnStates : PassCheck(a, next)
  <2>1. ASSUME NEW next \in {"deps", "delete"}, PassCheck(a, next)
        PROVE  /\ contested \subseteq contested' /\ next \in ConnStates
               /\ conn' = [conn EXCEPT ![a] = next]
    <3>1. next \in ConnStates
      BY DEF ConnStates
    <3> QED BY <1>1, <2>1, <3>1, PassCheckSteps
  <2>2. CASE HasAlg(a) \/ CheckAlg(a)
    <3>1. \/ \E next \in {"deps", "delete"} : PassCheck(a, next)
          \/ contested' = contested /\ \E c \in {"check", "none"} : conn' = [conn EXCEPT ![a] = c]
      BY <2>2 DEF HasAlg, CheckAlg
    <3> QED BY <1>1, <2>1, <3>1 DEF ConnStates, Past
  <2>3. CASE DeleteAlg(a) \/ ResolveDeps(a) \/ AddAlg(a)
    <3>1. /\ contested' = contested /\ conn[a] \in Past
          /\ \E c \in {"none", "deps", "add"} : conn' = [conn EXCEPT ![a] = c]
      BY <2>3 DEF DeleteAlg, ResolveDeps, AddAlg, Past
    <3> QED BY <3>1 DEF ConnStates
  <2> QED BY <2>2, <2>3 DEF Connection
<1>4. Alone(b) /\ (b # a => conn'[b] = conn[b]) /\ \A c \in Algs : c # a => conn'[c] = conn[c]
  BY <1>1, <1>2, <1>3 DEF Alone
<1>5. NameOf(b)
  BY <1>4 DEF ServerInv
<1>6. ASSUME NEW c \in Algs \ {b}, Name(c) = Name(b), conn'[b] \in Past, conn'[c] \in Past
      PROVE  FALSE
  <2>1. \A d \in Algs \ {a} : Name(d) = Name(a) /\ Name(a) = Name(b) /\ conn'[a] \in Past =>
          conn[d] \notin Past
    <3>1. CASE conn[a] \in Past /\ Name(a) = Name(b)
      <4>1. NameOf(a)
        BY <1>4, <3>1 DEF ServerInv, Alone
      <4> QED BY <3>1, <4>1 DEF NameOf
    <3>2. CASE \E next \in ConnStates : PassCheck(a, next)
      BY <1>2, <3>2 DEF PassCheck, Alone, Past
    <3> QED BY <1>3, <3>1, <3>2
  <2>2. CASE b = a
    BY <1>4, <1>6, <2>1, <2>2
  <2>3. CASE c = a
    BY <1>4, <1>6, <2>1, <2>3
  <2>4. CASE b # a /\ c # a
    BY <1>4, <1>5, <1>6, <2>4 DEF NameOf
  <2> QED BY <2>2, <2>3, <2>4
<1> QED BY <1>2, <1>4, <1>6

\* What deleting the name of a does to the rest of the registry.
LEMMA DeletedName ==
  ASSUME ServerInv, NEW a \in Algs, DeleteAlg(a), NEW known, known = alg_map[Name(a)]
  PROVE  /\ conn' = [conn EXCEPT ![a] = "deps"] /\ contested' = contested
         /\ level' = level /\ open' = open /\ joined' = joined /\ to_alg' = to_alg
         /\ known = NoAlg =>
              UNCHANGED <<alg_tree, alg_map, cut, state, to_server>>
         /\ known # NoAlg =>
              /\ known \in Algs /\ Name(known) = Name(a) /\ Name(a) \in Algs
              /\ alg_tree' = EraseFromTree(alg_tree, Name(a))
              /\ alg_map' = [alg_map EXCEPT ![Name(a)] = NoAlg] /\ cut' = cut \ {known}
              /\ state' = [state EXCEPT ![known] = "none"]
              /\ to_server' = [to_server EXCEPT ![known] = NoMessage]
<1>1. Types /\ MapOK /\ Name(a) \in Algs
  BY DEF ServerInv, Types, ScenarioType, Name
<1>2. known # NoAlg => known \in Algs /\ Name(known) = Name(a)
  BY <1>1 DEF Types, MapOK
<1> QED BY <1>1, <1>2 DEF DeleteAlg

LEMMA MapStep ==
  ASSUME ServerInv, NEW a \in Algs, Connection(a)
  PROVE  MapOK' /\ (cut \subseteq Registered)'
<1>1. /\ Types /\ MapOK /\ cut \subseteq Registered /\ Name(a) \in Algs
      /\ scenario' = scenario /\ \A n : Name(n)' = Name(n)
  BY DEF ServerInv, Types, ScenarioType, Name, Connection, HasAlg, CheckAlg, DeleteAlg, ResolveDeps,
         AddAlg
<1>2. CASE HasAlg(a) \/ CheckAlg(a) \/ ResolveDeps(a)
  <2>1. alg_map' = alg_map /\ state' = state /\ cut' = cut
    BY <1>2 DEF HasAlg, CheckAlg, ResolveDeps
  <2> QED BY <1>1, <2>1 DEF MapOK, Registered
<1>3. CASE AddAlg(a)
  <2>1. /\ alg_map' = [alg_map EXCEPT ![Name(a)] = a] /\ state' = [state EXCEPT ![a] = "READY_INIT"]
        /\ cut' = (cut \cup {b \in Registered : level[b] > level[a]}) \ {a}
    BY <1>3 DEF AddAlg
  <2>2. \A b \in Algs : state'[b] # "none" <=> state[b] # "none" \/ b = a
    BY <1>1, <2>1 DEF Types
  <2>3. cut' \subseteq Registered'
    BY <1>1, <2>1, <2>2 DEF Registered
  <2>4. \A n \in Algs : alg_map'[n] = IF n = Name(a) THEN a ELSE alg_map[n]
    BY <1>1, <2>1 DEF Types
  <2>5. \A n \in Algs : alg_map[n] # NoAlg => alg_map[n] \in Algs
    BY <1>1 DEF Types
  <2> QED BY <1>1, <2>2, <2>3, <2>4, <2>5 DEF MapOK
<1>4. CASE DeleteAlg(a)
  <2> DEFINE known == alg_map[Name(a)]
  <2>1. CASE known = NoAlg
    <3>1. UNCHANGED <<alg_map, state, cut>>
      BY <1>4, <2>1 DEF DeleteAlg
    <3> QED BY <1>1, <3>1 DEF MapOK, Registered
  <2>2. CASE known # NoAlg
    <3>1. /\ known \in Algs /\ Name(known) = Name(a)
          /\ alg_map' = [alg_map EXCEPT ![Name(a)] = NoAlg] /\ cut' = cut \ {known}
          /\ state' = [state EXCEPT ![known] = "none"]
      BY <1>4, <2>2, DeletedName
    <3> HIDE DEF known
    <3>2. \A b \in Algs : state'[b] # "none" <=> state[b] # "none" /\ b # known
      BY <1>1, <3>1 DEF Types
    <3>3. cut' \subseteq Registered'
      BY <1>1, <3>1, <3>2 DEF Registered
    <3>4. \A n \in Algs : alg_map'[n] = IF n = Name(a) THEN NoAlg ELSE alg_map[n]
      BY <1>1, <3>1 DEF Types
    <3>5. \A n \in Algs : alg_map[n] # NoAlg => alg_map[n] \in Algs
      BY <1>1 DEF Types
    <3> QED BY <1>1, <3>1, <3>2, <3>3, <3>4, <3>5 DEF MapOK
  <2> QED BY <2>1, <2>2
<1> QED BY <1>2, <1>3, <1>4 DEF Connection

LEMMA NameStep ==
  ASSUME ServerInv, NEW a \in Algs, Connection(a), NEW b \in Algs, Alone(b)'
  PROVE  NameOf(b)'
<1>1. /\ Types /\ MapOK /\ Name(b) \in Algs /\ Name(a) \in Algs
      /\ state \in [Algs -> AlgStates] /\ alg_map \in [Algs -> Algs \cup {NoAlg}]
      /\ conn \in [Algs -> ConnStates]
  BY DEF ServerInv, Types, ScenarioType, Name
<1>2. /\ Alone(b) /\ NameOf(b) /\ scenario' = scenario /\ (b # a => conn'[b] = conn[b])
      /\ \A c \in Algs : Name(c)' = Name(c)
      /\ \A c \in Algs \ {b} : Name(c) = Name(b) /\ conn'[b] \in Past => conn'[c] \notin Past
  <2>1. scenario' = scenario /\ Alone(b)
    BY NamesApart
  <2>2. \A c \in Algs : Name(c)' = Name(c)
    BY <2>1 DEF Name
  <2> QED BY <2>1, <2>2, NamesApart DEF ServerInv
<1>3. ASSUME /\ conn'[b] \in {"deps", "add"} => alg_map'[Name(b)] = NoAlg
             /\ state'[b] # "none" => alg_map'[Name(b)] = b
             /\ conn'[b] = "delete" => alg_map'[Name(b)] # NoAlg /\ state'[alg_map'[Name(b)]] = "ERROR"
      PROVE  NameOf(b)'
  <2>1. Name(b)' = Name(b)
    BY <1>2
  <2> QED BY <1>2, <1>3, <2>1 DEF NameOf, Past
<1>4. CASE HasAlg(a) \/ CheckAlg(a) \/ ResolveDeps(a)
  <2>1. alg_map' = alg_map /\ state' = state
    BY <1>4 DEF HasAlg, CheckAlg, ResolveDeps
  <2>2. CASE b # a
    BY <1>2, <1>3, <2>1, <2>2 DEF NameOf
  <2>3. CASE b = a
    <3>1. CASE HasAlg(a)
      <4>1. conn'[a] = "check" \/ (conn'[a] = "deps" /\ alg_map[Name(a)] = NoAlg)
        BY <1>1, <3>1 DEF HasAlg, PassCheck
      <4> QED BY <1>2, <1>3, <2>1, <2>3, <4>1 DEF NameOf
    <3>2. CASE CheckAlg(a)
      <4>1. /\ alg_map[Name(a)] # NoAlg
            /\ \/ conn'[a] = "none"
               \/ conn'[a] = "delete" /\ state[alg_map[Name(a)]] \notin Working
        BY <1>1, <3>2 DEF CheckAlg, PassCheck
      <4>2. alg_map[Name(a)] \in Algs /\ state[alg_map[Name(a)]] # "none"
        BY <1>1, <4>1 DEF MapOK
      <4>3. conn'[a] = "delete" => state[alg_map[Name(a)]] = "ERROR"
        BY <1>1, <4>1, <4>2, WorkingStates DEF AlgStates
      <4> QED BY <1>2, <1>3, <2>1, <2>3, <4>1, <4>3 DEF NameOf
    <3>3. CASE ResolveDeps(a)
      <4>1. conn[a] = "deps" /\ conn'[a] \in {"none", "add"}
        <5>1. /\ conn[a] = "deps"
              /\ conn' = [conn EXCEPT ![a] = "add"] \/ conn' = [conn EXCEPT ![a] = "none"]
          BY <3>3 DEF ResolveDeps
        <5> QED BY <1>1, <5>1
      <4> QED BY <1>2, <1>3, <2>1, <2>3, <4>1 DEF NameOf
    <3> QED BY <1>4, <3>1, <3>2, <3>3
  <2> QED BY <2>2, <2>3
<1>5. CASE AddAlg(a)
  <2>1. /\ conn[a] = "add" /\ conn'[a] = "none"
        /\ \A n \in Algs : alg_map'[n] = IF n = Name(a) THEN a ELSE alg_map[n]
        /\ \A c \in Algs : state'[c] = IF c = a THEN "READY_INIT" ELSE state[c]
    BY <1>1, <1>5 DEF AddAlg
  <2>2. CASE b = a
    <3>1. conn'[b] = "none" /\ alg_map'[Name(b)] = b
      BY <1>1, <2>1, <2>2
    <3> QED BY <1>3, <3>1
  <2>3. CASE b # a /\ Name(b) # Name(a)
    <3>1. conn[b] = "delete" => alg_map[Name(b)] \in Algs /\ alg_map[Name(b)] # a
      BY <1>1, <1>2, <2>3 DEF NameOf, MapOK
    <3> QED BY <1>1, <1>2, <1>3, <2>1, <2>3, <3>1 DEF NameOf
  <2>4. CASE b # a /\ Name(b) = Name(a)
    <3>1. Alone(a) /\ NameOf(a)
      BY <1>2, <2>4 DEF Alone, ServerInv
    <3>2. alg_map[Name(a)] = NoAlg /\ conn[b] \notin Past /\ state[b] = "none"
      <4>1. alg_map[Name(a)] = NoAlg /\ conn[b] \notin Past
        BY <2>1, <2>4, <3>1 DEF NameOf, Past
      <4> QED BY <1>2, <2>4, <4>1, AlgServerAssumption DEF NameOf
    <3> QED BY <1>2, <1>3, <2>1, <2>4, <3>2 DEF Past
  <2> QED BY <2>2, <2>3, <2>4
<1>6. CASE DeleteAlg(a)
  <2> DEFINE known == alg_map[Name(a)]
  <2>0. conn[a] = "delete" /\ conn'[a] = "deps"
    BY <1>1, <1>6 DEF DeleteAlg
  <2>1. CASE known = NoAlg
    <3>1. UNCHANGED <<alg_map, state>>
      BY <1>6, <2>1 DEF DeleteAlg
    <3> QED BY <1>2, <1>3, <2>0, <2>1, <3>1 DEF NameOf
  <2>2. CASE known # NoAlg
    <3>1. known \in Algs /\ Name(known) = Name(a)
      BY <1>6, <2>2, DeletedName
    <3>2. /\ \A n \in Algs : alg_map'[n] = IF n = Name(a) THEN NoAlg ELSE alg_map[n]
          /\ \A c \in Algs : state'[c] = IF c = known THEN "none" ELSE state[c]
      <4>1. /\ alg_map' = [alg_map EXCEPT ![Name(a)] = NoAlg]
            /\ state' = [state EXCEPT ![known] = "none"]
        BY <1>6, <2>2, DeletedName
      <4> HIDE DEF known
      <4> QED BY <1>1, <3>1, <4>1
    <3> HIDE DEF known
    <3>3. CASE Name(b) # Name(a)
      <4>1. b # known /\ b # a
        BY <3>1, <3>3
      <4>2. conn[b] = "delete" => alg_map[Name(b)] \in Algs /\ alg_map[Name(b)] # known
        BY <1>1, <1>2, <3>1, <3>3 DEF NameOf, MapOK
      <4> QED BY <1>1, <1>2, <1>3, <3>2, <3>3, <4>1, <4>2 DEF NameOf
    <3>4. CASE Name(b) = Name(a)
      <4>1. state[b] # "none" => b = known
        BY <1>2, <3>4 DEF NameOf, known
      <4>2. conn'[b] # "delete"
        <5>1. Alone(a) /\ NameOf(a)
          BY <1>2, <3>4 DEF Alone, ServerInv
        <5>2. b # a => conn[b] \notin Past
          BY <2>0, <3>4, <5>1 DEF NameOf, Past
        <5> QED BY <1>2, <2>0, <5>2 DEF Past
      <4> QED BY <1>1, <1>2, <1>3, <3>2, <3>4, <4>1, <4>2
    <3> QED BY <3>3, <3>4
  <2> QED BY <2>1, <2>2
<1> QED BY <1>4, <1>5, <1>6 DEF Connection

\* What the registration of a does to a place of another, and its own.
LEMMA AddedPlace ==
  ASSUME ServerInv, NEW a \in Algs, AddAlg(a), NEW b \in Algs, Alone(b)'
  PROVE  PlaceOf(b)'
<1>1. /\ Types /\ alg_tree \in Seq(Seq(Algs)) /\ level' = level /\ level[a] \in Nat \ {0}
      /\ \A c \in Algs : level[c] \in Nat
  <2>1. Types /\ level' = level /\ level[a] > 0
    BY DEF ServerInv, Ready, AddAlg
  <2>2. alg_tree \in Seq(Seq(Algs)) /\ level \in [Algs -> Levels]
    BY <2>1 DEF Types
  <2>3. \A c \in Algs : level[c] \in Nat
    BY <2>2, SizeIsNat DEF Levels
  <2> QED BY <2>1, <2>2, <2>3
<1>2. /\ alg_tree' = AddToTree(alg_tree, level[a], a)
      /\ cut' = (cut \cup {c \in Registered : level[c] > level[a]}) \ {a}
      /\ \A c \in Algs : state'[c] = IF c = a THEN "READY_INIT" ELSE state[c]
      /\ conn[a] = "add"
  BY <1>1 DEF AddAlg, Types
<1>3. Alone(b) /\ NameOf(b) /\ PlaceOf(b)
  <2>1. Connection(a)
    BY DEF Connection
  <2>2. Alone(b)
    BY <2>1, NamesApart
  <2> QED BY <2>2 DEF ServerInv
<1>4. /\ \A c \in Algs \ {a} : \A k, j \in Nat :
           At(alg_tree', c, k, j) <=> At(alg_tree, c, k, j) /\ k <= level[a]
      /\ Absent(alg_tree, a) => Only(alg_tree', a, level[a])
  <2>1. alg_tree' = AddToTree(alg_tree, level[a], a)
    BY <1>2
  <2> QED BY <1>1, <2>1, AddedPlaces
<1>5. CASE b = a
  <2>1. state[a] = "none"
    BY <1>2, <1>3, <1>5, AlgServerAssumption DEF NameOf
  <2>2. Absent(alg_tree, a)
    BY <1>3, <1>5, <2>1 DEF PlaceOf, Registered
  <2>3. a \in Registered' /\ a \notin cut'
    BY <1>2 DEF Registered
  <2> QED BY <1>1, <1>4, <1>5, <2>2, <2>3 DEF PlaceOf
<1>6. CASE b # a
  <2>1. (b \in Registered' <=> b \in Registered) /\ state'[b] = state[b]
    BY <1>2, <1>6 DEF Registered
  <2>2. ASSUME Absent(alg_tree, b) PROVE Absent(alg_tree', b)
    BY <1>4, <1>6, <2>2 DEF Absent
  <2>3. CASE b \notin Registered \ cut
    <3>1. b \notin Registered' \ cut'
      BY <1>2, <1>6, <2>1, <2>3
    <3> QED BY <1>3, <2>2, <2>3, <3>1 DEF PlaceOf
  <2>4. CASE b \in Registered \ cut /\ level[b] > level[a]
    <3>1. b \in cut'
      BY <1>2, <1>6, <2>4
    <3>2. PICK i \in Nat : \A k, j \in Nat : At(alg_tree, b, k, j) => k = level[b] /\ j = i
      BY <1>3, <2>4 DEF PlaceOf, Only
    <3>3. \A k \in Nat : k = level[b] => ~(k <= level[a])
      BY <1>1, <2>4
    <3>4. Absent(alg_tree', b)
      BY <1>4, <1>6, <3>2, <3>3 DEF Absent
    <3> QED BY <3>1, <3>4 DEF PlaceOf
  <2>5. CASE b \in Registered \ cut /\ ~(level[b] > level[a])
    <3>1. b \in Registered' \ cut'
      BY <1>2, <2>1, <2>5
    <3>2. PICK i \in Nat : /\ At(alg_tree, b, level[b], i)
                           /\ \A k, j \in Nat : At(alg_tree, b, k, j) => k = level[b] /\ j = i
      BY <1>3, <2>5 DEF PlaceOf, Only
    <3>3. level[b] \in Nat /\ level[b] <= level[a]
      BY <1>1, <2>5
    <3>4. Only(alg_tree', b, level[b])
      BY <1>4, <1>6, <3>2, <3>3 DEF Only
    <3> QED BY <1>1, <3>1, <3>4 DEF PlaceOf
  <2> QED BY <2>3, <2>4, <2>5
<1> QED BY <1>5, <1>6

\* Every entry of a name that is not contested is that of the one algorithm
\* the map has.
LEMMA OneEntry ==
  ASSUME ServerInv, NEW a \in Algs, Alone(a), NEW l \in 1 .. Len(alg_tree)
  PROVE  OneOfName(alg_tree[l], Name(a))
<1>1. Types /\ alg_tree \in Seq(Seq(Algs))
  BY DEF ServerInv, Types
<1>2. /\ Len(alg_tree) \in Nat /\ Len(alg_tree[l]) \in Nat
      /\ \A i \in 1 .. Len(alg_tree[l]) : alg_tree[l][i] \in Algs
  BY <1>1, TreeRows
<1>3. ASSUME NEW i \in 1 .. Len(alg_tree[l]), Name(alg_tree[l][i]) = Name(a)
      PROVE  /\ i \in Nat /\ l \in Nat /\ At(alg_tree, alg_tree[l][i], l, i)
             /\ alg_tree[l][i] = alg_map[Name(a)]
             /\ \E p \in Nat : \A k, j \in Nat : At(alg_tree, alg_tree[l][i], k, j) => j = p
  <2> DEFINE b == alg_tree[l][i]
  <2>1. b \in Algs /\ i \in Nat /\ l \in Nat /\ At(alg_tree, b, l, i)
    BY <1>2 DEF At
  <2> HIDE DEF b
  <2>2. Alone(b) /\ Name(b) = Name(a)
    BY <1>3 DEF Alone, b
  <2>3. NameOf(b) /\ PlaceOf(b)
    BY <2>1, <2>2 DEF ServerInv
  <2>4. b \in Registered \ cut /\ Only(alg_tree, b, level[b])
    BY <2>1, <2>3 DEF PlaceOf, Absent
  <2>5. alg_map[Name(a)] = b
    BY <2>2, <2>3, <2>4 DEF NameOf, Registered
  <2>6. \E p \in Nat : \A k, j \in Nat : At(alg_tree, b, k, j) => j = p
    BY <2>4 DEF Only
  <2> QED BY <2>1, <2>5, <2>6 DEF b
<1>4. ASSUME NEW i \in 1 .. Len(alg_tree[l]), NEW j \in 1 .. Len(alg_tree[l]),
             Name(alg_tree[l][i]) = Name(a), Name(alg_tree[l][j]) = Name(a)
      PROVE  i = j
  <2>1. PICK p \in Nat : \A k, m \in Nat : At(alg_tree, alg_tree[l][i], k, m) => m = p
    BY <1>3, <1>4
  <2>2. /\ i \in Nat /\ j \in Nat /\ l \in Nat
        /\ At(alg_tree, alg_tree[l][i], l, i) /\ At(alg_tree, alg_tree[l][j], l, j)
        /\ alg_tree[l][i] = alg_tree[l][j]
    BY <1>3, <1>4
  <2> QED BY <2>1, <2>2
<1> QED BY <1>4 DEF OneOfName

LEMMA DeletedPlace ==
  ASSUME ServerInv, NEW a \in Algs, DeleteAlg(a), NEW b \in Algs, Alone(b)'
  PROVE  PlaceOf(b)'
<1> DEFINE known == alg_map[Name(a)]
<1>1. Types /\ alg_tree \in Seq(Seq(Algs)) /\ level' = level /\ level[b] \in Nat
  <2>1. Types /\ level \in [Algs -> Levels] /\ level' = level
    BY DEF ServerInv, Types, DeleteAlg
  <2>2. alg_tree \in Seq(Seq(Algs))
    BY <2>1 DEF Types
  <2>3. level[b] \in Nat
    BY <2>1, SizeIsNat DEF Levels
  <2> QED BY <2>1, <2>2, <2>3
<1>2. Alone(b) /\ NameOf(b) /\ PlaceOf(b)
  <2>1. Connection(a)
    BY DEF Connection
  <2>2. Alone(b)
    BY <2>1, NamesApart
  <2> QED BY <2>2 DEF ServerInv
<1>3. CASE known = NoAlg
  <2>1. UNCHANGED <<alg_tree, cut, state, level>>
    BY <1>1, <1>3 DEF DeleteAlg
  <2> QED BY <1>2, <2>1 DEF PlaceOf, Registered
<1>4. CASE known # NoAlg
  <2>1. /\ known \in Algs /\ Name(known) = Name(a)
        /\ alg_tree' = EraseFromTree(alg_tree, Name(a)) /\ cut' = cut \ {known}
        /\ state' = [state EXCEPT ![known] = "none"]
    BY <1>4, DeletedName
  <2> HIDE DEF known
  <2>2. \A c \in Algs : state'[c] = IF c = known THEN "none" ELSE state[c]
    BY <1>1, <2>1 DEF Types
  <2>3. /\ \A c : Name(c) # Name(a) =>
              /\ Absent(alg_tree, c) => Absent(alg_tree', c)
              /\ \A l \in Nat : Only(alg_tree, c, l) => Only(alg_tree', c, l)
        /\ (\A l \in 1 .. Len(alg_tree) : OneOfName(alg_tree[l], Name(a))) =>
              \A c : Name(c) = Name(a) => Absent(alg_tree', c)
    BY <1>1, <2>1, ErasedTree
  <2>4. CASE Name(b) # Name(a)
    <3>1. b \in Registered' \ cut' <=> b \in Registered \ cut
      <4>1. b # known
        BY <2>1, <2>4
      <4> QED BY <2>1, <2>2, <4>1 DEF Registered
    <3> QED BY <1>1, <1>2, <2>3, <2>4, <3>1 DEF PlaceOf
  <2>5. CASE Name(b) = Name(a)
    <3>1. Alone(a)
      BY <1>2, <2>5 DEF Alone
    <3>2. Absent(alg_tree', b)
      BY <2>3, <2>5, <3>1, OneEntry
    <3>3. b \notin Registered'
      BY <1>2, <2>2, <2>5 DEF NameOf, Registered, known
    <3> QED BY <3>2, <3>3 DEF PlaceOf
  <2> QED BY <2>4, <2>5
<1> QED BY <1>3, <1>4

LEMMA PlaceStep ==
  ASSUME ServerInv, NEW a \in Algs, Connection(a), NEW b \in Algs, Alone(b)'
  PROVE  PlaceOf(b)'
<1>1. Alone(b) /\ NameOf(b) /\ PlaceOf(b) /\ Types
  <2>1. Alone(b)
    BY NamesApart
  <2> QED BY <2>1 DEF ServerInv
<1>2. CASE HasAlg(a) \/ CheckAlg(a)
  <2>1. UNCHANGED <<alg_tree, cut, state, level>>
    BY <1>2 DEF HasAlg, CheckAlg
  <2> QED BY <1>1, <2>1 DEF PlaceOf, Registered
<1>3. CASE ResolveDeps(a)
  <2>1. UNCHANGED <<alg_tree, cut, state>> /\ conn[a] = "deps"
    BY <1>3 DEF ResolveDeps
  <2>2. CASE b # a
    <3>1. level' = level \/ \E l \in 1 .. Cardinality(Algs) : level' = [level EXCEPT ![a] = l]
      BY <1>3 DEF ResolveDeps
    <3>2. level'[b] = level[b]
      BY <1>1, <2>2, <3>1 DEF Types
    <3> QED BY <1>1, <2>1, <3>2 DEF PlaceOf, Registered
  <2>3. CASE b = a
    <3>1. state[a] = "none"
      BY <1>1, <2>1, <2>3, AlgServerAssumption DEF NameOf
    <3> QED BY <1>1, <2>1, <2>3, <3>1 DEF PlaceOf, Registered
  <2> QED BY <2>2, <2>3
<1> QED BY <1>2, <1>3, AddedPlace, DeletedPlace DEF Connection

\* A step that leaves the variables of a process alone keeps it in step.
LEMMA InStepStays ==
  ASSUME NEW a, InStep(a),
         state'[a] = state[a], open'[a] = open[a], conn'[a] = conn[a], call'[a] = call[a],
         waiting'[a] = waiting[a], to_server'[a] = to_server[a], to_alg'[a] = to_alg[a]
  PROVE  InStep(a)'
BY DEF InStep, Coming, Answered, Outside

LEMMA AwaitedActions ==
  /\ Awaited("READY_INIT") = "begin_init" /\ Awaited("PERFORMING_INIT") = "end_init"
  /\ Awaited("READY_PRE") = "begin_pre" /\ Awaited("PERFORMING_PRE") = "end_pre"
  /\ Awaited("READY_POST") = "begin_post" /\ Awaited("PERFORMING_POST") = "end_post"
  /\ \A s \in Working : Awaited(s) \in Actions
BY WorkingStates DEF Awaited, Actions

LEMMA ConnectionStep ==
  ASSUME ServerInv, NEW a \in Algs, Connection(a), NEW b \in Algs, Alone(b)'
  PROVE  InStep(b)'
<1> USE AlgServerAssumption
<1>1. Types /\ Alone(b) /\ NameOf(b) /\ InStep(b)
  <2>1. Alone(b)
    BY NamesApart
  <2> QED BY <2>1 DEF ServerInv
<1>2. call' = call /\ waiting' = waiting /\ conn[a] # "none" /\ (b # a => conn'[b] = conn[b])
  BY NamesApart DEF Connection, HasAlg, CheckAlg, DeleteAlg, ResolveDeps, AddAlg, client_vars
<1>3. CASE HasAlg(a) \/ CheckAlg(a) \/ ResolveDeps(a)
  <2>1. state' = state /\ open' = open /\ to_server' = to_server
    BY <1>3 DEF HasAlg, CheckAlg, ResolveDeps
  <2>2. \/ to_alg'[b] = to_alg[b]
        \/ b = a /\ call[a] = "register" /\ to_alg'[a].result = "failure"
    <3>1. to_alg' = to_alg \/ AnswerRegistration(a, Reply("failure", 0))
      BY <1>3 DEF HasAlg, CheckAlg, ResolveDeps
    <3> QED BY <1>1, <3>1 DEF AnswerRegistration, Types, Reply
  <2>3. CASE b # a
    BY <1>1, <1>2, <2>1, <2>2, <2>3, InStepStays
  <2>4. CASE b = a
    <3>1. ~open[a] /\ Outside(a)
      BY <1>1, <1>2, <2>4 DEF InStep
    <3> QED BY <1>1, <1>2, <2>1, <2>2, <2>4, <3>1 DEF InStep, Outside
  <2> QED BY <2>3, <2>4
<1>4. CASE DeleteAlg(a)
  <2> DEFINE known == alg_map[Name(a)]
  <2>1. open' = open /\ to_alg' = to_alg
    BY <1>4 DEF DeleteAlg
  <2>2. CASE known = NoAlg \/ b # known
    <3>1. state'[b] = state[b] /\ to_server'[b] = to_server[b]
      <4>1. CASE known = NoAlg
        BY <1>4, <4>1 DEF DeleteAlg
      <4>2. CASE known # NoAlg
        <5>1. /\ state' = [state EXCEPT ![known] = "none"]
              /\ to_server' = [to_server EXCEPT ![known] = NoMessage]
          BY <1>4, <4>2, DeletedName
        <5> HIDE DEF known
        <5> QED BY <1>1, <2>2, <4>2, <5>1 DEF Types
      <4> QED BY <4>1, <4>2
    <3>2. CASE b # a
      BY <1>1, <1>2, <2>1, <3>1, <3>2, InStepStays
    <3>3. CASE b = a
      <4>1. ~open[a] /\ Outside(a)
        BY <1>1, <1>2, <3>3 DEF InStep
      <4> QED BY <1>1, <1>2, <2>1, <3>1, <3>3, <4>1 DEF InStep, Outside
    <3> QED BY <3>2, <3>3
  <2>3. CASE known # NoAlg /\ b = known
    <3>1. /\ known \in Algs /\ Name(known) = Name(a)
          /\ state' = [state EXCEPT ![known] = "none"]
          /\ to_server' = [to_server EXCEPT ![known] = NoMessage]
      BY <1>4, <2>3, DeletedName
    <3>2. state'[b] = "none" /\ to_server'[b] = NoMessage
      BY <1>1, <2>3, <3>1 DEF Types
    <3>3. state[b] = "ERROR"
      <4>1. Alone(a) /\ conn[a] = "delete"
        BY <1>1, <1>4, <2>3, <3>1 DEF Alone, DeleteAlg
      <4> QED BY <2>3, <4>1 DEF ServerInv, NameOf
    <3>4. ~open[b] /\ Outside(b)
      BY <1>1, <3>3, WorkingStates DEF InStep
    <3> QED BY <1>2, <2>1, <3>2, <3>4 DEF InStep, Outside
  <2> QED BY <2>2, <2>3
<1>5. CASE AddAlg(a)
  <2>1. /\ \A c \in Algs \ {a} : state'[c] = state[c] /\ open'[c] = open[c]
                                 /\ to_server'[c] = to_server[c] /\ to_alg'[c] = to_alg[c]
        /\ state'[a] = "READY_INIT" /\ open'[a] = (call[a] = "register")
        /\ to_server'[a] = NoMessage /\ conn'[a] = "none"
    <3>1. /\ state' = [state EXCEPT ![a] = "READY_INIT"] /\ conn' = [conn EXCEPT ![a] = "none"]
          /\ open' = [open EXCEPT ![a] = call[a] = "register"]
          /\ to_server' = [to_server EXCEPT ![a] = NoMessage]
          /\ AnswerRegistration(a, Reply("success", 0))
      BY <1>5 DEF AddAlg
    <3>2. /\ state \in [Algs -> AlgStates] /\ conn \in [Algs -> ConnStates]
          /\ open \in [Algs -> BOOLEAN] /\ to_server \in [Algs -> Actions \cup {NoMessage}]
          /\ to_alg \in [Algs -> [result : {"none", "success", "failure"}, batch : 0 .. NumBatches]]
      BY <1>1 DEF Types
    <3>3. open'[a] = (call[a] = "register") /\ \A c \in Algs \ {a} : open'[c] = open[c]
      BY <3>1, <3>2, Zenon
    <3>4. \A c \in Algs \ {a} : to_alg'[c] = to_alg[c]
      BY <3>1, <3>2 DEF AnswerRegistration
    <3> QED BY <3>1, <3>2, <3>3, <3>4
  <2>2. CASE b # a
    BY <1>1, <1>2, <2>1, <2>2, InStepStays
  <2>3. CASE b = a /\ call[a] = "register"
    <3>1. ~open[a] /\ Outside(a) /\ waiting[a]
      BY <1>1, <1>2, <2>3 DEF InStep, Outside
    <3>2. to_alg'[a].result = "success"
      BY <1>1, <1>5, <2>3 DEF AddAlg, AnswerRegistration, Types, Reply
    <3>3. Answered(a)'
      BY <1>2, <2>1, <2>3, <3>1, <3>2, NextCalls, AwaitedActions DEF Answered
    <3> QED BY <2>1, <2>3, <3>3, WorkingStates DEF InStep
  <2>4. CASE b = a /\ call[a] # "register"
    <3>1. ~open[a] /\ Outside(a)
      BY <1>1, <1>2, <2>4 DEF InStep
    <3>2. to_alg' = to_alg /\ ~open'[a]
      BY <1>5, <2>1, <2>4 DEF AddAlg, AnswerRegistration
    <3>3. Outside(a)'
      BY <1>2, <3>1, <3>2 DEF Outside
    <3> QED BY <2>1, <2>4, <3>2, <3>3 DEF InStep
  <2> QED BY <2>2, <2>3, <2>4
<1> QED BY <1>3, <1>4, <1>5 DEF Connection

LEMMA ClientStep ==
  ASSUME Types, NEW a \in Algs, Connect(a) \/ Send(a) \/ Receive(a) \/ Crash(a),
         NEW b \in Algs, InStep(b)
  PROVE  InStep(b)'
<1> USE AlgServerAssumption
<1>1. Types /\ InStep(b)
  OBVIOUS
<1>2. CASE b # a
  BY <1>1, <1>2, InStepStays DEF Connect, Send, Receive, Crash, Types, tree_vars
<1>3. CASE b = a
  <2>1. CASE Connect(a)
    <3>1. ~open[a] /\ call[a] = "none" /\ to_alg[a] = NoReply
      <4>1. call[a] = "none"
        BY <2>1 DEF Connect
      <4>2. open[a] => FALSE
        BY <1>1, <1>3, <4>1, AwaitedActions DEF InStep, Coming, Answered, Actions
      <4> QED BY <1>1, <1>3, <4>1, <4>2 DEF InStep, Outside
    <3>2. /\ call'[a] = "register" /\ waiting'[a] /\ conn'[a] = "has_alg"
          /\ state' = state /\ open' = open /\ to_server' = to_server /\ to_alg' = to_alg
      BY <1>1, <2>1 DEF Connect, Types
    <3> QED BY <1>1, <1>3, <3>1, <3>2 DEF InStep, Outside, NoReply, Reply
  <2>2. CASE Send(a)
    <3>1. open[a] /\ Coming(a) /\ ~waiting[a]
      BY <1>1, <1>3, <2>2 DEF Send, InStep, Outside, Answered, Actions
    <3>2. /\ to_server'[a] = call[a] /\ waiting'[a] /\ call' = call /\ conn' = conn
          /\ state' = state /\ open' = open /\ to_alg' = to_alg
      BY <1>1, <2>2 DEF Send, Types
    <3>3. Coming(a)'
      BY <3>1, <3>2 DEF Coming
    <3> QED BY <1>1, <1>3, <3>1, <3>2, <3>3, WorkingStates DEF InStep
  <2>3. CASE Receive(a)
    <3>1. /\ waiting[a] /\ to_alg[a] # NoReply /\ ~waiting'[a] /\ to_alg'[a] = NoReply
          /\ call'[a] = IF to_alg[a].result = "success" THEN NextCall[call[a]] ELSE "none"
          /\ state' = state /\ open' = open /\ to_server' = to_server /\ conn' = conn
      BY <1>1, <2>3 DEF Receive, Types
    <3>2. CASE open[a]
      <4>1. Answered(a)
        BY <1>1, <1>3, <3>1, <3>2 DEF InStep, Coming
      <4>2. Coming(a)'
        BY <3>1, <4>1 DEF Coming, Answered
      <4> QED BY <1>1, <1>3, <3>1, <3>2, <4>2 DEF InStep
    <3>3. CASE ~open[a]
      <4>1. Outside(a)'
        BY <1>1, <1>3, <3>1, <3>3 DEF InStep, Outside
      <4> QED BY <1>1, <1>3, <3>1, <3>3, <4>1 DEF InStep
    <3> QED BY <3>2, <3>3
  <2>4. CASE Crash(a)
    <3>1. /\ ~open'[a] /\ call'[a] = "none" /\ ~waiting'[a] /\ to_alg'[a] = NoReply
          /\ state' = state /\ to_server' = to_server /\ conn' = conn
      BY <1>1, <2>4 DEF Crash, Types
    <3> QED BY <1>1, <1>3, <3>1 DEF InStep, Outside
  <2> QED BY <2>1, <2>2, <2>3, <2>4
<1> QED BY <1>2, <1>3

\* The answer sends the process to the call that the new state awaits.
LEMMA HandleStep ==
  ASSUME Types, NEW e \in Exchanges, Handle(e), NEW b \in Algs, InStep(b)
  PROVE  /\ InStep(b)'
         /\ b = srv.cur /\ open[b] =>
              /\ state[b] = e.from /\ state'[b] = e.to /\ call[b] = e.action /\ waiting[b]
              /\ to_alg'[b] = Reply("success", IF e.action \in BeginActions THEN batch ELSE 0)
<1> USE AlgServerAssumption
<1>1. Types /\ InStep(b) /\ srv.cur \in Algs
  BY DEF Types, Handle
<1>2. /\ open' = open /\ conn' = conn /\ call' = call /\ waiting' = waiting /\ level' = level
      /\ state[srv.cur] = e.from
  BY DEF Handle, Due, others, tree_vars, client_vars
<1>3. CASE b # srv.cur
  BY <1>1, <1>2, <1>3, InStepStays DEF Handle, Answer, Types
<1>4. CASE b = srv.cur
  <2>1. /\ state'[b] = IF to_server[b] = e.action THEN e.to ELSE "ERROR"
        /\ to_server'[b] = NoMessage /\ (to_server[b] # NoMessage \/ ~open[b])
    BY <1>1, <1>4 DEF Handle, Types
  <2>2. /\ Awaited(e.from) = e.action /\ e.action \in Actions /\ e.from \in Working
        /\ e.to \in Working /\ NextCall[e.action] = Awaited(e.to)
    BY AwaitedActions, NextCalls, WorkingStates DEF Exchanges, Exchange, Actions
  <2>3. CASE open[b]
    <3>1. Coming(b) /\ waiting[b] /\ call[b] = e.action /\ to_server[b] = e.action
      BY <1>1, <1>2, <1>4, <2>1, <2>2, <2>3 DEF InStep, Coming, Answered
    <3>2. to_alg'[b] = Reply("success", IF e.action \in BeginActions THEN batch ELSE 0)
      BY <1>1, <1>4, <2>3, <3>1 DEF Handle, Answer, Types
    <3>3. to_alg'[b].result = "success"
      BY <3>2 DEF Reply
    <3>4. Answered(b)'
      BY <1>2, <2>1, <2>2, <3>1, <3>3 DEF Answered, Actions
    <3>5. InStep(b)'
      BY <1>1, <1>2, <2>1, <2>2, <2>3, <3>1, <3>4, WorkingStates DEF InStep
    <3> QED BY <1>2, <1>4, <2>1, <3>1, <3>2, <3>5
  <2>4. CASE ~open[b]
    <3>1. to_alg'[b] = to_alg[b]
      BY <1>4, <2>4 DEF Handle, Answer
    <3>2. Outside(b)'
      BY <1>1, <1>2, <2>4, <3>1 DEF InStep, Outside
    <3>4. InStep(b)'
      BY <1>1, <1>2, <2>1, <2>4, <3>2 DEF InStep
    <3> QED BY <2>4, <3>4
  <2> QED BY <2>3, <2>4
<1> QED BY <1>3, <1>4

\* The batch in progress is in the graph from the start of postprocessing.
LEMMA LoopGraph ==
  ASSUME Types, GraphOK, ProcessLoop
  PROVE  GraphOK'
<1> USE DEF GraphOK, AtRest
<1>1. Types /\ batch \in Nat /\ graph \in Nat /\ srv.pass \in Passes
  BY DEF Types, SrvType
<1>2. CASE DequeueBatch
  <2>1. srv'.pc = "level" /\ srv'.pass = "init"
    BY <1>1, <1>2, Moves, PassNames DEF DequeueBatch
  <2>2. batch' = batch + 1 /\ graph' = graph /\ graph = batch
    BY <1>2 DEF DequeueBatch
  <2> QED BY <1>1, <2>1, <2>2
<1>3. CASE ReadNumAlgs \/ GetAlg \/ Skip \/ \E e \in Exchanges : Handle(e)
  <2>1. srv.pc \in {"level", "alg", "handle"} /\ batch' = batch /\ graph' = graph
    BY <1>3 DEF ReadNumAlgs, GetAlg, Skip, Handle
  <2>2. srv' = srv \/ srv' = NextIndex \/ ReadNumAlgs \/ GetAlg
    BY <1>3 DEF Skip, Handle
  <2>3. srv'.pc \in {"level", "alg", "handle"} /\ srv'.pass = srv.pass
    BY <1>1, <2>1, <2>2, Moves
  <2> QED BY <2>1, <2>3
<1>4. CASE EndLevel
  <2>1. srv.pc = "alg" /\ batch' = batch /\ graph' = graph
    BY <1>4 DEF EndLevel
  <2>2. /\ srv'.pc \in {"level", "alg"}
        /\ <<srv.pass, srv'.pass>> \in
             {<<"begin_pre", "end_pre">>, <<"begin_post", "end_post">>, <<"end_pre", "begin_pre">>,
              <<"end_post", "begin_post">>, <<"init", "init">>}
    BY <1>1, <1>4, Moves
  <2> QED BY <2>1, <2>2
<1>5. CASE EndInit
  <2>1. srv'.pc = "level" /\ srv'.pass = "begin_pre"
    BY <1>1, <1>5, Moves, PassNames DEF EndInit
  <2> QED BY <1>5, <2>1 DEF EndInit, LastLevelDone
<1>6. CASE UpdateGraph
  <2>1. srv'.pc = "level" /\ srv'.pass = "begin_post"
    BY <1>1, <1>6, Moves, PassNames DEF UpdateGraph
  <2>2. graph = batch - 1 /\ graph' = graph + 1 /\ batch' = batch /\ batch > 0
    BY <1>6 DEF UpdateGraph, LastLevelDone
  <2> QED BY <1>1, <2>1, <2>2
<1>7. CASE EndBatch
  <2>1. srv'.pc = "dequeue" /\ srv'.pass = "init"
    BY <1>1, <1>7, Moves
  <2> QED BY <1>7, <2>1 DEF EndBatch, LastLevelDone
<1> QED BY <1>2, <1>3, <1>4, <1>5, <1>6, <1>7 DEF ProcessLoop

\* The loop registers nobody and drops nobody.
LEMMA LoopRegistered ==
  ASSUME Types, ProcessLoop, NEW b \in Algs
  PROVE  /\ state'[b] = "none" <=> state[b] = "none"
         /\ state[b] = "ERROR" => state'[b] = "ERROR"
<1>1. ASSUME NEW e \in Exchanges, Handle(e)
      PROVE  /\ state'[b] = "none" <=> state[b] = "none"
             /\ state[b] = "ERROR" => state'[b] = "ERROR"
  <2>1. e.from \notin {"none", "ERROR"} /\ e.to # "none" /\ srv.cur \in Algs
    BY <1>1 DEF Exchanges, Exchange, Handle, Types
  <2>2. state[srv.cur] = e.from /\ (b # srv.cur => state'[b] = state[b])
    BY <1>1 DEF Handle, Due, Types
  <2>3. state'[srv.cur] \in {e.to, "ERROR"}
    BY <1>1, <2>1 DEF Handle, Types
  <2> QED BY <2>1, <2>2, <2>3
<1>2. CASE ~ \E e \in Exchanges : Handle(e)
  BY <1>2 DEF ProcessLoop, DequeueBatch, ReadNumAlgs, GetAlg, Skip, EndLevel, EndInit, UpdateGraph,
              EndBatch, unhandled
<1> QED BY <1>1, <1>2

\* What the connection threads and processes leave alone, and what the loop does.
LEMMA OuterLeaves ==
  ASSUME NEW a \in Algs, Connect(a) \/ Connection(a) \/ Send(a) \/ Receive(a) \/ Crash(a)
  PROVE  /\ srv' = srv /\ batch' = batch /\ graph' = graph /\ scenario' = scenario
         /\ ~Connection(a) => UNCHANGED <<tree_vars, state>>
BY DEF Connect, Connection, HasAlg, CheckAlg, DeleteAlg, ResolveDeps, AddAlg, Send, Receive, Crash

LEMMA LoopLeaves ==
  ASSUME ProcessLoop
  PROVE  /\ UNCHANGED <<scenario, tree_vars, open, conn, client_vars>>
         /\ batch' = batch \/ batch' = batch + 1
         /\ ~(\E e \in Exchanges : Handle(e)) => UNCHANGED <<state, to_server, to_alg>>
BY DEF ProcessLoop, DequeueBatch, ReadNumAlgs, GetAlg, Skip, EndLevel, EndInit, UpdateGraph,
       EndBatch, Handle, others, unhandled

LEMMA OuterJoined ==
  ASSUME Types, JoinedOK, NEW a \in Algs,
         Connect(a) \/ Connection(a) \/ Send(a) \/ Receive(a) \/ Crash(a)
  PROVE  JoinedOK'
<1>1. joined' = joined \/ joined' = [joined EXCEPT ![a] = batch]
  BY DEF Connection, Connect, HasAlg, CheckAlg, DeleteAlg, ResolveDeps, AddAlg, Send, Receive, Crash,
         tree_vars
<1>2. batch' = batch /\ batch \in Nat /\ joined \in [Algs -> Nat]
  BY OuterLeaves, AlgServerAssumption DEF Types
<1> QED BY <1>1, <1>2 DEF JoinedOK

LEMMA LoopJoined ==
  ASSUME Types, JoinedOK, ProcessLoop
  PROVE  JoinedOK'
<1>1. joined' = joined /\ (batch' = batch \/ batch' = batch + 1)
  BY LoopLeaves DEF tree_vars
<1>2. batch \in Nat /\ joined \in [Algs -> Nat]
  BY AlgServerAssumption DEF Types
<1> QED BY <1>1, <1>2 DEF JoinedOK

LEMMA DistinctStep ==
  ASSUME ServerInv, NEW a \in Algs,
         Connect(a) \/ Connection(a) \/ Send(a) \/ Receive(a) \/ Crash(a)
  PROVE  DistinctOK'
<1> SUFFICES ASSUME \A b \in Algs : Name(b) = b
             PROVE  contested' = {} /\ \A b \in Algs : conn'[b] = "check" => alg_map'[b] # NoAlg
  <2>1. \A b \in Algs : Name(b)' = Name(b)
    BY OuterLeaves DEF Name
  <2> QED BY <2>1 DEF DistinctOK
<1>1. /\ contested = {} /\ \A b \in Algs : conn[b] = "check" => alg_map[b] # NoAlg
      /\ Types /\ MapOK /\ \A b \in Algs \ {a} : Name(b) # Name(a)
  BY DEF ServerInv, DistinctOK
<1>2. CASE ~Connection(a)
  <2>1. contested' = contested /\ alg_map' = alg_map
    BY <1>2, OuterLeaves DEF tree_vars
  <2>2. \A b \in Algs : conn'[b] = "check" => conn[b] = "check"
    BY <1>1, <1>2 DEF Connect, Send, Receive, Crash, Types
  <2> QED BY <1>1, <2>1, <2>2
<1>3. CASE Connection(a)
  <2>1. contested' = {}
    BY <1>1, <1>3
       DEF Connection, HasAlg, CheckAlg, PassCheck, DeleteAlg, ResolveDeps, AddAlg
  <2>2. \A b \in Algs : Alone(b)'
    BY <2>1 DEF Alone
  <2>3. ASSUME NEW b \in Algs, conn'[b] = "check"
        PROVE  alg_map'[b] # NoAlg
    <3>1. CASE b # a
      <4>1. conn[b] = "check"
        BY <1>3, <2>2, <2>3, <3>1, NamesApart
      <4>2. alg_map'[b] = alg_map[b]
        <5>1. \/ alg_map' = alg_map \/ alg_map' = [alg_map EXCEPT ![Name(a)] = NoAlg]
              \/ alg_map' = [alg_map EXCEPT ![Name(a)] = a]
          BY <1>3 DEF Connection, HasAlg, CheckAlg, DeleteAlg, ResolveDeps, AddAlg
        <5> QED BY <1>1, <3>1, <5>1 DEF Types
      <4> QED BY <1>1, <4>1, <4>2
    <3>2. CASE b = a
      <4>1. HasAlg(a)
        <5>1. ~CheckAlg(a) /\ ~DeleteAlg(a) /\ ~ResolveDeps(a) /\ ~AddAlg(a)
          <6>1. CheckAlg(a) \/ DeleteAlg(a) \/ ResolveDeps(a) \/ AddAlg(a) =>
                  \E c \in {"none", "delete", "deps", "add"} : conn' = [conn EXCEPT ![a] = c]
            BY DEF CheckAlg, PassCheck, DeleteAlg, ResolveDeps, AddAlg
          <6> QED BY <1>1, <2>3, <3>2, <6>1 DEF Types
        <5> QED BY <1>3, <5>1 DEF Connection
      <4>2. alg_map' = alg_map /\ conn' # [conn EXCEPT ![a] = "deps"]
        BY <1>1, <2>3, <3>2, <4>1 DEF HasAlg, Types
      <4> QED BY <3>2, <4>1, <4>2 DEF HasAlg, PassCheck
    <3> QED BY <3>1, <3>2
  <2> QED BY <2>1, <2>3
<1> QED BY <1>2, <1>3

LEMMA ClientServer ==
  ASSUME ServerInv, NEW a \in Algs, Connect(a) \/ Send(a) \/ Receive(a) \/ Crash(a),
         ~Connection(a), NEW b \in Algs, Alone(b)'
  PROVE  NameOf(b)' /\ InStep(b)' /\ PlaceOf(b)'
<1>1. UNCHANGED <<alg_tree, alg_map, level, cut, contested, state, scenario>>
  BY OuterLeaves DEF tree_vars
<1>2. \A c \in Algs : Name(c)' = Name(c)
  BY <1>1 DEF Name
<1>3. Types /\ NameOf(b) /\ InStep(b) /\ PlaceOf(b)
  BY <1>1, <1>2 DEF ServerInv, Alone
<1>4. \A c \in Algs : conn'[c] = conn[c] \/ (conn'[c] = "has_alg" /\ conn[c] = "none")
  BY <1>3 DEF Connect, Send, Receive, Crash, Types
<1>5. NameOf(b)'
  <2>1. \A c \in Algs : (conn'[c] \in Past <=> conn[c] \in Past)
                        /\ (conn'[c] \in Past => conn'[c] = conn[c])
    BY <1>4 DEF Past
  <2> QED BY <1>1, <1>2, <1>3, <2>1 DEF NameOf, Past
<1>6. PlaceOf(b)'
  BY <1>1, <1>3 DEF PlaceOf, Registered
<1>7. InStep(b)'
  BY <1>3, ClientStep
<1> QED BY <1>5, <1>6, <1>7

LEMMA LoopServer ==
  ASSUME ServerInv, ProcessLoop
  PROVE  ServerInv'
<1>1. /\ UNCHANGED <<scenario, alg_tree, alg_map, level, cut, contested, conn>>
      /\ \A c : Name(c)' = Name(c)
  BY LoopLeaves DEF tree_vars, Name
<1>2. Types /\ Types' /\ Ready' /\ GraphOK' /\ JoinedOK'
  BY LoopTypes, LoopReadyStays, LoopGraph, LoopJoined DEF ServerInv
<1>3. \A b \in Algs : /\ state'[b] = "none" <=> state[b] = "none"
                      /\ state[b] = "ERROR" => state'[b] = "ERROR"
  BY <1>2, LoopRegistered
<1>4. scenario' \in Scenarios /\ DistinctOK' /\ (cut \subseteq Registered)'
  BY <1>1, <1>3 DEF ServerInv, DistinctOK, Registered
<1>5. MapOK'
  <2>1. \A n \in Algs : alg_map[n] # NoAlg => alg_map[n] \in Algs
    BY <1>2 DEF Types
  <2> QED BY <1>1, <1>3, <2>1 DEF ServerInv, MapOK
<1>6. ASSUME NEW b \in Algs, Alone(b)'
      PROVE  NameOf(b)' /\ InStep(b)' /\ PlaceOf(b)'
  <2>1. NameOf(b) /\ InStep(b) /\ PlaceOf(b)
    BY <1>1, <1>6 DEF ServerInv, Alone
  <2>2. NameOf(b)'
    <3>1. Name(b) \in Algs /\ (alg_map[Name(b)] # NoAlg => alg_map[Name(b)] \in Algs)
      BY <1>2 DEF Types, ScenarioType, Name
    <3> QED BY <1>1, <1>3, <2>1, <3>1 DEF NameOf
  <2>3. PlaceOf(b)'
    BY <1>1, <1>3, <2>1 DEF PlaceOf, Registered
  <2>4. InStep(b)'
    <3>1. CASE \E e \in Exchanges : Handle(e)
      BY <1>2, <2>1, <3>1, HandleStep
    <3>2. CASE ~ \E e \in Exchanges : Handle(e)
      <4>1. UNCHANGED <<open, conn, client_vars, state, to_server, to_alg>>
        BY <3>2, LoopLeaves
      <4> QED BY <2>1, <4>1, InStepStays DEF client_vars
    <3> QED BY <3>1, <3>2
  <2> QED BY <2>2, <2>3, <2>4
<1> QED BY <1>2, <1>4, <1>5, <1>6 DEF ServerInv

LEMMA InductiveServer == ServerInv /\ [Next]_vars => ServerInv'
<1> SUFFICES ASSUME ServerInv, [Next]_vars PROVE ServerInv'
  OBVIOUS
<1>1. CASE UNCHANGED vars \/ NoMoreBatches
  <2>1. UNCHANGED vars
    BY <1>1 DEF NoMoreBatches
  <2>2. /\ UNCHANGED <<scenario, alg_tree, alg_map, level, joined, cut, contested, state, open, conn>>
        /\ UNCHANGED <<call, waiting, starts, got, to_server, to_alg, srv, batch, graph>>
    BY <2>1 DEF vars, tree_vars, client_vars
  <2>3. Types' /\ Ready' /\ scenario' \in Scenarios /\ GraphOK' /\ JoinedOK'
    BY <2>2 DEF ServerInv, Types, Ready, GraphOK, AtRest, JoinedOK
  <2>4. MapOK' /\ (cut \subseteq Registered)' /\ DistinctOK'
    BY <2>2 DEF ServerInv, MapOK, Registered, DistinctOK, Name
  <2>5. ASSUME NEW a \in Algs, Alone(a)'
        PROVE  NameOf(a)' /\ InStep(a)' /\ PlaceOf(a)'
    <3>1. Alone(a) /\ NameOf(a) /\ InStep(a) /\ PlaceOf(a)
      BY <2>2, <2>5 DEF ServerInv, Alone, Name
    <3>2. NameOf(a)'
      BY <2>2, <3>1 DEF NameOf, Name
    <3>3. InStep(a)'
      BY <2>2, <3>1, InStepStays
    <3>4. PlaceOf(a)'
      BY <2>2, <3>1 DEF PlaceOf, Registered
    <3> QED BY <3>2, <3>3, <3>4
  <2> QED BY <2>3, <2>4, <2>5 DEF ServerInv
<1>2. ASSUME NEW a \in Algs, Connect(a) \/ Connection(a) \/ Send(a) \/ Receive(a) \/ Crash(a)
      PROVE  ServerInv'
  <2>1. Types /\ Ready /\ JoinedOK
    BY DEF ServerInv
  <2>2. Types' /\ Ready' /\ JoinedOK' /\ DistinctOK'
    BY <1>2, <2>1, ConnectionTypes, ClientTypes, ReadyStep, OuterJoined, DistinctStep
  <2>3. srv' = srv /\ batch' = batch /\ graph' = graph /\ scenario' = scenario
    BY <1>2, OuterLeaves
  <2>4. GraphOK' /\ scenario' \in Scenarios
    BY <2>3 DEF ServerInv, GraphOK, AtRest
  <2>5. CASE Connection(a)
    <3>1. MapOK' /\ (cut \subseteq Registered)'
      BY <2>5, MapStep
    <3>2. \A b \in Algs : Alone(b)' => NameOf(b)' /\ InStep(b)' /\ PlaceOf(b)'
      BY <2>5, NameStep, ConnectionStep, PlaceStep
    <3> QED BY <2>2, <2>4, <3>1, <3>2 DEF ServerInv
  <2>6. CASE ~Connection(a)
    <3>1. UNCHANGED <<alg_map, cut, state>>
      BY <1>2, <2>6, OuterLeaves DEF tree_vars
    <3>2. MapOK' /\ (cut \subseteq Registered)'
      BY <2>3, <3>1 DEF ServerInv, MapOK, Registered, Name
    <3>3. \A b \in Algs : Alone(b)' => NameOf(b)' /\ InStep(b)' /\ PlaceOf(b)'
      BY <1>2, <2>6, ClientServer
    <3> QED BY <2>2, <2>4, <3>2, <3>3 DEF ServerInv
  <2> QED BY <2>5, <2>6
<1> QED BY <1>1, <1>2, LoopServer DEF Next

\* The inductive form, in every scenario: the map and the tree hold what is
\* registered, with those that a registration cut off apart, and each process
\* is at the call its state in the registry awaits or has the answer that sends
\* it there under way; of the names that two threads were registering at once
\* only the types and the map are known.
THEOREM ServerInvariant == Spec => []ServerInv
<1> QED BY InitServer, InductiveServer, PTL DEF Spec

LEMMA PlacesOfTree ==
  ASSUME ServerInv
  PROVE  TreeIsRegistry
<1>1. Types /\ alg_tree \in Seq(Seq(Algs)) /\ DOMAIN alg_tree = 1 .. Len(alg_tree)
  BY DEF ServerInv, Types
<1>2. \A l \in 1 .. Len(alg_tree) : DOMAIN alg_tree[l] = 1 .. Len(alg_tree[l]) /\ Len(alg_tree[l]) \in Nat
  BY <1>1, TreeRows
<1>3. ASSUME NEW a \in Algs, NEW p \in Occurrences(a)
      PROVE  p = <<p[1], p[2]>> /\ p[1] \in Nat /\ p[2] \in Nat /\ At(alg_tree, a, p[1], p[2])
  <2>1. PICK l \in 1 .. Len(alg_tree) : p \in {l} \X DOMAIN alg_tree[l]
    BY <1>1, <1>3 DEF Occurrences
  <2>2. p = <<p[1], p[2]>> /\ p[1] = l /\ p[2] \in 1 .. Len(alg_tree[l])
    BY <1>2, <2>1
  <2>3. alg_tree[p[1]][p[2]] = a
    BY <1>3 DEF Occurrences
  <2>4. p[1] \in Nat /\ p[2] \in Nat
    BY <1>1, <1>2, <2>2
  <2> QED BY <2>1, <2>2, <2>3, <2>4 DEF At
<1>4. ASSUME NEW a \in Algs, NEW l \in Nat, NEW i \in Nat, At(alg_tree, a, l, i)
      PROVE  <<l, i>> \in Occurrences(a)
  <2>1. l \in 1 .. Len(alg_tree) /\ i \in DOMAIN alg_tree[l] /\ alg_tree[l][i] = a
    BY <1>2, <1>4 DEF At
  <2>2. <<l, i>> \in {l} \X DOMAIN alg_tree[l] /\ <<l, i>>[1] = l /\ <<l, i>>[2] = i
    BY <2>1
  <2>3. <<l, i>> \in UNION {{k} \X DOMAIN alg_tree[k] : k \in DOMAIN alg_tree}
    BY <1>1, <2>1, <2>2
  <2> QED BY <2>1, <2>2, <2>3 DEF Occurrences
<1>5. ASSUME NEW a \in Algs, Alone(a), a \in Registered \ cut
      PROVE  Cardinality(Occurrences(a)) = 1 /\ \A p \in Occurrences(a) : p[1] = level[a]
  <2>1. Only(alg_tree, a, level[a]) /\ level[a] \in Nat
    <3>1. level[a] \in Levels /\ PlaceOf(a)
      BY <1>1, <1>5 DEF ServerInv, Types
    <3> QED BY <1>5, <3>1, SizeIsNat DEF PlaceOf, Levels
  <2>2. PICK i \in Nat : /\ At(alg_tree, a, level[a], i)
                         /\ \A k, j \in Nat : At(alg_tree, a, k, j) => k = level[a] /\ j = i
    BY <2>1 DEF Only
  <2>3. \A p \in Occurrences(a) : p = <<level[a], i>> /\ p[1] = level[a]
    BY <1>3, <2>2
  <2>4. Occurrences(a) = {<<level[a], i>>}
    BY <1>4, <2>1, <2>2, <2>3
  <2> QED BY <2>3, <2>4, FS_Singleton
<1>6. ASSUME NEW a \in Algs, Alone(a), a \notin Registered \ cut
      PROVE  Occurrences(a) = {}
  <2>1. Absent(alg_tree, a)
    BY <1>6 DEF ServerInv, PlaceOf
  <2> QED BY <1>3, <2>1 DEF Absent
<1> QED BY <1>5, <1>6 DEF TreeIsRegistry, Alone

LEMMA TypesOfAll ==
  ASSUME ServerInv
  PROVE  TypeOK
<1>1. Types /\ GraphOK /\ JoinedOK /\ scenario \in Scenarios /\ cut \subseteq Registered
  BY DEF ServerInv
<1>2. batch \in Nat /\ joined \in [Algs -> 0 .. batch]
  BY <1>1, AlgServerAssumption DEF JoinedOK, Types
<1>3. graph \in 0 .. batch
  BY <1>1, <1>2, PassNames DEF GraphOK, Types, AtRest, SrvType
<1>4. state \in [Algs -> Working \cup {"none", "ERROR"}]
  BY <1>1, WorkingStates DEF Types, AlgStates
<1>5. \A a \in Algs : call[a] \in Actions /\ Name(a) \notin contested => open[a] /\ state[a] # "none"
  BY WorkingStates DEF ServerInv, Alone, InStep, Outside, Actions
<1> QED BY <1>1, <1>2, <1>3, <1>4, <1>5 DEF TypeOK, Types, Levels

\* For any number of algorithms, whatever names and dependencies they declare,
\* whenever they register, die and register again: the tree of add_alg and
\* delete_alg holds each registered algorithm once, at its level, and nothing
\* else, except those that a registration at a lower level cut off, and those
\* whose name two threads were registering at once.
THEOREM TreeHolds == Spec => [](TypeOK /\ TreeIsRegistry)
<1>1. ServerInv => TypeOK /\ TreeIsRegistry
  BY PlacesOfTree, TypesOfAll
<1> QED BY <1>1, ServerInvariant, PTL

\* For any number of algorithms, dependencies, restarts and deaths, and at
\* whatever time they register: the loop of process_loop_handler and the calls
\* of stinger_alg.cpp agree on the next message, so that no algorithm whose
\* process lives is put in error, unless two threads were registering a name
\* at once.
THEOREM OnlyTheDeadFailHolds == Spec => [](contested = {} => OnlyTheDeadFail)
<1>1. ServerInv => (contested = {} => OnlyTheDeadFail)
  BY WorkingStates DEF ServerInv, Alone, InStep, OnlyTheDeadFail
<1> QED BY <1>1, ServerInvariant, PTL

-----------------------------------------------------------------------------
(* The registry when the names are distinct.                               *)

Distinct(sc) == \A a \in Algs : sc.name[a] = a

\* An algorithm and the connection thread of its name.
ProcessOf(a) ==
  /\ InStep(a)
  /\ conn[a] = "check" => state[a] # "none"
  /\ conn[a] = "delete" => state[a] = "ERROR"
  /\ conn[a] \in {"deps", "add"} => state[a] = "none"
  /\ conn[a] = "add" => level[a] > 0

ProcInv == Types /\ GraphOK /\ \A a \in Algs : ProcessOf(a)

\* The actions of a connection thread when no other has its name, over state
\* alone: the map then has an algorithm exactly if it has a state.
LoneHas(a) ==
  /\ \/ /\ conn[a] = "has_alg"
        /\ conn' = [conn EXCEPT ![a] = IF state[a] = "none" THEN "deps" ELSE "check"]
        /\ UNCHANGED to_alg
     \/ /\ conn[a] = "check"
        /\ conn' = [conn EXCEPT ![a] = "none"] /\ AnswerRegistration(a, Reply("failure", 0))
     \/ /\ conn[a] = "check"
        /\ conn' = [conn EXCEPT ![a] = "delete"] /\ UNCHANGED to_alg
  /\ UNCHANGED <<scenario, tree_vars, state, open, client_vars, to_server, srv, batch, graph>>

LoneDelete(a) ==
  /\ conn[a] = "delete"
  /\ alg_tree' = EraseFromTree(alg_tree, a) /\ cut' = cut \ {a}
  /\ state' = [state EXCEPT ![a] = "none"]
  /\ to_server' = [to_server EXCEPT ![a] = NoMessage]
  /\ conn' = [conn EXCEPT ![a] = "deps"]
  /\ UNCHANGED <<scenario, level, joined, open, client_vars, to_alg, srv, batch, graph>>

LoneResolve(a) ==
  /\ conn[a] = "deps"
  /\ \/ /\ scenario.deps[a] \subseteq Registered
        /\ \E l \in 1 .. Cardinality(Algs) :
             /\ \A d \in scenario.deps[a] : level[d] < l
             /\ l = 1 \/ \E d \in scenario.deps[a] : level[d] = l - 1
             /\ level' = [level EXCEPT ![a] = l]
        /\ conn' = [conn EXCEPT ![a] = "add"]
     \/ /\ ~ (scenario.deps[a] \subseteq Registered)
        /\ conn' = [conn EXCEPT ![a] = "none"]
        /\ UNCHANGED level
  /\ UNCHANGED <<scenario, alg_tree, joined, cut, state, open, client_vars, to_server, to_alg,
                 srv, batch, graph>>

LoneConnection(a) == LoneHas(a) \/ LoneDelete(a) \/ LoneResolve(a) \/ AddAlg(a)

Outer(a) == Connect(a) \/ LoneConnection(a) \/ Send(a) \/ Receive(a) \/ Crash(a)

\* What the map has under a name is the algorithm of that name.
LEMMA LoneMap ==
  ASSUME ServerInv, Distinct(scenario)
  PROVE  /\ ProcInv /\ contested = {} /\ \A a \in Algs : Name(a) = a /\ NameOf(a) /\ PlaceOf(a)
         /\ \A a \in Algs : alg_map[a] = IF state[a] = "none" THEN NoAlg ELSE a
<1>1. \A a \in Algs : Name(a) = a
  BY DEF Distinct, Name
<1>2. /\ contested = {} /\ \A a \in Algs : conn[a] = "check" => alg_map[a] # NoAlg
      /\ Types /\ Ready /\ GraphOK /\ MapOK
  BY <1>1 DEF ServerInv, DistinctOK
<1>3. \A a \in Algs : NameOf(a) /\ InStep(a) /\ PlaceOf(a)
  BY <1>2 DEF ServerInv, Alone
<1>4. \A a \in Algs : alg_map[a] = IF state[a] = "none" THEN NoAlg ELSE a
  <2>1. \A a \in Algs : alg_map[a] \in Algs \cup {NoAlg}
    BY <1>2 DEF Types
  <2>2. \A a \in Algs : alg_map[a] # NoAlg => alg_map[a] = a /\ state[a] # "none"
    BY <1>1, <1>2, <2>1 DEF MapOK
  <2>3. \A a \in Algs : state[a] # "none" => alg_map[a] = a
    BY <1>1, <1>3 DEF NameOf
  <2> QED BY <2>2, <2>3, AlgServerAssumption
<1>5. ASSUME NEW a \in Algs PROVE ProcessOf(a)
  <2>1. InStep(a) /\ NameOf(a) /\ Name(a) = a
    BY <1>1, <1>3
  <2>2. conn[a] = "check" => state[a] # "none"
    BY <1>2, <1>4
  <2>3. conn[a] = "delete" => state[a] = "ERROR"
    BY <1>4, <2>1 DEF NameOf
  <2>4. conn[a] \in {"deps", "add"} => state[a] = "none"
    BY <1>4, <2>1, AlgServerAssumption DEF NameOf
  <2>5. conn[a] = "add" => level[a] > 0
    BY <1>2 DEF Ready
  <2> QED BY <2>1, <2>2, <2>3, <2>4, <2>5 DEF ProcessOf
<1> QED BY <1>1, <1>2, <1>3, <1>4, <1>5 DEF ProcInv

LEMMA LoneSteps ==
  ASSUME ServerInv, Distinct(scenario), NEW a \in Algs,
         Connect(a) \/ Connection(a) \/ Send(a) \/ Receive(a) \/ Crash(a)
  PROVE  Outer(a)
<1>1. /\ ProcInv /\ contested = {} /\ Types /\ \A b \in Algs : Name(b) = b
      /\ \A b \in Algs : alg_map[b] = IF state[b] = "none" THEN NoAlg ELSE b
      /\ \A d \in scenario.deps[a] : d \in Algs
  BY LoneMap DEF ServerInv, Types, ScenarioType
<1>2. ASSUME NEW next, PassCheck(a, next)
      PROVE  conn' = [conn EXCEPT ![a] = next] /\ contested' = contested
  BY <1>1, <1>2 DEF PassCheck
<1>3. CASE HasAlg(a)
  <2>1. CASE state[a] = "none"
    <3>1. PassCheck(a, "deps")
      BY <1>1, <1>3, <2>1 DEF HasAlg
    <3> QED BY <1>2, <1>3, <2>1, <3>1 DEF HasAlg, LoneHas, Outer, LoneConnection, tree_vars
  <2>2. CASE state[a] # "none"
    <3>1. conn' = [conn EXCEPT ![a] = "check"] /\ contested' = contested
      BY <1>1, <1>3, <2>2, AlgServerAssumption DEF HasAlg
    <3> QED BY <1>3, <2>2, <3>1 DEF HasAlg, LoneHas, Outer, LoneConnection, tree_vars
  <2> QED BY <2>1, <2>2
<1>4. CASE CheckAlg(a)
  <2>1. /\ conn[a] = "check"
        /\ UNCHANGED <<scenario, alg_tree, alg_map, level, joined, cut, state, open, client_vars,
                       to_server, srv, batch, graph>>
        /\ \/ /\ conn' = [conn EXCEPT ![a] = "none"] /\ AnswerRegistration(a, Reply("failure", 0))
              /\ UNCHANGED contested
           \/ PassCheck(a, "delete") /\ UNCHANGED to_alg
    BY <1>4 DEF CheckAlg
  <2>2. LoneHas(a)
    BY <1>2, <2>1 DEF LoneHas, tree_vars
  <2> QED BY <2>2 DEF Outer, LoneConnection
<1>5. CASE DeleteAlg(a)
  <2>1. conn[a] = "delete" /\ state[a] = "ERROR"
    BY <1>1, <1>5 DEF DeleteAlg, ProcInv, ProcessOf
  <2>2. alg_map[Name(a)] = a /\ a # NoAlg /\ Name(a) = a
    BY <1>1, <2>1, AlgServerAssumption
  <2> QED BY <1>5, <2>1, <2>2 DEF DeleteAlg, LoneDelete, Outer, LoneConnection
<1>6. CASE ResolveDeps(a)
  <2>1. DepsRegistered(a) <=> scenario.deps[a] \subseteq Registered
    BY <1>1, AlgServerAssumption DEF DepsRegistered, Registered
  <2>2. DepsRegistered(a) => \A d \in scenario.deps[a] : alg_map[d] = d
    BY <1>1 DEF DepsRegistered
  <2>3. LoneResolve(a)
    BY <1>6, <2>1, <2>2 DEF ResolveDeps, LoneResolve
  <2> QED BY <2>3 DEF Outer, LoneConnection
<1> QED BY <1>3, <1>4, <1>5, <1>6 DEF Connection, LoneConnection, Outer

-----------------------------------------------------------------------------
(* The tree while the loop goes through it.                                *)

\* Of any two algorithms of which one has dependencies, one depends on the
\* other: their levels follow the order in which they register.
Comparable(sc) ==
  \A a, b \in Algs : sc.deps[b] # {} => a = b \/ a \in sc.deps[b] \/ b \in sc.deps[a]

\* The names are distinct, and registrations come between batches, or each
\* algorithm registers once and none cuts the tree off below another (add_alg).
Orderly(sc) ==
  Distinct(sc) /\ (sc.between \/ (Comparable(sc) /\ \A a \in Algs : sc.starts[a] <= 1))

\* A registered algorithm, or one about to be, is above its dependencies.
Above(a) ==
  /\ level[a] = 1 \/ scenario.deps[a] # {}
  /\ \A d \in scenario.deps[a] : state[d] # "none" /\ level[d] < level[a]

OnceOf(a) ==
  /\ starts[a] <= 1
  /\ conn[a] # "none" \/ state[a] # "none" => starts[a] = 0
  /\ conn[a] = "has_alg" => state[a] = "none"
  /\ conn[a] \notin {"check", "delete"}
  /\ state[a] # "none" \/ conn[a] = "add" => Above(a)

OrderOK ==
  IF scenario.between
    THEN ~AtRest => \A a \in Algs : conn[a] = "none"
    ELSE /\ \A a \in Algs : OnceOf(a)
         /\ Len(alg_tree) > 0 => \E b \in Algs : state[b] # "none" /\ level[b] >= Len(alg_tree)

Grows(t, u) ==
  /\ Len(t) <= Len(u)
  /\ \A l \in 1 .. Len(t) :
       Len(t[l]) <= Len(u[l]) /\ \A i \in 1 .. Len(t[l]) : u[l][i] = t[l][i]

\* An algorithm is only added on top: one that were higher would depend on it.
LEMMA AddsOnTop ==
  ASSUME ProcInv, OrderOK, Orderly(scenario), ~scenario.between, NEW a \in Algs, AddAlg(a)
  PROVE  Len(alg_tree) <= level[a]
<1>1. Types /\ OnceOf(a) /\ state[a] = "none" /\ conn[a] = "add"
  BY DEF ProcInv, ProcessOf, OrderOK, AddAlg
<1>2. CASE Len(alg_tree) > 0
  <2>1. PICK b \in Algs : state[b] # "none" /\ level[b] >= Len(alg_tree)
    BY <1>2 DEF OrderOK
  <2>2. a # b /\ Above(a) /\ Above(b)
    BY <1>1, <2>1 DEF OrderOK, OnceOf
  <2>3. a \notin scenario.deps[b]
    BY <1>1, <2>2 DEF Above
  <2>4. level[b] <= level[a]
    <3>1. level[a] \in Nat /\ level[b] \in Nat /\ level[a] > 0
      BY <1>1, SizeIsNat DEF Types, Levels, ProcInv, ProcessOf
    <3>2. CASE b \in scenario.deps[a]
      BY <2>2, <3>1, <3>2 DEF Above
    <3>3. CASE b \notin scenario.deps[a]
      <4>1. scenario.deps[b] = {}
        BY <2>2, <2>3, <3>3 DEF Orderly, Comparable
      <4> QED BY <2>2, <3>1, <4>1 DEF Above
    <3> QED BY <3>2, <3>3
  <2>5. level[a] \in Nat /\ level[b] \in Nat /\ Len(alg_tree) \in Nat
    BY <1>1, SizeIsNat DEF Types, Levels
  <2> QED BY <2>1, <2>4, <2>5
<1>3. CASE ~(Len(alg_tree) > 0)
  <2>1. level[a] \in Nat /\ Len(alg_tree) \in Nat
    BY <1>1, SizeIsNat DEF Types, Levels
  <2> QED BY <1>3, <2>1
<1> QED BY <1>2, <1>3

\* A place above the tree, or on its top, adds to it.
LEMMA AddGrows ==
  ASSUME Types, NEW a \in Algs, AddAlg(a), Len(alg_tree) <= level[a], level[a] \in Nat \ {0}
  PROVE  Grows(alg_tree, alg_tree')
<1>1. alg_tree' = AddToTree(alg_tree, level[a], a) /\ alg_tree \in Seq(Seq(Algs))
  BY DEF AddAlg, Types
<1>2. Len(alg_tree') = level[a]
  BY <1>1, AddedTree
<1>3. ASSUME NEW l \in 1 .. Len(alg_tree)
      PROVE  /\ Len(alg_tree[l]) <= Len(alg_tree'[l])
             /\ \A i \in 1 .. Len(alg_tree[l]) : alg_tree'[l][i] = alg_tree[l][i]
  <2>1. alg_tree[l] \in Seq(Algs) /\ Len(alg_tree[l]) \in Nat
    BY <1>1, ElementOfSeq
  <2>2. l \in 1 .. level[a] /\ l <= Len(alg_tree)
    BY <1>1
  <2>3. alg_tree'[l] = alg_tree[l] \/ alg_tree'[l] = Append(alg_tree[l], a)
    BY <1>1, <2>2, AddedTree, ZenonT(40)
  <2>4. /\ Len(Append(alg_tree[l], a)) = Len(alg_tree[l]) + 1
        /\ \A i \in 1 .. Len(alg_tree[l]) : Append(alg_tree[l], a)[i] = alg_tree[l][i]
    BY <2>1, AppendProperties
  <2>5. CASE alg_tree'[l] = alg_tree[l]
    BY <2>1, <2>5
  <2>6. CASE alg_tree'[l] = Append(alg_tree[l], a)
    <3> HIDE <2>3, <1>1
    <3> QED BY <2>1, <2>4, <2>6
  <2> QED BY <2>3, <2>5, <2>6
<1> QED BY <1>2, <1>3 DEF Grows

LEMMA TreeGrows ==
  ASSUME ProcInv, OrderOK, Orderly(scenario), ~AtRest, NEW a \in Algs, Outer(a)
  PROVE  Grows(alg_tree, alg_tree')
<1>1. Types /\ Len(alg_tree) \in Nat
  BY DEF ProcInv, Types
<1>2. CASE alg_tree' = alg_tree
  <2>1. \A l \in 1 .. Len(alg_tree) : alg_tree[l] \in Seq(Algs)
    BY <1>1, ElementOfSeq DEF Types
  <2>2. \A l \in 1 .. Len(alg_tree) : Len(alg_tree[l]) \in Nat
    BY <2>1
  <2> QED BY <1>1, <1>2, <2>2 DEF Grows
<1>3. CASE AddAlg(a)
  <2>1. ~scenario.between
    BY <1>3 DEF OrderOK, AddAlg
  <2>2. Len(alg_tree) <= level[a] /\ level[a] \in Nat \ {0}
    <3>1. level[a] \in Nat /\ level[a] > 0
      BY <1>1, <1>3, SizeIsNat DEF Types, Levels, ProcInv, ProcessOf, AddAlg
    <3> QED BY <1>3, <2>1, <3>1, AddsOnTop
  <2> QED BY <1>1, <1>3, <2>2, AddGrows
<1>4. ~LoneDelete(a)
  BY <1>1 DEF OrderOK, OnceOf, LoneDelete
<1> QED BY <1>2, <1>3, <1>4
        DEF Outer, LoneConnection, Connect, LoneHas, LoneResolve, Send, Receive, Crash, tree_vars

-----------------------------------------------------------------------------
(* Registrations.                                                          *)

LEMMA InitOrder == Init /\ Orderly(scenario) => OrderOK
BY DEF Init, Orderly, OrderOK, OnceOf, AtRest

\* What a step does to the state of an algorithm in the registry.
LEMMA StateSteps ==
  ASSUME ProcInv, OrderOK, ~scenario.between, NEW a \in Algs, Outer(a), NEW b \in Algs
  PROVE  /\ state'[b] = state[b] \/ (b = a /\ AddAlg(a) /\ state'[b] = "READY_INIT")
         /\ state[b] # "none" \/ conn[b] = "add" => level'[b] = level[b]
         /\ scenario' = scenario
<1>1. Types /\ ProcessOf(b) /\ OnceOf(a)
  BY DEF ProcInv, ProcessOf, OrderOK
<1>2. ~LoneDelete(a)
  BY <1>1 DEF OnceOf, LoneDelete
<1>3. CASE AddAlg(a)
  BY <1>1, <1>3 DEF AddAlg, Types
<1>4. CASE LoneResolve(a)
  <2>1. conn[a] = "deps" /\ state' = state /\ scenario' = scenario
    BY <1>4 DEF LoneResolve
  <2>2. level' = level \/ \E l \in 1 .. Cardinality(Algs) : level' = [level EXCEPT ![a] = l]
    BY <1>4 DEF LoneResolve
  <2>3. b # a => level'[b] = level[b]
    BY <1>1, <2>2 DEF Types
  <2>4. b = a => state[b] = "none" /\ conn[b] # "add"
    BY <1>1, <2>1 DEF ProcessOf
  <2> QED BY <2>1, <2>3, <2>4
<1>5. CASE Connect(a) \/ LoneHas(a) \/ Send(a) \/ Receive(a) \/ Crash(a)
  BY <1>5 DEF Connect, LoneHas, Send, Receive, Crash, tree_vars
<1> QED BY <1>2, <1>3, <1>4, <1>5 DEF Outer, LoneConnection

\* What a step does to the connection thread of an algorithm.
LEMMA ConnSteps ==
  ASSUME ProcInv, OrderOK, ~scenario.between, NEW a \in Algs, Outer(a), NEW b \in Algs
  PROVE  /\ starts'[b] <= starts[b] /\ starts'[b] \in Nat
         /\ \/ conn'[b] = conn[b] /\ ~(AddAlg(a) /\ b = a)
            \/ conn[b] # "none" /\ conn'[b] \in {"none", "deps"}
            \/ b = a /\ LoneResolve(a) /\ conn'[b] = "add"
            \/ /\ b = a /\ Connect(a) /\ conn'[b] = "has_alg" /\ state'[b] = state[b]
               /\ starts[b] > 0 /\ starts'[b] = starts[b] - 1
<1>1. Types /\ ProcessOf(b) /\ OnceOf(a)
  BY DEF ProcInv, ProcessOf, OrderOK
<1>2. ~LoneDelete(a)
  BY <1>1 DEF OnceOf, LoneDelete
<1>3. CASE Connect(a)
  <2>1. /\ starts' = [starts EXCEPT ![a] = @ - 1] /\ conn' = [conn EXCEPT ![a] = "has_alg"]
        /\ state' = state /\ starts[a] > 0 /\ conn[a] = "none"
    BY <1>3 DEF Connect
  <2>2. starts \in [Algs -> Nat] /\ conn \in [Algs -> ConnStates]
    BY <1>1 DEF Types
  <2>3. starts[b] \in Nat /\ starts[a] - 1 \in Nat
    BY <2>1, <2>2
  <2>4. ~AddAlg(a)
    BY <2>1 DEF AddAlg
  <2> QED BY <1>3, <2>1, <2>2, <2>3, <2>4
<1>4. CASE LoneConnection(a)
  <2>1. starts' = starts /\ starts[b] \in Nat
    BY <1>1, <1>4 DEF LoneConnection, LoneHas, LoneDelete, LoneResolve, AddAlg, client_vars, Types
  <2>2. b # a => conn'[b] = conn[b]
    BY <1>1, <1>4 DEF LoneConnection, LoneHas, LoneDelete, LoneResolve, AddAlg, Types
  <2>3. CASE b = a
    <3>1. CASE LoneHas(a)
      BY <1>1, <2>1, <2>3, <3>1 DEF LoneHas, OnceOf, Types
    <3>2. CASE LoneResolve(a)
      <4>1. conn[a] = "deps" /\ conn \in [Algs -> ConnStates]
        BY <1>1, <3>2 DEF LoneResolve, Types
      <4>2. conn' = [conn EXCEPT ![a] = "add"] \/ conn' = [conn EXCEPT ![a] = "none"]
        BY <3>2 DEF LoneResolve
      <4> QED BY <2>1, <2>3, <3>2, <4>1, <4>2
    <3>3. CASE AddAlg(a)
      BY <1>1, <2>1, <2>3, <3>3 DEF AddAlg, Types
    <3> QED BY <1>2, <1>4, <3>1, <3>2, <3>3 DEF LoneConnection
  <2> QED BY <2>1, <2>2, <2>3
<1>5. CASE Send(a) \/ Receive(a) \/ Crash(a)
  <2>1. starts' = starts /\ conn' = conn /\ starts[b] \in Nat
    BY <1>1, <1>5 DEF Send, Receive, Crash, Types
  <2>2. b = a => ~AddAlg(a)
    <3>1. CASE Crash(a)
      <4>1. state' = state
        BY <3>1 DEF Crash
      <4>2. AddAlg(a) => state'[a] = "READY_INIT" /\ state[a] = "none"
        BY <1>1 DEF AddAlg, Types, ProcInv, ProcessOf
      <4> QED BY <4>1, <4>2
    <3>2. CASE Send(a) \/ Receive(a)
      <4>1. state' = state
        BY <3>2 DEF Send, Receive
      <4>2. AddAlg(a) => state'[a] = "READY_INIT" /\ state[a] = "none"
        BY <1>1 DEF AddAlg, Types, ProcInv, ProcessOf
      <4> QED BY <4>1, <4>2
    <3> QED BY <1>5, <3>1, <3>2
  <2> QED BY <2>1, <2>2
<1> QED BY <1>3, <1>4, <1>5 DEF Outer

LEMMA OuterOrder ==
  ASSUME ProcInv, OrderOK, Orderly(scenario), NEW a \in Algs, Outer(a)
  PROVE  OrderOK'
<1>1. Types /\ scenario' = scenario /\ srv' = srv
  BY DEF ProcInv, Outer, LoneConnection, Connect, LoneHas, LoneDelete, LoneResolve, AddAlg, Send,
         Receive, Crash
<1>2. CASE scenario.between
  <2>1. ASSUME ~AtRest, NEW b \in Algs
        PROVE  conn'[b] = "none"
    <3>1. ~Connect(a) /\ ~LoneConnection(a)
      BY <1>2, <2>1 DEF Connect, LoneConnection, LoneHas, LoneDelete, LoneResolve, AddAlg, OrderOK
    <3> QED BY <1>2, <2>1, <3>1 DEF Outer, Send, Receive, Crash, OrderOK
  <2> QED BY <1>1, <1>2, <2>1 DEF OrderOK, AtRest
<1>3. CASE ~scenario.between
  <2>1. \A b \in Algs : OnceOf(b) /\ ProcessOf(b)
    BY <1>3 DEF OrderOK, ProcInv, ProcessOf
  <2>2. ASSUME NEW b \in Algs, state'[b] # "none" \/ conn'[b] = "add"
        PROVE  Above(b)'
    <3>1. CASE state[b] # "none" \/ conn[b] = "add"
      <4>1. Above(b) /\ level'[b] = level[b]
        BY <1>3, <2>1, <3>1, StateSteps DEF OnceOf
      <4>2. ASSUME NEW d \in scenario.deps[b]
            PROVE  state'[d] # "none" /\ level'[d] < level'[b]
        <5>1. d \in Algs
          BY <1>1 DEF Types, ScenarioType
        <5>2. state[d] # "none" /\ level[d] < level[b]
          BY <4>1 DEF Above
        <5> QED BY <1>3, <4>1, <5>1, <5>2, StateSteps
      <4> QED BY <1>1, <4>1, <4>2 DEF Above
    <3>2. CASE ~(state[b] # "none" \/ conn[b] = "add")
      <4>1. b = a /\ LoneResolve(a) /\ conn'[b] = "add"
        <5>1. ~AddAlg(b)
          BY <3>2 DEF AddAlg
        <5>2. state'[b] = state[b]
          BY <1>3, <5>1, StateSteps
        <5> QED BY <1>3, <2>2, <3>2, <5>2, ConnSteps
      <4>2. scenario.deps[a] \subseteq Registered
        BY <1>1, <4>1 DEF LoneResolve, Types
      <4>3. PICK l \in 1 .. Cardinality(Algs) :
              /\ \A d \in scenario.deps[a] : level[d] < l
              /\ l = 1 \/ \E d \in scenario.deps[a] : level[d] = l - 1
              /\ level' = [level EXCEPT ![a] = l]
        BY <4>1, <4>2 DEF LoneResolve
      <4>4. state' = state /\ level'[a] = l /\ \A d \in Algs : d # a => level'[d] = level[d]
        BY <1>1, <4>1, <4>3 DEF LoneResolve, Types
      <4>5. state[a] = "none"
        BY <3>2, <4>1
      <4>6. \A d \in scenario.deps[a] : d \in Algs /\ state[d] # "none" /\ d # a
        BY <4>2, <4>5 DEF Registered
      <4>7. l = 1 \/ scenario.deps[a] # {}
        BY <4>3
      <4> QED BY <1>1, <4>1, <4>3, <4>4, <4>6, <4>7 DEF Above
    <3> QED BY <3>1, <3>2
  <2>3. ASSUME NEW b \in Algs
        PROVE  OnceOf(b)'
    <3>1. /\ starts[b] \in Nat /\ starts[b] <= 1 /\ OnceOf(b)
          /\ starts'[b] <= starts[b] /\ starts'[b] \in Nat
      BY <1>1, <1>3, <2>1, ConnSteps DEF OnceOf, Types
    <3>2. conn'[b] # "none" \/ state'[b] # "none" => starts'[b] = 0
      <4>1. CASE conn[b] # "none" \/ state[b] # "none"
        BY <3>1, <4>1 DEF OnceOf
      <4>2. CASE conn[b] = "none" /\ state[b] = "none"
        <5>1. state'[b] = "none"
          BY <1>3, <4>2, StateSteps DEF AddAlg
        <5>2. ~(b = a /\ LoneResolve(a))
          BY <4>2 DEF LoneResolve
        <5>3. conn'[b] # "none" => starts'[b] = starts[b] - 1 /\ starts[b] > 0
          BY <1>3, <4>2, <5>2, ConnSteps
        <5> QED BY <3>1, <5>1, <5>3
      <4> QED BY <4>1, <4>2
    <3>3. conn'[b] = "has_alg" => state'[b] = "none"
      <4>1. CASE conn[b] = "has_alg" /\ conn'[b] = "has_alg"
        <5>1. state[b] = "none" /\ ~(b = a /\ AddAlg(a))
          BY <3>1, <4>1 DEF OnceOf, AddAlg
        <5> QED BY <1>3, <5>1, StateSteps
      <4>2. CASE conn[b] # "has_alg" /\ conn'[b] = "has_alg"
        <5>1. starts[b] > 0 /\ state'[b] = state[b]
          BY <1>3, <4>2, ConnSteps
        <5> QED BY <3>1, <5>1 DEF OnceOf
      <4> QED BY <4>1, <4>2
    <3>4. conn'[b] \notin {"check", "delete"}
      BY <1>3, <3>1, ConnSteps DEF OnceOf
    <3> QED BY <2>2, <3>1, <3>2, <3>3, <3>4 DEF OnceOf
  <2>4. ASSUME Len(alg_tree') > 0
        PROVE  \E b \in Algs : state'[b] # "none" /\ level'[b] >= Len(alg_tree')
    <3>1. CASE AddAlg(a)
      <4>1. /\ level' = level /\ alg_tree' = AddToTree(alg_tree, level[a], a)
            /\ state'[a] = "READY_INIT" /\ alg_tree \in Seq(Seq(Algs))
        BY <1>1, <3>1 DEF AddAlg, Types
      <4>2. level[a] \in Nat /\ level[a] > 0
        BY <1>1, <3>1, <2>1, SizeIsNat DEF AddAlg, Types, Levels, ProcessOf
      <4>3. Len(alg_tree') = level[a]
        BY <4>1, <4>2, AddedTree
      <4> QED BY <4>1, <4>2, <4>3
    <3>2. CASE ~AddAlg(a)
      <4>1. alg_tree' = alg_tree
        BY <2>1, <3>2 DEF Outer, LoneConnection, Connect, LoneHas, LoneDelete, LoneResolve, Send, Receive,
                          Crash, tree_vars, OnceOf
      <4>2. PICK b \in Algs : state[b] # "none" /\ level[b] >= Len(alg_tree)
        BY <1>3, <2>4, <4>1 DEF OrderOK
      <4> QED BY <1>3, <4>1, <4>2, StateSteps
    <3> QED BY <3>1, <3>2
  <2> QED BY <1>1, <1>3, <2>3, <2>4 DEF OrderOK
<1> QED BY <1>2, <1>3

LEMMA LoopOrder ==
  ASSUME ProcInv, OrderOK, ProcessLoop
  PROVE  OrderOK'
<1>1. Types
  BY DEF ProcInv
<1>2. scenario' = scenario /\ conn' = conn /\ starts' = starts /\ alg_tree' = alg_tree /\ level' = level
  BY DEF ProcessLoop, DequeueBatch, ReadNumAlgs, GetAlg, Skip, EndLevel, EndInit, UpdateGraph,
         EndBatch, Handle, others, tree_vars, client_vars
<1>3. \A b \in Algs : state'[b] = "none" <=> state[b] = "none"
  BY <1>1, LoopRegistered
<1>4. CASE scenario.between
  <2>1. ~AtRest' => \A a \in Algs : conn[a] = "none"
    <3>1. CASE AtRest
      <4>1. DequeueBatch
        BY <3>1 DEF AtRest, ProcessLoop, ReadNumAlgs, GetAlg, Skip, EndLevel, EndInit, UpdateGraph,
                    EndBatch, Handle, LastLevelDone
      <4> QED BY <1>4, <4>1 DEF DequeueBatch
    <3>2. CASE ~AtRest
      BY <1>4, <3>2 DEF OrderOK
    <3> QED BY <3>1, <3>2
  <2> QED BY <1>2, <1>4, <2>1 DEF OrderOK
<1>5. CASE ~scenario.between
  <2>1. ASSUME NEW b \in Algs
        PROVE  OnceOf(b)'
    <3>1. OnceOf(b) /\ \A d \in scenario.deps[b] : d \in Algs
      BY <1>1, <1>5 DEF OrderOK, Types, ScenarioType
    <3> QED BY <1>2, <1>3, <3>1 DEF OnceOf, Above
  <2>2. Len(alg_tree) > 0 => \E b \in Algs : state'[b] # "none" /\ level[b] >= Len(alg_tree)
    BY <1>3, <1>5 DEF OrderOK
  <2> QED BY <1>2, <1>5, <2>1, <2>2 DEF OrderOK
<1> QED BY <1>4, <1>5

-----------------------------------------------------------------------------
(* Phases: no algorithm is left in one when the loop goes on.              *)

\* What the loop has read of the tree is there.
Counted ==
  ~AtRest =>
    /\ srv.stop_level <= Len(alg_tree)
    /\ srv.pc \in {"alg", "handle"} =>
         /\ srv.level <= srv.stop_level /\ srv.stop_index <= Len(alg_tree[srv.level])
    /\ srv.pc = "handle" => srv.index <= srv.stop_index /\ srv.cur = alg_tree[srv.level][srv.index]

\* The loop has begun a phase with an algorithm and will come to its end.
PerformsIn(a, begin, end) ==
  /\ srv.pc \in {"alg", "handle"}
  /\ \E i \in 1 .. srv.stop_index :
       /\ alg_tree[srv.level][i] = a
       /\ \/ srv.pass = begin /\ i < srv.index
          \/ srv.pass = end /\ srv.index <= i

\* The loops of a kind of pass, that begin a phase and that end it, will come
\* to this place.
Ahead(begin, end, l, i) ==
  /\ srv.pass \in {begin, end} => l <= srv.stop_level
  /\ srv.pass = begin =>
       IF srv.pc = "level" THEN srv.level <= l
       ELSE \/ srv.level < l
            \/ srv.level = l /\ srv.index <= i /\ i <= srv.stop_index
  /\ srv.pass = end => srv.level < l

\* They will come to an algorithm.
ComesTo(a, begin, end) ==
  \E l \in 1 .. Len(alg_tree) : \E i \in 1 .. Len(alg_tree[l]) :
     alg_tree[l][i] = a /\ Ahead(begin, end, l, i)

\* The pairs of passes; initialisation is begun and ended in one.
Kinds == {<<"init", "none">>, <<"begin_pre", "end_pre">>, <<"begin_post", "end_post">>}

Waits(a) == ~AtRest /\ srv.pass # "init" /\ ComesTo(a, "begin_post", "end_post")

PhaseOf(a) ==
  /\ state[a] = "PERFORMING_INIT" => srv.pass = "init" /\ srv.pc = "handle" /\ srv.cur = a
  /\ state[a] = "PERFORMING_PRE" => PerformsIn(a, "begin_pre", "end_pre")
  /\ state[a] = "READY_POST" => Waits(a)
  /\ state[a] = "PERFORMING_POST" => PerformsIn(a, "begin_post", "end_post")

InPhase == {"PERFORMING_INIT", "PERFORMING_PRE", "READY_POST", "PERFORMING_POST"}

\* Sizes, for the leaves that compare indexes.
LEMMA Sizes ==
  ASSUME Types
  PROVE  /\ Len(alg_tree) \in Nat
         /\ \A l \in 1 .. Len(alg_tree) : alg_tree[l] \in Seq(Algs) /\ Len(alg_tree[l]) \in Nat
         /\ srv.level \in Nat \ {0} /\ srv.index \in Nat \ {0}
         /\ srv.stop_level \in Nat /\ srv.stop_index \in Nat
         /\ srv.pass \in {"init", "begin_pre", "end_pre", "begin_post", "end_post"}
         /\ srv.pc \in {"dequeue", "level", "alg", "handle"}
<1>1. alg_tree \in Seq(Seq(Algs)) /\ srv \in SrvType /\ srv.level > 0 /\ srv.index > 0
  BY DEF Types
<1>2. \A l \in 1 .. Len(alg_tree) : alg_tree[l] \in Seq(Algs)
  BY <1>1, ElementOfSeq
<1> QED BY <1>1, <1>2, PassNames DEF SrvType

LEMMA OuterCounted ==
  ASSUME Types, Counted, srv' = srv, ~AtRest => Grows(alg_tree, alg_tree'), Types'
  PROVE  Counted'
<1>0. /\ Len(alg_tree') \in Nat /\ Len(alg_tree) \in Nat
      /\ \A l \in 1 .. Len(alg_tree') : Len(alg_tree'[l]) \in Nat
      /\ \A l \in 1 .. Len(alg_tree) : Len(alg_tree[l]) \in Nat
  <2>1. alg_tree' \in Seq(Seq(Algs))
    BY DEF Types
  <2>2. \A l \in 1 .. Len(alg_tree') : alg_tree'[l] \in Seq(Algs)
    BY <2>1, ElementOfSeq
  <2> QED BY <2>1, <2>2, Sizes
<1>1. CASE AtRest
  BY <1>1 DEF Counted, AtRest
<1>2. CASE ~AtRest
  <2>1. Grows(alg_tree, alg_tree') /\ Len(alg_tree) <= Len(alg_tree')
    BY <1>2 DEF Grows
  <2>2. Len(alg_tree) \in Nat /\ Len(alg_tree') \in Nat
    BY DEF Types
  <2>3. srv.stop_level <= Len(alg_tree')
    BY <1>2, <2>1, <2>2, Sizes DEF Counted
  <2>4. ASSUME srv.pc \in {"alg", "handle"}
        PROVE  /\ srv.level <= srv.stop_level /\ srv.stop_index <= Len(alg_tree'[srv.level])
               /\ srv.pc = "handle" =>
                    srv.index <= srv.stop_index /\ srv.cur = alg_tree'[srv.level][srv.index]
    <3>1. /\ srv.level <= srv.stop_level /\ srv.stop_index <= Len(alg_tree[srv.level])
          /\ srv.level \in 1 .. Len(alg_tree)
      BY <1>2, <2>4, Sizes DEF Counted
    <3>2. Len(alg_tree[srv.level]) <= Len(alg_tree'[srv.level])
      BY <2>1, <3>1 DEF Grows
    <3>3. Len(alg_tree[srv.level]) \in Nat /\ Len(alg_tree'[srv.level]) \in Nat
      <4>1. srv.level \in 1 .. Len(alg_tree')
        BY <2>1, <2>2, <3>1
      <4> QED BY <1>0, <3>1, <4>1
    <3>4. srv.pc = "handle" =>
            srv.index <= srv.stop_index /\ srv.cur = alg_tree[srv.level][srv.index]
      BY <1>2 DEF Counted
    <3>5. srv.pc = "handle" => srv.cur = alg_tree'[srv.level][srv.index]
      <4>1. srv.pc = "handle" => srv.index \in 1 .. Len(alg_tree[srv.level])
        BY <3>1, <3>3, <3>4, Sizes
      <4> QED BY <2>1, <3>1, <3>4, <4>1 DEF Grows
    <3> QED BY <3>1, <3>2, <3>3, <3>4, <3>5, Sizes
  <2> QED BY <1>2, <2>3, <2>4 DEF Counted, AtRest
<1> QED BY <1>1, <1>2

\* Outside the loop, a step at most adds to the tree.
LEMMA StillComes ==
  ASSUME Types, Types', srv' = srv, Grows(alg_tree, alg_tree'), NEW b, NEW begin, NEW end,
         ComesTo(b, begin, end)
  PROVE  ComesTo(b, begin, end)'
<1>0. /\ Len(alg_tree') \in Nat /\ Len(alg_tree) \in Nat
      /\ \A l \in 1 .. Len(alg_tree') : Len(alg_tree'[l]) \in Nat
      /\ \A l \in 1 .. Len(alg_tree) : Len(alg_tree[l]) \in Nat
  <2>1. alg_tree' \in Seq(Seq(Algs))
    BY DEF Types
  <2>2. \A l \in 1 .. Len(alg_tree') : alg_tree'[l] \in Seq(Algs)
    BY <2>1, ElementOfSeq
  <2> QED BY <2>1, <2>2, Sizes
<1>1. PICK l \in 1 .. Len(alg_tree) :
        \E i \in 1 .. Len(alg_tree[l]) : alg_tree[l][i] = b /\ Ahead(begin, end, l, i)
  BY DEF ComesTo
<1>2. PICK i \in 1 .. Len(alg_tree[l]) : alg_tree[l][i] = b /\ Ahead(begin, end, l, i)
  BY <1>1
<1>3. Len(alg_tree) <= Len(alg_tree')
  BY <1>0 DEF Grows
<1>4. l \in 1 .. Len(alg_tree')
  BY <1>0, <1>3
<1>5. Len(alg_tree[l]) \in Nat /\ Len(alg_tree'[l]) \in Nat
  BY <1>0, <1>4
<1>6. i \in 1 .. Len(alg_tree'[l]) /\ alg_tree'[l][i] = b
  BY <1>2, <1>5 DEF Grows
<1>7. Ahead(begin, end, l, i)'
  BY <1>2 DEF Ahead
<1> QED BY <1>4, <1>6, <1>7 DEF ComesTo

LEMMA OuterPhase ==
  ASSUME Types, Counted, NEW b \in Algs, PhaseOf(b), srv' = srv,
         ~AtRest => Grows(alg_tree, alg_tree'), Types',
         state'[b] = state[b] \/ state'[b] \notin InPhase
  PROVE  PhaseOf(b)'
<1>1. CASE state'[b] \notin InPhase
  BY <1>1 DEF PhaseOf, InPhase
<1>2. CASE state'[b] = state[b]
  <2>1. ASSUME NEW begin, NEW end, PerformsIn(b, begin, end)
        PROVE  PerformsIn(b, begin, end)'
    <3>1. ~AtRest /\ srv.pc \in {"alg", "handle"}
      BY <2>1 DEF PerformsIn, AtRest
    <3>2. PICK i \in 1 .. srv.stop_index :
            /\ alg_tree[srv.level][i] = b
            /\ \/ srv.pass = begin /\ i < srv.index
               \/ srv.pass = end /\ srv.index <= i
      BY <2>1 DEF PerformsIn
    <3>3. srv.level \in 1 .. Len(alg_tree) /\ srv.stop_index <= Len(alg_tree[srv.level])
      BY <3>1, Sizes DEF Counted
    <3>4. i \in 1 .. Len(alg_tree[srv.level])
      BY <3>2, <3>3, Sizes
    <3>5. alg_tree'[srv.level][i] = b
      BY <3>1, <3>2, <3>3, <3>4 DEF Grows
    <3> QED BY <3>1, <3>2, <3>5 DEF PerformsIn
  <2>2. Waits(b) => Waits(b)'
    BY StillComes DEF Waits, AtRest
  <2> QED BY <1>2, <2>1, <2>2 DEF PhaseOf
<1> QED BY <1>1, <1>2

LEMMA LoopCounted ==
  ASSUME ProcInv, Counted, ProcessLoop
  PROVE  Counted'
<1>1. Types
  BY DEF ProcInv
<1>2. alg_tree' = alg_tree
  BY DEF ProcessLoop, DequeueBatch, ReadNumAlgs, GetAlg, Skip, EndLevel, EndInit, UpdateGraph,
         EndBatch, Handle, others, tree_vars
<1>3. CASE DequeueBatch \/ EndInit \/ UpdateGraph
  <2>1. srv'.pc = "level" /\ srv'.stop_level = Len(alg_tree)
    BY <1>1, <1>3, Moves, PassNames DEF DequeueBatch, EndInit, UpdateGraph
  <2> QED BY <1>1, <1>2, <2>1, Sizes DEF Counted
<1>4. CASE ReadNumAlgs
  <2>1. srv.pc = "level" /\ srv.level <= srv.stop_level
    BY <1>4 DEF ReadNumAlgs
  <2>2. /\ srv'.pc = "alg" /\ srv'.stop_level = srv.stop_level /\ srv'.level = srv.level
        /\ srv'.stop_index = Len(alg_tree[srv.level])
    BY <1>1, <1>4, Moves
  <2>3. srv.stop_level <= Len(alg_tree)
    BY <2>1 DEF Counted, AtRest
  <2>4. Len(alg_tree[srv.level]) \in Nat
    BY <1>1, <2>1, <2>3, Sizes
  <2> QED BY <1>2, <2>1, <2>2, <2>3, <2>4 DEF Counted
<1>5. CASE GetAlg
  <2>1. srv.pc = "alg" /\ srv.index <= srv.stop_index
    BY <1>5 DEF GetAlg
  <2>2. /\ srv'.pc = "handle" /\ srv'.stop_level = srv.stop_level /\ srv'.level = srv.level
        /\ srv'.stop_index = srv.stop_index /\ srv'.index = srv.index
        /\ srv'.cur = alg_tree[srv.level][srv.index]
    BY <1>1, <1>5, Moves
  <2> QED BY <1>2, <2>1, <2>2 DEF Counted, AtRest
<1>6. CASE srv.pc = "handle" /\ srv' = NextIndex
  <2>1. /\ srv'.pc = "alg" /\ srv'.stop_level = srv.stop_level /\ srv'.level = srv.level
        /\ srv'.stop_index = srv.stop_index
    BY <1>1, <1>6, Moves
  <2> QED BY <1>2, <1>6, <2>1 DEF Counted, AtRest
<1>7. CASE srv' = srv
  BY <1>2, <1>7 DEF Counted, AtRest
<1>8. CASE EndLevel
  <2>1. srv.pc = "alg"
    BY <1>8 DEF EndLevel
  <2>2. /\ srv'.stop_level = srv.stop_level /\ srv'.stop_index = srv.stop_index
        /\ srv'.pc = "level" \/ (srv'.pc = "alg" /\ srv'.level = srv.level)
    BY <1>1, <1>8, Moves
  <2> QED BY <1>2, <2>1, <2>2 DEF Counted, AtRest
<1>9. CASE EndBatch
  <2>1. srv'.pc = "dequeue"
    BY <1>1, <1>9, Moves
  <2> QED BY <2>1 DEF Counted, AtRest
<1> QED BY <1>3, <1>4, <1>5, <1>6, <1>7, <1>8, <1>9 DEF ProcessLoop, Skip, Handle

\* The loop takes an algorithm in a state only in the pass that is for it.
LEMMA DueStates ==
  /\ srv.pass = "init" /\ state[srv.cur] = "PERFORMING_INIT" => Due # {}
  /\ srv.pass = "end_pre" /\ state[srv.cur] = "PERFORMING_PRE" => Due # {}
  /\ srv.pass = "begin_post" /\ state[srv.cur] = "READY_POST" => Due # {}
  /\ srv.pass = "end_post" /\ state[srv.cur] = "PERFORMING_POST" => Due # {}
<1> DEFINE here(f, t) == \E e \in Exchanges : e.pass = f /\ e.from = t
<1>1. /\ here("init", "PERFORMING_INIT") /\ here("end_pre", "PERFORMING_PRE")
      /\ here("begin_post", "READY_POST") /\ here("end_post", "PERFORMING_POST")
  BY DEF Exchanges, Exchange
<1> QED BY <1>1 DEF Due

\* What the loop will come to it still will, unless this step takes it.
LEMMA KeepsComing ==
  ASSUME ProcInv, Counted, alg_tree' = alg_tree, NEW b, NEW begin, NEW end,
         <<begin, end>> \in Kinds, ComesTo(b, begin, end),
         \/ ReadNumAlgs \/ GetAlg \/ EndLevel \/ srv' = srv
         \/ srv.pc = "handle" /\ srv' = NextIndex /\ (srv.pass = begin => b # srv.cur)
  PROVE  ComesTo(b, begin, end)'
<1>1. Types
  BY DEF ProcInv
<1>2. PICK l \in 1 .. Len(alg_tree) :
        \E i \in 1 .. Len(alg_tree[l]) : alg_tree[l][i] = b /\ Ahead(begin, end, l, i)
  BY DEF ComesTo
<1>3. PICK i \in 1 .. Len(alg_tree[l]) : alg_tree[l][i] = b /\ Ahead(begin, end, l, i)
  BY <1>2
<1>4. /\ srv.level \in Nat /\ srv.index \in Nat /\ srv.stop_index \in Nat /\ l \in Nat
      /\ Len(alg_tree[l]) \in Nat /\ i \in Nat
  BY <1>1, Sizes
<1>5. begin # end /\ begin \in {"init", "begin_pre", "begin_post"}
      /\ end \in {"none", "end_pre", "end_post"}
  BY DEF Kinds
<1>6. Ahead(begin, end, l, i)'
  <2>1. CASE srv.pc = "handle" /\ srv' = NextIndex /\ (srv.pass = begin => b # srv.cur)
    <3>1. /\ srv'.pc = "alg" /\ srv'.pass = srv.pass /\ srv'.level = srv.level
          /\ srv'.index = srv.index + 1 /\ srv'.stop_level = srv.stop_level
          /\ srv'.stop_index = srv.stop_index
      BY <1>1, <2>1, Moves
    <3>2. srv.cur = alg_tree[srv.level][srv.index]
      BY <2>1 DEF Counted, AtRest
    <3>3. srv.pass = begin /\ srv.level = l => i # srv.index
      BY <1>3, <2>1, <3>2
    <3> QED BY <1>3, <1>4, <2>1, <3>1, <3>3 DEF Ahead
  <2>2. CASE ReadNumAlgs
    <3>1. /\ srv'.pc = "alg" /\ srv'.pass = srv.pass /\ srv'.level = srv.level
          /\ srv'.index = 1 /\ srv'.stop_level = srv.stop_level
          /\ srv'.stop_index = Len(alg_tree[srv.level]) /\ srv.pc = "level"
      BY <1>1, <2>2, Moves DEF ReadNumAlgs
    <3>2. srv.pass = begin => srv.level <= l
      BY <1>3, <3>1 DEF Ahead
    <3>3. srv.pass = begin =>
            srv.level < l \/ (srv.level = l /\ 1 <= i /\ i <= Len(alg_tree[srv.level]))
      BY <1>4, <3>2
    <3> QED BY <1>3, <3>1, <3>3 DEF Ahead
  <2>3. CASE GetAlg
    <3>1. /\ srv'.pc = "handle" /\ srv'.pass = srv.pass /\ srv'.level = srv.level
          /\ srv'.index = srv.index /\ srv'.stop_level = srv.stop_level
          /\ srv'.stop_index = srv.stop_index /\ srv.pc = "alg"
      BY <1>1, <2>3, Moves DEF GetAlg
    <3> QED BY <1>3, <3>1 DEF Ahead
  <2>4. CASE EndLevel
    <3>1. srv.pc = "alg" /\ srv.index > srv.stop_index
      BY <2>4 DEF EndLevel
    <3>2. /\ srv'.stop_level = srv.stop_level /\ srv'.stop_index = srv.stop_index
          /\ \/ /\ srv'.pc = "alg" /\ srv'.level = srv.level /\ srv'.index = 1
                /\ <<srv.pass, srv'.pass>> \in {<<"begin_pre", "end_pre">>, <<"begin_post", "end_post">>}
             \/ /\ srv'.pc = "level" /\ srv'.level = srv.level + 1
                /\ <<srv.pass, srv'.pass>> \in
                     {<<"end_pre", "begin_pre">>, <<"end_post", "begin_post">>, <<"init", "init">>}
      BY <1>1, <2>4, Moves
    <3>3. srv.pass = begin => srv.level < l
      BY <1>3, <1>4, <3>1 DEF Ahead
    <3>4. srv'.pass \in {begin, end} <=> srv.pass \in {begin, end}
      BY <3>2 DEF Kinds
    <3>5. srv'.pass = end => srv.pass = begin /\ srv'.level = srv.level
      BY <3>2 DEF Kinds
    <3>6. srv'.pass = begin => srv'.pc = "level" /\ srv'.level = srv.level + 1
      BY <3>2 DEF Kinds
    <3>7. srv.pass \in {begin, end} => srv.level < l /\ l <= srv.stop_level
      BY <1>3, <3>3 DEF Ahead
    <3> QED BY <1>4, <3>2, <3>3, <3>4, <3>5, <3>6, <3>7 DEF Ahead
  <2>5. CASE srv' = srv
    BY <1>3, <2>5 DEF Ahead
  <2> QED BY <2>1, <2>2, <2>3, <2>4, <2>5
<1> QED BY <1>3, <1>6 DEF ComesTo

\* A pass begins: it will come to whatever is in the tree.
LEMMA PassStarts ==
  ASSUME ProcInv, NEW begin \in Passes, NEW end, <<begin, end>> \in Kinds, StartPasses(begin),
         alg_tree' = alg_tree, NEW b,
         \E l \in 1 .. Len(alg_tree) : \E i \in 1 .. Len(alg_tree[l]) : alg_tree[l][i] = b
  PROVE  ComesTo(b, begin, end)'
<1>1. Types /\ begin # end
  BY DEF ProcInv, Kinds
<1>2. /\ srv'.pc = "level" /\ srv'.pass = begin /\ srv'.level = 1
      /\ srv'.stop_level = Len(alg_tree)
  BY <1>1, Moves
<1>3. \A l \in 1 .. Len(alg_tree) : \A i : Ahead(begin, end, l, i)'
  BY <1>1, <1>2, Sizes DEF Ahead
<1> QED BY <1>3 DEF ComesTo

\* The last level is behind the loop, and everything in it.
LEMMA NothingComes ==
  ASSUME ProcInv, NEW begin, NEW end, LastLevelDone(begin), NEW b
  PROVE  ~ComesTo(b, begin, end)
<1>1. Types
  BY DEF ProcInv
<1>2. ASSUME NEW l \in 1 .. Len(alg_tree), NEW i, Ahead(begin, end, l, i)
      PROVE  FALSE
  BY <1>1, <1>2, Sizes DEF Ahead, LastLevelDone
<1> QED BY <1>2 DEF ComesTo

\* The loop goes on to the next algorithm: the others keep their phases.
LEMMA PassedPhase ==
  ASSUME ProcInv, Counted, srv.pc = "handle", srv' = NextIndex, alg_tree' = alg_tree,
         NEW b \in Algs, PhaseOf(b), state'[b] = state[b],
         b = srv.cur => Due = {}
  PROVE  PhaseOf(b)'
<1>1. Types
  BY DEF ProcInv
<1>2. /\ srv'.pc = "alg" /\ srv'.pass = srv.pass /\ srv'.level = srv.level
      /\ srv'.index = srv.index + 1 /\ srv'.stop_level = srv.stop_level
      /\ srv'.stop_index = srv.stop_index
  BY <1>1, Moves
<1>3. srv.cur = alg_tree[srv.level][srv.index] /\ srv.index \in Nat
  BY <1>1, Sizes DEF Counted, AtRest
<1>4. state[b] # "PERFORMING_INIT"
  BY DueStates DEF PhaseOf
<1>5. ASSUME NEW begin, NEW end, PerformsIn(b, begin, end), srv.pass = end => b # srv.cur
      PROVE  PerformsIn(b, begin, end)'
  <2>1. PICK i \in 1 .. srv.stop_index :
          /\ alg_tree[srv.level][i] = b
          /\ \/ srv.pass = begin /\ i < srv.index
             \/ srv.pass = end /\ srv.index <= i
    BY <1>5 DEF PerformsIn
  <2>2. srv.pass = end => i # srv.index
    BY <1>3, <1>5, <2>1
  <2>3. i \in Nat
    BY <1>1, Sizes
  <2>4. \/ srv.pass = begin /\ i < srv.index + 1
        \/ srv.pass = end /\ srv.index + 1 <= i
    BY <1>3, <2>1, <2>2, <2>3
  <2> QED BY <1>2, <2>1, <2>4 DEF PerformsIn
<1>6. ASSUME Waits(b), srv.pass = "begin_post" => b # srv.cur PROVE Waits(b)'
  BY <1>2, <1>6, KeepsComing DEF Waits, Kinds, AtRest
<1>7. state[b] = "PERFORMING_PRE" => PerformsIn(b, "begin_pre", "end_pre")'
  BY <1>5, DueStates DEF PhaseOf
<1>8. state[b] = "READY_POST" => Waits(b)'
  BY <1>6, DueStates DEF PhaseOf
<1>9. state[b] = "PERFORMING_POST" => PerformsIn(b, "begin_post", "end_post")'
  BY <1>5, DueStates DEF PhaseOf
<1> QED BY <1>4, <1>7, <1>8, <1>9 DEF PhaseOf

\* The algorithm the loop is with begins a phase or is done with one.
LEMMA HandlePhase ==
  ASSUME ProcInv, Counted, NEW e \in Exchanges, Handle(e), NEW b \in Algs, PhaseOf(b)
  PROVE  PhaseOf(b)'
<1>1. Types /\ srv.pc = "handle" /\ alg_tree' = alg_tree
  BY DEF ProcInv, Handle, others, tree_vars
<1>2. /\ srv.cur \in Algs /\ e.pass = srv.pass /\ e.from = state[srv.cur]
      /\ srv' = srv \/ srv' = NextIndex
  BY <1>1 DEF Types, Handle, Due
<1>3. /\ \A c \in Algs : c # srv.cur => state'[c] = state[c]
      /\ state'[srv.cur] \in {e.to, "ERROR"}
      /\ srv' = srv => state'[srv.cur] = e.to /\ e.to = "PERFORMING_INIT"
  <2>1. srv' = srv => ~(srv' = NextIndex)
    BY <1>1, Moves
  <2> QED BY <1>1, <1>2, <2>1 DEF Handle, Types
<1>4. CASE b # srv.cur
  <2>1. CASE srv' = NextIndex
    BY <1>1, <1>3, <1>4, <2>1, PassedPhase
  <2>2. CASE srv' = srv
    <3>1. state'[b] = state[b]
      BY <1>3, <1>4
    <3> QED BY <1>1, <2>2, <3>1
            DEF PhaseOf, PerformsIn, Waits, ComesTo, Ahead, AtRest
  <2> QED BY <1>2, <2>1, <2>2
<1>5. CASE b = srv.cur
  <2>1. /\ srv.cur = alg_tree[srv.level][srv.index] /\ srv.level \in 1 .. Len(alg_tree)
        /\ srv.index \in 1 .. srv.stop_index /\ srv.index \in 1 .. Len(alg_tree[srv.level])
    BY <1>1, Sizes DEF Counted, AtRest
  <2>2. CASE srv' = srv
    <3>1. e.pass = "init"
      BY <1>3, <2>2 DEF Exchanges, Exchange
    <3> QED BY <1>1, <1>2, <1>3, <1>5, <2>2, <3>1 DEF PhaseOf
  <2>3. CASE srv' = NextIndex /\ state'[b] \in InPhase
    <3>1. /\ srv'.pc = "alg" /\ srv'.pass = srv.pass /\ srv'.level = srv.level
          /\ srv'.index = srv.index + 1 /\ srv'.stop_level = srv.stop_level
          /\ srv'.stop_index = srv.stop_index
      BY <1>1, <2>3, Moves
    <3>2. state'[b] = e.to /\ e.to # "PERFORMING_INIT"
      <4>1. state'[b] = e.to
        BY <1>3, <1>5, <2>3 DEF InPhase
      <4>2. state'[b] # "ERROR"
        BY <2>3 DEF InPhase
      <4>3. srv' # srv
        BY <1>1, <2>3, <3>1
      <4> QED BY <1>1, <1>5, <4>1, <4>2, <4>3 DEF Handle, Types
    <3>3. \/ e.pass = "begin_pre" /\ e.to = "PERFORMING_PRE"
          \/ e.pass = "end_pre" /\ e.to = "READY_POST"
          \/ e.pass = "begin_post" /\ e.to = "PERFORMING_POST"
      BY <2>3, <3>2 DEF Exchanges, Exchange, InPhase
    <3>4. CASE e.pass \in {"begin_pre", "begin_post"}
      <4>1. srv.index < srv.index + 1
        BY <1>1, Sizes
      <4>2. ASSUME NEW end PROVE PerformsIn(b, e.pass, end)'
        BY <1>1, <1>2, <1>5, <2>1, <3>1, <4>1 DEF PerformsIn
      <4> QED BY <3>2, <3>3, <3>4, <4>2 DEF PhaseOf
    <3>5. CASE e.pass = "end_pre" /\ e.to = "READY_POST"
      <4>1. \A l, i : Ahead("begin_post", "end_post", l, i)'
        BY <1>2, <3>1, <3>5 DEF Ahead
      <4>2. /\ srv'.pc # "dequeue" /\ srv'.pass # "init"
            /\ alg_tree'[srv.level][srv.index] = b
            /\ srv.level \in 1 .. Len(alg_tree') /\ srv.index \in 1 .. Len(alg_tree'[srv.level])
        BY <1>1, <1>2, <1>5, <2>1, <3>1, <3>5
      <4>3. \E l \in 1 .. Len(alg_tree') : \E i \in 1 .. Len(alg_tree'[l]) :
              alg_tree'[l][i] = b /\ Ahead("begin_post", "end_post", l, i)'
        BY <4>1, <4>2
      <4>4. Waits(b)'
        BY <4>2, <4>3 DEF Waits, ComesTo, AtRest
      <4> QED BY <3>2, <3>5, <4>4 DEF PhaseOf
    <3> QED BY <3>3, <3>4, <3>5
  <2>4. CASE state'[b] \notin InPhase
    BY <2>4 DEF PhaseOf, InPhase
  <2> QED BY <1>2, <2>2, <2>3, <2>4
<1> QED BY <1>4, <1>5

\* No phase is left open at the end of a loop, of a level or of a batch.
LEMMA LoopPhase ==
  ASSUME ProcInv, Counted, ProcessLoop, NEW b \in Algs, PhaseOf(b)
  PROVE  PhaseOf(b)'
<1>1. Types
  BY DEF ProcInv
<1>2. CASE \E e \in Exchanges : Handle(e)
  BY <1>2, HandlePhase
<1>3. CASE Skip
  BY <1>3, PassedPhase DEF Skip, others, unhandled, tree_vars
<1>4. ASSUME DequeueBatch \/ ReadNumAlgs \/ GetAlg \/ EndLevel \/ EndInit \/ UpdateGraph \/ EndBatch
      PROVE  state' = state /\ alg_tree' = alg_tree
  BY <1>4 DEF DequeueBatch, ReadNumAlgs, GetAlg, EndLevel, EndInit, UpdateGraph, EndBatch, others,
              unhandled, tree_vars
<1>5. ASSUME state[b] \notin InPhase, state' = state
      PROVE  PhaseOf(b)'
  BY <1>5 DEF PhaseOf, InPhase
<1>6. srv.pc = "level" \/ AtRest => state[b] \notin {"PERFORMING_INIT", "PERFORMING_PRE", "PERFORMING_POST"}
  BY DEF PhaseOf, PerformsIn, AtRest
<1>8. CASE DequeueBatch
  <2>1. state[b] \notin InPhase
    BY <1>6, <1>8 DEF DequeueBatch, InPhase, PhaseOf, Waits
  <2> QED BY <1>4, <1>5, <1>8, <2>1
<1>9. CASE EndInit
  <2>1. state[b] \notin InPhase
    BY <1>6, <1>9 DEF EndInit, LastLevelDone, InPhase, PhaseOf, Waits
  <2> QED BY <1>4, <1>5, <1>9, <2>1
<1>10. CASE UpdateGraph
  <2>1. /\ srv'.pc = "level" /\ srv'.pass = "begin_post" /\ srv'.level = 1
        /\ srv'.stop_level = Len(alg_tree)
    BY <1>1, <1>10, Moves, PassNames DEF UpdateGraph
  <2>2. state[b] \in InPhase => state[b] = "READY_POST"
    BY <1>6, <1>10 DEF UpdateGraph, LastLevelDone, InPhase
  <2>3. ASSUME Waits(b) PROVE Waits(b)'
    <3>1. \E l \in 1 .. Len(alg_tree) : \E i \in 1 .. Len(alg_tree[l]) : alg_tree[l][i] = b
      BY <2>3 DEF Waits, ComesTo
    <3>2. ComesTo(b, "begin_post", "end_post")'
      BY <1>4, <1>10, <3>1, PassStarts, PassNames DEF UpdateGraph, Kinds
    <3> QED BY <2>1, <3>2 DEF Waits, AtRest
  <2> QED BY <1>4, <1>10, <2>2, <2>3 DEF PhaseOf, InPhase
<1>11. CASE EndBatch
  <2>1. ~Waits(b)
    BY <1>11, NothingComes DEF EndBatch, Waits
  <2>2. state[b] \notin InPhase
    BY <1>6, <1>11, <2>1 DEF EndBatch, LastLevelDone, InPhase, PhaseOf
  <2> QED BY <1>4, <1>5, <1>11, <2>2
<1>12. CASE ReadNumAlgs
  <2>1. /\ srv'.pc = "alg" /\ srv'.pass = srv.pass /\ srv'.level = srv.level
        /\ srv'.index = 1 /\ srv'.stop_level = srv.stop_level
        /\ srv'.stop_index = Len(alg_tree[srv.level])
    BY <1>1, <1>12, Moves
  <2>2. srv.pc = "level" /\ (state[b] \in InPhase => state[b] = "READY_POST")
    BY <1>6, <1>12 DEF ReadNumAlgs, InPhase
  <2>3. Waits(b) => Waits(b)'
    BY <1>4, <1>12, <2>1, KeepsComing DEF Waits, Kinds, AtRest
  <2> QED BY <1>4, <1>12, <2>2, <2>3 DEF PhaseOf, InPhase
<1>13. CASE GetAlg
  <2>1. /\ srv'.pc = "handle" /\ srv'.pass = srv.pass /\ srv'.level = srv.level
        /\ srv'.index = srv.index /\ srv'.stop_level = srv.stop_level
        /\ srv'.stop_index = srv.stop_index /\ srv.pc = "alg"
    BY <1>1, <1>13, Moves DEF GetAlg
  <2>2. \A begin, end : PerformsIn(b, begin, end) => PerformsIn(b, begin, end)'
    BY <1>4, <1>13, <2>1 DEF PerformsIn
  <2>4. Waits(b) => Waits(b)'
    BY <1>4, <1>13, <2>1, KeepsComing DEF Waits, Kinds, AtRest
  <2>5. state[b] # "PERFORMING_INIT"
    BY <2>1 DEF PhaseOf
  <2> QED BY <1>4, <1>13, <2>2, <2>4, <2>5 DEF PhaseOf
<1>14. CASE EndLevel
  <2>1. srv.pc = "alg" /\ srv.index > srv.stop_index
    BY <1>14 DEF EndLevel
  <2>2. /\ srv'.stop_level = srv.stop_level /\ srv'.stop_index = srv.stop_index
        /\ \/ /\ srv'.pc = "alg" /\ srv'.level = srv.level /\ srv'.index = 1
              /\ <<srv.pass, srv'.pass>> \in {<<"begin_pre", "end_pre">>, <<"begin_post", "end_post">>}
           \/ /\ srv'.pc = "level" /\ srv'.level = srv.level + 1
              /\ <<srv.pass, srv'.pass>> \in
                   {<<"end_pre", "begin_pre">>, <<"end_post", "begin_post">>, <<"init", "init">>}
    BY <1>1, <1>14, Moves
  <2>3. state[b] # "PERFORMING_INIT"
    BY <2>1 DEF PhaseOf
  <2>4. ASSUME NEW begin, NEW end,
               <<begin, end>> \in {<<"begin_pre", "end_pre">>, <<"begin_post", "end_post">>},
               PerformsIn(b, begin, end)
        PROVE  PerformsIn(b, begin, end)'
    <3>1. PICK i \in 1 .. srv.stop_index :
            /\ alg_tree[srv.level][i] = b
            /\ \/ srv.pass = begin /\ i < srv.index
               \/ srv.pass = end /\ srv.index <= i
      BY <2>4 DEF PerformsIn
    <3>2. i \in Nat /\ i >= 1 /\ i < srv.index
      BY <1>1, <2>1, Sizes
    <3>3. srv.pass = begin
      BY <1>1, <3>1, <3>2, Sizes
    <3>4. srv'.pc = "alg" /\ srv'.level = srv.level /\ srv'.index = 1 /\ srv'.pass = end
      BY <2>2, <2>4, <3>3
    <3> QED BY <1>4, <1>14, <2>2, <3>1, <3>2, <3>4 DEF PerformsIn
  <2>5. Waits(b) => Waits(b)'
    <3>1. srv.pass # "init" => srv'.pass # "init" /\ srv'.pc # "dequeue"
      BY <2>2
    <3> QED BY <1>4, <1>14, <3>1, KeepsComing DEF Waits, Kinds, AtRest
  <2> QED BY <1>4, <1>14, <2>3, <2>4, <2>5 DEF PhaseOf
<1> QED BY <1>2, <1>3, <1>8, <1>9, <1>10, <1>11, <1>12, <1>13, <1>14 DEF ProcessLoop

-----------------------------------------------------------------------------
(* The batches an algorithm has been told of.                              *)

\* In a phase, the answer under way or what the process has from it is the
\* batch in progress.
GotOf(a) ==
  open[a] =>
    /\ state[a] \in {"READY_POST", "PERFORMING_POST"} => got[a]["begin_pre"] = batch
    /\ state[a] = "PERFORMING_PRE" =>
         /\ call[a] = "begin_pre" => to_alg[a].batch = batch
         /\ call[a] = "end_pre" => got[a]["begin_pre"] = batch
    /\ state[a] = "PERFORMING_POST" =>
         /\ call[a] = "begin_post" => to_alg[a].batch = batch
         /\ call[a] = "end_post" => got[a]["begin_post"] = batch

\* The answer a process takes is to the call before the one that is awaited.
LEMMA CallBefore ==
  /\ \A c \in Actions \cup {"register"} : NextCall[c] = "end_pre" => c = "begin_pre"
  /\ \A c \in Actions \cup {"register"} : NextCall[c] = "begin_post" => c = "end_pre"
  /\ \A c \in Actions \cup {"register"} : NextCall[c] = "end_post" => c = "begin_post"
BY NextCalls DEF Actions

LEMMA OuterGot ==
  ASSUME ProcInv, NEW a \in Algs, Outer(a), NEW b \in Algs, GotOf(b)
  PROVE  GotOf(b)'
<1>1. Types /\ ProcessOf(a) /\ ProcessOf(b) /\ batch' = batch
  BY DEF ProcInv, ProcessOf, Outer, LoneConnection, Connect, LoneHas, LoneDelete, LoneResolve,
         AddAlg, Send, Receive, Crash
<1>2. CASE /\ state'[b] = state[b] /\ call'[b] = call[b] /\ to_alg'[b] = to_alg[b]
           /\ got'[b] = got[b] /\ open'[b] = open[b]
  BY <1>1, <1>2 DEF GotOf
<1>3. CASE ~open'[b]
  BY <1>3 DEF GotOf
<1>4. CASE state'[b] = "READY_INIT"
  BY <1>4 DEF GotOf
<1>5. CASE b # a
  BY <1>1, <1>2, <1>5
     DEF Outer, LoneConnection, Connect, LoneHas, LoneDelete, LoneResolve, AddAlg, Send, Receive, Crash,
         AnswerRegistration, client_vars, Types
<1>6. CASE b = a /\ open'[a] /\ state'[a] # "READY_INIT"
  <2>1. open[a] => ~Connect(a) /\ ~LoneConnection(a)
    <3>1. open[a] => conn[a] = "none" /\ call[a] # "none"
      BY <1>1, AwaitedActions DEF ProcessOf, InStep, Coming, Answered, Actions
    <3> QED BY <3>1 DEF Connect, LoneConnection, LoneHas, LoneDelete, LoneResolve, AddAlg
  <2>2. ~open[a] => ~Send(a) /\ ~Receive(a) /\ ~Connect(a) /\ ~LoneHas(a) /\ ~LoneDelete(a) /\ ~LoneResolve(a)
    BY <1>6 DEF Send, Receive, Connect, LoneHas, LoneDelete, LoneResolve
  <2>3. ~AddAlg(a) /\ ~Crash(a)
    BY <1>1, <1>6 DEF AddAlg, Crash, Types
  <2>4. open[a] /\ (Send(a) \/ Receive(a))
    BY <2>1, <2>2, <2>3 DEF Outer, LoneConnection
  <2>5. CASE Send(a)
    BY <1>2, <1>6, <2>5 DEF Send
  <2>6. CASE Receive(a)
    <3>1. /\ waiting[a] /\ to_alg[a] # NoReply /\ state' = state /\ open' = open
          /\ call'[a] = IF to_alg[a].result = "success" THEN NextCall[call[a]] ELSE "none"
          /\ to_alg'[a] = NoReply
          /\ got' = IF call[a] \in BeginActions
                      THEN [got EXCEPT ![a][call[a]] = to_alg[a].batch] ELSE got
      BY <1>1, <2>6 DEF Receive, Types
    <3>2. Answered(a)
      BY <1>1, <2>4, <3>1 DEF ProcessOf, InStep, Coming
    <3>3. /\ call[a] \in Actions \cup {"register"} /\ NextCall[call[a]] = Awaited(state[a])
          /\ call'[a] = Awaited(state[a])
      BY <1>1, <3>1, <3>2 DEF Answered, Types
    <3>4. got \in [Algs -> [BeginActions -> 0 .. NumBatches]]
      BY <1>1 DEF Types
    <3>5. CASE state[a] = "PERFORMING_PRE"
      <4>1. call[a] = "begin_pre" /\ call'[a] = "end_pre"
        BY <3>3, <3>5, CallBefore, AwaitedActions
      <4>2. to_alg[a].batch = batch
        BY <1>6, <2>4, <3>5, <4>1 DEF GotOf
      <4>3. got'[a]["begin_pre"] = batch
        BY <3>1, <3>4, <4>1, <4>2 DEF BeginActions
      <4> QED BY <1>1, <1>6, <3>1, <3>5, <4>1, <4>3 DEF GotOf
    <3>6. CASE state[a] = "READY_POST"
      <4>1. call[a] = "end_pre"
        BY <3>3, <3>6, CallBefore, AwaitedActions
      <4>2. got' = got
        BY <3>1, <4>1 DEF BeginActions
      <4> QED BY <1>1, <1>6, <2>4, <3>1, <3>6, <4>2 DEF GotOf
    <3>7. CASE state[a] = "PERFORMING_POST"
      <4>1. call[a] = "begin_post" /\ call'[a] = "end_post"
        BY <3>3, <3>7, CallBefore, AwaitedActions
      <4>2. to_alg[a].batch = batch /\ got[a]["begin_pre"] = batch
        BY <1>6, <2>4, <3>7, <4>1 DEF GotOf
      <4>3. got'[a]["begin_post"] = batch /\ got'[a]["begin_pre"] = batch
        BY <3>1, <3>4, <4>1, <4>2 DEF BeginActions
      <4> QED BY <1>1, <1>6, <3>1, <3>7, <4>1, <4>3 DEF GotOf
    <3>8. CASE state[a] \notin {"PERFORMING_PRE", "READY_POST", "PERFORMING_POST"}
      BY <1>6, <3>1, <3>8 DEF GotOf
    <3> QED BY <3>5, <3>6, <3>7, <3>8
  <2> QED BY <2>4, <2>5, <2>6
<1> QED BY <1>3, <1>4, <1>5, <1>6

LEMMA LoopGot ==
  ASSUME ProcInv, ProcessLoop, NEW b \in Algs, PhaseOf(b), GotOf(b)
  PROVE  GotOf(b)'
<1>1. Types /\ ProcessOf(b)
  BY DEF ProcInv, ProcessOf
<1>2. open' = open /\ call' = call /\ got' = got
  BY DEF ProcessLoop, DequeueBatch, ReadNumAlgs, GetAlg, Skip, EndLevel, EndInit, UpdateGraph,
         EndBatch, Handle, others, tree_vars, client_vars
<1>3. CASE DequeueBatch
  <2>1. state[b] \notin InPhase /\ state' = state
    BY <1>3 DEF DequeueBatch, unhandled, PhaseOf, PerformsIn, Waits, AtRest, InPhase
  <2> QED BY <2>1 DEF GotOf, InPhase
<1>4. CASE ~DequeueBatch /\ ~ \E e \in Exchanges : Handle(e)
  <2>1. state' = state /\ to_alg' = to_alg /\ batch' = batch
    BY <1>4 DEF ProcessLoop, ReadNumAlgs, GetAlg, Skip, EndLevel, EndInit, UpdateGraph, EndBatch,
                unhandled
  <2> QED BY <1>2, <2>1 DEF GotOf
<1>5. ASSUME NEW e \in Exchanges, Handle(e)
      PROVE  GotOf(b)'
  <2>1. batch' = batch
    BY <1>5 DEF Handle
  <2>2. CASE b # srv.cur
    <3>1. state'[b] = state[b] /\ to_alg'[b] = to_alg[b]
      BY <1>1, <1>5, <2>2 DEF Handle, Answer, Types
    <3> QED BY <1>2, <2>1, <3>1 DEF GotOf
  <2>3. CASE b = srv.cur /\ open[b]
    <3>1. /\ state[b] = e.from /\ state'[b] = e.to /\ call[b] = e.action
          /\ to_alg'[b] = Reply("success", IF e.action \in BeginActions THEN batch ELSE 0)
      BY <1>1, <1>5, <2>3, HandleStep DEF ProcessOf
    <3>2. \/ e.to \notin {"PERFORMING_PRE", "READY_POST", "PERFORMING_POST"}
          \/ e.to = "PERFORMING_PRE" /\ e.action = "begin_pre"
          \/ e.to = "READY_POST" /\ e.from = "PERFORMING_PRE" /\ e.action = "end_pre"
          \/ e.to = "PERFORMING_POST" /\ e.from = "READY_POST" /\ e.action = "begin_post"
      BY DEF Exchanges, Exchange
    <3>3. e.action \in BeginActions => to_alg'[b].batch = batch
      BY <3>1 DEF Reply
    <3> QED BY <1>2, <2>1, <2>3, <3>1, <3>2, <3>3 DEF GotOf, BeginActions
  <2>4. CASE ~open[b]
    BY <1>2, <2>4 DEF GotOf
  <2> QED BY <2>2, <2>3, <2>4
<1> QED BY <1>3, <1>4, <1>5

-----------------------------------------------------------------------------
(* The graph stands still.                                                 *)

PhaseInv ==
  Orderly(scenario) =>
    OrderOK /\ Counted /\ \A a \in Algs : PhaseOf(a) /\ GotOf(a)

LEMMA InitPhase == Init => PhaseInv
<1> SUFFICES ASSUME Init, Orderly(scenario) PROVE PhaseInv
  BY DEF PhaseInv
<1>1. Counted /\ \A a \in Algs : PhaseOf(a) /\ GotOf(a)
  BY DEF Init, Counted, AtRest, PhaseOf, GotOf
<1> QED BY <1>1, InitOrder DEF PhaseInv

LEMMA InductivePhase == ServerInv /\ PhaseInv /\ [Next]_vars => PhaseInv'
<1> SUFFICES ASSUME ServerInv, PhaseInv, [Next]_vars, Orderly(scenario') PROVE PhaseInv'
  BY DEF PhaseInv
<1>1. scenario' = scenario /\ Distinct(scenario) /\ ProcInv /\ Types /\ Ready
  <2>1. scenario' = scenario
    BY OuterLeaves, LoopLeaves DEF Next, NoMoreBatches, vars
  <2>2. Distinct(scenario)
    BY <2>1 DEF Orderly
  <2> QED BY <2>1, <2>2, LoneMap DEF ServerInv
<1>2. /\ Orderly(scenario) /\ OrderOK /\ Counted
      /\ \A a \in Algs : PhaseOf(a) /\ GotOf(a)
  BY <1>1 DEF PhaseInv
<1>3. CASE UNCHANGED vars \/ NoMoreBatches
  <2>1. UNCHANGED vars
    BY <1>3 DEF NoMoreBatches
  <2>2. OrderOK' /\ Counted'
    BY <1>2, <2>1 DEF vars, tree_vars, client_vars, OrderOK, OnceOf, Above, Counted, AtRest
  <2>3. \A a \in Algs : PhaseOf(a)' /\ GotOf(a)'
    BY <1>2, <2>1 DEF vars, tree_vars, client_vars, PhaseOf, PerformsIn, Waits, ComesTo, Ahead, GotOf, AtRest
  <2> QED BY <2>2, <2>3 DEF PhaseInv
<1>4. ASSUME NEW a \in Algs, Connect(a) \/ Connection(a) \/ Send(a) \/ Receive(a) \/ Crash(a)
      PROVE  PhaseInv'
  <2>0. Outer(a)
    BY <1>1, <1>4, LoneSteps
  <2>1. Types /\ Types' /\ srv' = srv /\ OrderOK'
    <3>1. srv' = srv
      BY <1>4, OuterLeaves
    <3>2. Types'
      BY <1>1, <1>4, ConnectionTypes, ClientTypes
    <3> QED BY <1>1, <1>2, <2>0, <3>1, <3>2, OuterOrder
  <2>2. ~AtRest => Grows(alg_tree, alg_tree')
    BY <1>1, <1>2, <2>0, TreeGrows
  <2>3. Counted'
    BY <1>2, <2>1, <2>2, OuterCounted
  <2>4. ASSUME NEW b \in Algs
        PROVE  PhaseOf(b)' /\ GotOf(b)'
    <3>1. state'[b] = state[b] \/ state'[b] \notin InPhase
      <4>1. \/ state' = state \/ state' = [state EXCEPT ![a] = "none"]
            \/ state' = [state EXCEPT ![a] = "READY_INIT"]
        BY <2>0 DEF Outer, LoneConnection, Connect, LoneHas, LoneDelete, LoneResolve, AddAlg, Send,
                    Receive, Crash
      <4>2. state \in [Algs -> AlgStates]
        BY <2>1 DEF Types
      <4> QED BY <4>1, <4>2 DEF InPhase
    <3> QED BY <1>1, <1>2, <2>0, <2>1, <2>2, <3>1, OuterPhase, OuterGot
  <2> QED BY <2>1, <2>3, <2>4 DEF PhaseInv
<1>5. CASE ProcessLoop
  <2>1. OrderOK' /\ Counted'
    BY <1>1, <1>2, <1>5, LoopOrder, LoopCounted
  <2>2. \A b \in Algs : PhaseOf(b)' /\ GotOf(b)'
    BY <1>1, <1>2, <1>5, LoopPhase, LoopGot
  <2> QED BY <2>1, <2>2 DEF PhaseInv
<1> QED BY <1>3, <1>4, <1>5 DEF Next

\* The inductive form, when registrations are orderly: an algorithm is in a
\* phase only while the loop is in the pass and at the level that waits for it.
THEOREM PhaseInvariant == Spec => []PhaseInv
BY InitPhase, InductivePhase, ServerInvariant, PTL DEF Spec

\* For any number of algorithms, in every scenario in which no registration
\* cuts or shifts the tree of algorithms under the loop, whoever dies: the
\* graph does not change while an algorithm computes, and it is the one of the
\* batch the algorithm was told of (begin and end calls of stinger_alg.cpp
\* against the passes of process_loop_handler).
THEOREM StaticGraphHolds == Spec => [](Orderly(scenario) => ComputesOnStaticGraph)
<1>1. ASSUME ProcInv, PhaseInv, Orderly(scenario)
      PROVE  ComputesOnStaticGraph
  <2> SUFFICES ASSUME NEW a \in Algs, ~waiting[a]
               PROVE  /\ call[a] = "end_init" => graph = batch - 1
                      /\ call[a] = "end_pre"  => got[a].begin_pre = batch /\ graph = batch - 1
                      /\ call[a] = "end_post" => /\ got[a].begin_post = got[a].begin_pre
                                                 /\ got[a].begin_post = batch /\ graph = batch
    BY DEF ComputesOnStaticGraph
  <2>1. ProcessOf(a) /\ PhaseOf(a) /\ GotOf(a) /\ GraphOK
    BY <1>1 DEF ProcInv, ProcessOf, PhaseInv
  <2>2. call[a] \in Actions => open[a] /\ state[a] \in Working /\ call[a] = Awaited(state[a])
    BY <2>1 DEF ProcessOf, InStep, Outside, Coming, Answered, Actions
  <2>3. CASE call[a] = "end_init"
    <3>1. state[a] = "PERFORMING_INIT"
      BY <2>2, <2>3, WorkingStates, AwaitedActions DEF Actions
    <3> QED BY <2>1, <2>3, <3>1 DEF PhaseOf, GraphOK, AtRest
  <2>4. CASE call[a] = "end_pre"
    <3>1. state[a] = "PERFORMING_PRE" /\ open[a]
      BY <2>2, <2>4, WorkingStates, AwaitedActions DEF Actions
    <3>2. got[a].begin_pre = batch
      BY <2>1, <2>4, <3>1 DEF GotOf
    <3>3. ~AtRest /\ srv.pass \in {"begin_pre", "end_pre"}
      BY <2>1, <3>1 DEF PhaseOf, PerformsIn, AtRest
    <3> QED BY <2>1, <2>4, <3>2, <3>3 DEF GraphOK
  <2>5. CASE call[a] = "end_post"
    <3>1. state[a] = "PERFORMING_POST" /\ open[a]
      BY <2>2, <2>5, WorkingStates, AwaitedActions DEF Actions
    <3>2. got[a].begin_pre = batch /\ got[a].begin_post = batch
      BY <2>1, <2>5, <3>1 DEF GotOf
    <3>3. srv.pass \in {"begin_post", "end_post"}
      BY <2>1, <3>1 DEF PhaseOf, PerformsIn
    <3> QED BY <2>1, <2>5, <3>2, <3>3 DEF GraphOK
  <2> QED BY <2>3, <2>4, <2>5
<1>2. ServerInv /\ PhaseInv => (Orderly(scenario) => ComputesOnStaticGraph)
  BY <1>1, LoneMap DEF Orderly
<1> QED BY <1>2, ServerInvariant, PhaseInvariant, PTL

-----------------------------------------------------------------------------
(* Nothing is cut off.                                                     *)

\* The scenarios in which nothing is cut off, between batches either: an
\* algorithm that registers again has neither dependencies nor others that
\* depend on it.
Tidy(sc) ==
  /\ Distinct(sc)
  /\ IF sc.between
       THEN \A a \in Algs : sc.deps[a] = {}
       ELSE Comparable(sc) /\ \A a \in Algs : sc.starts[a] <= 1

HasPlace(a) ==
  /\ level[a] \in 1 .. Len(alg_tree)
  /\ \E i \in 1 .. Len(alg_tree[level[a]]) : alg_tree[level[a]][i] = a

\* What is in the tree is registered, at its level, and there once; and the
\* other way round.
TreeOK ==
  /\ \A l \in 1 .. Len(alg_tree) : \A i \in 1 .. Len(alg_tree[l]) :
       /\ state[alg_tree[l][i]] # "none" /\ level[alg_tree[l][i]] = l
       /\ \A j \in 1 .. Len(alg_tree[l]) : alg_tree[l][j] = alg_tree[l][i] => j = i
  /\ \A a \in Algs : state[a] # "none" => HasPlace(a)

LEMMA TreeFromPlaces ==
  ASSUME ServerInv, Distinct(scenario), cut = {}
  PROVE  TreeOK
<1>1. Types /\ \A a \in Algs : PlaceOf(a) /\ level[a] \in Nat
  BY LoneMap, SizeIsNat DEF ServerInv, Types, Levels
<1>2. /\ Len(alg_tree) \in Nat
      /\ \A l \in 1 .. Len(alg_tree) :
           Len(alg_tree[l]) \in Nat /\ \A i \in 1 .. Len(alg_tree[l]) : alg_tree[l][i] \in Algs
  BY <1>1, TreeRows DEF Types
<1>3. ASSUME NEW l \in 1 .. Len(alg_tree), NEW i \in 1 .. Len(alg_tree[l]),
             NEW a \in Algs, a = alg_tree[l][i]
      PROVE  /\ state[a] # "none" /\ level[a] = l
             /\ \A j \in 1 .. Len(alg_tree[l]) : alg_tree[l][j] = a => j = i
  <2>1. \A j \in 1 .. Len(alg_tree[l]) :
          alg_tree[l][j] = a => At(alg_tree, a, l, j) /\ l \in Nat /\ j \in Nat
    BY <1>2 DEF At
  <2>2. ~Absent(alg_tree, a)
    BY <1>3, <2>1 DEF Absent
  <2>3. state[a] # "none" /\ Only(alg_tree, a, level[a])
    BY <1>1, <2>2 DEF PlaceOf, Registered
  <2> QED BY <1>3, <2>1, <2>3 DEF Only
<1>4. ASSUME NEW a \in Algs, state[a] # "none" PROVE HasPlace(a)
  <2>1. Only(alg_tree, a, level[a])
    BY <1>1, <1>4 DEF PlaceOf, Registered
  <2> QED BY <2>1 DEF Only, At, HasPlace
<1> QED BY <1>2, <1>3, <1>4 DEF TreeOK

\* Without dependencies there is one level.
FlatOK ==
  scenario.between =>
    Len(alg_tree) <= 1 /\ \A a \in Algs : conn[a] = "add" => level[a] = 1

LEMMA TidyIsOrderly ==
  ASSUME NEW sc, Tidy(sc)
  PROVE  Orderly(sc)
BY DEF Tidy, Orderly

LEMMA AddedOnTop ==
  ASSUME ProcInv, OrderOK, Tidy(scenario), FlatOK, NEW a \in Algs, AddAlg(a)
  PROVE  Len(alg_tree) <= level[a] /\ level[a] \in Nat \ {0} /\ state[a] = "none"
<1>1. level[a] \in Nat /\ level[a] > 0 /\ state[a] = "none"
  BY SizeIsNat DEF ProcInv, Types, Levels, ProcessOf, AddAlg
<1>2. CASE scenario.between
  BY <1>1, <1>2 DEF FlatOK, AddAlg
<1>3. CASE ~scenario.between
  BY <1>1, <1>3, AddsOnTop, TidyIsOrderly
<1> QED BY <1>1, <1>2, <1>3

\* What a step outside the loop does to the place of an algorithm in the
\* registry.
LEMMA OuterSteps ==
  ASSUME ProcInv, NEW a \in Algs, Outer(a), NEW b \in Algs
  PROVE  /\ srv' = srv /\ batch' = batch /\ scenario' = scenario
         /\ \/ /\ state'[b] = state[b] /\ joined'[b] = joined[b]
               /\ state[b] # "none" => level'[b] = level[b]
            \/ /\ b = a /\ AddAlg(a) /\ state[b] = "none" /\ state'[b] = "READY_INIT"
               /\ joined'[b] = batch /\ level'[b] = level[b]
            \/ b = a /\ LoneDelete(a) /\ state'[b] = "none"
<1>1. Types /\ ProcessOf(a)
  BY DEF ProcInv, ProcessOf
<1>2. srv' = srv /\ batch' = batch /\ scenario' = scenario
  BY DEF Outer, LoneConnection, Connect, LoneHas, LoneDelete, LoneResolve, AddAlg, Send, Receive, Crash
<1>3. CASE AddAlg(a)
  <2>1. state[a] = "none"
    BY <1>1, <1>3 DEF AddAlg, ProcessOf
  <2>2. /\ state' = [state EXCEPT ![a] = "READY_INIT"] /\ level' = level
        /\ joined' = [joined EXCEPT ![a] = batch]
    BY <1>3 DEF AddAlg
  <2> QED BY <1>1, <1>2, <1>3, <2>1, <2>2 DEF Types
<1>4. CASE LoneDelete(a)
  <2>1. state' = [state EXCEPT ![a] = "none"] /\ level' = level /\ joined' = joined
    BY <1>4 DEF LoneDelete
  <2> QED BY <1>1, <1>2, <1>4, <2>1 DEF Types
<1>5. CASE LoneResolve(a)
  <2>1. conn[a] = "deps" /\ state' = state /\ joined' = joined
    BY <1>5 DEF LoneResolve
  <2>2. level' = level \/ \E l \in 1 .. Cardinality(Algs) : level' = [level EXCEPT ![a] = l]
    BY <1>5 DEF LoneResolve
  <2>3. b # a => level'[b] = level[b]
    BY <1>1, <2>2 DEF Types
  <2>4. b = a => state[b] = "none"
    BY <1>1, <2>1 DEF ProcessOf
  <2> QED BY <1>2, <2>1, <2>3, <2>4
<1>6. CASE Connect(a) \/ LoneHas(a) \/ Send(a) \/ Receive(a) \/ Crash(a)
  <2>1. state' = state /\ joined' = joined /\ level' = level
    BY <1>6 DEF Connect, LoneHas, Send, Receive, Crash, tree_vars
  <2> QED BY <1>2, <2>1
<1> QED BY <1>3, <1>4, <1>5, <1>6 DEF Outer, LoneConnection

\* Outside the loop, additions are on top.
LEMMA OuterTree ==
  ASSUME ProcInv, OrderOK, Tidy(scenario), TreeOK, FlatOK, cut = {}, NEW a \in Algs, Outer(a)
  PROVE  cut' = {} /\ FlatOK'
<1>1. Types
  BY DEF ProcInv
<1>2. CASE AddAlg(a)
  <2>1. Len(alg_tree) <= level[a] /\ level[a] \in Nat \ {0} /\ state[a] = "none"
    BY <1>2, AddedOnTop
  <2>2. /\ alg_tree' = AddToTree(alg_tree, level[a], a) /\ alg_tree \in Seq(Seq(Algs))
        /\ level' = level /\ scenario' = scenario /\ conn[a] = "add"
        /\ conn' = [conn EXCEPT ![a] = "none"] /\ conn \in [Algs -> ConnStates]
        /\ cut' = (cut \cup {b \in Registered : level[b] > level[a]}) \ {a}
    BY <1>1, <1>2 DEF AddAlg, Types
  <2>3. Len(alg_tree') = level[a]
    BY <2>1, <2>2, AddedTree
  <2>4. \A b \in Algs : conn'[b] = "add" => conn[b] = "add"
    BY <2>2
  <2>5. ASSUME NEW b \in Registered PROVE ~(level[b] > level[a])
    <3>1. level[b] \in 1 .. Len(alg_tree) /\ Len(alg_tree) \in Nat
      BY <1>1, <2>5, Sizes DEF Registered, TreeOK, HasPlace
    <3> QED BY <2>1, <3>1
  <2>6. cut' = {}
    BY <2>2, <2>5
  <2> QED BY <2>2, <2>3, <2>4, <2>6 DEF FlatOK
<1>3. CASE LoneDelete(a)
  <2>1. /\ alg_tree' = EraseFromTree(alg_tree, a) /\ alg_tree \in Seq(Seq(Algs))
        /\ level' = level /\ scenario' = scenario /\ cut' = cut \ {a}
        /\ conn' = [conn EXCEPT ![a] = "deps"] /\ conn \in [Algs -> ConnStates]
    BY <1>1, <1>3 DEF LoneDelete, Types
  <2>2. Len(alg_tree') = Len(alg_tree)
    BY <2>1, ErasedTree
  <2>3. \A b \in Algs : conn'[b] = "add" => conn[b] = "add"
    BY <2>1
  <2> QED BY <2>1, <2>2, <2>3 DEF FlatOK
<1>4. CASE ~AddAlg(a) /\ ~LoneDelete(a)
  <2>1. alg_tree' = alg_tree /\ scenario' = scenario /\ cut' = cut
    BY <1>4 DEF Outer, LoneConnection, Connect, LoneHas, LoneResolve, Send, Receive, Crash, tree_vars
  <2>2. ASSUME scenario.between, NEW b \in Algs, conn'[b] = "add"
        PROVE  level'[b] = 1
    <3>1. CASE b = a /\ LoneResolve(a)
      <4>1. scenario.deps[a] = {}
        BY <2>2 DEF Tidy
      <4>2. PICK l \in 1 .. Cardinality(Algs) :
              (l = 1 \/ \E d \in scenario.deps[a] : level[d] = l - 1) /\ level' = [level EXCEPT ![a] = l]
        BY <3>1, <4>1 DEF LoneResolve
      <4> QED BY <1>1, <3>1, <4>1, <4>2 DEF Types
    <3>2. CASE b # a /\ LoneResolve(a)
      <4>1. conn'[b] = conn[b] /\ level'[b] = level[b]
        BY <1>1, <3>2 DEF LoneResolve, Types
      <4> QED BY <2>2, <4>1 DEF FlatOK
    <3>3. CASE ~LoneResolve(a)
      <4>1. level' = level /\ conn[b] = "add"
        BY <1>1, <1>4, <2>2, <3>3
           DEF Outer, LoneConnection, Connect, LoneHas, Send, Receive, Crash, tree_vars, Types
      <4> QED BY <2>2, <4>1 DEF FlatOK
    <3> QED BY <3>1, <3>2, <3>3
  <2> QED BY <2>1, <2>2 DEF FlatOK
<1> QED BY <1>2, <1>3, <1>4

\* The loop adds nothing.
LEMMA LoopTree ==
  ASSUME FlatOK, cut = {}, ProcessLoop
  PROVE  cut' = {} /\ FlatOK'
<1>1. UNCHANGED <<scenario, alg_tree, level, cut, conn>>
  BY LoopLeaves DEF tree_vars
<1> QED BY <1>1 DEF FlatOK

-----------------------------------------------------------------------------
(* What an algorithm that is ready waits for.                              *)

\* What is added while the loop initialises is on its last level, or above.
LateOK ==
  ~AtRest /\ srv.pass = "init" =>
    \A a \in Algs : joined[a] = batch /\ state[a] # "none" => level[a] >= srv.stop_level

\* No algorithm is initialised before those it depends on.
ReadyAfter ==
  \A a \in Algs : \A d \in scenario.deps[a] :
    state[a] \in Working \ {"READY_INIT"} => state[d] # "READY_INIT"

Saw(a) == got[a]["begin_pre"] = batch /\ got[a]["begin_post"] = batch

\* The loop will come to what is ready for a pass of this batch, unless it
\* joined too late; what is ready for the next has seen this one.
ReadyOf(a) ==
  /\ state[a] = "READY_INIT" =>
       joined[a] = batch \/ (~AtRest /\ srv.pass = "init" /\ ComesTo(a, "init", "none"))
  /\ state[a] = "READY_PRE" =>
       IF ~AtRest /\ srv.pass \in {"init", "begin_pre", "end_pre"}
         THEN ComesTo(a, "begin_pre", "end_pre")
         ELSE open[a] => Saw(a)

LEMMA OuterLate ==
  ASSUME ProcInv, OrderOK, Tidy(scenario), FlatOK, Counted, LateOK, NEW a \in Algs, Outer(a)
  PROVE  LateOK'
<1>1. srv' = srv /\ batch' = batch
  BY OuterSteps
<1>2. ASSUME ~AtRest, srv.pass = "init", NEW b \in Algs, joined'[b] = batch, state'[b] # "none"
      PROVE  level'[b] >= srv.stop_level
  <2>1. CASE state'[b] = state[b] /\ joined'[b] = joined[b] /\ level'[b] = level[b]
    BY <1>2, <2>1 DEF LateOK
  <2>2. CASE b = a /\ AddAlg(a) /\ level'[b] = level[b]
    <3>1. Len(alg_tree) <= level[a] /\ level[a] \in Nat
      BY <2>2, AddedOnTop
    <3>2. srv.stop_level <= Len(alg_tree) /\ srv.stop_level \in Nat /\ Len(alg_tree) \in Nat
      BY <1>2, Sizes DEF Counted, ProcInv
    <3> QED BY <2>2, <3>1, <3>2
  <2> QED BY <1>2, <2>1, <2>2, OuterSteps
<1> QED BY <1>1, <1>2 DEF LateOK, AtRest

LEMMA OuterReadyAfter ==
  ASSUME ProcInv, OrderOK, Tidy(scenario), ReadyAfter, NEW a \in Algs, Outer(a)
  PROVE  ReadyAfter'
<1>1. scenario' = scenario /\ \A b \in Algs : \A d \in scenario.deps[b] : d \in Algs
  BY OuterSteps DEF ProcInv, Types, ScenarioType
<1>2. ASSUME NEW b \in Algs, NEW d \in scenario.deps[b],
             state'[b] \in Working \ {"READY_INIT"}, state'[d] = "READY_INIT"
      PROVE  FALSE
  <2>1. state[b] = state'[b]
    BY <1>2, WorkingStates, OuterSteps
  <2>2. state[d] # "READY_INIT"
    BY <1>2, <2>1 DEF ReadyAfter
  <2>3. state[d] = "none"
    BY <1>1, <1>2, <2>2, OuterSteps
  <2>4. ~scenario.between
    BY <1>2 DEF Tidy
  <2>5. Above(b)
    BY <1>2, <2>1, <2>4, WorkingStates DEF OrderOK, OnceOf
  <2> QED BY <1>2, <2>3, <2>5 DEF Above
<1> QED BY <1>1, <1>2 DEF ReadyAfter

\* A process that is ready for a batch does not forget the last.
LEMMA OuterSaw ==
  ASSUME ProcInv, NEW a \in Algs, Outer(a), NEW b \in Algs,
         state[b] = "READY_PRE", state'[b] = "READY_PRE", open'[b]
  PROVE  open[b] /\ got'[b] = got[b]
<1>1. Types /\ ProcessOf(a) /\ ProcessOf(b)
  BY DEF ProcInv, ProcessOf
<1>2. CASE b # a
  BY <1>1, <1>2
     DEF Outer, LoneConnection, Connect, LoneHas, LoneDelete, LoneResolve, AddAlg, Send, Receive, Crash,
         client_vars, Types
<1>3. CASE b = a
  <2>1. open[a] => ~Connect(a) /\ ~LoneConnection(a)
    <3>1. open[a] => conn[a] = "none" /\ call[a] # "none"
      BY <1>1, AwaitedActions DEF ProcessOf, InStep, Coming, Answered, Actions
    <3> QED BY <3>1 DEF Connect, LoneConnection, LoneHas, LoneDelete, LoneResolve, AddAlg
  <2>2. ~open[a] => ~Send(a) /\ ~Receive(a) /\ ~Connect(a) /\ ~LoneHas(a) /\ ~LoneDelete(a) /\ ~LoneResolve(a)
    BY <1>3 DEF Send, Receive, Connect, LoneHas, LoneDelete, LoneResolve
  <2>3. ~AddAlg(a) /\ ~Crash(a)
    BY <1>1, <1>3 DEF AddAlg, Crash, Types
  <2>4. open[a] /\ (Send(a) \/ Receive(a))
    BY <2>1, <2>2, <2>3 DEF Outer, LoneConnection
  <2>5. CASE Send(a)
    BY <1>3, <2>4, <2>5 DEF Send
  <2>6. CASE Receive(a)
    <3>1. /\ waiting[a] /\ to_alg[a] # NoReply
          /\ got' = IF call[a] \in BeginActions
                      THEN [got EXCEPT ![a][call[a]] = to_alg[a].batch] ELSE got
      BY <2>6 DEF Receive
    <3>2. Answered(a)
      BY <1>1, <2>4, <3>1 DEF ProcessOf, InStep, Coming
    <3>3. call[a] \in Actions \cup {"register"} /\ NextCall[call[a]] = "begin_pre"
      BY <1>1, <1>3, <3>2, AwaitedActions DEF Answered, Types
    <3>4. call[a] \notin BeginActions
      BY <3>3, NextCalls DEF BeginActions
    <3> QED BY <1>3, <2>4, <3>1, <3>4
  <2> QED BY <2>4, <2>5, <2>6
<1> QED BY <1>2, <1>3

LEMMA OuterReady ==
  ASSUME ProcInv, Types', NEW a \in Algs, Outer(a), ~AtRest => Grows(alg_tree, alg_tree'),
         NEW b \in Algs, ReadyOf(b)
  PROVE  ReadyOf(b)'
<1>1. Types /\ srv' = srv /\ batch' = batch
  BY OuterSteps DEF ProcInv
<1>2. \A begin, end : ~AtRest /\ ComesTo(b, begin, end) => ComesTo(b, begin, end)'
  BY <1>1, StillComes
<1>3. CASE state'[b] = state[b] /\ joined'[b] = joined[b]
  <2>1. CASE state[b] = "READY_INIT"
    BY <1>1, <1>2, <1>3, <2>1 DEF ReadyOf, AtRest
  <2>2. CASE state[b] = "READY_PRE"
    <3>1. CASE ~AtRest /\ srv.pass \in {"init", "begin_pre", "end_pre"}
      BY <1>1, <1>2, <1>3, <2>2, <3>1 DEF ReadyOf, AtRest
    <3>2. CASE ~(~AtRest /\ srv.pass \in {"init", "begin_pre", "end_pre"})
      <4>1. open'[b] => open[b] /\ got'[b] = got[b]
        BY <1>3, <2>2, OuterSaw
      <4>2. open'[b] => Saw(b)'
        BY <1>1, <2>2, <3>2, <4>1 DEF ReadyOf, Saw
      <4> QED BY <1>1, <1>3, <2>2, <3>2, <4>2 DEF ReadyOf, AtRest
    <3> QED BY <3>1, <3>2
  <2>3. CASE state[b] \notin {"READY_INIT", "READY_PRE"}
    BY <1>3, <2>3 DEF ReadyOf
  <2> QED BY <2>1, <2>2, <2>3
<1>4. CASE state'[b] = "READY_INIT" /\ joined'[b] = batch
  BY <1>1, <1>4 DEF ReadyOf
<1>5. CASE state'[b] = "none"
  BY <1>5 DEF ReadyOf
<1> QED BY <1>3, <1>4, <1>5, OuterSteps

LEMMA LoopLate ==
  ASSUME ProcInv, JoinedOK, LateOK, ProcessLoop
  PROVE  LateOK'
<1>1. /\ Types /\ srv.stop_level \in Nat /\ batch \in Nat
      /\ \A b \in Algs : joined[b] \in Nat /\ joined[b] <= batch
  <2>1. Types
    BY DEF ProcInv
  <2> QED BY <2>1, Sizes, AlgServerAssumption, SMTT(40) DEF JoinedOK, Types
<1>2. joined' = joined /\ level' = level
  BY DEF ProcessLoop, DequeueBatch, ReadNumAlgs, GetAlg, Skip, EndLevel, EndInit, UpdateGraph,
         EndBatch, Handle, others, tree_vars
<1>3. \A b \in Algs : state'[b] = "none" <=> state[b] = "none"
  BY <1>1, LoopRegistered
<1>4. CASE DequeueBatch
  <2>1. batch' = batch + 1
    BY <1>4 DEF DequeueBatch
  <2> QED BY <1>1, <1>2, <2>1 DEF LateOK
<1>5. CASE EndInit \/ UpdateGraph
  <2>1. srv'.pass # "init"
    BY <1>1, <1>5, Moves, PassNames DEF EndInit, UpdateGraph
  <2> QED BY <2>1 DEF LateOK
<1>6. CASE EndBatch
  <2>1. srv'.pc = "dequeue"
    BY <1>1, <1>6, Moves
  <2> QED BY <2>1 DEF LateOK, AtRest
<1>7. ASSUME ~AtRest, batch' = batch, srv'.stop_level = srv.stop_level,
             srv'.pass = "init" => srv.pass = "init"
      PROVE  LateOK'
  BY <1>2, <1>3, <1>7 DEF LateOK
<1>8. CASE ReadNumAlgs \/ GetAlg \/ EndLevel
  <2>1. ~AtRest /\ batch' = batch
    BY <1>8 DEF AtRest, ReadNumAlgs, GetAlg, EndLevel
  <2>2. srv'.stop_level = srv.stop_level /\ (srv'.pass = "init" => srv.pass = "init")
    BY <1>1, <1>8, Moves
  <2> QED BY <1>7, <2>1, <2>2
<1>9. CASE Skip \/ \E e \in Exchanges : Handle(e)
  <2>1. ~AtRest /\ batch' = batch /\ (srv' = NextIndex \/ srv' = srv)
    BY <1>9 DEF AtRest, Skip, Handle
  <2>2. srv'.stop_level = srv.stop_level /\ srv'.pass = srv.pass
    BY <1>1, <2>1, Moves
  <2> QED BY <1>7, <2>1, <2>2
<1> QED BY <1>4, <1>5, <1>6, <1>8, <1>9 DEF ProcessLoop

\* What the loop will come to is not below it.
LEMMA ComesAbove ==
  ASSUME Types, TreeOK, NEW b, NEW begin, NEW end, srv.pass \in {begin, end},
         ComesTo(b, begin, end)
  PROVE  level[b] >= srv.level /\ level[b] \in Nat /\ (srv.pass = end => level[b] > srv.level)
<1>1. PICK l \in 1 .. Len(alg_tree) :
        \E i \in 1 .. Len(alg_tree[l]) : alg_tree[l][i] = b /\ Ahead(begin, end, l, i)
  BY DEF ComesTo
<1>2. PICK i \in 1 .. Len(alg_tree[l]) : alg_tree[l][i] = b /\ Ahead(begin, end, l, i)
  BY <1>1
<1>3. level[b] = l /\ l \in Nat
  BY <1>2, Sizes DEF TreeOK
<1> QED BY <1>2, <1>3, Sizes DEF Ahead

\* The algorithm the loop is with stands where the loop does.
LEMMA CurrentPlace ==
  ASSUME Types, TreeOK, Counted, srv.pc = "handle"
  PROVE  /\ srv.level \in 1 .. Len(alg_tree) /\ srv.index \in 1 .. Len(alg_tree[srv.level])
         /\ srv.cur = alg_tree[srv.level][srv.index] /\ level[srv.cur] = srv.level
         /\ srv.level <= srv.stop_level
<1>1. /\ srv.level \in 1 .. Len(alg_tree) /\ srv.index \in 1 .. Len(alg_tree[srv.level])
      /\ srv.cur = alg_tree[srv.level][srv.index] /\ srv.level <= srv.stop_level
  BY Sizes DEF Counted, AtRest
<1> QED BY <1>1 DEF TreeOK

LEMMA LoopReadyAfter ==
  ASSUME ProcInv, OrderOK, Tidy(scenario), TreeOK, Counted, LateOK, ReadyAfter,
         \A b \in Algs : ReadyOf(b), ProcessLoop
  PROVE  ReadyAfter'
<1>1. /\ Types /\ scenario' = scenario
      /\ \A b \in Algs : \A d \in scenario.deps[b] : d \in Algs
  BY DEF ProcInv, Types, ScenarioType, ProcessLoop, DequeueBatch, ReadNumAlgs, GetAlg, Skip, EndLevel,
         EndInit, UpdateGraph, EndBatch, Handle, others
<1>2. CASE ~ \E e \in Exchanges : Handle(e)
  <2>1. state' = state
    BY <1>2 DEF ProcessLoop, DequeueBatch, ReadNumAlgs, GetAlg, Skip, EndLevel, EndInit, UpdateGraph,
                EndBatch, unhandled
  <2> QED BY <1>1, <2>1 DEF ReadyAfter
<1>3. ASSUME NEW e \in Exchanges, Handle(e), NEW b \in Algs, NEW d \in scenario.deps[b],
             state'[b] \in Working \ {"READY_INIT"}, state'[d] = "READY_INIT"
      PROVE  FALSE
  <2>1. /\ srv.cur \in Algs /\ srv.pc = "handle" /\ e.pass = srv.pass /\ e.from = state[srv.cur]
        /\ state'[srv.cur] \in {e.to, "ERROR"} /\ e.to # "READY_INIT" /\ e.from \in Working
        /\ \A c \in Algs : c # srv.cur => state'[c] = state[c]
    BY <1>1, <1>3, WorkingStates DEF Handle, Due, Types, Exchanges, Exchange
  <2>2. state[d] = "READY_INIT"
    BY <1>1, <1>3, <2>1
  <2>3. CASE b # srv.cur \/ state[b] # "READY_INIT"
    <3>1. state[b] \in Working \ {"READY_INIT"}
      BY <1>3, <2>1, <2>3
    <3> QED BY <2>2, <3>1 DEF ReadyAfter
  <2>4. CASE b = srv.cur /\ state[b] = "READY_INIT"
    <3>1. srv.pass = "init"
      BY <2>1, <2>4 DEF Exchanges, Exchange
    <3>2. ~scenario.between
      BY <1>3 DEF Tidy
    <3>3. level[d] < level[b]
      BY <2>4, <3>2 DEF OrderOK, OnceOf, Above
    <3>4. level[b] = srv.level /\ srv.level <= srv.stop_level
      BY <1>1, <2>1, <2>4, CurrentPlace
    <3>5. level[d] \in Nat /\ srv.level \in Nat /\ srv.stop_level \in Nat
      <4>1. d \in Algs /\ level \in [Algs -> Levels]
        BY <1>1, <1>3 DEF Types
      <4>2. level[d] \in Nat
        BY <4>1, SizeIsNat DEF Levels
      <4> QED BY <1>1, <4>2, Sizes
    <3>6. CASE joined[d] = batch
      <4>1. level[d] >= srv.stop_level
        BY <1>1, <2>1, <2>2, <3>1, <3>6 DEF LateOK, AtRest
      <4> QED BY <3>3, <3>4, <3>5, <4>1
    <3>7. CASE ComesTo(d, "init", "none")
      <4>1. level[d] >= srv.level
        BY <1>1, <3>1, <3>7, ComesAbove
      <4> QED BY <3>3, <3>4, <3>5, <4>1
    <3> QED BY <1>1, <2>2, <3>6, <3>7 DEF ReadyOf
  <2> QED BY <2>3, <2>4
<1> QED BY <1>1, <1>2, <1>3 DEF ReadyAfter

\* An algorithm that is ready is taken in its pass.
LEMMA DueWhenReady ==
  /\ srv.pass = "init" /\ state[srv.cur] = "READY_INIT" => Due # {}
  /\ srv.pass = "begin_pre" /\ state[srv.cur] = "READY_PRE" => Due # {}
<1> DEFINE here(f, t) == \E e \in Exchanges : e.pass = f /\ e.from = t
<1>1. here("init", "READY_INIT") /\ here("begin_pre", "READY_PRE")
  BY DEF Exchanges, Exchange
<1> QED BY <1>1 DEF Due

\* The loop goes on within a pass, and not past what is ready for it.
LEMMA KeepsReady ==
  ASSUME ProcInv, Counted, ~AtRest, srv'.pc # "dequeue",
         alg_tree' = alg_tree, batch' = batch, joined' = joined, open' = open, got' = got,
         NEW b \in Algs, ReadyOf(b), state'[b] = state[b],
         srv'.pass = "init" <=> srv.pass = "init",
         srv'.pass \in {"begin_pre", "end_pre"} <=> srv.pass \in {"begin_pre", "end_pre"},
         \/ ReadNumAlgs \/ GetAlg \/ EndLevel \/ srv' = srv
         \/ srv.pc = "handle" /\ srv' = NextIndex /\ (b = srv.cur => Due = {})
  PROVE  ReadyOf(b)'
<1>1. CASE state[b] = "READY_INIT"
  <2>1. CASE joined[b] = batch
    BY <1>1, <2>1 DEF ReadyOf
  <2>2. CASE srv.pass = "init" /\ ComesTo(b, "init", "none")
    <3>1. srv.pc = "handle" /\ srv' = NextIndex /\ (b = srv.cur => Due = {}) => b # srv.cur
      BY <1>1, <2>2, DueWhenReady
    <3>2. ComesTo(b, "init", "none")'
      BY <2>2, <3>1, KeepsComing DEF Kinds
    <3> QED BY <1>1, <2>2, <3>2 DEF ReadyOf, AtRest
  <2> QED BY <1>1, <2>1, <2>2 DEF ReadyOf
<1>2. CASE state[b] = "READY_PRE"
  <2>1. CASE srv.pass \in {"init", "begin_pre", "end_pre"}
    <3>1. ComesTo(b, "begin_pre", "end_pre")
      BY <1>2, <2>1 DEF ReadyOf
    <3>2. /\ srv.pc = "handle" /\ srv' = NextIndex /\ (b = srv.cur => Due = {})
          /\ srv.pass = "begin_pre"
          => b # srv.cur
      BY <1>2, DueWhenReady
    <3>3. ComesTo(b, "begin_pre", "end_pre")'
      BY <3>1, <3>2, KeepsComing DEF Kinds
    <3> QED BY <1>2, <2>1, <3>3 DEF ReadyOf, AtRest
  <2>2. CASE srv.pass \notin {"init", "begin_pre", "end_pre"}
    BY <1>2, <2>2 DEF ReadyOf, Saw
  <2> QED BY <2>1, <2>2
<1>3. CASE state[b] \notin {"READY_INIT", "READY_PRE"}
  BY <1>3 DEF ReadyOf
<1> QED BY <1>1, <1>2, <1>3

LEMMA HandleReady ==
  ASSUME ProcInv, Counted, TreeOK, NEW e \in Exchanges, Handle(e), NEW b \in Algs,
         ReadyOf(b), GotOf(b)
  PROVE  ReadyOf(b)'
<1>1. /\ Types /\ srv.pc = "handle" /\ alg_tree' = alg_tree /\ batch' = batch /\ joined' = joined
      /\ open' = open /\ got' = got
  BY DEF ProcInv, Handle, others, tree_vars, client_vars
<1>2. /\ srv.cur \in Algs /\ e.pass = srv.pass /\ e.from = state[srv.cur]
      /\ srv' = srv \/ srv' = NextIndex
  BY <1>1 DEF Types, Handle, Due
<1>3. /\ \A c \in Algs : c # srv.cur => state'[c] = state[c]
      /\ state'[srv.cur] \in {e.to, "ERROR"}
  BY <1>1, <1>2 DEF Handle, Types
<1>4. srv'.pc \in {"handle", "alg"} /\ srv'.pass = srv.pass
  BY <1>1, <1>2, Moves
<1>5. CASE b # srv.cur
  <2>1. state'[b] = state[b]
    BY <1>3, <1>5
  <2> QED BY <1>1, <1>2, <1>4, <1>5, <2>1, KeepsReady DEF AtRest
<1>6. CASE b = srv.cur
  <2>1. state'[b] = "READY_PRE" =>
          \/ e.pass = "init"
          \/ e.pass = "end_post" /\ e.from = "PERFORMING_POST" /\ e.action = "end_post"
    BY <1>3, <1>6 DEF Exchanges, Exchange
  <2>2. state'[b] # "READY_INIT"
    BY <1>3, <1>6 DEF Exchanges, Exchange
  <2>3. CASE state'[b] = "READY_PRE" /\ e.pass = "init"
    <3>1. \A l, i : Ahead("begin_pre", "end_pre", l, i)'
      BY <1>2, <1>4, <2>3 DEF Ahead
    <3>2. /\ srv.level \in 1 .. Len(alg_tree') /\ srv.index \in 1 .. Len(alg_tree'[srv.level])
          /\ alg_tree'[srv.level][srv.index] = b
      BY <1>1, <1>6, CurrentPlace
    <3>3. ComesTo(b, "begin_pre", "end_pre")'
      BY <3>1, <3>2 DEF ComesTo
    <3> QED BY <1>2, <1>4, <2>3, <3>3 DEF ReadyOf, AtRest
  <2>4. CASE state'[b] = "READY_PRE" /\ e.pass = "end_post"
    <3>1. e.from = "PERFORMING_POST" /\ e.action = "end_post"
      BY <2>1, <2>4
    <3>2. open[b] => call[b] = "end_post"
      BY <1>1, <1>6, <3>1, HandleStep DEF ProcInv, ProcessOf
    <3>3. open[b] => Saw(b)
      BY <1>2, <1>6, <3>1, <3>2 DEF GotOf, Saw
    <3>4. open'[b] => Saw(b)'
      BY <1>1, <3>3 DEF Saw
    <3> QED BY <1>2, <1>4, <2>4, <3>4 DEF ReadyOf, AtRest
  <2>5. CASE state'[b] # "READY_PRE"
    BY <2>2, <2>5 DEF ReadyOf
  <2> QED BY <2>1, <2>3, <2>4, <2>5
<1> QED BY <1>5, <1>6

LEMMA LoopReady ==
  ASSUME ProcInv, Counted, TreeOK, JoinedOK, ProcessLoop, NEW b \in Algs, ReadyOf(b), GotOf(b)
  PROVE  ReadyOf(b)'
<1>1. Types
  BY DEF ProcInv
<1>2. /\ alg_tree' = alg_tree /\ joined' = joined /\ open' = open /\ got' = got
  BY DEF ProcessLoop, DequeueBatch, ReadNumAlgs, GetAlg, Skip, EndLevel, EndInit, UpdateGraph,
         EndBatch, Handle, others, tree_vars, client_vars
<1>3. state[b] # "none" =>
        \E l \in 1 .. Len(alg_tree) : \E i \in 1 .. Len(alg_tree[l]) : alg_tree[l][i] = b
  BY DEF TreeOK, HasPlace
<1>4. CASE \E e \in Exchanges : Handle(e)
  BY <1>4, HandleReady
<1>5. CASE ReadNumAlgs \/ GetAlg \/ Skip
  <2>1. state' = state /\ batch' = batch /\ ~AtRest
    BY <1>5 DEF ReadNumAlgs, GetAlg, Skip, unhandled, AtRest
  <2>2. srv'.pc \in {"alg", "handle"} /\ srv'.pass = srv.pass
    BY <1>1, <1>5, Moves DEF Skip
  <2>3. Skip => srv.pc = "handle" /\ srv' = NextIndex /\ Due = {}
    BY DEF Skip
  <2> QED BY <1>2, <1>5, <2>1, <2>2, <2>3, KeepsReady
<1>6. CASE EndLevel
  <2>1. state' = state /\ batch' = batch /\ ~AtRest
    BY <1>6 DEF EndLevel, unhandled, AtRest
  <2>2. /\ srv'.pc \in {"alg", "level"} /\ (srv'.pass = "init" <=> srv.pass = "init")
        /\ srv'.pass \in {"begin_pre", "end_pre"} <=> srv.pass \in {"begin_pre", "end_pre"}
    BY <1>1, <1>6, Moves
  <2> QED BY <1>2, <1>6, <2>1, <2>2, KeepsReady
<1>7. CASE DequeueBatch
  <2>1. state' = state /\ StartPasses("init")
    BY <1>7 DEF DequeueBatch, unhandled
  <2>2. srv'.pc = "level" /\ srv'.pass = "init"
    BY <1>1, <2>1, Moves, PassNames
  <2>3. state[b] # "none" => ComesTo(b, "init", "none")'
    BY <1>2, <1>3, <2>1, PassStarts, PassNames DEF Kinds
  <2>4. state[b] # "none" => ComesTo(b, "begin_pre", "end_pre")'
    <3>1. \A l, i : Ahead("begin_pre", "end_pre", l, i)'
      BY <2>2 DEF Ahead
    <3> QED BY <1>2, <1>3, <3>1 DEF ComesTo
  <2> QED BY <2>1, <2>2, <2>3, <2>4 DEF ReadyOf, AtRest
<1>8. CASE EndInit
  <2>1. state' = state /\ batch' = batch /\ StartPasses("begin_pre") /\ LastLevelDone("init")
    BY <1>8 DEF EndInit, unhandled
  <2>2. srv'.pc = "level" /\ srv'.pass = "begin_pre"
    BY <1>1, <2>1, Moves, PassNames
  <2>3. state[b] # "none" => ComesTo(b, "begin_pre", "end_pre")'
    BY <1>2, <1>3, <2>1, PassStarts, PassNames DEF Kinds
  <2>4. ~ComesTo(b, "init", "none")
    BY <2>1, NothingComes
  <2> QED BY <1>2, <2>1, <2>2, <2>3, <2>4 DEF ReadyOf, AtRest
<1>9. CASE UpdateGraph
  <2>1. /\ state' = state /\ batch' = batch /\ StartPasses("begin_post")
        /\ LastLevelDone("begin_pre") /\ ~AtRest /\ srv.pass = "begin_pre"
    BY <1>9 DEF UpdateGraph, unhandled, LastLevelDone, AtRest
  <2>2. ~ComesTo(b, "begin_pre", "end_pre")
    BY <2>1, NothingComes
  <2> QED BY <1>2, <2>1, <2>2 DEF ReadyOf
<1>10. CASE EndBatch
  <2>1. /\ state' = state /\ batch' = batch /\ ~AtRest /\ srv.pass = "begin_post"
    BY <1>10 DEF EndBatch, unhandled, LastLevelDone, AtRest
  <2>2. srv'.pc = "dequeue"
    BY <1>1, <1>10, Moves
  <2> QED BY <1>2, <2>1, <2>2 DEF ReadyOf, Saw, AtRest
<1> QED BY <1>4, <1>5, <1>6, <1>7, <1>8, <1>9, <1>10 DEF ProcessLoop

-----------------------------------------------------------------------------
(* Everyone registered is served, in order and up to date.                 *)

RegistryInv ==
  Tidy(scenario) =>
    cut = {} /\ FlatOK /\ LateOK /\ ReadyAfter /\ \A a \in Algs : ReadyOf(a)

LEMMA InitRegistry == Init => RegistryInv
<1> SUFFICES ASSUME Init PROVE RegistryInv
  OBVIOUS
<1>1. cut = {} /\ FlatOK
  BY DEF Init, FlatOK
<1>2. LateOK /\ ReadyAfter /\ \A a \in Algs : ReadyOf(a)
  <2>1. AtRest /\ state = [a \in Algs |-> "none"]
    BY DEF Init, AtRest
  <2>2. "none" \notin Working
    BY WorkingStates
  <2> QED BY <2>1, <2>2 DEF LateOK, ReadyAfter, ReadyOf
<1> QED BY <1>1, <1>2 DEF RegistryInv

LEMMA InductiveRegistry == ServerInv /\ PhaseInv /\ RegistryInv /\ [Next]_vars => RegistryInv'
<1> SUFFICES ASSUME ServerInv, PhaseInv, RegistryInv, [Next]_vars, Tidy(scenario')
             PROVE  RegistryInv'
  BY DEF RegistryInv
<1>1. scenario' = scenario /\ Tidy(scenario) /\ Distinct(scenario) /\ Orderly(scenario)
  <2>1. scenario' = scenario
    BY OuterLeaves, LoopLeaves DEF Next, NoMoreBatches, vars
  <2> QED BY <2>1, TidyIsOrderly DEF Tidy
<1>2. /\ OrderOK /\ Counted /\ cut = {} /\ FlatOK /\ LateOK /\ ReadyAfter
      /\ \A a \in Algs : ReadyOf(a) /\ GotOf(a)
  BY <1>1 DEF RegistryInv, PhaseInv
<1>3. ProcInv /\ Types /\ Ready /\ JoinedOK /\ TreeOK
  BY <1>1, <1>2, LoneMap, TreeFromPlaces DEF ServerInv
<1>4. CASE UNCHANGED vars \/ NoMoreBatches
  <2>1. UNCHANGED vars
    BY <1>4 DEF NoMoreBatches
  <2>2. cut' = {} /\ FlatOK' /\ LateOK' /\ ReadyAfter'
    BY <1>2, <2>1 DEF vars, tree_vars, FlatOK, LateOK, ReadyAfter, AtRest
  <2>3. ASSUME NEW a \in Algs PROVE ReadyOf(a)'
    <3>1. ReadyOf(a)
      BY <1>2
    <3> QED BY <2>1, <3>1 DEF vars, tree_vars, client_vars, ReadyOf, ComesTo, Ahead, Saw, AtRest
  <2> QED BY <2>2, <2>3 DEF RegistryInv
<1>5. ASSUME NEW a \in Algs, Connect(a) \/ Connection(a) \/ Send(a) \/ Receive(a) \/ Crash(a)
      PROVE  RegistryInv'
  <2>1. Outer(a) /\ Types'
    BY <1>1, <1>3, <1>5, LoneSteps, ConnectionTypes, ClientTypes
  <2>2. cut' = {} /\ FlatOK' /\ LateOK' /\ ReadyAfter'
    BY <1>1, <1>2, <1>3, <2>1, OuterTree, OuterLate, OuterReadyAfter
  <2>3. ~AtRest => Grows(alg_tree, alg_tree')
    BY <1>1, <1>2, <1>3, <2>1, TreeGrows
  <2>4. \A b \in Algs : ReadyOf(b)'
    BY <1>2, <1>3, <2>1, <2>3, OuterReady
  <2> QED BY <2>2, <2>4 DEF RegistryInv
<1>6. CASE ProcessLoop
  <2>1. cut' = {} /\ FlatOK' /\ LateOK' /\ ReadyAfter'
    BY <1>1, <1>2, <1>3, <1>6, LoopTree, LoopLate, LoopReadyAfter
  <2>2. \A b \in Algs : ReadyOf(b)'
    BY <1>2, <1>3, <1>6, LoopReady
  <2> QED BY <2>1, <2>2 DEF RegistryInv
<1> QED BY <1>4, <1>5, <1>6 DEF Next

\* The inductive form, in tidy scenarios: nothing is cut off the tree, and
\* whatever is ready for a pass is still ahead of the loop.
THEOREM RegistryInvariant == Spec => []RegistryInv
BY InitRegistry, InductiveRegistry, ServerInvariant, PhaseInvariant, PTL DEF Spec

\* The loop reads nothing beyond the tree.
LEMMA WithinTree ==
  ASSUME Types, Counted
  PROVE  LoopWithinTree
BY Sizes DEF Counted, AtRest, LoopWithinTree

\* For any number of algorithms, whatever names and dependencies they declare
\* and whenever they register: the tree is the registry, but for what was cut
\* off and for contested names; and in every scenario in which no registration
\* cuts or shifts the tree under the loop, what get_num_algs and get_alg told
\* the loop stays true of it, with cuts between batches.
THEOREM RegistryHolds ==
  Spec => []((TypeOK /\ TreeIsRegistry) /\ (Orderly(scenario) => RegistryOK))
<1>1. ASSUME ServerInv, PhaseInv
      PROVE  (TypeOK /\ TreeIsRegistry) /\ (Orderly(scenario) => RegistryOK)
  <2>1. TypeOK /\ TreeIsRegistry
    BY <1>1, PlacesOfTree, TypesOfAll
  <2>2. Orderly(scenario) => LoopWithinTree
    BY <1>1, WithinTree DEF ServerInv, PhaseInv
  <2> QED BY <2>1, <2>2 DEF RegistryOK
<1> QED BY <1>1, ServerInvariant, PhaseInvariant, PTL

\* An algorithm in a phase stands where the loop does.
LEMMA PerformsHere ==
  ASSUME Types, Counted, TreeOK, NEW b, NEW begin, NEW end, PerformsIn(b, begin, end)
  PROVE  level[b] = srv.level /\ srv.pass \in {begin, end} /\ ~AtRest
<1>1. ~AtRest /\ srv.pc \in {"alg", "handle"} /\ srv.pass \in {begin, end}
  BY DEF PerformsIn, AtRest
<1>2. PICK i \in 1 .. srv.stop_index : alg_tree[srv.level][i] = b
  BY DEF PerformsIn
<1>3. srv.level \in 1 .. Len(alg_tree) /\ i \in 1 .. Len(alg_tree[srv.level])
  BY <1>1, Sizes DEF Counted
<1> QED BY <1>1, <1>2, <1>3 DEF TreeOK

\* In the same scenarios, an algorithm computes only when those it depends on
\* have, or are in error ("specified algorithms are guaranteed to complete the
\* preprocessing phase before this algorithm begins preprocessing", against
\* the order in which process_loop_handler goes through the levels).
THEOREM DependenciesFirstHolds == Spec => [](Tidy(scenario) => DependenciesFirst)
<1>1. ASSUME ProcInv, PhaseInv, RegistryInv, Tidy(scenario), TreeOK,
             NEW a \in Algs, NEW d \in scenario.deps[a]
      PROVE  /\ state[a] = "PERFORMING_PRE" => state[d] \in {"READY_POST", "ERROR"}
             /\ state[a] = "PERFORMING_POST" => state[d] \in {"READY_PRE", "ERROR"}
  <2>1. Types /\ OrderOK /\ Counted /\ TreeOK /\ ReadyAfter /\ \A b \in Algs : PhaseOf(b) /\ ReadyOf(b)
    BY <1>1, TidyIsOrderly DEF ProcInv, PhaseInv, RegistryInv
  <2>2. d \in Algs /\ state[d] \in AlgStates /\ level[d] \in Nat /\ level[a] \in Nat
    BY <1>1, <2>1, SizeIsNat DEF Types, ScenarioType, Levels
  <2>3. ~scenario.between
    BY <1>1 DEF Tidy
  <2>4. ASSUME state[a] \in {"PERFORMING_PRE", "PERFORMING_POST"}
        PROVE  /\ level[d] < level[a] /\ state[d] \notin {"none", "READY_INIT"}
    <3>1. Above(a)
      BY <2>1, <2>3, <2>4 DEF OrderOK, OnceOf
    <3>2. state[d] # "READY_INIT"
      BY <1>1, <2>1, <2>4, WorkingStates DEF ReadyAfter
    <3> QED BY <3>1, <3>2 DEF Above
  <2>5. CASE state[a] = "PERFORMING_PRE"
    <3>1. level[a] = srv.level /\ srv.pass \in {"begin_pre", "end_pre"} /\ ~AtRest
      BY <2>1, <2>5, PerformsHere DEF PhaseOf
    <3>2. level[d] < srv.level /\ state[d] \notin {"none", "READY_INIT"}
      BY <2>4, <2>5, <3>1
    <3>3. state[d] # "READY_PRE"
      <4>1. state[d] = "READY_PRE" => ComesTo(d, "begin_pre", "end_pre")
        BY <2>1, <2>2, <3>1 DEF ReadyOf
      <4> QED BY <2>1, <2>2, <3>1, <3>2, <4>1, ComesAbove, Sizes
    <3>4. state[d] \notin {"PERFORMING_INIT", "PERFORMING_PRE", "PERFORMING_POST"}
      <4>1. state[d] # "PERFORMING_INIT"
        BY <2>1, <2>2, <3>1 DEF PhaseOf
      <4>2. state[d] = "PERFORMING_PRE" => level[d] = srv.level
        BY <2>1, <2>2, PerformsHere DEF PhaseOf
      <4>3. state[d] = "PERFORMING_POST" => srv.pass \in {"begin_post", "end_post"}
        BY <2>1, <2>2, PerformsHere DEF PhaseOf
      <4> QED BY <2>1, <2>2, <3>1, <3>2, <4>1, <4>2, <4>3
    <3> QED BY <2>2, <2>5, <3>2, <3>3, <3>4 DEF AlgStates
  <2>6. CASE state[a] = "PERFORMING_POST"
    <3>1. level[a] = srv.level /\ srv.pass \in {"begin_post", "end_post"} /\ ~AtRest
      BY <2>1, <2>6, PerformsHere DEF PhaseOf
    <3>2. level[d] < srv.level /\ state[d] \notin {"none", "READY_INIT"}
      BY <2>4, <2>6, <3>1
    <3>3. state[d] # "READY_POST"
      <4>1. state[d] = "READY_POST" => ComesTo(d, "begin_post", "end_post")
        BY <2>1, <2>2, <3>1 DEF PhaseOf, Waits
      <4> QED BY <2>1, <2>2, <3>1, <3>2, <4>1, ComesAbove, Sizes
    <3>4. state[d] \notin {"PERFORMING_INIT", "PERFORMING_PRE", "PERFORMING_POST"}
      <4>1. state[d] # "PERFORMING_INIT"
        BY <2>1, <2>2, <3>1 DEF PhaseOf
      <4>2. state[d] = "PERFORMING_POST" => level[d] = srv.level
        BY <2>1, <2>2, PerformsHere DEF PhaseOf
      <4>3. state[d] = "PERFORMING_PRE" => srv.pass \in {"begin_pre", "end_pre"}
        BY <2>1, <2>2, PerformsHere DEF PhaseOf
      <4> QED BY <2>1, <2>2, <3>1, <3>2, <4>1, <4>2, <4>3
    <3> QED BY <2>2, <2>6, <3>2, <3>3, <3>4 DEF AlgStates
  <2> QED BY <2>5, <2>6
<1>2. ASSUME ServerInv, PhaseInv, RegistryInv, Tidy(scenario)
      PROVE  DependenciesFirst
  <2> SUFFICES ASSUME NEW a \in Algs, NEW n \in scenario.deps[a]
               PROVE  /\ state[a] = "PERFORMING_PRE" =>
                           alg_map[n] # NoAlg /\ state[alg_map[n]] \in {"READY_POST", "ERROR"}
                      /\ state[a] = "PERFORMING_POST" =>
                           alg_map[n] # NoAlg /\ state[alg_map[n]] \in {"READY_PRE", "ERROR"}
    BY DEF DependenciesFirst
  <2>1. ProcInv /\ n \in Algs /\ n # NoAlg /\ alg_map[n] = IF state[n] = "none" THEN NoAlg ELSE n
    <3>1. ProcInv /\ \A b \in Algs : alg_map[b] = IF state[b] = "none" THEN NoAlg ELSE b
      BY <1>2, LoneMap DEF Tidy
    <3>2. scenario.deps \in [Algs -> SUBSET Algs]
      BY <3>1 DEF ProcInv, Types, ScenarioType
    <3>3. n \in Algs
      BY <3>2
    <3> QED BY <3>1, <3>3, AlgServerAssumption
  <2>2. /\ state[a] = "PERFORMING_PRE" => state[n] \in {"READY_POST", "ERROR"}
        /\ state[a] = "PERFORMING_POST" => state[n] \in {"READY_PRE", "ERROR"}
    <3>1. TreeOK
      BY <1>2, TreeFromPlaces DEF RegistryInv, Tidy
    <3> QED BY <1>1, <1>2, <2>1, <3>1
  <2> QED BY <2>1, <2>2
<1>3. ServerInv /\ PhaseInv /\ RegistryInv => (Tidy(scenario) => DependenciesFirst)
  BY <1>2
<1> QED BY <1>3, ServerInvariant, PhaseInvariant, RegistryInvariant, PTL

\* In the same scenarios, no algorithm that lives misses a batch: between
\* batches each has been through the last one, or joined during it ("Client
\* algorithms will receive these batches of updates in a synchronous manner").
THEOREM EveryBatchSeenHolds == Spec => [](Tidy(scenario) => EveryBatchSeen)
<1>1. ASSUME ProcInv, PhaseInv, RegistryInv, Tidy(scenario), AtRest,
             NEW a \in Algs, state[a] # "none"
      PROVE  /\ state[a] \in {"READY_INIT", "READY_PRE", "ERROR"}
             /\ state[a] = "READY_INIT" => joined[a] = batch
             /\ state[a] = "READY_PRE" =>
                  (open[a] => got[a] = [begin_pre |-> batch, begin_post |-> batch])
  <2>1. Types /\ PhaseOf(a) /\ ReadyOf(a)
    BY <1>1, TidyIsOrderly DEF ProcInv, PhaseInv, RegistryInv
  <2>2. state[a] \notin InPhase
    BY <1>1, <2>1 DEF PhaseOf, PerformsIn, Waits, AtRest, InPhase
  <2>3. state[a] \in {"READY_INIT", "READY_PRE", "ERROR"}
    BY <1>1, <2>1, <2>2 DEF Types, AlgStates, InPhase
  <2>4. Saw(a) => got[a] = [begin_pre |-> batch, begin_post |-> batch]
    BY <2>1 DEF Saw, Types, BeginActions
  <2> QED BY <1>1, <2>1, <2>3, <2>4 DEF ReadyOf
<1>2. ServerInv /\ PhaseInv /\ RegistryInv => (Tidy(scenario) => EveryBatchSeen)
  BY <1>1, LoneMap DEF EveryBatchSeen, Registered, Tidy
<1> QED BY <1>2, ServerInvariant, PhaseInvariant, RegistryInvariant, PTL
=============================================================================
