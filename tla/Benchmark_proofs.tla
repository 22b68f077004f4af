-------------------------- MODULE Benchmark_proofs --------------------------
(***************************************************************************)
(* Theorems about Benchmark for any numbers of batches, epochs, trials and *)
(* algorithms: what an algorithm sees of the graph, the data it starts     *)
(* from, and that no trial has more epochs than were asked for.            *)
(***************************************************************************)
EXTENDS Benchmark, FiniteSetTheorems, TLAPS

-----------------------------------------------------------------------------
(* The epochs due.  Whichever exact quotients the doubles miss, the number *)
(* of epochs due never falls and never exceeds the number asked for.       *)

LEMMA Division ==
  ASSUME NEW x \in Nat, NEW b \in Nat \ {0}
  PROVE  /\ x \div b \in Nat /\ x % b \in Nat
         /\ x = b * (x \div b) + (x % b) /\ x % b < b
OBVIOUS

LEMMA DueInt ==
  ASSUME NEW n \in Nat, NEW batches \in Nat \ {0}, NEW epochs \in Nat \ {0}
  PROVE  /\ (n * epochs) \div batches \in Nat
         /\ EpochsDue(n, batches, epochs) \in Nat
         /\ EpochsDue(n, batches, epochs) <= (n * epochs) \div batches
         /\ EpochsDue(n, batches, epochs) >= (n * epochs) \div batches - 1
         /\ (n * epochs) % batches # 0 =>
              EpochsDue(n, batches, epochs) = (n * epochs) \div batches
<1>1. n * epochs \in Nat
  OBVIOUS
<1>2. (n * epochs) \div batches \in Nat
  BY <1>1, Division
<1> QED BY <1>2 DEF EpochsDue

LEMMA Monotone ==
  ASSUME NEW x \in Nat, NEW y \in Nat, NEW b \in Nat \ {0}, x < y
  PROVE  /\ x \div b <= y \div b
         /\ y % b = 0 => x \div b <= y \div b - 1
<1>1. /\ x \div b \in Nat /\ x % b \in Nat /\ y \div b \in Nat /\ y % b \in Nat
      /\ x = b * (x \div b) + (x % b) /\ x % b < b
      /\ y = b * (y \div b) + (y % b) /\ y % b < b
  BY Division
<1>2. \A p, q, r, s \in Nat : b * p + r < b * q + s /\ r < b /\ s < b =>
        /\ p <= q
        /\ s = 0 => p <= q - 1
  <2> SUFFICES ASSUME NEW p \in Nat, NEW q \in Nat, NEW r \in Nat, NEW s \in Nat,
                      b * p + r < b * q + s, r < b, s < b
               PROVE  p <= q /\ (s = 0 => p <= q - 1)
    OBVIOUS
  <2>1. CASE p >= q + 1
    <3>1. PICK d \in Nat : p = q + 1 + d
      <4>1. p - q - 1 \in Nat /\ p = q + 1 + (p - q - 1)
        BY <2>1
      <4> QED BY <4>1
    <3>2. b * p = b * q + b + b * d /\ b * d \in Nat /\ b * q \in Nat
      BY <3>1
    <3> QED BY <3>2
  <2>2. CASE p = q
    <3>1. b * p \in Nat
      OBVIOUS
    <3> QED BY <2>2, <3>1
  <2> QED BY <2>1, <2>2
<1> QED BY <1>1, <1>2

LEMMA DueRises ==
  ASSUME NEW n \in Nat, NEW batches \in Nat \ {0}, NEW epochs \in Nat \ {0}
  PROVE  EpochsDue(n, batches, epochs) <= EpochsDue(n + 1, batches, epochs)
<1> DEFINE x == n * epochs
           y == (n + 1) * epochs
<1>1. x \in Nat /\ y \in Nat /\ x < y
  <2>1. y = x + epochs /\ x \in Nat
    OBVIOUS
  <2> QED BY <2>1
<1>2. /\ x \div batches <= y \div batches
      /\ y % batches = 0 => x \div batches <= y \div batches - 1
  BY <1>1, Monotone
<1>3. /\ x \div batches \in Nat /\ y \div batches \in Nat
      /\ EpochsDue(n, batches, epochs) \in Nat /\ EpochsDue(n + 1, batches, epochs) \in Nat
      /\ EpochsDue(n, batches, epochs) <= x \div batches
      /\ EpochsDue(n + 1, batches, epochs) >= y \div batches - 1
      /\ y % batches # 0 => EpochsDue(n + 1, batches, epochs) = y \div batches
  <2>1. n + 1 \in Nat
    OBVIOUS
  <2> QED BY <2>1, DueInt
<1> HIDE DEF x, y
<1> QED BY <1>2, <1>3

LEMMA DueUpTo ==
  ASSUME NEW batches \in Nat \ {0}, NEW epochs \in Nat \ {0}, NEW n \in Nat, n <= batches
  PROVE  EpochsDue(n, batches, epochs) <= epochs
<1> DEFINE x == n * epochs
<1>1. x \in Nat /\ batches * epochs \in Nat /\ x <= batches * epochs
  <2>1. PICK m \in Nat : batches = n + m
    <3>1. batches - n \in Nat /\ batches = n + (batches - n)
      OBVIOUS
    <3> QED BY <3>1
  <2>2. batches * epochs = n * epochs + m * epochs /\ m * epochs \in Nat /\ n * epochs \in Nat
    BY <2>1
  <2> QED BY <2>2
<1>2. x \div batches \in Nat /\ x % batches \in Nat /\ x = batches * (x \div batches) + (x % batches)
  BY <1>1, Division
<1>3. x \div batches <= epochs
  <2> SUFFICES ASSUME x \div batches >= epochs + 1 PROVE FALSE
    BY <1>2
  <2>1. PICK d \in Nat : x \div batches = epochs + 1 + d
    <3>1. (x \div batches) - epochs - 1 \in Nat
      BY <1>2
    <3> QED BY <1>2, <3>1
  <2>2. batches * (x \div batches) = batches * epochs + batches + batches * d /\ batches * d \in Nat
    BY <2>1
  <2> QED BY <1>1, <1>2, <2>2
<1>4. EpochsDue(n, batches, epochs) <= x \div batches /\ EpochsDue(n, batches, epochs) \in Nat
  BY DueInt
<1> HIDE DEF x
<1> QED BY <1>2, <1>3, <1>4

-----------------------------------------------------------------------------
(* Where the epochs lie.  Epoch i is due after n batches when n * epochs   *)
(* has reached i * batches, or one batch later if that quotient is missed; *)
(* and none is missed when the epochs divide the batches.                  *)

LEMMA Smaller ==
  ASSUME NEW b \in Nat \ {0}, NEW p \in Int, NEW q \in Int, b * p < b * q
  PROVE  p < q
<1> SUFFICES ASSUME p >= q PROVE FALSE
  OBVIOUS
<1>1. PICK d \in Nat : p = q + d
  <2>1. p - q \in Nat /\ p = q + (p - q)
    OBVIOUS
  <2> QED BY <2>1
<1>2. b * p = b * q + b * d /\ b * d \in Nat /\ b * q \in Int
  BY <1>1
<1> QED BY <1>2

LEMMA Divides ==
  ASSUME NEW b \in Nat, NEW e \in Nat \ {0}, NEW m \in Int, b = e * m
  PROVE  b % e = 0
<1>1. /\ b \div e \in Nat /\ b % e \in Nat
      /\ b = e * (b \div e) + (b % e) /\ b % e < e
  BY Division
<1> DEFINE q == b \div e
           r == b % e
<1>2. e * q <= e * m /\ e * m < e * q + e
  BY <1>1
<1>3. e * m < e * (q + 1)
  BY <1>1, <1>2
<1>4. m < q + 1
  BY <1>1, <1>3, Smaller
<1>5. e * q < e * (m + 1)
  BY <1>1, <1>2
<1>6. q < m + 1
  BY <1>1, <1>5, Smaller
<1>7. q = m
  BY <1>1, <1>4, <1>6
<1> QED BY <1>1, <1>7

\* After d * batches, and up to the next multiple; at the next one only if
\* the quotient was rounded.
LEMMA DueRange ==
  ASSUME NEW n \in Nat, NEW batches \in Nat \ {0}, NEW epochs \in Nat \ {0}
  PROVE  /\ EpochsDue(n, batches, epochs) \in Nat
         /\ batches * EpochsDue(n, batches, epochs) <= n * epochs
         /\ n * epochs <= batches * (EpochsDue(n, batches, epochs) + 1)
         /\ n * epochs = batches * (EpochsDue(n, batches, epochs) + 1) => batches % epochs # 0
<1> DEFINE x == n * epochs
           k == x \div batches
           d == EpochsDue(n, batches, epochs)
<1>1. x \in Nat /\ k \in Nat /\ x % batches \in Nat /\ x = batches * k + (x % batches) /\ x % batches < batches
  <2>1. x \in Nat
    OBVIOUS
  <2> QED BY <2>1, Division
<1>2. d \in Nat
  BY DueInt
<1>3. \/ d = k
      \/ d = k - 1 /\ x % batches = 0 /\ batches % epochs # 0
  BY DEF EpochsDue, RoundedUp
<1> HIDE DEF x, k, d
<1>4. CASE d = k
  <2>1. batches * (d + 1) = batches * k + batches
    BY <1>1, <1>4
  <2>2. batches * d <= x /\ x < batches * (d + 1)
    BY <1>1, <1>4, <2>1
  <2>3. batches * (d + 1) \in Int
    BY <1>2
  <2> QED BY <1>1, <1>2, <2>2, <2>3 DEF x, d
<1>5. CASE d = k - 1 /\ x % batches = 0 /\ batches % epochs # 0
  <2>1. batches * d = batches * k - batches /\ batches * (d + 1) = batches * k
    BY <1>1, <1>2, <1>5
  <2>2. x = batches * k
    BY <1>1, <1>5
  <2> QED BY <1>1, <1>2, <1>5, <2>1, <2>2 DEF x, d
<1> QED BY <1>3, <1>4, <1>5

\* Between two batches at most one more epoch becomes due.
LEMMA DueByOne ==
  ASSUME NEW n \in Nat, NEW batches \in Nat \ {0}, NEW epochs \in Nat \ {0}, epochs <= batches
  PROVE  EpochsDue(n + 1, batches, epochs) <= EpochsDue(n, batches, epochs) + 1
<1> DEFINE x == n * epochs
           y == (n + 1) * epochs
           d == EpochsDue(n, batches, epochs)
           d2 == EpochsDue(n + 1, batches, epochs)
<1>1. n + 1 \in Nat
  OBVIOUS
<1>2. /\ d \in Nat /\ x <= batches * (d + 1)
      /\ x = batches * (d + 1) => batches % epochs # 0
  BY DueRange
<1>3. d2 \in Nat /\ batches * d2 <= y
  BY <1>1, DueRange
<1>4. x \in Nat /\ y = x + epochs
  OBVIOUS
<1> HIDE DEF x, y, d, d2
<1>5. SUFFICES ASSUME d2 >= d + 2 PROVE FALSE
  BY <1>2, <1>3 DEF d, d2
<1>6. PICK m \in Nat : d2 = d + 2 + m
  <2>1. d2 - d - 2 \in Nat /\ d2 = d + 2 + (d2 - d - 2)
    BY <1>2, <1>3, <1>5
  <2> QED BY <2>1
<1>7. /\ batches * d2 = batches * (d + 1) + batches + batches * m
      /\ batches * m \in Nat /\ batches * (d + 1) \in Nat
  BY <1>2, <1>6
<1>8. batches <= epochs /\ x = batches * (d + 1)
  BY <1>2, <1>3, <1>4, <1>7
<1>9. batches = epochs * 1
  BY <1>8
<1>10. batches % epochs = 0
  BY <1>9, Divides
<1> QED BY <1>2, <1>8, <1>10

\* The batch after which epoch i is due, numbered from 0; -1 stands for the
\* epoch before the first.
After(n, i, batches, epochs) ==
  /\ batches * i - epochs <= n * epochs /\ n * epochs <= batches * i
  /\ n * epochs = batches * i => batches % epochs # 0

LEMMA AfterDue ==
  ASSUME NEW n \in Nat, NEW i \in Nat, NEW batches \in Nat \ {0}, NEW epochs \in Nat \ {0},
         EpochsDue(n, batches, epochs) = i - 1, EpochsDue(n + 1, batches, epochs) = i
  PROVE  After(n, i, batches, epochs)
<1>1. n + 1 \in Nat /\ n * epochs \in Nat /\ (n + 1) * epochs = n * epochs + epochs
  OBVIOUS
<1>2. batches * i <= (n + 1) * epochs
  BY <1>1, DueRange
<1>3. n * epochs <= batches * i /\ (n * epochs = batches * i => batches % epochs # 0)
  <2>1. (i - 1) + 1 = i
    OBVIOUS
  <2> QED BY <2>1, DueRange
<1>4. batches * i \in Nat
  OBVIOUS
<1> QED BY <1>1, <1>2, <1>3, <1>4 DEF After

LEMMA Gap ==
  ASSUME NEW a \in Int, NEW b \in Int, NEW i \in Nat,
         NEW batches \in Nat \ {0}, NEW epochs \in Nat \ {0},
         After(a, i, batches, epochs), After(b, i + 1, batches, epochs)
  PROVE  /\ batches \div epochs <= b - a
         /\ b - a <= (batches + epochs - 1) \div epochs
<1> DEFINE x == a * epochs
           y == b * epochs
           g == b - a
           q == batches \div epochs
           c == (batches + epochs - 1) \div epochs
<1>1. /\ x \in Int /\ y \in Int /\ g \in Int
      /\ epochs * g = y - x /\ batches * (i + 1) = batches * i + batches /\ batches * i \in Int
  OBVIOUS
<1>2. /\ batches * i - epochs <= x /\ x <= batches * i
      /\ x = batches * i => batches % epochs # 0
      /\ batches * (i + 1) - epochs <= y /\ y <= batches * (i + 1)
      /\ y = batches * (i + 1) => batches % epochs # 0
  BY DEF After
<1>3. q \in Nat /\ batches % epochs \in Nat /\ batches = epochs * q + (batches % epochs)
  BY Division
<1>4. /\ c \in Nat /\ (batches + epochs - 1) % epochs \in Nat
      /\ batches + epochs - 1 = epochs * c + ((batches + epochs - 1) % epochs)
      /\ (batches + epochs - 1) % epochs < epochs
  <2>1. batches + epochs - 1 \in Nat
    OBVIOUS
  <2> QED BY <2>1, Division
<1> HIDE DEF x, y, g, q, c
<1>5. epochs * g >= batches - epochs /\ epochs * g <= batches + epochs
  BY <1>1, <1>2
<1>6. epochs * g # batches - epochs
  <2> SUFFICES ASSUME epochs * g = batches - epochs PROVE FALSE
    OBVIOUS
  <2>1. x = batches * i
    BY <1>1, <1>2
  <2>2. g + 1 \in Int /\ batches = epochs * (g + 1)
    BY <1>1
  <2> QED BY <1>2, <2>1, <2>2, Divides
<1>7. epochs * g # batches + epochs
  <2> SUFFICES ASSUME epochs * g = batches + epochs PROVE FALSE
    OBVIOUS
  <2>1. y = batches * (i + 1)
    BY <1>1, <1>2
  <2>2. g - 1 \in Int /\ batches = epochs * (g - 1)
    BY <1>1
  <2> QED BY <1>2, <2>1, <2>2, Divides
<1>8. q <= g
  <2>1. epochs * q < epochs * (g + 1)
    BY <1>1, <1>3, <1>5, <1>6
  <2> QED BY <1>1, <1>3, <2>1, Smaller
<1>9. g <= c
  <2>1. epochs * g \in Int /\ epochs * c \in Int /\ epochs * (c + 1) = epochs * c + epochs
    BY <1>1, <1>4
  <2>2. epochs * g <= batches + epochs - 1
    BY <1>5, <1>7, <2>1
  <2>3. epochs * g < epochs * (c + 1)
    BY <1>4, <2>1, <2>2
  <2> QED BY <1>1, <1>4, <2>3, Smaller
<1> QED BY <1>8, <1>9 DEF g, q, c

\* After the last batch every epoch is due, if none is missed.
LEMMA DueAll ==
  ASSUME NEW batches \in Nat \ {0}, NEW epochs \in Nat \ {0}, batches % epochs = 0
  PROVE  EpochsDue(batches, batches, epochs) = epochs
<1> DEFINE d == EpochsDue(batches, batches, epochs)
<1>1. /\ d \in Nat /\ batches * d <= batches * epochs
      /\ batches * epochs <= batches * (d + 1)
      /\ batches * epochs # batches * (d + 1)
  BY DueRange
<1> HIDE DEF d
<1>2. batches * epochs < batches * (d + 1) /\ batches * d < batches * (epochs + 1)
  BY <1>1
<1>3. epochs < d + 1 /\ d < epochs + 1
  BY <1>1, <1>2, Smaller
<1>4. d = epochs
  BY <1>1, <1>3
<1> QED BY <1>4 DEF d

-----------------------------------------------------------------------------
(* The inductive invariant.                                                *)

AlgNames == {Algs[i] : i \in DOMAIN Algs}

Due(n) == EpochsDue(n, workload.batches, workload.epochs)

\* Where the trial, the batch and the epoch are when the algorithms run.
ControlOK ==
  /\ workload \in Workloads /\ sort_mode \in SortModes
  /\ trial \in 0 .. NumTrials /\ (pc # "trial" => trial < NumTrials)
  /\ batch_id \in 0 .. workload.batches
  /\ epoch \in 0 .. workload.epochs /\ (pc # "trial" => epoch <= Due(batch_id))
  /\ alg_trial \in 0 .. NumAlgTrials
  /\ alg \in 1 .. Len(Algs) + 1
  /\ pc \in {"trial", "batch", "alg_trial", "alg"}
  /\ pc \in {"alg_trial", "alg"} => batch_id < workload.batches /\ Enabled
  /\ pc = "alg" => alg_trial < NumAlgTrials
  /\ ran \in Seq(0 .. workload.batches - 1)

\* run_dynamic has all batches so far at every moment, run_static when an epoch
\* follows.
GraphOK ==
  /\ graph \in Nat
  /\ pc = "batch" /\ sort_mode = "unsorted" => graph = batch_id
  /\ pc \in {"alg_trial", "alg"} => graph = batch_id + 1

\* The data of the last epoch is at hand whenever the algorithms start.
DataOK ==
  /\ current_epoch_data \in [AlgNames -> Seq(Nat)]
  /\ last_epoch_data \in [AlgNames -> Seq(Nat)]
  /\ pc \in {"trial", "batch"} \/ (pc = "alg_trial" /\ alg_trial = 0) =>
       current_epoch_data = last_epoch_data
  /\ SameDataEachAlgTrial

BenchInv == ControlOK /\ GraphOK /\ DataOK

\* The epochs made are those due, and each came after the batch that made it due.
EpochInv ==
  /\ pc # "trial" => epoch = Due(batch_id) /\ Len(ran) = epoch
  /\ \A i \in DOMAIN ran : Due(ran[i]) = i - 1 /\ Due(ran[i] + 1) = i

LEMMA WorkloadTypes ==
  ASSUME ControlOK
  PROVE  /\ workload.batches \in Nat \ {0} /\ workload.epochs \in Nat \ {0}
         /\ workload.epochs <= workload.batches
         /\ NumTrials \in Nat \ {0} /\ NumAlgTrials \in Nat \ {0}
         /\ Len(Algs) \in Nat /\ DOMAIN Algs = 1 .. Len(Algs)
BY BenchmarkAssumption DEF ControlOK

(* The runs of a name in an algorithm trial.                               *)

LEMMA RunsFinite ==
  ASSUME alg \in Nat \ {0}, NEW a PROVE IsFiniteSet(RunsOf(a)) /\ Cardinality(RunsOf(a)) \in Nat
<1>1. IsFiniteSet(1 .. alg - 1)
  BY FS_Interval
<1>2. IsFiniteSet(RunsOf(a))
  BY <1>1, FS_Subset DEF RunsOf
<1> QED BY <1>2, FS_CardinalityType

\* One more for the name that runs, none for the others.
LEMMA RunsNext ==
  ASSUME alg \in Nat \ {0}, alg' = alg + 1, NEW a
  PROVE  Cardinality(RunsOf(a)') =
           IF Algs[alg] = a THEN Cardinality(RunsOf(a)) + 1 ELSE Cardinality(RunsOf(a))
<1>1. CASE Algs[alg] = a
  <2>1. RunsOf(a)' = RunsOf(a) \cup {alg} /\ alg \notin RunsOf(a)
    BY <1>1 DEF RunsOf
  <2> QED BY <1>1, <2>1, RunsFinite, FS_AddElement
<1>2. CASE Algs[alg] # a
  <2>1. RunsOf(a)' = RunsOf(a)
    BY <1>2 DEF RunsOf
  <2> QED BY <1>2, <2>1
<1> QED BY <1>1, <1>2

LEMMA InitBench == Init => BenchInv
<1> SUFFICES ASSUME Init PROVE BenchInv
  OBVIOUS
<1>1. /\ workload.batches \in Nat \ {0} /\ workload.epochs \in Nat \ {0}
      /\ NumTrials \in Nat \ {0} /\ NumAlgTrials \in Nat \ {0} /\ Len(Algs) \in Nat
  BY BenchmarkAssumption DEF Init
<1>2. ControlOK
  BY <1>1 DEF Init, ControlOK
<1>3. GraphOK
  BY DEF Init, GraphOK
<1>4. DataOK
  BY DEF Init, DataOK, NoData, AlgNames, SameDataEachAlgTrial
<1> QED BY <1>2, <1>3, <1>4 DEF BenchInv

LEMMA StartTrialBench == ASSUME BenchInv, StartTrial PROVE BenchInv'
<1>1. ControlOK /\ GraphOK /\ DataOK
  BY DEF BenchInv
<1>2. ControlOK'
  <2>1. CASE sort_mode = "presort"
    BY <1>1, <2>1, WorkloadTypes DEF StartTrial, ControlOK, args
  <2>2. CASE sort_mode # "presort"
    <3>1. EpochsDue(0, workload.batches, workload.epochs) \in Nat
      BY <1>1, WorkloadTypes, DueInt
    <3> QED BY <1>1, <2>2, <3>1, WorkloadTypes DEF StartTrial, ControlOK, args, Due
  <2> QED BY <2>1, <2>2
<1>3. GraphOK'
  BY <1>1 DEF StartTrial, GraphOK, args
<1>4. DataOK'
  BY <1>1 DEF StartTrial, DataOK, data, SameDataEachAlgTrial
<1> QED BY <1>2, <1>3, <1>4 DEF BenchInv

LEMMA LoadBatchBench == ASSUME BenchInv, LoadBatch PROVE BenchInv'
<1>1. ControlOK /\ GraphOK /\ DataOK
  BY DEF BenchInv
<1>2. ControlOK'
  <2>1. CASE Enabled
    BY <1>1, <2>1, WorkloadTypes DEF LoadBatch, ControlOK, args, Due, Enabled
  <2>2. CASE ~Enabled
    <3>1. batch_id + 1 \in Nat /\ batch_id \in Nat /\ epoch \in Nat
      BY <1>1, WorkloadTypes DEF ControlOK
    <3>2. /\ Due(batch_id) <= Due(batch_id + 1)
          /\ Due(batch_id) \in Nat /\ Due(batch_id + 1) \in Nat
      BY <1>1, <3>1, WorkloadTypes, DueInt, DueRises DEF Due
    <3>3. epoch <= Due(batch_id + 1)
      BY <1>1, <3>1, <3>2 DEF ControlOK, LoadBatch
    <3> QED BY <1>1, <2>2, <3>3, WorkloadTypes DEF LoadBatch, ControlOK, args, Due
  <2> QED BY <2>1, <2>2
<1>3. GraphOK'
  BY <1>1, WorkloadTypes DEF LoadBatch, ControlOK, GraphOK, args
<1>4. DataOK'
  BY <1>1 DEF LoadBatch, DataOK, data, SameDataEachAlgTrial
<1> QED BY <1>2, <1>3, <1>4 DEF BenchInv

LEMMA StartAlgTrialBench == ASSUME BenchInv, StartAlgTrial PROVE BenchInv'
<1>1. ControlOK /\ GraphOK /\ DataOK
  BY DEF BenchInv
<1>2. ControlOK'
  BY <1>1, WorkloadTypes DEF StartAlgTrial, ControlOK, args, Due, Enabled
<1>3. GraphOK'
  BY <1>1 DEF StartAlgTrial, GraphOK, args
<1>4. current_epoch_data' = last_epoch_data /\ last_epoch_data' = last_epoch_data
  BY <1>1 DEF StartAlgTrial, DataOK
<1>5. SameDataEachAlgTrial'
  <2>1. \A a : Cardinality(RunsOf(a)') = 0
    <3>1. alg' = 1
      BY DEF StartAlgTrial
    <3>2. \A a : RunsOf(a)' = {}
      BY <3>1 DEF RunsOf
    <3> QED BY <3>2, FS_EmptySet
  <2>2. ASSUME NEW a \in AlgNames
        PROVE  /\ Len(current_epoch_data'[a]) = Len(last_epoch_data'[a])
               /\ Len(last_epoch_data'[a]) \in Nat
               /\ DOMAIN current_epoch_data'[a] = 1 .. Len(last_epoch_data'[a])
               /\ \A k \in DOMAIN current_epoch_data'[a] :
                    current_epoch_data'[a][k] = last_epoch_data'[a][k]
    BY <1>1, <1>4 DEF DataOK
  <2> QED BY <2>1, <2>2 DEF SameDataEachAlgTrial, NoData, AlgNames
<1>6. DataOK'
  BY <1>1, <1>4, <1>5 DEF StartAlgTrial, DataOK
<1> QED BY <1>2, <1>3, <1>6 DEF BenchInv

LEMMA RunAlgBench == ASSUME BenchInv, RunAlg PROVE BenchInv'
<1>1. ControlOK /\ GraphOK /\ DataOK
  BY DEF BenchInv
<1>2. ControlOK'
  BY <1>1, WorkloadTypes DEF RunAlg, ControlOK, args, Due, Enabled
<1>3. GraphOK'
  BY <1>1 DEF RunAlg, GraphOK, args
<1>4. alg \in DOMAIN Algs /\ Algs[alg] \in AlgNames /\ epoch \in Nat
  BY <1>1, WorkloadTypes DEF RunAlg, ControlOK, AlgNames
<1>5. current_epoch_data' \in [AlgNames -> Seq(Nat)]
  BY <1>1, <1>4 DEF RunAlg, DataOK
<1>6. ASSUME NEW a \in AlgNames
      PROVE  /\ Len(current_epoch_data'[a]) = Len(last_epoch_data[a]) + Cardinality(RunsOf(a)')
             /\ \A k \in DOMAIN current_epoch_data'[a] :
                  current_epoch_data'[a][k] =
                    IF k <= Len(last_epoch_data[a]) THEN last_epoch_data[a][k] ELSE epoch
  <2>1. /\ current_epoch_data[a] \in Seq(Nat) /\ last_epoch_data[a] \in Seq(Nat)
        /\ Len(current_epoch_data[a]) = Len(last_epoch_data[a]) + Cardinality(RunsOf(a))
        /\ \A k \in DOMAIN current_epoch_data[a] :
             current_epoch_data[a][k] =
               IF k <= Len(last_epoch_data[a]) THEN last_epoch_data[a][k] ELSE epoch
    BY <1>1 DEF DataOK, SameDataEachAlgTrial, RunAlg, NoData, AlgNames
  <2>2. /\ Cardinality(RunsOf(a)) \in Nat
        /\ Cardinality(RunsOf(a)') = IF Algs[alg] = a THEN Cardinality(RunsOf(a)) + 1
                                     ELSE Cardinality(RunsOf(a))
    BY <1>4, WorkloadTypes, <1>1, RunsFinite, RunsNext DEF RunAlg
  <2>3. CASE Algs[alg] # a
    <3>1. current_epoch_data'[a] = current_epoch_data[a]
      BY <1>1, <2>3 DEF RunAlg, DataOK
    <3> QED BY <2>1, <2>2, <2>3, <3>1
  <2>4. CASE Algs[alg] = a
    <3>1. current_epoch_data'[a] = Append(current_epoch_data[a], epoch)
      BY <1>1, <2>4 DEF RunAlg, DataOK
    <3>2. /\ Len(current_epoch_data'[a]) = Len(current_epoch_data[a]) + 1
          /\ DOMAIN current_epoch_data'[a] = 1 .. Len(current_epoch_data[a]) + 1
          /\ \A k \in 1 .. Len(current_epoch_data[a]) :
               current_epoch_data'[a][k] = current_epoch_data[a][k]
          /\ current_epoch_data'[a][Len(current_epoch_data[a]) + 1] = epoch
      BY <1>4, <2>1, <3>1
    <3>3. /\ DOMAIN current_epoch_data[a] = 1 .. Len(current_epoch_data[a])
          /\ Len(current_epoch_data[a]) \in Nat /\ Len(last_epoch_data[a]) \in Nat
      BY <2>1
    <3>4. Len(current_epoch_data'[a]) = Len(last_epoch_data[a]) + Cardinality(RunsOf(a)')
      <4>1. PICK n \in Nat : n = Cardinality(RunsOf(a))
        BY <2>2
      <4>2. PICK l \in Nat, m \in Nat : l = Len(current_epoch_data[a]) /\ m = Len(last_epoch_data[a])
        BY <3>3
      <4>3. l = m + n
        BY <2>1, <4>1, <4>2
      <4>4. Cardinality(RunsOf(a)') = n + 1
        BY <2>2, <2>4, <4>1
      <4>5. Len(current_epoch_data'[a]) = l + 1
        BY <3>2, <4>2
      <4>6. l + 1 = m + (n + 1)
        BY <4>3
      <4> QED BY <4>2, <4>4, <4>5, <4>6
    <3>5. ASSUME NEW k \in DOMAIN current_epoch_data'[a]
          PROVE  current_epoch_data'[a][k] =
                   IF k <= Len(last_epoch_data[a]) THEN last_epoch_data[a][k] ELSE epoch
      <4>1. CASE k \in 1 .. Len(current_epoch_data[a])
        BY <2>1, <3>2, <3>3, <4>1
      <4>2. CASE k = Len(current_epoch_data[a]) + 1
        BY <2>1, <2>2, <3>2, <3>3, <4>2
      <4> QED BY <3>2, <3>3, <4>1, <4>2
    <3> QED BY <3>4, <3>5
  <2> QED BY <2>3, <2>4
<1>7. DataOK'
  <2>1. last_epoch_data' = last_epoch_data /\ epoch' = epoch /\ pc' = pc /\ pc = "alg"
    BY DEF RunAlg
  <2>2. SameDataEachAlgTrial'
    BY <1>6, <2>1 DEF SameDataEachAlgTrial, NoData, AlgNames
  <2> QED BY <1>1, <1>5, <2>1, <2>2 DEF DataOK
<1> QED BY <1>2, <1>3, <1>7 DEF BenchInv

LEMMA EndAlgTrialBench == ASSUME BenchInv, EndAlgTrial PROVE BenchInv'
<1>1. ControlOK /\ GraphOK /\ DataOK
  BY DEF BenchInv
<1>2. ControlOK'
  BY <1>1, WorkloadTypes DEF EndAlgTrial, ControlOK, args, Due, Enabled
<1>3. GraphOK'
  BY <1>1 DEF EndAlgTrial, GraphOK, args
<1>4. alg_trial' # 0
  BY <1>1, WorkloadTypes DEF EndAlgTrial, ControlOK
<1>5. DataOK'
  BY <1>1, <1>4 DEF EndAlgTrial, DataOK, data, SameDataEachAlgTrial
<1> QED BY <1>2, <1>3, <1>5 DEF BenchInv

LEMMA EndEpochBench == ASSUME BenchInv, EndEpoch PROVE BenchInv'
<1>1. ControlOK /\ GraphOK /\ DataOK
  BY DEF BenchInv
<1>2. /\ batch_id \in Nat /\ batch_id + 1 \in Nat /\ epoch \in Nat
      /\ batch_id < workload.batches /\ epoch <= Due(batch_id) /\ Enabled
  BY <1>1, WorkloadTypes DEF ControlOK, EndEpoch
<1>3. Due(batch_id) \in Nat /\ Due(batch_id + 1) \in Nat /\ Due(batch_id) < Due(batch_id + 1)
  BY <1>1, <1>2, WorkloadTypes, DueInt DEF Due, Enabled, enable_algs_for_batch
<1>4. epoch + 1 <= Due(batch_id + 1)
  BY <1>2, <1>3
<1>5. Due(batch_id + 1) <= workload.epochs
  BY <1>1, <1>2, DueUpTo, WorkloadTypes DEF Due
<1>6. ran' \in Seq(0 .. workload.batches - 1)
  BY <1>1, <1>2, WorkloadTypes DEF EndEpoch, ControlOK
<1>7. ControlOK'
  BY <1>1, <1>2, <1>3, <1>4, <1>5, <1>6, WorkloadTypes, SMTT(40) DEF EndEpoch, ControlOK, args, Due
<1>8. GraphOK'
  BY <1>1, <1>2 DEF EndEpoch, GraphOK, args
<1>9. DataOK'
  BY <1>1 DEF EndEpoch, DataOK, SameDataEachAlgTrial
<1> QED BY <1>7, <1>8, <1>9 DEF BenchInv

LEMMA EndTrialBench == ASSUME BenchInv, EndTrial PROVE BenchInv'
<1>1. ControlOK /\ GraphOK /\ DataOK
  BY DEF BenchInv
<1>2. ControlOK'
  BY <1>1, WorkloadTypes DEF EndTrial, ControlOK, args
<1>3. GraphOK' /\ DataOK'
  BY <1>1 DEF EndTrial, GraphOK, DataOK, args, data, SameDataEachAlgTrial
<1> QED BY <1>2, <1>3 DEF BenchInv

LEMMA NextBench == BenchInv /\ [Next]_vars => BenchInv'
<1> SUFFICES ASSUME BenchInv, [Next]_vars PROVE BenchInv'
  OBVIOUS
<1>1. CASE UNCHANGED vars
  <2>1. \A a : RunsOf(a)' = RunsOf(a)
    BY <1>1 DEF vars, RunsOf
  <2> QED BY <1>1, <2>1 DEF vars, BenchInv, ControlOK, GraphOK, DataOK, SameDataEachAlgTrial, Due, Enabled
<1> QED BY <1>1, StartTrialBench, LoadBatchBench, StartAlgTrialBench, RunAlgBench,
        EndAlgTrialBench, EndEpochBench, EndTrialBench DEF Next, Done

LEMMA DueStep ==
  ASSUME ControlOK, batch_id < workload.batches
  PROVE  /\ batch_id \in Nat /\ batch_id + 1 \in Nat
         /\ Due(batch_id) \in Nat /\ Due(batch_id + 1) \in Nat
         /\ Enabled => Due(batch_id + 1) = Due(batch_id) + 1
         /\ ~Enabled => Due(batch_id + 1) = Due(batch_id)
<1>1. batch_id \in Nat /\ batch_id + 1 \in Nat
  BY WorkloadTypes DEF ControlOK
<1>2. Due(batch_id) \in Nat /\ Due(batch_id + 1) \in Nat
  BY <1>1, WorkloadTypes, DueInt DEF Due
<1>3. Due(batch_id) <= Due(batch_id + 1) /\ Due(batch_id + 1) <= Due(batch_id) + 1
  BY <1>1, WorkloadTypes, DueRises, DueByOne DEF Due
<1>4. Enabled <=> Due(batch_id + 1) > Due(batch_id)
  BY DEF Enabled, enable_algs_for_batch, Due
<1> QED BY <1>1, <1>2, <1>3, <1>4

LEMMA DueZero == ASSUME ControlOK PROVE Due(0) = 0
<1>1. /\ EpochsDue(0, workload.batches, workload.epochs) \in Nat
      /\ workload.batches * EpochsDue(0, workload.batches, workload.epochs) <= 0 * workload.epochs
  BY WorkloadTypes, DueRange
<1>2. \A b \in Nat \ {0} : \A d \in Nat : b * d <= 0 => d = 0
  <2> SUFFICES ASSUME NEW b \in Nat \ {0}, NEW d \in Nat, b * d <= 0, d # 0 PROVE FALSE
    OBVIOUS
  <2>1. PICK c \in Nat : d = c + 1
    <3>1. d - 1 \in Nat /\ d = (d - 1) + 1
      OBVIOUS
    <3> QED BY <3>1
  <2>2. b * d = b * c + b /\ b * c \in Nat
    BY <2>1
  <2> QED BY <2>2
<1>3. 0 * workload.epochs = 0
  BY WorkloadTypes
<1> QED BY <1>1, <1>2, <1>3, WorkloadTypes DEF Due

LEMMA InitEpochs == Init => EpochInv
BY DEF Init, EpochInv

LEMMA NextEpochs == BenchInv /\ EpochInv /\ [Next]_vars => EpochInv'
<1> SUFFICES ASSUME BenchInv, EpochInv, [Next]_vars PROVE EpochInv'
  OBVIOUS
<1>1. ControlOK /\ ControlOK'
  BY NextBench DEF BenchInv
<1>2. CASE StartTrial
  <2>1. CASE pc' = "batch"
    <3>1. batch_id' = 0 /\ epoch' = 0 /\ ran' = <<>> /\ workload' = workload
      BY <1>2, <2>1 DEF StartTrial, args
    <3>2. Due(batch_id)' = 0
      BY <1>1, <3>1, DueZero DEF Due
    <3> QED BY <3>1, <3>2 DEF EpochInv
  <2>2. CASE pc' # "batch"
    <3>1. pc' = "trial" /\ ran' = ran /\ workload' = workload
      BY <1>2, <2>2 DEF StartTrial, args
    <3> QED BY <3>1 DEF EpochInv, Due
  <2> QED BY <2>1, <2>2
<1>3. CASE LoadBatch
  <2>1. /\ pc = "batch" /\ batch_id < workload.batches /\ workload' = workload
        /\ ran' = ran /\ epoch' = epoch
        /\ Enabled => batch_id' = batch_id
        /\ ~Enabled => batch_id' = batch_id + 1
    BY <1>3 DEF LoadBatch, args
  <2>2. Due(batch_id)' = Due(batch_id)
    BY <1>1, <2>1, DueStep DEF Due
  <2>3. epoch = Due(batch_id) /\ Len(ran) = epoch
    BY <2>1 DEF EpochInv
  <2>4. \A i \in DOMAIN ran : Due(ran[i])' = Due(ran'[i]) /\ Due(ran[i] + 1)' = Due(ran'[i] + 1)
    BY <2>1 DEF Due
  <2> QED BY <2>1, <2>2, <2>3, <2>4 DEF EpochInv, Due
<1>4. CASE EndEpoch
  <2>1. /\ pc = "alg_trial" /\ workload' = workload
        /\ ran' = Append(ran, batch_id) /\ epoch' = epoch + 1 /\ batch_id' = batch_id + 1
    BY <1>4 DEF EndEpoch, args
  <2>2. batch_id < workload.batches /\ Enabled
    BY <1>1, <2>1 DEF ControlOK
  <2>3. epoch = Due(batch_id) /\ Len(ran) = epoch /\ epoch \in Nat
    BY <1>1, <2>1, WorkloadTypes DEF EpochInv, ControlOK
  <2>4. /\ Due(batch_id + 1) = epoch + 1
        /\ \A n : Due(n)' = EpochsDue(n', workload.batches, workload.epochs)
    BY <1>1, <2>1, <2>2, <2>3, DueStep DEF Due
  <2>5. ran \in Seq(0 .. workload.batches - 1)
    BY <1>1 DEF ControlOK
  <2>6. /\ Len(ran') = epoch + 1 /\ DOMAIN ran' = 1 .. epoch + 1
        /\ \A i \in 1 .. epoch : ran'[i] = ran[i] /\ i \in DOMAIN ran
        /\ ran'[epoch + 1] = batch_id
    <3>1. ASSUME NEW A, NEW q \in Seq(A), NEW x \in A
          PROVE  /\ Len(Append(q, x)) = Len(q) + 1
                 /\ \A i \in 1 .. Len(q) : Append(q, x)[i] = q[i] /\ i \in DOMAIN q
                 /\ Append(q, x)[Len(q) + 1] = x
                 /\ DOMAIN Append(q, x) = 1 .. Len(q) + 1
      OBVIOUS
    <3>2. batch_id \in 0 .. workload.batches - 1
      <4>1. batch_id \in 0 .. workload.batches /\ workload.batches \in Nat
        BY <1>1, WorkloadTypes DEF ControlOK
      <4> QED BY <2>2, <4>1
    <3>3. /\ Len(ran') = Len(ran) + 1
          /\ \A i \in 1 .. Len(ran) : ran'[i] = ran[i] /\ i \in DOMAIN ran
          /\ ran'[Len(ran) + 1] = batch_id
          /\ DOMAIN ran' = 1 .. Len(ran) + 1
      BY <2>1, <2>5, <3>1, <3>2
    <3> QED BY <2>3, <3>3
  <2>7. epoch' = Due(batch_id)'
    BY <2>1, <2>4 DEF Due
  <2>8. ASSUME NEW i \in DOMAIN ran'
        PROVE  Due(ran'[i]) = i - 1 /\ Due(ran'[i] + 1) = i
    <3>1. CASE i \in 1 .. epoch
      BY <2>6, <3>1 DEF EpochInv
    <3>2. CASE i = epoch + 1
      BY <2>3, <2>4, <2>6, <3>2
    <3> QED BY <2>3, <2>6, <3>1, <3>2
  <2> QED BY <2>1, <2>6, <2>7, <2>8 DEF EpochInv, Due
<1>5. CASE StartAlgTrial \/ RunAlg \/ EndAlgTrial \/ Done \/ UNCHANGED vars
  <2>1. /\ workload' = workload /\ ran' = ran /\ epoch' = epoch /\ batch_id' = batch_id
        /\ pc' # "trial" => pc # "trial"
    BY <1>5 DEF StartAlgTrial, RunAlg, EndAlgTrial, Done, vars, args
  <2> QED BY <2>1 DEF EpochInv, Due
<1>6. CASE EndTrial
  BY <1>6 DEF EndTrial, EpochInv, Due, args
<1> QED BY <1>2, <1>3, <1>4, <1>5, <1>6 DEF Next

-----------------------------------------------------------------------------
(* The theorems.                                                           *)

\* The driver's state between any two statements: the graph holds the batches up
\* to the present one, the algorithms' data is that of the last epoch when they
\* start, and the epochs made are at most the epochs due (run_dynamic,
\* run_static).
THEOREM BenchInvariant == Spec => []BenchInv
BY InitBench, NextBench, PTL DEF Spec

\* An algorithm sees exactly the batches up to the present one, in both modes
\* and in every trial (run_dynamic, run_static).
THEOREM AlgsSeePrefixHolds == Spec => []AlgsSeePrefix
<1>1. BenchInv => AlgsSeePrefix
  BY DEF BenchInv, GraphOK, AlgsSeePrefix
<1> QED BY <1>1, BenchInvariant, PTL

\* Every trial of an algorithm in an epoch starts from the same data, those of
\* the last epoch (AlgDataManager::rollback and next_epoch).
THEOREM SameDataHolds == Spec => []SameDataEachAlgTrial
<1>1. BenchInv => SameDataEachAlgTrial
  BY DEF BenchInv, DataOK
<1> QED BY <1>1, BenchInvariant, PTL

\* Types, and with them the assertion epoch <= num_epochs of the loops of
\* run_dynamic and run_static: whichever quotients enable_algs_for_batch rounds
\* the wrong way, a trial has no more epochs than were asked for.
THEOREM TypeCorrect == Spec => []TypeOK
<1>1. BenchInv => TypeOK
  BY DEF BenchInv, ControlOK, GraphOK, DataOK, TypeOK, NoData, AlgNames
<1> QED BY <1>1, BenchInvariant, PTL

\* Where the epochs of a trial are, at any moment: the number made is the number
\* due, and each followed the batch that made it due (enable_algs_for_batch).
THEOREM EpochInvariant == Spec => []EpochInv
BY BenchInvariant, InitEpochs, NextEpochs, PTL DEF Spec

\* The epochs are evenly spaced: between two of them lie batches / epochs
\* batches, rounded down or up, and a trial has all that were asked for if their
\* number divides that of the batches; for any numbers of both and whichever
\* quotients enable_algs_for_batch rounds the wrong way.
THEOREM EpochsOKHolds == Spec => []EpochsOK
<1>1. BenchInv /\ EpochInv => EvenlySpaced
  <2> SUFFICES ASSUME BenchInv, EpochInv PROVE EvenlySpaced
    OBVIOUS
  <2> DEFINE batches == workload.batches
             epochs == workload.epochs
  <2>1. ControlOK /\ batches \in Nat \ {0} /\ epochs \in Nat \ {0}
    BY WorkloadTypes DEF BenchInv
  <2>2. DOMAIN ran = 1 .. Len(ran) /\ Len(ran) \in Nat /\ \A i \in DOMAIN ran : ran[i] \in Nat
    BY <2>1 DEF ControlOK
  <2>3. \A i \in DOMAIN ran : After(ran[i], i, batches, epochs)
    BY <2>1, <2>2, AfterDue DEF EpochInv, Due
  <2>4. After(-1, 0, batches, epochs)
    <3>1. batches * 0 = 0 /\ (-1) * epochs = -epochs
      BY <2>1
    <3> QED BY <2>1, <3>1 DEF After
  <2> HIDE DEF batches, epochs
  <2>5. ASSUME NEW i \in DOMAIN ran, NEW a \in Int, After(a, i - 1, batches, epochs)
        PROVE  batches \div epochs <= ran[i] - a /\ ran[i] - a <= (batches + epochs - 1) \div epochs
    <3>1. i - 1 \in Nat /\ (i - 1) + 1 = i /\ ran[i] \in Int
      BY <2>2
    <3> QED BY <2>1, <2>3, <2>5, <3>1, Gap
  <2>6. ASSUME NEW i \in DOMAIN ran
        PROVE  LET a == IF i = 1 THEN -1 ELSE ran[i - 1] IN
               a \in Int /\ After(a, i - 1, batches, epochs)
    <3>1. CASE i = 1
      BY <2>4, <3>1
    <3>2. CASE i # 1
      <4>1. i - 1 \in DOMAIN ran
        BY <2>2, <3>2
      <4> QED BY <2>2, <2>3, <3>2, <4>1
    <3> QED BY <3>1, <3>2
  <2>7. \A i \in DOMAIN ran :
          LET gap == ran[i] - (IF i = 1 THEN -1 ELSE ran[i - 1]) IN
          batches \div epochs <= gap /\ gap <= (batches + epochs - 1) \div epochs
    BY <2>5, <2>6
  <2> QED BY <2>7 DEF EvenlySpaced, batches, epochs
<1>2. BenchInv /\ EpochInv => DivisorComplete
  <2> SUFFICES ASSUME BenchInv, EpochInv, pc = "batch", batch_id = workload.batches,
                      workload.batches % workload.epochs = 0
               PROVE  epoch = workload.epochs
    BY DEF DivisorComplete
  <2>1. workload.batches \in Nat \ {0} /\ workload.epochs \in Nat \ {0}
    BY WorkloadTypes DEF BenchInv
  <2> QED BY <2>1, DueAll DEF EpochInv, Due
<1> QED BY <1>1, <1>2, TypeCorrect, BenchInvariant, EpochInvariant, PTL DEF EpochsOK
=============================================================================
