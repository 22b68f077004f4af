------------------------------ MODULE Benchmark ------------------------------
(***************************************************************************)
(* The driver of the benchmark, benchmark.h: trials, each over the batches *)
(* of the dataset; after some batches, one epoch of graph algorithms, each *)
(* run num_alg_trials times; and the data the algorithms carry from epoch  *)
(* to epoch (alg_data_manager.cc).                                         *)
(*                                                                         *)
(* The graph is the number of batches loaded into it (StingerServer models *)
(* what is in it), the data of an algorithm the sequence of epochs that    *)
(* have been computed into it.  The data are looked up by name, so equal   *)
(* names in the list share them.                                           *)
(***************************************************************************)
EXTENDS Integers, Sequences, FiniteSets

CONSTANTS Workloads,    \* numbers of batches and epochs a run may have
          Algs,         \* alg_names, in their order; a name may be there twice
          SortModes,    \* sort modes a run may have
          NumTrials, NumAlgTrials

\* What EdgeListDataset and Args::validate check.  Nothing checks alg_names.
ASSUME BenchmarkAssumption ==
  /\ Workloads \subseteq [batches : Nat \ {0}, epochs : Nat \ {0}]
  /\ \A w \in Workloads : w.epochs <= w.batches
  /\ Algs \in Seq(STRING)
  /\ SortModes \subseteq {"unsorted", "presort", "snapshot"}
  /\ NumTrials \in Nat \ {0} /\ NumAlgTrials \in Nat \ {0}

VARIABLES
  workload, sort_mode,   \* the arguments
  trial, batch_id, epoch, alg_trial,
  alg,                   \* the position in alg_names
  pc,
  graph,                 \* how many batches the graph holds
  current_epoch_data, last_epoch_data,
  ran                    \* the batches of this trial that an epoch followed

vars == <<workload, sort_mode, trial, batch_id, epoch, alg_trial, alg, pc,
          graph, current_epoch_data, last_epoch_data, ran>>

args == <<workload, sort_mode>>
data == <<current_epoch_data, last_epoch_data>>

-----------------------------------------------------------------------------
(* enable_algs_for_batch computes with doubles.  batches_per_epoch is the  *)
(* quotient batches / epochs rounded to 53 bits, and the number of epochs  *)
(* due after n batches is the floor of n / batches_per_epoch, rounded too. *)
(* With n and batches far below 2^53 the floor is that of the exact        *)
(* quotient n * epochs / batches unless that is a whole number k, which is *)
(* missed when batches_per_epoch was rounded up by so much that            *)
(* n / batches_per_epoch is nearer to the double before k than to k.       *)

Log2(n) == CHOOSE k \in 0 .. 30 : 2 ^ k <= n /\ n < 2 ^ (k + 1)

\* 2^i modulo m, for exponents beyond the integers TLC has.
Pow2Mod(i, m) ==
  LET pow[j \in 0 .. i] == IF j = 0 THEN 1 % m ELSE (2 * pow[j - 1]) % m
  IN  pow[i]

\* The last bit of batches / epochs has the weight 2^(Log2(...) - 52); this is
\* what is left of the quotient below it, in units of 1 / epochs.
Remainder(batches, epochs) ==
  (batches * Pow2Mod(52 - Log2(batches \div epochs), epochs)) % epochs

\* A whole quotient is not rounded at all.
RoundedUp(batches, epochs) ==
  batches % epochs # 0 /\ 2 * Remainder(batches, epochs) > epochs

\* k \div (1 + error) rounds to k: the error moves it by at most half the
\* distance to the double before k, which is halved at a power of two.
RoundsBack(k, batches, epochs) ==
  LET error == epochs - Remainder(batches, epochs)
      bits == Log2(k)
      gap == IF k = 2 ^ bits THEN 2 ^ bits ELSE 2 ^ (bits + 1) IN
  k * error * 2 ^ (Log2(batches \div epochs) + 2) <= batches * gap

\* round_down(true_div(n, batches_per_epoch))
EpochsDue(n, batches, epochs) ==
  LET k == (n * epochs) \div batches
      whole == (n * epochs) % batches = 0 IN
  IF k > 0 /\ whole /\ RoundedUp(batches, epochs) /\ ~RoundsBack(k, batches, epochs)
  THEN k - 1 ELSE k

\* Mutant: the epochs due are rounded up.
EnableEarly(b, batches, epochs) ==
  LET up(n) == (n * epochs + batches - 1) \div batches IN up(b + 1) > up(b)

enable_algs_for_batch(b, batches, epochs) ==
  EpochsDue(b + 1, batches, epochs) > EpochsDue(b, batches, epochs)

Enabled == enable_algs_for_batch(batch_id, workload.batches, workload.epochs)
-----------------------------------------------------------------------------
NoData == [a \in {Algs[i] : i \in DOMAIN Algs} |-> <<>>]

Init ==
  /\ workload \in Workloads /\ sort_mode \in SortModes
  /\ trial = 0 /\ batch_id = 0 /\ epoch = 0 /\ alg_trial = 0 /\ alg = 1
  /\ pc = "trial"
  /\ graph = 0
  /\ current_epoch_data = NoData /\ last_epoch_data = NoData
  /\ ran = <<>>

\* Mutant: the graph of the last trial is used again.
StartTrialKeep ==
  /\ pc = "trial" /\ trial < NumTrials
  /\ IF sort_mode = "presort"
     THEN /\ trial' = trial + 1
          /\ UNCHANGED <<batch_id, epoch, pc, graph, ran>>
     ELSE /\ batch_id' = 0 /\ epoch' = 0 /\ ran' = <<>>
          /\ pc' = "batch"
          /\ UNCHANGED <<trial, graph>>
  /\ UNCHANGED <<args, alg_trial, alg, data>>

\* run: a trial of run_dynamic begins with an empty graph, one of run_static
\* without a graph, and there is none for the mode presort.
StartTrial ==
  /\ pc = "trial" /\ trial < NumTrials
  /\ IF sort_mode = "presort"
     THEN /\ trial' = trial + 1
          /\ UNCHANGED <<batch_id, epoch, pc, graph, ran>>
     ELSE /\ batch_id' = 0 /\ epoch' = 0 /\ graph' = 0 /\ ran' = <<>>
          /\ pc' = "batch"
          /\ UNCHANGED trial
  /\ UNCHANGED <<args, alg_trial, alg, data>>

\* run_dynamic: the batch is inserted into the graph, run_static: the graph is
\* made from all batches so far if an epoch follows.
LoadBatch ==
  /\ pc = "batch" /\ batch_id < workload.batches
  /\ graph' = IF sort_mode = "unsorted" THEN graph + 1
              ELSE IF Enabled THEN batch_id + 1 ELSE graph
  /\ IF Enabled
     THEN pc' = "alg_trial" /\ alg_trial' = 0 /\ UNCHANGED batch_id
     ELSE batch_id' = batch_id + 1 /\ UNCHANGED <<pc, alg_trial>>
  /\ UNCHANGED <<args, trial, epoch, alg, data, ran>>

\* Mutant: the trials of an epoch continue each other.
StartAlgTrialOn ==
  /\ pc = "alg_trial" /\ alg_trial < NumAlgTrials
  /\ alg' = 1 /\ pc' = "alg"
  /\ UNCHANGED <<args, trial, batch_id, epoch, alg_trial, graph, data, ran>>

\* "When we do multiple trials, algs should start with the same data": rollback.
StartAlgTrial ==
  /\ pc = "alg_trial" /\ alg_trial < NumAlgTrials
  /\ current_epoch_data' = IF alg_trial # 0 THEN last_epoch_data ELSE current_epoch_data
  /\ alg' = 1 /\ pc' = "alg"
  /\ UNCHANGED <<args, trial, batch_id, epoch, alg_trial, graph, last_epoch_data, ran>>

\* update_alg computes this epoch into the data of the algorithm.
RunAlg ==
  /\ pc = "alg" /\ alg <= Len(Algs)
  /\ current_epoch_data' = [current_epoch_data EXCEPT ![Algs[alg]] = Append(@, epoch)]
  /\ alg' = alg + 1
  /\ UNCHANGED <<args, trial, batch_id, epoch, alg_trial, pc, graph, last_epoch_data, ran>>

EndAlgTrial ==
  /\ pc = "alg" /\ alg > Len(Algs)
  /\ alg_trial' = alg_trial + 1 /\ pc' = "alg_trial"
  /\ UNCHANGED <<args, trial, batch_id, epoch, alg, graph, data, ran>>

\* next_epoch; run_static deletes the graph.
EndEpoch ==
  /\ pc = "alg_trial" /\ alg_trial = NumAlgTrials
  /\ last_epoch_data' = current_epoch_data
  /\ epoch' = epoch + 1
  /\ ran' = Append(ran, batch_id)
  /\ batch_id' = batch_id + 1
  /\ graph' = IF sort_mode = "snapshot" THEN 0 ELSE graph
  /\ pc' = "batch"
  /\ UNCHANGED <<args, trial, alg_trial, alg, current_epoch_data>>

EndTrial ==
  /\ pc = "batch" /\ batch_id = workload.batches
  /\ trial' = trial + 1
  /\ pc' = "trial"
  /\ UNCHANGED <<args, batch_id, epoch, alg_trial, alg, graph, data, ran>>

Done == pc = "trial" /\ trial = NumTrials /\ UNCHANGED vars

Next == StartTrial \/ LoadBatch \/ StartAlgTrial \/ RunAlg \/ EndAlgTrial
        \/ EndEpoch \/ EndTrial \/ Done

Spec == Init /\ [][Next]_vars
-----------------------------------------------------------------------------
(* Properties.                                                             *)

\* Every variable has its type, and no trial has more epochs than were asked
\* for (the assertion in the loop of run_dynamic and run_static).
TypeOK ==
  /\ workload \in Workloads /\ sort_mode \in SortModes
  /\ trial \in 0 .. NumTrials
  /\ batch_id \in 0 .. workload.batches
  /\ epoch \in 0 .. workload.epochs
  /\ alg_trial \in 0 .. NumAlgTrials
  /\ alg \in 1 .. Len(Algs) + 1
  /\ pc \in {"trial", "batch", "alg_trial", "alg"}
  /\ graph \in Nat
  /\ \A a \in DOMAIN NoData : current_epoch_data[a] \in Seq(Nat) /\ last_epoch_data[a] \in Seq(Nat)
  /\ ran \in Seq(0 .. workload.batches - 1)

\* "At several evenly-spaced points": between two epochs, and before the first,
\* lie batches / epochs batches, rounded down or up, whatever the rounding of
\* the doubles does.
EvenlySpaced ==
  \A i \in DOMAIN ran :
    LET gap == ran[i] - (IF i = 1 THEN -1 ELSE ran[i - 1])
        batches == workload.batches
        epochs == workload.epochs IN
    batches \div epochs <= gap /\ gap <= (batches + epochs - 1) \div epochs

\* In both modes an algorithm sees exactly the batches up to the present one,
\* in every trial.
AlgsSeePrefix == pc = "alg" => graph = batch_id + 1

\* The positions at which this algorithm trial has run a.
RunsOf(a) == {i \in 1 .. alg - 1 : Algs[i] = a}

\* Every algorithm trial of an epoch starts from the data the last epoch left,
\* however many trials went before: what an algorithm finds is that, followed by
\* what its name has computed in this very trial, which is nothing if the name
\* stands in the list once.
SameDataEachAlgTrial ==
  pc = "alg" => \A a \in DOMAIN NoData :
    LET before == last_epoch_data[a]
        now == current_epoch_data[a] IN
    /\ Len(now) = Len(before) + Cardinality(RunsOf(a))
    /\ \A k \in DOMAIN now : now[k] = IF k <= Len(before) THEN before[k] ELSE epoch

\* The assertion at the end of run_dynamic and run_static, and what the test
\* DontSkipAnyEpochs expects: a trial has the epochs that were asked for.  They
\* do when the epochs divide the batches, whatever the rounding.
DivisorComplete ==
  pc = "batch" /\ batch_id = workload.batches /\ workload.batches % workload.epochs = 0
    => epoch = workload.epochs

\* The type invariant, with no more epochs than asked; and they are where they
\* were asked for.
EpochsOK == TypeOK /\ EvenlySpaced /\ DivisorComplete
=============================================================================
