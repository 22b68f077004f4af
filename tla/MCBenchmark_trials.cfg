SPECIFICATION Spec
CONSTANTS
  Workloads <- WideWorkloads
  Algs <- TwoAlgs
  SortModes = {"unsorted", "presort", "snapshot"}
  NumTrials = 2
  NumAlgTrials = 2
INVARIANTS EpochsOK AlgsSeePrefix SameDataEachAlgTrial
