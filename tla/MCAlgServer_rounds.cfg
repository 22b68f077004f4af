SPECIFICATION Spec
CONSTANTS
  a1 = a1
  a2 = a2
  a3 = a3
  Algs = {a1, a2, a3}
  NoAlg = NoAlg
  NumBatches = 2
  Scenarios <- RoundScenarios
INVARIANTS RegistryOK ComputesOnStaticGraph
INVARIANTS DependenciesFirst OnlyTheDeadFail EveryBatchSeen
PROPERTY BatchFinishes
