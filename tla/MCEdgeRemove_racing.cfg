SPECIFICATION FairSpec
CONSTANTS
  Threads = {t1, t2, t3}
  Vertices = {0, 1, 2}
  Ops <- RacingOps
  RemovalsPerThread = 1
  Graphs <- RacingGraphs
INVARIANTS CountsOK EndsAgree
PROPERTIES ImplementsAtomicRemoval Returns
