SPECIFICATION FairSpec
CONSTANTS
  Threads = {t1, t2}
  Vertices = {0, 1, 2, 3, 4, 5}
  EBSize = 2
  Cases <- AllCases
INVARIANTS ListsOK AddsUp NewEdgesReported
PROPERTY Terminates
CHECK_DEADLOCK FALSE
