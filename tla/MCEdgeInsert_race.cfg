SPECIFICATION Spec
CONSTANTS
  Threads = {t1, t2, t3}
  Vertices = {0, 1, 2, 3}
  Ops <- RaceOps
  OpsPerThread = 1
  EBSize = 2
  MaxBlocks = 2
  InitContents <- AllContents
  OldWords <- Left
  INT64_MIN <- MinStamp
  INT64_MAX <- MaxStamp
  MARKER = MARKER
SYMMETRY ThreadSymmetry
INVARIANTS TypeOK UniqueNeighbor SlotLock ConsistentAtRest
PROPERTY OnlyAdds
