SPECIFICATION FairSpec
CONSTANTS
  Threads = {t1, t2}
  Vertices = {0, 1, 2}
  Ops <- MixedOps
  OpsPerThread = 2
  EBSize = 2
  MaxBlocks = 2
  InitContents <- SomeContents
  OldWords <- Left
  INT64_MIN <- MinStamp
  INT64_MAX <- MaxStamp
  MARKER = MARKER
PROPERTIES ImplementsAtomic Returns
