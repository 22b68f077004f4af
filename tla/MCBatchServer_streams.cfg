SPECIFICATION FairSpec
CONSTANTS
  Streams = {s1, s2}
  STINGER_MAX_BATCHES = 1
  Messages = 2
  NoOne = NoOne
INVARIANTS QueueOK InStreamOrder
PROPERTY EveryBatchHandled
CHECK_DEADLOCK FALSE
