SPECIFICATION Spec
CONSTANTS
  Vertices = {0, 1, 2}
  Datasets <- SixEdges
  BatchSize = 2
  Windows = {0, 1, 2, 4}
  ThreadCounts = {1, 2}
  SortModes = {"UNSORTED", "SNAPSHOT"}
INVARIANTS BatchesOK NoStaleEdge MatchesReference SnapshotLoads
PROPERTY RecordedDeletionsHappen
