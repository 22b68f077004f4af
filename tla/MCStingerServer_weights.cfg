SPECIFICATION Spec
CONSTANTS
  Vertices = {0, 1, 2}
  Datasets <- SixEdges
  BatchSize = 2
  Windows = {4}
  ThreadCounts = {1}
  SortModes = {"SNAPSHOT"}
INVARIANT LoadsEveryWeight
