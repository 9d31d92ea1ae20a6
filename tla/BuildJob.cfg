SPECIFICATION FairSpec
CONSTANTS
  none = none
  Null = none
  Worker = {w1, w2}
  Commit = {c1}
  MaxBuild = 2
  File <- MCFile
  PipelineName <- MCPipelineName
  HostDir = TRUE
  BasicAuth = FALSE
  MaxFaults = 2
INVARIANTS
  RefsWhole
PROPERTIES
  Reaped
CHECK_DEADLOCK FALSE
