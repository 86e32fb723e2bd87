SPECIFICATION FairSpec
CONSTANTS
  Nodes = {1, 2, 3}
  Circles = {1}
  Lists <- MCPairs
  Mode <- MCMode
  Budget = {1}
  KnownBad = {}
  FailoverOn = TRUE
  FailoverList <- MCFailoverList
  Threshold = 1
  Ops = {o1}
  SlowApi = FALSE
  RefusesUnloaded = TRUE
  Limits <- MCTwo
INVARIANTS OneRotation 
PROPERTIES  LeavesDead
CHECK_DEADLOCK FALSE
