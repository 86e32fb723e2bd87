SPECIFICATION FairSpec
CONSTANTS
  o1 = o1
  o2 = o2
  o3 = o3
  x1 = x1
  x2 = x2
  x3 = x3
  x4 = x4
  Ops <- TwoCalls
  Runs <- ThreeRuns
  Kinds <- AllKinds
  Confs <- AllConfs
  Crashes = 1
  Faults = 1
  LoadFaults = 0
  Deadlines = 1
  EofFirst = FALSE
  EarlyChecks = FALSE
INVARIANTS TypeOK  KillSwitchHolds PeaceRepairs
 
CHECK_DEADLOCK FALSE
