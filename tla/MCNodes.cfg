SPECIFICATION StoreSpec
CONSTANTS
  Ids <- MCIds
  Servers <- MCServers
  Served <- MCServed
  WireGuard <- MCGone
  Groups <- One
  CircleIds <- One
  Sets <- One
  MaxDepth = 8
  MaxRules = 2
  Memberships <- MCMembers
  Bundles <- MCBundles
  Worlds <- MCWorlds
INVARIANTS  DialsFollowRows
PROPERTIES LoneDeletesCleanUp RefreshKeepsServers RefreshReachesXray
CHECK_DEADLOCK FALSE
