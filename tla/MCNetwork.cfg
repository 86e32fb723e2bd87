CONSTANTS
  None = None
  Self = "self"
  Hosts <- AllHosts
  Lease <- Router
  Gateways <- Addresses
  NameServers <- Resolvers
  Requests <- Bodies
  Fallbacks <- OneFallback
  MaxTime = 1
  MaxBackups = 1
  MaxMishaps = 1
SPECIFICATION Spec
INVARIANTS AppliedStands
 

