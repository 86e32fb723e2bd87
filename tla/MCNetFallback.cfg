CONSTANTS
  None = None
  Self = "self"
  Hosts <- OnlyDebian
  Lease <- Router
  Gateways <- Addresses
  NameServers <- Resolvers
  Requests <- Bodies
  Fallbacks <- TwoFallbacks
  MaxTime = 2
  MaxBackups = 2
  MaxMishaps = 0
SPECIFICATION Spec
PROPERTY FallbacksPresent
CHECK_DEADLOCK FALSE
