SPECIFICATION FairSpec
CONSTANTS
  r1 = r1
  r2 = r2
  Chains = {1, 2}
  Chs = {1, 2}
  Clients = {1}
  Workers <- Two
  DriftCheck = TRUE
  Limits <- MCThree
INVARIANT NothingStray ClientsLive
PROPERTIES LoneChangeServesAll StatusFollows
CHECK_DEADLOCK FALSE
