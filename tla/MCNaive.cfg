SPECIFICATION NaiveFairSpec
CONSTANTS
  n1 = n1
  n2 = n2
  r1 = r1
  r2 = r2
  Nil = Nil
  Nodes <- TwoNodes
  Requests <- TwoRequests
  Vers <- TwoVers
  Ports <- OnePort
  MaxRestarts = 2
  MaxOps = 3
  MaxMishaps = 1
 
PROPERTY ComesToRest
CHECK_DEADLOCK FALSE
