CONSTANTS
  i1 = i1
  i2 = i2
  q1 = q1
  q2 = q2
  None = None
  Slots <- TwoSlots
  Requests <- OneRequest
  Moved = 2222
  Asked <- NewPort
  MaxKeys = 2
  MaxMishaps = 2
SPECIFICATION Spec
SYMMETRY Symmetry
INVARIANTS DeployedWorks NothingLeftBehind
