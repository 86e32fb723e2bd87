SPECIFICATION Spec
CONSTANTS
  phone = phone
  laptop = laptop
  r1 = r1
  r2 = r2
  s1 = s1
  s2 = s2
  None = None
  Names <- TwoNames
  Requests <- TwoRequests
  Slots <- TwoSlots
  MaxKeys = 3
  MaxMishaps = 2
  
PROPERTY LoneSyncMirrors
SYMMETRY Symmetry
CHECK_DEADLOCK FALSE
