SPECIFICATION FairSpec
CONSTANTS
  j1 = j1
  j2 = j2
  s1 = s1
  s2 = s2
  Jobs <- TwoJobs
  Streams <- OneStream
  Slots <- OneSlot
  SlotOf <- OneSlotOf
  MaxLines = 2
  Buffer = 1
  Capacity = 1
  Overlap = FALSE
  CancelAt <- AnyTime
  Faults = 1
  Crashes = 1
INVARIANTS  RowOwned
PROPERTIES StreamsKeepPromise StreamsEnd SlotsComeBack
CHECK_DEADLOCK FALSE
