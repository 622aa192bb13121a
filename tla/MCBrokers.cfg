SPECIFICATION FairSpec
CONSTANTS
  s1 = s1
  s2 = s2
  Subs = {s1, s2}
  MaxId = 2
  BufferSize = 1
  MaxHeld = 1
  MaxFaults = 2
  Prefetch = 1
  Droppable = {s2}
  Crashable = {s2}
INVARIANTS TypeOK NoLoss PartitionOrder ExclusiveDelivery
PROPERTY EventuallyDone
CHECK_DEADLOCK FALSE
