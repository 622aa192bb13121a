SPECIFICATION FairSpec
CONSTANTS
  g1 = g1
  g2 = g2
  s1 = s1
  s2 = s2
  s3 = s3
  p1 = p1
  Groups = {g1}
  Subs = {s1, s2}
  GroupOf <- MCGroupOf
  Pubs = {p1}
  MaxId = 2
  BatchSize = 2
  ScanLimit = 2
  BufferSize = 1
  MaxHeld = 1
  MaxFaults = 1
  Droppable = {s2}
  Crashable = {s2}
INVARIANTS TypeOK NothingSkipped ExclusiveLease
PROPERTY EventuallyDone
