SPECIFICATION MCSpec
CONSTANTS
  g1 = g1
  g2 = g2
  s1 = s1
  s2 = s2
  s3 = s3
  p1 = p1
  p2 = p2
  Groups = {g1, g2}
  Subs = {s1, s2, s3}
  GroupOf <- MCGroupOf
  Pubs = {p1}
  MaxId = 2
  BatchSize = 2
  ScanLimit = 2
  PurgeBatch = 1
  BufferSize = 1
  MaxHeld = 1
  MaxNacks = 1
  MaxTimeouts = 1
  MaxErrors = 2
  MaxFaults = 2
  Droppable = {s2}
  Crashable = {s2}
  MaxAge = TRUE
INVARIANTS TypeOK NothingSkipped ExclusiveLease
PROPERTIES AckFinal PurgeSafe EventuallyDone
