SPECIFICATION Spec
CONSTANTS
  g1 = g1
  g2 = g2
  s1 = s1
  s2 = s2
  s3 = s3
  p1 = p1
  p2 = p2
  Groups = {g1}
  Subs = {s1}
  GroupOf <- MCGroupOf
  Pubs = {p1, p2}
  MaxId = 2
  BatchSize = 1
  ScanLimit = 2
  PurgeBatch = 1
  BufferSize = 1
  MaxHeld = 1
  MaxNacks = 0
  MaxTimeouts = 0
  MaxErrors = 0
  MaxFaults = 0
  Droppable = {}
  Crashable = {}
  MaxAge = FALSE
INVARIANT NothingSkipped
