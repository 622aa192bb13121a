SPECIFICATION FairSpec
CONSTANTS
  s1 = s1
  s2 = s2
  p1 = p1
  p2 = p2
  m1 = m1
  m2 = m2
  m3 = m3
  Subs = {s1}
  Pubs = {p1, p2}
  Msgs = {m1, m2, m3}
  Batch <- MCBatch
  Delayed = {}
  BufferSize = 1
  MaxHeld = 1
  Workers = 1
  MaxNacks = 0
  Droppable = {}
  Closable = FALSE
  MaxFaults = 0
PROPERTIES PublishReturns
CHECK_DEADLOCK FALSE
