SPECIFICATION MCSpec
CONSTANTS
  s1 = s1
  s2 = s2
  p1 = p1
  p2 = p2
  m1 = m1
  m2 = m2
  m3 = m3
  Subs = {s1, s2}
  Pubs = {p1, p2}
  Msgs = {m1, m2, m3}
  Batch <- MCBatch
  Delayed = {p2}
  BufferSize = 1
  MaxHeld = 1
  Workers = 4
  MaxNacks = 2
  Droppable = {s1}
  Closable = TRUE
  MaxFaults = 2
INVARIANTS TypeOK OnePlace NoLoss BatchOrder WholeBatch
PROPERTIES ImplementsDelivery PublishReturns EventuallyAcked
