SPECIFICATION FairSpec
CONSTANTS
  g1 = g1
  s1 = s1
  s2 = s2
  m1 = m1
  m2 = m2
  m3 = m3
  Groups = {g1}
  Subs = {s1, s2}
  GroupOf <- MCGroupOf
  Msgs = {m1, m2, m3}
  Garbled = {m3}
  BatchSize = 2
  BufferSize = 1
  MaxHeld = 1
  AddsFail = FALSE
  MaxNacks = 1
  MaxTimeouts = 1
  MaxErrors = 1
  MaxLoad = 3
  Droppable = {s2}
  Crashable = {s2}
  Breakable = {s2}
INVARIANTS TypeOK NoLoss ExclusiveEntry
PROPERTY EventuallyDone
