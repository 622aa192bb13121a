SPECIFICATION Spec
CONSTANTS
  g1 = g1
  s1 = s1
  s2 = s2
  m1 = m1
  m2 = m2
  m3 = m3
  Groups = {g1}
  Subs = {s1, s2}
  GroupOf <- MCGroupOf
  Msgs = {m1}
  Garbled = {}
  BatchSize = 1
  BufferSize = 1
  MaxHeld = 1
  AddsFail = TRUE
  MaxNacks = 1
  MaxTimeouts = 0
  MaxErrors = 1
  MaxLoad = 3
  Droppable = {}
  Crashable = {}
  Breakable = {}
INVARIANT NoLoss
