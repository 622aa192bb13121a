SPECIFICATION FairSpec
CONSTANTS
  h1 = h1
  h2 = h2
  Order <- MCOrder
  Msgs = {m1, m2}
  Topics = {t1}
  Publishing = {h1}
  BufferSize = 1
  Refusing = {h2}
  Panicking = {h2}
  Stuck = {h1}
  Ending = {h2}
  MaxFails = 1
  MaxLost = 1
INVARIANTS TypeOK NoLeaseLeaked CleanShutdown
PROPERTIES CancelReturns CancelStopsTasks
