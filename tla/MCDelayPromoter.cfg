SPECIFICATION FairSpec
CONSTANTS
  m1 = m1
  m2 = m2
  r1 = r1
  r2 = r2
  Msgs = {m1, m2}
  Promoters = {r1, r2}
  BatchSize = 2
  MaxErrors = 2
INVARIANTS StagedSafe AddedAtMost
PROPERTY EventuallyPromoted
