SPECIFICATION FairSpec
CONSTANTS
  Consumers = {"c1", "c2"}
  Deployments <- MCDeployments
  Ids = {1, 2}
  Odd = {2}
  Attempts = 2
  MaxFailures = 2
  BufferSize = 1
INVARIANTS TypeOK NothingLost NoStorm WaitersMatch
PROPERTY EventuallySettled
CHECK_DEADLOCK FALSE
