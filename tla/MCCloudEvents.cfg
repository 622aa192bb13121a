SPECIFICATION Spec
CONSTANTS
  Consumers = {"c1", "c2"}
  Deployments <- CloudEvents
  Ids = {1, 2}
  Odd = {2}
  Attempts = 2
  MaxFailures = 2
  BufferSize = 1
INVARIANT AckCommits
CHECK_DEADLOCK FALSE
