SPECIFICATION Spec
CONSTANTS
  N = 2
  Concurrency = 1
  DbFaults = FALSE
INVARIANT FailedCloneNotCloned
