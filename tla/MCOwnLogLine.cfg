SPECIFICATION Spec
CONSTANTS
  Repos = {0, 1}
  Selections = {{0}, {1}}
  LogLimit = 500
  MaxRuns = 2
  MaxPresses = 1
  MaxQueue = 2
  MaxBoots = 1
INVARIANT OwnLogLine
CHECK_DEADLOCK FALSE
