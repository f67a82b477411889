\* Two runs in every overlap, one other keystroke, one restart; a log of one
\* line, so that lines are dropped while their job is running.
SPECIFICATION FairSpec
CONSTANTS
  Repos = {0, 1}
  Selections = {{}, {0}, {1}, {0, 1}}
  LogLimit = 1
  MaxRuns = 2
  MaxPresses = 1
  MaxQueue = 2
  MaxBoots = 1
INVARIANTS
  TypeOK
  LogSettles
  CompletedIsLast
  PreSyncHasRun
PROPERTIES
  EndIsShown
\* A program that has been left may stay so.
CHECK_DEADLOCK FALSE
