SPECIFICATION HangSpec
CONSTANTS
  N = 3
  Concurrency = 1
  DbFaults = FALSE
PROPERTY FinishedIsReported
