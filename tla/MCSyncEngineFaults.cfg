\* Two jobs over one permit; any database call may fail.  Concurrency 0 is
\* what the configuration may hold: the engine raises it to 1.
SPECIFICATION Spec
CONSTANTS
  N = 2
  Concurrency = 0
  DbFaults = TRUE
INVARIANTS
  IInv
  FaultyHistorySafe
  AnnouncedRunIsComplete
