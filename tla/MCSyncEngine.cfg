\* Three jobs over two permits, no database fault.
SPECIFICATION FairSpec
CONSTANTS
  N = 3
  Concurrency = 2
  DbFaults = FALSE
INVARIANTS
  TypeOK
  PermitsConserved
  SenderNeverBlocks
  CancelStopsDispatch
  OutcomeHonest
  AnnouncedRunIsComplete
  HistoryAgrees
PROPERTIES
  QuiescentOnceDone
  EveryStartIsReported
  RunEnds
  RunSpec
