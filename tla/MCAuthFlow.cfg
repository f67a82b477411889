SPECIFICATION FairSpec
CONSTANTS
  t1 = t1
  t2 = t2
  alice = alice
  bob = bob
  NoToken = NoToken
  NoUser = NoUser
  Tokens <- MCTokens
  Owner <- MCOwner
  Typed <- MCTyped
  Granted <- MCGranted
  Given <- MCGiven
  KeyringFaults = TRUE
  DbFaults = TRUE
  MaxPats = 1
  MaxFlows = 1
  MaxBoots = 1
INVARIANTS
  TypeOK
  IInv
  WaitingHasCause
  CodeOnScreenIsPolled
  SignedInAgrees
PROPERTIES
  KeyringStepIsEarned
  PollerStops
  WaitingEnds
CHECK_DEADLOCK FALSE
