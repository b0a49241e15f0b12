SPECIFICATION FairSpec
CONSTANTS
  None = None
  s1 = s1
  s2 = s2
  SessionId <- MCSessionId
  Modes <- MCModes
  HighWater = 1
  MaxSequence = 2
  MaxInbox = 2
CHECK_DEADLOCK FALSE
INVARIANTS
  TypeOK
  OneTask
  PoliteIsServed
PROPERTIES
  ImplementsServer
  ClearingEnds
  LeavingEnds
