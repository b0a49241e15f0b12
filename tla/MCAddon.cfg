SPECIFICATION FairSpec
CONSTANTS
  None = None
  a1 = a1
  a2 = a2
  s1 = s1
  Address <- MCAddress
  ContextId <- MCContextId
  SessionId <- MCSessionId
  Variable <- MCVariable
  MaxSequence = 1
  MaxObjects = 2
CHECK_DEADLOCK FALSE
INVARIANTS
  TypeOK
  MapsAgree
  IdsAreNotDead
  TextIsWanted
  EngineKnowsConfig
  ConnectIsComplete
PROPERTIES
  DispatchReturns
