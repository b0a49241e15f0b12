SPECIFICATION FairSpec
CONSTANTS
  None = None
  f1 = f1
  f2 = f2
  m1 = m1
  Frame <- MCFrame
  Inbound <- MCInbound
  Capacity = 1
  MaxGeneration = 2
  MaxConnects = 2
  MaxWriters = 2
  MaxOutgoing = 2
  MaxPublished = 1
CHECK_DEADLOCK FALSE
INVARIANTS
  TypeOK
  ConnectedIsRead
  AttemptIsDriven
  PendingOnSocket
  FramesHaveWriter
  HandlersMatch
PROPERTIES
  ChangesAreTold
  AttemptsEnd
  QueueDrains
