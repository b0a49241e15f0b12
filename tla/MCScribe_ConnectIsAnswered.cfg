SPECIFICATION Spec
CONSTANTS
  None = None
  c1 = c1
  s1 = s1
  s2 = s2
  Context <- MCContext
  SessionId <- OneSessionId
  MaxSequence = 1
  Capacity = 1
  MaxGeneration = 2
  MaxConnects = 2
  MaxWriters = 1
  MaxOutgoing = 3
  MaxPublished = 1
  MaxQueued = 3
CHECK_DEADLOCK FALSE
INVARIANT ConnectIsAnswered
