SPECIFICATION Spec
CONSTANTS
  None = None
  c1 = c1
  s1 = s1
  s2 = s2
  Context <- MCContext
  SessionId <- MCSessionId
  MaxSequence = 2
  Capacity = 1
  MaxGeneration = 2
  MaxConnects = 2
  MaxWriters = 1
  MaxOutgoing = 3
  MaxPublished = 2
  MaxQueued = 2
CHECK_DEADLOCK FALSE
SYMMETRY Symmetric
INVARIANTS
  ReadyHasLink
  ConnectingHasAttempt
  SessionIsServed
  FragmentsInOrder
