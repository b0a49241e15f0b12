SPECIFICATION Spec
CONSTANTS
  None = None
  c1 = c1
  c2 = c2
  s1 = s1
  s2 = s2
  s3 = s3
  Context <- MCContext
  SessionId <- MCSessionId
  MaxSequence = 3
INVARIANTS
  TypeOK
  PendingInvariant
  SessionInvariant
  ConfigInvariant
PROPERTIES
  EndIsTold
  ImplementsDictation
