SPECIFICATION Spec
CONSTANTS
  a1 = a1
  a2 = a2
  p1 = p1
  p2 = p2
  Attempts = {a1, a2}
  Process <- MCProcess
  LockTTL = 2
  AttemptTimeout = 3
  LockSafetyMargin = 1
  GrokRequestTimeout = 1
  MaxRetries = 2
  MaxGrants = 2
  MaxGen = 1
  MaxRequests = 1
  MaxFaults = 2
SYMMETRY Symmetry
INVARIANTS
  TokenUsedOnce
  StoredTokenUsable
  QuarantineIsDeserved
  ReauthorizationKept
  CachedTokenIsCurrent
