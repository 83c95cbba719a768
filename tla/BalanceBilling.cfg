SPECIFICATION Spec
CONSTANTS
  r1 = r1
  r2 = r2
  NoBalance = NoBalance
  Requests = {r1, r2}
  StartBalance = 2
  MaxEst = 2
  MaxCost = 2
  QueueSize = 1
  TTL = 3
  MaxFaults = 2
SYMMETRY Symmetry
INVARIANTS
  HeldUntilBilled
  OverdraftOnlyIfBlind
  StaleOnlyIfRaced
