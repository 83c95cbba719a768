SPECIFICATION LockSpec
CONSTANTS
  c1 = c1
  c2 = c2
  f1 = f1
  f2 = f2
  NoRow = NoRow
  NoResult = NoResult
  Callers = {c1, c2}
  Fingerprints = {f1, f2}
  Lease = 2
  TTL = 3
  MaxClock = 5
  MaxFaults = 0
SYMMETRY Symmetry
INVARIANT OperationsAreExclusive
