SPECIFICATION Spec
CONSTANTS
  c1 = c1
  c2 = c2
  f1 = f1
  f2 = f2
  NoRow = NoRow
  NoResult = NoResult
  Callers = {c1, c2}
  Fingerprints = {f1, f2}
  Lease = 1
  TTL = 2
  Backoff = 1
  MaxClock = 5
  MaxFaults = 1
SYMMETRY Symmetry
INVARIANTS
  OneExecutionAtATime
  AnswersOwnPayload
PROPERTY SuccessIsReplayed
