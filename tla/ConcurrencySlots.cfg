SPECIFICATION Spec
CONSTANTS
  r1 = r1
  r2 = r2
  r3 = r3
  p1 = p1
  p2 = p2
  Requests = {r1, r2, r3}
  LiveCalls = {r2}
  Processes = {p1, p2}
  Process <- MCProcess
  FirstProcess = p1
  maxConcurrency = 1
  queueLimit = 1
  SlotTTL = 2
  LiveTTL = 1
  WaitTTL = 2
  WaitTimeout = 1
  MaxFaults = 1
INVARIANTS
  LimitHolds
  RunningIsCounted
  WaitCountIsTrue
  DeadAreFound
  NothingLeaks
