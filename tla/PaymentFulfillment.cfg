SPECIFICATION Spec
CONSTANTS
  o1 = o1
  w1 = w1
  w2 = w2
  NoOrder = NoOrder
  Orders = {o1}
  Workers = {w1, w2}
  OrderTypes = {"balance", "subscription", "unsupported"}
  LeaseDuration = 1
  GracePeriod = 1
  OrderTimeout = 1
  Jobs = {"create", "webhook", "cancel", "expire", "verify", "retry"}
  MaxFaults = 2
  DroppedErrors = TRUE
  StallsAreFaults = FALSE
SYMMETRY WorkerSymmetry
INVARIANTS
  TypeOK
  GrantedAtMostOnce
  RebatedAtMostOnce
  CompletedMeansGranted
  GrantedMeansPaid
PROPERTIES
  KeepsPromise
  PaidNeverUndone
  AckedWhenSettled
