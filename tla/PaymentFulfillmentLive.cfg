SPECIFICATION FairSpec
CONSTANTS
  o1 = o1
  w1 = w1
  w2 = w2
  NoOrder = NoOrder
  Orders = {o1}
  Workers = {w1, w2}
  OrderTypes = {"balance"}
  LeaseDuration = 2
  GracePeriod = 1
  OrderTimeout = 1
  Jobs = {"create", "webhook", "cancel", "expire", "retry"}
  MaxFaults = 1
  DroppedErrors = FALSE
  StallsAreFaults = TRUE
PROPERTY PaidEventuallySettled
