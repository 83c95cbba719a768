SPECIFICATION Spec
CONSTANTS
  o1 = o1
  a1 = a1
  a2 = a2
  NoPlan = NoPlan
  Orders = {o1}
  Workers = {}
  Admins = {a1, a2}
  OrderTypes = {"balance"}
  LeaseDuration = 1
  GracePeriod = 1
  Amount = 2
  MaxOverdraft = 1
  MaxBalance = 2
  MaxFaults = 0
SYMMETRY AdminSymmetry
INVARIANT RefundingIsTransient
