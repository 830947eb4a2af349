CONSTANTS
  c1 = c1
  c2 = c2
  Clients = {c1}
  NoBucket = NoBucket
  TokenTicks = 10
  SecondTicks = 5
  Capacity = 10
  MaxTime = 16
SPECIFICATION Spec
INVARIANT RetryAfterSuffices
CHECK_DEADLOCK FALSE
