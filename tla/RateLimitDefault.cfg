\* One token per second, as configured by default, with a burst of two tokens
\* and two ticks to the second, for two clients over four seconds.
CONSTANTS
  c1 = c1
  c2 = c2
  Clients = {c1, c2}
  NoBucket = NoBucket
  TokenTicks = 2
  SecondTicks = 2
  Capacity = 4
  MaxTime = 8
SPECIFICATION Spec
INVARIANTS WindowBounded RefusalsAreFree RetryAfterSuffices
CHECK_DEADLOCK FALSE
