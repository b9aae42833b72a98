SPECIFICATION Spec
CONSTANTS
  a1 = a1
  a2 = a2
  q1 = q1
  q2 = q2
  q3 = q3
  Addresses = {a1, a2}
  Requests = {q1, q2, q3}
  Clicks = {q1, q2}
  Burst = 2
  Refill = 2
  Known = 0
  Places = 1
  MaxClock = 4
  Attempts = 5
INVARIANTS
  SignInInv
  RateIsLimited
PROPERTIES
  DeniedOnlyWhenSpent
CHECK_DEADLOCK FALSE
