CONSTANTS
  Roas = {r1, r2}
  Modulus = 8
  MaxChanges = 1
  MaxRestarts = 1
  MaxLosses = 2
  MaxRequests = 1
SPECIFICATION Spec
INVARIANTS StaleRoasGo
CHECK_DEADLOCK FALSE
