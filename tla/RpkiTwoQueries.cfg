CONSTANTS
  Roas = {r1}
  Modulus = 8
  MaxChanges = 2
  MaxRestarts = 0
  MaxLosses = 0
  MaxRequests = 1
SPECIFICATION Spec
INVARIANTS IncrementsAddUp
CHECK_DEADLOCK FALSE
