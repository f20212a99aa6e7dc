CONSTANTS
  Roas = {r1}
  Modulus = 8
  MaxChanges = 2
  MaxRestarts = 1
  MaxLosses = 2
  MaxRequests = 1
SPECIFICATION FairSpec
INVARIANTS RoasComplete
PROPERTIES RoasExpire
CHECK_DEADLOCK FALSE
