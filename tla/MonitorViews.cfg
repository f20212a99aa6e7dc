CONSTANTS
  NPeers = 2
  V4 = {n1}
  Other = {m1}
  Prefs = {1, 2, 3}
  RejectedPrefs = {3}
  MaxServerChanges = 4
  MaxCuts = 1
SPECIFICATION MonitorSpec
INVARIANTS KernelFollows CollectorFollows
CHECK_DEADLOCK FALSE
