CONSTANTS
  Peers = {"long"}
  Families = {"v4", "rtc"}
  Rtc = "rtc"
  Graceful = {"long"}
  LongLived = {"long"}
  Opens <- PartialOpens
  Losses <- MCLosses
  Kinds <- MCKinds
  Restarted = FALSE
  MaxTimers = 1
SPECIFICATION Spec
INVARIANTS StaleIsRestarting
CHECK_DEADLOCK FALSE
