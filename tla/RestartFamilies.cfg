CONSTANTS
  Peers = {"long", "targets"}
  Families = {"v4", "rtc"}
  Rtc = "rtc"
  Graceful = {"long", "targets"}
  LongLived = {"long"}
  Opens <- MCOpens
  Losses <- MCLosses
  Kinds <- MCKinds
  Restarted = TRUE
  MaxTimers = 1
SPECIFICATION FairSpec
INVARIANTS StaleIsWatched SentOrPending
PROPERTIES RestartEnds
CHECK_DEADLOCK FALSE
