CONSTANTS
  Peers = {"plain"}
  Families = {"v4"}
  Rtc = "rtc"
  Graceful = {"plain"}
  LongLived = {}
  Opens <- PlainOpens
  Losses <- MCLosses
  Kinds <- MCKinds
  Restarted = TRUE
  MaxTimers = 1
SPECIFICATION Spec
INVARIANTS SentOrPending
CHECK_DEADLOCK FALSE
