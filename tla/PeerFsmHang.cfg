CONSTANTS
  MaxOut = 1
  MaxIn = 0
  Passive = TRUE
  Dynamic = FALSE
  AdminDown = FALSE
  OpenGr = {"none"}
  PeerNotifies = TRUE
  PrefixLimit = FALSE
SPECIFICATION FairSpec
PROPERTIES HandlerReports
CHECK_DEADLOCK FALSE
