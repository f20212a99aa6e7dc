CONSTANTS
  MaxOut = 1
  MaxIn = 1
  Passive = FALSE
  Dynamic = FALSE
  AdminDown = TRUE
  OpenGr = {"none", "gr"}
  PeerNotifies = FALSE
  PrefixLimit = TRUE
SPECIFICATION FairSpec
INVARIANTS NoLogicBug SessionMessagesInOrder ConnReleased EnabledIdleHasTimer
PROPERTIES HandlerReports DeletedIsFreedOrHeld DisabledGoesIdle
