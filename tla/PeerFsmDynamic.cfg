CONSTANTS
  MaxOut = 1
  MaxIn = 1
  Passive = TRUE
  Dynamic = TRUE
  AdminDown = FALSE
  OpenGr = {"none", "notification"}
  PeerNotifies = TRUE
  PrefixLimit = FALSE
SPECIFICATION FairSpec
INVARIANTS RetentionSound
PROPERTIES StaleRoutesGo
CHECK_DEADLOCK FALSE
