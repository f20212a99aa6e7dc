CONSTANTS
  MaxOut = 0
  MaxIn = 0
  Passive = TRUE
  Dynamic = FALSE
  AdminDown = FALSE
  OpenGr = {"none"}
  PeerNotifies = FALSE
  PrefixLimit = FALSE
SPECIFICATION FairSpec
PROPERTIES DeletedIsFreed
