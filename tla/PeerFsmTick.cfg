CONSTANTS
  MaxOut = 1
  MaxIn = 1
  Passive = TRUE
  Dynamic = FALSE
  AdminDown = FALSE
  OpenGr = {"gr"}
  PeerNotifies = FALSE
  PrefixLimit = FALSE
SPECIFICATION Spec
PROPERTIES ExpiryIsOfThisRestart
