CONSTANTS
  RDs = {r1, r2}
  Gens = {1, 2}
  AgentFiles <- FilesWithNetwork
  Fails = FALSE
SPECIFICATION FairSpec
PROPERTIES ReloadIsDone
CHECK_DEADLOCK FALSE
