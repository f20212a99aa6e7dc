CONSTANTS
  RDs = {r1, r2}
  Gens = {1, 2}
  AgentFiles <- AnyFile
  Fails = TRUE
SPECIFICATION FairSpec
INVARIANTS MapFollowsConfig VrfHasOneNetwork RefusedOnlyByOld
PROPERTIES RunsAsConfigured
CHECK_DEADLOCK FALSE
