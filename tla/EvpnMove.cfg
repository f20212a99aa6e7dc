CONSTANTS
  Pe = {1, 2}
  Rd <- MCRd
  Esi <- MCEsi
  MaxMoves = 3
  MaxFlaps = 1
  MaxStarts = 3
  MaxStops = 1
  MaxFails = 1
SPECIFICATION Spec
INVARIANTS ReachFollowsTable LoopLives MacSettles SegmentYields
CHECK_DEADLOCK FALSE
