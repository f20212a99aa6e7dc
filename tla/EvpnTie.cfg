CONSTANTS
  Pe = {1, 2}
  Rd <- MCRd
  Esi <- MCEsi
  MaxMoves = 3
  MaxFlaps = 1
  MaxStarts = 3
  MaxStops = 1
  MaxFails = 0
SPECIFICATION Spec
INVARIANTS TieIsBroken
CHECK_DEADLOCK FALSE
