SPECIFICATION TableSpec
CONSTANTS
  N = 3
  SmallBlind = 1
  BigBlind = 2
  InitialTablePoints = 4
  RaiseSizes = {2, 3}
  OpeningStacks <- MCStacks
  MaxHands = 2
  MaxChurn = 1
INVARIANTS TypeOK NobodyRidesFree PointsConserved
PROPERTY PayoutsCapped
CHECK_DEADLOCK FALSE
