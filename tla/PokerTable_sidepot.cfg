SPECIFICATION TableSpec
CONSTANTS
  N = 3
  SmallBlind = 1
  BigBlind = 2
  InitialTablePoints = 4
  RaiseSizes = {2, 3}
  OpeningStacks <- UnequalStacks
  MaxHands = 1
  MaxChurn = 1
INVARIANT EverySidePotHasAWinner
CHECK_DEADLOCK FALSE
