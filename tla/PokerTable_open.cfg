SPECIFICATION FairSpec
CONSTANTS
  N = 3
  SmallBlind = 1
  BigBlind = 2
  InitialTablePoints = 4
  RaiseSizes = {2, 3}
  OpeningStacks <- UnequalStacks
  MaxHands = 1
  MaxChurn = 2
INVARIANTS TurnInv NoPointsCreated
PROPERTY HandsEnd
CHECK_DEADLOCK FALSE
