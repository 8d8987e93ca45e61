SPECIFICATION FairSpec
CONSTANTS
  Sockets = {1, 2}
  View = View
  None = None
  Buffer = 1
  Wire = 1
  MaxVersion = 3
  MaxLoads = 1
  MaxFaults = 1
INVARIANT KeepsAccount
CHECK_DEADLOCK FALSE
