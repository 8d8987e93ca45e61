SPECIFICATION FairSpec
CONSTANTS
  Sockets = {1, 2}
  View = View
  None = None
  Buffer = 1
  Wire = 1
  MaxVersion = 3
  MaxLoads = 1
  MaxFaults = 1
INVARIANT TypeOK
INVARIANT StaleUntilNextChange
INVARIANT OneLine
PROPERTY ViewSettles
CHECK_DEADLOCK FALSE
