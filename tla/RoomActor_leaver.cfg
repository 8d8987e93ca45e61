SPECIFICATION FairSpec
CONSTANTS
  Users = {u1, u2, u3}
  Creator = u1
  Nobody = nobody
  NotSettled = notSettled
  RequestIds = {}
  PersistFailures = {}
  MaxSessions = 3
  MaxTurns = 3
  MaxSockets = 0
  MaxFaults = 0
PROPERTY LeaversAlwaysSettled
CHECK_DEADLOCK FALSE
