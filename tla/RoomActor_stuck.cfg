SPECIFICATION FairSpec
CONSTANTS
  Users = {u1, u2, u3}
  Creator = u1
  Nobody = nobody
  NotSettled = notSettled
  RequestIds = {}
  PersistFailures = {"lost", "unacknowledged"}
  MaxSessions = 3
  MaxTurns = 3
  MaxSockets = 0
  MaxFaults = 1
PROPERTY LeaversSettled
CHECK_DEADLOCK FALSE
