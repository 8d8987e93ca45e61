SPECIFICATION Spec
CONSTANTS
  Users = {u1, u2}
  Creator = u1
  Nobody = nobody
  NotSettled = notSettled
  RequestIds = {}
  PersistFailures = {}
  MaxSessions = 2
  MaxTurns = 0
  MaxSockets = 1
  MaxFaults = 1
INVARIANT SeatsRestored
CHECK_DEADLOCK FALSE
