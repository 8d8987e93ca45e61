SPECIFICATION Spec
CONSTANTS
  Users = {u1, u2}
  Creator = u1
  Nobody = nobody
  NotSettled = notSettled
  RequestIds = {}
  PersistFailures = {"lost"}
  MaxSessions = 2
  MaxTurns = 3
  MaxSockets = 0
  MaxFaults = 1
INVARIANT NetMatches
CHECK_DEADLOCK FALSE
