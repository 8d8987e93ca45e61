SPECIFICATION Spec
CONSTANTS
  Users = {u1, u2}
  Creator = u1
  Nobody = nobody
  NotSettled = notSettled
  RequestIds = {}
  PersistFailures = {"unacknowledged"}
  MaxSessions = 2
  MaxTurns = 0
  MaxSockets = 0
  MaxFaults = 1
INVARIANT NoRowLeftOpen
CHECK_DEADLOCK FALSE
