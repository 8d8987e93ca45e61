SPECIFICATION Spec
CONSTANTS
  Users = {u1, u2}
  Creator = u1
  Nobody = nobody
  NotSettled = notSettled
  RequestIds = {r1}
  PersistFailures = {"unacknowledged"}
  MaxSessions = 2
  MaxTurns = 0
  MaxSockets = 0
  MaxFaults = 1
INVARIANT LoggedIsProcessed
CHECK_DEADLOCK FALSE
