SPECIFICATION Spec
CONSTANTS
  Users = {u1, u2}
  Creator = u1
  Nobody = nobody
  NotSettled = notSettled
  RequestIds = {}
  PersistFailures = {}
  MaxSessions = 3
  MaxTurns = 0
  MaxSockets = 4
  MaxFaults = 0
INVARIANT RetentionHonoured
CHECK_DEADLOCK FALSE
