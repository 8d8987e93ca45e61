SPECIFICATION FairSpec
CONSTANTS
  Users = {u1, u2}
  Creator = u1
  Nobody = nobody
  NotSettled = notSettled
  RequestIds = {r1}
  PersistFailures = {"lost", "unacknowledged"}
  MaxSessions = 2
  MaxTurns = 2
  MaxSockets = 1
  MaxFaults = 2
INVARIANTS TypeOK TimerArmed DisconnectCovered NoSessionLost OwnerSeated AnswersDurable
PROPERTIES PresenceKeepsDeadline RetentionEnds
CHECK_DEADLOCK FALSE
