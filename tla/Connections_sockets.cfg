SPECIFICATION FairSpec
CONSTANTS
  Requests = {r1, r2}
  Tokens = {t}
  Nicks = {n}
  Bans = {b}
  Unbans = {u}
  None = None
  Idle = Idle
  MaxRequests = 4
  MaxSeats = 1
INVARIANT TypeOK
INVARIANT WatchersSeated
INVARIANT SocketsReachable
INVARIANT VoiceCurrent
INVARIANT BanSurvives
PROPERTY WatchersGo
CHECK_DEADLOCK FALSE
