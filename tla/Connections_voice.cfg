SPECIFICATION Spec
CONSTANTS
  Requests = {r1, r2}
  Tokens = {t}
  Nicks = {n}
  Bans = {}
  Unbans = {}
  None = None
  Idle = Idle
  MaxRequests = 2
  MaxSeats = 0
INVARIANT VoiceSeated
CHECK_DEADLOCK FALSE
