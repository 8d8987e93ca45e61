SPECIFICATION Spec
CONSTANTS
  Users = {u1, u2, u3}
  Rooms = {a, b}
  Seats = {s1, s2, s3}
  NoRoom = NoRoom
  NoSeat = NoSeat
  Nobody = Nobody
  Idle = Idle
  FirstSeat = s1
  Races = {"hand"}
  MaxJoins = 4
  MaxHands = 1
  MaxCrashes = 0
SYMMETRY Symmetry
INVARIANT SeatHasEntry
CHECK_DEADLOCK FALSE
