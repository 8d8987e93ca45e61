SPECIFICATION Spec
CONSTANTS
  Users = {u1, u2, u3}
  Rooms = {a, b}
  Seats = {s1, s2, s3}
  NoRoom = NoRoom
  NoSeat = NoSeat
  Nobody = Nobody
  Idle = Idle
  FirstSeat = s1
  Races = {"hand", "cancel", "store", "expiry", "create", "busy"}
  MaxJoins = 2
  MaxHands = 1
  MaxCrashes = 1
SYMMETRY Symmetry
INVARIANT OneTable
INVARIANT EntryHasSeat
CHECK_DEADLOCK FALSE
