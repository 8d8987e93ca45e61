SPECIFICATION FairSpec
CONSTANTS
  Users = {u1, u2}
  Rooms = {a, b}
  Seats = {s1, s2}
  NoRoom = NoRoom
  NoSeat = NoSeat
  Nobody = Nobody
  Idle = Idle
  FirstSeat = s1
  Races = {"store"}
  MaxJoins = 3
  MaxHands = 1
  MaxCrashes = 1
INVARIANT TypeOK
INVARIANT SeatHasEntry
INVARIANT ReservedForJoin
INVARIANT NobodyEvicted
PROPERTY JoinAnswered
PROPERTY EmptyRoomCloses
CHECK_DEADLOCK FALSE
