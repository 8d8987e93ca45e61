-------------------------- MODULE RoomManager_proofs --------------------------
(***************************************************************************)
(* RoomManager keeps its types, and no user ever has seats in two rooms,   *)
(* for any users, rooms, seats, races and number of crashes.  The          *)
(* strengthening: a seat in memory has the open session row of its user    *)
(* behind it, of which there is one per user (SeatRow), and only players   *)
(* who still sit, in a running hand, are leaving.                          *)
(* No entry of activeSeat is left without a seat (EntriesInv).  And where  *)
(* the races that can do so are absent, no seat is left without its entry  *)
(* (EntryInv) and no reservation without its Join (ReservedInv).           *)
(***************************************************************************)
EXTENDS RoomManager, FiniteSetTheorems, TLAPS

ManagerTyped ==
  /\ created \subseteq Rooms /\ rooms \subseteq created /\ closed \subseteq created \ rooms
  /\ timed \subseteq Rooms
  /\ active \in [Users -> Rooms \cup {NoRoom}]

SeatsTyped ==
  /\ row \in [Users -> Rooms \cup {NoRoom}]
  /\ seat \in [Rooms -> [Users -> Seats \cup {NoSeat}]]
  /\ leaving \in [Rooms -> SUBSET Users]
  /\ dealt \in [Rooms -> SUBSET Users]
  /\ releasing \in [Rooms -> SUBSET Users]
  /\ ended \subseteq Rooms

CallsTyped ==
  /\ reserved \in [Rooms -> [Seats -> Users \cup {Nobody}]]
  /\ pending \in [Rooms -> SUBSET Requests]

\* the steps of a switch know the room it leaves, and from its check on the seat
SwitchSteps == {"check", "reserve", "leave", "left", "undo", "return", "rejoin"}

JoinTyped ==
  /\ join \in Joins \cup {Idle}
  /\ join # Idle =>
       /\ join.step \in SwitchSteps => join.from \in Rooms
       /\ join.from # NoRoom /\ join.step # "check" => join.back \in Seats

CountsTyped == joins \in 0..MaxJoins /\ hands \in 0..MaxHands /\ crashes \in 0..MaxCrashes

SeatRow == \A r \in Rooms, u \in Users : seat[r][u] # NoSeat => row[u] = r

LeaversSit == \A r \in Rooms : \A u \in leaving[r] : seat[r][u] # NoSeat

LeaversInHand == \A r \in Rooms : dealt[r] = {} => leaving[r] = {}

SeatsInv == SeatsTyped /\ SeatRow /\ LeaversSit /\ LeaversInHand

Inv == ManagerTyped /\ SeatsInv /\ CallsTyped /\ JoinTyped /\ CountsTyped

LEMMA InvType == Inv => TypeOK
  BY DEF Inv, SeatsInv, TypeOK, ManagerTyped, SeatsTyped, CallsTyped, JoinTyped, CountsTyped

\* One row per user, so one seat per user.
LEMMA InvOneTable == Inv => OneTable
  BY DEF Inv, SeatsInv, SeatRow, OneTable

-----------------------------------------------------------------------------
(* The operations of an actor *)

\* The settled users give up a seat of this room and with it their row.
LEMMA SettleKeeps ==
  ASSUME SeatsInv, NEW r \in Rooms, NEW gone \in SUBSET Users, Settle(r, gone),
         \A u \in gone : seat[r][u] # NoSeat,
         leaving' = [leaving EXCEPT ![r] = {}],
         dealt' \in [Rooms -> SUBSET Users],
         \A q \in Rooms : q # r => dealt'[q] = dealt[q],
         ended' \subseteq Rooms
  PROVE  SeatsInv' /\ reserved' = reserved
<1>1. SeatsTyped'
  BY DEF SeatsInv, SeatsTyped, Settle
<1>2. SeatRow'
  BY NamesAssumption DEF SeatsInv, SeatsTyped, SeatRow, Settle
<1>3. LeaversSit'
  BY DEF SeatsInv, SeatsTyped, LeaversSit, Settle
<1>4. LeaversInHand'
  BY DEF SeatsInv, SeatsTyped, LeaversInHand, Settle
<1> QED BY <1>1, <1>2, <1>3, <1>4 DEF SeatsInv, Settle

LEMMA HandDoneKeeps ==
  ASSUME SeatsInv, NEW r \in Rooms, NEW gone \in SUBSET Users, HandDone(r, gone),
         \A u \in gone : seat[r][u] # NoSeat, UNCHANGED ended
  PROVE  SeatsInv' /\ reserved' = reserved
<1>1. dealt' \in [Rooms -> SUBSET Users] /\ \A q \in Rooms : q # r => dealt'[q] = dealt[q]
  BY DEF HandDone, SeatsInv, SeatsTyped
<1> QED BY <1>1, SettleKeeps, ZenonT(60) DEF HandDone, SeatsInv, SeatsTyped

LEMMA WithdrawKeeps ==
  ASSUME SeatsInv, NEW r \in Rooms, NEW u \in Users, Withdraw(r, u)
  PROVE  SeatsInv' /\ UNCHANGED <<reserved, pending>>
<1> DEFINE gone == leaving[r] \cup {u}
<1>1. gone \in SUBSET Users /\ \A v \in gone : seat[r][v] # NoSeat
  BY DEF SeatsInv, SeatsTyped, LeaversSit, Withdraw
<1>2. CASE HandDone(r, gone)
  BY <1>1, <1>2, HandDoneKeeps DEF Withdraw
<1>3. CASE /\ Cardinality(dealt[r] \ gone) >= 2
           /\ leaving' = [leaving EXCEPT ![r] = gone]
           /\ UNCHANGED <<dealt, seat, row, releasing, reserved>>
  <2>1. dealt[r] # {}
    <3>1. SUFFICES ASSUME dealt[r] = {} PROVE FALSE
      OBVIOUS
    <3>2. dealt[r] \ gone = {}
      BY <3>1
    <3>3. Cardinality(dealt[r] \ gone) = 0
      BY <3>2, FS_EmptySet
    <3> QED BY <3>3, <1>3
  <2>2. SeatsTyped' /\ SeatRow'
    BY <1>1, <1>3 DEF SeatsInv, SeatsTyped, SeatRow, Withdraw
  <2>3. LeaversSit' /\ LeaversInHand'
    BY <1>1, <1>3, <2>1 DEF SeatsInv, SeatsTyped, LeaversSit, LeaversInHand
  <2> QED BY <2>2, <2>3, <1>3 DEF SeatsInv, Withdraw
<1> QED BY <1>2, <1>3 DEF Withdraw

LEMMA UnreserveTyped ==
  ASSUME CallsTyped, NEW r \in Rooms, NEW u \in Users, NEW s, Unreserve(r, u, s)
  PROVE  reserved' \in [Rooms -> [Seats -> Users \cup {Nobody}]]
  BY DEF CallsTyped, Unreserve

\* Who sits down has no open row, so he sits nowhere.
LEMMA SeatedKeeps ==
  ASSUME SeatsInv, CallsTyped, NEW r \in Rooms, NEW u \in Users, NEW s \in Seats,
         Seated(r, u, s)
  PROVE  SeatsInv' /\ reserved' \in [Rooms -> [Seats -> Users \cup {Nobody}]]
<1>1. SeatsTyped'
  BY DEF SeatsInv, SeatsTyped, Seated
<1>2. SeatRow'
  <2>1. \A q \in Rooms : seat[q][u] = NoSeat
    BY NamesAssumption DEF SeatsInv, SeatRow, Seated, SeatFree
  <2> QED BY <2>1 DEF SeatsInv, SeatsTyped, SeatRow, Seated
<1>3. LeaversSit' /\ LeaversInHand'
  BY NamesAssumption DEF SeatsInv, SeatsTyped, LeaversSit, LeaversInHand, Seated
<1> QED BY <1>1, <1>2, <1>3, UnreserveTyped DEF SeatsInv, Seated

LEMMA RefusedKeeps ==
  ASSUME SeatsInv, CallsTyped, NEW r \in Rooms, NEW u \in Users, NEW s, Refused(r, u, s)
  PROVE  SeatsInv' /\ reserved' \in [Rooms -> [Seats -> Users \cup {Nobody}]]
<1>1. SeatsInv'
  BY DEF SeatsInv, SeatsTyped, SeatRow, LeaversSit, LeaversInHand, Refused
<1>2. CASE r \in ended
  BY <1>1, <1>2 DEF Refused, CallsTyped
<1>3. CASE r \notin ended
  BY <1>1, <1>3, UnreserveTyped DEF Refused
<1> QED BY <1>2, <1>3

-----------------------------------------------------------------------------
(* The manager and the Join under way *)

LEMMA ReleaseSeatTyped ==
  ASSUME ManagerTyped, NEW u \in Users, ReleaseSeat(u)
  PROVE  ManagerTyped'
  BY DEF ManagerTyped, ReleaseSeat

\* Where a Join is, it has a user, a target and a seat.
LEMMA AtStep ==
  ASSUME JoinTyped, NEW step, At(step)
  PROVE  /\ join \in Joins
         /\ join.user \in Users /\ join.target \in Rooms /\ join.seat \in Seats
         /\ join.from \in Rooms \cup {NoRoom}
         /\ step \in SwitchSteps => join.from \in Rooms
         /\ join.from # NoRoom /\ step # "check" => join.back \in Seats
  BY DEF JoinTyped, At, Joins

LEMMA GoToTyped ==
  ASSUME join \in Joins, NEW step \in Steps, GoTo(step),
         step \in SwitchSteps => join.from \in Rooms,
         join.from # NoRoom /\ step # "check" => join.back \in Seats
  PROVE  JoinTyped'
  BY DEF GoTo, Joins, JoinTyped

LEMMA DoneTyped ==
  ASSUME join \in Joins, Done, join.from # NoRoom => join.back \in Seats
  PROVE  JoinTyped'
  BY GoToTyped DEF Done, JoinTyped, Steps, SwitchSteps

LEMMA FailedTyped ==
  ASSUME join \in Joins, Failed, join.from # NoRoom => join.back \in Seats
  PROVE  JoinTyped'
<1>1. CASE join.from = NoRoom
  BY <1>1, GoToTyped DEF Failed, Steps, SwitchSteps
<1>2. CASE join.from # NoRoom
  <2>1. join.from \in Rooms
    BY <1>2 DEF Joins
  <2> QED BY <1>2, <2>1, GoToTyped DEF Failed, Steps, SwitchSteps
<1> QED BY <1>1, <1>2

\* A step that leaves the actors, the manager or the counts alone keeps their part.
LEMMA Framed ==
  ASSUME Inv
  PROVE  /\ UNCHANGED <<seat, leaving, dealt, releasing, row, ended>> => SeatsInv'
         /\ UNCHANGED actors => SeatsInv' /\ CallsTyped'
         /\ UNCHANGED manager => ManagerTyped'
         /\ UNCHANGED <<joins, hands, crashes>> => CountsTyped'
         /\ UNCHANGED join => JoinTyped'
  BY DEF Inv, SeatsInv, SeatsTyped, SeatRow, LeaversSit, LeaversInHand, CallsTyped, actors,
         manager, ManagerTyped, CountsTyped, JoinTyped

-----------------------------------------------------------------------------
(* Each action keeps the invariant *)

LEMMA InitInv == Init => Inv
  BY BoundsAssumption, NamesAssumption
  DEF Init, Inv, SeatsInv, SeatsTyped, SeatRow, LeaversSit, LeaversInHand, CallsTyped,
      ManagerTyped, CountsTyped, JoinTyped

LEMMA LeaveInv ==
  ASSUME Inv, NEW r \in Rooms, NEW u \in Users, Leave(r, u) PROVE Inv'
  BY Framed, WithdrawKeeps DEF Leave, Inv, CallsTyped

LEMMA StartHandInv ==
  ASSUME Inv, NEW r \in Rooms, StartHand(r) PROVE Inv'
<1>1. SeatsInv'
  <2>1. PICK players \in SUBSET Sitting(r) : dealt' = [dealt EXCEPT ![r] = players]
    BY DEF StartHand
  <2>2. players \in SUBSET Users
    BY <2>1 DEF Sitting
  <2> QED BY <2>1, <2>2 DEF StartHand, InHand, Inv, SeatsInv, SeatsTyped, SeatRow, LeaversSit,
                            LeaversInHand
<1>2. CountsTyped'
  BY BoundsAssumption DEF StartHand, Inv, CountsTyped
<1> QED BY <1>1, <1>2, Framed DEF StartHand, Inv, CallsTyped

LEMMA EndHandInv ==
  ASSUME Inv, NEW r \in Rooms, EndHand(r) PROVE Inv'
<1>1. leaving[r] \in SUBSET Users /\ \A u \in leaving[r] : seat[r][u] # NoSeat
  BY DEF Inv, SeatsInv, SeatsTyped, LeaversSit
<1> QED BY <1>1, HandDoneKeeps, Framed DEF EndHand, Inv, CallsTyped

LEMMA EndRoomInv ==
  ASSUME Inv, NEW r \in Rooms, EndRoom(r) PROVE Inv'
<1>1. Sitting(r) \in SUBSET Users /\ \A u \in Sitting(r) : seat[r][u] # NoSeat
  BY DEF Sitting
<1>2. leaving' = [leaving EXCEPT ![r] = {}]
  BY DEF EndRoom, InHand, Inv, SeatsInv, SeatsTyped, LeaversInHand
<1>3. SeatsInv' /\ reserved' = reserved
  BY <1>1, <1>2, SettleKeeps DEF EndRoom, Inv, SeatsInv, SeatsTyped
<1> QED BY <1>3, Framed DEF EndRoom, Inv, CallsTyped

LEMMA FinishAbandonedInv ==
  ASSUME Inv, NEW r \in Rooms, FinishAbandoned(r) PROVE Inv'
<1>1. PICK q \in pending[r] : /\ Seated(r, q.user, q.seat) \/ Refused(r, q.user, q.seat)
                              /\ pending' = [pending EXCEPT ![r] = @ \ {q}]
  BY DEF FinishAbandoned
<1>2. q.user \in Users /\ q.seat \in Seats
  BY DEF Inv, CallsTyped, Requests
<1>3. SeatsInv' /\ reserved' \in [Rooms -> [Seats -> Users \cup {Nobody}]]
  BY <1>1, <1>2, SeatedKeeps, RefusedKeeps DEF Inv
<1>4. pending' \in [Rooms -> SUBSET Requests]
  BY <1>1 DEF Inv, CallsTyped
<1> QED BY <1>3, <1>4, Framed DEF FinishAbandoned, Inv, CallsTyped

LEMMA SeatClosedInv ==
  ASSUME Inv, NEW r \in Rooms, NEW u \in Users, SeatClosed(r, u) PROVE Inv'
<1>1. ManagerTyped'
  BY ReleaseSeatTyped DEF SeatClosed, Inv
<1>2. SeatsInv' /\ CallsTyped'
  BY DEF SeatClosed, Inv, SeatsInv, SeatsTyped, SeatRow, LeaversSit, LeaversInHand, CallsTyped
<1> QED BY <1>1, <1>2, Framed DEF SeatClosed, Inv

LEMMA CreateInv ==
  ASSUME Inv, NEW r \in Rooms, NEW u \in Users, Create(u, r) PROVE Inv'
<1>1. ManagerTyped'
  BY DEF Create, Inv, ManagerTyped
<1>2. SeatsTyped' /\ CallsTyped'
  BY NamesAssumption DEF Create, Inv, SeatsInv, SeatsTyped, CallsTyped
<1>3. SeatRow'
  <2>1. \A q \in Rooms : seat[q][u] = NoSeat
    BY NamesAssumption DEF Create, Inv, SeatsInv, SeatRow
  <2> QED BY <2>1 DEF Create, Inv, SeatsInv, SeatsTyped, SeatRow
<1>4. LeaversSit' /\ LeaversInHand'
  BY NamesAssumption DEF Create, Inv, SeatsInv, SeatsTyped, LeaversSit, LeaversInHand
<1> QED BY <1>1, <1>2, <1>3, <1>4, Framed DEF Create, Inv, SeatsInv

LEMMA ExpiryInv ==
  ASSUME Inv, NEW r \in Rooms, ExpireEmptyRoom(r) \/ CloseExpiredRoom(r) PROVE Inv'
<1>1. ManagerTyped'
  BY DEF ExpireEmptyRoom, CloseExpiredRoom, Inv, ManagerTyped
<1> QED BY <1>1, Framed DEF ExpireEmptyRoom, CloseExpiredRoom, Inv

\* What a restart loads is seated, so every entry it makes names a room.
LEMMA CrashInv ==
  ASSUME Inv, CrashAndRestore PROVE Inv'
<1> DEFINE loaded == {r \in created \ (closed \cup ended) : Sitting(r) # {}}
           entry(u) == IF \E r \in loaded : seat[r][u] # NoSeat
                       THEN CHOOSE r \in loaded : seat[r][u] # NoSeat ELSE NoRoom
<1>1. loaded \subseteq created
  OBVIOUS
<1>2. \A u \in Users : entry(u) \in created \cup {NoRoom}
  <2> SUFFICES ASSUME NEW u \in Users PROVE entry(u) \in loaded \cup {NoRoom}
    BY <1>1
  <2> HIDE DEF loaded
  <2> QED OBVIOUS
<1>3. /\ rooms' = loaded /\ closed' = created \ loaded /\ timed' = {}
      /\ active' = [u \in Users |-> entry(u)]
  BY DEF CrashAndRestore
<1>4. ManagerTyped'
  <2> HIDE DEF loaded, entry
  <2> QED BY <1>1, <1>2, <1>3 DEF CrashAndRestore, Inv, ManagerTyped
<1>5. SeatsInv' /\ CallsTyped'
  BY DEF CrashAndRestore, Inv, SeatsInv, SeatsTyped, SeatRow, LeaversSit, LeaversInHand,
         CallsTyped
<1>6. CountsTyped' /\ JoinTyped'
  BY BoundsAssumption DEF CrashAndRestore, Inv, CountsTyped, JoinTyped
<1> QED BY <1>4, <1>5, <1>6 DEF Inv

LEMMA StartJoinInv ==
  ASSUME Inv, NEW u \in Users, NEW r \in Rooms, NEW s \in Seats, StartJoin(u, r, s) PROVE Inv'
<1>1. JoinTyped'
  <2> DEFINE from == IF active[u] \in rooms THEN active[u] ELSE NoRoom
  <2>1. from \in Rooms \cup {NoRoom}
    BY DEF Inv, ManagerTyped
  <2>2. join' = [user |-> u, target |-> r, seat |-> s, from |-> from, back |-> NoSeat,
                 step |-> IF from = NoRoom THEN "move" ELSE "check", cancelled |-> FALSE]
    BY DEF StartJoin
  <2> HIDE DEF from
  <2> QED BY <2>1, <2>2, NamesAssumption DEF JoinTyped, Joins, Steps, SwitchSteps
<1>2. CountsTyped'
  BY BoundsAssumption DEF StartJoin, Inv, CountsTyped
<1> QED BY <1>1, <1>2, Framed DEF StartJoin, Inv

LEMMA CheckSeatInv ==
  ASSUME Inv, CheckSeat PROVE Inv'
<1>1. join \in Joins /\ join.user \in Users /\ join.from \in Rooms
  BY AtStep DEF CheckSeat, Inv, SwitchSteps
<1>2. CASE join' = Idle
  BY <1>2, Framed DEF CheckSeat, Inv, JoinTyped
<1>3. CASE /\ join' = [join EXCEPT !.step = "reserve", !.back = seat[join.from][join.user]]
           /\ seat[join.from][join.user] # NoSeat
  <2>1. seat[join.from][join.user] \in Seats
    BY <1>1, <1>3 DEF Inv, SeatsInv, SeatsTyped
  <2>2. JoinTyped'
    BY <1>1, <1>3, <2>1 DEF JoinTyped, Joins, Steps, SwitchSteps
  <2> QED BY <2>2, Framed DEF CheckSeat, Inv
<1> QED BY <1>2, <1>3 DEF CheckSeat

LEMMA ReserveInv ==
  ASSUME Inv, ReserveSeatForSwitch PROVE Inv'
<1>1. /\ join \in Joins /\ join.user \in Users /\ join.target \in Rooms /\ join.seat \in Seats
      /\ join.from \in Rooms /\ join.back \in Seats
  BY AtStep, NamesAssumption DEF ReserveSeatForSwitch, Inv, SwitchSteps
<1>2. JoinTyped'
  <2>1. CASE GoTo("leave")
    BY <1>1, <2>1, GoToTyped DEF Steps
  <2>2. CASE join' = Idle
    BY <2>2 DEF JoinTyped
  <2> QED BY <2>1, <2>2 DEF ReserveSeatForSwitch
<1>3. CallsTyped'
  BY <1>1 DEF ReserveSeatForSwitch, Inv, CallsTyped
<1> QED BY <1>2, <1>3, Framed DEF ReserveSeatForSwitch, Inv

LEMMA LeaveCurrentInv ==
  ASSUME Inv, LeaveCurrent PROVE Inv'
<1>1. /\ join \in Joins /\ join.user \in Users /\ join.from \in Rooms /\ join.back \in Seats
  BY AtStep, NamesAssumption DEF LeaveCurrent, Inv, SwitchSteps
<1>2. JoinTyped'
  <2>1. GoTo("left") \/ GoTo("unreserve")
    BY DEF LeaveCurrent
  <2> QED BY <1>1, <2>1, GoToTyped DEF Steps, SwitchSteps
<1>3. SeatsInv' /\ CallsTyped'
  BY <1>1, WithdrawKeeps, Framed DEF LeaveCurrent, Inv, CallsTyped
<1> QED BY <1>2, <1>3, Framed DEF LeaveCurrent, Inv

LEMMA LeaveAnsweredInv ==
  ASSUME Inv, LeaveAnswered PROVE Inv'
<1>1. join \in Joins /\ join.from \in Rooms /\ join.back \in Seats
  BY AtStep, NamesAssumption DEF LeaveAnswered, Inv, SwitchSteps
<1>2. JoinTyped'
  BY <1>1, GoToTyped DEF LeaveAnswered, Steps, SwitchSteps
<1> QED BY <1>2, Framed DEF LeaveAnswered, Inv

LEMMA MoveEntryInv ==
  ASSUME Inv, MoveEntry PROVE Inv'
<1>1. /\ join \in Joins /\ join.user \in Users /\ join.target \in Rooms
      /\ join.from # NoRoom => join.back \in Seats
  BY AtStep DEF MoveEntry, Inv
<1>2. JoinTyped'
  BY <1>1, GoToTyped DEF MoveEntry, Steps, SwitchSteps
<1>3. ManagerTyped'
  BY <1>1 DEF MoveEntry, Inv, ManagerTyped
<1> QED BY <1>2, <1>3, Framed DEF MoveEntry, Inv

LEMMA JoinTargetInv ==
  ASSUME Inv, JoinTarget PROVE Inv'
<1>1. /\ join \in Joins /\ join.user \in Users /\ join.target \in Rooms /\ join.seat \in Seats
      /\ join.from # NoRoom => join.back \in Seats
  BY AtStep DEF JoinTarget, Inv
<1>2. JoinTyped'
  BY <1>1, DoneTyped, FailedTyped DEF JoinTarget
<1>3. SeatsInv' /\ CallsTyped'
  BY <1>1, SeatedKeeps, RefusedKeeps, Framed DEF JoinTarget, Inv, CallsTyped
<1> QED BY <1>2, <1>3, Framed DEF JoinTarget, Inv

LEMMA UndoInv ==
  ASSUME Inv, UndoMove \/ ReturnEntry PROVE Inv'
<1>1. /\ join \in Joins /\ join.user \in Users /\ join.from \in Rooms /\ join.back \in Seats
  BY AtStep, NamesAssumption DEF UndoMove, ReturnEntry, Inv, SwitchSteps
<1>2. JoinTyped'
  BY <1>1, GoToTyped DEF UndoMove, ReturnEntry, Steps, SwitchSteps
<1>3. ManagerTyped'
  BY <1>1, ReleaseSeatTyped DEF UndoMove, ReturnEntry, Inv, ManagerTyped
<1> QED BY <1>2, <1>3, Framed DEF UndoMove, ReturnEntry, Inv

LEMMA RejoinInv ==
  ASSUME Inv, RejoinCurrent PROVE Inv'
<1>1. /\ join \in Joins /\ join.user \in Users /\ join.from \in Rooms /\ join.back \in Seats
  BY AtStep, NamesAssumption DEF RejoinCurrent, Inv, SwitchSteps
<1>2. JoinTyped'
  <2>1. GoTo("unreserve") \/ GoTo("drop")
    BY DEF RejoinCurrent
  <2> QED BY <1>1, <2>1, GoToTyped DEF Steps, SwitchSteps
<1>3. SeatsInv' /\ CallsTyped'
  BY <1>1, SeatedKeeps, RefusedKeeps, Framed DEF RejoinCurrent, Inv, CallsTyped
<1> QED BY <1>2, <1>3, Framed DEF RejoinCurrent, Inv

LEMMA DropEntryInv ==
  ASSUME Inv, DropEntry PROVE Inv'
<1>1. join \in Joins /\ join.user \in Users /\ (join.from # NoRoom => join.back \in Seats)
  BY AtStep DEF DropEntry, Inv
<1>2. JoinTyped' /\ ManagerTyped'
  BY <1>1, DoneTyped, ReleaseSeatTyped DEF DropEntry, Inv
<1> QED BY <1>2, Framed DEF DropEntry, Inv

LEMMA ReleaseReservationInv ==
  ASSUME Inv, ReleaseReservation PROVE Inv'
<1>1. join.user \in Users /\ join.target \in Rooms
  BY AtStep DEF ReleaseReservation, Inv
<1>2. CallsTyped'
  BY <1>1, UnreserveTyped DEF ReleaseReservation, Inv, CallsTyped
<1> QED BY <1>2, Framed DEF ReleaseReservation, Inv, JoinTyped

LEMMA GiveUpInv ==
  ASSUME Inv, GiveUp PROVE Inv'
<1>1. CASE Cancel
  <2>1. JoinTyped'
    BY <1>1 DEF Cancel, Inv, JoinTyped, Joins
  <2> QED BY <1>1, <2>1, Framed DEF Cancel, Inv
<1>2. CASE GiveUpJoin
  <2>1. /\ join \in Joins /\ join.user \in Users /\ join.target \in Rooms /\ join.seat \in Seats
        /\ join.from # NoRoom => join.back \in Seats
        /\ At("rejoin") => join.from \in Rooms
    BY <1>2, AtStep DEF GiveUpJoin, Inv, SwitchSteps
  <2>2. JoinTyped'
    BY <1>2, <2>1, FailedTyped, GoToTyped DEF GiveUpJoin, Steps, SwitchSteps
  <2>3. CASE At("join") /\ join.step = "join"
    <3>1. CallsTyped'
      BY <1>2, <2>1, <2>3 DEF GiveUpJoin, Inv, CallsTyped, Requests
    <3> QED BY <1>2, <2>2, <3>1, Framed DEF GiveUpJoin, Inv
  <2>4. CASE At("rejoin") /\ join.step # "join"
    <3>1. CallsTyped'
      BY <1>2, <2>1, <2>4, NamesAssumption DEF GiveUpJoin, Inv, CallsTyped, Requests
    <3> QED BY <1>2, <2>2, <3>1, Framed DEF GiveUpJoin, Inv
  <2> QED BY <1>2, <2>3, <2>4 DEF GiveUpJoin, At
<1>3. CASE GiveUpSwitch
  <2>1. join.user \in Users /\ join.target \in Rooms /\ join.seat \in Seats
    BY <1>3, AtStep DEF GiveUpSwitch, Inv
  <2>2. CallsTyped'
    BY <1>3, <2>1 DEF GiveUpSwitch, Inv, CallsTyped
  <2> QED BY <1>3, <2>2, Framed DEF GiveUpSwitch, Inv, JoinTyped
<1>4. CASE GiveUpLeave
  <2>1. join \in Joins /\ join.user \in Users /\ join.from \in Rooms /\ join.back \in Seats
    BY <1>4, AtStep, NamesAssumption DEF GiveUpLeave, Inv, SwitchSteps
  <2>2. JoinTyped'
    BY <1>4, <2>1, GoToTyped DEF GiveUpLeave, Steps, SwitchSteps
  <2>3. SeatsInv' /\ CallsTyped'
    BY <1>4, <2>1, WithdrawKeeps, Framed DEF GiveUpLeave, Inv, CallsTyped
  <2> QED BY <1>4, <2>2, <2>3, Framed DEF GiveUpLeave, Inv
<1> QED BY <1>1, <1>2, <1>3, <1>4 DEF GiveUp

-----------------------------------------------------------------------------

LEMMA NextInv ==
  ASSUME Inv, [Next]_vars PROVE Inv'
<1>1. CASE JoinStep
  BY <1>1, CheckSeatInv, ReserveInv, LeaveCurrentInv, LeaveAnsweredInv, MoveEntryInv,
     JoinTargetInv, UndoInv, RejoinInv, DropEntryInv, ReleaseReservationInv DEF JoinStep
<1>2. CASE GiveUp \/ CrashAndRestore
  BY <1>2, GiveUpInv, CrashInv
<1>3. CASE \E r \in Rooms : RoomStep(r)
  BY <1>3, EndHandInv, FinishAbandonedInv, ExpiryInv, SeatClosedInv DEF RoomStep
<1>4. CASE \E r \in Rooms : RoomCommand(r)
  BY <1>4, StartHandInv, EndRoomInv, LeaveInv, CreateInv, StartJoinInv DEF RoomCommand
<1>5. CASE UNCHANGED vars
  BY <1>5, Framed DEF vars, Inv
<1> QED BY <1>1, <1>2, <1>3, <1>4, <1>5 DEF Next

LEMMA Invariant == Spec => []Inv
  BY InitInv, NextInv, PTL DEF Spec

\* The manager's maps, the actors and the Join under way keep their types; a room
\* that can be found exists and is not closed.
THEOREM TypeCorrect == Spec => []TypeOK
  BY Invariant, InvType, PTL

\* No user ever holds seats in two rooms: a switch, its undoing, a Join that goes on
\* after its caller gave up, an expiry and a restart included (manager.go's Join).
THEOREM NeverAtTwoTables == Spec => []OneTable
  BY Invariant, InvOneTable, PTL

-----------------------------------------------------------------------------
(* The entries of activeSeat *)

\* the user sits in the room or is about to be reported to the manager
Backed(u, r) == seat[r][u] # NoSeat \/ u \in releasing[r]

EntryBacked(u) == active[u] # NoRoom => Backed(u, active[u])

\* the steps of a Join that may find its user with an entry and no seat
Rewriting(u) ==
  /\ Joining(u)
  /\ \/ join.step \in {"undo", "drop"}
     \/ join.step = "join" /\ active[u] = join.target
     \/ join.step = "rejoin" /\ active[u] = join.from

EntriesInv == \A u \in Users : EntryBacked(u) \/ Rewriting(u)

\* nobody loses a seat without being about to be reported
SeatsReported == \A u \in Users, r \in Rooms : Backed(u, r) => Backed(u, r)'

LEMMA EntriesHaveSeats == EntriesInv => EntryHasSeat
  BY DEF EntriesInv, EntryBacked, Backed, Rewriting, EntryHasSeat

LEMMA InitEntries == Init => EntriesInv
  BY DEF Init, EntriesInv, EntryBacked

\* Users are settled by an actor that has reported all those before.
LEMMA SettleReports ==
  ASSUME Inv, NEW r \in Rooms, NEW gone \in SUBSET Users, Settle(r, gone), releasing[r] = {}
  PROVE  SeatsReported
  BY DEF Inv, SeatsInv, SeatsTyped, Settle, SeatsReported, Backed

LEMMA WithdrawReports ==
  ASSUME Inv, NEW r \in Rooms, NEW u \in Users, Withdraw(r, u)
  PROVE  SeatsReported
<1>1. leaving[r] \cup {u} \in SUBSET Users /\ releasing[r] = {}
  BY DEF Inv, SeatsInv, SeatsTyped, Withdraw, Ready
<1>2. CASE Settle(r, leaving[r] \cup {u})
  BY <1>1, <1>2, SettleReports
<1>3. CASE UNCHANGED <<seat, releasing>>
  BY <1>3 DEF SeatsReported, Backed
<1> QED BY <1>2, <1>3 DEF Withdraw, HandDone

LEMMA SeatedReports ==
  ASSUME Inv, NEW r \in Rooms, NEW u \in Users, NEW s \in Seats, Seated(r, u, s)
  PROVE  SeatsReported /\ seat'[r][u] # NoSeat
  BY NamesAssumption DEF Inv, SeatsInv, SeatsTyped, Seated, SeatsReported, Backed

LEMMA SameReports ==
  ASSUME UNCHANGED <<seat, releasing>>
  PROVE  SeatsReported
  BY DEF SeatsReported, Backed

\* No entry changes and the Join is where it was.
LEMMA EntriesFramed ==
  ASSUME Inv, EntriesInv, SeatsReported, UNCHANGED <<active, join>>
  PROVE  EntriesInv'
  BY DEF Inv, ManagerTyped, EntriesInv, EntryBacked, SeatsReported, Rewriting, Joining

\* Only the entry of the Join's user changes, and it has a seat behind it or is
\* going to be rewritten.
LEMMA EntriesMoved ==
  ASSUME Inv, EntriesInv, SeatsReported, NEW u, u = join.user,
         \A v \in Users \ {u} : active'[v] = active[v],
         u \in Users => EntryBacked(u)' \/ Rewriting(u)'
  PROVE  EntriesInv'
<1>1. ASSUME NEW v \in Users, v # u PROVE EntryBacked(v)'
  <2>1. EntryBacked(v) /\ active'[v] = active[v] /\ active[v] \in Rooms \cup {NoRoom}
    BY <1>1 DEF EntriesInv, Rewriting, Joining, Inv, ManagerTyped
  <2> QED BY <2>1 DEF EntryBacked, SeatsReported
<1> QED BY <1>1 DEF EntriesInv

\* A Join goes on to a step that finds the entry backed.
LEMMA EntriesBacked ==
  ASSUME Inv, EntriesInv, SeatsReported, UNCHANGED active,
         join.user \in Users => EntryBacked(join.user)
  PROVE  EntriesInv'
<1>1. PICK u : u = join.user
  OBVIOUS
<1>2. u \in Users => EntryBacked(u)'
  BY <1>1 DEF EntryBacked, SeatsReported, Inv, ManagerTyped
<1> QED BY <1>1, <1>2, EntriesMoved

\* A Join goes on to a step at which its entry may have no seat.
LEMMA GoesOn ==
  ASSUME join \in Joins, NEW step \in Steps, GoTo(step), NEW u, u = join.user
  PROVE  /\ join' \in Joins /\ Joining(u)' /\ join'.step = step
         /\ join'.target = join.target /\ join'.from = join.from
<1>1. join' \in Joins /\ join'.user = join.user
  BY DEF GoTo, Joins
<1> QED BY <1>1, IdleAssumption DEF GoTo, Joins, Joining

LEMMA FailedEntries ==
  ASSUME Inv, EntriesInv, join \in Joins, SeatsReported, UNCHANGED active,
         Failed \/ GoTo("drop")
  PROVE  EntriesInv'
<1>1. GoTo("undo") \/ GoTo("drop")
  BY DEF Failed
<1>2. PICK u : u = join.user
  OBVIOUS
<1>3. Rewriting(u)'
  BY <1>1, <1>2, GoesOn DEF Rewriting, Steps
<1> QED BY <1>2, <1>3, EntriesMoved

-----------------------------------------------------------------------------
(* The entries after each step *)

LEMMA RoomEntries ==
  ASSUME Inv, EntriesInv, NEW r \in Rooms, RoomStep(r)
  PROVE  EntriesInv'
<1>1. CASE EndHand(r)
  <2>1. leaving[r] \in SUBSET Users /\ releasing[r] = {} /\ Settle(r, leaving[r])
    BY <1>1 DEF EndHand, HandDone, Ready, Inv, SeatsInv, SeatsTyped
  <2> QED BY <1>1, <2>1, SettleReports, EntriesFramed DEF EndHand, manager
<1>2. CASE FinishAbandoned(r)
  <2>1. PICK q \in pending[r] : Seated(r, q.user, q.seat) \/ Refused(r, q.user, q.seat)
    BY <1>2 DEF FinishAbandoned
  <2>2. q.user \in Users /\ q.seat \in Seats
    BY DEF Inv, CallsTyped, Requests
  <2>3. SeatsReported
    BY <2>1, <2>2, SeatedReports, SameReports DEF Refused
  <2> QED BY <1>2, <2>3, EntriesFramed DEF FinishAbandoned, manager
<1>3. CASE ExpireEmptyRoom(r) \/ CloseExpiredRoom(r)
  BY <1>3, SameReports, EntriesFramed DEF ExpireEmptyRoom, CloseExpiredRoom, actors
<1>4. ASSUME NEW u \in Users, SeatClosed(r, u) PROVE EntriesInv'
  <2>1. /\ active' = [active EXCEPT ![u] = NoRoom] /\ UNCHANGED <<seat, join>>
        /\ releasing' = [releasing EXCEPT ![r] = @ \ {u}]
        /\ active \in [Users -> Rooms \cup {NoRoom}]
        /\ releasing \in [Rooms -> SUBSET Users]
    BY <1>4 DEF SeatClosed, ReleaseSeat, Inv, ManagerTyped, SeatsInv, SeatsTyped
  <2>2. EntryBacked(u)'
    BY <2>1 DEF EntryBacked
  <2>3. ASSUME NEW v \in Users, v # u PROVE EntryBacked(v)' \/ Rewriting(v)'
    BY <2>1, <2>3 DEF EntriesInv, EntryBacked, Backed, Rewriting, Joining
  <2> QED BY <2>2, <2>3 DEF EntriesInv
<1> QED BY <1>1, <1>2, <1>3, <1>4 DEF RoomStep

LEMMA CommandEntries ==
  ASSUME Inv, EntriesInv, NEW r \in Rooms, RoomCommand(r)
  PROVE  EntriesInv'
<1>1. CASE StartHand(r)
  BY <1>1, SameReports, EntriesFramed DEF StartHand, manager
<1>2. CASE EndRoom(r)
  <2>1. Sitting(r) \in SUBSET Users /\ releasing[r] = {}
    BY <1>2 DEF Sitting, EndRoom, Ready
  <2> QED BY <1>2, <2>1, SettleReports, EntriesFramed DEF EndRoom, manager
<1>3. ASSUME NEW u \in Users, Leave(r, u) PROVE EntriesInv'
  BY <1>3, WithdrawReports, EntriesFramed DEF Leave, manager
<1>4. ASSUME NEW u \in Users, Create(u, r) PROVE EntriesInv'
  <2>1. /\ active' = [active EXCEPT ![u] = r] /\ UNCHANGED <<releasing, join>>
        /\ seat' = [seat EXCEPT ![r][u] = FirstSeat]
        /\ active \in [Users -> Rooms \cup {NoRoom}]
        /\ seat \in [Rooms -> [Users -> Seats \cup {NoSeat}]]
    BY <1>4 DEF Create, Inv, ManagerTyped, SeatsInv, SeatsTyped
  <2>2. EntryBacked(u)'
    BY <2>1, NamesAssumption DEF EntryBacked, Backed
  <2>3. ASSUME NEW v \in Users, v # u PROVE EntryBacked(v)' \/ Rewriting(v)'
    BY <2>1, <2>3 DEF EntriesInv, EntryBacked, Backed, Rewriting, Joining
  <2> QED BY <2>2, <2>3 DEF EntriesInv
<1>5. ASSUME NEW u \in Users, NEW s \in Seats, StartJoin(u, r, s) PROVE EntriesInv'
  BY <1>5 DEF StartJoin, actors, manager, EntriesInv, EntryBacked, Backed, Rewriting, Joining
<1> QED BY <1>1, <1>2, <1>3, <1>4, <1>5 DEF RoomCommand

\* At the steps that are not among Rewriting's the entry is backed.
LEMMA BackedAt ==
  ASSUME Inv, EntriesInv, NEW step, At(step), step \notin {"undo", "drop", "join", "rejoin"}
  PROVE  join.user \in Users /\ EntryBacked(join.user)
  BY AtStep DEF Inv, EntriesInv, Rewriting, At

LEMMA SwitchEntries ==
  ASSUME Inv, EntriesInv,
         CheckSeat \/ ReserveSeatForSwitch \/ LeaveCurrent \/ LeaveAnswered \/ ReleaseReservation
  PROVE  EntriesInv'
<1>1. join.user \in Users /\ EntryBacked(join.user)
  BY BackedAt DEF CheckSeat, ReserveSeatForSwitch, LeaveCurrent, LeaveAnswered, ReleaseReservation
<1>2. SeatsReported
  <2>1. CASE LeaveCurrent
    <3>1. join.from \in Rooms
      BY <2>1, AtStep DEF LeaveCurrent, Inv, SwitchSteps
    <3> QED BY <1>1, <2>1, <3>1, WithdrawReports, SameReports DEF LeaveCurrent, actors
  <2>2. CASE ~LeaveCurrent
    BY <2>2, SameReports
    DEF CheckSeat, ReserveSeatForSwitch, LeaveAnswered, ReleaseReservation, actors
  <2> QED BY <2>1, <2>2
<1>3. UNCHANGED active
  BY DEF CheckSeat, ReserveSeatForSwitch, LeaveCurrent, LeaveAnswered, ReleaseReservation, manager
<1> QED BY <1>1, <1>2, <1>3, EntriesBacked

\* An entry is set to a room right before the Join of it.
LEMMA SetEntries ==
  ASSUME Inv, EntriesInv, MoveEntry \/ ReturnEntry
  PROVE  EntriesInv'
<1>1. join \in Joins /\ join.user \in Users /\ active \in [Users -> Rooms \cup {NoRoom}]
  BY AtStep DEF MoveEntry, ReturnEntry, Inv, ManagerTyped
<1>2. PICK u : u = join.user
  OBVIOUS
<1>3. Rewriting(u)'
  BY <1>1, <1>2, GoesOn DEF MoveEntry, ReturnEntry, Rewriting, Steps
<1>4. \A v \in Users \ {u} : active'[v] = active[v]
  BY <1>1, <1>2 DEF MoveEntry, ReturnEntry
<1> QED BY <1>2, <1>3, <1>4, SameReports, EntriesMoved DEF MoveEntry, ReturnEntry, actors

LEMMA ClearEntries ==
  ASSUME Inv, EntriesInv, UndoMove \/ DropEntry
  PROVE  EntriesInv'
<1>1. /\ join.user \in Users /\ active \in [Users -> Rooms \cup {NoRoom}]
      /\ active' = [active EXCEPT ![join.user] = NoRoom]
  BY AtStep DEF UndoMove, DropEntry, ReleaseSeat, Inv, ManagerTyped
<1>2. PICK u : u = join.user
  OBVIOUS
<1>3. EntryBacked(u)' /\ \A v \in Users \ {u} : active'[v] = active[v]
  BY <1>1, <1>2 DEF EntryBacked
<1> QED BY <1>2, <1>3, SameReports, EntriesMoved DEF UndoMove, DropEntry, actors

\* The seat is taken in the room the entry names, unless that was cleared meanwhile.
LEMMA TakeSeatEntries ==
  ASSUME Inv, EntriesInv, JoinTarget \/ RejoinCurrent
  PROVE  EntriesInv'
<1>1. /\ join \in Joins /\ join.user \in Users /\ join.target \in Rooms /\ join.seat \in Seats
      /\ At("rejoin") => join.from \in Rooms /\ join.back \in Seats
  BY AtStep, NamesAssumption DEF JoinTarget, RejoinCurrent, Inv, SwitchSteps
<1>2. UNCHANGED active /\ active \in [Users -> Rooms \cup {NoRoom}]
  BY DEF JoinTarget, RejoinCurrent, manager, Inv, ManagerTyped
<1>3. CASE JoinTarget /\ Seated(join.target, join.user, join.seat)
  <2>1. SeatsReported /\ seat'[join.target][join.user] # NoSeat
    BY <1>1, <1>3, SeatedReports
  <2>2. EntryBacked(join.user) \/ active[join.user] = join.target
    BY <1>1, <1>3 DEF JoinTarget, At, EntriesInv, Rewriting
  <2>3. PICK u : u = join.user
    OBVIOUS
  <2>4. EntryBacked(u)'
    BY <1>1, <1>2, <2>1, <2>2, <2>3 DEF EntryBacked, SeatsReported, Backed
  <2> QED BY <1>2, <2>1, <2>3, <2>4, EntriesMoved
<1>4. CASE RejoinCurrent /\ Seated(join.from, join.user, join.back)
  <2>1. SeatsReported /\ seat'[join.from][join.user] # NoSeat
    BY <1>1, <1>4, SeatedReports DEF RejoinCurrent
  <2>2. EntryBacked(join.user) \/ active[join.user] = join.from
    BY <1>1, <1>4 DEF RejoinCurrent, At, EntriesInv, Rewriting
  <2>3. PICK u : u = join.user
    OBVIOUS
  <2>4. EntryBacked(u)'
    BY <1>1, <1>2, <2>1, <2>2, <2>3 DEF EntryBacked, SeatsReported, Backed
  <2> QED BY <1>2, <2>1, <2>3, <2>4, EntriesMoved
<1>5. CASE (Failed \/ GoTo("drop")) /\ UNCHANGED <<seat, releasing>>
  BY <1>1, <1>2, <1>5, SameReports, FailedEntries
<1> QED BY <1>3, <1>4, <1>5 DEF JoinTarget, RejoinCurrent, Refused, actors

LEMMA GiveUpEntries ==
  ASSUME Inv, EntriesInv, GiveUp
  PROVE  EntriesInv'
<1>1. CASE Cancel
  <2>1. /\ join \in Joins /\ join' = [join EXCEPT !.cancelled = TRUE]
        /\ UNCHANGED <<seat, releasing, active>>
    BY <1>1 DEF Cancel, Inv, JoinTyped, actors, manager
  <2>2. /\ join' \in Joins /\ join'.user = join.user /\ join'.step = join.step
        /\ join'.target = join.target /\ join'.from = join.from
    BY <2>1 DEF Joins
  <2>3. \A u \in Users : Rewriting(u) => Rewriting(u)'
    BY <2>1, <2>2, IdleAssumption DEF Rewriting, Joining
  <2> QED BY <2>1, <2>3 DEF EntriesInv, EntryBacked, Backed
<1>2. CASE GiveUpJoin
  <2>1. join \in Joins /\ (Failed \/ GoTo("drop")) /\ UNCHANGED <<seat, releasing, active>>
    BY <1>2, AtStep DEF GiveUpJoin, Inv, manager
  <2> QED BY <2>1, SameReports, FailedEntries
<1>3. CASE GiveUpSwitch
  <2>1. EntryBacked(join.user) /\ UNCHANGED <<seat, releasing, active>>
    BY <1>3, BackedAt DEF GiveUpSwitch, manager
  <2> QED BY <2>1, SameReports, EntriesBacked
<1>4. CASE GiveUpLeave
  <2>1. join.user \in Users /\ EntryBacked(join.user) /\ join.from \in Rooms
    BY <1>4, BackedAt, AtStep DEF GiveUpLeave, Inv, SwitchSteps
  <2>2. SeatsReported /\ UNCHANGED active
    BY <1>4, <2>1, WithdrawReports, SameReports DEF GiveUpLeave, actors, manager
  <2> QED BY <2>1, <2>2, EntriesBacked
<1> QED BY <1>1, <1>2, <1>3, <1>4 DEF GiveUp

\* What a restart enters it found seated.
LEMMA CrashEntries ==
  ASSUME Inv, CrashAndRestore
  PROVE  EntriesInv'
<1> DEFINE loaded == {r \in created \ (closed \cup ended) : Sitting(r) # {}}
<1>1. /\ seat' = seat
      /\ active' = [u \in Users |-> IF \E r \in loaded : seat[r][u] # NoSeat
                      THEN CHOOSE r \in loaded : seat[r][u] # NoSeat ELSE NoRoom]
  BY DEF CrashAndRestore
<1> HIDE DEF loaded
<1>2. ASSUME NEW u \in Users, active'[u] # NoRoom PROVE seat[active'[u]][u] # NoSeat
  <2>1. PICK r \in loaded : seat[r][u] # NoSeat
    BY <1>1, <1>2
  <2>2. active'[u] = CHOOSE q \in loaded : seat[q][u] # NoSeat
    BY <1>1, <2>1
  <2> QED BY <2>1, <2>2
<1> QED BY <1>1, <1>2 DEF EntriesInv, EntryBacked, Backed

LEMMA NextEntries ==
  ASSUME Inv, EntriesInv, [Next]_vars PROVE EntriesInv'
<1>1. CASE JoinStep
  BY <1>1, SwitchEntries, SetEntries, ClearEntries, TakeSeatEntries DEF JoinStep
<1>2. CASE GiveUp \/ CrashAndRestore
  BY <1>2, GiveUpEntries, CrashEntries
<1>3. CASE \E r \in Rooms : RoomStep(r) \/ RoomCommand(r)
  BY <1>3, RoomEntries, CommandEntries
<1>4. CASE UNCHANGED vars
  BY <1>4, SameReports, EntriesFramed DEF vars, actors, manager
<1> QED BY <1>1, <1>2, <1>3, <1>4 DEF Next

\* With every race at once, nobody is kept out of other rooms by an entry without a
\* seat: who has one sits there, is joining, or is about to be reported (manager.go's
\* Join and releaseSeat).
THEOREM NobodyKeptOut == Spec => []EntryHasSeat
<1>1. Inv /\ EntriesInv /\ [Next]_vars => EntriesInv'
  BY NextEntries
<1> QED BY <1>1, Invariant, InitEntries, EntriesHaveSeats, PTL DEF Spec

-----------------------------------------------------------------------------
(* Reservations.  A seat is kept for the Join that is going to take it, as *)
(* long as that Join is not given up by its client and its deferred release *)
(* reaches the actor.                                                       *)

\* the Join goes on, for the same user, rooms and seat
SameJoin ==
  /\ join' # Idle
  /\ join'.user = join.user /\ join'.target = join.target /\ join'.seat = join.seat
  /\ join'.from = join.from /\ (join'.cancelled => join.cancelled)

NotCancelled == join # Idle => ~join.cancelled

\* the steps of a switch between its reservation and the release of it
Kept == {"leave", "left", "move", "join", "undo", "return", "rejoin", "drop", "unreserve"}

Keeping == join # Idle /\ join.from # NoRoom /\ join.step \in Kept

ReservedInv ==
  \A r \in Rooms \ closed, s \in Seats : reserved[r][s] # Nobody =>
    Keeping /\ join.user = reserved[r][s] /\ join.target = r /\ join.seat = s

\* reservations are given up at most
NoneReserved == \A r \in Rooms, s \in Seats : reserved'[r][s] \in {reserved[r][s], Nobody}

\* That is more than the property.
LEMMA ReservedInvKept == ReservedInv => ReservedForJoin
BY DEF ReservedInv, ReservedForJoin, Keeping

\* What GoTo changes is the step.
LEMMA GoToSame ==
  ASSUME join \in Joins, NEW step \in Steps, GoTo(step)
  PROVE  SameJoin /\ join'.step = step
<1>1. join' \in Joins /\ join' = [join EXCEPT !.step = step]
  BY DEF GoTo, Joins
<1> QED  BY <1>1, IdleAssumption DEF SameJoin, Joins

\* Every step of a Join ends it or takes it to another step.
LEMMA JoinGoesOn ==
  ASSUME Inv, JoinStep
  PROVE  join \in Joins /\ (join' = Idle \/ SameJoin)
<1>1. join \in Joins
  BY AtStep DEF JoinStep, CheckSeat, ReserveSeatForSwitch, LeaveCurrent, LeaveAnswered,
     MoveEntry, JoinTarget, UndoMove, ReturnEntry, RejoinCurrent, DropEntry,
     ReleaseReservation, Inv
<1>2. CASE CheckSeat
  <2> DEFINE next == [join EXCEPT !.step = "reserve", !.back = seat[join.from][join.user]]
  <2>1. join' = Idle \/ join' = next
    BY <1>2 DEF CheckSeat
  <2>2. CASE join' = next
    <3>1. /\ next.user = join.user /\ next.target = join.target /\ next.seat = join.seat
          /\ next.from = join.from /\ (next.cancelled => join.cancelled)
      BY <1>1 DEF Joins
    <3>2. join' # Idle
      <4>1. join.from \in Rooms /\ join.user \in Users
        BY <1>2, AtStep DEF CheckSeat, Inv, SwitchSteps
      <4>2. seat[join.from][join.user] \in Seats \cup {NoSeat}
        BY <4>1 DEF Inv, SeatsInv, SeatsTyped
      <4>3. next \in Joins
        BY <1>1, <4>2 DEF Joins, Steps
      <4> HIDE DEF next
      <4> QED  BY <2>2, <4>3, IdleAssumption
    <3> HIDE DEF next
    <3> QED  BY <1>1, <2>2, <3>1, <3>2 DEF SameJoin
  <2> QED  BY <1>1, <2>1, <2>2
<1>3. CASE \E step \in Steps : GoTo(step)
  BY <1>1, <1>3, GoToSame
<1>4. join' = Idle \/ CheckSeat \/ \E step \in Steps : GoTo(step)
  BY DEF JoinStep, ReserveSeatForSwitch, LeaveCurrent, LeaveAnswered, MoveEntry, JoinTarget,
     UndoMove, ReturnEntry, RejoinCurrent, DropEntry, ReleaseReservation, Done, Failed, Steps
<1> QED  BY <1>1, <1>2, <1>3, <1>4

\* No Join is given up where no client goes away.
LEMMA NextNotCancelled ==
  ASSUME Inv, NotCancelled, "cancel" \notin Races, [Next]_vars
  PROVE  NotCancelled' /\ ~GiveUp
<1>1. ~GiveUp
  BY DEF NotCancelled, GiveUp, Cancel, GiveUpJoin, GiveUpSwitch, GiveUpLeave, At
<1>2. CASE JoinStep
  <2>1. join # Idle
    BY <1>2, IdleAssumption, JoinGoesOn
  <2> QED  BY <1>1, <1>2, <2>1, JoinGoesOn DEF NotCancelled, SameJoin
<1>3. CASE CrashAndRestore
  BY <1>1, <1>3 DEF CrashAndRestore, NotCancelled
<1>4. ASSUME NEW r \in Rooms, RoomStep(r) PROVE UNCHANGED join
  BY <1>4 DEF RoomStep, EndHand, FinishAbandoned, ExpireEmptyRoom, CloseExpiredRoom, SeatClosed
<1>5. ASSUME NEW r \in Rooms, RoomCommand(r) PROVE NotCancelled'
  <2>1. CASE \E u \in Users, s \in Seats : StartJoin(u, r, s)
    BY <2>1 DEF StartJoin, NotCancelled
  <2>2. CASE UNCHANGED join
    BY <2>2 DEF NotCancelled
  <2> QED  BY <1>5, <2>1, <2>2 DEF RoomCommand, StartHand, EndRoom, Leave, Create
<1>6. CASE UNCHANGED join
  BY <1>1, <1>6 DEF NotCancelled
<1> QED  BY <1>1, <1>2, <1>3, <1>4, <1>5, <1>6 DEF Next, vars

\* Reservations are given up at most, and the Join that keeps one keeps it.
LEMMA ReservedFramed ==
  ASSUME ReservedInv, closed \subseteq closed', NoneReserved,
         Keeping => join' = join \/ (SameJoin /\ join'.step \in Kept)
  PROVE  ReservedInv'
<1> SUFFICES ASSUME NEW r \in Rooms \ closed', NEW s \in Seats, reserved'[r][s] # Nobody
             PROVE  /\ Keeping' /\ join'.user = reserved'[r][s]
                    /\ join'.target = r /\ join'.seat = s
  BY DEF ReservedInv
<1>1. reserved'[r][s] = reserved[r][s] /\ r \in Rooms \ closed
  BY DEF NoneReserved
<1>2. Keeping /\ join.user = reserved[r][s] /\ join.target = r /\ join.seat = s
  BY <1>1 DEF ReservedInv
<1> QED  BY <1>1, <1>2 DEF Keeping, SameJoin

\* What a Join releases is the seat it reserved.
LEMMA UnreserveFrees ==
  ASSUME Inv, NEW r \in Rooms, NEW u \in Users, NEW s \in Seats,
         Seated(r, u, s) \/ Refused(r, u, s)
  PROVE  NoneReserved
<1>1. Unreserve(r, u, s) \/ UNCHANGED reserved
  BY DEF Seated, Refused
<1> QED  BY <1>1 DEF Unreserve, NoneReserved, Inv, CallsTyped

\* A new reservation is for the Join that makes it.
LEMMA ReserveReserved ==
  ASSUME Inv, ReservedInv, ReserveSeatForSwitch
  PROVE  ReservedInv'
<1>1. /\ join \in Joins /\ join.user \in Users /\ join.target \in Rooms /\ join.seat \in Seats
      /\ join.from \in Rooms /\ join.step = "reserve"
  BY AtStep DEF ReserveSeatForSwitch, Inv, SwitchSteps, At
<1>2. \A r \in Rooms \ closed, s \in Seats : reserved[r][s] = Nobody
  BY <1>1 DEF ReservedInv, Keeping, Kept
<1>3. closed' = closed
  BY DEF ReserveSeatForSwitch, manager
<1>4. CASE UNCHANGED reserved
  BY <1>2, <1>3, <1>4 DEF ReservedInv
<1>5. CASE /\ reserved' = [reserved EXCEPT ![join.target][join.seat] = join.user]
           /\ GoTo("leave")
  <2>1. SameJoin /\ join'.step = "leave"
    BY <1>1, <1>5, GoToSame DEF Steps
  <2>2. Keeping'
    BY <1>1, <2>1, NamesAssumption DEF Keeping, SameJoin, Kept
  <2>3. ASSUME NEW r \in Rooms \ closed, NEW s \in Seats, reserved'[r][s] # Nobody
        PROVE  r = join.target /\ s = join.seat /\ reserved'[r][s] = join.user
    BY <1>1, <1>2, <1>5, <2>3 DEF Inv, CallsTyped
  <2> QED  BY <1>3, <2>1, <2>2, <2>3 DEF ReservedInv, SameJoin
<1> QED  BY <1>4, <1>5 DEF ReserveSeatForSwitch

\* The deferred release frees the seat before the Join is answered.
LEMMA ReleaseReserved ==
  ASSUME Inv, ReservedInv, "busy" \notin Races, ReleaseReservation
  PROVE  ReservedInv'
<1>1. join \in Joins /\ join.user \in Users /\ join.target \in Rooms /\ join.seat \in Seats
  BY AtStep DEF ReleaseReservation, Inv
<1>2. closed' = closed
  BY DEF ReleaseReservation, manager
<1> SUFFICES ASSUME NEW r \in Rooms \ closed, NEW s \in Seats PROVE reserved'[r][s] = Nobody
  BY <1>2 DEF ReservedInv
<1>3. CASE Unreserve(join.target, join.user, join.seat)
  BY <1>1, <1>3 DEF Unreserve, ReservedInv, Inv, CallsTyped
<1>4. CASE join.target \in closed /\ UNCHANGED reserved
  BY <1>4 DEF ReservedInv
<1> QED  BY <1>3, <1>4 DEF ReleaseReservation

\* Steps of a Join.
LEMMA JoinStepReserved ==
  ASSUME Inv, ReservedInv, "busy" \notin Races, JoinStep
  PROVE  ReservedInv'
<1>1. join \in Joins /\ (join' = Idle \/ SameJoin)
  BY JoinGoesOn
<1>2. CASE CheckSeat
  <2>1. join.step = "check" /\ closed' = closed /\ NoneReserved
    BY <1>2 DEF CheckSeat, At, manager, actors, NoneReserved
  <2> QED  BY <2>1, ReservedFramed DEF Keeping, Kept
<1>3. CASE LeaveCurrent \/ LeaveAnswered \/ MoveEntry \/ UndoMove \/ ReturnEntry
  <2>1. \E step \in Kept : GoTo(step)
    BY <1>3 DEF LeaveCurrent, LeaveAnswered, MoveEntry, UndoMove, ReturnEntry, Kept
  <2>2. SameJoin /\ join'.step \in Kept
    BY <1>1, <2>1, GoToSame DEF Steps, Kept
  <2>3. closed' = closed
    BY <1>3 DEF LeaveCurrent, LeaveAnswered, MoveEntry, UndoMove, ReturnEntry, ReleaseSeat,
       manager
  <2>4. NoneReserved
    <3>1. CASE LeaveCurrent
      <4>1. join.from \in Rooms /\ join.user \in Users
        BY <3>1, AtStep DEF LeaveCurrent, Inv, SwitchSteps
      <4> QED  BY <3>1, <4>1, WithdrawKeeps DEF LeaveCurrent, actors, NoneReserved, Inv
    <3>2. CASE ~LeaveCurrent
      BY <1>3, <3>2 DEF LeaveAnswered, MoveEntry, UndoMove, ReturnEntry, actors, NoneReserved
    <3> QED  BY <3>1, <3>2
  <2> QED  BY <2>2, <2>3, <2>4, ReservedFramed
<1>4. CASE JoinTarget \/ RejoinCurrent \/ DropEntry
  <2>1. /\ join.user \in Users /\ join.target \in Rooms /\ join.seat \in Seats
        /\ RejoinCurrent => join.from \in Rooms /\ join.back \in Seats
    BY <1>4, AtStep, NamesAssumption DEF JoinTarget, RejoinCurrent, DropEntry, Inv, SwitchSteps
  <2>2. closed' = closed
    BY <1>4 DEF JoinTarget, RejoinCurrent, DropEntry, ReleaseSeat, manager
  <2>3. NoneReserved
    BY <1>4, <2>1, UnreserveFrees
       DEF JoinTarget, RejoinCurrent, DropEntry, actors, NoneReserved
  <2>4. join.from = NoRoom \/ \E step \in Kept : GoTo(step)
    BY <1>4 DEF JoinTarget, RejoinCurrent, DropEntry, Done, Failed, Kept
  <2>5. Keeping => SameJoin /\ join'.step \in Kept
    BY <1>1, <2>4, GoToSame DEF Steps, Kept, Keeping
  <2> QED  BY <2>2, <2>3, <2>5, ReservedFramed
<1> QED  BY <1>2, <1>3, <1>4, ReserveReserved, ReleaseReserved DEF JoinStep

\* Rooms, timers and restarts make no reservation.
LEMMA RoomReserved ==
  ASSUME Inv, ReservedInv, NEW r \in Rooms, RoomStep(r) \/ RoomCommand(r)
  PROVE  ReservedInv'
<1>1. CASE FinishAbandoned(r)
  <2>1. PICK q \in pending[r] : Seated(r, q.user, q.seat) \/ Refused(r, q.user, q.seat)
    BY <1>1 DEF FinishAbandoned
  <2>2. q.user \in Users /\ q.seat \in Seats
    BY DEF Inv, CallsTyped, Requests
  <2> QED  BY <1>1, <2>1, <2>2, UnreserveFrees, ReservedFramed DEF FinishAbandoned, manager
<1>2. ASSUME NEW u \in Users, NEW s \in Seats, StartJoin(u, r, s) PROVE ReservedInv'
  BY <1>2 DEF StartJoin, actors, manager, ReservedInv, Keeping
<1>3. CASE UNCHANGED <<reserved, join>> /\ closed \subseteq closed'
  BY <1>3, ReservedFramed DEF NoneReserved
<1>4. ASSUME NEW u \in Users, Leave(r, u)
      PROVE  UNCHANGED <<reserved, join>> /\ closed \subseteq closed'
  BY <1>4, WithdrawKeeps DEF Leave, manager, Inv
<1>5. CASE EndHand(r) \/ StartHand(r) \/ EndRoom(r) \/ ExpireEmptyRoom(r) \/ CloseExpiredRoom(r)
  BY <1>5, <1>3 DEF EndHand, HandDone, Settle, StartHand, EndRoom, ExpireEmptyRoom,
     CloseExpiredRoom, manager, actors
<1>6. ASSUME NEW u \in Users, SeatClosed(r, u) \/ Create(u, r)
      PROVE  UNCHANGED <<reserved, join>> /\ closed \subseteq closed'
  BY <1>6 DEF SeatClosed, ReleaseSeat, Create
<1> QED  BY <1>1, <1>2, <1>3, <1>4, <1>5, <1>6 DEF RoomStep, RoomCommand

\* Every step keeps the invariant.
LEMMA NextReserved ==
  ASSUME Inv, NotCancelled, ReservedInv, {"cancel", "busy"} \cap Races = {}, [Next]_vars
  PROVE  NotCancelled' /\ ReservedInv'
<1>1. NotCancelled' /\ ~GiveUp
  BY NextNotCancelled
<1>2. CASE CrashAndRestore
  BY <1>1, <1>2 DEF CrashAndRestore, ReservedInv
<1>3. CASE UNCHANGED vars
  BY <1>1, <1>3, ReservedFramed DEF vars, actors, manager, NoneReserved
<1> QED  BY <1>1, <1>2, <1>3, JoinStepReserved, RoomReserved DEF Next

\* At first nothing is reserved.
LEMMA InitReserved == Init => NotCancelled /\ ReservedInv
BY DEF Init, NotCancelled, ReservedInv

\* Through every step of a switch, its undoing, refused seats, expired rooms, hands that
\* start meanwhile and restarts, a seat is kept only for the Join that is going to take
\* it, unless that Join's client goes away or an actor is too busy to be told (Join's
\* deferred ReleaseSeatReservation).
THEOREM SeatsKeptForJoins ==
  ASSUME {"cancel", "busy"} \cap Races = {}
  PROVE  Spec => []ReservedForJoin
<1>1. Inv /\ NotCancelled /\ ReservedInv /\ [Next]_vars => (NotCancelled /\ ReservedInv)'
  BY NextReserved
<1> QED  BY <1>1, Invariant, InitReserved, ReservedInvKept, PTL DEF Spec

-----------------------------------------------------------------------------
(* Seats have entries.  The four races of which none may happen here are the *)
(* ways in which a Join can find its user seated after it looked.            *)

\* a user whose seat is in the room, or was and is yet to be reported, has his
\* entry there
Listed == \A u \in Users, r \in Rooms : Backed(u, r) => active[u] = r /\ r \in rooms

ReportedGone == \A r \in Rooms : \A u \in releasing[r] : seat[r][u] = NoSeat

Nowhere(u) == \A r \in Rooms : ~Backed(u, r)

\* what a Join knows at its steps: from the leave to the next seat its user has none
SwitchAt(step, u, from, target) ==
  /\ step \in {"reserve", "leave"} => dealt[from] = {}
  /\ step = "left" =>
       active[u] \in {from, NoRoom} /\ \A r \in Rooms : seat[r][u] = NoSeat
  /\ step \in {"move", "join", "undo", "return", "rejoin", "drop"} => Nowhere(u)
  /\ step = "join" => active[u] = target
  /\ step = "rejoin" => active[u] = from

SwitchInv ==
  join # Idle =>
    /\ join.target \in rooms /\ join.from \in rooms \cup {NoRoom}
    /\ SwitchAt(join.step, join.user, join.from, join.target)

EndedEmpty == ended \subseteq created /\ \A r \in ended : \A u \in Users : seat[r][u] = NoSeat

NothingPending == \A r \in Rooms : pending[r] = {}

EntryInv == Listed /\ ReportedGone /\ SwitchInv /\ EndedEmpty /\ NothingPending

Steady == {"hand", "cancel", "expiry", "create"} \cap Races = {}

\* Who sits is backed, so listed.
LEMMA EntryInvSeats == EntryInv => SeatHasEntry
BY DEF EntryInv, Listed, Backed, SeatHasEntry

\* Whose room is loaded is in no closed one.
LEMMA EntryInvClosed == Inv /\ EntryInv => NobodyEvicted
BY DEF Inv, ManagerTyped, EntryInv, Listed, Backed, NobodyEvicted, Sitting

\* At first nobody sits anywhere.
LEMMA InitEntryInv == Init => EntryInv
BY DEF Init, EntryInv, Listed, Backed, ReportedGone, SwitchInv, EndedEmpty, NothingPending

\* What a Join has to know at the step it is at after an action.
LEMMA SwitchNow ==
  ASSUME NEW step, NEW u, NEW f, NEW t,
         join' # Idle => /\ join'.step = step /\ join'.user = u
                         /\ join'.from = f /\ join'.target = t
                         /\ t \in rooms' /\ f \in rooms' \cup {NoRoom}
                         /\ SwitchAt(step, u, f, t)'
  PROVE  SwitchInv'
BY DEF SwitchInv, SwitchAt, Nowhere, Backed

\* And at the step it is at.
LEMMA SwitchNames ==
  ASSUME EntryInv, JoinTyped, join # Idle
  PROVE  \E step, u, f, t :
           /\ u \in Users
           /\ join.step = step /\ join.user = u /\ join.from = f /\ join.target = t
           /\ t \in rooms /\ f \in rooms \cup {NoRoom}
           /\ SwitchAt(step, u, f, t)
<1>1. /\ join.user \in Users /\ join.target \in rooms /\ join.from \in rooms \cup {NoRoom}
      /\ SwitchAt(join.step, join.user, join.from, join.target)
  BY DEF EntryInv, SwitchInv, JoinTyped, Joins
<1> QED  BY <1>1

-----------------------------------------------------------------------------
(* Steps that take seats away *)

\* no user gets a seat
SeatsFewer ==
  \A r \in Rooms, u \in Users :
    /\ seat'[r][u] \in {seat[r][u], NoSeat}
    /\ Backed(u, r)' => Backed(u, r)

\* The settled give up their seats and are about to be reported.
LEMMA SettleFewer ==
  ASSUME Inv, ReportedGone, NEW r \in Rooms, NEW gone \in SUBSET Users, Settle(r, gone),
         \A u \in gone : seat[r][u] # NoSeat
  PROVE  SeatsFewer /\ ReportedGone'
<1>1. /\ seat' = [seat EXCEPT ![r] = [u \in Users |-> IF u \in gone THEN NoSeat ELSE @[u]]]
      /\ releasing' = [releasing EXCEPT ![r] = gone]
      /\ seat \in [Rooms -> [Users -> Seats \cup {NoSeat}]]
      /\ releasing \in [Rooms -> SUBSET Users]
  BY DEF Settle, Inv, SeatsInv, SeatsTyped
<1>2. \A q \in Rooms, u \in Users :
        /\ seat'[q][u] = IF q = r /\ u \in gone THEN NoSeat ELSE seat[q][u]
        /\ releasing'[q] = IF q = r THEN gone ELSE releasing[q]
  BY <1>1
<1>3. SeatsFewer
  BY <1>2 DEF SeatsFewer, Backed
<1>4. ReportedGone'
  BY <1>1, <1>2 DEF ReportedGone
<1> QED  BY <1>3, <1>4

\* A player who withdraws gives up his seat at most.
LEMMA WithdrawFewer ==
  ASSUME Inv, ReportedGone, NEW r \in Rooms, NEW u \in Users, Withdraw(r, u)
  PROVE  /\ SeatsFewer /\ ReportedGone' /\ UNCHANGED <<ended, pending>>
         /\ \A q \in Rooms : dealt'[q] \in {dealt[q], {}}
         /\ dealt[r] = {} => seat'[r][u] = NoSeat
<1> DEFINE gone == leaving[r] \cup {u}
<1>1. gone \in SUBSET Users /\ u \in gone /\ \A v \in gone : seat[r][v] # NoSeat
  BY DEF Inv, SeatsInv, SeatsTyped, LeaversSit, Withdraw
<1>2. UNCHANGED <<ended, pending>> /\ dealt \in [Rooms -> SUBSET Users]
  BY DEF Withdraw, Inv, SeatsInv, SeatsTyped
<1> HIDE DEF gone
<1>3. CASE HandDone(r, gone)
  <2>1. Settle(r, gone) /\ dealt' = [dealt EXCEPT ![r] = {}]
    BY <1>3 DEF HandDone
  <2>2. SeatsFewer /\ ReportedGone'
    BY <1>1, <2>1, SettleFewer
  <2>3. seat'[r][u] = NoSeat
    BY <1>1, <2>1 DEF Settle, Inv, SeatsInv, SeatsTyped
  <2> QED  BY <1>2, <2>1, <2>2, <2>3
<1>4. CASE Cardinality(dealt[r] \ gone) >= 2 /\ UNCHANGED <<dealt, seat, row, releasing, reserved>>
  <2>1. dealt[r] # {}
    <3> SUFFICES ASSUME dealt[r] = {} PROVE FALSE
      OBVIOUS
    <3>1. Cardinality(dealt[r] \ gone) = 0
      <4>1. dealt[r] \ gone = {}
        OBVIOUS
      <4> QED  BY <4>1, FS_EmptySet
    <3> QED  BY <1>4, <3>1
  <2>2. SeatsFewer /\ ReportedGone'
    BY <1>4 DEF SeatsFewer, Backed, ReportedGone
  <2> QED  BY <1>2, <1>4, <2>1, <2>2
<1> QED  BY <1>3, <1>4 DEF Withdraw, gone

\* Fewer seats, the entries and the Join as they were.
LEMMA EntryFramed ==
  ASSUME EntryInv, SeatsFewer, ReportedGone', UNCHANGED <<active, rooms, join, pending>>,
         EndedEmpty', JoinTyped, \A q \in Rooms : Switching(q) => dealt'[q] = {}
  PROVE  EntryInv'
<1>1. Listed'
  BY DEF EntryInv, Listed, SeatsFewer
<1>2. NothingPending'
  BY DEF EntryInv, NothingPending
<1>3. SwitchInv'
  <2> SUFFICES ASSUME join # Idle PROVE SwitchInv'
    BY DEF SwitchInv
  <2>1. PICK step, u, f, t :
          /\ u \in Users
          /\ join.step = step /\ join.user = u /\ join.from = f /\ join.target = t
          /\ t \in rooms /\ f \in rooms \cup {NoRoom}
          /\ SwitchAt(step, u, f, t)
    BY SwitchNames
  <2>2. step \in {"reserve", "leave"} => dealt'[f] = {}
    BY <2>1 DEF Switching, JoinTyped, SwitchSteps
  <2>3. /\ Nowhere(u) => Nowhere(u)'
        /\ (\A r \in Rooms : seat[r][u] = NoSeat) => \A r \in Rooms : seat'[r][u] = NoSeat
    BY <2>1 DEF SeatsFewer, Nowhere
  <2>4. SwitchAt(step, u, f, t)'
    BY <2>1, <2>2, <2>3 DEF SwitchAt
  <2> QED  BY <2>1, <2>4, SwitchNow
<1> QED  BY <1>1, <1>2, <1>3 DEF EntryInv

\* The rooms that ended stay empty when nobody gets a seat.
LEMMA EndedFramed ==
  ASSUME Inv, EntryInv, SeatsFewer, UNCHANGED ended, created \subseteq created'
  PROVE  EndedEmpty'
BY DEF Inv, SeatsInv, SeatsTyped, EntryInv, EndedEmpty, SeatsFewer

\* Seats that stay are not more.
LEMMA SameSeats ==
  ASSUME EntryInv, UNCHANGED <<seat, releasing>>
  PROVE  SeatsFewer /\ ReportedGone'
BY DEF SeatsFewer, Backed, EntryInv, ReportedGone

\* During a switch no hand is on in the room that is left.
LEMMA SwitchingNoHand ==
  ASSUME EntryInv, NEW q \in Rooms, Switching(q)
  PROVE  dealt[q] = {}
BY DEF EntryInv, SwitchInv, SwitchAt, Switching

-----------------------------------------------------------------------------
(* Steps of the rooms *)

\* A player leaves: his seat is reported, or kept until the hand is over.
LEMMA LeaveEntry ==
  ASSUME Inv, EntryInv, NEW r \in Rooms, NEW u \in Users, Leave(r, u)
  PROVE  EntryInv'
<1>1. /\ SeatsFewer /\ ReportedGone' /\ UNCHANGED <<ended, pending>>
      /\ \A q \in Rooms : dealt'[q] \in {dealt[q], {}}
  BY WithdrawFewer DEF Leave, EntryInv
<1>2. UNCHANGED <<active, rooms, join, created>>
  BY DEF Leave, manager
<1>3. EndedEmpty'
  BY <1>1, <1>2, EndedFramed
<1>4. \A q \in Rooms : Switching(q) => dealt'[q] = {}
  BY <1>1, SwitchingNoHand
<1> QED  BY <1>1, <1>2, <1>3, <1>4, EntryFramed DEF Inv

\* A hand starts, though in no room that a switch is leaving.
LEMMA StartHandEntry ==
  ASSUME Inv, EntryInv, Steady, NEW r \in Rooms, StartHand(r)
  PROVE  EntryInv'
<1>1. /\ UNCHANGED <<active, rooms, join, created, seat, releasing, ended, pending>>
      /\ ~Switching(r)
  BY DEF StartHand, manager, Steady
<1>2. \A q \in Rooms : q # r => dealt'[q] = dealt[q]
  BY DEF StartHand, Inv, SeatsInv, SeatsTyped
<1>3. \A q \in Rooms : Switching(q) => dealt'[q] = {}
  BY <1>1, <1>2, SwitchingNoHand
<1> QED  BY <1>1, <1>3, SameSeats, EndedFramed, EntryFramed DEF Inv

\* A hand ends and those who left in it are settled.
LEMMA EndHandEntry ==
  ASSUME Inv, EntryInv, NEW r \in Rooms, EndHand(r)
  PROVE  EntryInv'
<1>1. /\ leaving[r] \in SUBSET Users /\ \A u \in leaving[r] : seat[r][u] # NoSeat
      /\ Settle(r, leaving[r])
  BY DEF EndHand, HandDone, Inv, SeatsInv, SeatsTyped, LeaversSit
<1>2. SeatsFewer /\ ReportedGone'
  BY <1>1, SettleFewer DEF EntryInv
<1>3. UNCHANGED <<active, rooms, join, created, ended, pending>>
  BY DEF EndHand, manager
<1>4. \A q \in Rooms : dealt'[q] \in {dealt[q], {}}
  BY DEF EndHand, HandDone, Inv, SeatsInv, SeatsTyped
<1>5. \A q \in Rooms : Switching(q) => dealt'[q] = {}
  BY <1>4, SwitchingNoHand
<1> QED  BY <1>2, <1>3, <1>5, EndedFramed, EntryFramed DEF Inv

\* The owner ends the room.
LEMMA EndRoomEntry ==
  ASSUME Inv, EntryInv, NEW r \in Rooms, EndRoom(r)
  PROVE  EntryInv'
<1>1. Sitting(r) \in SUBSET Users /\ \A u \in Sitting(r) : seat[r][u] # NoSeat
  BY DEF Sitting
<1>2. /\ Settle(r, Sitting(r)) /\ ended' = ended \cup {r} /\ Sitting(r) # {}
      /\ UNCHANGED <<active, rooms, join, created, pending, dealt>>
  BY DEF EndRoom, manager
<1>3. SeatsFewer /\ ReportedGone'
  BY <1>1, <1>2, SettleFewer DEF EntryInv
<1>4. r \in created
  BY <1>2 DEF Sitting, Inv, ManagerTyped, EntryInv, Listed, Backed
<1>5. \A u \in Users : seat'[r][u] = NoSeat
  BY <1>2 DEF Settle, Sitting, Inv, SeatsInv, SeatsTyped
<1>6. \A q \in ended : q \in Rooms
  BY DEF Inv, SeatsInv, SeatsTyped
<1>7. EndedEmpty'
  BY <1>2, <1>3, <1>4, <1>5, <1>6 DEF EntryInv, EndedEmpty, SeatsFewer
<1>8. \A q \in Rooms : Switching(q) => dealt'[q] = {}
  BY <1>2, SwitchingNoHand
<1> QED  BY <1>2, <1>3, <1>7, <1>8, EntryFramed DEF Inv

\* Who is reported has his entry in that room and no seat anywhere.
LEMMA SeatClosedEntry ==
  ASSUME Inv, EntryInv, NEW r \in Rooms, NEW u \in Users, SeatClosed(r, u)
  PROVE  EntryInv'
<1>1. /\ u \in releasing[r] /\ active' = [active EXCEPT ![u] = NoRoom]
      /\ releasing' = [releasing EXCEPT ![r] = @ \ {u}]
      /\ UNCHANGED <<rooms, created, seat, join, ended, pending, dealt>>
  BY DEF SeatClosed, ReleaseSeat
<1>2. active \in [Users -> Rooms \cup {NoRoom}] /\ releasing \in [Rooms -> SUBSET Users]
  BY DEF Inv, ManagerTyped, SeatsInv, SeatsTyped
<1>3. active[u] = r /\ \A q \in Rooms : Backed(u, q) => q = r
  BY <1>1 DEF EntryInv, Listed, Backed
<1>4. seat[r][u] = NoSeat
  BY <1>1 DEF EntryInv, ReportedGone
<1>5. \A q \in Rooms : ~Backed(u, q)'
  BY <1>1, <1>2, <1>3, <1>4 DEF Backed
<1>6. \A q \in Rooms, v \in Users : v # u => (Backed(v, q)' <=> Backed(v, q)) /\ active'[v] = active[v]
  BY <1>1, <1>2 DEF Backed
<1>7. Listed'
  BY <1>1, <1>5, <1>6 DEF EntryInv, Listed
<1>8. ReportedGone'
  BY <1>1, <1>2 DEF EntryInv, ReportedGone
<1>9. SwitchInv'
  <2> SUFFICES ASSUME join # Idle PROVE SwitchInv'
    BY <1>1 DEF SwitchInv
  <2>1. PICK step, w, f, t :
          /\ w \in Users
          /\ join.step = step /\ join.user = w /\ join.from = f /\ join.target = t
          /\ t \in rooms /\ f \in rooms \cup {NoRoom}
          /\ SwitchAt(step, w, f, t)
    BY SwitchNames DEF Inv
  <2>2. CASE w = u
    <3>1. ~Nowhere(w)
      BY <1>1, <2>2 DEF Nowhere, Backed
    <3>2. active'[w] = NoRoom
      BY <1>1, <1>2, <2>2
    <3>3. SwitchAt(step, w, f, t)'
      BY <1>1, <2>1, <3>1, <3>2 DEF SwitchAt
    <3> QED  BY <1>1, <2>1, <3>3, SwitchNow
  <2>3. CASE w # u
    <3>1. active'[w] = active[w] /\ (Nowhere(w) => Nowhere(w)')
      BY <1>6, <2>1, <2>3 DEF Nowhere
    <3>2. SwitchAt(step, w, f, t)'
      BY <1>1, <2>1, <3>1 DEF SwitchAt
    <3> QED  BY <1>1, <2>1, <3>2, SwitchNow
  <2> QED  BY <2>2, <2>3
<1> QED  BY <1>1, <1>7, <1>8, <1>9 DEF EntryInv, EndedEmpty, NothingPending

\* Who creates a room has no entry, so no seat, and is not joining.
LEMMA CreateEntry ==
  ASSUME Inv, EntryInv, Steady, NEW r \in Rooms, NEW u \in Users, Create(u, r)
  PROVE  EntryInv'
<1>1. /\ r \notin created /\ active[u] = NoRoom /\ ~(join # Idle /\ join.user = u)
      /\ rooms' = rooms \cup {r} /\ created' = created \cup {r}
      /\ active' = [active EXCEPT ![u] = r] /\ seat' = [seat EXCEPT ![r][u] = FirstSeat]
      /\ UNCHANGED <<releasing, join, ended, pending, dealt>>
  BY DEF Create, Steady
<1>2. /\ active \in [Users -> Rooms \cup {NoRoom}]
      /\ seat \in [Rooms -> [Users -> Seats \cup {NoSeat}]]
  BY DEF Inv, ManagerTyped, SeatsInv, SeatsTyped
<1>3. \A q \in Rooms : ~Backed(u, q)
  BY <1>1, NamesAssumption DEF EntryInv, Listed
<1>4. \A q \in Rooms, v \in Users : v # u =>
        /\ seat'[q][v] = seat[q][v] /\ active'[v] = active[v]
        /\ (Backed(v, q)' <=> Backed(v, q))
  BY <1>1, <1>2 DEF Backed
<1>5. \A q \in Rooms : q # r => ~Backed(u, q)'
  BY <1>1, <1>2, <1>3 DEF Backed
<1>6. Listed'
  BY <1>1, <1>2, <1>4, <1>5 DEF EntryInv, Listed
<1>7. ReportedGone'
  BY <1>1, <1>3, <1>4 DEF EntryInv, ReportedGone, Backed, Inv, SeatsInv, SeatsTyped
<1>8. SwitchInv'
  <2> SUFFICES ASSUME join # Idle PROVE SwitchInv'
    BY <1>1 DEF SwitchInv
  <2>1. PICK step, w, f, t :
          /\ w \in Users
          /\ join.step = step /\ join.user = w /\ join.from = f /\ join.target = t
          /\ t \in rooms /\ f \in rooms \cup {NoRoom}
          /\ SwitchAt(step, w, f, t)
    BY SwitchNames DEF Inv
  <2>2. /\ active'[w] = active[w] /\ (Nowhere(w) => Nowhere(w)')
        /\ \A q \in Rooms : seat'[q][w] = seat[q][w]
    BY <1>1, <1>4, <2>1 DEF Nowhere
  <2>3. SwitchAt(step, w, f, t)'
    BY <1>1, <2>1, <2>2 DEF SwitchAt
  <2> QED  BY <1>1, <2>1, <2>3, SwitchNow
<1>9. EndedEmpty'
  BY <1>1, <1>2 DEF EntryInv, EndedEmpty, Inv, SeatsInv, SeatsTyped
<1> QED  BY <1>1, <1>6, <1>7, <1>8, <1>9 DEF EntryInv, NothingPending

\* An empty room expires.
LEMMA ExpiryEntry ==
  ASSUME Inv, EntryInv, Steady, NEW r \in Rooms, ExpireEmptyRoom(r) \/ CloseExpiredRoom(r)
  PROVE  EntryInv'
<1>1. UNCHANGED <<active, created, seat, releasing, dealt, join, ended, pending>>
  BY DEF ExpireEmptyRoom, CloseExpiredRoom, actors
<1>2. rooms' = rooms \/ /\ rooms' = rooms \ {r} /\ ~HasActiveSeat(active, r)
                        /\ join # Idle => r \notin {join.target, join.from}
  BY DEF ExpireEmptyRoom, CloseExpiredRoom, Steady
<1>3. Listed'
  BY <1>1, <1>2 DEF EntryInv, Listed, Backed, HasActiveSeat
<1>4. SwitchInv'
  BY <1>1, <1>2 DEF EntryInv, SwitchInv, SwitchAt, Nowhere, Backed
<1> QED  BY <1>1, <1>3, <1>4 DEF EntryInv, ReportedGone, EndedEmpty, NothingPending

\* A Join begins.
LEMMA StartJoinEntry ==
  ASSUME Inv, EntryInv, NEW r \in Rooms, NEW u \in Users, NEW s \in Seats, StartJoin(u, r, s)
  PROVE  EntryInv'
<1> DEFINE from == IF active[u] \in rooms THEN active[u] ELSE NoRoom
<1>1. /\ join' = [user |-> u, target |-> r, seat |-> s, from |-> from, back |-> NoSeat,
                  step |-> IF from = NoRoom THEN "move" ELSE "check", cancelled |-> FALSE]
      /\ r \in rooms
      /\ UNCHANGED <<active, rooms, created, seat, releasing, dealt, ended, pending>>
  BY DEF StartJoin, actors, manager
<1>2. from \in rooms \cup {NoRoom} /\ (from = NoRoom => Nowhere(u))
  BY NamesAssumption DEF EntryInv, Listed, Nowhere, Inv, ManagerTyped
<1> HIDE DEF from
<1>3. /\ join'.user = u /\ join'.target = r /\ join'.from = from
      /\ join'.step = (IF from = NoRoom THEN "move" ELSE "check")
  BY <1>1
<1>4. SwitchInv'
  BY <1>1, <1>2, <1>3 DEF SwitchInv, SwitchAt, Nowhere, Backed
<1> QED  BY <1>1, <1>4 DEF EntryInv, Listed, Backed, ReportedGone, EndedEmpty, NothingPending

-----------------------------------------------------------------------------
(* Steps of a Join *)

\* What GoTo leaves of the Join.
LEMMA GoToNames ==
  ASSUME Inv, join \in Joins, EntryInv, NEW step \in Steps, GoTo(step)
  PROVE  \E u, f, t :
           /\ u \in Users /\ f \in rooms \cup {NoRoom} /\ t \in rooms
           /\ join.user = u /\ join.from = f /\ join.target = t
           /\ SwitchAt(join.step, u, f, t)
           /\ join'.step = step /\ join'.user = u /\ join'.from = f /\ join'.target = t
<1>1. join # Idle /\ SameJoin /\ join'.step = step
  BY GoToSame, IdleAssumption
<1>2. /\ join.user \in Users /\ join.target \in rooms /\ join.from \in rooms \cup {NoRoom}
      /\ SwitchAt(join.step, join.user, join.from, join.target)
  BY <1>1 DEF EntryInv, SwitchInv, Joins
<1> QED  BY <1>1, <1>2 DEF SameJoin

\* Only the Join itself takes a step, or ends.
LEMMA OnlyJoinMoves ==
  ASSUME EntryInv, UNCHANGED <<active, rooms, created, seat, releasing, ended, pending>>,
         SwitchInv'
  PROVE  EntryInv'
BY DEF EntryInv, Listed, Backed, ReportedGone, EndedEmpty, NothingPending

\* Join looks for the seat of its user.
LEMMA CheckSeatEntry ==
  ASSUME Inv, EntryInv, CheckSeat
  PROVE  EntryInv'
<1>1. UNCHANGED <<active, rooms, created, seat, releasing, ended, pending, dealt>>
  BY DEF CheckSeat, actors, manager
<1>2. join \in Joins /\ join # Idle /\ (join' = Idle \/ SameJoin)
  BY JoinGoesOn, IdleAssumption DEF JoinStep
<1>3. join' = Idle \/ (join'.step = "reserve" /\ dealt[join.from] = {})
  BY <1>2 DEF CheckSeat, InHand, Joins
<1>4. PICK u, f, t : /\ u \in Users /\ f \in rooms \cup {NoRoom} /\ t \in rooms
                     /\ join.user = u /\ join.from = f /\ join.target = t
  BY <1>2 DEF EntryInv, SwitchInv, Joins
<1>5. join' # Idle => SwitchAt("reserve", u, f, t)'
  BY <1>1, <1>3, <1>4 DEF SwitchAt
<1>6. SwitchInv'
  <2>1. CASE join' = Idle
    BY <2>1 DEF SwitchInv
  <2>2. CASE join' # Idle
    BY <1>1, <1>2, <1>3, <1>4, <1>5, <2>2, SwitchNow DEF SameJoin
  <2> QED  BY <2>1, <2>2
<1> QED  BY <1>1, <1>6, OnlyJoinMoves

\* It reserves a seat in the room it goes to.
LEMMA ReserveEntry ==
  ASSUME Inv, EntryInv, ReserveSeatForSwitch
  PROVE  EntryInv'
<1>1. UNCHANGED <<active, rooms, created, seat, releasing, ended, pending, dealt>>
  BY DEF ReserveSeatForSwitch, manager
<1>2. join \in Joins /\ join.step = "reserve"
  BY AtStep DEF ReserveSeatForSwitch, Inv, At
<1>3. CASE GoTo("leave")
  <2>1. PICK u, f, t : /\ f \in rooms \cup {NoRoom} /\ t \in rooms
                       /\ SwitchAt("reserve", u, f, t)
                       /\ join'.step = "leave" /\ join'.user = u
                       /\ join'.from = f /\ join'.target = t
    BY <1>2, <1>3, GoToNames DEF Steps
  <2>2. SwitchAt("leave", u, f, t)'
    BY <1>1, <2>1 DEF SwitchAt
  <2> QED  BY <1>1, <2>1, <2>2, SwitchNow, OnlyJoinMoves
<1>4. CASE join' = Idle
  BY <1>1, <1>4, OnlyJoinMoves DEF SwitchInv
<1> QED  BY <1>3, <1>4 DEF ReserveSeatForSwitch

\* The player who leaves sits in that room and nowhere else, and no hand is on there.
LEMMA LeaveCurrentEntry ==
  ASSUME Inv, EntryInv, LeaveCurrent
  PROVE  EntryInv'
<1>1. UNCHANGED <<active, rooms, created>>
  BY DEF LeaveCurrent, manager
<1>2. join \in Joins /\ join.step = "leave" /\ join.from \in Rooms /\ join.user \in Users
  BY AtStep DEF LeaveCurrent, Inv, At, SwitchSteps
<1>3. CASE Withdraw(join.from, join.user) /\ GoTo("left")
  <2>1. PICK u, f, t : /\ u \in Users /\ f \in rooms \cup {NoRoom} /\ t \in rooms
                       /\ join.user = u /\ join.from = f
                       /\ SwitchAt("leave", u, f, t)
                       /\ join'.step = "left" /\ join'.user = u
                       /\ join'.from = f /\ join'.target = t
    BY <1>2, <1>3, GoToNames DEF Steps
  <2>2. dealt[f] = {} /\ seat[f][u] # NoSeat /\ f \in Rooms
    BY <1>2, <1>3, <2>1 DEF SwitchAt, Withdraw
  <2>3. /\ SeatsFewer /\ ReportedGone' /\ UNCHANGED <<ended, pending>>
        /\ seat'[f][u] = NoSeat
    BY <1>2, <1>3, <2>1, <2>2, WithdrawFewer DEF EntryInv
  <2>4. active[u] = f /\ \A q \in Rooms : q # f => seat[q][u] = NoSeat
    BY <2>1, <2>2 DEF EntryInv, Listed, Backed
  <2>5. \A q \in Rooms : seat'[q][u] = NoSeat
    BY <2>1, <2>3, <2>4 DEF SeatsFewer
  <2>6. SwitchAt("left", u, f, t)'
    BY <1>1, <2>4, <2>5 DEF SwitchAt
  <2>7. SwitchInv'
    BY <1>1, <2>1, <2>6, SwitchNow
  <2>8. EndedEmpty'
    BY <1>1, <2>3, EndedFramed
  <2>9. Listed' /\ NothingPending'
    BY <1>1, <2>3 DEF EntryInv, Listed, SeatsFewer, NothingPending
  <2> QED  BY <2>3, <2>7, <2>8, <2>9 DEF EntryInv
<1>4. CASE GoTo("unreserve") /\ UNCHANGED actors
  <2>1. UNCHANGED <<seat, releasing, ended, pending>>
    BY <1>4 DEF actors
  <2>2. PICK u, f, t : /\ f \in rooms \cup {NoRoom} /\ t \in rooms
                       /\ join'.step = "unreserve" /\ join'.user = u
                       /\ join'.from = f /\ join'.target = t
    BY <1>2, <1>4, GoToNames DEF Steps
  <2>3. SwitchAt("unreserve", u, f, t)'
    BY DEF SwitchAt
  <2> QED  BY <1>1, <2>1, <2>2, <2>3, SwitchNow, OnlyJoinMoves
<1> QED  BY <1>3, <1>4 DEF LeaveCurrent

\* Once the leave is answered, its seat is reported too.
LEMMA LeaveAnsweredEntry ==
  ASSUME Inv, EntryInv, LeaveAnswered
  PROVE  EntryInv'
<1>1. UNCHANGED <<active, rooms, created, seat, releasing, ended, pending>>
  BY DEF LeaveAnswered, actors, manager
<1>2. join \in Joins /\ join.step = "left" /\ releasing[join.from] = {} /\ GoTo("move")
  BY AtStep DEF LeaveAnswered, Inv, At
<1>3. PICK u, f, t : /\ u \in Users /\ f \in rooms \cup {NoRoom} /\ t \in rooms
                     /\ join.from = f /\ SwitchAt("left", u, f, t)
                     /\ join'.step = "move" /\ join'.user = u
                     /\ join'.from = f /\ join'.target = t
  BY <1>2, GoToNames DEF Steps
<1>4. Nowhere(u)
  <2> SUFFICES ASSUME NEW q \in Rooms, Backed(u, q) PROVE FALSE
    BY DEF Nowhere
  <2>1. u \in releasing[q]
    BY <1>3 DEF Backed, SwitchAt
  <2>2. active[u] = q /\ active[u] \in {f, NoRoom}
    BY <1>3 DEF EntryInv, Listed, SwitchAt
  <2> QED  BY <1>2, <1>3, <2>1, <2>2, NamesAssumption
<1>5. SwitchAt("move", u, f, t)'
  BY <1>1, <1>4 DEF SwitchAt, Nowhere, Backed
<1> QED  BY <1>1, <1>3, <1>5, SwitchNow, OnlyJoinMoves

\* The entry of a user who sits nowhere is free to be set.
LEMMA EntryRewritten ==
  ASSUME Inv, EntryInv, NEW u \in Users, Nowhere(u), NEW room \in Rooms \cup {NoRoom},
         active' = [active EXCEPT ![u] = room],
         UNCHANGED <<rooms, created, seat, releasing, ended, pending>>
  PROVE  /\ Listed' /\ ReportedGone' /\ EndedEmpty' /\ NothingPending'
         /\ Nowhere(u)' /\ active'[u] = room
<1>1. active \in [Users -> Rooms \cup {NoRoom}]
  BY DEF Inv, ManagerTyped
<1>2. Listed'
  BY <1>1 DEF EntryInv, Listed, Backed, Nowhere
<1> QED  BY <1>1, <1>2 DEF EntryInv, ReportedGone, EndedEmpty, NothingPending, Nowhere, Backed

\* It sets the entry of its user, who sits nowhere.
LEMMA SetEntry ==
  ASSUME Inv, EntryInv, MoveEntry \/ UndoMove \/ ReturnEntry
  PROVE  EntryInv'
<1>1. UNCHANGED <<rooms, created, seat, releasing, ended, pending>>
  BY DEF MoveEntry, UndoMove, ReturnEntry, ReleaseSeat, actors
<1>2. PICK step \in {"join", "return", "rejoin"} : GoTo(step) /\
        \/ step = "join" /\ active' = [active EXCEPT ![join.user] = join.target]
        \/ step = "return" /\ active' = [active EXCEPT ![join.user] = NoRoom]
        \/ step = "rejoin" /\ active' = [active EXCEPT ![join.user] = join.from]
  BY DEF MoveEntry, UndoMove, ReturnEntry, ReleaseSeat
<1>3. join \in Joins /\ join.step \in {"move", "undo", "return"}
  BY AtStep DEF MoveEntry, UndoMove, ReturnEntry, Inv, At
<1>4. PICK u, f, t : /\ u \in Users /\ f \in rooms \cup {NoRoom} /\ t \in rooms
                     /\ join.user = u /\ join.from = f /\ join.target = t
                     /\ SwitchAt(join.step, u, f, t)
                     /\ join'.step = step /\ join'.user = u
                     /\ join'.from = f /\ join'.target = t
  BY <1>2, <1>3, GoToNames DEF Steps
<1>5. Nowhere(u) /\ f \in Rooms \cup {NoRoom} /\ t \in Rooms
  BY <1>3, <1>4 DEF SwitchAt, Inv, ManagerTyped
<1> DEFINE room == IF step = "join" THEN t ELSE IF step = "return" THEN NoRoom ELSE f
<1>6. active' = [active EXCEPT ![u] = room] /\ room \in Rooms \cup {NoRoom}
  BY <1>2, <1>4, <1>5
<1>7. /\ Listed' /\ ReportedGone' /\ EndedEmpty' /\ NothingPending'
      /\ Nowhere(u)' /\ active'[u] = room
  <2> HIDE DEF room
  <2> QED  BY <1>1, <1>4, <1>5, <1>6, EntryRewritten
<1>8. SwitchAt(step, u, f, t)'
  BY <1>7 DEF SwitchAt
<1>9. SwitchInv'
  BY <1>1, <1>4, <1>8, SwitchNow
<1> QED  BY <1>7, <1>9 DEF EntryInv

\* It takes the entry back, for the same reason.
LEMMA DropEntryEntry ==
  ASSUME Inv, EntryInv, DropEntry
  PROVE  EntryInv'
<1>1. /\ UNCHANGED <<rooms, created, seat, releasing, ended, pending>>
      /\ active' = [active EXCEPT ![join.user] = NoRoom]
  BY DEF DropEntry, ReleaseSeat, actors
<1>2. join \in Joins /\ join.step = "drop" /\ join.user \in Users /\ join # Idle
  BY AtStep DEF DropEntry, Inv, At
<1>3. Nowhere(join.user)
  BY <1>2 DEF EntryInv, SwitchInv, SwitchAt
<1>4. Listed' /\ ReportedGone' /\ EndedEmpty' /\ NothingPending'
  <2>1. PICK u \in Users : u = join.user
    BY <1>2
  <2> QED  BY <1>1, <1>3, <2>1, EntryRewritten
<1>5. SwitchInv'
  <2>1. CASE join' = Idle
    BY <2>1 DEF SwitchInv
  <2>2. CASE GoTo("unreserve")
    <3>1. PICK u, f, t : /\ f \in rooms \cup {NoRoom} /\ t \in rooms
                         /\ join'.step = "unreserve" /\ join'.user = u
                         /\ join'.from = f /\ join'.target = t
      BY <1>2, <2>2, GoToNames DEF Steps
    <3>2. SwitchAt("unreserve", u, f, t)'
      BY DEF SwitchAt
    <3> QED  BY <1>1, <3>1, <3>2, SwitchNow
  <2> QED  BY <2>1, <2>2 DEF DropEntry, Done
<1> QED  BY <1>4, <1>5 DEF EntryInv

\* Who had no seat takes one in the room his entry names.
LEMMA SeatedEntry ==
  ASSUME Inv, EntryInv, NEW u \in Users, Nowhere(u), NEW r \in rooms, active[u] = r,
         NEW s \in Seats, Seated(r, u, s), UNCHANGED <<active, rooms, created, pending>>
  PROVE  Listed' /\ ReportedGone' /\ EndedEmpty' /\ NothingPending'
<1>1. /\ seat' = [seat EXCEPT ![r][u] = s] /\ UNCHANGED <<releasing, ended>> /\ r \notin ended
      /\ seat \in [Rooms -> [Users -> Seats \cup {NoSeat}]] /\ r \in Rooms
  BY DEF Seated, Inv, SeatsInv, SeatsTyped, ManagerTyped
<1>2. Listed'
  BY <1>1 DEF EntryInv, Listed, Backed, Nowhere
<1>3. ReportedGone'
  BY <1>1 DEF EntryInv, ReportedGone, Nowhere, Backed, Inv, SeatsInv, SeatsTyped
<1>4. EndedEmpty'
  BY <1>1 DEF EntryInv, EndedEmpty, Inv, SeatsInv, SeatsTyped
<1> QED  BY <1>2, <1>3, <1>4 DEF EntryInv, NothingPending

\* It takes the seat, or is refused one.
LEMMA TakeSeatEntry ==
  ASSUME Inv, EntryInv, JoinTarget \/ RejoinCurrent
  PROVE  EntryInv'
<1>1. UNCHANGED <<active, rooms, created, pending>>
  BY DEF JoinTarget, RejoinCurrent, manager, actors
<1>2. /\ join \in Joins /\ join # Idle /\ join.user \in Users
      /\ join.seat \in Seats /\ (RejoinCurrent => join.back \in Seats)
      /\ (JoinTarget /\ join.step = "join") \/ (RejoinCurrent /\ join.step = "rejoin")
  BY AtStep, NamesAssumption DEF JoinTarget, RejoinCurrent, Inv, At, SwitchSteps
<1>3. /\ Nowhere(join.user) /\ join.target \in rooms /\ join.from \in rooms \cup {NoRoom}
      /\ join.step = "join" => active[join.user] = join.target
      /\ join.step = "rejoin" => active[join.user] = join.from
  BY <1>2 DEF EntryInv, SwitchInv, SwitchAt
<1>4. ASSUME NEW step \in Steps, GoTo(step), step \in {"undo", "drop", "unreserve"},
             step # "unreserve" => UNCHANGED <<seat, releasing>>
      PROVE  SwitchInv'
  <2>1. PICK u, f, t : /\ u \in Users /\ f \in rooms \cup {NoRoom} /\ t \in rooms
                       /\ join.user = u
                       /\ join'.step = step /\ join'.user = u
                       /\ join'.from = f /\ join'.target = t
    BY <1>2, <1>4, GoToNames
  <2>2. SwitchAt(step, u, f, t)'
    BY <1>3, <1>4, <2>1 DEF SwitchAt, Nowhere, Backed
  <2> QED  BY <1>1, <2>1, <2>2, SwitchNow
<1>5. CASE UNCHANGED <<seat, releasing, ended>> /\ (Failed \/ GoTo("drop"))
  <2>1. PICK step \in {"undo", "drop"} : GoTo(step)
    BY <1>5 DEF Failed
  <2>2. SwitchInv'
    BY <1>4, <1>5, <2>1 DEF Steps
  <2> QED  BY <1>1, <1>5, <2>2, OnlyJoinMoves
<1>6. CASE /\ JoinTarget /\ Seated(join.target, join.user, join.seat) /\ Done
  <2>1. PICK u \in Users, r \in rooms, s \in Seats : /\ u = join.user /\ r = join.target
                                                      /\ s = join.seat
    BY <1>2, <1>3
  <2>2. active[u] = r
    BY <1>2, <1>3, <1>6, <2>1 DEF JoinTarget, At
  <2>3. Listed' /\ ReportedGone' /\ EndedEmpty' /\ NothingPending'
    BY <1>1, <1>3, <1>6, <2>1, <2>2, SeatedEntry
  <2>4. SwitchInv'
    BY <1>4, <1>6 DEF Done, Steps, SwitchInv
  <2> QED  BY <2>3, <2>4 DEF EntryInv
<1>7. CASE /\ RejoinCurrent /\ Seated(join.from, join.user, join.back) /\ GoTo("unreserve")
  <2>0. join.from \in rooms
    <3>1. join.from \in Rooms
      BY <1>7, AtStep DEF RejoinCurrent, Inv, SwitchSteps
    <3> QED  BY <1>3, <3>1, NamesAssumption
  <2>1. PICK u \in Users, r \in rooms, s \in Seats : /\ u = join.user /\ r = join.from
                                                      /\ s = join.back
    BY <1>2, <1>7, <2>0
  <2>2. active[u] = r
    BY <1>2, <1>3, <1>7, <2>1 DEF RejoinCurrent, At
  <2>3. Listed' /\ ReportedGone' /\ EndedEmpty' /\ NothingPending'
    BY <1>1, <1>3, <1>7, <2>1, <2>2, SeatedEntry
  <2>4. SwitchInv'
    BY <1>4, <1>7 DEF Steps
  <2> QED  BY <2>3, <2>4 DEF EntryInv
<1> QED  BY <1>5, <1>6, <1>7 DEF JoinTarget, RejoinCurrent, Refused, actors

-----------------------------------------------------------------------------

\* All steps of a Join.
LEMMA JoinStepEntry ==
  ASSUME Inv, EntryInv, JoinStep
  PROVE  EntryInv'
<1>1. CASE ReleaseReservation
  BY <1>1, OnlyJoinMoves DEF ReleaseReservation, manager, SwitchInv
<1> QED  BY <1>1, CheckSeatEntry, ReserveEntry, LeaveCurrentEntry, LeaveAnsweredEntry, SetEntry,
            TakeSeatEntry, DropEntryEntry DEF JoinStep

\* Every room with a seat in it is loaded, and every seat's entry made.
LEMMA CrashEntry ==
  ASSUME Inv, EntryInv, CrashAndRestore
  PROVE  EntryInv'
<1> DEFINE loaded == {r \in created \ (closed \cup ended) : Sitting(r) # {}}
<1>1. /\ rooms' = loaded /\ UNCHANGED <<seat, created, ended>> /\ join' = Idle
      /\ active' = [u \in Users |-> IF \E r \in loaded : seat[r][u] # NoSeat
                      THEN CHOOSE r \in loaded : seat[r][u] # NoSeat ELSE NoRoom]
      /\ releasing' = [r \in Rooms |-> {}] /\ pending' = [r \in Rooms |-> {}]
  BY DEF CrashAndRestore
<1>2. ASSUME NEW u \in Users, NEW r \in Rooms, seat[r][u] # NoSeat
      PROVE  r \in loaded
  <2>1. r \in rooms
    BY <1>2 DEF EntryInv, Listed, Backed
  <2>2. r \in created /\ r \notin closed
    BY <2>1 DEF Inv, ManagerTyped
  <2>3. r \notin ended
    BY <1>2 DEF EntryInv, EndedEmpty
  <2> QED  BY <1>2, <2>2, <2>3 DEF Sitting
<1>3. loaded \subseteq Rooms
  BY DEF Inv, ManagerTyped
<1> HIDE DEF loaded
<1>4. Listed'
  <2> SUFFICES ASSUME NEW u \in Users, NEW r \in Rooms, Backed(u, r)'
               PROVE  active'[u] = r /\ r \in rooms'
    BY DEF Listed
  <2>1. seat[r][u] # NoSeat /\ r \in loaded
    BY <1>1, <1>2 DEF Backed
  <2>2. active'[u] = CHOOSE q \in loaded : seat[q][u] # NoSeat
    BY <1>1, <2>1
  <2>3. \A q \in loaded : seat[q][u] # NoSeat => q = r
    BY <1>3, <2>1, InvOneTable DEF OneTable
  <2> QED  BY <1>1, <2>1, <2>2, <2>3
<1> QED  BY <1>1, <1>4 DEF EntryInv, ReportedGone, SwitchInv, EndedEmpty, NothingPending

\* Every step keeps the invariant, where the room is steady.
LEMMA NextEntry ==
  ASSUME Inv, NotCancelled, EntryInv, Steady, [Next]_vars
  PROVE  NotCancelled' /\ EntryInv'
<1>1. NotCancelled' /\ ~GiveUp
  BY NextNotCancelled DEF Steady
<1>2. ASSUME NEW r \in Rooms, RoomStep(r) PROVE EntryInv'
  <2>1. ~FinishAbandoned(r)
    BY DEF FinishAbandoned, EntryInv, NothingPending
  <2> QED  BY <1>2, <2>1, EndHandEntry, ExpiryEntry, SeatClosedEntry DEF RoomStep
<1>3. ASSUME NEW r \in Rooms, RoomCommand(r) PROVE EntryInv'
  BY <1>3, StartHandEntry, EndRoomEntry, LeaveEntry, CreateEntry, StartJoinEntry DEF RoomCommand
<1>4. CASE UNCHANGED vars
  <2>1. UNCHANGED <<active, rooms, created, seat, releasing, ended, pending, dealt, join>>
    BY <1>4 DEF vars, actors, manager
  <2>2. SwitchInv'
    BY <2>1 DEF EntryInv, SwitchInv, SwitchAt, Nowhere, Backed
  <2> QED  BY <1>1, <2>1, <2>2, OnlyJoinMoves
<1> QED  BY <1>1, <1>2, <1>3, <1>4, JoinStepEntry, CrashEntry DEF Next

\* So it holds always.
LEMMA EntryInvariant ==
  ASSUME Steady
  PROVE  Spec => [](Inv /\ EntryInv)
<1>1. Inv /\ NotCancelled /\ EntryInv /\ [Next]_vars => (NotCancelled /\ EntryInv)'
  BY NextEntry
<1>2. Init => NotCancelled /\ EntryInv
  BY InitEntryInv, InitReserved
<1> QED  BY <1>1, <1>2, Invariant, PTL DEF Spec

\* Whatever switches, refused seats, undone moves, late reports of closed seats, busy
\* actors and restarts do, a seated player has his entry: no other room takes him, and
\* his room does not expire.  What can break this is named by the hypothesis: a hand that
\* starts between a switch's check and its leave, a client that goes away, a room that
\* expires under a Join, and a room created by who is joining (manager.go's Join).
THEOREM SeatsHaveEntries ==
  ASSUME {"hand", "cancel", "expiry", "create"} \cap Races = {}
  PROVE  Spec => []SeatHasEntry
<1>1. Steady
  BY DEF Steady
<1> QED  BY <1>1, EntryInvariant, EntryInvSeats, PTL

\* Under the same hypothesis no actor is closed under a player with a seat there, however
\* late timers fire and whatever a restart finds (expireEmptyRoom, Restore).
THEOREM NobodyIsEvicted ==
  ASSUME {"hand", "cancel", "expiry", "create"} \cap Races = {}
  PROVE  Spec => []NobodyEvicted
<1>1. Steady
  BY DEF Steady
<1> QED  BY <1>1, EntryInvariant, EntryInvClosed, PTL

=============================================================================
