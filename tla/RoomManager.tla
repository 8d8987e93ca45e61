----------------------------- MODULE RoomManager -----------------------------
(***************************************************************************)
(* The room manager of services/server/internal/room/manager.go and the    *)
(* part of its actors that it drives: seats, reservations, departures.     *)
(* What interleaves are the sections under m.mu, the handlers of the       *)
(* actors, the one Join that holds transitionMu, the timers of empty rooms *)
(* and a crash with the restart that follows.  A handler that settles      *)
(* seats reports each one to the manager (releaseSeat) before it answers.  *)
(*                                                                         *)
(* A hand is the set of players dealt in.  The database keeps one open     *)
(* seat session per user, whichever the room.                              *)
(***************************************************************************)
EXTENDS Naturals, FiniteSets

CONSTANTS
  Users, Rooms, Seats, NoRoom, NoSeat, Nobody, Idle,
  FirstSeat,   \* where the creator of a room sits
  Races,       \* which of the events below may disturb a Join
  MaxJoins, MaxHands, MaxCrashes   \* bounds

\* "hand": a hand starts between a switch's check and its leave; "cancel": the
\* client goes away; "store": the seat's transaction fails; "expiry": an empty
\* room ends while a Join is on its way there; "create": the user creates a
\* room while he joins another; "busy": an actor answers too late to release a
\* reservation
ASSUME RacesAssumption == Races \subseteq {"hand", "cancel", "store", "expiry", "create", "busy"}
ASSUME NamesAssumption ==
  /\ NoRoom \notin Rooms /\ NoSeat \notin Seats /\ Nobody \notin Users
  /\ FirstSeat \in Seats
ASSUME BoundsAssumption == {MaxJoins, MaxHands, MaxCrashes} \subseteq Nat

VARIABLES
  rooms,     \* m.rooms: rooms that can be found
  active,    \* m.activeSeat
  timed,     \* rooms with an empty timer running
  created,   \* rooms that exist or existed
  closed,    \* rooms whose actor was closed
  ended,     \* rooms ended by their owner
  seat,      \* seat of each user in each actor's game
  leaving,   \* users who left during the hand
  dealt,     \* players dealt into the running hand, none between hands
  reserved,  \* a.reservations
  releasing, \* settled users the actor has yet to report to the manager
  pending,   \* a Join its caller gave up, still in the actor's hands
  row,       \* room of each user's open seat session in the database
  join,      \* the Join that holds transitionMu
  joins, hands, crashes   \* counts for the bounds

actors == <<seat, leaving, dealt, reserved, releasing, pending, row, ended>>
manager == <<rooms, active, timed, created, closed>>
vars == <<actors, manager, join, joins, hands, crashes>>

Steps == {"check", "reserve", "leave", "left", "move", "join", "undo", "return",
          "rejoin", "drop", "unreserve"}

Joins ==
  [user : Users, target : Rooms, seat : Seats, from : Rooms \cup {NoRoom},
   back : Seats \cup {NoSeat}, step : Steps, cancelled : BOOLEAN]

ASSUME IdleAssumption == Idle \notin Joins

Requests == [user : Users, seat : Seats]

TypeOK ==
  /\ created \subseteq Rooms /\ rooms \subseteq created /\ closed \subseteq created \ rooms
  /\ timed \subseteq Rooms /\ ended \subseteq Rooms
  /\ active \in [Users -> Rooms \cup {NoRoom}]
  /\ row \in [Users -> Rooms \cup {NoRoom}]
  /\ seat \in [Rooms -> [Users -> Seats \cup {NoSeat}]]
  /\ leaving \in [Rooms -> SUBSET Users]
  /\ dealt \in [Rooms -> SUBSET Users]
  /\ releasing \in [Rooms -> SUBSET Users]
  /\ reserved \in [Rooms -> [Seats -> Users \cup {Nobody}]]
  /\ pending \in [Rooms -> SUBSET Requests]
  /\ join \in Joins \cup {Idle}
  /\ joins \in 0..MaxJoins /\ hands \in 0..MaxHands /\ crashes \in 0..MaxCrashes

-----------------------------------------------------------------------------
(* Actors *)

Sitting(r) == {u \in Users : seat[r][u] # NoSeat}
InHand(r) == dealt[r] # {}

\* the actor's loop takes another call
Ready(r) == r \notin closed /\ releasing[r] = {} /\ pending[r] = {}

\* (mutation of SeatFree: without the unique index of open seat sessions)
SeatFreeInGame(r, u, s) ==
  /\ reserved[r][s] \in {u, Nobody}
  /\ s \notin {seat[r][v] : v \in Users}
  /\ seat[r][u] = NoSeat

\* whether Sit and the transaction behind it accept the seat
SeatFree(r, u, s) ==
  /\ reserved[r][s] \in {u, Nobody}
  /\ s \notin {seat[r][v] : v \in Users}
  /\ seat[r][u] = NoSeat
  /\ row[u] = NoRoom

Unreserve(r, u, s) ==
  reserved' = IF reserved[r][s] = u THEN [reserved EXCEPT ![r][s] = Nobody] ELSE reserved

Seated(r, u, s) ==
  /\ r \notin ended
  /\ SeatFree(r, u, s)
  /\ seat' = [seat EXCEPT ![r][u] = s]
  /\ row' = [row EXCEPT ![u] = r]
  /\ Unreserve(r, u, s)
  /\ UNCHANGED <<leaving, dealt, releasing, ended>>

Refused(r, u, s) ==
  /\ r \in ended \/ ~SeatFree(r, u, s) \/ "store" \in Races
  /\ IF r \in ended THEN UNCHANGED reserved ELSE Unreserve(r, u, s)
  /\ UNCHANGED <<seat, row, leaving, dealt, releasing, ended>>

\* the settled seats are free, their sessions closed, their users to be reported
Settle(r, gone) ==
  /\ seat' = [seat EXCEPT ![r] = [u \in Users |-> IF u \in gone THEN NoSeat ELSE @[u]]]
  /\ row' = [u \in Users |-> IF u \in gone THEN NoRoom ELSE row[u]]
  /\ releasing' = [releasing EXCEPT ![r] = gone]
  /\ UNCHANGED reserved

\* the hand is over, at once when nobody is left to contend with
HandDone(r, gone) ==
  /\ dealt' = [dealt EXCEPT ![r] = {}]
  /\ leaving' = [leaving EXCEPT ![r] = {}]
  /\ Settle(r, gone)

Withdraw(r, u) ==
  LET gone == leaving[r] \cup {u} IN
  /\ Ready(r) /\ r \notin ended /\ seat[r][u] # NoSeat
  /\ \/ ~InHand(r) /\ HandDone(r, gone)
     \/ InHand(r) /\ HandDone(r, gone)
     \/ /\ Cardinality(dealt[r] \ gone) >= 2
        /\ leaving' = [leaving EXCEPT ![r] = gone]
        /\ UNCHANGED <<dealt, seat, row, releasing, reserved>>
  /\ UNCHANGED <<ended, pending>>

\* a player leaves, is removed by the owner, or was disconnected for too long
Leave(r, u) ==
  /\ Withdraw(r, u)
  /\ UNCHANGED <<manager, join, joins, hands, crashes>>

Switching(r) ==
  /\ join # Idle /\ join.from = r /\ join.step \in {"reserve", "leave"}

StartHand(r) ==
  /\ Ready(r) /\ r \notin ended /\ ~InHand(r) /\ hands < MaxHands
  /\ Switching(r) => "hand" \in Races
  /\ \E players \in SUBSET Sitting(r) :
       /\ Cardinality(players) >= 2
       /\ dealt' = [dealt EXCEPT ![r] = players]
  /\ hands' = hands + 1
  /\ UNCHANGED <<seat, leaving, reserved, releasing, pending, row, ended, manager, join,
                 joins, crashes>>

EndHand(r) ==
  /\ Ready(r) /\ InHand(r)
  /\ HandDone(r, leaving[r])
  /\ UNCHANGED <<ended, pending, manager, join, joins, hands, crashes>>

EndRoom(r) ==
  /\ Ready(r) /\ r \notin ended /\ Sitting(r) # {} /\ ~InHand(r)
  /\ \A s \in Seats : reserved[r][s] = Nobody
  /\ ended' = ended \cup {r}
  /\ Settle(r, Sitting(r))
  /\ UNCHANGED <<leaving, dealt, pending, manager, join, joins, hands, crashes>>

\* the actor completes a Join nobody waits for any more
FinishAbandoned(r) ==
  /\ r \notin closed /\ releasing[r] = {}
  /\ \E q \in pending[r] :
       /\ Seated(r, q.user, q.seat) \/ Refused(r, q.user, q.seat)
       /\ pending' = [pending EXCEPT ![r] = @ \ {q}]
  /\ UNCHANGED <<manager, join, joins, hands, crashes>>

-----------------------------------------------------------------------------
(* The manager *)

HasActiveSeat(entries, r) == \E u \in Users : entries[u] = r

\* whatever room the entry names, and a timer for it when it was the last one
ReleaseSeat(u) ==
  LET without == [active EXCEPT ![u] = NoRoom] IN
  /\ active' = without
  /\ timed' = IF active[u] # NoRoom /\ ~HasActiveSeat(without, active[u])
              THEN timed \cup {active[u]} ELSE timed
  /\ UNCHANGED <<rooms, created, closed>>

\* (mutation of SeatClosed: releaseSeat waits for transitionMu, which the switch holds that waits for it)
SeatClosedSerially(r, u) ==
  /\ r \notin closed /\ u \in releasing[r] /\ join = Idle
  /\ ReleaseSeat(u)
  /\ releasing' = [releasing EXCEPT ![r] = @ \ {u}]
  /\ UNCHANGED <<seat, leaving, dealt, reserved, pending, row, ended, join, joins, hands,
                 crashes>>

\* onSeatClosed, called by the actor for every settled user
SeatClosed(r, u) ==
  /\ r \notin closed /\ u \in releasing[r]
  /\ ReleaseSeat(u)
  /\ releasing' = [releasing EXCEPT ![r] = @ \ {u}]
  /\ UNCHANGED <<seat, leaving, dealt, reserved, pending, row, ended, join, joins, hands,
                 crashes>>

Create(u, r) ==
  /\ r \notin created /\ active[u] = NoRoom /\ row[u] = NoRoom
  /\ (join # Idle /\ join.user = u) => "create" \in Races
  /\ created' = created \cup {r}
  /\ rooms' = rooms \cup {r}
  /\ active' = [active EXCEPT ![u] = r]
  /\ seat' = [seat EXCEPT ![r][u] = FirstSeat]
  /\ row' = [row EXCEPT ![u] = r]
  /\ UNCHANGED <<timed, closed, leaving, dealt, reserved, releasing, pending, ended, join,
                 joins, hands, crashes>>

\* expireEmptyRoom: first the maps, then the database and the actor
ExpireEmptyRoom(r) ==
  /\ r \in timed
  /\ (join # Idle /\ r \in {join.target, join.from}) => "expiry" \in Races
  /\ timed' = timed \ {r}
  /\ rooms' = IF HasActiveSeat(active, r) THEN rooms ELSE rooms \ {r}
  /\ UNCHANGED <<active, created, closed, actors, join, joins, hands, crashes>>

\* (mutation of CloseExpiredRoom: the room's map entry is not looked at)
CloseListedRoom(r) ==
  /\ r \in created \ closed /\ timed = {} /\ releasing[r] = {} /\ pending[r] = {}
  /\ closed' = closed \cup {r}
  /\ UNCHANGED <<rooms, active, timed, created, actors, join, joins, hands, crashes>>

CloseExpiredRoom(r) ==
  /\ r \in created \ (rooms \cup closed)
  /\ pending[r] = {} /\ releasing[r] = {}
  /\ closed' = closed \cup {r}
  /\ UNCHANGED <<rooms, active, timed, created, actors, join, joins, hands, crashes>>

\* (mutation of CrashAndRestore: Restore does not fill activeSeat)
RestoreWithoutEntries ==
  LET loaded == {r \in created \ (closed \cup ended) : Sitting(r) # {}} IN
  /\ crashes < MaxCrashes /\ crashes' = crashes + 1
  /\ rooms' = loaded /\ closed' = created \ loaded
  /\ active' = [u \in Users |-> NoRoom]
  /\ timed' = {} /\ join' = Idle
  /\ reserved' = [r \in Rooms |-> [s \in Seats |-> Nobody]]
  /\ releasing' = [r \in Rooms |-> {}] /\ pending' = [r \in Rooms |-> {}]
  /\ UNCHANGED <<created, seat, leaving, dealt, row, ended, joins, hands>>

\* the rooms whose stored status is neither empty nor ended are loaded
CrashAndRestore ==
  LET loaded == {r \in created \ (closed \cup ended) : Sitting(r) # {}} IN
  /\ crashes < MaxCrashes
  /\ crashes' = crashes + 1
  /\ rooms' = loaded
  /\ closed' = created \ loaded
  /\ active' = [u \in Users |->
                  IF \E r \in loaded : seat[r][u] # NoSeat
                  THEN CHOOSE r \in loaded : seat[r][u] # NoSeat ELSE NoRoom]
  /\ timed' = {}
  /\ reserved' = [r \in Rooms |-> [s \in Seats |-> Nobody]]
  /\ releasing' = [r \in Rooms |-> {}]
  /\ pending' = [r \in Rooms |-> {}]
  /\ join' = Idle
  /\ UNCHANGED <<created, seat, leaving, dealt, row, ended, joins, hands>>

-----------------------------------------------------------------------------
(* Join *)

At(step) == join # Idle /\ join.step = step

GoTo(step) == join' = [join EXCEPT !.step = step]

\* a player of the same room is only sent its snapshot; one whose room is gone
\* takes the way of a player who sits nowhere
StartJoin(u, r, s) ==
  /\ join = Idle /\ joins < MaxJoins /\ r \in rooms /\ active[u] # r
  /\ LET from == IF active[u] \in rooms THEN active[u] ELSE NoRoom
     IN  join' = [user |-> u, target |-> r, seat |-> s, from |-> from, back |-> NoSeat,
                  step |-> IF from = NoRoom THEN "move" ELSE "check", cancelled |-> FALSE]
  /\ joins' = joins + 1
  /\ UNCHANGED <<actors, manager, hands, crashes>>

\* SeatForImmediateSwitch
CheckSeat ==
  /\ At("check") /\ (Ready(join.from) \/ join.from \in closed)
  /\ IF join.from \in closed \/ InHand(join.from) \/ seat[join.from][join.user] = NoSeat
     THEN join' = Idle
     ELSE join' = [join EXCEPT !.step = "reserve", !.back = seat[join.from][join.user]]
  /\ UNCHANGED <<actors, manager, joins, hands, crashes>>

CanReserve(r, u, s) ==
  /\ r \notin closed \cup ended
  /\ s \notin {seat[r][v] : v \in Users}
  /\ seat[r][u] = NoSeat
  /\ reserved[r][s] \in {u, Nobody}

ReserveSeatForSwitch ==
  /\ At("reserve") /\ (Ready(join.target) \/ join.target \in closed)
  /\ IF CanReserve(join.target, join.user, join.seat)
     THEN /\ reserved' = [reserved EXCEPT ![join.target][join.seat] = join.user]
          /\ GoTo("leave")
     ELSE join' = Idle /\ UNCHANGED reserved
  /\ UNCHANGED <<seat, leaving, dealt, releasing, pending, row, ended, manager, joins,
                 hands, crashes>>

\* Handle(room.leave) of the first room, whatever happened there since the check
LeaveCurrent ==
  /\ At("leave")
  /\ \/ Withdraw(join.from, join.user) /\ GoTo("left")
     \/ /\ join.from \in closed \/ Ready(join.from)
        /\ join.from \in closed \cup ended \/ seat[join.from][join.user] = NoSeat
        /\ GoTo("unreserve")
        /\ UNCHANGED actors
  /\ UNCHANGED <<manager, joins, hands, crashes>>

\* the handler answers once every settled seat is reported
LeaveAnswered ==
  /\ At("left") /\ releasing[join.from] = {}
  /\ GoTo("move")
  /\ UNCHANGED <<actors, manager, joins, hands, crashes>>

MoveEntry ==
  /\ At("move")
  /\ active' = [active EXCEPT ![join.user] = join.target]
  /\ timed' = timed \ {join.target}
  /\ GoTo("join")
  /\ UNCHANGED <<rooms, created, closed, actors, joins, hands, crashes>>

Done == IF join.from = NoRoom THEN join' = Idle ELSE GoTo("unreserve")
Failed == GoTo(IF join.from = NoRoom THEN "drop" ELSE "undo")

JoinTarget ==
  /\ At("join")
  /\ \/ /\ Ready(join.target)
        /\ \/ Seated(join.target, join.user, join.seat) /\ Done
           \/ Refused(join.target, join.user, join.seat) /\ Failed
        /\ UNCHANGED pending
     \/ join.target \in closed /\ Failed /\ UNCHANGED actors
  /\ UNCHANGED <<manager, joins, hands, crashes>>

UndoMove ==
  /\ At("undo")
  /\ ReleaseSeat(join.user)
  /\ GoTo("return")
  /\ UNCHANGED <<actors, joins, hands, crashes>>

\* (mutation of ReturnEntry: the previous room's entry is not put back before its seat is)
ReturnTimerOnly ==
  /\ At("return") /\ timed' = timed \ {join.from} /\ GoTo("rejoin")
  /\ UNCHANGED <<rooms, active, created, closed, actors, joins, hands, crashes>>

ReturnEntry ==
  /\ At("return")
  /\ active' = [active EXCEPT ![join.user] = join.from]
  /\ timed' = timed \ {join.from}
  /\ GoTo("rejoin")
  /\ UNCHANGED <<rooms, created, closed, actors, joins, hands, crashes>>

RejoinCurrent ==
  /\ At("rejoin")
  /\ \/ /\ Ready(join.from)
        /\ \/ Seated(join.from, join.user, join.back) /\ GoTo("unreserve")
           \/ Refused(join.from, join.user, join.back) /\ GoTo("drop")
        /\ UNCHANGED pending
     \/ join.from \in closed /\ GoTo("drop") /\ UNCHANGED actors
  /\ UNCHANGED <<manager, joins, hands, crashes>>

\* (mutation of DropEntry: a failed Join keeps its entry)
DropNothing ==
  /\ At("drop") /\ Done
  /\ UNCHANGED <<manager, actors, joins, hands, crashes>>

\* (mutation of DropEntry: the entry is deleted without the timer)
DropEntryOnly ==
  /\ At("drop")
  /\ active' = [active EXCEPT ![join.user] = NoRoom]
  /\ Done
  /\ UNCHANGED <<rooms, timed, created, closed, actors, joins, hands, crashes>>

DropEntry ==
  /\ At("drop")
  /\ ReleaseSeat(join.user)
  /\ Done
  /\ UNCHANGED <<actors, joins, hands, crashes>>

\* (mutation of ReleaseReservation: the deferred release is missing)
KeepReservation ==
  /\ At("unreserve") /\ join' = Idle
  /\ UNCHANGED <<actors, manager, joins, hands, crashes>>

\* ReleaseSeatReservation has a second of its own to reach the actor
ReleaseReservation ==
  /\ At("unreserve")
  /\ \/ Ready(join.target) /\ Unreserve(join.target, join.user, join.seat)
     \/ (join.target \in closed \/ "busy" \in Races) /\ UNCHANGED reserved
  /\ join' = Idle
  /\ UNCHANGED <<seat, leaving, dealt, releasing, pending, row, ended, manager, joins,
                 hands, crashes>>

\* the request's context ends: from now on every call may answer with its error
Cancel ==
  /\ "cancel" \in Races /\ join # Idle /\ ~join.cancelled
  /\ join' = [join EXCEPT !.cancelled = TRUE]
  /\ UNCHANGED <<actors, manager, joins, hands, crashes>>

\* call() returns though the actor may already have the operation in hand
GiveUpJoin ==
  /\ (At("join") \/ At("rejoin")) /\ join.cancelled
  /\ LET r == IF join.step = "join" THEN join.target ELSE join.from
         s == IF join.step = "join" THEN join.seat ELSE join.back
     IN  \/ UNCHANGED pending
         \/ Ready(r) /\ pending' = [pending EXCEPT ![r] = {[user |-> join.user, seat |-> s]}]
  /\ IF join.step = "join" THEN Failed ELSE GoTo("drop")
  /\ UNCHANGED <<seat, leaving, dealt, reserved, releasing, row, ended, manager, joins,
                 hands, crashes>>

\* before the first room was left, giving up leaves at most a reservation
GiveUpSwitch ==
  /\ (At("check") \/ At("reserve")) /\ join.cancelled
  /\ \/ UNCHANGED reserved
     \/ /\ At("reserve") /\ Ready(join.target)
        /\ CanReserve(join.target, join.user, join.seat)
        /\ reserved' = [reserved EXCEPT ![join.target][join.seat] = join.user]
  /\ join' = Idle
  /\ UNCHANGED <<seat, leaving, dealt, releasing, pending, row, ended, manager, joins,
                 hands, crashes>>

GiveUpLeave ==
  /\ At("leave") /\ join.cancelled
  /\ \/ UNCHANGED actors
     \/ Withdraw(join.from, join.user)
  /\ GoTo("unreserve")
  /\ UNCHANGED <<manager, joins, hands, crashes>>

JoinStep ==
  \/ CheckSeat \/ ReserveSeatForSwitch \/ LeaveCurrent \/ LeaveAnswered \/ MoveEntry
  \/ JoinTarget \/ UndoMove \/ ReturnEntry \/ RejoinCurrent \/ DropEntry
  \/ ReleaseReservation

GiveUp == Cancel \/ GiveUpJoin \/ GiveUpSwitch \/ GiveUpLeave

RoomStep(r) ==
  \/ EndHand(r) \/ FinishAbandoned(r) \/ ExpireEmptyRoom(r) \/ CloseExpiredRoom(r)
  \/ \E u \in Users : SeatClosed(r, u)

RoomCommand(r) ==
  \/ StartHand(r) \/ EndRoom(r)
  \/ \E u \in Users : Leave(r, u) \/ Create(u, r) \/ \E s \in Seats : StartJoin(u, r, s)

-----------------------------------------------------------------------------

Init ==
  /\ rooms = {} /\ timed = {} /\ created = {} /\ closed = {} /\ ended = {}
  /\ active = [u \in Users |-> NoRoom]
  /\ row = [u \in Users |-> NoRoom]
  /\ seat = [r \in Rooms |-> [u \in Users |-> NoSeat]]
  /\ leaving = [r \in Rooms |-> {}]
  /\ dealt = [r \in Rooms |-> {}]
  /\ releasing = [r \in Rooms |-> {}]
  /\ pending = [r \in Rooms |-> {}]
  /\ reserved = [r \in Rooms |-> [s \in Seats |-> Nobody]]
  /\ join = Idle
  /\ joins = 0 /\ hands = 0 /\ crashes = 0

Next ==
  \/ JoinStep \/ GiveUp \/ CrashAndRestore
  \/ \E r \in Rooms : RoomStep(r) \/ RoomCommand(r)

Spec == Init /\ [][Next]_vars

\* loops of the actors, goroutines of requests and timers all run
FairSpec ==
  /\ Spec
  /\ WF_vars(JoinStep)
  /\ \A r \in Rooms :
       /\ WF_vars(EndHand(r)) /\ WF_vars(FinishAbandoned(r))
       /\ WF_vars(ExpireEmptyRoom(r)) /\ WF_vars(CloseExpiredRoom(r))
       /\ \A u \in Users : WF_vars(SeatClosed(r, u))

-----------------------------------------------------------------------------
(* Properties *)

Joining(u) == join # Idle /\ join.user = u
Open(r) == r \in rooms \ ended

\* No user holds seats in two rooms, whatever joins, switches, cancellations,
\* timers and crashes do (Join, Create, OpenSeat).
OneTable ==
  \A u \in Users, r1, r2 \in Rooms : seat[r1][u] # NoSeat /\ seat[r2][u] # NoSeat => r1 = r2

\* An entry of activeSeat has a seat behind it, unless its user's Join is still
\* under way or the actor has yet to report the seat's end (Join, releaseSeat):
\* a player is never kept out of other rooms by a seat he does not have.
EntryHasSeat ==
  \A u \in Users : active[u] # NoRoom =>
    \/ seat[active[u]][u] # NoSeat
    \/ Joining(u)
    \/ u \in releasing[active[u]]

\* A seated player has his entry in activeSeat, unless his own Join is rewriting it.
SeatHasEntry ==
  \A u \in Users, r \in Rooms : seat[r][u] # NoSeat => active[u] = r \/ Joining(u)

\* A seat is kept only for the Join that is going to take it.
ReservedForJoin ==
  \A r \in Rooms \ closed, s \in Seats : reserved[r][s] # Nobody =>
    join # Idle /\ join.user = reserved[r][s] /\ join.target = r /\ join.seat = s

\* No actor is closed under a player who still has a seat there.
NobodyEvicted ==
  \A r \in closed : Sitting(r) = {}

\* Every Join is answered.
JoinAnswered == join # Idle ~> join = Idle

\* A room nobody has an entry for is entered again or closed.
EmptyRoomCloses ==
  \A r \in Rooms : (r \in rooms /\ ~HasActiveSeat(active, r))
                     ~> (r \in closed \/ HasActiveSeat(active, r))
=============================================================================
