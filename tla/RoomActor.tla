------------------------------- MODULE RoomActor -------------------------------
(***************************************************************************)
(* The room actor of services/server/internal/room/actor.go with what it   *)
(* depends on: the persisted state, the score ledger, the players' sockets *)
(* and its two kinds of timers.  A handler runs alone (loop), so an action *)
(* is a whole handler; what interleaves are the handlers themselves, their *)
(* failures (a settlement that fails after others were applied, an event   *)
(* that is not persisted, one that is persisted but not acknowledged), and *)
(* crashes with the restart that follows.  A crash in the middle of a      *)
(* handler leaves what a failed handler and a crash leave.                 *)
(*                                                                         *)
(* The hand is abstract: who is dealt, who still contends, who can still   *)
(* act and whose turn it is; Game has the rules.  A hand moves one point   *)
(* from one dealt player to another, or sticks when showdown() returns its *)
(* error.  Who sits down during a hand takes no part in it.                *)
(***************************************************************************)
EXTENDS Integers, FiniteSets

CONSTANTS
  Users, Creator, Nobody, NotSettled,
  RequestIds,       \* request ids that clients send again after an error
  PersistFailures,  \* how onEvent may fail: "lost" or "unacknowledged"
  MaxSessions, MaxSockets, MaxFaults,   \* bounds
  MaxTurns          \* bound on the hands started and the turns passed, together

ASSUME UsersAssumption == Creator \in Users /\ Nobody \notin Users
ASSUME NotSettledAssumption == NotSettled \notin Int
ASSUME FailuresAssumption == PersistFailures \subseteq {"lost", "unacknowledged"}
ASSUME RoomBoundsAssumption ==
  /\ MaxSessions \in Nat \ {0}
  /\ {MaxTurns, MaxSockets, MaxFaults} \subseteq Nat

VARIABLES
  status,   \* the server process and whether it holds the room
  mem,      \* the part of the Actor that persistentState() exports
  db,       \* the last persisted state
  rows,     \* user of each row of seat_sessions
  logged,   \* <<user, request id>> of the rows of room_events
  ledger,   \* net settled to the account for each seat session
  closed,   \* history: net with which each session left the room
  opened,   \* number of seat sessions ever opened
  joined,   \* history: sessions whose Join was answered
  answered, \* history: <<user, request id>> of the commands answered
  armed,    \* whose turn the action timer of the current actionGen ends
  conn,     \* connections
  dgen,     \* disconnectGen
  signals,  \* disconnect timers running: user, generation, session (history)
  sockets,  \* websockets open per user, opened during his present session
  stale,    \* websockets per user left over from an earlier session
  dialed,   \* bounded number of sockets opened
  faults    \* bounded number of failures and crashes

presence == <<conn, dgen, signals, sockets, stale, dialed>>
vars == <<status, mem, db, rows, logged, ledger, closed, opened, joined, answered,
          armed, presence, faults>>

Sessions == 1..MaxSessions
Keys == Users \X RequestIds
Fresh == "fresh"   \* a request id that is never sent again
Zero == [u \in Users |-> 0]

Deadlines == {"none", "own", "postponed", "previous"}

States ==
  [session : [Users -> 0..MaxSessions], disconnected : SUBSET Users,
   leaving : SUBSET Users, net : [Users -> Int], owner : Users \cup {Nobody},
   dealt : SUBSET Users, live : SUBSET Users, able : SUBSET Users,
   turn : Users \cup {Nobody}, turns : 0..MaxTurns, deadline : Deadlines,
   ended : BOOLEAN, processed : SUBSET Keys]

Seated(m) == {u \in Users : m.session[u] # 0}
InHand(m) == m.dealt # {}

\* showdown() has failed: the street stays, and nobody can act
Stuck(m) == InHand(m) /\ m.turn = Nobody

-----------------------------------------------------------------------------
(* The hand *)

PointMoved(m, loser, winner) ==
  [m EXCEPT !.dealt = {}, !.live = {}, !.able = {}, !.turn = Nobody, !.deadline = "none",
            !.net = [u \in Users |-> @[u] + (IF u = winner THEN 1 ELSE 0)
                                          - (IF u = loser THEN 1 ELSE 0)]]

HandOver(m) == {PointMoved(m, loser, winner) : loser \in m.dealt, winner \in m.live}

\* showdown() meets a side pot that nobody left can win, its largest contributor
\* having folded.  finishAction drops the error, so what brought it on succeeds.
Sticks(m) ==
  IF Cardinality(m.live) > 1 /\ m.able = {} /\ m.live # m.dealt
  THEN {[m EXCEPT !.turn = Nobody, !.deadline = "none"]}
  ELSE {}

\* where the engine may go once a player has acted: the hand is over, or sticks, or
\* it is the turn of a player who can act, whose deadline is not set yet
TurnPasses(m) ==
  HandOver(m) \cup Sticks(m) \cup
  (IF Cardinality(m.live) = 1 \/ m.turns = MaxTurns THEN {}
   ELSE {[m EXCEPT !.turn = u, !.turns = @ + 1, !.deadline = "previous"] : u \in m.able})

Folded(m, u) == [m EXCEPT !.live = @ \ {u}, !.able = @ \ {u}]

StartHand(m) ==
  UNION {TurnPasses([m EXCEPT !.turns = @ + 1, !.dealt = S, !.live = S, !.able = S]) :
           S \in {T \in SUBSET (Seated(m) \ (m.disconnected \cup m.leaving)) :
                    Cardinality(T) >= 2}}

\* a call or raise, an all-in, a fold
Act(m, u) ==
  TurnPasses(m) \cup TurnPasses([m EXCEPT !.able = @ \ {u}]) \cup TurnPasses(Folded(m, u))

TimedOut(m, u) == TurnPasses(m) \cup TurnPasses(Folded(m, u))

Gone(m, u) == [m EXCEPT !.leaving = @ \cup {u}, !.disconnected = @ \ {u}]

Withdraw(m, u) ==
  LET out == Folded(Gone(m, u), u)
  IN  IF ~InHand(m) \/ Stuck(m) \/ u \in m.live \ m.able THEN {Gone(m, u)}
      ELSE IF u = m.turn THEN TurnPasses(out)
      ELSE IF Cardinality(out.live) = 1 THEN HandOver(out)
      ELSE {out}

-----------------------------------------------------------------------------
(* Settlement and ownership *)

\* (mutation of NextOwner: empty seats are not skipped)
NextOwnerUnchecked(m) ==
  LET present == Users \ (m.disconnected \cup m.leaving) IN
  IF present = {} THEN Nobody
  ELSE CHOOSE u \in present : \A v \in present : m.session[u] <= m.session[v]

\* transferOwnerAfterDeparture: the earliest of those present; session numbers
\* are in the order of joining
NextOwner(m) ==
  LET present == Seated(m) \ (m.disconnected \cup m.leaving) IN
  IF present = {} THEN Nobody
  ELSE CHOOSE u \in present : \A v \in present : m.session[u] <= m.session[v]

\* (mutation of Departing: seats are settled when the room ends, not before)
DepartingAtEnd(m) == IF m.ended THEN Seated(m) ELSE {}

\* whom settlementsForStableState() settles
Departing(m) ==
  IF m.ended THEN Seated(m) ELSE IF InHand(m) THEN {} ELSE m.leaving

Removed(m, S) ==
  LET left(f) == [u \in Users |-> IF u \in S THEN 0 ELSE f[u]]
      rest == [m EXCEPT !.session = left(@), !.net = left(@),
                        !.disconnected = @ \ S, !.leaving = @ \ S]
  IN  [rest EXCEPT !.owner = IF @ \in S THEN NextOwner(rest) ELSE @]

SettledState(m) == Removed(m, Departing(m))

\* (mutation of LedgerAfter: a session without gain or loss is not recorded)
LedgerOfChanges(m, S) ==
  [s \in Sessions |->
     IF ledger[s] = NotSettled /\ \E u \in S : m.session[u] = s /\ m.net[u] # 0
     THEN m.net[CHOOSE u \in S : m.session[u] = s]
     ELSE ledger[s]]

\* ApplySettlement for the players of S: a session already settled keeps its net
LedgerAfter(m, S) ==
  [s \in Sessions |->
     IF ledger[s] = NotSettled /\ \E u \in S : m.session[u] = s
     THEN m.net[CHOOSE u \in S : m.session[u] = s]
     ELSE ledger[s]]

\* scheduleActionTimeout
Granted(m) ==
  IF InHand(m) /\ m.turn # Nobody
  THEN [m EXCEPT !.deadline = IF @ = "previous" THEN "own" ELSE "postponed"]
  ELSE m

\* (mutation of Recorded: the processed request is not part of the state)
NotRecorded(m, key) == m

Recorded(m, key) ==
  IF key[2] = Fresh THEN m ELSE [m EXCEPT !.processed = @ \cup {key}]

-----------------------------------------------------------------------------
(* How a handler ends.  m is the state once the operation is applied,      *)
(* `saved' what is given to onEvent, `final' what the handler leaves.      *)

Fault == faults < MaxFaults /\ faults' = faults + 1

\* (mutation of RolledBack: the timer is not scheduled again)
RolledBackUnarmed ==
  /\ mem' = mem
  /\ armed' = Nobody
  /\ UNCHANGED <<status, rows, closed, opened, joined, answered>>

\* restorePersistentState: the memory is again what it was, and the timer of
\* the turn is scheduled anew for the deadline it had
RolledBack ==
  /\ mem' = mem
  /\ armed' = mem.turn
  /\ UNCHANGED <<status, rows, closed, opened, joined, answered>>

\* finishSettlements
PresenceForgotten(S) ==
  /\ conn' = [u \in Users |-> IF u \in S THEN 0 ELSE conn[u]]
  /\ dgen' = [u \in Users |-> IF u \in S THEN 0 ELSE dgen[u]]
  /\ sockets' = [u \in Users |-> IF u \in S THEN 0 ELSE sockets[u]]
  /\ stale' = [u \in Users |-> IF u \in S THEN stale[u] + sockets[u] ELSE stale[u]]

LoggedWith(key) == IF key[2] = Fresh THEN logged ELSE logged \cup {key}

\* appendRoomEventTx refuses a second row for a request
Loggable(key) == key \notin logged

Succeeds(m, saved, final, key, rearm) ==
  /\ Loggable(key)
  /\ mem' = final
  /\ db' = saved
  /\ logged' = LoggedWith(key)
  /\ ledger' = LedgerAfter(m, Departing(m))
  /\ closed' = [s \in Sessions |->
                  IF \E u \in Departing(m) : m.session[u] = s
                  THEN m.net[CHOOSE u \in Departing(m) : m.session[u] = s]
                  ELSE closed[s]]
  /\ answered' = IF key[2] = Fresh THEN answered ELSE answered \cup {key}
  /\ armed' = IF rearm \/ ~InHand(final) THEN final.turn ELSE armed
  /\ PresenceForgotten(Departing(m))
  /\ UNCHANGED <<status, rows, opened, joined, dialed, faults>>

\* a settlement fails after those of S, or all are applied and onEvent fails
Fails(m, saved, key) ==
  /\ RolledBack
  /\ UNCHANGED <<conn, dgen, sockets, stale, dialed>>
  /\ \/ /\ Fault
        /\ \/ /\ \E S \in SUBSET Departing(m) :
                   S # Departing(m) /\ ledger' = LedgerAfter(m, S)
              /\ UNCHANGED <<db, logged>>
           \/ /\ "lost" \in PersistFailures
              /\ ledger' = LedgerAfter(m, Departing(m))
              /\ UNCHANGED <<db, logged>>
           \/ /\ "unacknowledged" \in PersistFailures /\ Loggable(key)
              /\ ledger' = LedgerAfter(m, Departing(m))
              /\ db' = saved
              /\ logged' = LoggedWith(key)
     \/ /\ ~Loggable(key)
        /\ ledger' = LedgerAfter(m, Departing(m))
        /\ UNCHANGED <<db, logged, faults>>

-----------------------------------------------------------------------------
(* Handle: the commands of the clients *)

Running == status = "up" /\ ~mem.ended

Accepted(u, id) == Running /\ u \in Seated(mem) /\ <<u, id>> \notin mem.processed

\* In a stuck hand Withdraw calls advanceStreet for whoever does not contend and was not
\* the last to act, and returns its error.  By then the player is marked as leaving, and
\* the handler returns with that in memory: nothing is restored, persisted or scheduled.
WithdrawFails(u) ==
  /\ Stuck(mem) /\ u \notin mem.live
  /\ mem' = Gone(mem, u)
  /\ UNCHANGED <<status, db, rows, logged, ledger, closed, opened, joined, answered,
                 armed, conn, dgen, sockets, stale, dialed, faults>>

\* `changed': the command changed the version of the game
Command(u, id, m, changed) ==
  LET key   == <<u, id>>
      after == SettledState(m)
      saved == Recorded(IF changed THEN Granted(after) ELSE after, key)
  IN  /\ Accepted(u, id)
      /\ Succeeds(m, saved, saved, key, changed) \/ Fails(m, saved, key)
      /\ UNCHANGED signals

\* game.start
GameStart(u, id) ==
  /\ u = mem.owner
  /\ ~InHand(mem) /\ mem.turns < MaxTurns
  /\ \E m \in StartHand(mem) : Command(u, id, m, TRUE)

\* action.*; the expected version was read in the turn it is applied to
Action(u, id) ==
  /\ InHand(mem) /\ u = mem.turn
  /\ \E m \in Act(mem, u) : Command(u, id, m, TRUE)

\* room.leave
Leave(u, id) ==
  \/ \E m \in Withdraw(mem, u) : Command(u, id, m, TRUE)
  \/ Accepted(u, id) /\ WithdrawFails(u) /\ UNCHANGED signals

\* room.remove_player
RemovePlayer(u, id, target) ==
  /\ u = mem.owner /\ target # u
  /\ target \in Seated(mem)
  /\ \/ \E m \in Withdraw(mem, target) : Command(u, id, m, TRUE)
     \/ Accepted(u, id) /\ WithdrawFails(target) /\ UNCHANGED signals

\* room.transfer_owner
TransferOwner(u, id, target) ==
  /\ u = mem.owner
  /\ target \in Seated(mem)
  /\ Command(u, id, [mem EXCEPT !.owner = target], FALSE)

\* room.end
EndRoom(u, id) ==
  /\ u = mem.owner
  /\ ~InHand(mem)
  /\ Command(u, id, [mem EXCEPT !.ended = TRUE], FALSE)

\* (mutation of OtherCommand: any command schedules the timer)
OtherCommandScheduled(u, id) == Command(u, id, mem, TRUE)

\* room.ready, room.refill, room.quick_message, voice.mute, room.rotate_invite
OtherCommand(u, id) == Command(u, id, mem, FALSE)

\* a request that was processed is answered with its envelope
Duplicate(u, id) ==
  /\ Running
  /\ <<u, id>> \in mem.processed
  /\ answered' = answered \cup {<<u, id>>}
  /\ UNCHANGED <<status, mem, db, rows, logged, ledger, closed, opened, joined,
                 armed, presence, faults>>

-----------------------------------------------------------------------------
(* Join, and the timers *)

\* insertSeat: a user has one open row; its settlement closes it
RowOpen(u) == \E s \in Sessions : rows[s] = u /\ ledger[s] = NotSettled

\* roomStateStatus
StoredEmpty == ~db.ended /\ (db.owner = Nobody \/ Seated(db) = {})

\* what OpenSeatAndAppendRoomEventAndState requires of the database; a Join it
\* refuses is rolled back and changes nothing
JoinAccepted(u) == ~RowOpen(u) /\ (mem.owner = Nobody => StoredEmpty)

Join(u) ==
  LET s == opened + 1
      m == [mem EXCEPT !.session[u] = s, !.net[u] = 0,
                       !.owner = IF @ = Nobody THEN u ELSE @]
      committed == /\ JoinAccepted(u)
                   /\ db' = m
                   /\ rows' = [rows EXCEPT ![s] = u]
  IN  /\ Running
      /\ u \notin Seated(mem)
      /\ s \in Sessions
      /\ opened' = s
      /\ UNCHANGED <<status, logged, ledger, closed, answered, presence>>
      /\ \/ /\ mem' = m /\ committed
            /\ joined' = joined \cup {s}
            /\ UNCHANGED <<armed, faults>>
         \/ /\ Fault
            /\ mem' = mem /\ armed' = mem.turn
            /\ UNCHANGED joined
            /\ \/ "lost" \in PersistFailures /\ UNCHANGED <<db, rows>>
               \/ "unacknowledged" \in PersistFailures /\ committed

System == <<Nobody, Fresh>>

\* handleTimeout: the next turn is granted its time after the event is persisted.
\* In a stuck hand the timer's player cannot act and nothing is done.
ActionTimeout ==
  /\ Running
  /\ mem.turn # Nobody /\ armed = mem.turn
  /\ \E m \in TimedOut(mem, mem.turn) :
       LET after == SettledState(m) IN
       \/ Succeeds(m, after, Granted(after), System, TRUE)
       \/ Fails(m, after, System)
  /\ UNCHANGED signals

Applies(signal) ==
  /\ Running
  /\ signal.generation = dgen[signal.user]
  /\ conn[signal.user] = 0
  /\ signal.user \in mem.disconnected

\* (mutation of Rescheduled: the timer that failed does not run again)
NotRescheduled(signal) == signals' = signals \ {signal}

Rescheduled(signal) == UNCHANGED signals

\* handleDisconnectTimeout: a timer that still applies withdraws the player, and
\* runs again when that is not settled or persisted; any other is dropped
DisconnectTimeout(signal) ==
  \/ /\ Applies(signal)
     /\ \E m \in Withdraw(mem, signal.user) :
          LET after == SettledState(m) IN
          \/ Succeeds(m, after, Granted(after), System, TRUE) /\ signals' = signals \ {signal}
          \/ Fails(m, after, System) /\ Rescheduled(signal)
  \/ /\ Applies(signal) /\ WithdrawFails(signal.user)
     /\ signals' = signals \ {signal}
  \/ /\ status = "up" /\ ~Applies(signal)
     /\ signals' = signals \ {signal}
     /\ UNCHANGED <<status, mem, db, rows, logged, ledger, closed, opened, joined, answered,
                    armed, conn, dgen, sockets, stale, dialed, faults>>

-----------------------------------------------------------------------------
(* Presence *)

\* an event of the presence handlers: m is persisted and the rest of the step is
\* `done', or persisting fails and the step is `undone'
Persisted(m, done, undone) ==
  /\ UNCHANGED <<status, rows, logged, ledger, closed, opened, joined, answered>>
  /\ \/ mem' = m /\ db' = m /\ done /\ UNCHANGED <<armed, faults>>
     \/ /\ mem' = mem /\ armed' = mem.turn
        /\ Fault
        /\ undone
        /\ \/ "lost" \in PersistFailures /\ UNCHANGED db
           \/ "unacknowledged" \in PersistFailures /\ db' = m

\* a websocket opens: PlayerConnected.  When the event cannot be persisted the
\* socket is closed again.
PlayerConnected(u) ==
  LET counted ==
        /\ conn' = [conn EXCEPT ![u] = @ + 1]
        /\ dgen' = [dgen EXCEPT ![u] = @ + 1]
        /\ sockets' = [sockets EXCEPT ![u] = @ + 1]
  IN  /\ status = "up" /\ u \in Seated(mem)
      /\ dialed < MaxSockets /\ dialed' = dialed + 1
      /\ UNCHANGED <<signals, stale>>
      /\ IF u \in mem.disconnected
         THEN Persisted([mem EXCEPT !.disconnected = @ \ {u}], counted,
                        UNCHANGED <<conn, dgen, sockets>>)
         ELSE counted /\ UNCHANGED <<status, mem, db, rows, logged, ledger, closed, opened,
                                      joined, answered, armed, faults>>

SocketCloses(u, old) ==
  IF old THEN stale[u] > 0 /\ stale' = [stale EXCEPT ![u] = @ - 1] /\ UNCHANGED sockets
  ELSE sockets[u] > 0 /\ sockets' = [sockets EXCEPT ![u] = @ - 1] /\ UNCHANGED stale

\* a websocket closes, possibly one that was opened before the player left and
\* sat down again: PlayerDisconnected, called once
PlayerDisconnected(u, old) ==
  LET left == IF conn[u] > 0 THEN conn[u] - 1 ELSE 0
      gen  == dgen[u] + 1
      marked ==
        /\ conn' = [conn EXCEPT ![u] = left]
        /\ dgen' = [dgen EXCEPT ![u] = gen]
        /\ signals' = signals \cup
             {[user |-> u, generation |-> gen, session |-> mem.session[u]]}
      unheard == UNCHANGED <<status, mem, db, rows, logged, ledger, closed, opened, joined,
                             answered, armed, dgen, signals, faults>>
  IN  /\ status = "up"
      /\ SocketCloses(u, old)
      /\ UNCHANGED dialed
      /\ IF u \notin Seated(mem) THEN unheard /\ UNCHANGED conn
         ELSE IF left > 0 \/ u \in mem.disconnected
         THEN unheard /\ conn' = [conn EXCEPT ![u] = left]
         ELSE Persisted([mem EXCEPT !.disconnected = @ \cup {u}], marked,
                        UNCHANGED <<conn, dgen, signals>>)

-----------------------------------------------------------------------------
(* Crash and restart *)

Crash ==
  /\ status = "up" /\ Fault
  /\ status' = "down"
  /\ mem' = db   \* the memory is gone: what is left of the room is in the database
  /\ armed' = Nobody
  /\ conn' = Zero /\ dgen' = Zero /\ sockets' = Zero /\ stale' = Zero
  /\ signals' = {}
  /\ UNCHANGED <<db, rows, logged, ledger, closed, opened, joined, answered, dialed>>

\* LoadRoomStates: saveRoomStateTx calls a room without owner `empty'
Loaded(m) == ~m.ended /\ m.owner # Nobody /\ Seated(m) # {}

\* (mutation of Resumed: empty seats are not skipped)
ResumedAll(m) == [m EXCEPT !.disconnected = Users]

\* Restore and ResumeAfterRestart: everyone who is not leaving is disconnected
\* and has the retention period to come back.  When that cannot be persisted the
\* server does not start.
Resumed(m) == [m EXCEPT !.disconnected = Seated(m) \ m.leaving]

Restart ==
  LET m    == Resumed(db)
      back == m.disconnected
  IN  /\ status = "down"
      /\ UNCHANGED <<rows, logged, ledger, closed, opened, joined, answered,
                     conn, sockets, stale, dialed, faults>>
      /\ IF Loaded(db)
         THEN /\ status' = "up"
              /\ mem' = m /\ db' = m
              /\ armed' = m.turn
              /\ dgen' = [u \in Users |-> IF u \in back THEN 1 ELSE 0]
              /\ signals' = {[user |-> u, generation |-> 1, session |-> m.session[u]] :
                                u \in back}
         ELSE /\ status' = "gone"
              /\ UNCHANGED <<mem, db, armed, dgen, signals>>

-----------------------------------------------------------------------------
\* NewActor: the creator sits and owns the room
NewRoom ==
  [session |-> [u \in Users |-> IF u = Creator THEN 1 ELSE 0], disconnected |-> {},
   leaving |-> {}, net |-> Zero, owner |-> Creator, dealt |-> {}, live |-> {},
   able |-> {}, turn |-> Nobody, turns |-> 0, deadline |-> "none", ended |-> FALSE,
   processed |-> {}]

Init ==
  /\ status = "up"
  /\ mem = NewRoom /\ db = NewRoom
  /\ rows = [s \in Sessions |-> IF s = 1 THEN Creator ELSE Nobody]
  /\ logged = {} /\ answered = {}
  /\ ledger = [s \in Sessions |-> NotSettled]
  /\ closed = [s \in Sessions |-> NotSettled]
  /\ opened = 1 /\ joined = {1}
  /\ armed = Nobody
  /\ conn = Zero /\ dgen = Zero /\ sockets = Zero /\ stale = Zero
  /\ signals = {}
  /\ dialed = 0 /\ faults = 0

Next ==
  \/ \E u \in Users, id \in RequestIds \cup {Fresh} :
       \/ GameStart(u, id) \/ Action(u, id) \/ Leave(u, id)
       \/ EndRoom(u, id) \/ OtherCommand(u, id)
       \/ \E v \in Users : RemovePlayer(u, id, v) \/ TransferOwner(u, id, v)
  \/ \E u \in Users, id \in RequestIds : Duplicate(u, id)
  \/ \E u \in Users : Join(u) \/ PlayerConnected(u)
  \/ \E u \in Users, old \in BOOLEAN : PlayerDisconnected(u, old)
  \/ ActionTimeout
  \/ \E signal \in signals : DisconnectTimeout(signal)
  \/ Crash \/ Restart

Spec == Init /\ [][Next]_vars

\* time.AfterFunc fires, and the actor's loop serves what it delivered: weak fairness of
\* ActionTimeout and of DisconnectTimeout, with their enabling conditions and their effects
\* written out.  A timer that is served and fails, a fault, stays due.
ActionDue == Running /\ mem.turn # Nobody /\ armed = mem.turn
TurnEnds == mem'.turn # mem.turn \/ mem'.turns # mem.turns

SignalDue == status = "up" /\ signals # {}
SignalServed == signals' \subseteq signals /\ signals' # signals

FairSpec ==
  /\ Spec
  /\ []<>~ActionDue \/ []<><<TurnEnds>>_vars
  /\ []<>~SignalDue \/ []<><<SignalServed>>_vars

-----------------------------------------------------------------------------
TypeOK ==
  /\ status \in {"up", "down", "gone"}
  /\ mem \in States /\ db \in States
  /\ rows \in [Sessions -> Users \cup {Nobody}]
  /\ logged \subseteq Keys /\ answered \subseteq Keys
  /\ ledger \in [Sessions -> Int \cup {NotSettled}]
  /\ closed \in [Sessions -> Int \cup {NotSettled}]
  /\ opened \in Sessions /\ joined \subseteq Sessions
  /\ armed \in Users \cup {Nobody}
  /\ conn \in [Users -> Nat] /\ dgen \in [Users -> Nat]
  /\ sockets \in [Users -> Nat] /\ stale \in [Users -> Nat]
  /\ signals \subseteq [user : Users, generation : Nat, session : Sessions]
  /\ dialed \in 0..MaxSockets /\ faults \in 0..MaxFaults

(* Safety *)

\* The turn of a running hand always has a timer that ends it: after every
\* command, timeout, failed or rolled back event, crash and restart.
TimerArmed == Running => armed = mem.turn

\* A player shown as disconnected has a running timer that will free his seat.
DisconnectCovered ==
  status = "up" =>
    \A u \in mem.disconnected :
      \E signal \in signals : signal.user = u /\ signal.generation = dgen[u]

\* A seat session whose Join was answered is never lost: the database seats it
\* or the ledger has settled it, whatever fails in between.
NoSessionLost ==
  \A s \in joined : ledger[s] # NotSettled \/ \E u \in Users : db.session[u] = s

\* The owner of a running room sits in it.
OwnerSeated == mem.owner \in Seated(mem) \cup {Nobody}

\* A command that was answered is not forgotten by a failure or a restart: it is
\* in the database, so that sending it again cannot apply it twice.
AnswersDurable == answered \subseteq db.processed

\* The net a session is settled with is the net it left the room with.
NetMatches == \A s \in Sessions : closed[s] # NotSettled => ledger[s] = closed[s]

\* A player is not counted as having fewer connections than he has open sockets:
\* the count decides when he is shown as disconnected.
SocketsCounted ==
  status = "up" => \A u \in Seated(mem) : conn[u] >= sockets[u]

\* A retention period belongs to the seat session it began in.
RetentionHonoured ==
  \A signal \in signals :
    Applies(signal) => signal.session = mem.session[signal.user]

\* A request that is in the log of events is answered as a duplicate when it is
\* sent again.
LoggedIsProcessed == Running => logged \subseteq mem.processed

\* A user who did not get a seat has no open row in seat_sessions: the row would
\* refuse him every seat in every room.
NoRowLeftOpen ==
  Running =>
    \A u \in Users : RowOpen(u) => u \in Seated(mem)

\* Players whose seats are persisted get them back when the server restarts.
SeatsRestored == status = "gone" => Seated(db) = {}

(* Steps *)

\* Connections, joins, messages, rejected and failed commands, crashes and
\* restarts give the player whose turn it is no more time: only somebody who
\* leaves during the hand may.
PresenceKeepsDeadline ==
  [][ mem'.leaving = {} /\ mem.deadline # "postponed"
        => mem'.deadline # "postponed" ]_vars

(* Liveness *)

\* A disconnected player comes back or gives up his seat.
RetentionEnds ==
  \A u \in Users :
    status = "up" /\ u \in mem.disconnected
      ~> (status # "up" \/ u \notin mem.disconnected)

\* A player who left is settled: the hand he left behind ends, through faults and
\* timers, unless its showdown fails.
LeaversSettled ==
  \A s \in Sessions :
    (status = "up" /\ \E u \in mem.leaving : mem.session[u] = s)
      ~> (status # "up" \/ ledger[s] # NotSettled \/ Stuck(mem))

\* A player who left is settled, whatever the hand he left behind comes to.
LeaversAlwaysSettled ==
  \A s \in Sessions :
    (status = "up" /\ \E u \in mem.leaving : mem.session[u] = s)
      ~> (status # "up" \/ ledger[s] # NotSettled)
=============================================================================
