----------------------------- MODULE Connections -----------------------------
(***************************************************************************)
(* The requests of one account at one server (httpapi/): who is let in,    *)
(* which room and voice sockets he keeps, and what closes them when he     *)
(* logs out, is banned or loses his seat.  Every request is a goroutine;   *)
(* its steps are its calls of the database, the room's actor, the registry *)
(* of sockets and the voice hub, each of which is atomic.                  *)
(*                                                                         *)
(* There is one room.  Its actor frees a seat and calls back the registry  *)
(* within one handler, so nobody can ask it in between (actor.go:1093).    *)
(***************************************************************************)
EXTENDS Naturals, FiniteSets

CONSTANTS
  Requests,    \* goroutines
  Tokens,      \* of sessions
  Nicks,
  Bans, Unbans,  \* request ids of administrators: an id always asks for the same
  None, Idle,
  MaxRequests, MaxSeats   \* bounds

Moderations == Bans \cup Unbans

ASSUME NamesAssumption ==
  /\ Bans \cap Unbans = {} /\ None \notin Tokens \cup Nicks \cup Moderations
  /\ Moderations \cap Nicks = {}
ASSUME BoundsAssumption == MaxRequests \in Nat /\ MaxSeats \in Nat

VARIABLES
  row,         \* of the account in table users
  sessions,    \* valid ones
  audit,       \* moderations in admin_audit_log
  seat,        \* in the room: none, seated, leaving
  left,        \* is a departure among the room's processed requests?
  request,     \* what each goroutine does
  registered,  \* realtimeConnections.byUser of the user
  closing,     \* sockets on which Close was called
  hub,         \* the user's clients in voiceHub.rooms
  announced,   \* did the last event to the peers say that he is there?
  begun, seats \* for the bounds

vars == <<row, sessions, audit, seat, left, request, registered, closing, hub, announced,
          begun, seats>>
accounts == <<row, sessions, audit>>
sockets == <<registered, closing, hub, announced>>
room == <<seat, left, seats>>

Users == [nick : Nicks, banned : BOOLEAN]

Kinds == {"watch", "voice", "rename", "leave", "remove", "login", "logout", "moderate"}

Steps ==
  {"session", "upsert", "banned",                                 \* authenticate
   "snapshot", "register", "connect", "serving", "unregister",    \* sockets
   "read", "save", "persist",                                     \* updateMe, login
   "command", "departed",                                         \* roomCommand
   "who", "forget", "delete", "revoke",                           \* logout
   "moderate", "disconnect", "setBanned"}

Inputs(kind) ==
  CASE kind = "rename" -> Nicks [] kind = "moderate" -> Moderations [] OTHER -> {None}

\* (mutation of TokensOf: a token is not asked for, not even when one is made)
TokensOrNone(kind) == Tokens \cup {None}

\* of the cookie; a login makes one
TokensOf(kind) == IF kind \in {"moderate", "remove"} THEN {None} ELSE Tokens

Running ==
  {x \in [kind : Kinds, at : Steps, token : Tokens \cup {None}, user : Users,
          input : Nicks \cup Moderations \cup {None}] :
     x.token \in TokensOf(x.kind) /\ x.input \in Inputs(x.kind)}

ASSUME IdleAssumption == Idle \notin Running

TypeOK ==
  /\ row \in Users /\ sessions \subseteq Tokens /\ audit \subseteq Moderations
  /\ seat \in {"none", "seated", "leaving"} /\ left \in BOOLEAN
  /\ request \in [Requests -> Running \cup {Idle}]
  /\ registered \subseteq Requests /\ closing \subseteq Requests /\ hub \subseteq Requests
  /\ announced \in BOOLEAN
  /\ begun \in 0..MaxRequests /\ seats \in 0..MaxSeats

-----------------------------------------------------------------------------
(* Requests *)

At(r, step) == request[r] # Idle /\ request[r].at = step

Is(r, kinds) == request[r].kind \in kinds

Goes(r, step) == request' = [request EXCEPT ![r].at = step]

Read(r, step) == request' = [request EXCEPT ![r].at = step, ![r].user = row]

Ends(r) == request' = [request EXCEPT ![r] = Idle]

\* where the handler begins; the others are behind authenticate
FirstStep(kind) ==
  CASE kind = "login" -> "read"
    [] kind = "logout" -> "who"
    [] kind = "moderate" -> "moderate"   \* an administrator's account
    [] kind = "remove" -> "command"      \* the owner's
    [] OTHER -> "session"

Begin(r) ==
  /\ request[r] = Idle /\ begun < MaxRequests
  /\ begun' = begun + 1
  /\ \E kind \in Kinds : \E token \in TokensOf(kind), input \in Inputs(kind) :
       request' = [request EXCEPT ![r] =
         [kind |-> kind, at |-> FirstStep(kind), token |-> token, user |-> row, input |-> input]]
  /\ UNCHANGED <<accounts, room, sockets>>

\* the database fails, or the client goes away and cancels what is under way; what has
\* been written stays
Abort(r) ==
  /\ request[r] # Idle
  /\ request[r].at \notin {"register", "connect", "serving", "unregister"}
  /\ Ends(r)
  /\ UNCHANGED <<accounts, room, sockets, begun>>

-----------------------------------------------------------------------------
(* authenticate *)

Admitted(r) == request[r].token \in sessions /\ ~row.banned

UserBySession(r) ==
  /\ At(r, "session")
  /\ IF Admitted(r) THEN Read(r, "upsert") ELSE Ends(r)
  /\ UNCHANGED <<accounts, room, sockets, begun>>

\* (mutation of Saved: all of the record is written as it was read)
SavedWhole(user, nick) == [user EXCEPT !.nick = nick]

\* SaveUser and UpsertUser leave banned_at alone
Saved(user, nick) == [row EXCEPT !.nick = nick]

UpsertUser(r) ==
  /\ At(r, "upsert")
  /\ row' = Saved(request[r].user, request[r].user.nick)
  /\ Goes(r, "banned")
  /\ UNCHANGED <<sessions, audit, room, sockets, begun>>

HandlerOf(kind) ==
  CASE kind \in {"watch", "voice"} -> "snapshot"
    [] kind = "rename" -> "read"
    [] OTHER -> "command"

IsBanned(r) ==
  /\ At(r, "banned")
  /\ IF row.banned THEN Ends(r) ELSE Goes(r, HandlerOf(request[r].kind))
  /\ UNCHANGED <<accounts, room, sockets, begun>>

-----------------------------------------------------------------------------
(* Accounts *)

\* Login and UpdateNickname read the user
UserByID(r) ==
  /\ At(r, "read")
  /\ IF Is(r, {"login"}) /\ row.banned THEN Ends(r) ELSE Read(r, "save")
  /\ UNCHANGED <<accounts, room, sockets, begun>>

\* createSession
SaveSession(r) ==
  /\ At(r, "save") /\ Is(r, {"login"})
  /\ sessions' = sessions \cup {request[r].token}
  /\ Goes(r, "persist")
  /\ UNCHANGED <<row, audit, room, sockets, begun>>

SaveUser(r) ==
  /\ At(r, "save") /\ Is(r, {"rename"})
  /\ row' = Saved(request[r].user, request[r].input)
  /\ request' = [request EXCEPT ![r].at = "persist", ![r].user.nick = request[r].input]
  /\ UNCHANGED <<sessions, audit, room, sockets, begun>>

PersistIdentity(r) ==
  /\ At(r, "persist")
  /\ row' = Saved(request[r].user, request[r].user.nick)
  /\ Ends(r)
  /\ UNCHANGED <<sessions, audit, room, sockets, begun>>

\* sessions expire thirty days after the login
Expire ==
  /\ \E token \in sessions : sessions' = sessions \ {token}
  /\ UNCHANGED <<row, audit, room, request, sockets, begun>>

\* the transaction of ops.SetUserBanned; one that was made before changes nothing
SetUserBanned(r) ==
  /\ At(r, "moderate") /\ Is(r, {"moderate"})
  /\ LET id == request[r].input IN
       /\ row' = IF id \in audit THEN row ELSE [row EXCEPT !.banned = id \in Bans]
       /\ audit' = audit \cup {id}
       /\ Goes(r, IF id \in Bans THEN "disconnect" ELSE "setBanned")
  /\ UNCHANGED <<sessions, room, sockets, begun>>

\* auth.SetBanned, which does not ask whether the request was made before
SetBanned(r) ==
  /\ At(r, "setBanned")
  /\ row' = [row EXCEPT !.banned = request[r].input \in Bans]
  /\ Ends(r)
  /\ UNCHANGED <<sessions, audit, room, sockets, begun>>

-----------------------------------------------------------------------------
(* What closes sockets *)

\* (mutation of Revoke: byUser is cleared before its sockets are collected)
RevokeNothing == registered' = {} /\ UNCHANGED closing

\* disconnectUser: every Close runs in a goroutine of its own, nobody waits for it
Revoke == registered' = {} /\ closing' = closing \cup registered

\* logout finds the user of the session, if there is one; an error of UserBySession is
\* dropped, and the session deleted without closing its user's sockets
WhoLogsOut(r) ==
  /\ At(r, "who")
  /\ \/ Admitted(r) /\ Goes(r, "delete")
     \/ Goes(r, "forget")
  /\ UNCHANGED <<accounts, room, sockets, begun>>

DeleteSession(r) ==
  /\ At(r, "delete") \/ At(r, "forget")
  /\ sessions' = sessions \ {request[r].token}
  /\ IF At(r, "delete") THEN Goes(r, "revoke") ELSE Ends(r)
  /\ UNCHANGED <<row, audit, room, sockets, begun>>

\* the end of a logout; disconnectDepartedUsers, the end of a command
LastRevocation(r) ==
  /\ At(r, "revoke") \/ At(r, "departed")
  /\ Revoke
  /\ Ends(r)
  /\ UNCHANGED <<accounts, room, hub, announced, begun>>

DisconnectBanned(r) ==
  /\ At(r, "disconnect")
  /\ Revoke
  /\ Goes(r, "setBanned")
  /\ UNCHANGED <<accounts, room, hub, announced, begun>>

-----------------------------------------------------------------------------
(* The room *)

\* Manager.Join, or CreateRoom
Sit ==
  /\ seat = "none" /\ seats < MaxSeats
  /\ seat' = "seated" /\ seats' = seats + 1
  /\ UNCHANGED <<accounts, left, request, sockets, begun>>

\* settled: finishSettlements, onSeatClosed, Manager.releaseSeat and its hook
FreesSeat == seat' = "none" /\ Revoke

\* room.leave, or room.remove of another: settled at once, or when the hand is over
Depart(r) ==
  /\ At(r, "command") /\ seat # "none"
  /\ left' = TRUE
  /\ \/ FreesSeat
     \/ seat' = "leaving" /\ UNCHANGED <<registered, closing>>
  /\ Goes(r, "departed")
  /\ UNCHANGED <<accounts, seats, hub, announced, begun>>

\* a request the room has processed is answered with its event once more
DepartAgain(r) ==
  /\ At(r, "command") /\ left
  /\ Goes(r, "departed")
  /\ UNCHANGED <<accounts, room, sockets, begun>>

DepartRefused(r) ==
  /\ At(r, "command") /\ seat = "none"
  /\ Ends(r)
  /\ UNCHANGED <<accounts, room, sockets, begun>>

\* the end of a hand, of a retention period or of the room
Settle ==
  /\ seat # "none"
  /\ FreesSeat
  /\ UNCHANGED <<accounts, left, seats, request, hub, announced, begun>>

-----------------------------------------------------------------------------
(* Sockets *)

Snapshot(r) ==
  /\ At(r, "snapshot")
  /\ IF seat = "none" THEN Ends(r) ELSE Goes(r, "register")
  /\ UNCHANGED <<accounts, room, sockets, begun>>

\* the upgrade fails
AcceptFails(r) ==
  /\ At(r, "register")
  /\ Ends(r)
  /\ UNCHANGED <<accounts, room, sockets, begun>>

Register(r) ==
  /\ At(r, "register")
  /\ registered' = registered \cup {r}
  /\ Goes(r, "connect")
  /\ UNCHANGED <<accounts, room, closing, hub, announced, begun>>

\* (mutation of Connects: what Snapshot said before Accept is trusted)
ConnectsUnchecked == TRUE

\* PlayerConnected looks for the seat again
Connects == seat # "none"

\* it may fail for other reasons, too
PlayerConnected(r) ==
  /\ At(r, "connect") /\ Is(r, {"watch"})
  /\ \/ Connects /\ Goes(r, "serving")
     \/ Goes(r, "unregister")
  /\ UNCHANGED <<accounts, room, sockets, begun>>

\* voiceHub.join: the sockets it replaces are closed
JoinVoice(r) ==
  /\ At(r, "connect") /\ Is(r, {"voice"})
  /\ hub' = {r} /\ closing' = closing \cup hub
  /\ announced' = TRUE
  /\ Goes(r, "serving")
  /\ UNCHANGED <<accounts, room, registered, begun>>

\* (mutation of LeavesVoice: a replaced client is not told from the present one)
LeavesVoiceAlways(r) == hub' = {} /\ announced' = FALSE

\* voiceHub.leave, which a replaced client calls, too
LeavesVoice(r) ==
  IF r \in hub THEN hub' = hub \ {r} /\ announced' = (hub # {r}) ELSE UNCHANGED <<hub, announced>>

\* the socket was closed, by either side, or cannot be written to
StopServing(r) ==
  /\ At(r, "serving")
  /\ IF Is(r, {"voice"}) THEN LeavesVoice(r) ELSE UNCHANGED <<hub, announced>>
  /\ Goes(r, "unregister")
  /\ UNCHANGED <<accounts, room, registered, closing, begun>>

\* (mutation of Unregisters: all the user's sockets are forgotten)
UnregistersUser(r) == {}

Unregisters(r) == registered \ {r}

Unregister(r) ==
  /\ At(r, "unregister")
  /\ registered' = Unregisters(r) /\ closing' = closing \ {r}
  /\ Ends(r)
  /\ UNCHANGED <<accounts, room, hub, announced, begun>>

-----------------------------------------------------------------------------

Init ==
  /\ row \in [nick : Nicks, banned : {FALSE}] /\ sessions \in SUBSET Tokens /\ audit = {}
  /\ seat \in {"none", "seated"} /\ left = FALSE
  /\ request = [r \in Requests |-> Idle]
  /\ registered = {} /\ closing = {} /\ hub = {} /\ announced = FALSE
  /\ begun = 0 /\ seats = 0

Authenticate(r) == UserBySession(r) \/ UpsertUser(r) \/ IsBanned(r)

Account(r) ==
  \/ UserByID(r) \/ SaveSession(r) \/ SaveUser(r) \/ PersistIdentity(r)
  \/ WhoLogsOut(r) \/ DeleteSession(r) \/ LastRevocation(r)
  \/ SetUserBanned(r) \/ DisconnectBanned(r) \/ SetBanned(r)

Command(r) == Depart(r) \/ DepartAgain(r) \/ DepartRefused(r)

Socket(r) ==
  Snapshot(r) \/ AcceptFails(r) \/ Register(r) \/ PlayerConnected(r) \/ JoinVoice(r) \/ Unregister(r)

\* what the server does of itself
Handler(r) ==
  Authenticate(r) \/ Account(r) \/ Command(r) \/ Socket(r) \/ (r \in closing /\ StopServing(r))

Next ==
  \/ Sit \/ Settle \/ Expire
  \/ \E r \in Requests : Begin(r) \/ Abort(r) \/ StopServing(r) \/ Handler(r)

Spec == Init /\ [][Next]_vars

\* a goroutine is scheduled, its calls have timeouts, and Close fails the reads of its
\* socket; nothing is assumed of clients and administrators
FairSpec == Spec /\ \A r \in Requests : WF_vars(Handler(r))

-----------------------------------------------------------------------------
(* Properties *)

Serves(r) == At(r, "serving") /\ r \notin closing

\* Who has no seat receives no events of the room, unless his socket is being closed:
\* the seat is looked for again after the socket was registered, so a departure during
\* the handshake either closes the socket or is seen (websocket.go:20, :33, :35).
WatchersSeated == \A r \in Requests : Serves(r) /\ Is(r, {"watch"}) => seat # "none"

\* The next revocation reaches every socket, however many of the user's sockets were
\* closed, replaced or unregistered before (realtime_connections.go:30).
SocketsReachable ==
  \A r \in Requests : At(r, "connect") \/ At(r, "serving") => r \in registered \cup closing

\* The peers' signals reach the voice socket in use, and they were told of it, though
\* the socket it replaced leaves after it joined (voice_websocket.go:88).
VoiceCurrent ==
  /\ \A r \in Requests : Serves(r) /\ Is(r, {"voice"}) => hub = {r}
  /\ announced <=> hub # {}

\* Who was banned and never unbanned stays banned, whatever renames, logins and
\* requests had read his record before (postgres_auth.go:22, postgres_operations.go:25).
BanSurvives == audit # {} /\ audit \cap Unbans = {} => row.banned

Watching(r) == request[r] # Idle /\ Is(r, {"watch"}) /\ request[r].at \in {"connect", "serving", "unregister"}

\* The room sockets of a user who has lost his seat go away, those included that he was
\* opening (TestLogoutImmediatelyRevokesAllRealtimeConnections closes those he had).
WatchersGo == seat = "none" ~> (seat # "none" \/ \A r \in Requests : ~Watching(r))

\* Who has no seat takes no part in the room's voice, unless his socket is being closed
\* (docs/testing/user-behavior-matrix.md:47).
VoiceSeated == \A r \in Requests : Serves(r) /\ Is(r, {"voice"}) => seat # "none"
=============================================================================
