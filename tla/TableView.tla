------------------------------ MODULE TableView ------------------------------
(***************************************************************************)
(* What a player sees: the events of a room's actor, the websockets that   *)
(* carry them (httpapi/websocket.go) and the store of the web client       *)
(* (apps/web/src/stores/game.ts), which shows snapshots.  An event only    *)
(* tells the client to ask for one.  A browser sends its requests over     *)
(* connections of their own: their answers arrive in any order, and in any *)
(* order with what the socket carries.                                     *)
(*                                                                         *)
(* One player, one room, one tab; he does not sit down again after he lost *)
(* his seat.  A snapshot is known by its version.                          *)
(***************************************************************************)
EXTENDS Naturals, Sequences, FiniteSets

CONSTANTS
  Sockets,      \* numbered in the order they are opened, each once
  View,         \* who else asks for snapshots: the page, a command that was answered
  None,
  Buffer,       \* of a subscription
  Wire,         \* messages a connection holds before its writer waits
  MaxVersion, MaxLoads, MaxFaults   \* bounds

ASSUME NamesAssumption == Sockets \subseteq Nat /\ View \notin Sockets /\ None \notin Sockets
ASSUME NumbersAssumption ==
  /\ Buffer \in Nat \ {0} /\ Wire \in Nat \ {0}
  /\ MaxVersion \in Nat \ {0} /\ MaxLoads \in Nat /\ MaxFaults \in Nat

VARIABLES
  version,  \* of the room
  seated,
  handler,  \* how far the server's handler of each socket is
  taken,    \* the snapshot it took
  queue,    \* events in its subscription
  revoked,  \* sockets whose Close was asked for
  wire,     \* messages on their way to the client
  socket,   \* what each socket is to the client
  current,  \* eventSocket
  wants,    \* shouldReconnect
  timer,    \* is reconnectTimer running?
  asked,    \* requests for a snapshot, by who made them, not yet served
  answers,  \* the answers on their way, by version
  view,     \* version of the snapshot shown
  signedOut,  \* did the client forget the account?
  excuse,   \* the last version the client may have been denied; no part of the code
  loads, faults   \* for the bounds

server == <<version, seated, handler, taken, queue, revoked>>
client == <<socket, current, wants, timer, view, signedOut>>
requests == <<asked, answers>>
bounds == <<loads, faults>>
vars == <<server, client, requests, bounds, wire, excuse>>

Versions == 1..MaxVersion

\* what a request of a player without a seat is answered with, in place of a version
NotSeated == 0

Codes == {1006, 1008, 1011, 4002}

Messages ==
  [type : {"open", "event"}, value : {0}] \cup [type : {"snapshot"}, value : Versions]
    \cup [type : {"closed"}, value : Codes]

Message(type, value) == [type |-> type, value |-> value]

Askers == Sockets \cup {View}

TypeOK ==
  /\ version \in Versions /\ seated \in BOOLEAN
  /\ handler \in [Sockets -> {"none", "called", "accepted", "registered", "connected",
                              "snapped", "serving", "ended"}]
  /\ taken \in [Sockets -> 0..MaxVersion]
  /\ queue \in [Sockets -> 0..Buffer]
  /\ revoked \subseteq Sockets
  /\ wire \in [Sockets -> Seq(Messages)]
  /\ \A s \in Sockets : Len(wire[s]) <= Wire + 2
  /\ socket \in [Sockets -> {"none", "connecting", "open", "closing", "closed"}]
  /\ current \in Sockets \cup {None}
  /\ {wants, timer, signedOut} \subseteq BOOLEAN
  /\ asked \in [Askers -> Nat]
  /\ answers \in [Askers -> [0..MaxVersion -> Nat]]
  /\ view \in Versions /\ excuse \in 0..MaxVersion
  /\ loads \in 0..MaxLoads /\ faults \in 0..MaxFaults

Fault == faults < MaxFaults /\ faults' = faults + 1

Live(s) == s # None /\ socket[s] \in {"connecting", "open"}

\* a client reads nothing more from a socket it has closed
Send(s, message) == wire' = IF Live(s) THEN [wire EXCEPT ![s] = Append(@, message)] ELSE wire

Latest(x, y) == IF x > y THEN x ELSE y

-----------------------------------------------------------------------------
(* The actor *)

\* (mutation of Delivered: the buffer is not looked at)
DeliveredAlways(s) == queue[s] + 1

\* a subscriber whose buffer is full is passed over
Delivered(s) == IF queue[s] < Buffer THEN queue[s] + 1 ELSE queue[s]

\* an event reaches the subscribers there are; a handler between its snapshot and its
\* subscription has seen neither it nor what it did
Publish ==
  /\ version' = version + 1
  /\ queue' = [s \in Sockets |-> IF handler[s] = "serving" THEN Delivered(s) ELSE queue[s]]
  /\ excuse' = IF \E s \in Sockets : handler[s] = "snapped" THEN version' ELSE excuse

Change ==
  /\ version < MaxVersion
  /\ Publish
  /\ UNCHANGED <<seated, handler, taken, revoked, client, requests, bounds, wire>>

Registered(s) == handler[s] \in {"registered", "connected", "snapped", "serving"}

Revoke == revoked' = {s \in Sockets : Registered(s)}

\* his seat is settled: he left, was removed, or was disconnected for too long
LoseSeat ==
  /\ seated /\ version < MaxVersion
  /\ seated' = FALSE
  /\ Publish /\ Revoke
  /\ UNCHANGED <<handler, taken, client, requests, bounds, wire>>

\* he leaves in a hand: he keeps the seat until it ends, but no socket
LeaveInHand ==
  /\ seated /\ version < MaxVersion
  /\ Publish /\ Revoke
  /\ UNCHANGED <<seated, handler, taken, client, requests, bounds, wire>>

-----------------------------------------------------------------------------
(* The handler of a socket *)

GoesOn(s, step) == handler' = [handler EXCEPT ![s] = step]

Returns(s) ==
  /\ GoesOn(s, "ended")
  /\ queue' = [queue EXCEPT ![s] = 0] /\ revoked' = revoked \ {s}

CloseWith(s, code) == Returns(s) /\ Send(s, Message("closed", code))

\* the seat is looked for before the upgrade; a refused upgrade has no code
Accept(s) ==
  /\ handler[s] = "called"
  /\ IF seated THEN GoesOn(s, "accepted") /\ Send(s, Message("open", 0)) /\ UNCHANGED <<queue, revoked>>
     ELSE CloseWith(s, 1006)
  /\ UNCHANGED <<version, seated, taken, client, requests, bounds, excuse>>

Register(s) ==
  /\ handler[s] = "accepted"
  /\ GoesOn(s, "registered")
  /\ UNCHANGED <<version, seated, taken, queue, revoked, client, requests, bounds, wire, excuse>>

\* who was disconnected is announced; whatever PlayerConnected fails with, the code is
\* StatusPolicyViolation
PlayerConnected(s) ==
  /\ handler[s] = "registered"
  /\ \/ /\ seated /\ GoesOn(s, "connected")
        /\ UNCHANGED <<version, queue, excuse>> \/ (version < MaxVersion /\ Publish)
        /\ UNCHANGED <<revoked, wire, faults>>
     \/ /\ seated => Fault
        /\ ~seated => UNCHANGED faults
        /\ CloseWith(s, 1008)
        /\ UNCHANGED <<version, excuse>>
  /\ UNCHANGED <<seated, taken, client, requests, loads>>

Snapshot(s) ==
  /\ handler[s] = "connected"
  /\ \/ /\ seated /\ GoesOn(s, "snapped")
        /\ taken' = [taken EXCEPT ![s] = version]
        /\ UNCHANGED <<queue, revoked, wire>>
     \/ ~seated /\ CloseWith(s, 1011) /\ UNCHANGED taken
  /\ UNCHANGED <<version, seated, client, requests, bounds, excuse>>

Subscribe(s) ==
  /\ handler[s] = "snapped"
  /\ GoesOn(s, "serving") /\ taken' = [taken EXCEPT ![s] = 0]
  /\ Send(s, Message("snapshot", taken[s]))
  /\ UNCHANGED <<version, seated, queue, revoked, client, requests, bounds, excuse>>

Serve(s) ==
  /\ handler[s] = "serving" /\ queue[s] > 0 /\ Len(wire[s]) < Wire
  /\ queue' = [queue EXCEPT ![s] = @ - 1]
  /\ Send(s, Message("event", 0))
  /\ UNCHANGED <<version, seated, handler, taken, revoked, client, requests, bounds, excuse>>

\* the goroutine of disconnectUser
CloseRevoked(s) ==
  /\ s \in revoked
  /\ CloseWith(s, 4002)
  /\ UNCHANGED <<version, seated, taken, client, requests, bounds, excuse>>

\* reads and writes fail once the client is gone
Notice(s) ==
  /\ handler[s] \notin {"none", "ended"} /\ socket[s] \in {"closing", "closed"}
  /\ Returns(s)
  /\ UNCHANGED <<version, seated, taken, client, requests, bounds, wire, excuse>>

-----------------------------------------------------------------------------
(* The client: requests for snapshots *)

\* (mutation of Refresh: none is sent while one is under way)
RefreshUnlessLoading(who) ==
  asked' = IF \E o \in Askers : asked[o] > 0 \/ \E v \in Versions : answers[o][v] > 0
           THEN asked ELSE [asked EXCEPT ![who] = @ + 1]

\* refreshSnapshot
Refresh(who) == asked' = [asked EXCEPT ![who] = @ + 1]

\* the page is opened or retries, or a command was answered
Load ==
  /\ loads < MaxLoads /\ loads' = loads + 1
  /\ asked' = [asked EXCEPT ![View] = @ + 1]
  /\ UNCHANGED <<server, client, answers, faults, wire, excuse>>

Answer(who) ==
  /\ asked[who] > 0
  /\ asked' = [asked EXCEPT ![who] = @ - 1]
  /\ answers' = [answers EXCEPT ![who][IF seated THEN version ELSE NotSeated] = @ + 1]
  /\ UNCHANGED <<server, client, bounds, wire, excuse>>

\* the request fails: nobody asks again
LoseAnswer(who) ==
  /\ asked[who] > 0 /\ Fault
  /\ asked' = [asked EXCEPT ![who] = @ - 1]
  /\ excuse' = version
  /\ UNCHANGED <<server, socket, current, wants, timer, view, signedOut, answers, loads, wire>>

\* acceptSnapshot, which does not compare versions
Shows(v) ==
  /\ view' = v
  /\ excuse' = IF v < view THEN Latest(excuse, view) ELSE excuse

Unused(s) == socket[s] = "none" /\ \A o \in Sockets : o < s => socket[o] # "none"

\* (mutation of Opens: the timer is not stopped)
OpensBesideTimer(s) ==
  /\ Unused(s)
  /\ socket' = [socket EXCEPT ![s] = "connecting"] /\ current' = s /\ UNCHANGED timer
  /\ handler' = [handler EXCEPT ![s] = "called"]

\* openRoomEvents
Opens(s) ==
  /\ Unused(s)
  /\ socket' = [socket EXCEPT ![s] = "connecting"]
  /\ current' = s /\ timer' = FALSE
  /\ handler' = [handler EXCEPT ![s] = "called"]

\* connectRoomEvents
Connects ==
  /\ wants' = TRUE
  /\ IF Live(current) THEN UNCHANGED <<socket, current, timer, handler>>
                      ELSE \E s \in Sockets : Opens(s)

Ends(s) == IF Live(s) THEN [socket EXCEPT ![s] = "closing"] ELSE socket

\* disconnectRoomEvents
Disconnects ==
  /\ wants' = FALSE /\ timer' = FALSE /\ current' = None
  /\ socket' = Ends(current)

\* an answer for the page may be followed by connectRoomEvents
Accepted(who, v) ==
  /\ answers[who][v] > 0
  /\ answers' = [answers EXCEPT ![who][v] = @ - 1]
  /\ Shows(v)
  /\ \/ UNCHANGED <<wants, socket, current, timer, handler>>
     \/ who = View /\ Connects
  /\ UNCHANGED <<version, seated, taken, queue, revoked, signedOut, asked, bounds, wire>>

\* player_not_seated: the socket that asked is closed; a page goes elsewhere or shows an error
Denied(who) ==
  /\ answers[who][NotSeated] > 0
  /\ answers' = [answers EXCEPT ![who][NotSeated] = @ - 1]
  /\ \/ who # View /\ wants' = FALSE /\ socket' = Ends(who) /\ UNCHANGED <<current, timer>>
     \/ who = View /\ Disconnects
     \/ who = View /\ UNCHANGED <<wants, timer, current, socket>>
  /\ UNCHANGED <<server, view, signedOut, asked, bounds, wire, excuse>>

-----------------------------------------------------------------------------
(* The client: its socket *)

\* (mutation of Reconnects: a socket that never opened is not replaced)
ReconnectsOpened(s) == socket[s] = "open"

Reconnects(s) == TRUE

\* the "close" event
Closed(s, code) ==
  /\ socket' = [socket EXCEPT ![s] = "closed"]
  /\ IF s # current THEN UNCHANGED <<current, wants, timer, signedOut>> ELSE
     /\ current' = None
     /\ wants' = (wants /\ code \notin {1008, 4002})
     /\ timer' = (timer \/ (wants' /\ Reconnects(s)))
     /\ signedOut' = (signedOut \/ code = 1008)

\* the "open" and "message" events
Receive(s) ==
  /\ socket[s] \in {"connecting", "open"} /\ wire[s] # <<>>
  /\ wire' = [wire EXCEPT ![s] = Tail(@)]
  /\ LET message == Head(wire[s]) IN
     \/ /\ message.type = "open"
        /\ socket' = [socket EXCEPT ![s] = "open"]
        /\ IF s = current THEN Refresh(s) ELSE UNCHANGED asked
        /\ UNCHANGED <<current, wants, timer, view, signedOut, excuse>>
     \/ /\ message.type = "snapshot"
        /\ Shows(message.value)
        /\ UNCHANGED <<socket, current, wants, timer, signedOut, asked>>
     \/ /\ message.type = "event"
        /\ Refresh(s)
        /\ UNCHANGED <<client, excuse>>
     \/ /\ message.type = "closed"
        /\ Closed(s, message.value)
        /\ UNCHANGED <<view, asked, excuse>>
  /\ UNCHANGED <<server, answers, bounds>>

\* the connection is lost, and what was on its way
Break(s) ==
  /\ Live(s) /\ Fault
  /\ Closed(s, 1006)
  /\ wire' = [wire EXCEPT ![s] = <<>>]
  /\ UNCHANGED <<server, view, requests, loads, excuse>>

\* the client's own close() is complete
Completed(s) ==
  /\ socket[s] = "closing"
  /\ Closed(s, 1006)
  /\ wire' = [wire EXCEPT ![s] = <<>>]
  /\ UNCHANGED <<server, view, requests, bounds, excuse>>

\* the timer of the delay; openRoomEvents looks at shouldReconnect
Reconnect ==
  /\ timer
  /\ IF wants THEN \E s \in Sockets : Opens(s)
              ELSE timer' = FALSE /\ UNCHANGED <<socket, current, handler>>
  /\ UNCHANGED <<version, seated, taken, queue, revoked, wants, view, signedOut, requests,
                bounds, wire, excuse>>

\* the page is left
Leave ==
  /\ wants
  /\ Disconnects
  /\ UNCHANGED <<server, view, signedOut, requests, bounds, wire, excuse>>

-----------------------------------------------------------------------------

Init ==
  /\ version = 1 /\ seated = TRUE
  /\ handler = [s \in Sockets |-> "none"] /\ taken = [s \in Sockets |-> 0]
  /\ queue = [s \in Sockets |-> 0] /\ revoked = {}
  /\ wire = [s \in Sockets |-> <<>>]
  /\ socket = [s \in Sockets |-> "none"] /\ current = None
  /\ wants = FALSE /\ timer = FALSE
  /\ asked = [o \in Askers |-> 0] /\ answers = [o \in Askers |-> [v \in 0..MaxVersion |-> 0]]
  /\ view = 1 /\ signedOut = FALSE /\ excuse = 0
  /\ loads = 0 /\ faults = 0

Handler(s) ==
  \/ Accept(s) \/ Register(s) \/ PlayerConnected(s) \/ Snapshot(s) \/ Subscribe(s) \/ Serve(s)
  \/ CloseRevoked(s) \/ Notice(s)

Request(who) == Answer(who) \/ Denied(who) \/ \E v \in Versions : Accepted(who, v)

Next ==
  \/ Change \/ LoseSeat \/ LeaveInHand \/ Load \/ Reconnect \/ Leave
  \/ \E s \in Sockets : Handler(s) \/ Receive(s) \/ Break(s) \/ Completed(s)
  \/ \E who \in Askers : Request(who) \/ LoseAnswer(who)

Spec == Init /\ [][Next]_vars

\* the server's goroutines run, its answers and messages arrive unless they are lost, and
\* the browser's timer fires
FairSpec ==
  /\ Spec
  /\ WF_vars(Reconnect)
  /\ \A s \in Sockets : WF_vars(Handler(s)) /\ WF_vars(Receive(s)) /\ WF_vars(Completed(s))
  /\ \A who \in Askers : WF_vars(Request(who))

-----------------------------------------------------------------------------
(* Properties *)

NothingPending ==
  \A who \in Askers : asked[who] = 0 /\ \A v \in 0..MaxVersion : answers[who][v] = 0

Watches == current # None /\ socket[current] = "open" /\ handler[current] = "serving"

\* Once all is quiet the client shows the room as it is, though events are passed over
\* when a buffer is full and though nobody compares versions.  What can be missed (an
\* event between Snapshot and Subscribe, a request that failed, an older answer that came
\* last) is repaired by the next change of the room at the latest: excuse is the version it
\* happened at.
StaleUntilNextChange ==
  NothingPending /\ Watches /\ wire[current] = <<>> /\ queue[current] = 0 /\ seated =>
    view = version \/ excuse = version

\* The client has one line to the room: it listens to no socket but the current one, and
\* while it wants one it has either a socket or a timer that will open one, never both
\* (connectRoomEvents, openRoomEvents and the close events of earlier sockets).
OneLine ==
  /\ \A s \in Sockets : Live(s) => s = current
  /\ wants => (timer <=> current = None)

\* A player at his table gets to see its present state, through lost connections.
ViewSettles ==
  []<>(~seated \/ ~wants \/ view = version \/ excuse = version)

\* The client forgets the account only when its session was revoked, which never happens
\* here (api.test.ts:22).
KeepsAccount == ~signedOut
=============================================================================
