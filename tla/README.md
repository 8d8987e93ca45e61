# Royal Flush: a verification model of the game server

This directory holds TLA+ models of the authoritative server of Royal Flush
(`services/server`) and of the part of its web client that follows a table
(`apps/web`), TLC configurations that check them on small instances, and proofs
that TLAPS checks for every value of the constants. Paths below are relative to
the root of the repository; `poker/`, `room/`, `score/`, `auth/`, `infra/` and
`httpapi/` stand for `services/server/internal/poker/` and so on.

## 1. The system

Friends play no-limit hold'em in a room. Each room is an *actor*: one goroutine
that owns the table and serves commands, timers and presence events one at a
time, and persists every change with an event before it answers.

| component | state | operations | talks to |
| --- | --- | --- | --- |
| poker engine (`poker/game.go`) | the seats, stacks, commitments, street, turn | sit, start a hand, call, fold, raise, all-in, timeout, withdraw, refill, remove | called by the actor |
| cards (`poker/cards.go`) | deck, board | shuffle, evaluate | the engine; a library |
| chips (`chips/validation.go`) | none | check the chips of a raise | the actor |
| room actor (`room/actor.go`) | engine, owner, identities, processed requests, deadline; connections, timers, subscribers | commands, join, presence, timeouts, snapshots | engine, scores, store, manager (callbacks) |
| room manager (`room/manager.go`) | rooms by id and code, the room each user sits in, timers of empty rooms, lease renewals | create, join, switch, restore, expire, close | actors, store, lease |
| lease (`room/lease.go`, `infra/redis_lease.go`) | one Redis key per room | acquire, renew, release | the manager of each server |
| room store (`infra/postgres_state.go`, `postgres_room.go`) | room_states, room_events, rooms, seat_sessions | append event and state, open seat, load | actor and manager |
| scores (`score/service.go`, `infra/postgres_score.go`) | ledger, epochs, settlements | settle, add, reset | actor, HTTP API |
| room events (`httpapi/websocket.go`, `realtime_connections.go`) | open sockets | connect, subscribe, deliver, disconnect | actor |
| voice hub (`httpapi/voice_websocket.go`) | one voice socket per user | join, relay, leave | actor (membership) |
| accounts and operations (`auth/`, `operations/`) | users, sessions, bans, reports, audit | log in, ban, report, resolve | HTTP API |
| clients (`apps/web`, `apps/admin`) | the last snapshot, voice peers | show, send commands | HTTP API, sockets |

What is hard here, and the property each part owes its users:

* **Engine.** Who still has to act is kept in a set that calls, short all-ins,
  raises and departures change in different ways. A seat too many and the hand
  waits for ever, one too few and somebody plays for less. Points must be
  conserved through blinds, side pots, odd points and departures, and nobody may
  win more from another than he put in.
* **Actor.** Its handlers do not interleave, but their order is free and each of
  them can fail half way: the ledger is written before the event, the event may
  be lost, or stored without the actor learning it, and the process may crash.
  The turn must keep its timer, a disconnected player his retention period, an
  answered command its effect, a seat session its settlement.
* **Manager.** Join, and the switch of rooms inside it, decides under a lock and
  acts after it in several calls of two actors, either of which may start a hand,
  answer late or end meanwhile. A user must never sit at two tables, never be
  kept out of rooms by a seat he does not have, and every Join must be answered.
* **Lease, store.** Several servers share one database without fencing tokens:
  the room's state is overwritten by whoever writes it last, so nothing but the
  lease keeps what a user was told from being lost to an older copy.
* **Scores.** Transactions read snapshots, wait for locks, fail, commit without
  saying so and are sent again: a request counts once, a balance is the sum of
  its entries, a reset wipes what was there before.
* **Accounts, sockets, voice.** A request authenticates, looks for a seat and
  opens a socket in separate steps, while another logs the user out, bans him or
  takes the seat. What he lost must be closed, what he kept must be reachable.
* **Events.** Delivery is lossy by design and answers overtake each other; the
  client must end up with the state of the room and with one line to it.

`PROJECT.json` lists these dangers one by one under `hazards`, each at its line
with the properties that cover it or the reason why none does.

## 2. The modules

| module | models | by |
| --- | --- | --- |
| `Points` | loops that add up points | `Total`, a count of single points, so that finite-set theorems apply |
| `Game` | `poker/game.go` | the Game as a record, one operator per method |
| `PokerTable` | `applyCommand`, `handleTimeout` driving the engine | one action per command, timer or event |
| `RoomActor` | `room/actor.go` with the store, the ledger, sockets and timers | one action per handler, and for each handler its failures |
| `RoomManager` | `room/manager.go` with the actors it drives and the seat sessions of the database | one action per section under the lock, per handler it calls, per timer |
| `RoomLease` | `infra/redis_lease.go`, leases, `Restore`, `persistEvent`, `Close` on several servers | one action per call of Redis or Postgres, per tick of the renewal |
| `ScoreBook` | what `score/store.go` promises | an abstract specification |
| `ScoreLedger` | `infra/postgres_score.go` under `score/service.go` | one action per statement at which transactions interleave |
| `Connections` | `httpapi/` (authentication, sockets, voice, logout, bans) with `auth/` and `infra/postgres_auth.go`, `postgres_operations.go` | one action per call a request makes |
| `TableView` | `httpapi/websocket.go`, `apps/web/src/stores/game.ts`, `views/TableView.vue` | one action per step of a socket's handler and per event of the browser |
| `MC...` | | symmetry sets and constants for TLC |
| `Points_proofs`, `PokerTable_proofs`, `RoomActor_proofs`, `RoomManager_proofs`, `RoomLease_proofs`, `ScoreLedger_proofs`, `Connections_proofs`, `TableView_proofs` | | theorems and proofs |

Each component is a module of its own that has the part of its neighbours it
depends on, abstracted: `PokerTable` composes `Game` with the actor's commands,
`RoomActor` has the engine's hand in outline, `RoomManager` the actors' seats,
`RoomLease` an actor as a copy of the room, `Connections` the room as a
seat that can be lost, `TableView` the room as a version that grows. One pair is joined by
refinement: `ScoreLedger` implements `ScoreBook`.

**Game.** A player's boolean fields are sets of seats (`ready`, `away`,
`folded`, ...), his int64 fields functions on the seats; `dealt` is "has hole
cards". An operation of the code becomes an operator on the record that returns
the *set* of games it may lead to, because the cards are abstracted: at a
showdown any weak order of the shown hands is possible (`Rankings`). Error
results that leave the game untouched are guards of the caller. The one error
that does not, that of `showdown()`, is kept: the game stays in the street
`showdown` with the lower pots paid (`Stuck`).

**PokerTable.** Every handler ends in `SettlesTo`: once no hand is in progress,
those who are leaving are settled and their seats are freed, as
`settlementsForStableState` does. `Spec` allows everything the code allows.
`TableSpec` restricts it to hands in which every seat that can act was dealt in,
which the documentation promises and the code does not ensure (section 4);
properties that fail only because of that are checked under `TableSpec`, the
others under `Spec`.

**RoomActor.** `mem` is what `persistentState()` exports, `db` the row of
room_states, `rows` the rows of seat_sessions, `logged` the rows of room_events
that carry a request id, `ledger` the settlements. `armed` is the seat whose
turn the running action timer belongs to (the code's `actionGen` and the seat
in the signal), `conn` and `dgen` are `connections` and `disconnectGen`,
`signals` the disconnect timers. A handler ends in `Succeeds` or in `Fails`:
settlements already applied stay in the ledger, the memory goes back to the
checkpoint, and the database either has the new state or has not. `deadline`
says to what the deadline of the turn is due: to the turn itself ("own"), to a
later event during it ("postponed"), or to the turn before ("previous"). The
hand is abstract there: after an action the turn passes to a player who can act, or
the hand is over and a point changes hands, or it sticks (`Sticks`): `showdown()`
meets a side pot that nobody left can win and `finishAction` drops its error, so the
command that brought it on succeeds. In a stuck hand (`Stuck`) nobody can act, the
action timer does nothing, and a departure may fail after it has marked the player as
leaving (`WithdrawFails`): the handler then returns without restoring, persisting or
scheduling anything. Who sits down during a hand takes no part in it here, though the
code may ask him to act (`OnlyDealtSeatsOweAction`, section 4); `PokerTable` has that.
Session numbers stand for session ids and, because they grow, for `joinOrder`.

**RoomManager.** `active` is `activeSeat`, `rooms` the map of rooms, `timed` the
empty timers, `join` the one Join or switch that holds `transitionMu`, with the
step it has reached: check under the lock, reserve a seat in the target, leave
the first room, move the entry, take the seat, and the three ways back when that
fails. `releasing` holds who was settled in an actor that has yet to call
`releaseSeat`; `pending` a Join whose caller has gone while the actor still has
it in its queue; `row` the open seat session, of which the database keeps one per
user. The constant `Races` says which outside events may fall between two steps
of a Join, so that a run can ask which of them a property survives.

**RoomLease.** Time is counted in periods of `leaseRenew`. The key in Redis has a
holder and an end; each server has a process, its actor of the room, the copy
(`known`: the events that made it) and the renewal goroutine with its failures.
Redis and Postgres may each be reliable or fail in any call, before or after its
effect (`faulty`, chosen once per behaviour, so that the properties can say
"while Redis answers"). `stored` is the set of events that made the state in
`room_states`: `Store` replaces it by the writer's copy and one event more, whatever it
held, for the statement is an upsert that compares no versions, and the only unique index
left in `room_events` is that of a user's request (migration 004 dropped the key
`(room_id, version)`). `answered` records what users were told. A room is created in
steps (the key, the transaction, the start of the renewal), between which the process
may die; the transaction's timeout, `postgresOperationTimeout`, is a period. The constant
`Races` names two further interleavings: "load", the room is written between
`LoadRoomStates` and `Acquire`; "drain", an actor that is being closed serves
requests that reached its loop together with `stop`.

**ScoreLedger.** The committed tables are sequences; the snapshot of a
serializable transaction is a length. `BeginMutation` takes it, `LockAccount`
waits for the lock of the user, `Book` and `CommitReset` commit when `Conflicts`
finds no transaction that read what this one writes and the reverse, and no
unique index in the way. `Fail` aborts at any point; `given` and `resets` are
what callers were told.

**Connections.** A request is a goroutine with a step (`at`), the token it came
with and the row of the user it has read. Its calls of the database, of the
room's actor, of the socket registry (`registered`, `closing`) and of the voice
hub (`hub`, `announced`) are its actions; two requests interleave freely.

**TableView.** One player and one browser tab. The room is its version; a
snapshot carries the version it was taken at. `handler`, `taken`, `queue` and
`revoked` are the server's side of each socket, `wire` what is on its way,
`socket`, `current`, `wants` and `timer` the client's (`eventSocket`,
`shouldReconnect`, `reconnectTimer`), `asked` and `answers` the requests for
snapshots, which travel on connections of their own and overtake each other.
`excuse` is no part of the code: it records the last version the client may have
been denied, and serves to state how stale it can be.

Definitions marked "(mutation of ...)" are plausible slips; `PROJECT.json` pairs
each property with one that breaks it.

## 3. The runs

Passing runs:

| run | asks | bounds |
| --- | --- | --- |
| `hands` | Are betting rounds closed only when all have matched (`NobodyRidesFree`)? Are points conserved and side pots capped (`PointsConserved`, `PayoutsCapped`)? | 3 seats, blinds 1 and 2, equal stacks of 4 and unequal ones of 6, 4, 2, raises of 2 or 3, two hands, one seat change |
| `open_table` | With any two seat changes and seats without cards: does a playable turn always exist (`TurnInv`), are points never made (`NoPointsCreated`), does the hand end (`HandsEnd`)? | 3 seats, unequal stacks, one hand, fair timers |
| `faults` | Do timers, retention, sessions, answers and ownership survive failures and crashes (`TimerArmed`, `DisconnectCovered`, `NoSessionLost`, `AnswersDurable`, `OwnerSeated`), does room activity leave the deadline alone (`PresenceKeepsDeadline`), do retention periods end (`RetentionEnds`)? | 2 users, 1 request id used by both, 2 faults of any kind, 1 socket, 2 turns, fair timers |
| `room_stuck` | Is whoever leaves settled, unless the showdown of his hand fails (`LeaversSettled`)? | 3 users, 1 fault of any kind, no sockets, 3 turns, fair timers |
| `manager_joins` | Do the lists of the manager and the seats of the actors agree (`SeatHasEntry`), are reservations returned (`ReservedForJoin`), is nobody's room closed (`NobodyEvicted`), is every Join answered (`JoinAnswered`) and an empty room closed (`EmptyRoomCloses`)? | 2 users, 2 rooms, 2 seats, 3 joins or creations, 1 hand, 1 crash, failing transactions; actors, requests and timers fair |
| `manager_races` | With every race at once: does nobody sit at two tables (`OneTable`), is nobody kept out by a seat he does not have (`EntryHasSeat`)? | 3 users, 2 rooms, 3 seats, 2 joins or creations, 1 hand, 1 crash; a hand that starts during a switch, cancelled requests, failing transactions, expiring rooms, a creation during a join, a busy actor |
| `score_calls` | Does the store keep the idempotent book (`KeepsBook`, a refinement), are balances running sums (`RunningBalance`), does a reset wipe (`ResetWipes`)? | 1 user, 2 additions, 1 settlement and 2 resets by request id, amounts 1 and 2, 4 calls, 3 at a time |
| `lease_faults` | While Redis answers, is there one runner (`OneRunner`), and is what users were told in the stored room (`AnswersStored`)? Else, is the overlap bounded (`OverlapBounded`)? | 2 servers, a lease of 3 periods, 3 failures to give up, 7 periods, 4 events, 2 crashes, either store failing, without the races "load" and "drain" |
| `sockets` | Are sockets revoked with the seat (`WatchersSeated`, `WatchersGo`) and reachable for it (`SocketsReachable`), is the voice hub current (`VoiceCurrent`), does a ban survive stale writes (`BanSurvives`)? | 4 requests of any kind, 2 at a time, 1 session, 1 ban and 1 unban, 1 new seat; goroutines fair |
| `client` | Does the client have one line to the room (`OneLine`), does it get to show the room as it is (`StaleUntilNextChange`, `ViewSettles`)? | 2 sockets, buffers of 1, 3 versions, 1 more request of the page, 1 fault; server, browser and network fair |

Why the bounds are enough to be of interest. *Engine*: with three seats and
stacks of 6, 4 and 2 there are short blinds, short all-ins, two side pots, ties and
odd points; two hands make the button move and let a broke seat sit out. *Actor*:
two users suffice for an owner and another player in every combination of presence,
two faults for a failure followed by a crash before the retry. A hand sticks with a
third player, when two are all-in and one has folded; three turns are enough for that,
and for a player who leaves while he is all-in. There, players are disconnected by
the crash and not by their sockets. *Manager*: two rooms and two users for a
switch into a room where somebody sits; the third user and seat let a hand of the
first room go on without the one who switches. *Scores*: three calls at once are a
reader, the one that overtakes it, and a repetition of either; four let a
repetition follow. Two users add nothing, since all locks and checks are per user except
the epochs, which two resets exercise. *Lease*: seven periods are a lease that
expires, the next one, and its end. *Sockets*: pairs of requests are all the
interleavings a check followed by an act can lose to; four requests in a row leave
the traces (an older socket, an earlier ban) those pairs need. *Client*: two
sockets make a reconnection, a buffer of one overflows at the second event.

What is proved (section 5) holds without these bounds. All bounds are constants that
appear as guards. `ScoreLedger_types.cfg` and `RoomLease_types.cfg` check the type
invariants of these two modules with the same bounds, the latter with both races and
with `OneRunner` and `OverlapBounded`, which the races do not disturb.

Deadlock is not checked: a room ends, a table has nothing to do once its bounded
hands are over, calls and faults are counted.

**Fairness.** In all modules it is weak and only of what the program's own runtime does:

* `time.AfterFunc` fires, and the actor's loop, which blocks for ever in no handler,
  receives the signal: the action timer and the disconnect timers (`PokerTable`,
  `RoomActor`), the empty timer and the goroutine that closes the expired room
  (`RoomManager`). In `PokerTable` and `RoomActor` the condition is written out: a timer
  is due (`ActionDue`, `SignalDue`) in place of ENABLED, which would enumerate the
  hand's outcomes, and its effect (`TurnEnds`, `SignalServed`) in place of the action.
  Commands and crashes can have that effect too, and a served timer can fail
  without it, but turns, sockets and faults are bounded, so that it makes no difference
  to what happens for ever.
* The goroutine of a request is scheduled and its calls have timeouts: the Join
  that is under way, the callbacks of an actor (`RoomManager`), the handler of
  each request (`Connections`), whose reads fail once its socket was closed.
* A hand ends (`EndHand` in `RoomManager`): `HandsEnd` shows it for the engine.
  The one exception is the first disagreement of section 4.
* What is on its way arrives unless it is lost (`Receive`, `Answer`), and the
  browser's timers and `close()` complete (`TableView`); losses are bounded faults.

Nothing is assumed of what users, clients or administrators choose to do.

## 4. Disagreements

Two runs violate the one property they check; the quotations are in `findings`:

| run | what happens |
| --- | --- |
| `orphan_side_pot` | the largest contributor leaves, the others are all-in for less: `showdown()` pays the lower pots and gives up, the hand never ends (`EverySidePotHasAWinner`) |
| `lease_restart` | a server that crashes and restarts within the time of its lease finds its own key, skips the room and never looks again (`RestartFindsRoom`) |

More configurations are kept for the reader to run with `tlc -config X.cfg M`. TLC
refutes the property each of them names:

| configuration, module | property | what happens |
| --- | --- | --- |
| `PokerTable_bystander.cfg`, `MCPokerTable` | `OnlyDealtSeatsOweAction` | a seat without cards is asked to act after a raise or on a new street |
| `RoomLease_handover.cfg`, `MCRoomLease` | `AnswersStored` | a server loads the rooms, their holder stores an answered event and shuts down, the first acquires the lease, and `ResumeAfterRestart` overwrites `room_states` with the older state (`room/manager.go:198` loads before `Acquire`; `infra/postgres_state.go:177` upserts without comparing versions; migration 004 dropped the key `(room_id, version)`). A departure undone like this contradicts `docs/testing/user-behavior-matrix.md:26`, which promises that who has left does not come back with a restart |
| `RoomActor_leaver.cfg`, `RoomActor` | `LeaversAlwaysSettled` | the failing showdown in the actor: the departure that brings it on is accepted and stored, the hand never ends, the leaver is never settled; neither is anybody else, for the room cannot be ended during a hand |
| `RoomActor_settlement.cfg`, `RoomActor` | `NetMatches` | a settlement is applied, its event is not persisted, the player plays on; his later result is ignored |
| `RoomActor_empty.cfg`, `RoomActor` | `SeatsRestored` | a room without owner is stored as empty and not restored, though players hold seats (`infra/postgres_state.go:201` derives the status from the owner) |
| `RoomActor_retention.cfg`, `RoomActor` | `RetentionHonoured` | a retention timer of an earlier session ends the period of the next |
| `RoomActor_sockets.cfg`, `RoomActor` | `SocketsCounted` | a late close of an earlier session's socket is subtracted from the present connections |
| `RoomActor_join.cfg`, `RoomActor` | `NoRowLeftOpen` | a Join committed but not acknowledged leaves an open seat row, and the user is refused every seat |
| `RoomActor_logged.cfg`, `RoomActor` | `LoggedIsProcessed` | a command committed but not acknowledged is refused on retry instead of answered |
| `RoomManager_switch.cfg`, `MCRoomManager` | `SeatHasEntry` | a hand starts between the check of a switch and its leave: the player stays in the first room until the hand ends and the manager has forgotten it |
| `Connections_voice.cfg`, `MCConnections` | `VoiceSeated` | a departure between the look-up of the seat and the registration of the voice socket leaves a stranger in the room's voice |
| `TableView_account.cfg`, `MCTableView` | `KeepsAccount` | `websocket.go:36` closes with code 1008 whatever `PlayerConnected` failed with; `api.ts:5` and `game.ts:223` take 1008 for a revoked session and forget the account (`api.test.ts:22`: "recognizes realtime connections revoked by logout or ban") |

Which of the races of `RoomManager` a property survives, found by checking it with
each race alone: `OneTable` and `EntryHasSeat` survive all. `SeatHasEntry` fails
under "hand" (with three users), "cancel", "expiry" and "create"; `ReservedForJoin`
under "cancel" and "busy"; `NobodyEvicted` under "cancel", "expiry" and "create".
So a client that gives up a Join, or a room that expires while somebody is on his
way to it, can leave a seat the manager does not know of, and the room may be closed
under him; his seat is settled, so no points are lost.

`AnswersStored` also fails with the race "drain" alone (put it for "load" in
`RoomLease_handover.cfg`): `Close` releases the lease before it stops the actor, whose
loop may still serve a request when both are waiting (`room/actor.go:889`), after
another server has restored the room.

Others were met while modelling and have no configuration:

* A departure changes the version of the game, so it gives the player whose turn it
  is a new full period, though `docs/testing/user-behavior-matrix.md` says that room
  activity does not. `PresenceKeepsDeadline` says what does hold.
* Timeouts are persisted before the next player is given his time
  (`room/actor.go:974`), so a restart right after one restores a deadline that has
  passed and times the next player out at once (`deadline = "previous"`); no
  document says what a restart owes the running turn.
* The checkpoint is not restored when a command fails inside `applyCommand`
  (`room/actor.go:447`); the only such failure that has changed the game is the
  showdown's.
* When the event of `PlayerDisconnected` cannot be persisted the old connection
  count is restored, and the socket's handler, which is gone, does not call again
  (`room/actor.go:562`): the player is never shown as disconnected.
* The map of processed requests grows for the life of the room and is written with
  every state (`room/actor.go:460`).
* Two processes with the same `INSTANCE_ID` renew one lease together: `RoomLease`
  assumes the names distinct.
* A Create that was committed but not acknowledged leaves a stored room that the next
  restart runs.
* A logout on one device closes the user's sockets on all; but when `UserBySession`
  fails, whose error is ignored (`httpapi/handlers.go:109`), the session is deleted
  and his sockets stay open.
* `UpsertUser` in `authenticate` writes back the nickname read before, so a request
  that overlaps a rename reverts it. `Saved` models it; `BanSurvives` says that the
  ban is not part of what is written back.
* A ban sent again after an unban with another id bans again without an audit entry
  (`httpapi/operations_handlers.go:112`).
* A client whose seat was lost while its connection was down is refused the upgrade,
  sees code 1006 and tries for ever.
* A refused refresh that an earlier socket had asked for stops the reconnection of
  the present one.

## 5. The proofs

TLAPS checks every step, for every value of the constants that satisfies the
named assumptions of the modules. TLC evaluates those assumptions on every run.

| module | theorem | says |
| --- | --- | --- |
| `PokerTable_proofs` | `TypeCorrect` | `Spec => []TypeOK`; among other things no stack, pot or commitment is ever negative |
| | `TurnAlwaysHeld` | `Spec => []TurnInv`: while a hand is played and showdown has not failed, the turn belongs to a player who owes an answer and can give one |
| | `NobodyEverRidesFree` | `Spec => []NobodyRidesFree`: who can act and owes no answer has paid the whole bet |
| | `PointsNeverCreated` | `Spec => []NoPointsCreated`: no path through the engine makes points |
| | `PointsAlwaysConserved` | `TableSpec => []PointsConserved`: none are lost either, while all who can act were dealt in |
| | `PayoutsAlwaysCapped` | `Spec => PayoutsCapped`: at a showdown nobody takes from another more than he put in himself |
| `RoomActor_proofs` | `TypeCorrect` | `Spec => []TypeOK` |
| | `TimerAlwaysArmed` | `Spec => []TimerArmed`: the turn has its timer after any sequence of commands, timeouts, failures, crashes and restarts |
| | `AnswersStored` | `Spec => []AnswersDurable`: an answered command is in the database |
| | `SessionsKept` | `Spec => []NoSessionLost`: a session whose Join was answered is seated in the database or settled in the ledger |
| | `OwnerAlwaysSeated` | `Spec => []OwnerSeated`: the owner has a seat |
| | `RetentionAlwaysTimed` | `Spec => []DisconnectCovered`: a disconnected player's seat has a running timer |
| | `DeadlineKept` | `Spec => PresenceKeepsDeadline`: a step in which nobody leaves gives the turn no more time |
| `RoomManager_proofs` | `TypeCorrect` | `Spec => []TypeOK` |
| | `NeverAtTwoTables` | `Spec => []OneTable`, with all races |
| | `NobodyKeptOut` | `Spec => []EntryHasSeat`, with all races |
| | `SeatsHaveEntries` | `Spec => []SeatHasEntry` without "hand", "cancel", "expiry" and "create" |
| | `NobodyIsEvicted` | `Spec => []NobodyEvicted` without the same |
| | `SeatsKeptForJoins` | `Spec => []ReservedForJoin` without "cancel" and "busy" |
| `ScoreLedger_proofs` | `StoreKeepsBook` | `Spec => KeepsBook`: the store implements `ScoreBook` |
| | `ResetsWipe` | `Spec => []ResetWipes` |
| | `BalancesRun` | `Spec => []RunningBalance`: every entry shows the sum of its user's entries of the epoch up to itself |
| `RoomLease_proofs` | `OneRunnerAlways` | `Spec => []OneRunner` |
| | `AnswersKept` | `Races = {} => (Spec => []AnswersStored)`: without the two races, what users were told is in the stored room while Redis answers |
| | `OverlapAlwaysBounded` | `Retries <= Ttl => (Spec => []OverlapBounded)` |
| `Connections_proofs` | `TypeCorrect` | `Spec => []TypeOK` |
| | `WatchersAlwaysSeated` | `Spec => []WatchersSeated` |
| | `SocketsAlwaysReachable` | `Spec => []SocketsReachable` |
| | `VoiceAlwaysCurrent` | `Spec => []VoiceCurrent` |
| | `BansSurvive` | `Spec => []BanSurvives` |
| `TableView_proofs` | `TypeCorrect` | `Spec => []TypeOK`; no connection holds more than two messages beyond what its writer waits for |
| | `AlwaysOneLine` | `Spec => []OneLine` |
| | `StaleNoLonger` | `Spec => []StaleUntilNextChange` |

**The table.** Assumed are at least two seats, blinds of which the small one is positive
and below the big one (`NewGame`, `poker/game.go:86`, checks as much), a positive
buy-in, raise sizes and bounds that are natural numbers, and opening stacks that are
positive and add up to the buy-ins. `Points_proofs` has the lemmas about adding up:
totals are cardinalities, so that the library's theorems on finite sets apply, and where
an induction is needed (over seats, levels or rows) it is by a least counterexample,
since the induction theorems themselves are out of the provers' reach. The first part of
`PokerTable_proofs` states for each operation of the engine that it leads from a good
game to good games, where `GoodGame(g)` is `g \in Games` together with
`SomeoneToAct(g)`. The two cannot be separated: that a commitment leaves a stack
non-negative needs the actor to be a seat, and that the next actor exists needs the
seats to be well typed. The interesting lemmas are those of `FinishAction` and
`AdvanceStreet`: when nobody owes an answer the street closes, otherwise the next
pending seat takes the turn, and a seat that cannot act any more has been removed from
`pending` by whatever made it so. The second part lifts this to handlers, whose last
step, settling those who leave, happens only when no hand is in progress. The inductive
invariant is `TypeOK /\ TurnInv`.

`NobodyEverRidesFree` goes through the operations once more, with `FairInv`: nobody
has committed more than the current bet, and who was dealt cards, can act and is not
pending has committed all of it. The first half carries the second, for a call pays
what is missing to the bet and reaches it only from below. The delicate cases are the
blinds, of which the bigger is the current bet because the two come from different
seats (`NextSeatMoves`), and the all-in that raises by less than a full raise.

`PointsAlwaysConserved` and `PointsNeverCreated` are one proof. A showdown pays out side
pots, level by level, and clears the pot; that this is the same number of points rests
on two exchanges of sums. A seat's *stakes* in the levels up to what it committed add up
to its commitment (`StakesAddUp`), and a side pot is the sum of the seats' stakes in its
level, so that the side pots divide the pot (`SidePotsDividePot`); and the winners'
shares of a side pot, odd points included, are all of it (`SharesOfSidePot`), because
odd points go one each to those with the fewest winners between the button and them.
What has to be invariant for this to apply is `Books`: empty seats have no points,
between hands there is no pot, and on the streets before the present one nobody has
committed more than a player with cards who can act (`Ahead`). When a street closes the
same holds of the whole hand (`Top`), so that such a player competes for every side pot,
and a showdown can fail only when all who are left are all-in. `Keeps` says what an
operation does to the books, and composes: the points in play less those allocated are
as before, or less where somebody without cards had points in the pot (`Strangers`;
`TableSpec` excludes them, hence the equality), or the showdown has failed in a way that
no later operation makes good (`Locked`, the first disagreement of section 4: both
properties except a table that is stuck, and the proof has to show that a stuck table
cannot come back with points missing, that is, that no fold ends that hand).

`PayoutsAlwaysCapped` uses the same stakes the other way round: a winner has committed
up to the level of every side pot he shares in, so his part of it is at most the stakes
of all seats in that level, and over the levels up to his own those are at most the
lesser of each seat's commitment and his. It needs of the invariant that no payouts are
left over from the hand before (`Unpaid`), and for every operation that ends a hand that
what was committed meanwhile has left a stack (`PlaysOn`, `PaysFairly`).

**The room.** Assumed are a creator among the users, a value `NotSettled` that is
no integer, natural bounds and at least one session. Nothing is assumed about the
number of faults or about how persisting fails. The inductive invariant is
`TypeOK /\ TimerArmed /\ Stored /\ Owned /\ Retained`:

* `Stored`: what was answered is processed in memory, and what is processed in
  memory is processed in the database; a session that was answered and not
  settled is held in memory *and* in the database.
* `Owned`: the owner has a seat in memory and in the database.
* `Retained`: `DisconnectCovered`, and that those who are disconnected have a
  seat, no connection and a room that has not ended, and that a process that is
  down has no connections. The additions are needed because a timer is dropped
  when its player is connected or the room has ended: if a player could be shown
  as disconnected in such a state, dropping his timer would keep his seat for ever.

`AnswersDurable` and `NoSessionLost` speak of the database alone, which is not
inductive: the next handler that succeeds overwrites the database with the memory,
so the memory must hold as much. The proof goes by how a handler ends.
`SucceedsKeeps` and `FailsKeeps` prove it once for both ends; every command and
timer is an instance of them, because all it does to the state in between is
`Follows` (seats, owner, processed requests and the end of the room are left
alone) followed by `Settles` (those who depart, and only they, lose their seat, and
precisely they are added to the ledger). The exception is a departure refused in a
stuck hand, which changes the memory alone (`WithdrawFailsKeeps`). The case that matters is a handler that
fails after its state was stored: the memory goes back to the checkpoint with the
departed player in it, the database no longer has him, and the ledger has already
settled him.

`DeadlineKept` is an action property with an invariant of its own, `Punctual`: a
crash replaces the memory by the database, which after an unacknowledged failure
holds a state the memory never had, so it is not enough that no handler postpones
the deadline in memory. `Timely` says of each operation of the hand what deadline
it leaves for the actor to grant.

**The manager.** Assumed are the names' distinctness only (of users, rooms, seats and
the value of a Join that is not under way); users, rooms, seats
and the set of races are arbitrary. `OneTable` is not inductive, for it says
nothing of a seat about to be taken. The strengthening is that a seat in memory
has the open seat session of its user behind it (`SeatRow`), and the database has
one per user whatever the room; leaving the first room of a switch frees the
session only when it settles, so the second seat is refused while the first is
held. `LeaversSit` and `LeaversInHand` make the end of a hand free precisely what
was held. That the manager's own lists need not be right for this is the point:
`OneTable` rests on the database's index and not on `activeSeat`.

`NobodyKeptOut` is about those lists. By `EntriesInv` an entry is backed by a seat, or
by its user about to be reported as gone (`Backed`), except at four steps of its own
Join (`Rewriting`): before it sits down where the entry already points, before it
sits down again where it came from, and before it takes the entry back. No other step takes
a seat away without a report (`SeatsReported`), which is where the proof needs that
an actor reports who left before it settles the next.

The other direction, `SeatHasEntry`, is false with some of the races, and so is what
follows from it; the theorems have the absence of these races as hypotheses on the
constant `Races`, and nothing else. Each hypothesis is needed, save one: TLC refutes
`SeatHasEntry` under each of "hand", "cancel", "expiry" and "create" alone, and
`ReservedForJoin` under "cancel" and "busy" (section 4). `NobodyEvicted` survives "hand"
in the runs, but not by way of the entries, so it is proved without it. All other
behaviours remain: failing transactions, busy actors, hands between Joins, departures,
late timers, rooms that end and crashes. The strengthening (`EntryInv`) says that
whoever is backed by a seat has his entry in that room and the room is loaded, and what
a Join knows at its step (`SwitchAt`): until it leaves, no hand is on in the room it
leaves, so that its departure is settled at once; from then until it sits down its user
is backed nowhere, so that it may rewrite his entry. `ReservedInv` says of a reserved
seat that the Join under way is the one that reserved it and is at a step that leads to
its release.

**Scores.** `ScoreBook` allows a step to extend the book with entries that are
consistent with those there. The inductive invariant says that the ledger is
consistent and that every transaction's snapshot is a prefix of the tables
(`Snapshots`). When an entry is made it is compared with the rows of the snapshot
by what the transaction checks (`Booked`, `RateLimited`) and with the later rows by
what the database refuses to commit (`Conflicts`): together all of them. `IdsFresh`
adds that the id a reset has drawn, and its request, are in no committed epoch and in
no other call. `ResetWipes` needs one more invariant, `WipeInv`: an
id drawn is above the epochs of all rows the call saw, though epochs commit in
another order than their ids.

`BalancesRun` compares two sums: the one the transaction took over its snapshot and the
one over the rows it commits after. The rows it missed are of other users or other
epochs, or the database had refused to commit (`SeenSum`). `MapThenSumSet`, the module's
SUM, is a fold that chooses an element at a time, so it has first to be shown that sums
exist, are unique and do not depend on which row is taken first (`SumExists`,
`SumUnique`, `SumWithOne`).

**Leases.** `OneRunnerAlways`: if Redis answers, the key of a running room outlasts its
next renewal wherever the goroutine stands (`Held`), for which a lease of three periods
is enough (assumed; the code has three, 15 seconds to renewals every 5). Who creates a
room holds its key for as long as the transaction may take (`CreatingInv`), so that
nobody else runs the room when it is opened.

`AnswersKept` rests on that and on nothing in the database, which compares nothing. Its
invariant (`AnswersInv`) says that every copy that is being run has all that was
answered, and so has the stored state; a copy is taken from the stored state, and
between that and the lease nothing is written, by the hypothesis. A commit that is not
acknowledged leaves the actor with an older copy that it writes over the event; that
event was not answered. The hypothesis `Races = {}` is the exclusion of the two ways in
which the code writes from a copy without the lease that goes with it; TLC refutes
`AnswersStored` under either (section 4).

`OverlapAlwaysBounded` is about a Redis that fails, and assumes that the failures a
renewal allows itself are no more than the periods of the lease (the code has 3 and 3).
While a server runs, its failures count the periods since its key was last known to
be set, up to one that is late (`Paced`); and of two servers that run, one began after
the other's key had expired (`InTurn`). So when the later has run for a
period, the earlier has counted its last failure.

**Connections.** The inductive invariant `IInv` joins the five properties with
`HubServes` (the hub's clients are being served) and `Audited` (what is still to
be written to the row has been audited, which is what keeps a ban while its
request is between its two writes). Most steps touch nobody else, and a lemma
(`QuietStep`) proves these at once. The case of interest is `PlayerConnected`: the seat is
asked for again after the socket was registered, and a departure before that is seen
while one after it finds the socket registered.

**The client.** Assumed are buffers and versions of at least one. `Lines`
strengthens `OneLine`: the timer runs only while there is no socket, and a socket
is used once. `Repairs` is the heart of `StaleNoLonger`: while the client watches,
either it shows the room, or it was denied the last change, or something on its
way will make it ask again (an event queued or sent, a snapshot of the present
version, a request not yet answered, an answer of the present version). Each step
hands this over to the next in the chain: a change fills a queue, or finds it
full and therefore not empty; `Serve` moves an event from the queue to the wire;
`Receive` turns it into a request; `Answer` serves it at the present version. The
hole between `Snapshot` and `Subscribe` is closed by `SnappedFresh`: what a handler
has taken is the present version, or the change it missed is the excuse. `Known`
(nothing has a version from the future) makes an older answer that arrives last the
only way back, and that is an excuse too.

## 6. What is only model-checked, and what is not modelled

Model-checked only:

* Liveness (`HandsEnd`, `RetentionEnds`, `LeaversSettled`, `JoinAnswered`,
  `EmptyRoomCloses`, `WatchersGo`, `ViewSettles`): temporal properties under
  fairness are beyond the prover.
* `NobodyEvicted` with hands that start during a switch: proved without them only.
* The type invariants of `ScoreLedger` and `RoomLease`: what the other proofs need
  of them is part of their invariants.
* Every property of section 4, since it is false as it is checked there
  (`SeatHasEntry` and `AnswersStored` are proved without the races that break them).

Abstractions and what they leave out:

* Cards: a ranking of the hands shown replaces deck, board and evaluator. That
  the evaluator ranks hands correctly is the business of its tests.
* The hand in `RoomActor`: its rules are left out, so that it may end, go on or stick
  where the engine would do only one of these. What it does not have is a player who
  sits down during a hand and is asked to act in it. The engine's own rules are
  checked in `PokerTable`.
* `room.refill` is an `OtherCommand` of `RoomActor`, whose state does not have
  the buy-ins; the database refuses the allocation of a session that is already
  settled, which the model does not say, so it has a few more behaviours there.
* Voice mute, quick messages, ready flags, invite codes and identities are
  written with the state and read by nobody else in it: `OtherCommand`.
* A process that crashes in the middle of a handler leaves what a failed handler
  and a crash leave; the model has these two steps.
* A transaction of the database is a step with three outcomes (committed, lost,
  committed without acknowledgement), except in `ScoreLedger`, whose transactions
  interleave; there Postgres is modelled by what serializable isolation and unique
  indices refuse.
* Timers fire in time in `RoomLease`: a renewal or a call is late by one period at
  most, which is what its context allows it. A process that is suspended for longer
  can run beside the next holder, and each then overwrites what the other stored.
* `TableView` has one tab of one player, who does not sit down again; what other
  players' tabs do reaches it only as changes of the room.
* Voice: who is in the room is modelled, the signals and the media between browsers
  are not; signals to a full buffer are dropped by design.
* The memory stores of the development mode, which have no transactions.

Not modelled, because there is no state or no decision in it worth a model:
configuration, HTTP decoding, tokens, identifiers, views and styles, the
administrators' lists and reports, registration and passwords, load tests,
deployment, generated code. `components` in `PROJECT.json` says so one by one.

## 7. What could come next

1. `Chips` (`chips/validation.go`): the validation of chip lists as a pure
   algorithm against its definition.
2. Reports and their resolution (`operations/`), which are rows with one transition.
3. `NobodyEvicted` with the race "hand", whose invariant cannot go by the entries.
4. That the hand of `RoomActor` allows what `PokerTable` does, as a refinement.
