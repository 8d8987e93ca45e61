------------------------------ MODULE PokerTable ------------------------------
(***************************************************************************)
(* The engine of Game driven the way the room actor drives it (applyCommand, *)
(* handleTimeout and handleDisconnectTimeout of                            *)
(* services/server/internal/room/actor.go): one action per command or      *)
(* timer, each a whole handler, in any order.  Persistence is assumed to   *)
(* succeed here; its failures are the subject of RoomActor.                *)
(***************************************************************************)
EXTENDS Game

CONSTANTS
  RaiseSizes,   \* the raiseBy totals that chip lists can add up to
  OpeningStacks,  \* what the players may hold when the behaviour starts
  MaxHands,     \* bound: hands started
  MaxChurn      \* bound: joins, refills, departures, ready and connection changes

ASSUME RaiseSizesAssumption == RaiseSizes \subseteq Nat
ASSUME OpeningStacksAssumption ==
  \A stack \in OpeningStacks :
    /\ stack \in [Seats -> Nat \ {0}]
    /\ Total(stack) = Total([s \in Seats |-> InitialTablePoints])
ASSUME BoundsAssumption == MaxHands \in Nat /\ MaxChurn \in Nat

VARIABLES
  game,     \* the actor's Game
  settled,  \* history: sum of the nets given to ApplySettlement
  hands,    \* HandNumber
  churn     \* how many of the bounded seat changes have happened

vars == <<game, settled, hands, churn>>

TypeOK ==
  /\ game \in Games
  /\ settled \in Int
  /\ hands \in 0..MaxHands
  /\ churn \in 0..MaxChurn

-----------------------------------------------------------------------------
(* settlementsForStableState: every handler ends by settling and removing  *)
(* the seats that are leaving, once no hand is in progress.                *)

Departing(g) == IF InHand(g) THEN {} ELSE g.leaving

Net(g, S) == Total([s \in S |-> g.stack[s]]) - Total([s \in S |-> g.allocated[s]])

\* the handler's result is g; what is left of it after settling
SettlesTo(g) ==
  /\ game' = RemoveSeats(g, Departing(g))
  /\ settled' = settled + Net(g, Departing(g))

SeatChange == churn < MaxChurn /\ churn' = churn + 1 /\ UNCHANGED hands

-----------------------------------------------------------------------------
(* Commands of the player whose turn it is *)

CallTurn(s) ==
  /\ IsActor(game, s)
  /\ \E g \in CheckOrCall(game, s) : SettlesTo(g)
  /\ UNCHANGED <<hands, churn>>

FoldTurn(s) ==
  /\ IsActor(game, s)
  /\ \E g \in Fold(game, s) : SettlesTo(g)
  /\ UNCHANGED <<hands, churn>>

RaiseTurn(s, raiseBy) ==
  /\ IsActor(game, s)
  /\ CanRaise(game, s)
  /\ raiseBy >= game.minimumRaiseBy
  /\ ToCall(game, s) + raiseBy <= game.stack[s]
  /\ \E g \in Raise(game, s, raiseBy) : SettlesTo(g)
  /\ UNCHANGED <<hands, churn>>

AllInTurn(s) ==
  /\ IsActor(game, s)
  /\ CanAllIn(game, s)
  /\ \E g \in AllIn(game, s) : SettlesTo(g)
  /\ UNCHANGED <<hands, churn>>

ActionDue == InHand(game) /\ IsActor(game, game.actor)

\* the action timer of the current actor fires
ActionTimeout ==
  /\ ActionDue
  /\ \E g \in Timeout(game, game.actor) : SettlesTo(g)
  /\ UNCHANGED <<hands, churn>>

(* Commands and events of the room *)

GameStart ==
  /\ hands < MaxHands
  /\ ~InHand(game)
  /\ Cardinality(Available(game)) >= 2
  /\ \E g \in StartHand(game) : SettlesTo(g)
  /\ hands' = hands + 1
  /\ UNCHANGED churn

\* room.leave, room.remove_player, or the end of the disconnection grace period
Leave(s) ==
  /\ s \in game.seated
  /\ \E g \in Withdraw(game, s) : SettlesTo(g)
  /\ SeatChange

Join(s) ==
  /\ s \in Seats \ game.seated
  /\ game' = Sit(game, s)
  /\ UNCHANGED settled
  /\ SeatChange

RefillPoints(s) ==
  /\ s \in game.seated
  /\ ~InHand(game)
  /\ game.stack[s] = 0
  /\ SettlesTo(Refill(game, s))
  /\ SeatChange

SetReady(s, on) ==
  /\ s \in game.seated
  /\ on # (s \in game.ready)
  /\ SettlesTo([game EXCEPT !.ready = IF on THEN @ \cup {s} ELSE @ \ {s}])
  /\ SeatChange

\* PlayerDisconnected and PlayerConnected, which settle nothing
Connection(s, off) ==
  /\ s \in game.seated
  /\ off # (s \in game.disconnected)
  /\ game' = SetDisconnected(game, s, off)
  /\ UNCHANGED settled
  /\ SeatChange

-----------------------------------------------------------------------------
\* Every seat is taken, some players are ready, no hand is in progress, and
\* earlier hands may have moved points between the players.
Table(stack, ready) ==
  [NewGame EXCEPT !.seated = Seats, !.ready = ready, !.stack = stack,
                  !.allocated = [s \in Seats |-> InitialTablePoints]]

Init ==
  /\ \E stack \in OpeningStacks, ready \in SUBSET Seats : game = Table(stack, ready)
  /\ settled = 0
  /\ hands = 0
  /\ churn = 0

Next ==
  \/ \E s \in Seats : CallTurn(s) \/ FoldTurn(s) \/ AllInTurn(s)
  \/ \E s \in Seats, raiseBy \in RaiseSizes : RaiseTurn(s, raiseBy)
  \/ ActionTimeout
  \/ GameStart
  \/ \E s \in Seats : Leave(s) \/ Join(s) \/ RefillPoints(s)
  \/ \E s \in Seats, on \in BOOLEAN : SetReady(s, on) \/ Connection(s, on)

Spec == Init /\ [][Next]_vars

\* A turn whose timer is armed ends, by its timer unless by a command: weak
\* fairness with the enabling condition written out.
TurnEnds == game' # game /\ UNCHANGED <<hands, churn>>

FairSpec == Spec /\ ([]<>~ActionDue \/ []<><<TurnEnds>>_vars)

-----------------------------------------------------------------------------
(* Hands played as the product describes them, by ready and connected      *)
(* players only: no seat that was dealt no cards can act.  The engine does *)
(* not ensure this (see OnlyDealtSeatsOweAction).                          *)

NoBystanders(g) == InHand(g) => CanAct(g) \subseteq g.dealt

TableNext == Next /\ NoBystanders(game')

TableSpec == Init /\ [][TableNext]_vars

-----------------------------------------------------------------------------
(* Safety *)

\* While a hand is played it is somebody's turn, and that player can act:
\* otherwise the turn's timer finds an illegal action, handleTimeout returns
\* without rescheduling it and the hand never ends.  Every player who owes an
\* answer can act, whoever left, folded or went all-in meanwhile.
TurnInv == SomeoneToAct(game)

\* A dealt player who owes no answer has matched the current bet: no path
\* through calls, short all-ins, full raises and departures lets a player see
\* the next street cheaper than the others.
NobodyRidesFree ==
  InHand(game) /\ ~Stuck(game) =>
    \A s \in (CanAct(game) \cap game.dealt) \ game.pending :
      game.streetCommitted[s] = game.currentBet

PointsInPlay(g) == Total(g.stack) + Total(g.handCommitted)

\* Points are neither made nor lost by playing: what the players hold and have
\* committed, and the nets settled to their accounts, add up to what the table
\* allocated, through blinds, side pots, odd points, departures and refills.
PointsConserved ==
  ~Stuck(game) =>
    PointsInPlay(game) + settled = Total(game.allocated)

\* Whoever is at the table, no path through the engine makes points: the
\* players never hold more than was allocated to them.
NoPointsCreated ==
  ~Stuck(game) =>
    PointsInPlay(game) + settled <= Total(game.allocated)

\* At a showdown nobody takes from another player more than he put in himself:
\* a short all-in wins the main pot only.
PayoutsCapped ==
  [][ \A s \in Seats :
        LET committed(t) == game.handCommitted[t]
              + (game.stack[t] - (game'.stack[t] - game'.payouts[t])) IN
        (/\ InHand(game) /\ ~InHand(game')
         /\ game'.seated = game.seated
         /\ Cardinality(RemainingNotFolded(game) \ game'.folded) > 1)
        => game'.payouts[s] <=
             Total([t \in Seats |-> Lesser(committed(t), committed(s))]) ]_vars

\* The players asked to act are those who were dealt cards.
OnlyDealtSeatsOweAction == InHand(game) => game.pending \subseteq game.dealt

\* showdown() always finds a winner for every side pot.
EverySidePotHasAWinner == ~Stuck(game)

(* Liveness *)

\* A hand ends, whatever the players do or leave undone: the timers see to it.
HandsEnd == InHand(game) ~> (~InHand(game) \/ Stuck(game))
=============================================================================
