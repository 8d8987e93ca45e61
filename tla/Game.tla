--------------------------------- MODULE Game ---------------------------------
(***************************************************************************)
(* The hold'em engine of services/server/internal/poker/game.go as         *)
(* operators on a record g, the Game of the code.  The boolean fields of a *)
(* Player are sets of seats, its int64 fields functions on the seats (0 at *)
(* an empty seat), and `dealt' is the set of players with hole cards.      *)
(*                                                                         *)
(* Cards, deck and board are abstracted: what the hands are worth is a     *)
(* ranking chosen at the showdown, so an operation returns the SET of the  *)
(* games it may lead to.  Its error results that leave the game unchanged  *)
(* are guards of the caller (PokerTable).  The one error that leaves a     *)
(* changed game behind is that of showdown(), which returns with the       *)
(* street still "showdown".                                                *)
(***************************************************************************)
EXTENDS Points

CONSTANTS
  N,                   \* number of seats, the room's maxPlayers
  SmallBlind, BigBlind,
  InitialTablePoints   \* what Sit and Refill give: 1000 in the code

ASSUME SeatCountAssumption == N \in Nat /\ N >= 2
ASSUME BlindAssumption ==
  /\ SmallBlind \in Nat /\ BigBlind \in Nat
  /\ 0 < SmallBlind /\ SmallBlind < BigBlind
ASSUME PointsAssumption == InitialTablePoints \in Nat /\ InitialTablePoints > 0

Seats == 0..(N - 1)
None == -1   \* no seat

BettingStreets == {"preflop", "flop", "turn", "river"}
Streets == BettingStreets \cup {"waiting", "showdown", "settled"}

NoPoints == [s \in Seats |-> 0]
NotActed == [s \in Seats |-> -1]   \* a seat that is not a key of actedAtBet

Games ==
  [seated : SUBSET Seats, ready : SUBSET Seats, away : SUBSET Seats,
   disconnected : SUBSET Seats, leaving : SUBSET Seats, dealt : SUBSET Seats,
   folded : SUBSET Seats, allIn : SUBSET Seats, pending : SUBSET Seats,
   stack : [Seats -> Nat], allocated : [Seats -> Nat],
   streetCommitted : [Seats -> Nat], handCommitted : [Seats -> Nat],
   payouts : [Seats -> Nat], actedAtBet : [Seats -> Nat \cup {-1}],
   button : Seats \cup {None}, actor : Seats \cup {None}, street : Streets,
   currentBet : Nat, minimumRaiseBy : Nat]

NewGame ==
  [seated |-> {}, ready |-> {}, away |-> {}, disconnected |-> {},
   leaving |-> {}, dealt |-> {}, folded |-> {}, allIn |-> {}, pending |-> {},
   stack |-> NoPoints, allocated |-> NoPoints, streetCommitted |-> NoPoints,
   handCommitted |-> NoPoints, payouts |-> NoPoints, actedAtBet |-> NotActed,
   button |-> None, actor |-> None, street |-> "waiting",
   currentBet |-> 0, minimumRaiseBy |-> 0]

-----------------------------------------------------------------------------
(* Predicates of the code *)

InHand(g) == g.street \in BettingStreets \cup {"showdown"}

Funded(g) == {s \in g.seated : g.stack[s] > 0}

\* may be dealt into the next hand
Available(g) ==
  (Funded(g) \cap g.ready) \ (g.away \cup g.disconnected \cup g.leaving)

\* may still act; the code does not ask whether the player holds cards
CanAct(g) == Funded(g) \ (g.away \cup g.leaving \cup g.folded \cup g.allIn)

RemainingNotFolded(g) ==
  {s \in g.seated \ (g.folded \cup g.away) :
      g.handCommitted[s] > 0 \/ s \in g.dealt}

ToCall(g, s) == Greater(0, g.currentBet - g.streetCommitted[s])

CanRaise(g, s) ==
  /\ g.stack[s] > ToCall(g, s)
  /\ \/ g.actedAtBet[s] = -1
     \/ g.currentBet - g.actedAtBet[s] >= g.minimumRaiseBy

CanAllIn(g, s) == g.stack[s] <= ToCall(g, s) \/ CanRaise(g, s)

IsActor(g, s) == s = g.actor /\ s \in CanAct(g)

\* a hand that showdown() could not settle
Stuck(g) == g.street = "showdown"

\* while a hand is played, a player who can act has the turn
SomeoneToAct(g) ==
  InHand(g) /\ ~Stuck(g) =>
    /\ g.actor \in g.pending
    /\ g.pending \subseteq CanAct(g)

-----------------------------------------------------------------------------
(* Order around the table *)

\* seats passed on the way from `start' (None starts before seat 0) to s
Distance(start, s) == (s + N - start - 1) % N

NextSeat(start, S) ==
  IF S = {} THEN None
  ELSE CHOOSE s \in S : \A t \in S : Distance(start, s) <= Distance(start, t)

-----------------------------------------------------------------------------
(* Committing and settling points *)

\* (mutation of Commit: the stack does not limit what is paid)
CommitUncapped(g, s, amount) ==
  [g EXCEPT !.stack[s] = @ - amount,
            !.streetCommitted[s] = @ + amount,
            !.handCommitted[s] = @ + amount]

Commit(g, s, amount) ==
  LET paid == Lesser(amount, g.stack[s]) IN
  [g EXCEPT !.stack[s] = @ - paid,
            !.streetCommitted[s] = @ + paid,
            !.handCommitted[s] = @ + paid,
            !.allIn = IF paid = g.stack[s] THEN @ \cup {s} ELSE @]

Pot(g) == Total(g.handCommitted)

FinishHand(g) ==
  [g EXCEPT !.street = "settled", !.actor = None, !.pending = {},
            !.streetCommitted = NoPoints, !.handCommitted = NoPoints,
            !.away = @ \cup (g.seated \ Funded(g))]

\* the first seat that was dealt in and has not folded takes the whole pot;
\* with no such seat the pot is cleared all the same
FinishByFold(g) ==
  LET winner == NextSeat(None, (g.seated \cap g.dealt) \ (g.folded \cup g.away))
  IN  FinishHand(IF winner = None THEN g
                 ELSE [g EXCEPT !.stack[winner] = @ + Pot(g),
                                !.payouts = [NoPoints EXCEPT ![winner] = Pot(g)]])

\* A side pot is named by its level, the commitment it is cut at.
Levels(g) == {g.handCommitted[s] : s \in g.seated} \ {0}

LevelBelow(g, level) ==
  LET lower == {0} \cup {k \in Levels(g) : k < level}
  IN  CHOOSE k \in lower : \A j \in lower : j <= k

Contributors(g, level) == {s \in g.seated : g.handCommitted[s] >= level}

\* (mutation of SidePotAmount: what folded players put in is forgotten)
SidePotWithoutFolded(g, level) ==
  (level - LevelBelow(g, level)) * Cardinality(Contributors(g, level) \ g.folded)

SidePotAmount(g, level) ==
  (level - LevelBelow(g, level)) * Cardinality(Contributors(g, level))

\* (mutation of Eligible: a short all-in competes for every side pot)
EligibleForAll(g, level) == (g.seated \cap g.dealt) \ g.folded

Eligible(g, level) == Contributors(g, level) \ g.folded

\* a pot that showdown() can pay: Evaluate fails on a player without cards
Payable(g, level) == Eligible(g, level) # {} /\ Eligible(g, level) \subseteq g.dealt

\* pots are paid from the lowest level up to the first that fails
PaidLevels(g) ==
  {level \in Levels(g) : \A k \in Levels(g) : k <= level => Payable(g, k)}

Winners(g, level, rank) ==
  {s \in Eligible(g, level) : \A t \in Eligible(g, level) : rank[s] <= rank[t]}

\* (mutation of Share: one odd point too many)
ShareTooMuch(g, level, rank, s) ==
  LET won    == Winners(g, level, rank)
      amount == SidePotAmount(g, level)
      before == {w \in won : Distance(g.button, w) < Distance(g.button, s)}
  IN  IF s \notin won THEN 0
      ELSE amount \div Cardinality(won)
           + (IF Cardinality(before) <= amount % Cardinality(won) THEN 1 ELSE 0)

\* equal shares, the odd points one each to the first winners after the button
Share(g, level, rank, s) ==
  LET won    == Winners(g, level, rank)
      amount == SidePotAmount(g, level)
      before == {w \in won : Distance(g.button, w) < Distance(g.button, s)}
  IN  IF s \notin won THEN 0
      ELSE amount \div Cardinality(won)
           + (IF Cardinality(before) < amount % Cardinality(won) THEN 1 ELSE 0)

\* what the hands still in are worth: a lower rank is better, equal ranks tie
Rankings(g) ==
  LET shown == g.seated \ g.folded IN [shown -> 1..Cardinality(shown)]

ShowdownResult(g, rank) ==
  LET levels == PaidLevels(g)
      amount == [s \in Seats |->
                   Total([level \in levels |-> Share(g, level, rank, s)])]
      paid   == [g EXCEPT !.street = "showdown",
                          !.stack = [s \in Seats |-> @[s] + amount[s]],
                          !.payouts = [s \in Seats |-> @[s] + amount[s]]]
  IN  IF levels = Levels(g) THEN FinishHand(paid) ELSE paid

Showdown(g) == {ShowdownResult(g, rank) : rank \in Rankings(g)}

-----------------------------------------------------------------------------
(* Betting rounds *)

NextStreet == [preflop |-> "flop", flop |-> "turn", turn |-> "river"]

StreetOpened(g) ==
  LET cleared == [g EXCEPT !.street = NextStreet[g.street],
                           !.streetCommitted = NoPoints,
                           !.currentBet = 0,
                           !.minimumRaiseBy = BigBlind,
                           !.actedAtBet = NotActed]
  IN  [cleared EXCEPT !.pending = CanAct(cleared)]

AdvanceStreet(g) ==
  IF g.street = "river" THEN Showdown(g)
  ELSE IF g.street \notin DOMAIN NextStreet THEN {g}
  ELSE LET h == StreetOpened(g) IN
       IF AtMostOne(h.pending) THEN Showdown(h)
       ELSE {[h EXCEPT !.actor = NextSeat(h.button, h.pending)]}

\* (mutation of PendingAfter: a short all-in is not put to those who had answered)
PendingAfterShort(g, s, raised, fullRaise) ==
  IF fullRaise THEN CanAct(g) \ {s} ELSE g.pending \ {s}

\* (mutation of PendingAfter: the player who acted still owes an answer)
PendingAfterKept(g, s, raised, fullRaise) ==
  IF fullRaise THEN CanAct(g) \ {s} ELSE g.pending

\* who owes an answer once seat s has acted
PendingAfter(g, s, raised, fullRaise) ==
  LET others == CanAct(g) \ {s} IN
  IF fullRaise THEN others
  ELSE (g.pending \ {s}) \cup
       (IF raised THEN {t \in others : g.streetCommitted[t] < g.currentBet} ELSE {})

FinishAction(g, s, raised, fullRaise) ==
  LET h == [g EXCEPT !.pending = PendingAfter(g, s, raised, fullRaise) \cap CanAct(g),
                     !.actedAtBet[s] = g.currentBet]
  IN  IF Cardinality(RemainingNotFolded(g)) = 1 THEN {FinishByFold(h)}
      ELSE IF h.pending = {} THEN AdvanceStreet(h)
      ELSE {[h EXCEPT !.actor = NextSeat(s, h.pending)]}

-----------------------------------------------------------------------------
(* The engine's operations; the caller has checked what they refuse *)

\* the table as StartHand leaves it before the blinds
HandCleared(g) ==
  [g EXCEPT !.payouts = NoPoints, !.pending = {}, !.actedAtBet = NotActed,
            !.streetCommitted = NoPoints, !.handCommitted = NoPoints,
            !.folded = {}, !.allIn = {}, !.dealt = Available(g),
            !.away = @ \cup (g.seated \ Funded(g)),
            !.button = NextSeat(g.button, Available(g))]

\* (mutation of AskedFirst: players whose blind is their stack are asked as well)
AskedAll(g) == g.dealt

\* the players who owe an answer once the blinds are posted
AskedFirst(g) == g.dealt \ g.allIn

BlindsPosted(g) ==
  LET small == IF Cardinality(g.dealt) = 2 THEN g.button
               ELSE NextSeat(g.button, g.dealt)
      big   == NextSeat(small, g.dealt)
      h     == Commit(Commit(g, small, SmallBlind), big, BigBlind)
  IN  [h EXCEPT !.currentBet = BigBlind, !.minimumRaiseBy = BigBlind,
                !.street = "preflop", !.pending = AskedFirst(h),
                !.actor = NextSeat(big, AskedFirst(h))]

StartHand(g) ==
  LET h == BlindsPosted(HandCleared(g))
  IN  IF h.actor = None THEN AdvanceStreet(h) ELSE {h}

CheckOrCall(g, s) == FinishAction(Commit(g, s, ToCall(g, s)), s, FALSE, FALSE)

Fold(g, s) == FinishAction([g EXCEPT !.folded = @ \cup {s}], s, FALSE, FALSE)

Raise(g, s, raiseBy) ==
  LET h == Commit(g, s, ToCall(g, s) + raiseBy)
  IN  FinishAction([h EXCEPT !.currentBet = @ + raiseBy, !.minimumRaiseBy = raiseBy],
                   s, TRUE, TRUE)

AllIn(g, s) ==
  LET total     == g.streetCommitted[s] + g.stack[s]
      raiseBy   == Greater(0, total - g.currentBet)
      fullRaise == raiseBy >= g.minimumRaiseBy
      h         == Commit(g, s, g.stack[s])
  IN  FinishAction([h EXCEPT
                      !.currentBet = Greater(@, total),
                      !.minimumRaiseBy = IF raiseBy > 0 /\ fullRaise THEN raiseBy ELSE @],
                   s, raiseBy > 0, fullRaise)

Timeout(g, s) == IF ToCall(g, s) = 0 THEN CheckOrCall(g, s) ELSE Fold(g, s)

Withdraw(g, s) ==
  LET gone     == [g EXCEPT !.leaving = @ \cup {s}, !.disconnected = @ \ {s}]
      out      == [gone EXCEPT !.folded = @ \cup {s}]
      unasked  == [out EXCEPT !.pending = @ \ {s}]
      pruned   == [unasked EXCEPT !.pending = @ \cap CanAct(unasked)]
  IN  IF ~InHand(g) THEN {[gone EXCEPT !.away = @ \cup {s}]}
      ELSE IF s \in g.allIn THEN {gone}
      ELSE IF s = g.actor THEN FinishAction(out, s, FALSE, FALSE)
      ELSE IF Cardinality(RemainingNotFolded(unasked)) = 1 THEN {FinishByFold(unasked)}
      ELSE IF pruned.pending = {} THEN AdvanceStreet(pruned)
      ELSE {pruned}

Sit(g, s) ==
  [g EXCEPT !.seated = @ \cup {s}, !.stack[s] = InitialTablePoints,
            !.allocated[s] = InitialTablePoints]

Refill(g, s) ==
  [g EXCEPT !.stack[s] = @ + InitialTablePoints,
            !.allocated[s] = @ + InitialTablePoints,
            !.away = @ \ {s}]

SetDisconnected(g, s, off) ==
  [g EXCEPT !.disconnected = IF off THEN @ \cup {s} ELSE @ \ {s}]

\* RemoveSeat of every seat of S
RemoveSeats(g, S) ==
  LET left(f) == [s \in Seats |-> IF s \in S THEN 0 ELSE f[s]] IN
  [g EXCEPT !.seated = @ \ S, !.ready = @ \ S, !.away = @ \ S,
            !.disconnected = @ \ S, !.leaving = @ \ S, !.dealt = @ \ S,
            !.folded = @ \ S, !.allIn = @ \ S,
            !.stack = left(@), !.allocated = left(@)]
=============================================================================
