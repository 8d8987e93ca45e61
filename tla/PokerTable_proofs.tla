-------------------------- MODULE PokerTable_proofs --------------------------
(***************************************************************************)
(* Proved for any number of seats, any blinds, buy-in and raise sizes, and *)
(* with players who sit down, leave, disconnect or were never dealt in:    *)
(* the table is well typed, while a hand is played somebody who can act    *)
(* has the turn, who owes no answer has matched the bet, no points are     *)
(* created, and nobody wins more of another's points than he put in        *)
(* himself.  No points are lost either while only players who were dealt   *)
(* cards act (TableSpec).                                                  *)
(***************************************************************************)
EXTENDS PokerTable, Points_proofs

-----------------------------------------------------------------------------
(* What the operations of the engine return: a game of the right type, in  *)
(* which somebody who can act has the turn.                                *)

(* The table has finitely many seats.                                      *)
LEMMA SeatsFinite == IsFiniteSet(Seats)
BY SeatCountAssumption, FS_Interval DEF Seats

(* Seats are a number of steps apart, also counted from before seat 0.     *)
LEMMA DistanceType ==
  ASSUME NEW start \in Seats \cup {None}, NEW s \in Seats
  PROVE  Distance(start, s) \in Nat
BY SeatCountAssumption DEF Seats, None, Distance

(* nextSeat finds a seat of every nonempty set, wherever it starts.          *)
LEMMA NextSeatMember ==
  ASSUME NEW start \in Seats \cup {None}, NEW S \in SUBSET Seats, S # {}
  PROVE  NextSeat(start, S) \in S
<1> DEFINE d == [s \in S |-> Distance(start, s)]
<1>1. \A s \in S : d[s] \in Nat
  BY DistanceType
<1>2. PICK s \in S : \A t \in S : d[s] <= d[t]
  <2> HIDE DEF d
  <2> QED  BY <1>1, LeastValue
<1> QED  BY <1>2 DEF NextSeat

(* nextSeat returns a seat of the set or, when it is empty, none.          *)
LEMMA NextSeatType ==
  ASSUME NEW start \in Seats \cup {None}, NEW S \in SUBSET Seats
  PROVE  NextSeat(start, S) \in S \cup {None}
BY NextSeatMember DEF NextSeat

(* Only seats can act.                                                     *)
LEMMA CanActType == ASSUME NEW g \in Games PROVE CanAct(g) \in SUBSET Seats
BY DEF Games, CanAct, Funded

-----------------------------------------------------------------------------
(* Types *)

(* commit never makes a stack negative: it pays at most what is there.     *)
LEMMA CommitType ==
  ASSUME NEW g \in Games, NEW s \in Seats, NEW amount \in Nat
  PROVE  Commit(g, s, amount) \in Games
<1> DEFINE paid == Lesser(amount, g.stack[s])
           st == [g.stack EXCEPT ![s] = @ - paid]
           sc == [g.streetCommitted EXCEPT ![s] = @ + paid]
           hc == [g.handCommitted EXCEPT ![s] = @ + paid]
           al == IF paid = g.stack[s] THEN g.allIn \cup {s} ELSE g.allIn
<1>1. paid \in Nat /\ paid <= g.stack[s]
  BY DEF Games, Lesser
<1>2. /\ st \in [Seats -> Nat] /\ sc \in [Seats -> Nat]
      /\ hc \in [Seats -> Nat] /\ al \in SUBSET Seats
  BY <1>1 DEF Games
<1>3. Commit(g, s, amount) = [g EXCEPT !.stack = st, !.streetCommitted = sc,
                                       !.handCommitted = hc, !.allIn = al]
  BY DEF Commit, Games
<1> HIDE DEF st, sc, hc, al
<1>4. [g EXCEPT !.stack = st, !.streetCommitted = sc, !.handCommitted = hc,
                !.allIn = al] \in Games
  BY <1>2 DEF Games
<1> QED  BY <1>3, <1>4

(* finishHand returns a well typed game.                                   *)
LEMMA FinishHandType ==
  ASSUME NEW g \in Games
  PROVE  FinishHand(g) \in Games
BY DEF Games, FinishHand, Funded, NoPoints, Streets

(* The pot is a number of points.                                          *)
LEMMA PotType == ASSUME NEW g \in Games PROVE Pot(g) \in Nat
<1>1. g.handCommitted \in [Seats -> Nat]
  BY DEF Games
<1> QED  BY <1>1, SeatsFinite, TotalType DEF Pot

(* Paying the pot to the last player leaves a well typed game.             *)
LEMMA FinishByFoldType ==
  ASSUME NEW g \in Games
  PROVE  FinishByFold(g) \in Games
<1> DEFINE W == (g.seated \cap g.dealt) \ (g.folded \cup g.away)
           w == NextSeat(None, W)
           st == [g.stack EXCEPT ![w] = @ + Pot(g)]
           po == [NoPoints EXCEPT ![w] = Pot(g)]
<1>1. W \in SUBSET Seats
  BY DEF Games
<1>2. w \in W \cup {None}
  BY <1>1, NextSeatType
<1>3. CASE w = None
  BY <1>3, FinishHandType DEF FinishByFold
<1>4. CASE w # None
  <2>1. w \in Seats
    BY <1>1, <1>2, <1>4
  <2>2. st \in [Seats -> Nat] /\ po \in [Seats -> Nat]
    BY <2>1, PotType DEF Games, NoPoints
  <2>3. FinishByFold(g) = FinishHand([g EXCEPT !.stack = st, !.payouts = po])
    BY <1>4 DEF FinishByFold, Games
  <2> HIDE DEF st, po
  <2>4. [g EXCEPT !.stack = st, !.payouts = po] \in Games
    BY <2>2 DEF Games
  <2> QED  BY <2>3, <2>4, FinishHandType
<1> QED  BY <1>3, <1>4

(* Side pots are cut at positive commitments.                              *)
LEMMA LevelType == ASSUME NEW g \in Games PROVE Levels(g) \in SUBSET (Nat \ {0})
BY DEF Games, Levels

(* There are finitely many side pots.                                      *)
LEMMA LevelsFinite == ASSUME NEW g \in Games PROVE IsFiniteSet(Levels(g))
<1> DEFINE V == {g.handCommitted[s] : s \in g.seated}
           f == [s \in g.seated |-> g.handCommitted[s]]
<1>1. IsFiniteSet(g.seated)
  BY SeatsFinite, FS_Subset DEF Games
<1>2. f \in Surjection(g.seated, V)
  BY DEF Surjection
<1>3. IsFiniteSet(V)
  BY <1>1, <1>2, FS_Surjection
<1> QED  BY <1>3, FS_Subset DEF Levels

(* The level below a side pot's own level exists and is smaller.             *)
LEMMA LevelBelowType ==
  ASSUME NEW g \in Games, NEW level \in Levels(g)
  PROVE  LevelBelow(g, level) \in Nat /\ LevelBelow(g, level) < level
<1> DEFINE lower == {0} \cup {k \in Levels(g) : k < level}
           gap == [k \in lower |-> level - k]
<1>1. level \in Nat /\ 0 < level /\ lower \subseteq Nat /\ \A k \in lower : k < level
  BY LevelType
<1>2. \A k \in lower : gap[k] \in Nat
  BY <1>1
<1>3. PICK k \in lower : \A j \in lower : gap[k] <= gap[j]
  <2> HIDE DEF lower, gap
  <2>1. lower # {}
    BY DEF lower
  <2> QED  BY <1>2, <2>1, LeastValue
<1>4. \A j \in lower : j <= k
  <2> TAKE j \in lower
  <2>1. j \in Nat /\ k \in Nat /\ gap[j] = level - j /\ gap[k] = level - k
    BY <1>1
  <2>2. gap[k] <= gap[j]
    BY <1>3
  <2> HIDE DEF gap
  <2> QED  BY <1>1, <2>1, <2>2
<1>5. LevelBelow(g, level) \in lower
  BY <1>4 DEF LevelBelow
<1> QED  BY <1>1, <1>5

(* A side pot is a number of points, never a negative one.                 *)
LEMMA SidePotAmountType ==
  ASSUME NEW g \in Games, NEW level \in Levels(g)
  PROVE  SidePotAmount(g, level) \in Nat
<1>1. Contributors(g, level) \in SUBSET Seats
  BY DEF Games, Contributors
<1>2. Cardinality(Contributors(g, level)) \in Nat
  BY <1>1, SeatsFinite, FS_Subset, FS_CardinalityType
<1>3. level - LevelBelow(g, level) \in Nat
  BY LevelBelowType, LevelType
<1>4. \A a, b \in Nat : a * b \in Nat
  OBVIOUS
<1> QED  BY <1>2, <1>3, <1>4 DEF SidePotAmount

(* Every winner of a side pot is paid a number of points.                  *)
LEMMA ShareType ==
  ASSUME NEW g \in Games, NEW level \in Levels(g), NEW rank, NEW s \in Seats
  PROVE  Share(g, level, rank, s) \in Nat
<1> DEFINE won == Winners(g, level, rank)
           before == {w \in won : Distance(g.button, w) < Distance(g.button, s)}
<1>1. won \in SUBSET Seats
  BY DEF Games, Winners, Eligible, Contributors
<1>2. IsFiniteSet(won) /\ Cardinality(won) \in Nat
  BY <1>1, SeatsFinite, FS_Subset, FS_CardinalityType
<1>3. CASE s \notin won
  BY <1>3 DEF Share
<1>4. CASE s \in won
  <2>1. Cardinality(won) \in Nat \ {0}
    BY <1>2, <1>4, FS_EmptySet
  <2>2. \A a \in Nat, b \in Nat \ {0} : a \div b \in Nat
    OBVIOUS
  <2>3. SidePotAmount(g, level) \div Cardinality(won) \in Nat
    BY <2>1, <2>2, SidePotAmountType
  <2> DEFINE odd == IF Cardinality(before) < SidePotAmount(g, level) % Cardinality(won)
                    THEN 1 ELSE 0
  <2>4. odd \in Nat
    OBVIOUS
  <2>5. Share(g, level, rank, s)
        = SidePotAmount(g, level) \div Cardinality(won) + odd
    BY <1>4 DEF Share
  <2> HIDE DEF won, odd
  <2> QED  BY <2>3, <2>4, <2>5
<1> QED  BY <1>3, <1>4

(* showdown leaves a well typed game that is settled, or stuck.            *)
LEMMA ShowdownResultType ==
  ASSUME NEW g \in Games, NEW rank
  PROVE  /\ ShowdownResult(g, rank) \in Games
         /\ ShowdownResult(g, rank).street \in {"showdown", "settled"}
<1> DEFINE levels == PaidLevels(g)
           amount == [s \in Seats |->
                        Total([level \in levels |-> Share(g, level, rank, s)])]
           st == [s \in Seats |-> g.stack[s] + amount[s]]
           po == [s \in Seats |-> g.payouts[s] + amount[s]]
           paid == [g EXCEPT !.street = "showdown", !.stack = st, !.payouts = po]
<1>1. levels \subseteq Levels(g) /\ IsFiniteSet(levels)
  BY LevelsFinite, FS_Subset DEF PaidLevels
<1>2. ASSUME NEW s \in Seats
      PROVE  Total([level \in levels |-> Share(g, level, rank, s)]) \in Nat
  <2>1. [level \in levels |-> Share(g, level, rank, s)] \in [levels -> Nat]
    BY <1>1, ShareType
  <2> HIDE DEF levels
  <2> QED  BY <1>1, <2>1, TotalType
<1>3. amount \in [Seats -> Nat]
  BY <1>2
<1>4. st \in [Seats -> Nat] /\ po \in [Seats -> Nat]
  <2> HIDE DEF amount
  <2> QED  BY <1>3 DEF Games
<1>5. ShowdownResult(g, rank) = IF levels = Levels(g) THEN FinishHand(paid) ELSE paid
  BY DEF ShowdownResult, Games
<1>6. paid \in Games /\ paid.street = "showdown"
  <2> HIDE DEF st, po
  <2> QED  BY <1>4 DEF Games, Streets
<1>7. FinishHand(paid) \in Games
  BY <1>6, FinishHandType
<1>8. FinishHand(paid).street = "settled"
  BY <1>6 DEF FinishHand, Games
<1> HIDE DEF paid, levels
<1> QED  BY <1>5, <1>6, <1>7, <1>8

-----------------------------------------------------------------------------
(* The turn.  GoodGame is what every operation returns.                      *)

GoodGame(g) == g \in Games /\ SomeoneToAct(g)

(* With no betting under way there is no turn to hold.                     *)
LEMMA SettledIsGood ==
  ASSUME NEW g \in Games, g.street \in {"showdown", "settled", "waiting"}
  PROVE  GoodGame(g)
BY DEF GoodGame, SomeoneToAct, InHand, Stuck, BettingStreets

(* finishByFold settles the hand.                                          *)
LEMMA FinishByFoldGood ==
  ASSUME NEW g \in Games
  PROVE  GoodGame(FinishByFold(g))
<1>1. FinishByFold(g).street = "settled"
  <2> DEFINE w == NextSeat(None, (g.seated \cap g.dealt) \ (g.folded \cup g.away))
             h == IF w = None THEN g
                  ELSE [g EXCEPT !.stack[w] = @ + Pot(g),
                                 !.payouts = [NoPoints EXCEPT ![w] = Pot(g)]]
  <2>1. FinishByFold(g) = FinishHand(h)
    BY DEF FinishByFold
  <2>2. "street" \in DOMAIN h
    BY DEF Games
  <2> HIDE DEF h
  <2> QED  BY <2>1, <2>2 DEF FinishHand
<1> QED  BY <1>1, FinishByFoldType, SettledIsGood

(* A new street asks every player who can act.                               *)
LEMMA StreetOpenedType ==
  ASSUME NEW g \in Games, g.street \in DOMAIN NextStreet
  PROVE  /\ StreetOpened(g) \in Games
         /\ StreetOpened(g).pending = CanAct(StreetOpened(g))
<1> DEFINE h == [g EXCEPT !.street = NextStreet[g.street],
                          !.streetCommitted = NoPoints, !.currentBet = 0,
                          !.minimumRaiseBy = BigBlind, !.actedAtBet = NotActed]
<1>1. NextStreet[g.street] \in Streets
  BY DEF NextStreet, Streets, BettingStreets
<1>2. /\ NoPoints \in [Seats -> Nat] /\ NotActed \in [Seats -> Nat \cup {-1}]
      /\ BigBlind \in Nat
  BY BlindAssumption DEF NoPoints, NotActed
<1>3. h \in Games
  BY <1>1, <1>2 DEF Games
<1>4. StreetOpened(g) = [h EXCEPT !.pending = CanAct(h)]
  BY DEF StreetOpened
<1> HIDE DEF h
<1>5. [h EXCEPT !.pending = CanAct(h)] \in Games
  BY <1>3, CanActType DEF Games
<1>6. CanAct([h EXCEPT !.pending = CanAct(h)]) = CanAct(h)
  BY <1>3 DEF CanAct, Funded, Games
<1>7. [h EXCEPT !.pending = CanAct(h)].pending = CanAct(h)
  BY <1>3 DEF Games
<1> QED  BY <1>4, <1>5, <1>6, <1>7

(* Giving the turn to a pending seat that can act makes a good game.       *)
LEMMA GiveTurnGood ==
  ASSUME NEW g \in Games, g.pending # {}, g.pending \subseteq CanAct(g),
         NEW start \in Seats \cup {None}
  PROVE  GoodGame([g EXCEPT !.actor = NextSeat(start, g.pending)])
<1> DEFINE a == NextSeat(start, g.pending)
           h == [g EXCEPT !.actor = a]
<1>1. a \in g.pending /\ a \in Seats
  BY NextSeatMember DEF Games
<1> HIDE DEF a
<1>2. h \in Games
  BY <1>1 DEF Games
<1>3. CanAct(h) = CanAct(g) /\ h.pending = g.pending /\ h.actor = a
  BY DEF CanAct, Funded, Games
<1> HIDE DEF h
<1> QED  BY <1>1, <1>2, <1>3 DEF GoodGame, SomeoneToAct, a, h

(* A showdown leaves a good game, whatever the cards are worth.            *)
LEMMA ShowdownGood ==
  ASSUME NEW g \in Games, NEW h \in Showdown(g)
  PROVE  GoodGame(h)
BY ShowdownResultType, SettledIsGood DEF Showdown

(* advanceStreet leaves a player to act, ends the hand or leaves it stuck. *)
LEMMA AdvanceStreetGood ==
  ASSUME NEW g \in Games, NEW h \in AdvanceStreet(g)
  PROVE  GoodGame(h)
<1>1. CASE g.street = "river"
  BY <1>1, ShowdownGood DEF AdvanceStreet
<1>2. CASE g.street # "river" /\ g.street \notin DOMAIN NextStreet
  <2>1. h = g
    BY <1>2 DEF AdvanceStreet
  <2>2. g.street \in {"showdown", "settled", "waiting"}
    BY <1>2 DEF Games, Streets, BettingStreets, NextStreet
  <2> QED  BY <2>1, <2>2, SettledIsGood
<1>3. CASE g.street \in DOMAIN NextStreet
  <2> DEFINE o == StreetOpened(g)
  <2>1. o \in Games /\ o.pending = CanAct(o)
    BY <1>3, StreetOpenedType
  <2>2. g.street # "river"
    BY <1>3 DEF NextStreet
  <2>3. CASE AtMostOne(o.pending)
    BY <1>3, <2>1, <2>2, <2>3, ShowdownGood DEF AdvanceStreet
  <2>4. CASE ~AtMostOne(o.pending)
    <3>1. h = [o EXCEPT !.actor = NextSeat(o.button, o.pending)]
      BY <1>3, <2>2, <2>4 DEF AdvanceStreet
    <3>2. o.pending # {}
      BY <2>4 DEF AtMostOne
    <3>3. o.button \in Seats \cup {None}
      BY <2>1 DEF Games
    <3> HIDE DEF o
    <3> QED  BY <2>1, <3>1, <3>2, <3>3, GiveTurnGood
  <2> QED  BY <2>3, <2>4
<1> QED  BY <1>1, <1>2, <1>3

(* Whatever led to it, the end of a turn leaves a player to act, ends the    *)
(* hand or leaves it stuck.                                                  *)
LEMMA FinishActionGood ==
  ASSUME NEW g \in Games, NEW s \in Seats, NEW raised, NEW fullRaise,
         NEW r \in FinishAction(g, s, raised, fullRaise)
  PROVE  GoodGame(r)
<1> DEFINE asked == PendingAfter(g, s, raised, fullRaise) \cap CanAct(g)
           acted == [g.actedAtBet EXCEPT ![s] = g.currentBet]
           h == [g EXCEPT !.pending = asked, !.actedAtBet = acted]
<1>1. asked \in SUBSET CanAct(g) /\ asked \in SUBSET Seats
  BY CanActType
<1>2. acted \in [Seats -> Nat \cup {-1}]
  BY DEF Games
<1>3. r \in (IF Cardinality(RemainingNotFolded(g)) = 1 THEN {FinishByFold(h)}
             ELSE IF h.pending = {} THEN AdvanceStreet(h)
             ELSE {[h EXCEPT !.actor = NextSeat(s, h.pending)]})
  BY DEF FinishAction, Games
<1> HIDE DEF asked, acted
<1>4. h \in Games /\ h.pending = asked /\ CanAct(h) = CanAct(g)
  BY <1>1, <1>2 DEF Games, CanAct, Funded
<1> HIDE DEF h
<1>5. CASE r = FinishByFold(h)
  BY <1>4, <1>5, FinishByFoldGood
<1>6. CASE r \in AdvanceStreet(h)
  BY <1>4, <1>6, AdvanceStreetGood
<1>7. CASE h.pending # {} /\ r = [h EXCEPT !.actor = NextSeat(s, h.pending)]
  BY <1>1, <1>4, <1>7, GiveTurnGood
<1> QED  BY <1>3, <1>5, <1>6, <1>7

-----------------------------------------------------------------------------
(* The operations *)

(* Committing points leaves a player with none only by putting him all-in.   *)
LEMMA CommitKeepsFunds ==
  ASSUME NEW g \in Games, NEW s \in Seats, NEW amount \in Nat
  PROVE  LET h == Commit(g, s, amount) IN
         /\ \A t \in Seats : g.stack[t] > 0 /\ t \notin h.allIn => h.stack[t] > 0
         /\ g.allIn \subseteq h.allIn
         /\ h.seated = g.seated /\ h.away = g.away /\ h.leaving = g.leaving
         /\ h.folded = g.folded /\ h.dealt = g.dealt
BY DEF Commit, Lesser, Games

(* What a player has to call is never negative.                            *)
LEMMA ToCallType ==
  ASSUME NEW g \in Games, NEW s \in Seats
  PROVE  ToCall(g, s) \in Nat
BY DEF Games, ToCall, Greater

(* StartHand deals in only players who can act.                            *)
LEMMA HandClearedGood ==
  ASSUME NEW g \in Games
  PROVE  LET h == HandCleared(g) IN
         /\ h \in Games
         /\ h.dealt = Available(g)
         /\ h.dealt \subseteq CanAct(h)
         /\ h.dealt # {} => h.button \in Seats
<1> DEFINE up == Available(g)
           broke == g.away \cup (g.seated \ Funded(g))
           b == NextSeat(g.button, up)
           h == [g EXCEPT !.payouts = NoPoints, !.pending = {}, !.actedAtBet = NotActed,
                          !.streetCommitted = NoPoints, !.handCommitted = NoPoints,
                          !.folded = {}, !.allIn = {}, !.dealt = up,
                          !.away = broke, !.button = b]
<1>1. up \in SUBSET Seats /\ broke \in SUBSET Seats /\ up \cap broke = {}
  BY DEF Games, Available, Funded
<1>2. b \in Seats \cup {None}
  BY <1>1, NextSeatType DEF Games
<1>3. NoPoints \in [Seats -> Nat] /\ NotActed \in [Seats -> Nat \cup {-1}]
  BY DEF NoPoints, NotActed
<1>4. HandCleared(g) = h
  BY DEF HandCleared, Games
<1>5. up \subseteq Funded(g) /\ up \cap g.leaving = {}
  BY DEF Available
<1>6. up # {} => b \in Seats
  BY <1>1, NextSeatMember DEF Games
<1> HIDE DEF up, broke, b
<1>7. h \in Games
  BY <1>1, <1>2, <1>3 DEF Games
<1>8. h.dealt = up /\ h.button = b /\ up \subseteq CanAct(h)
  BY <1>1, <1>5 DEF Games, CanAct, Funded
<1> QED  BY <1>4, <1>7, <1>8, <1>6 DEF up

(* The blinds are posted from nonempty seats, and whoever is asked to act    *)
(* still has points.                                                         *)
LEMMA BlindsPostedGood ==
  ASSUME NEW g \in Games, g.dealt # {}, g.dealt \subseteq CanAct(g), g.button \in Seats
  PROVE  LET h == BlindsPosted(g) IN
         /\ h \in Games
         /\ h.actor # None => GoodGame(h)
<1> DEFINE small == IF Cardinality(g.dealt) = 2 THEN g.button
                    ELSE NextSeat(g.button, g.dealt)
           big == NextSeat(small, g.dealt)
           c1 == Commit(g, small, SmallBlind)
           c2 == Commit(c1, big, BigBlind)
           open == AskedFirst(c2)
           a == NextSeat(big, open)
           h == [c2 EXCEPT !.currentBet = BigBlind, !.minimumRaiseBy = BigBlind,
                           !.street = "preflop", !.pending = open, !.actor = a]
<1>1. g.dealt \in SUBSET Seats
  BY DEF Games
<1>2. small \in Seats
  BY <1>1, NextSeatMember
<1>3. big \in Seats
  BY <1>1, <1>2, NextSeatMember
<1> HIDE DEF small, big
<1>4. c1 \in Games
  BY <1>2, CommitType, BlindAssumption
<1>5. c2 \in Games
  BY <1>3, <1>4, CommitType, BlindAssumption
<1>6. /\ \A t \in Seats : g.stack[t] > 0 /\ t \notin c1.allIn => c1.stack[t] > 0
      /\ c1.seated = g.seated /\ c1.away = g.away /\ c1.leaving = g.leaving
      /\ c1.folded = g.folded /\ c1.dealt = g.dealt
  BY <1>2, CommitKeepsFunds, BlindAssumption
<1> HIDE DEF c1
<1>7. /\ \A t \in Seats : c1.stack[t] > 0 /\ t \notin c2.allIn => c2.stack[t] > 0
      /\ c1.allIn \subseteq c2.allIn
      /\ c2.seated = c1.seated /\ c2.away = c1.away /\ c2.leaving = c1.leaving
      /\ c2.folded = c1.folded /\ c2.dealt = c1.dealt
  BY <1>3, <1>4, CommitKeepsFunds, BlindAssumption
<1> HIDE DEF c2
<1>8. open = g.dealt \ c2.allIn
  BY <1>6, <1>7 DEF AskedFirst
<1>9. open \in SUBSET Seats /\ a \in open \cup {None} /\ a \in Seats \cup {None}
  BY <1>1, <1>3, <1>8, NextSeatType
<1>10. open \subseteq CanAct(c2)
  BY <1>1, <1>6, <1>7, <1>8 DEF CanAct, Funded, Games
<1>11. BlindsPosted(g) = h
  BY DEF BlindsPosted, c1, c2, small, big
<1> HIDE DEF open, a
<1>12. h \in Games /\ h.pending = open /\ h.actor = a
  BY <1>5, <1>9, BlindAssumption DEF Games, Streets, BettingStreets
<1>13. CanAct(h) = CanAct(c2)
  BY <1>5 DEF CanAct, Funded, Games
<1> HIDE DEF h
<1>14. a # None => GoodGame(h)
  BY <1>9, <1>10, <1>12, <1>13 DEF GoodGame, SomeoneToAct
<1> QED  BY <1>11, <1>12, <1>14

(* A started hand has a player to act, or is run out at once.              *)
LEMMA StartHandGood ==
  ASSUME NEW g \in Games, Cardinality(Available(g)) >= 2, NEW r \in StartHand(g)
  PROVE  GoodGame(r)
<1> DEFINE c == HandCleared(g)
           h == BlindsPosted(c)
<1>1. Available(g) # {}
  BY FS_EmptySet
<1>2. c \in Games /\ c.dealt # {} /\ c.dealt \subseteq CanAct(c) /\ c.button \in Seats
  BY <1>1, HandClearedGood
<1> HIDE DEF c
<1>3. h \in Games /\ (h.actor # None => GoodGame(h))
  BY <1>2, BlindsPostedGood
<1>4. r \in IF h.actor = None THEN AdvanceStreet(h) ELSE {h}
  BY DEF StartHand, c
<1> HIDE DEF h
<1> QED  BY <1>3, <1>4, AdvanceStreetGood

(* A check or a call passes the turn or ends the hand.                     *)
LEMMA CheckOrCallGood ==
  ASSUME NEW g \in Games, NEW s \in Seats, NEW r \in CheckOrCall(g, s)
  PROVE  GoodGame(r)
BY CommitType, ToCallType, FinishActionGood DEF CheckOrCall

(* A fold passes the turn or ends the hand.                                *)
LEMMA FoldGood ==
  ASSUME NEW g \in Games, NEW s \in Seats, NEW r \in Fold(g, s)
  PROVE  GoodGame(r)
<1>1. [g EXCEPT !.folded = @ \cup {s}] \in Games
  BY DEF Games
<1> QED  BY <1>1, FinishActionGood DEF Fold

(* A raise passes the turn or ends the hand.                               *)
LEMMA RaiseGood ==
  ASSUME NEW g \in Games, NEW s \in Seats, NEW raiseBy \in Nat, NEW r \in Raise(g, s, raiseBy)
  PROVE  GoodGame(r)
<1> DEFINE c == Commit(g, s, ToCall(g, s) + raiseBy)
           bet == c.currentBet + raiseBy
           h == [c EXCEPT !.currentBet = bet, !.minimumRaiseBy = raiseBy]
<1>1. ToCall(g, s) + raiseBy \in Nat
  BY ToCallType
<1>2. c \in Games
  BY <1>1, CommitType
<1>3. r \in FinishAction(h, s, TRUE, TRUE)
  BY <1>2 DEF Raise, Games
<1> HIDE DEF c
<1>4. bet \in Nat
  BY <1>2 DEF Games
<1> HIDE DEF bet
<1>5. h \in Games
  BY <1>2, <1>4 DEF Games
<1> QED  BY <1>3, <1>5, FinishActionGood

(* An all-in, short or a raise, passes the turn or ends the hand.          *)
LEMMA AllInGood ==
  ASSUME NEW g \in Games, NEW s \in Seats, NEW r \in AllIn(g, s)
  PROVE  GoodGame(r)
<1> DEFINE total == g.streetCommitted[s] + g.stack[s]
           raiseBy == Greater(0, total - g.currentBet)
           fullRaise == raiseBy >= g.minimumRaiseBy
           c == Commit(g, s, g.stack[s])
           bet == Greater(c.currentBet, total)
           least == IF raiseBy > 0 /\ fullRaise THEN raiseBy ELSE c.minimumRaiseBy
           h == [c EXCEPT !.currentBet = bet, !.minimumRaiseBy = least]
<1>1. total \in Nat /\ g.stack[s] \in Nat /\ g.currentBet \in Nat
  BY DEF Games
<1>2. c \in Games
  BY <1>1, CommitType
<1> HIDE DEF c
<1>3. raiseBy \in Nat
  BY <1>1 DEF Greater
<1>4. bet \in Nat /\ least \in Nat
  BY <1>1, <1>2, <1>3 DEF Games, Greater
<1>5. r \in FinishAction(h, s, raiseBy > 0, fullRaise)
  BY DEF AllIn, c
<1> HIDE DEF bet, least
<1>6. h \in Games
  BY <1>2, <1>4 DEF Games
<1> QED  BY <1>5, <1>6, FinishActionGood

(* The action timer passes the turn or ends the hand.                      *)
LEMMA TimeoutGood ==
  ASSUME NEW g \in Games, NEW s \in Seats, NEW r \in Timeout(g, s)
  PROVE  GoodGame(r)
BY CheckOrCallGood, FoldGood DEF Timeout

(* A departure in the middle of a hand never takes the turn from whoever has *)
(* it without giving it to another.                                          *)
LEMMA WithdrawGood ==
  ASSUME NEW g \in Games, GoodGame(g), NEW s \in Seats, NEW r \in Withdraw(g, s)
  PROVE  GoodGame(r)
<1> DEFINE gone == [g EXCEPT !.leaving = @ \cup {s}, !.disconnected = @ \ {s}]
           out == [gone EXCEPT !.folded = @ \cup {s}]
           unasked == [out EXCEPT !.pending = @ \ {s}]
           pruned == [unasked EXCEPT !.pending = @ \cap CanAct(unasked)]
<1>1. gone \in Games /\ out \in Games /\ unasked \in Games /\ gone.street = g.street
  BY DEF Games
<1>2. CanAct(gone) = CanAct(g) \ {s} /\ CanAct(unasked) = CanAct(g) \ {s}
  BY DEF Games, CanAct, Funded
<1>3. pruned \in Games /\ CanAct(pruned) = CanAct(g) \ {s}
  <2> HIDE DEF unasked
  <2>1. pruned \in Games
    BY <1>1, ZenonT(60) DEF Games
  <2>2. CanAct(pruned) = CanAct(unasked)
    BY <1>1 DEF Games, CanAct, Funded
  <2> QED  BY <1>2, <2>1, <2>2
<1>4. CASE ~InHand(g)
  <2>1. r = [gone EXCEPT !.away = @ \cup {s}]
    BY <1>4 DEF Withdraw
  <2> HIDE DEF gone
  <2>2. r \in Games /\ r.street = g.street
    BY <1>1, <2>1, ZenonT(60) DEF Games
  <2> QED  BY <1>4, <2>2 DEF GoodGame, SomeoneToAct, InHand
<1>5. CASE InHand(g) /\ s \in g.allIn
  <2>1. r = gone
    BY <1>5 DEF Withdraw
  <2>2. s \notin CanAct(g)
    BY <1>5 DEF CanAct
  <2>3. gone.street = g.street /\ gone.actor = g.actor /\ gone.pending = g.pending
    BY DEF Games
  <2> QED  BY <1>1, <1>2, <2>1, <2>2, <2>3 DEF GoodGame, SomeoneToAct, InHand, Stuck
<1>6. CASE InHand(g) /\ s \notin g.allIn /\ s = g.actor
  <2>1. r \in FinishAction(out, s, FALSE, FALSE)
    BY <1>6 DEF Withdraw
  <2> QED  BY <1>1, <2>1, FinishActionGood
<1>7. CASE InHand(g) /\ s \notin g.allIn /\ s # g.actor
  <2>1. \/ r = FinishByFold(unasked)
        \/ r \in AdvanceStreet(pruned)
        \/ r = pruned
    BY <1>7 DEF Withdraw
  <2>2. CASE r = pruned
    <3>1. /\ pruned.street = g.street /\ pruned.actor = g.actor
          /\ pruned.pending = (g.pending \ {s}) \cap CanAct(unasked)
      BY DEF Games
    <3> QED  BY <1>2, <1>3, <1>7, <2>2, <3>1 DEF GoodGame, SomeoneToAct, InHand, Stuck
  <2> HIDE DEF unasked, pruned
  <2> QED  BY <1>1, <1>3, <2>1, <2>2, FinishByFoldGood, AdvanceStreetGood
<1> QED  BY <1>4, <1>5, <1>6, <1>7

(* A player who sits down during a hand changes nobody's turn.               *)
LEMMA SitGood ==
  ASSUME NEW g \in Games, GoodGame(g), NEW s \in Seats \ g.seated
  PROVE  GoodGame(Sit(g, s))
<1>1. Sit(g, s) \in Games
  BY PointsAssumption DEF Games, Sit
<1>2. CanAct(g) \subseteq CanAct(Sit(g, s))
  BY DEF CanAct, Funded, Sit, Games
<1>3. /\ Sit(g, s).street = g.street /\ Sit(g, s).actor = g.actor
      /\ Sit(g, s).pending = g.pending
  BY DEF Sit, Games
<1> QED  BY <1>1, <1>2, <1>3 DEF GoodGame, SomeoneToAct, InHand, Stuck

(* A refill between hands leaves a good game.                              *)
LEMMA RefillGood ==
  ASSUME NEW g \in Games, ~InHand(g), NEW s \in Seats
  PROVE  GoodGame(Refill(g, s))
<1> DEFINE st == [g.stack EXCEPT ![s] = @ + InitialTablePoints]
           al == [g.allocated EXCEPT ![s] = @ + InitialTablePoints]
           h == [g EXCEPT !.stack = st, !.allocated = al, !.away = @ \ {s}]
<1>1. st \in [Seats -> Nat] /\ al \in [Seats -> Nat]
  BY PointsAssumption DEF Games
<1>2. Refill(g, s) = h
  BY DEF Refill, Games
<1> HIDE DEF st, al
<1>3. h \in Games /\ h.street = g.street
  BY <1>1 DEF Games
<1> HIDE DEF h
<1> QED  BY <1>2, <1>3 DEF GoodGame, SomeoneToAct, InHand

(* Losing or regaining the connection changes nobody's turn.               *)
LEMMA SetDisconnectedGood ==
  ASSUME NEW g \in Games, GoodGame(g), NEW s \in Seats, NEW off \in BOOLEAN
  PROVE  GoodGame(SetDisconnected(g, s, off))
<1> DEFINE h == SetDisconnected(g, s, off)
<1>1. /\ h \in Games /\ CanAct(h) = CanAct(g) /\ h.street = g.street
      /\ h.actor = g.actor /\ h.pending = g.pending
  BY DEF SetDisconnected, Games, CanAct, Funded
<1> QED  BY <1>1 DEF GoodGame, SomeoneToAct, InHand, Stuck

(* Freeing seats between hands, or none during one, changes nobody's turn. *)
LEMMA RemoveSeatsGood ==
  ASSUME NEW g \in Games, GoodGame(g), NEW S \in SUBSET Seats, InHand(g) => S = {}
  PROVE  GoodGame(RemoveSeats(g, S))
<1> DEFINE st == [s \in Seats |-> IF s \in S THEN 0 ELSE g.stack[s]]
           al == [s \in Seats |-> IF s \in S THEN 0 ELSE g.allocated[s]]
           h == [g EXCEPT !.seated = @ \ S, !.ready = @ \ S, !.away = @ \ S,
                          !.disconnected = @ \ S, !.leaving = @ \ S, !.dealt = @ \ S,
                          !.folded = @ \ S, !.allIn = @ \ S,
                          !.stack = st, !.allocated = al]
<1>1. st \in [Seats -> Nat] /\ al \in [Seats -> Nat]
  BY DEF Games
<1>2. RemoveSeats(g, S) = h
  BY DEF RemoveSeats, Games
<1>3. S = {} => st = g.stack
  BY DEF Games
<1> HIDE DEF st, al
<1>4. h \in Games /\ h.street = g.street /\ h.actor = g.actor /\ h.pending = g.pending
  BY <1>1 DEF Games
<1>5. S = {} => CanAct(h) = CanAct(g)
  BY <1>3 DEF Games, CanAct, Funded
<1> HIDE DEF h
<1> QED  BY <1>2, <1>4, <1>5 DEF GoodGame, SomeoneToAct, InHand, Stuck

-----------------------------------------------------------------------------
(* The table *)

(* The inductive invariant: neither conjunct is preserved without the other. *)
IInv == TypeOK /\ TurnInv

(* The net of the players who leave is an integer.                         *)
LEMMA NetType ==
  ASSUME NEW g \in Games, NEW S \in SUBSET Seats
  PROVE  Net(g, S) \in Int
<1>1. IsFiniteSet(S)
  BY SeatsFinite, FS_Subset
<1>2. /\ [s \in S |-> g.stack[s]] \in [S -> Nat]
      /\ [s \in S |-> g.allocated[s]] \in [S -> Nat]
  BY DEF Games
<1>3. /\ Total([s \in S |-> g.stack[s]]) \in Nat
      /\ Total([s \in S |-> g.allocated[s]]) \in Nat
  BY <1>1, <1>2, TotalType
<1> QED  BY <1>3 DEF Net

(* Settling the players who leave keeps a good game good.                    *)
LEMMA SettlesToGood ==
  ASSUME NEW g, GoodGame(g), settled \in Int, SettlesTo(g)
  PROVE  GoodGame(game') /\ settled' \in Int
<1> DEFINE S == Departing(g)
<1>1. g \in Games
  BY DEF GoodGame
<1>2. S \in SUBSET Seats /\ (InHand(g) => S = {})
  BY <1>1 DEF Departing, Games
<1>3. game' = RemoveSeats(g, S) /\ settled' = settled + Net(g, S)
  BY DEF SettlesTo
<1> HIDE DEF S
<1>4. GoodGame(game')
  BY <1>1, <1>2, <1>3, RemoveSeatsGood
<1>5. settled' \in Int
  BY <1>1, <1>2, <1>3, NetType
<1> QED  BY <1>4, <1>5

(* The invariant holds of every table the behaviours start from.           *)
LEMMA InitIInv == Init => IInv
<1> SUFFICES ASSUME Init PROVE IInv
  OBVIOUS
<1>1. PICK stack \in OpeningStacks, ready \in SUBSET Seats : game = Table(stack, ready)
  BY DEF Init
<1>2. stack \in [Seats -> Nat]
  BY OpeningStacksAssumption
<1>3. NewGame \in Games
  BY DEF NewGame, Games, Streets, NoPoints, NotActed
<1>4. [s \in Seats |-> InitialTablePoints] \in [Seats -> Nat]
  BY PointsAssumption
<1>5. game \in Games /\ game.street = "waiting"
  BY <1>1, <1>2, <1>3, <1>4, ZenonT(60) DEF Table, Games, NewGame
<1>6. TurnInv
  BY <1>5, SettledIsGood DEF GoodGame, TurnInv
<1>7. settled \in Int /\ hands \in 0..MaxHands /\ churn \in 0..MaxChurn
  BY BoundsAssumption DEF Init
<1> QED  BY <1>5, <1>6, <1>7 DEF IInv, TypeOK

(* One step of the table: one case per handler.                              *)
LEMMA StepIInv == IInv /\ [Next]_vars => IInv'
<1> SUFFICES ASSUME IInv, [Next]_vars PROVE IInv'
  OBVIOUS
<1>1. /\ game \in Games /\ GoodGame(game) /\ settled \in Int
      /\ hands \in 0..MaxHands /\ churn \in 0..MaxChurn
  BY DEF IInv, TypeOK, TurnInv, GoodGame
<1>2. ASSUME GoodGame(game'), settled' \in Int,
             hands' \in 0..MaxHands, churn' \in 0..MaxChurn
      PROVE  IInv'
  BY <1>2 DEF IInv, TypeOK, TurnInv, GoodGame
<1>3. SeatChange => hands' \in 0..MaxHands /\ churn' \in 0..MaxChurn
  BY <1>1, BoundsAssumption DEF SeatChange
<1>4. ASSUME NEW s \in Seats, CallTurn(s) PROVE IInv'
  BY <1>1, <1>2, <1>4, CheckOrCallGood, SettlesToGood DEF CallTurn
<1>5. ASSUME NEW s \in Seats, FoldTurn(s) PROVE IInv'
  BY <1>1, <1>2, <1>5, FoldGood, SettlesToGood DEF FoldTurn
<1>6. ASSUME NEW s \in Seats, AllInTurn(s) PROVE IInv'
  BY <1>1, <1>2, <1>6, AllInGood, SettlesToGood DEF AllInTurn
<1>7. ASSUME NEW s \in Seats, NEW raiseBy \in RaiseSizes, RaiseTurn(s, raiseBy) PROVE IInv'
  <2>1. raiseBy \in Nat
    BY RaiseSizesAssumption
  <2> QED  BY <1>1, <1>2, <1>7, <2>1, RaiseGood, SettlesToGood DEF RaiseTurn
<1>8. CASE ActionTimeout
  <2>1. game.actor \in Seats
    BY <1>1, <1>8 DEF ActionTimeout, ActionDue, IsActor, CanAct, Funded, Games
  <2> QED  BY <1>1, <1>2, <1>8, <2>1, TimeoutGood, SettlesToGood DEF ActionTimeout
<1>9. CASE GameStart
  <2>1. hands' \in 0..MaxHands /\ churn' \in 0..MaxChurn
    BY <1>1, <1>9, BoundsAssumption DEF GameStart
  <2> QED  BY <1>1, <1>2, <1>9, <2>1, StartHandGood, SettlesToGood DEF GameStart
<1>10. ASSUME NEW s \in Seats, Leave(s) PROVE IInv'
  BY <1>1, <1>2, <1>3, <1>10, WithdrawGood, SettlesToGood DEF Leave
<1>11. ASSUME NEW s \in Seats, Join(s) PROVE IInv'
  BY <1>1, <1>2, <1>3, <1>11, SitGood DEF Join
<1>12. ASSUME NEW s \in Seats, RefillPoints(s) PROVE IInv'
  BY <1>1, <1>2, <1>3, <1>12, RefillGood, SettlesToGood DEF RefillPoints
<1>13. ASSUME NEW s \in Seats, NEW on \in BOOLEAN, SetReady(s, on) PROVE IInv'
  <2> DEFINE h == [game EXCEPT !.ready = IF on THEN @ \cup {s} ELSE @ \ {s}]
  <2>1. /\ h \in Games /\ CanAct(h) = CanAct(game) /\ h.street = game.street
        /\ h.actor = game.actor /\ h.pending = game.pending
    BY <1>1 DEF Games, CanAct, Funded
  <2>2. GoodGame(h)
    BY <1>1, <2>1 DEF GoodGame, SomeoneToAct, InHand, Stuck
  <2>3. SettlesTo(h) /\ SeatChange
    BY <1>13 DEF SetReady
  <2> QED  BY <1>1, <1>2, <1>3, <2>2, <2>3, SettlesToGood
<1>14. ASSUME NEW s \in Seats, NEW on \in BOOLEAN, Connection(s, on) PROVE IInv'
  BY <1>1, <1>2, <1>3, <1>14, SetDisconnectedGood DEF Connection
<1>15. CASE UNCHANGED vars
  BY <1>1, <1>2, <1>15 DEF vars
<1> QED  BY <1>4, <1>5, <1>6, <1>7, <1>8, <1>9, <1>10, <1>11, <1>12, <1>13, <1>14, <1>15 DEF Next

(* The table is well typed in every reachable state: stacks, commitments and *)
(* payouts are never negative, whatever the players do.                      *)
THEOREM TypeCorrect == Spec => []TypeOK
<1>1. IInv => TypeOK
  BY DEF IInv
<1> QED  BY <1>1, InitIInv, StepIInv, PTL DEF Spec

(* While a hand is played and not stuck, the player whose turn it is owes an *)
(* action and can take it, so the timer of that turn always finds a legal    *)
(* action (Game.Timeout under handleTimeout).                                *)
THEOREM TurnAlwaysHeld == Spec => []TurnInv
<1>1. IInv => TurnInv
  BY DEF IInv
<1> QED  BY <1>1, InitIInv, StepIInv, PTL DEF Spec

-----------------------------------------------------------------------------
(* Matched bets.  Nobody has committed more than the current bet, and a      *)
(* dealt player who can act and owes no answer has committed all of it.      *)

Capped(g) == \A s \in Seats : g.streetCommitted[s] <= g.currentBet

Matched(g, asked) ==
  \A s \in (CanAct(g) \cap g.dealt) \ asked : g.streetCommitted[s] = g.currentBet

DealtSeats(g) == g \in Games /\ g.dealt \subseteq g.seated

FairGame(g) ==
  /\ DealtSeats(g)
  /\ g.street \in BettingStreets => Capped(g) /\ Matched(g, g.pending)

(* With no betting under way there is no bet to match.                     *)
LEMMA OverIsFair ==
  ASSUME NEW g, DealtSeats(g), g.street \notin BettingStreets
  PROVE  FairGame(g)
BY DEF FairGame

(* nextSeat leaves its starting seat when there is another one to go to.     *)
LEMMA NextSeatMoves ==
  ASSUME NEW s \in Seats, NEW S \in SUBSET Seats, NEW t \in S, t # s
  PROVE  NextSeat(s, S) # s
<1> DEFINE d == [u \in S |-> Distance(s, u)]
<1>1. \A u \in S : d[u] \in Nat
  BY DistanceType
<1>2. PICK m \in S : \A u \in S : d[m] <= d[u]
  <2> HIDE DEF d
  <2> QED  BY <1>1, LeastValue
<1>3. \A u \in S : Distance(s, NextSeat(s, S)) <= Distance(s, u)
  BY <1>2 DEF NextSeat
<1>4. Distance(s, t) < Distance(s, s)
  BY SeatCountAssumption DEF Seats, Distance
<1>5. Distance(s, s) <= Distance(s, t) => FALSE
  BY <1>4, DistanceType
<1> QED  BY <1>3, <1>5

(* finishHand deals nobody in or out, and ends the betting.                *)
LEMMA FinishHandFair ==
  ASSUME NEW g, DealtSeats(g)
  PROVE  FairGame(FinishHand(g))
<1>1. FinishHand(g) \in Games
  BY FinishHandType DEF DealtSeats
<1>2. /\ FinishHand(g).dealt = g.dealt /\ FinishHand(g).seated = g.seated
      /\ FinishHand(g).street = "settled"
  BY DEF FinishHand, Games, DealtSeats
<1> QED  BY <1>1, <1>2, OverIsFair DEF DealtSeats, BettingStreets

(* finishByFold ends the betting.                                          *)
LEMMA FinishByFoldFair ==
  ASSUME NEW g, DealtSeats(g)
  PROVE  FairGame(FinishByFold(g))
<1>1. FinishByFold(g) \in Games
  BY FinishByFoldType DEF DealtSeats
<1>2. /\ FinishByFold(g).dealt = g.dealt /\ FinishByFold(g).seated = g.seated
      /\ FinishByFold(g).street = "settled"
  BY DEF FinishByFold, FinishHand, Games, DealtSeats
<1> QED  BY <1>1, <1>2, OverIsFair DEF DealtSeats, BettingStreets

(* A showdown ends the betting, also when it fails.                        *)
LEMMA ShowdownFair ==
  ASSUME NEW g, DealtSeats(g), NEW h \in Showdown(g)
  PROVE  FairGame(h)
<1>1. PICK rank \in Rankings(g) : h = ShowdownResult(g, rank)
  BY DEF Showdown
<1>2. h \in Games /\ h.street \in {"showdown", "settled"}
  BY <1>1, ShowdownResultType DEF DealtSeats
<1>3. h.dealt = g.dealt /\ h.seated = g.seated
  BY <1>1 DEF ShowdownResult, FinishHand, Games, DealtSeats
<1> QED  BY <1>2, <1>3, OverIsFair DEF DealtSeats, BettingStreets

(* A new street starts with nothing committed and asks everybody who can act. *)
LEMMA AdvanceStreetFair ==
  ASSUME NEW g, DealtSeats(g), NEW h \in AdvanceStreet(g)
  PROVE  FairGame(h)
<1>1. CASE g.street = "river"
  BY <1>1, ShowdownFair DEF AdvanceStreet
<1>2. CASE g.street # "river" /\ g.street \notin DOMAIN NextStreet
  <2>1. h = g
    BY <1>2 DEF AdvanceStreet
  <2>2. g.street \notin BettingStreets
    BY <1>2 DEF BettingStreets, NextStreet
  <2> QED  BY <2>1, <2>2, OverIsFair
<1>3. CASE g.street \in DOMAIN NextStreet
  <2> DEFINE o == StreetOpened(g)
             a == NextSeat(o.button, o.pending)
             r == [o EXCEPT !.actor = a]
  <2>1. o \in Games /\ o.pending = CanAct(o)
    BY <1>3, StreetOpenedType DEF DealtSeats
  <2>2. /\ o.dealt = g.dealt /\ o.seated = g.seated
        /\ o.streetCommitted = NoPoints /\ o.currentBet = 0
    BY DEF StreetOpened, Games, DealtSeats
  <2>3. g.street # "river"
    BY <1>3 DEF NextStreet
  <2>4. CASE AtMostOne(o.pending)
    BY <1>3, <2>1, <2>2, <2>3, <2>4, ShowdownFair DEF AdvanceStreet, DealtSeats
  <2>5. CASE ~AtMostOne(o.pending)
    <3>1. h = r
      BY <1>3, <2>3, <2>5 DEF AdvanceStreet
    <3> HIDE DEF o
    <3>2. a \in Seats \cup {None}
      BY <2>1, NextSeatType DEF Games
    <3> HIDE DEF a
    <3>3. /\ r \in Games /\ r.dealt = o.dealt /\ r.seated = o.seated
          /\ r.streetCommitted = o.streetCommitted /\ r.currentBet = o.currentBet
          /\ r.pending = o.pending /\ CanAct(r) = CanAct(o)
      BY <2>1, <3>2 DEF Games, CanAct, Funded
    <3> HIDE DEF r
    <3>4. Capped(r) /\ Matched(r, r.pending)
      BY <2>1, <2>2, <3>3 DEF Capped, Matched, NoPoints
    <3> QED  BY <2>2, <3>1, <3>3, <3>4 DEF FairGame, DealtSeats
  <2> QED  BY <2>4, <2>5
<1> QED  BY <1>1, <1>2, <1>3

\* seat s has acted, and whoever is not asked now has matched the bet
TurnMatched(g, s, raised, fullRaise) ==
  /\ DealtSeats(g)
  /\ g.street \in BettingStreets =>
       Capped(g) /\ Matched(g, PendingAfter(g, s, raised, fullRaise))

(* Then the turn passes, the street ends or the hand does, and the bets stay *)
(* matched.                                                                  *)
LEMMA FinishActionFair ==
  ASSUME NEW g, NEW s \in Seats, NEW raised, NEW fullRaise,
         TurnMatched(g, s, raised, fullRaise),
         NEW r \in FinishAction(g, s, raised, fullRaise)
  PROVE  FairGame(r)
<1> DEFINE asked == PendingAfter(g, s, raised, fullRaise) \cap CanAct(g)
           acted == [g.actedAtBet EXCEPT ![s] = g.currentBet]
           h == [g EXCEPT !.pending = asked, !.actedAtBet = acted]
           a == NextSeat(s, h.pending)
           t == [h EXCEPT !.actor = a]
<1>1. g \in Games /\ g.dealt \subseteq g.seated
  BY DEF TurnMatched, DealtSeats
<1>2. asked \in SUBSET Seats /\ acted \in [Seats -> Nat \cup {-1}]
  BY <1>1, CanActType DEF Games
<1>3. r \in (IF Cardinality(RemainingNotFolded(g)) = 1 THEN {FinishByFold(h)}
             ELSE IF h.pending = {} THEN AdvanceStreet(h)
             ELSE {[h EXCEPT !.actor = NextSeat(s, h.pending)]})
  BY <1>1 DEF FinishAction, Games
<1>4. g.street \in BettingStreets => Capped(g) /\ Matched(g, asked)
  BY DEF TurnMatched, Matched
<1> HIDE DEF asked, acted
<1>5. /\ h \in Games /\ h.pending = asked /\ CanAct(h) = CanAct(g)
      /\ h.dealt = g.dealt /\ h.seated = g.seated /\ h.street = g.street
      /\ h.streetCommitted = g.streetCommitted /\ h.currentBet = g.currentBet
  BY <1>1, <1>2 DEF Games, CanAct, Funded
<1> HIDE DEF h
<1>6. DealtSeats(h)
  BY <1>1, <1>5 DEF DealtSeats
<1>7. CASE r = FinishByFold(h)
  BY <1>6, <1>7, FinishByFoldFair
<1>8. CASE r \in AdvanceStreet(h)
  BY <1>6, <1>8, AdvanceStreetFair
<1>9. CASE r = t
  <2>1. a \in Seats \cup {None}
    BY <1>2, <1>5, NextSeatType
  <2> HIDE DEF a
  <2>2. /\ t \in Games /\ t.dealt = h.dealt /\ t.seated = h.seated
        /\ t.street = h.street /\ t.pending = h.pending /\ CanAct(t) = CanAct(h)
        /\ t.streetCommitted = h.streetCommitted /\ t.currentBet = h.currentBet
    BY <1>5, <2>1 DEF Games, CanAct, Funded
  <2> HIDE DEF t
  <2> QED  BY <1>1, <1>4, <1>5, <1>9, <2>2 DEF FairGame, DealtSeats, Capped, Matched
<1> QED  BY <1>3, <1>7, <1>8, <1>9

\* what commit does to the bets: it adds what it pays, and it pays all it was
\* asked unless the player is all-in afterwards
Pays(g, h, s, amount) ==
  /\ DealtSeats(h) /\ h.dealt = g.dealt /\ h.seated = g.seated
  /\ h.currentBet = g.currentBet /\ h.street = g.street /\ h.pending = g.pending
  /\ CanAct(h) \ {s} = CanAct(g) \ {s}
  /\ \A t \in Seats \ {s} : h.streetCommitted[t] = g.streetCommitted[t]
  /\ h.streetCommitted[s] = g.streetCommitted[s] + Lesser(amount, g.stack[s])
  /\ s \in CanAct(h) => h.streetCommitted[s] = g.streetCommitted[s] + amount

(* commit pays.                                                            *)
LEMMA CommitPays ==
  ASSUME NEW g, DealtSeats(g), NEW s \in Seats, NEW amount \in Nat
  PROVE  Pays(g, Commit(g, s, amount), s, amount)
<1> DEFINE h == Commit(g, s, amount)
           paid == Lesser(amount, g.stack[s])
<1>1. g \in Games /\ g.dealt \subseteq g.seated /\ h \in Games
  BY CommitType DEF DealtSeats
<1>2. /\ h.dealt = g.dealt /\ h.seated = g.seated /\ h.currentBet = g.currentBet
      /\ h.street = g.street /\ h.pending = g.pending
      /\ h.away = g.away /\ h.leaving = g.leaving /\ h.folded = g.folded
  BY <1>1 DEF Commit, Games
<1>3. /\ h.stack = [g.stack EXCEPT ![s] = @ - paid]
      /\ h.streetCommitted = [g.streetCommitted EXCEPT ![s] = @ + paid]
      /\ h.allIn = IF paid = g.stack[s] THEN g.allIn \cup {s} ELSE g.allIn
  BY <1>1 DEF Commit, Games
<1>4. paid # g.stack[s] => paid = amount
  BY DEF Lesser
<1>5. s \in CanAct(h) => paid = amount
  BY <1>3, <1>4 DEF CanAct
<1> HIDE DEF h, paid
<1>6. CanAct(h) \ {s} = CanAct(g) \ {s}
  BY <1>1, <1>2, <1>3 DEF CanAct, Funded, Games
<1>7. /\ \A t \in Seats \ {s} : h.streetCommitted[t] = g.streetCommitted[t]
      /\ h.streetCommitted[s] = g.streetCommitted[s] + paid
  BY <1>1, <1>3 DEF Games
<1>8. paid = Lesser(amount, g.stack[s])
  BY DEF paid
<1> QED  BY <1>1, <1>2, <1>5, <1>6, <1>7, <1>8 DEF Pays, DealtSeats, h

(* The blinds are posted by two seats, so nobody has committed more than the *)
(* big blind.                                                                *)
LEMMA BlindsPostedFair ==
  ASSUME NEW g, DealtSeats(g), Cardinality(g.dealt) >= 2, g.button \in Seats,
         g.streetCommitted = NoPoints
  PROVE  FairGame(BlindsPosted(g))
<1> DEFINE small == IF Cardinality(g.dealt) = 2 THEN g.button
                    ELSE NextSeat(g.button, g.dealt)
           big == NextSeat(small, g.dealt)
           c1 == Commit(g, small, SmallBlind)
           c2 == Commit(c1, big, BigBlind)
           a == NextSeat(big, AskedFirst(c2))
           h == [c2 EXCEPT !.currentBet = BigBlind, !.minimumRaiseBy = BigBlind,
                           !.street = "preflop", !.pending = AskedFirst(c2), !.actor = a]
<1>1. g \in Games /\ g.dealt \in SUBSET Seats
  BY DEF DealtSeats, Games
<1>2. g.dealt # {}
  BY FS_EmptySet
<1>3. small \in Seats
  BY <1>1, <1>2, NextSeatMember
<1>4. PICK t \in g.dealt : t # small
  <2> SUFFICES ASSUME g.dealt \subseteq {small} PROVE FALSE
    OBVIOUS
  <2> HIDE DEF small
  <2>1. IsFiniteSet({small}) /\ Cardinality({small}) = 1
    BY FS_Singleton
  <2>2. Cardinality(g.dealt) <= 1
    BY <2>1, FS_Subset
  <2>3. Cardinality(g.dealt) \in Nat
    BY <2>1, FS_Subset, FS_CardinalityType
  <2> QED  BY <2>2, <2>3
<1> HIDE DEF small
<1>5. big \in Seats /\ big # small
  BY <1>1, <1>2, <1>3, <1>4, NextSeatMember, NextSeatMoves
<1> HIDE DEF big
<1>6. Pays(g, c1, small, SmallBlind)
  BY <1>3, CommitPays, BlindAssumption
<1> HIDE DEF c1
<1>7. c1.streetCommitted[big] = 0 /\ \A u \in Seats : c1.streetCommitted[u] <= BigBlind
  BY <1>1, <1>3, <1>5, <1>6, BlindAssumption DEF Pays, NoPoints, Lesser, Games
<1>8. Pays(c1, c2, big, BigBlind)
  BY <1>5, <1>6, CommitPays, BlindAssumption, SMTT(30) DEF Pays
<1> HIDE DEF c2
<1>9. c1 \in Games /\ c2 \in Games
  BY <1>6, <1>8 DEF Pays, DealtSeats
<1>10. \A u \in Seats : c2.streetCommitted[u] <= BigBlind
  BY <1>5, <1>7, <1>8, <1>9, BlindAssumption DEF Pays, Lesser, Games
<1>11. AskedFirst(c2) \in SUBSET Seats
  BY <1>9 DEF AskedFirst, Games
<1>12. a \in Seats \cup {None}
  BY <1>5, <1>11, NextSeatType
<1>13. BlindsPosted(g) = h
  BY DEF BlindsPosted, c1, c2, small, big
<1> HIDE DEF a
<1>14. /\ h \in Games /\ h.dealt = c2.dealt /\ h.seated = c2.seated
       /\ h.streetCommitted = c2.streetCommitted /\ h.currentBet = BigBlind
       /\ h.pending = h.dealt \ h.allIn
  BY <1>9, <1>11, <1>12, BlindAssumption
     DEF AskedFirst, Games, Streets, BettingStreets
<1> HIDE DEF h
<1>15. Capped(h) /\ Matched(h, h.pending)
  BY <1>10, <1>14 DEF Capped, Matched, CanAct
<1> QED  BY <1>8, <1>13, <1>14, <1>15 DEF FairGame, Pays, DealtSeats

(* A hand starts with the blinds as the bets to match.                     *)
LEMMA StartHandFair ==
  ASSUME NEW g, g \in Games, Cardinality(Available(g)) >= 2, NEW r \in StartHand(g)
  PROVE  FairGame(r)
<1> DEFINE c == HandCleared(g)
           h == BlindsPosted(c)
<1>1. Available(g) # {}
  BY FS_EmptySet
<1>2. c \in Games /\ c.dealt = Available(g) /\ c.button \in Seats
  BY <1>1, HandClearedGood
<1>3. c.seated = g.seated /\ c.streetCommitted = NoPoints
  BY DEF HandCleared, Games
<1>4. DealtSeats(c)
  BY <1>2, <1>3 DEF DealtSeats, Available, Funded
<1> HIDE DEF c
<1>5. FairGame(h)
  BY <1>2, <1>3, <1>4, BlindsPostedFair
<1>6. r \in IF h.actor = None THEN AdvanceStreet(h) ELSE {h}
  BY DEF StartHand, c
<1> HIDE DEF h
<1> QED  BY <1>5, <1>6, AdvanceStreetFair DEF FairGame

(* A check or a call matches the bet or is an all-in.                      *)
LEMMA CheckOrCallMatches ==
  ASSUME NEW g, FairGame(g), NEW s \in Seats
  PROVE  TurnMatched(Commit(g, s, ToCall(g, s)), s, FALSE, FALSE)
<1> DEFINE owed == ToCall(g, s)
           c == Commit(g, s, owed)
<1>1. g \in Games /\ DealtSeats(g) /\ owed \in Nat
  BY ToCallType DEF FairGame, DealtSeats
<1>3. Pays(g, c, s, owed)
  BY <1>1, CommitPays
<1>4. g.streetCommitted[s] <= g.currentBet => owed = g.currentBet - g.streetCommitted[s]
  BY <1>1 DEF ToCall, Greater, Games
<1> HIDE DEF c, owed
<1>5. g.street \in BettingStreets => Capped(c)
  BY <1>1, <1>3, <1>4 DEF Pays, FairGame, Capped, Games, Lesser
<1>6. g.street \in BettingStreets => Matched(c, PendingAfter(c, s, FALSE, FALSE))
  <2> SUFFICES ASSUME g.street \in BettingStreets,
                      NEW t \in (CanAct(c) \cap c.dealt) \ (c.pending \ {s})
               PROVE  c.streetCommitted[t] = c.currentBet
    BY <1>3 DEF Pays, Matched, PendingAfter
  <2>1. t \in Seats
    BY <1>1, <1>3 DEF Pays, Games
  <2>2. CASE t = s
    BY <1>1, <1>3, <1>4, <2>2 DEF Pays, FairGame, Capped, Games
  <2>3. CASE t # s
    BY <1>3, <2>1, <2>3 DEF Pays, FairGame, Matched
  <2> QED  BY <2>2, <2>3
<1> QED  BY <1>3, <1>5, <1>6 DEF Pays, TurnMatched, c, owed

(* After a check or a call, who owes no answer has matched the bet.        *)
LEMMA CheckOrCallFair ==
  ASSUME NEW g, FairGame(g), NEW s \in Seats, NEW r \in CheckOrCall(g, s)
  PROVE  FairGame(r)
BY CheckOrCallMatches, FinishActionFair DEF CheckOrCall

(* A fold leaves the others' bets alone.                                   *)
LEMMA FoldMatches ==
  ASSUME NEW g, FairGame(g), NEW s \in Seats
  PROVE  TurnMatched([g EXCEPT !.folded = @ \cup {s}], s, FALSE, FALSE)
<1> DEFINE h == [g EXCEPT !.folded = @ \cup {s}]
<1>1. g \in Games /\ g.dealt \subseteq g.seated
  BY DEF FairGame, DealtSeats
<1>2. /\ h \in Games /\ h.dealt = g.dealt /\ h.seated = g.seated
      /\ h.street = g.street /\ h.pending = g.pending /\ CanAct(h) = CanAct(g) \ {s}
      /\ h.streetCommitted = g.streetCommitted /\ h.currentBet = g.currentBet
  BY <1>1 DEF Games, CanAct, Funded
<1> HIDE DEF h
<1>4. g.street \in BettingStreets =>
        Capped(h) /\ Matched(h, PendingAfter(h, s, FALSE, FALSE))
  BY <1>2 DEF FairGame, Capped, Matched, PendingAfter
<1> QED  BY <1>1, <1>2, <1>4 DEF TurnMatched, DealtSeats, h

(* And after a fold.                                                       *)
LEMMA FoldFair ==
  ASSUME NEW g, FairGame(g), NEW s \in Seats, NEW r \in Fold(g, s)
  PROVE  FairGame(r)
BY FoldMatches, FinishActionFair DEF Fold

(* A raise is the new bet, which everybody else is asked to match.         *)
LEMMA RaiseMatches ==
  ASSUME NEW g, FairGame(g), NEW s \in Seats, NEW raiseBy \in Nat,
         ToCall(g, s) + raiseBy <= g.stack[s]
  PROVE  LET c == Commit(g, s, ToCall(g, s) + raiseBy)
             h == [c EXCEPT !.currentBet = @ + raiseBy, !.minimumRaiseBy = raiseBy]
         IN  TurnMatched(h, s, TRUE, TRUE)
<1> DEFINE owed == ToCall(g, s)
           c == Commit(g, s, owed + raiseBy)
           bet == c.currentBet + raiseBy
           h == [c EXCEPT !.currentBet = bet, !.minimumRaiseBy = raiseBy]
<1>1. g \in Games /\ DealtSeats(g) /\ owed \in Nat /\ owed + raiseBy \in Nat
  BY ToCallType DEF FairGame, DealtSeats
<1>2. Pays(g, c, s, owed + raiseBy)
  BY <1>1, CommitPays
<1>3. Lesser(owed + raiseBy, g.stack[s]) = owed + raiseBy
  BY DEF Lesser
<1>4. g.streetCommitted[s] <= g.currentBet => owed = g.currentBet - g.streetCommitted[s]
  BY <1>1 DEF ToCall, Greater, Games
<1>5. h = [c EXCEPT !.currentBet = @ + raiseBy, !.minimumRaiseBy = raiseBy]
  BY <1>2 DEF Pays, Games, DealtSeats
<1> HIDE DEF c, owed
<1>6. bet \in Nat /\ bet = g.currentBet + raiseBy
  BY <1>1, <1>2 DEF Pays, DealtSeats, Games
<1> HIDE DEF bet
<1>7. /\ h \in Games /\ h.dealt = c.dealt /\ h.seated = c.seated /\ h.street = c.street
      /\ h.streetCommitted = c.streetCommitted /\ h.currentBet = bet
  BY <1>2, <1>6 DEF Pays, Games, DealtSeats
<1> HIDE DEF h
<1>8. g.street \in BettingStreets => Capped(h) /\ h.streetCommitted[s] = h.currentBet
  BY <1>1, <1>2, <1>3, <1>4, <1>6, <1>7 DEF Pays, FairGame, Capped, Games
<1>9. g.street \in BettingStreets => Matched(h, PendingAfter(h, s, TRUE, TRUE))
  BY <1>8 DEF Matched, PendingAfter
<1>10. TurnMatched(h, s, TRUE, TRUE)
  BY <1>2, <1>7, <1>8, <1>9 DEF Pays, DealtSeats, TurnMatched
<1> QED  BY <1>5, <1>10 DEF h, c, owed

(* And after a raise.                                                      *)
LEMMA RaiseFair ==
  ASSUME NEW g, FairGame(g), NEW s \in Seats, NEW raiseBy \in Nat,
         ToCall(g, s) + raiseBy <= g.stack[s], NEW r \in Raise(g, s, raiseBy)
  PROVE  FairGame(r)
BY RaiseMatches, FinishActionFair DEF Raise

(* An all-in above the bet is put to everybody who has committed less, and   *)
(* the player himself cannot act any more.                                   *)
LEMMA AllInMatches ==
  ASSUME NEW g, FairGame(g), NEW s \in Seats
  PROVE  LET total     == g.streetCommitted[s] + g.stack[s]
             raiseBy   == Greater(0, total - g.currentBet)
             fullRaise == raiseBy >= g.minimumRaiseBy
             c         == Commit(g, s, g.stack[s])
             h == [c EXCEPT !.currentBet = Greater(@, total),
                            !.minimumRaiseBy = IF raiseBy > 0 /\ fullRaise THEN raiseBy ELSE @]
         IN  TurnMatched(h, s, raiseBy > 0, fullRaise)
<1> DEFINE total == g.streetCommitted[s] + g.stack[s]
           raiseBy == Greater(0, total - g.currentBet)
           fullRaise == raiseBy >= g.minimumRaiseBy
           c == Commit(g, s, g.stack[s])
           bet == Greater(c.currentBet, total)
           least == IF raiseBy > 0 /\ fullRaise THEN raiseBy ELSE c.minimumRaiseBy
           h == [c EXCEPT !.currentBet = bet, !.minimumRaiseBy = least]
<1>1. /\ g \in Games /\ DealtSeats(g) /\ g.stack[s] \in Nat
      /\ total \in Nat /\ g.currentBet \in Nat
  BY DEF FairGame, DealtSeats, Games
<1>2. Pays(g, c, s, g.stack[s])
  BY <1>1, CommitPays
<1>3. c.streetCommitted[s] = total
  BY <1>1, <1>2 DEF Pays, Lesser
<1>4. s \notin CanAct(c)
  BY <1>1 DEF Commit, Lesser, CanAct, Games
<1>5. h = [c EXCEPT !.currentBet = Greater(@, total),
                    !.minimumRaiseBy = IF raiseBy > 0 /\ fullRaise THEN raiseBy ELSE @]
  BY <1>2 DEF Pays, Games, DealtSeats
<1> HIDE DEF c
<1>6. /\ bet \in Nat /\ least \in Nat /\ g.currentBet <= bet /\ total <= bet
      /\ ~(raiseBy > 0) => bet = g.currentBet
  BY <1>1, <1>2 DEF Pays, Greater, Games, DealtSeats
<1> HIDE DEF bet, least, total
<1>7. /\ h \in Games /\ h.dealt = c.dealt /\ h.seated = c.seated /\ h.street = c.street
      /\ h.pending = c.pending /\ CanAct(h) = CanAct(c)
      /\ h.streetCommitted = c.streetCommitted /\ h.currentBet = bet
  BY <1>2, <1>6 DEF Pays, Games, DealtSeats, CanAct, Funded
<1> HIDE DEF h
<1>8. g.street \in BettingStreets => Capped(h)
  BY <1>1, <1>2, <1>3, <1>6, <1>7 DEF Pays, FairGame, Capped, Games
<1>9. g.street \in BettingStreets =>
        Matched(h, PendingAfter(h, s, raiseBy > 0, fullRaise))
  <2> SUFFICES ASSUME g.street \in BettingStreets,
                      NEW t \in (CanAct(h) \cap h.dealt)
                                \ PendingAfter(h, s, raiseBy > 0, fullRaise)
               PROVE  h.streetCommitted[t] = h.currentBet
    BY DEF Matched
  <2>1. t \in Seats /\ t # s /\ ~fullRaise
    BY <1>4, <1>7 DEF PendingAfter, Games
  <2>2. t \in (CanAct(g) \cap g.dealt) \ g.pending
    BY <1>2, <1>7, <2>1 DEF Pays, PendingAfter
  <2>3. CASE raiseBy > 0
    <3>1. ~(h.streetCommitted[t] < h.currentBet)
      BY <2>1, <2>3 DEF PendingAfter
    <3>2. h.streetCommitted[t] <= h.currentBet
      BY <1>8, <2>1 DEF Capped
    <3> QED  BY <1>7, <2>1, <3>1, <3>2 DEF Games
  <2>4. CASE ~(raiseBy > 0)
    BY <1>2, <1>6, <1>7, <2>1, <2>2, <2>4 DEF Pays, FairGame, Matched
  <2> QED  BY <2>3, <2>4
<1>10. TurnMatched(h, s, raiseBy > 0, fullRaise)
  BY <1>2, <1>7, <1>8, <1>9 DEF Pays, DealtSeats, TurnMatched
<1> QED  BY <1>5, <1>10 DEF h, c, bet, least, total

(* And after an all-in.                                                    *)
LEMMA AllInFair ==
  ASSUME NEW g, FairGame(g), NEW s \in Seats, NEW r \in AllIn(g, s)
  PROVE  FairGame(r)
BY AllInMatches, FinishActionFair DEF AllIn

(* The action timer checks, or folds for the player.                       *)
LEMMA TimeoutFair ==
  ASSUME NEW g, FairGame(g), NEW s \in Seats, NEW r \in Timeout(g, s)
  PROVE  FairGame(r)
BY CheckOrCallFair, FoldFair DEF Timeout

(* A departure changes no bets: who leaves cannot act any more.            *)
LEMMA WithdrawFair ==
  ASSUME NEW g, FairGame(g), NEW s \in Seats, NEW r \in Withdraw(g, s)
  PROVE  FairGame(r)
<1> DEFINE gone == [g EXCEPT !.leaving = @ \cup {s}, !.disconnected = @ \ {s}]
           out == [gone EXCEPT !.folded = @ \cup {s}]
           unasked == [out EXCEPT !.pending = @ \ {s}]
           pruned == [unasked EXCEPT !.pending = @ \cap CanAct(unasked)]
           Keeps(h) ==
             /\ h \in Games /\ h.dealt = g.dealt /\ h.seated = g.seated
             /\ h.street = g.street /\ CanAct(h) = CanAct(g) \ {s}
             /\ h.streetCommitted = g.streetCommitted /\ h.currentBet = g.currentBet
<1>1. g \in Games /\ g.dealt \subseteq g.seated
  BY DEF FairGame, DealtSeats
<1>2. Keeps(gone) /\ Keeps(out) /\ Keeps(unasked)
  BY <1>1, ZenonT(60) DEF Games, CanAct, Funded
<1>3. gone.pending = g.pending /\ out.pending = g.pending /\ unasked.pending = g.pending \ {s}
  BY <1>1 DEF Games
<1>4. Keeps(pruned) /\ pruned.pending = unasked.pending \cap CanAct(unasked)
  <2> HIDE DEF unasked
  <2>1. pruned \in Games
    <3>1. unasked \in Games
      BY <1>2
    <3> QED  BY <3>1, ZenonT(60) DEF Games
  <2>2. /\ pruned.pending = unasked.pending \cap CanAct(unasked)
        /\ pruned.seated = unasked.seated /\ pruned.stack = unasked.stack
        /\ pruned.folded = unasked.folded /\ pruned.allIn = unasked.allIn
        /\ pruned.leaving = unasked.leaving /\ pruned.away = unasked.away
        /\ pruned.dealt = unasked.dealt /\ pruned.street = unasked.street
        /\ pruned.streetCommitted = unasked.streetCommitted
        /\ pruned.currentBet = unasked.currentBet
    BY <1>2 DEF Games
  <2> HIDE DEF pruned
  <2>3. CanAct(pruned) = CanAct(unasked)
    BY <2>2 DEF CanAct, Funded
  <2> QED  BY <1>2, <2>1, <2>2, <2>3
<1>5. \A h : Keeps(h) => DealtSeats(h)
  BY <1>1 DEF DealtSeats
<1>6. ASSUME NEW h, Keeps(h), g.pending \ {s} \subseteq h.pending \cup (Seats \ CanAct(h))
      PROVE  FairGame(h)
  BY <1>5, <1>6 DEF FairGame, Capped, Matched, Games
<1>7. CASE ~InHand(g)
  <2>1. r = [gone EXCEPT !.away = @ \cup {s}]
    BY <1>7 DEF Withdraw
  <2> HIDE DEF gone
  <2>2. /\ r \in Games /\ r.street = g.street
        /\ r.dealt = g.dealt /\ r.seated = g.seated
    BY <1>2, <2>1 DEF Games
  <2> QED  BY <1>1, <1>7, <2>2 DEF FairGame, DealtSeats, InHand
<1>8. CASE InHand(g) /\ s \in g.allIn
  <2>1. r = gone
    BY <1>8 DEF Withdraw
  <2> HIDE DEF gone
  <2> QED  BY <1>2, <1>3, <1>6, <2>1
<1>9. CASE InHand(g) /\ s \notin g.allIn /\ s = g.actor
  <2>1. r \in FinishAction(out, s, FALSE, FALSE)
    BY <1>9 DEF Withdraw
  <2> HIDE DEF out
  <2>2. g.street \in BettingStreets =>
          Capped(out) /\ Matched(out, PendingAfter(out, s, FALSE, FALSE))
    BY <1>2, <1>3 DEF FairGame, Capped, Matched, PendingAfter
  <2> QED  BY <1>2, <1>5, <2>1, <2>2, FinishActionFair DEF TurnMatched
<1>10. CASE InHand(g) /\ s \notin g.allIn /\ s # g.actor
  <2>1. \/ r = FinishByFold(unasked)
        \/ r \in AdvanceStreet(pruned)
        \/ r = pruned
    BY <1>10 DEF Withdraw
  <2> HIDE DEF unasked, pruned
  <2>2. CASE r = pruned
    <3>1. g.pending \subseteq Seats
      BY <1>1 DEF Games
    <3>2. CanAct(pruned) = CanAct(unasked)
      BY <1>2, <1>4
    <3>3. g.pending \ {s} \subseteq pruned.pending \cup (Seats \ CanAct(pruned))
      BY <1>3, <1>4, <3>1, <3>2
    <3> QED  BY <1>4, <1>6, <2>2, <3>3
  <2> QED  BY <1>2, <1>4, <1>5, <2>1, <2>2, FinishByFoldFair, AdvanceStreetFair
<1> QED  BY <1>7, <1>8, <1>9, <1>10

(* Whoever sits down during a hand has not been dealt in.                  *)
LEMMA SitFair ==
  ASSUME NEW g, FairGame(g), NEW s \in Seats \ g.seated
  PROVE  FairGame(Sit(g, s))
<1> DEFINE h == Sit(g, s)
<1>1. g \in Games /\ g.dealt \subseteq g.seated
  BY DEF FairGame, DealtSeats
<1>2. h \in Games
  BY <1>1, PointsAssumption DEF Games, Sit
<1>3. /\ h.dealt = g.dealt /\ h.seated = g.seated \cup {s} /\ h.street = g.street
      /\ h.pending = g.pending /\ CanAct(h) \ {s} = CanAct(g) \ {s}
      /\ h.streetCommitted = g.streetCommitted /\ h.currentBet = g.currentBet
  BY <1>1 DEF Sit, CanAct, Funded, Games
<1> HIDE DEF h
<1> QED  BY <1>1, <1>2, <1>3 DEF FairGame, DealtSeats, Capped, Matched, h

(* Freeing seats between hands, or none during one, changes no bets.       *)
LEMMA RemoveSeatsFair ==
  ASSUME NEW g, FairGame(g), NEW S \in SUBSET Seats, InHand(g) => S = {}
  PROVE  FairGame(RemoveSeats(g, S))
<1> DEFINE h == RemoveSeats(g, S)
<1>1. g \in Games /\ g.dealt \subseteq g.seated
  BY DEF FairGame, DealtSeats
<1>2. h.street \notin {"showdown", "settled", "waiting"} => InHand(g)
  BY <1>1 DEF RemoveSeats, Games, Streets, InHand
<1>3. h \in Games
  <2> DEFINE st == [s \in Seats |-> IF s \in S THEN 0 ELSE g.stack[s]]
             al == [s \in Seats |-> IF s \in S THEN 0 ELSE g.allocated[s]]
  <2>1. st \in [Seats -> Nat] /\ al \in [Seats -> Nat]
    BY <1>1 DEF Games
  <2>2. h = [g EXCEPT !.seated = @ \ S, !.ready = @ \ S, !.away = @ \ S,
                      !.disconnected = @ \ S, !.leaving = @ \ S, !.dealt = @ \ S,
                      !.folded = @ \ S, !.allIn = @ \ S,
                      !.stack = st, !.allocated = al]
    BY <1>1 DEF RemoveSeats, Games
  <2> HIDE DEF st, al, h
  <2> QED  BY <1>1, <2>1, <2>2 DEF Games
<1>4. /\ h.dealt = g.dealt \ S /\ h.seated = g.seated \ S /\ h.street = g.street
      /\ h.pending = g.pending /\ h.folded = g.folded \ S /\ h.allIn = g.allIn \ S
      /\ h.away = g.away \ S /\ h.leaving = g.leaving \ S
      /\ h.streetCommitted = g.streetCommitted /\ h.currentBet = g.currentBet
      /\ h.stack = [s \in Seats |-> IF s \in S THEN 0 ELSE g.stack[s]]
  BY <1>1 DEF RemoveSeats, Games
<1> HIDE DEF h
<1>5. S = {} => CanAct(h) = CanAct(g)
  BY <1>1, <1>4 DEF CanAct, Funded, Games
<1> QED  BY <1>1, <1>2, <1>3, <1>4, <1>5
         DEF FairGame, DealtSeats, Capped, Matched, InHand, BettingStreets, h

(* Settling the players who leave keeps the bets matched.                  *)
LEMMA SettlesToFair ==
  ASSUME NEW g, FairGame(g), SettlesTo(g)
  PROVE  FairGame(game')
<1>1. Departing(g) \in SUBSET Seats /\ (InHand(g) => Departing(g) = {})
  BY DEF Departing, FairGame, DealtSeats, Games
<1> QED  BY <1>1, RemoveSeatsFair DEF SettlesTo

(* The inductive invariant for the bets.                                   *)
FairInv == FairGame(game)

(* Nobody has been dealt in when the behaviour starts.                     *)
LEMMA InitFair == Init => FairInv
<1> SUFFICES ASSUME Init PROVE FairGame(game)
  BY DEF FairInv
<1>1. game \in Games
  BY InitIInv DEF IInv, TypeOK
<1>2. game.dealt = {} /\ game.street = "waiting"
  BY DEF Init, Table, NewGame
<1> QED  BY <1>1, <1>2, OverIsFair DEF DealtSeats, BettingStreets

(* One step of the table keeps the bets matched: one case per handler.       *)
LEMMA StepFair == FairInv /\ [Next]_vars => FairInv'
<1> SUFFICES ASSUME FairGame(game), [Next]_vars PROVE FairGame(game')
  BY DEF FairInv
<1>1. game \in Games /\ game.dealt \subseteq game.seated
  BY DEF FairGame, DealtSeats
<1>2. ASSUME NEW h \in Games, h.dealt = game.dealt, h.seated = game.seated,
             h.street = game.street, h.pending = game.pending,
             InHand(game) => CanAct(h) = CanAct(game),
             h.streetCommitted = game.streetCommitted, h.currentBet = game.currentBet
      PROVE  FairGame(h)
  BY <1>1, <1>2 DEF FairGame, DealtSeats, Capped, Matched, InHand
<1>3. ASSUME NEW s \in Seats, CallTurn(s) PROVE FairGame(game')
  BY <1>3, CheckOrCallFair, SettlesToFair DEF CallTurn
<1>4. ASSUME NEW s \in Seats, FoldTurn(s) PROVE FairGame(game')
  BY <1>4, FoldFair, SettlesToFair DEF FoldTurn
<1>5. ASSUME NEW s \in Seats, AllInTurn(s) PROVE FairGame(game')
  BY <1>5, AllInFair, SettlesToFair DEF AllInTurn
<1>6. ASSUME NEW s \in Seats, NEW raiseBy \in RaiseSizes, RaiseTurn(s, raiseBy)
      PROVE  FairGame(game')
  BY <1>6, RaiseSizesAssumption, RaiseFair, SettlesToFair DEF RaiseTurn
<1>7. CASE ActionTimeout
  <2>1. game.actor \in Seats
    BY <1>1, <1>7 DEF ActionTimeout, ActionDue, IsActor, CanAct, Funded, Games
  <2> QED  BY <1>7, <2>1, TimeoutFair, SettlesToFair DEF ActionTimeout
<1>8. CASE GameStart
  BY <1>1, <1>8, StartHandFair, SettlesToFair DEF GameStart
<1>9. ASSUME NEW s \in Seats, Leave(s) PROVE FairGame(game')
  BY <1>9, WithdrawFair, SettlesToFair DEF Leave
<1>10. ASSUME NEW s \in Seats, Join(s) PROVE FairGame(game')
  BY <1>10, SitFair DEF Join
<1>11. ASSUME NEW s \in Seats, RefillPoints(s) PROVE FairGame(game')
  <2> DEFINE h == Refill(game, s)
  <2>1. ~InHand(game) /\ SettlesTo(h)
    BY <1>11 DEF RefillPoints
  <2>2. h \in Games
    BY <2>1, <1>1, RefillGood DEF GoodGame
  <2>3. /\ h.dealt = game.dealt /\ h.seated = game.seated /\ h.street = game.street
        /\ h.pending = game.pending /\ h.streetCommitted = game.streetCommitted
        /\ h.currentBet = game.currentBet
    BY <1>1 DEF Refill, Games
  <2> HIDE DEF h
  <2> QED  BY <1>2, <2>1, <2>2, <2>3, SettlesToFair
<1>12. ASSUME NEW s \in Seats, NEW on \in BOOLEAN, SetReady(s, on)
       PROVE  FairGame(game')
  <2> DEFINE h == [game EXCEPT !.ready = IF on THEN @ \cup {s} ELSE @ \ {s}]
  <2>1. /\ h \in Games /\ CanAct(h) = CanAct(game) /\ h.street = game.street
        /\ h.dealt = game.dealt /\ h.seated = game.seated /\ h.pending = game.pending
        /\ h.streetCommitted = game.streetCommitted /\ h.currentBet = game.currentBet
    BY <1>1 DEF Games, CanAct, Funded
  <2>2. SettlesTo(h)
    BY <1>12 DEF SetReady
  <2> HIDE DEF h
  <2> QED  BY <1>2, <2>1, <2>2, SettlesToFair
<1>13. ASSUME NEW s \in Seats, NEW on \in BOOLEAN, Connection(s, on)
       PROVE  FairGame(game')
  <2> DEFINE h == SetDisconnected(game, s, on)
  <2>1. /\ h \in Games /\ CanAct(h) = CanAct(game) /\ h.street = game.street
        /\ h.dealt = game.dealt /\ h.seated = game.seated /\ h.pending = game.pending
        /\ h.streetCommitted = game.streetCommitted /\ h.currentBet = game.currentBet
    BY <1>1 DEF SetDisconnected, Games, CanAct, Funded
  <2>2. game' = h
    BY <1>13 DEF Connection
  <2> HIDE DEF h
  <2> QED  BY <1>2, <2>1, <2>2
<1>14. CASE UNCHANGED vars
  BY <1>14 DEF vars
<1> QED  BY <1>3, <1>4, <1>5, <1>6, <1>7, <1>8, <1>9, <1>10, <1>11, <1>12, <1>13, <1>14
         DEF Next

(* Whatever the players do, one who was dealt in and owes no answer has      *)
(* matched the current bet: through short all-ins, full raises, departures   *)
(* and newcomers nobody sees the next street for less than the others        *)
(* (Game.finishAction and Game.Withdraw).                                    *)
THEOREM NobodyEverRidesFree == Spec => []NobodyRidesFree
<1>1. FairInv => NobodyRidesFree
  BY DEF FairInv, FairGame, Matched, NobodyRidesFree, InHand, Stuck
<1> QED  BY <1>1, InitFair, StepFair, PTL DEF Spec

-----------------------------------------------------------------------------
(* What a showdown pays out: the side pots hold what the seats committed,  *)
(* level by level, and the winners' shares of a side pot are all of it.    *)

(* Different seats are different distances away.                           *)
LEMMA DistanceInjective ==
  ASSUME NEW start \in Seats \cup {None}
  PROVE  /\ \A s \in Seats : Distance(start, s) \in 0..(N - 1)
         /\ \A s, t \in Seats : Distance(start, s) = Distance(start, t) => s = t
<1>1. start \in -1..(N - 1) /\ N \in Nat /\ N >= 2
  BY SeatCountAssumption DEF Seats, None
<1>2. \A k \in 0..(2 * N - 1) : k % N = IF k < N THEN k ELSE k - N
  BY <1>1
<1>3. ASSUME NEW s \in Seats
      PROVE  Distance(start, s) = IF s - start - 1 < 0 THEN s - start - 1 + N ELSE s - start - 1
  <2> DEFINE k == s + N - start - 1
  <2>1. s \in 0..(N - 1) /\ k \in 0..(2 * N - 1)
    BY <1>1 DEF Seats
  <2>2. Distance(start, s) = k % N
    BY DEF Distance
  <2>3. k < N <=> s - start - 1 < 0
    BY <1>1, <2>1
  <2>4. k = s - start - 1 + N /\ k - N = s - start - 1
    BY <1>1, <2>1
  <2> HIDE DEF k
  <2>5. k % N = IF k < N THEN k ELSE k - N
    BY <1>2, <2>1
  <2> QED  BY <2>2, <2>3, <2>4, <2>5
<1>4. \A s \in Seats : s \in 0..(N - 1)
  BY DEF Seats
<1> QED  BY <1>1, <1>3, <1>4

(* The level below a side pot's own is the greatest that is smaller.       *)
LEMMA LevelBelowGreatest ==
  ASSUME NEW g \in Games, NEW level \in Levels(g)
  PROVE  /\ LevelBelow(g, level) \in {0} \cup Levels(g)
         /\ LevelBelow(g, level) \in Nat /\ LevelBelow(g, level) < level
         /\ \A k \in Levels(g) : k < level => k <= LevelBelow(g, level)
<1> DEFINE lower == {0} \cup {k \in Levels(g) : k < level}
           id == [k \in lower |-> k]
<1>1. level \in Nat /\ 0 < level /\ lower \subseteq Nat /\ \A k \in lower : k < level
  BY LevelType
<1>2. \A k \in lower : id[k] \in 0..level
  BY <1>1
<1>3. PICK m \in lower : \A k \in lower : id[k] <= id[m]
  <2> HIDE DEF lower, id
  <2>1. lower # {}
    BY DEF lower
  <2> QED  BY <1>1, <1>2, <2>1, GreatestValue
<1>4. \A k \in lower : k <= m
  BY <1>3
<1>5. LevelBelow(g, level) \in lower /\ \A k \in lower : k <= LevelBelow(g, level)
  BY <1>4 DEF LevelBelow
<1> QED  BY <1>1, <1>5

(* What lies between the levels up to one of them adds up to that one.     *)
LEMMA GapsAddUp ==
  ASSUME NEW g \in Games, NEW c \in Levels(g) \cup {0}
  PROVE  Total([l \in {k \in Levels(g) : k <= c} |-> l - LevelBelow(g, l)]) = c
<1> DEFINE upTo(n) == {k \in Levels(g) : k <= n}
           gap == [l \in Levels(g) |-> l - LevelBelow(g, l)]
           bad == {n \in Levels(g) \cup {0} : Total([l \in upTo(n) |-> gap[l]]) # n}
<1>1. Levels(g) \subseteq Nat \ {0} /\ IsFiniteSet(Levels(g))
  BY LevelType, LevelsFinite
<1>2. gap \in [Levels(g) -> Nat]
  BY <1>1, LevelBelowGreatest
<1>3. bad = {}
  <2> SUFFICES ASSUME bad # {} PROVE FALSE
    OBVIOUS
  <2>1. bad \subseteq Nat
    BY <1>1
  <2>2. PICK n \in bad : \A m \in bad : n <= m
    <3> HIDE DEF bad
    <3> QED  BY <2>1, NatMinimum
  <2>3. CASE n = 0
    <3>1. upTo(0) = {}
      BY <1>1
    <3>2. Total([l \in upTo(0) |-> gap[l]]) = 0
      BY <3>1, TotalOfNone
    <3> QED  BY <2>2, <2>3, <3>2
  <2>4. CASE n \in Levels(g)
    <3> DEFINE m == LevelBelow(g, n)
    <3>1. /\ m \in {0} \cup Levels(g) /\ m \in Nat /\ m < n
          /\ \A k \in Levels(g) : k < n => k <= m
      BY <2>4, LevelBelowGreatest
    <3>2. Total([l \in upTo(m) |-> gap[l]]) = m
      <4>1. n \in Nat /\ ~(n <= m)
        BY <2>1, <2>2, <3>1
      <4> HIDE DEF m, upTo, gap
      <4> QED  BY <2>2, <3>1, <4>1
    <3>3. upTo(n) \ {n} = upTo(m) /\ n \in upTo(n)
      BY <1>1, <2>4, <3>1
    <3>4. upTo(n) \in SUBSET Levels(g)
      OBVIOUS
    <3>5. gap[n] = n - m
      BY <2>4
    <3> HIDE DEF upTo, gap, m
    <3>6. Total([l \in upTo(n) |-> gap[l]]) = Total([l \in upTo(n) \ {n} |-> gap[l]]) + gap[n]
      BY <1>1, <1>2, <3>3, <3>4, TotalOfPart
    <3>7. Total([l \in upTo(n) |-> gap[l]]) = n
      BY <2>1, <2>2, <3>1, <3>2, <3>3, <3>5, <3>6
    <3> QED  BY <2>2, <3>7
  <2> QED  BY <2>3, <2>4
<1>4. Total([l \in upTo(c) |-> gap[l]]) = c
  BY <1>3
<1>5. [l \in upTo(c) |-> gap[l]] = [l \in upTo(c) |-> l - LevelBelow(g, l)]
  OBVIOUS
<1> QED  BY <1>4, <1>5

\* what a seat that has committed c pays into the side pot of a level
Stake(g, c, level) == IF level <= c THEN level - LevelBelow(g, level) ELSE 0

(* Stakes in the levels are amounts of points.                             *)
LEMMA StakeType ==
  ASSUME NEW g \in Games, NEW c \in Nat, NEW level \in Levels(g)
  PROVE  Stake(g, c, level) \in Nat
BY LevelType, LevelBelowGreatest DEF Stake

(* Whoever has committed up to a level has paid that much into the side pots. *)
LEMMA StakesAddUp ==
  ASSUME NEW g \in Games, NEW c \in Levels(g) \cup {0}
  PROVE  Total([l \in Levels(g) |-> Stake(g, c, l)]) = c
<1> DEFINE up == {k \in Levels(g) : k <= c}
           f == [l \in Levels(g) |-> Stake(g, c, l)]
<1>1. IsFiniteSet(Levels(g)) /\ c \in Nat
  BY LevelType, LevelsFinite
<1>2. f \in [Levels(g) -> Nat]
  BY <1>1, StakeType
<1>3. /\ \A l \in Levels(g) \ up : f[l] = 0
      /\ [l \in up |-> f[l]] = [l \in up |-> l - LevelBelow(g, l)]
  BY DEF Stake
<1> HIDE DEF f
<1>4. Total(f) = Total([l \in up |-> f[l]])
  BY <1>1, <1>2, <1>3, TotalWithin
<1>5. Total(f) = c
  BY <1>3, <1>4, GapsAddUp
<1> QED  BY <1>5 DEF f

\* nobody has points at a seat where nobody sits
EmptySeats(g) ==
  \A s \in Seats \ g.seated :
    g.stack[s] = 0 /\ g.allocated[s] = 0 /\ g.handCommitted[s] = 0

(* A side pot is the sum of the stakes of all seats in its level.          *)
LEMMA SidePotStakes ==
  ASSUME NEW g \in Games, EmptySeats(g), NEW level \in Levels(g)
  PROVE  SidePotAmount(g, level) = Total([s \in Seats |-> Stake(g, g.handCommitted[s], level)])
<1> DEFINE in == Contributors(g, level)
           n == level - LevelBelow(g, level)
<1>1. in \in SUBSET Seats /\ n \in Nat /\ level \in Nat \ {0}
  BY LevelType, LevelBelowGreatest DEF Contributors, Games
<1>2. \A s \in Seats : s \in in <=> level <= g.handCommitted[s]
  BY <1>1 DEF Contributors, EmptySeats, Games
<1>3. [s \in Seats |-> Stake(g, g.handCommitted[s], level)]
      = [s \in Seats |-> IF s \in in THEN n ELSE 0]
  BY <1>2 DEF Stake
<1>4. SidePotAmount(g, level) = n * Cardinality(in)
  BY DEF SidePotAmount
<1> HIDE DEF in, n
<1>5. Total([s \in Seats |-> IF s \in in THEN n ELSE 0]) = Cardinality(in) * n
  BY <1>1, SeatsFinite, TotalOfSome
<1>6. Cardinality(in) \in Nat
  BY <1>1, SeatsFinite, FS_Subset, FS_CardinalityType
<1>7. n * Cardinality(in) = Cardinality(in) * n
  BY <1>1, <1>6
<1> QED  BY <1>3, <1>4, <1>5, <1>7

(* The side pots divide the pot.                                           *)
LEMMA SidePotsDividePot ==
  ASSUME NEW g \in Games, EmptySeats(g)
  PROVE  Total([l \in Levels(g) |-> SidePotAmount(g, l)]) = Pot(g)
<1> DEFINE h == [s \in Seats |-> [l \in Levels(g) |-> Stake(g, g.handCommitted[s], l)]]
<1>1. h \in [Seats -> [Levels(g) -> Nat]]
  BY StakeType DEF Games
<1>2. \A s \in Seats : Total(h[s]) = g.handCommitted[s]
  <2> TAKE s \in Seats
  <2>1. g.handCommitted[s] \in Levels(g) \cup {0}
    BY DEF Levels, EmptySeats, Games
  <2> QED  BY <2>1, StakesAddUp
<1>3. \A l \in Levels(g) : Total([s \in Seats |-> h[s][l]]) = SidePotAmount(g, l)
  <2> TAKE l \in Levels(g)
  <2>1. [s \in Seats |-> h[s][l]] = [s \in Seats |-> Stake(g, g.handCommitted[s], l)]
    OBVIOUS
  <2> QED  BY <2>1, SidePotStakes
<1> HIDE DEF h
<1>4. Total([s \in Seats |-> Total(h[s])]) = Total([l \in Levels(g) |-> Total([s \in Seats |-> h[s][l]])])
  BY <1>1, SeatsFinite, LevelsFinite, TotalByColumns
<1>5. [s \in Seats |-> Total(h[s])] = g.handCommitted
  BY <1>2 DEF Games
<1>6. [l \in Levels(g) |-> Total([s \in Seats |-> h[s][l]])] = [l \in Levels(g) |-> SidePotAmount(g, l)]
  BY <1>3
<1> QED  BY <1>4, <1>5, <1>6 DEF Pot

(* Somebody wins a side pot for which anybody competes.                    *)
LEMMA SomebodyWins ==
  ASSUME NEW g \in Games, NEW level \in Levels(g), NEW rank \in Rankings(g), Eligible(g, level) # {}
  PROVE  Winners(g, level, rank) # {} /\ Winners(g, level, rank) \in SUBSET Seats
<1>1. Eligible(g, level) \subseteq g.seated \ g.folded /\ Eligible(g, level) \subseteq Seats
  BY DEF Eligible, Contributors, Games
<1>2. IsFiniteSet(g.seated \ g.folded)
  BY SeatsFinite, FS_Subset DEF Games
<1>3. \A s \in Eligible(g, level) : rank[s] \in Nat
  <2>1. Cardinality(g.seated \ g.folded) \in Nat
    BY <1>2, FS_CardinalityType
  <2> QED  BY <1>1, <2>1 DEF Rankings
<1>4. \E s \in Eligible(g, level) : \A t \in Eligible(g, level) : rank[s] <= rank[t]
  BY <1>3, LeastValue
<1> QED  BY <1>1, <1>4 DEF Winners

(* The shares of a side pot, odd points included, are all of it.           *)
LEMMA SharesOfSidePot ==
  ASSUME NEW g \in Games, NEW level \in Levels(g), NEW rank \in Rankings(g), Eligible(g, level) # {}
  PROVE  Total([s \in Seats |-> Share(g, level, rank, s)]) = SidePotAmount(g, level)
<1> DEFINE won == Winners(g, level, rank)
           amount == SidePotAmount(g, level)
           d == [s \in won |-> Distance(g.button, s)]
           first == FirstOf(won, d, amount % Cardinality(won))
<1>1. won # {} /\ won \in SUBSET Seats /\ amount \in Nat /\ N - 1 \in Nat
  BY SomebodyWins, SidePotAmountType, SeatCountAssumption
<1>2. /\ d \in [won -> 0..(N - 1)]
      /\ \A s, t \in won : d[s] = d[t] => s = t
  <2>1. g.button \in Seats \cup {None}
    BY DEF Games
  <2> QED  BY <1>1, <2>1, DistanceInjective
<1>3. \A s \in won : {w \in won : Distance(g.button, w) < Distance(g.button, s)} = {w \in won : d[w] < d[s]}
  OBVIOUS
<1>4. \A s \in won : Cardinality({w \in won : Distance(g.button, w) < Distance(g.button, s)})
                       < amount % Cardinality(won) <=> s \in first
  BY <1>3 DEF FirstOf
<1>5. \A s \in Seats : Share(g, level, rank, s) =
        IF s \notin won THEN 0
        ELSE amount \div Cardinality(won) + (IF s \in first THEN 1 ELSE 0)
  BY <1>4 DEF Share
<1> HIDE DEF won, amount, d
<1>6. Total([s \in Seats |-> IF s \notin won THEN 0
                     ELSE amount \div Cardinality(won) + (IF s \in first THEN 1 ELSE 0)]) = amount
  BY <1>1, <1>2, SeatsFinite, SharesAddUp
<1>7. Total([s \in Seats |-> Share(g, level, rank, s)]) = amount
  BY <1>5, <1>6
<1> QED  BY <1>7 DEF amount

-----------------------------------------------------------------------------
(* The books: what is known of a table whose points add up.                *)

\* what a seat had committed before the current street
Prior(g, s) == g.handCommitted[s] - g.streetCommitted[s]

\* a player with cards who is neither out nor all-in can act
Live(g) ==
  /\ g.dealt \cap g.away = {}
  /\ g.dealt \ (g.folded \cup g.allIn) \subseteq CanAct(g)

\* on the earlier streets nobody has committed more than one who can act now
Ahead(g) ==
  \A s \in CanAct(g) \cap g.dealt, t \in Seats : Prior(g, t) <= Prior(g, s)

\* nobody has committed more to the pot than one who can act now
Top(g) ==
  \A s \in CanAct(g) \cap g.dealt, t \in Seats : g.handCommitted[t] <= g.handCommitted[s]

\* between hands there is no pot and no turn
AtRest(g) == ~InHand(g) => g.handCommitted = NoPoints /\ g.actor = None

Books(g) ==
  /\ DealtSeats(g) /\ EmptySeats(g) /\ AtRest(g)
  /\ g.street \in BettingStreets => Live(g) /\ Ahead(g)

\* A showdown that failed with two players all-in: some side pots may have
\* been paid, and no fold can end the hand any more.
Locked(g) == Stuck(g) /\ \E s, t \in RemainingNotFolded(g) \cap g.allIn : s # t

\* who has put points into a pot without having been dealt cards
Strangers(g) == {s \in Seats \ g.dealt : g.handCommitted[s] > 0}

Worth(g) == PointsInPlay(g) - Total(g.allocated)

\* h keeps books when g does, and no points were made or lost on the way from
\* g to h, except that points may be lost where `odd' strangers had some in
Keeps(g, h, odd) ==
  /\ Books(h)
  /\ Strangers(h) \subseteq odd
  /\ Locked(g) => Locked(h)
  /\ \/ Locked(h)
     \/ Worth(h) = Worth(g)
     \/ odd # {} /\ Worth(h) <= Worth(g)

(* The points in play and those allocated are numbers.                     *)
LEMMA WorthType ==
  ASSUME NEW g \in Games
  PROVE  /\ Total(g.stack) \in Nat /\ Total(g.handCommitted) \in Nat
         /\ Total(g.allocated) \in Nat /\ Worth(g) \in Int
<1>1. /\ g.stack \in [Seats -> Nat] /\ g.handCommitted \in [Seats -> Nat]
      /\ g.allocated \in [Seats -> Nat]
  BY DEF Games
<1>2. Total(g.stack) \in Nat /\ Total(g.handCommitted) \in Nat /\ Total(g.allocated) \in Nat
  BY <1>1, SeatsFinite, TotalType
<1> QED  BY <1>2 DEF Worth, PointsInPlay

(* Books that are kept by one step after another are kept.                 *)
LEMMA KeepsOn ==
  ASSUME NEW g \in Games, NEW h, NEW k, NEW odd, Keeps(g, h, odd), Keeps(h, k, odd)
  PROVE  Keeps(g, k, odd)
<1>1. Worth(g) \in Int /\ Worth(h) \in Int /\ Worth(k) \in Int
  BY WorthType DEF Keeps, Books, DealtSeats
<1> QED  BY <1>1 DEF Keeps

\* h differs from g in nothing that the books are about
SameBooks(g, h) ==
  /\ h \in Games
  /\ h.seated = g.seated /\ h.away = g.away /\ h.leaving = g.leaving
  /\ h.dealt = g.dealt /\ h.folded = g.folded /\ h.allIn = g.allIn
  /\ h.stack = g.stack /\ h.allocated = g.allocated
  /\ h.streetCommitted = g.streetCommitted /\ h.handCommitted = g.handCommitted
  /\ h.street = g.street
  /\ InHand(g) \/ h.actor = g.actor

(* Books that differ in nothing a player owns stay the same books.         *)
LEMMA SameBooksKeep ==
  ASSUME NEW g, Books(g), NEW h, SameBooks(g, h)
  PROVE  /\ Keeps(g, h, Strangers(g)) /\ Strangers(h) = Strangers(g)
         /\ RemainingNotFolded(h) = RemainingNotFolded(g) /\ CanAct(h) = CanAct(g)
         /\ InHand(h) = InHand(g)
<1>1. CanAct(h) = CanAct(g) /\ RemainingNotFolded(h) = RemainingNotFolded(g)
  BY DEF SameBooks, CanAct, Funded, RemainingNotFolded
<1>2. InHand(h) = InHand(g) /\ Stuck(h) = Stuck(g)
  BY DEF SameBooks, InHand, Stuck
<1>3. Live(g) => Live(h)
  BY <1>1 DEF SameBooks, Live
<1>4. Ahead(g) => Ahead(h)
  BY <1>1 DEF SameBooks, Ahead, Prior
<1>5. AtRest(h) /\ EmptySeats(h) /\ DealtSeats(h)
  BY <1>2 DEF SameBooks, Books, AtRest, EmptySeats, DealtSeats
<1>6. Books(h)
  BY <1>3, <1>4, <1>5 DEF SameBooks, Books
<1>7. Strangers(h) = Strangers(g) /\ Worth(h) = Worth(g) /\ (Locked(g) => Locked(h))
  BY <1>1, <1>2 DEF SameBooks, Strangers, Worth, PointsInPlay, Locked
<1> QED  BY <1>1, <1>2, <1>6, <1>7 DEF Keeps

(* finishHand clears the pot and the turn.                                 *)
LEMMA FinishHandBooks ==
  ASSUME NEW g \in Games, DealtSeats(g), EmptySeats(g)
  PROVE  LET h == FinishHand(g) IN
         /\ Books(h) /\ Strangers(h) = {} /\ ~Locked(h)
         /\ Worth(h) = Total(g.stack) - Total(g.allocated)
<1> DEFINE h == FinishHand(g)
<1>1. DealtSeats(h)
  BY FinishHandFair DEF FairGame
<1>2. /\ h.street = "settled" /\ h.actor = None /\ h.handCommitted = NoPoints
      /\ h.stack = g.stack /\ h.allocated = g.allocated /\ h.seated = g.seated
  BY DEF FinishHand, Games
<1> HIDE DEF h
<1>3. EmptySeats(h) /\ AtRest(h)
  BY <1>2 DEF EmptySeats, AtRest, NoPoints
<1>4. Books(h)
  BY <1>1, <1>2, <1>3 DEF Books, BettingStreets
<1>5. Strangers(h) = {} /\ ~Locked(h)
  BY <1>2 DEF Strangers, NoPoints, Locked, Stuck
<1>6. Total(h.handCommitted) = 0
  <2>1. Total([s \in Seats |-> 0]) = Cardinality(Seats) * 0
    BY SeatsFinite, TotalOfEqual
  <2>2. Cardinality(Seats) \in Nat
    BY SeatsFinite, FS_CardinalityType
  <2> QED  BY <1>2, <2>1, <2>2 DEF NoPoints
<1>7. Worth(h) = Total(g.stack) - Total(g.allocated)
  BY <1>2, <1>6, WorthType DEF Worth, PointsInPlay
<1> QED  BY <1>4, <1>5, <1>7 DEF h

(* Two players left means more than one.                                   *)
LEMMA TwoAreNotOne ==
  ASSUME NEW g \in Games, Cardinality(RemainingNotFolded(g)) = 1
  PROVE  /\ ~Locked(g)
         /\ \E s : RemainingNotFolded(g) = {s}
<1>1. IsFiniteSet(RemainingNotFolded(g))
  <2>1. RemainingNotFolded(g) \in SUBSET Seats
    BY DEF RemainingNotFolded, Games
  <2> QED  BY <2>1, SeatsFinite, FS_Subset
<1>2. \E s : RemainingNotFolded(g) = {s}
  BY <1>1, FS_Singleton
<1> QED  BY <1>2 DEF Locked

(* The last player left takes the whole pot; it is lost only when nobody who *)
(* was dealt cards is left.                                                  *)
LEMMA FinishByFoldBooks ==
  ASSUME NEW g, Books(g), Cardinality(RemainingNotFolded(g)) = 1
  PROVE  Keeps(g, FinishByFold(g), Strangers(g))
<1> DEFINE W == (g.seated \cap g.dealt) \ (g.folded \cup g.away)
           w == NextSeat(None, W)
           st == [g.stack EXCEPT ![w] = @ + Pot(g)]
           po == [NoPoints EXCEPT ![w] = Pot(g)]
           paid == [g EXCEPT !.stack = st, !.payouts = po]
<1>1. g \in Games /\ DealtSeats(g) /\ EmptySeats(g) /\ ~Locked(g)
  BY TwoAreNotOne DEF Books, DealtSeats
<1>2. W \in SUBSET Seats /\ w \in W \cup {None}
  <2>1. W \in SUBSET Seats
    BY <1>1 DEF Games
  <2> QED  BY <2>1, NextSeatType
<1>3. /\ Total(g.stack) \in Nat /\ Total(g.handCommitted) \in Nat
      /\ Total(g.allocated) \in Nat /\ Pot(g) = Total(g.handCommitted)
  BY <1>1, WorthType DEF Pot
<1>4. Worth(g) = Total(g.stack) + Total(g.handCommitted) - Total(g.allocated)
  BY <1>3 DEF Worth, PointsInPlay
<1>5. CASE w = None
  <2>1. FinishByFold(g) = FinishHand(g)
    BY <1>5 DEF FinishByFold
  <2>2. Strangers(g) # {}
    <3>1. PICK s : RemainingNotFolded(g) = {s}
      BY <1>1, TwoAreNotOne
    <3>2. /\ s \in g.seated /\ s \notin g.folded /\ s \notin g.away /\ s \in Seats
          /\ g.handCommitted[s] > 0 \/ s \in g.dealt
      BY <1>1, <3>1 DEF RemainingNotFolded, Games
    <3>3. W = {}
      <4> HIDE DEF W
      <4>1. None \notin W
        BY <1>2, SeatCountAssumption DEF Seats, None
      <4> QED  BY <1>2, <1>5, <4>1, NextSeatMember
    <3> QED  BY <3>2, <3>3 DEF Strangers
  <2> QED  BY <1>1, <1>3, <1>4, <2>1, <2>2, FinishHandBooks DEF Keeps
<1>6. CASE w # None
  <2>1. w \in Seats /\ w \in g.seated
    BY <1>2, <1>6
  <2>2. FinishByFold(g) = FinishHand(paid)
    BY <1>1, <1>6 DEF FinishByFold, Games
  <2>3. Total(st) = Total(g.stack) + Pot(g)
    <3>1. g.stack \in [Seats -> Nat] /\ g.stack[w] \in Nat /\ g.stack[w] + Pot(g) \in Nat
      BY <1>1, <1>3, <2>1 DEF Games
    <3>2. Total([g.stack EXCEPT ![w] = g.stack[w] + Pot(g)])
          = Total(g.stack) - g.stack[w] + (g.stack[w] + Pot(g))
      BY <2>1, <3>1, SeatsFinite, TotalExcept
    <3>3. st = [g.stack EXCEPT ![w] = g.stack[w] + Pot(g)]
      OBVIOUS
    <3> HIDE DEF st, w
    <3> QED  BY <1>3, <3>1, <3>2, <3>3
  <2>4. /\ st \in [Seats -> Nat] /\ po \in [Seats -> Nat]
        /\ \A s \in Seats \ g.seated : st[s] = g.stack[s]
    <3>1. g.stack \in [Seats -> Nat] /\ Pot(g) \in Nat /\ g.seated \in SUBSET Seats
      BY <1>1, <1>3 DEF Games
    <3> HIDE DEF w
    <3> QED  BY <2>1, <3>1 DEF NoPoints
  <2> HIDE DEF st, po, w
  <2>5. /\ paid \in Games /\ paid.dealt = g.dealt /\ paid.seated = g.seated
        /\ paid.stack = st /\ paid.allocated = g.allocated
        /\ paid.handCommitted = g.handCommitted
    BY <1>1, <2>4 DEF Games
  <2> HIDE DEF paid
  <2>6. DealtSeats(paid) /\ EmptySeats(paid)
    BY <1>1, <2>4, <2>5 DEF DealtSeats, EmptySeats
  <2>7. /\ Books(FinishHand(paid)) /\ Strangers(FinishHand(paid)) = {}
        /\ ~Locked(FinishHand(paid))
        /\ Worth(FinishHand(paid)) = Total(paid.stack) - Total(paid.allocated)
    BY <2>5, <2>6, FinishHandBooks
  <2>8. Worth(FinishHand(paid)) = Worth(g)
    BY <1>3, <1>4, <2>3, <2>5, <2>7
  <2> QED  BY <1>1, <2>2, <2>7, <2>8 DEF Keeps
<1> QED  BY <1>5, <1>6

(* Nobody wins at a seat where nobody sits.                                *)
LEMMA NoShareOfEmptySeat ==
  ASSUME NEW g \in Games, NEW rank, NEW s \in Seats \ g.seated
  PROVE  Total([level \in PaidLevels(g) |-> Share(g, level, rank, s)]) = 0
<1>1. \A level \in PaidLevels(g) : Share(g, level, rank, s) = 0
  BY DEF Share, Winners, Eligible, Contributors
<1>2. [level \in PaidLevels(g) |-> Share(g, level, rank, s)] = [level \in PaidLevels(g) |-> 0]
  BY <1>1
<1>3. IsFiniteSet(PaidLevels(g))
  BY LevelsFinite, FS_Subset DEF PaidLevels
<1>4. Total([level \in PaidLevels(g) |-> 0]) = Cardinality(PaidLevels(g)) * 0
  BY <1>3, TotalOfEqual
<1>5. Cardinality(PaidLevels(g)) \in Nat
  BY <1>3, FS_CardinalityType
<1> QED  BY <1>2, <1>4, <1>5

(* A showdown that can pay every side pot pays out the pot.                *)
LEMMA ShowdownPaysPot ==
  ASSUME NEW g \in Games, EmptySeats(g), NEW rank \in Rankings(g),
         PaidLevels(g) = Levels(g)
  PROVE  Total([s \in Seats |-> Total([level \in PaidLevels(g) |-> Share(g, level, rank, s)])])
         = Pot(g)
<1> DEFINE h == [s \in Seats |-> [l \in Levels(g) |-> Share(g, l, rank, s)]]
<1>1. h \in [Seats -> [Levels(g) -> Nat]]
  BY ShareType
<1>2. \A l \in Levels(g) : Total([s \in Seats |-> h[s][l]]) = SidePotAmount(g, l)
  <2> TAKE l \in Levels(g)
  <2>1. l \in Nat /\ l <= l
    BY LevelType
  <2>2. Eligible(g, l) # {}
    BY <2>1 DEF PaidLevels, Payable
  <2>3. [s \in Seats |-> h[s][l]] = [s \in Seats |-> Share(g, l, rank, s)]
    OBVIOUS
  <2> QED  BY <2>2, <2>3, SharesOfSidePot
<1>3. [s \in Seats |-> Total([level \in PaidLevels(g) |-> Share(g, level, rank, s)])]
      = [s \in Seats |-> Total(h[s])]
  <2>1. \A s \in Seats : [level \in PaidLevels(g) |-> Share(g, level, rank, s)] = h[s]
    OBVIOUS
  <2> HIDE DEF h
  <2> QED  BY <2>1
<1> HIDE DEF h
<1>4. Total([s \in Seats |-> Total(h[s])]) = Total([l \in Levels(g) |-> Total([s \in Seats |-> h[s][l]])])
  BY <1>1, SeatsFinite, LevelsFinite, TotalByColumns
<1>5. [l \in Levels(g) |-> Total([s \in Seats |-> h[s][l]])] = [l \in Levels(g) |-> SidePotAmount(g, l)]
  BY <1>2
<1> QED  BY <1>3, <1>4, <1>5, SidePotsDividePot

(* A showdown that pays some side pots and fails at another leaves only      *)
(* players who are all-in, and more than one of them.                        *)
LEMMA PartlyPaidLocks ==
  ASSUME NEW g, DealtSeats(g), EmptySeats(g), Live(g), Top(g),
         Cardinality(RemainingNotFolded(g)) # 1,
         PaidLevels(g) # {}, PaidLevels(g) # Levels(g)
  PROVE  \E s, t \in RemainingNotFolded(g) \cap g.allIn : s # t
<1>1. g \in Games /\ g.dealt \subseteq g.seated /\ g.seated \subseteq Seats
  BY DEF DealtSeats, Games
<1>2. Levels(g) \subseteq Nat \ {0}
  BY <1>1, LevelType
<1>3. PICK f \in Levels(g) : ~Payable(g, f) /\ \A k \in Levels(g) : k < f => Payable(g, k)
  <2> DEFINE bad == {k \in Levels(g) : ~Payable(g, k)}
  <2>1. bad # {}
    BY DEF PaidLevels
  <2>2. PICK f \in bad : \A k \in bad : f <= k
    <3>1. bad \subseteq Nat
      BY <1>2
    <3> HIDE DEF bad
    <3> QED  BY <2>1, <3>1, NatMinimum
  <2>3. \A k \in Levels(g) : k < f => k \notin bad
    <3> SUFFICES ASSUME NEW k \in Levels(g), k < f, k \in bad PROVE FALSE
      OBVIOUS
    <3>1. f <= k /\ k \in Nat /\ f \in Nat
      BY <1>2, <2>2
    <3> QED  BY <3>1
  <2> QED  BY <2>2, <2>3
<1>4. PICK p \in Levels(g) : p < f /\ Payable(g, p)
  <2>1. PICK p \in Levels(g) : \A k \in Levels(g) : k <= p => Payable(g, k)
    BY DEF PaidLevels
  <2>2. p \in Nat /\ f \in Nat /\ p <= p
    BY <1>2
  <2>3. ~(f <= p)
    BY <1>3, <2>1
  <2> QED  BY <2>1, <2>2, <2>3
<1>5. f \in Nat /\ p \in Nat
  BY <1>2
<1>6. \A s \in g.seated : g.handCommitted[s] \in Nat
  BY <1>1 DEF Games
<1>7. Eligible(g, f) = {}
  <2>1. Eligible(g, f) \subseteq Eligible(g, p)
    BY <1>4, <1>5, <1>6 DEF Eligible, Contributors
  <2> QED  BY <1>3, <1>4, <2>1 DEF Payable
<1>8. \A s \in g.seated \ g.folded : g.handCommitted[s] < f
  BY <1>5, <1>6, <1>7 DEF Eligible, Contributors
<1>9. g.dealt \ g.folded \subseteq g.allIn
  <2> SUFFICES ASSUME NEW s \in g.dealt \ g.folded, s \notin g.allIn PROVE FALSE
    OBVIOUS
  <2>1. s \in CanAct(g) \cap g.dealt
    BY DEF Live
  <2>2. PICK t \in g.seated : g.handCommitted[t] = f
    BY DEF Levels
  <2>3. g.handCommitted[t] <= g.handCommitted[s]
    BY <1>1, <2>1 DEF Top
  <2> QED  BY <1>1, <1>5, <1>6, <1>8, <2>2, <2>3
<1>10. RemainingNotFolded(g) = g.dealt \ g.folded
  <2>1. ASSUME NEW s \in g.seated \ g.folded, g.handCommitted[s] > 0 PROVE s \in g.dealt
    <3> DEFINE k == g.handCommitted[s]
    <3>1. k \in Levels(g) /\ k < f /\ k <= k
      BY <1>6, <1>8, <2>1 DEF Levels
    <3>2. s \in Eligible(g, k) /\ Eligible(g, k) \subseteq g.dealt
      BY <1>3, <3>1 DEF Payable, Eligible, Contributors
    <3> QED  BY <3>2
  <2> QED  BY <1>1, <2>1 DEF RemainingNotFolded, Live
<1>11. PICK s : s \in RemainingNotFolded(g)
  BY <1>4, <1>10 DEF Payable, Eligible
<1>12. RemainingNotFolded(g) # {s}
  BY FS_Singleton
<1> QED  BY <1>9, <1>10, <1>11, <1>12

(* A showdown pays out the pot, leaves it, or cannot be undone by a fold.  *)
LEMMA ShowdownBooks ==
  ASSUME NEW g, DealtSeats(g), EmptySeats(g), Live(g), Top(g),
         g.street \in BettingStreets, Cardinality(RemainingNotFolded(g)) # 1,
         NEW h \in Showdown(g)
  PROVE  Keeps(g, h, Strangers(g))
<1>1. PICK rank \in Rankings(g) : h = ShowdownResult(g, rank)
  BY DEF Showdown
<1> DEFINE levels == PaidLevels(g)
           amount == [s \in Seats |->
                        Total([level \in levels |-> Share(g, level, rank, s)])]
           st == [s \in Seats |-> g.stack[s] + amount[s]]
           po == [s \in Seats |-> g.payouts[s] + amount[s]]
           paid == [g EXCEPT !.street = "showdown", !.stack = st, !.payouts = po]
<1>2. g \in Games
  BY DEF DealtSeats
<1>3. levels \subseteq Levels(g) /\ IsFiniteSet(levels)
  BY <1>2, LevelsFinite, FS_Subset DEF PaidLevels
<1>4. amount \in [Seats -> Nat]
  <2> SUFFICES ASSUME NEW s \in Seats
               PROVE  Total([level \in levels |-> Share(g, level, rank, s)]) \in Nat
    OBVIOUS
  <2>1. [level \in levels |-> Share(g, level, rank, s)] \in [levels -> Nat]
    BY <1>2, <1>3, ShareType
  <2> HIDE DEF levels
  <2> QED  BY <1>3, <2>1, TotalType
<1>5. \A s \in Seats \ g.seated : amount[s] = 0
  BY <1>2, NoShareOfEmptySeat
<1>6. levels = Levels(g) => Total(amount) = Pot(g)
  BY <1>2, ShowdownPaysPot
<1>7. levels = {} => \A s \in Seats : amount[s] = 0
  <2> SUFFICES ASSUME levels = {}, NEW s \in Seats PROVE amount[s] = 0
    OBVIOUS
  <2>1. DOMAIN [level \in levels |-> Share(g, level, rank, s)] = {}
    OBVIOUS
  <2> HIDE DEF levels
  <2> QED  BY <2>1, TotalOfNone
<1>8. h = IF levels = Levels(g) THEN FinishHand(paid) ELSE paid
  BY <1>1, <1>2 DEF ShowdownResult, Games
<1>9. g.stack \in [Seats -> Nat] /\ g.payouts \in [Seats -> Nat]
  BY <1>2 DEF Games
<1> HIDE DEF amount
<1>10. /\ st \in [Seats -> Nat] /\ po \in [Seats -> Nat]
       /\ Total(st) = Total(g.stack) + Total(amount)
       /\ \A s \in Seats \ g.seated : st[s] = g.stack[s]
       /\ levels = {} => st = g.stack
  <2>1. Total(st) = Total(g.stack) + Total(amount)
    BY <1>4, <1>9, SeatsFinite, TotalOfSums
  <2> HIDE DEF levels
  <2>2. st \in [Seats -> Nat] /\ po \in [Seats -> Nat]
    BY <1>4, <1>9
  <2>3. \A s \in Seats \ g.seated : st[s] = g.stack[s]
    BY <1>5, <1>9
  <2>4. levels = {} => st = g.stack
    BY <1>7, <1>9
  <2> QED  BY <2>1, <2>2, <2>3, <2>4
<1> HIDE DEF st, po, levels
<1>11. /\ paid \in Games /\ paid.street = "showdown" /\ paid.dealt = g.dealt
       /\ paid.seated = g.seated /\ paid.folded = g.folded /\ paid.away = g.away
       /\ paid.allIn = g.allIn /\ paid.stack = st /\ paid.allocated = g.allocated
       /\ paid.handCommitted = g.handCommitted
  BY <1>2, <1>10 DEF Games, Streets
<1> HIDE DEF paid
<1>12. DealtSeats(paid) /\ EmptySeats(paid)
  BY <1>10, <1>11 DEF DealtSeats, EmptySeats
<1>13. ~Locked(g)
  BY DEF Locked, Stuck, BettingStreets
<1>14. /\ Total(g.stack) \in Nat /\ Total(g.handCommitted) \in Nat
       /\ Total(g.allocated) \in Nat
  BY <1>2, WorthType
<1>15. Worth(g) = Total(g.stack) + Total(g.handCommitted) - Total(g.allocated)
  BY <1>14 DEF Worth, PointsInPlay
<1>16. CASE levels = Levels(g)
  <2>1. /\ Books(h) /\ Strangers(h) = {} /\ ~Locked(h)
        /\ Worth(h) = Total(paid.stack) - Total(paid.allocated)
    BY <1>8, <1>11, <1>12, <1>16, FinishHandBooks
  <2>2. Worth(h) = Worth(g)
    BY <1>6, <1>10, <1>11, <1>14, <1>15, <1>16, <2>1 DEF Pot
  <2> QED  BY <1>13, <2>1, <2>2 DEF Keeps
<1>17. CASE levels # Levels(g)
  <2>1. h = paid /\ InHand(h)
    BY <1>8, <1>11, <1>17 DEF InHand
  <2>2. Books(h)
    BY <1>11, <1>12, <2>1 DEF Books, AtRest, BettingStreets
  <2>3. Strangers(h) = Strangers(g)
    BY <1>11, <2>1 DEF Strangers
  <2>4. CASE levels = {}
    BY <1>10, <1>11, <1>13, <2>1, <2>2, <2>3, <2>4 DEF Keeps, Worth, PointsInPlay
  <2>5. CASE levels # {}
    <3>1. \E s, t \in RemainingNotFolded(g) \cap g.allIn : s # t
      BY <1>17, <2>5, PartlyPaidLocks DEF levels
    <3>2. RemainingNotFolded(h) = RemainingNotFolded(g)
      BY <1>11, <2>1 DEF RemainingNotFolded
    <3>3. Locked(h)
      BY <1>11, <2>1, <3>1, <3>2 DEF Locked, Stuck
    <3> QED  BY <2>2, <2>3, <3>3 DEF Keeps
  <2> QED  BY <2>4, <2>5
<1> QED  BY <1>16, <1>17

(* A new street is opened on the books of the one before: whoever can act  *)
(* has as much in the pot as anybody.                                      *)
LEMMA StreetOpenedBooks ==
  ASSUME NEW g, Books(g), Top(g), g.street \in DOMAIN NextStreet
  PROVE  LET o == StreetOpened(g) IN
         /\ Keeps(g, o, Strangers(g)) /\ Strangers(o) = Strangers(g)
         /\ o.street \in BettingStreets /\ Live(o) /\ Top(o)
         /\ RemainingNotFolded(o) = RemainingNotFolded(g)
<1> DEFINE o == StreetOpened(g)
<1>1. g \in Games /\ o \in Games /\ g.street \in BettingStreets
  BY StreetOpenedType DEF Books, DealtSeats, NextStreet, BettingStreets
<1>2. /\ o.seated = g.seated /\ o.away = g.away /\ o.leaving = g.leaving
      /\ o.dealt = g.dealt /\ o.folded = g.folded /\ o.allIn = g.allIn
      /\ o.stack = g.stack /\ o.allocated = g.allocated
      /\ o.streetCommitted = NoPoints /\ o.handCommitted = g.handCommitted
      /\ o.street = NextStreet[g.street]
  BY <1>1 DEF StreetOpened, Games
<1>3. o.street \in BettingStreets
  BY <1>2 DEF NextStreet, BettingStreets
<1> HIDE DEF o
<1>4. CanAct(o) = CanAct(g) /\ RemainingNotFolded(o) = RemainingNotFolded(g)
  BY <1>2 DEF CanAct, Funded, RemainingNotFolded
<1>5. Live(o) /\ Top(o)
  BY <1>1, <1>2, <1>4 DEF Books, Live, Top
<1>6. Ahead(o)
  <2> SUFFICES ASSUME NEW s \in CanAct(o) \cap o.dealt, NEW t \in Seats
               PROVE  Prior(o, t) <= Prior(o, s)
    BY DEF Ahead
  <2>1. s \in Seats
    BY <1>1 DEF Games
  <2>2. Prior(o, t) = o.handCommitted[t] /\ Prior(o, s) = o.handCommitted[s]
    BY <1>1, <1>2, <2>1 DEF Prior, NoPoints, Games
  <2> QED  BY <1>5, <2>2 DEF Top
<1>7. Books(o)
  BY <1>1, <1>2, <1>3, <1>5, <1>6
     DEF Books, DealtSeats, EmptySeats, AtRest, InHand
<1>8. Strangers(o) = Strangers(g) /\ Worth(o) = Worth(g) /\ ~Locked(g)
  BY <1>1, <1>2 DEF Strangers, Worth, PointsInPlay, Locked, Stuck, BettingStreets
<1> QED  BY <1>3, <1>4, <1>5, <1>7, <1>8 DEF Keeps, o

(* advanceStreet keeps the books, from where nobody owes an answer.        *)
LEMMA AdvanceStreetBooks ==
  ASSUME NEW g, Books(g), g.street \in BettingStreets => Top(g),
         Cardinality(RemainingNotFolded(g)) # 1, NEW h \in AdvanceStreet(g)
  PROVE  Keeps(g, h, Strangers(g))
<1>1. g \in Games
  BY DEF Books, DealtSeats
<1>2. CASE g.street = "river"
  <2>1. h \in Showdown(g) /\ g.street \in BettingStreets
    BY <1>2 DEF AdvanceStreet, BettingStreets
  <2> QED  BY <2>1, ShowdownBooks DEF Books
<1>3. CASE g.street # "river" /\ g.street \notin DOMAIN NextStreet
  <2>1. h = g
    BY <1>3 DEF AdvanceStreet
  <2> QED  BY <1>1, <2>1, SameBooksKeep DEF SameBooks
<1>4. CASE g.street \in DOMAIN NextStreet
  <2> DEFINE o == StreetOpened(g)
             a == NextSeat(o.button, o.pending)
             r == [o EXCEPT !.actor = a]
  <2>1. g.street \in BettingStreets /\ g.street # "river"
    BY <1>4 DEF NextStreet, BettingStreets
  <2>2. /\ Keeps(g, o, Strangers(g)) /\ Strangers(o) = Strangers(g)
        /\ o.street \in BettingStreets /\ Live(o) /\ Top(o)
        /\ Cardinality(RemainingNotFolded(o)) # 1
    BY <1>4, <2>1, StreetOpenedBooks
  <2>3. o \in Games /\ Books(o)
    BY <2>2 DEF Keeps, Books, DealtSeats
  <2>4. CASE AtMostOne(o.pending)
    <3>1. h \in Showdown(o)
      BY <1>4, <2>1, <2>4 DEF AdvanceStreet
    <3> HIDE DEF o
    <3>2. Keeps(o, h, Strangers(g))
      BY <2>2, <2>3, <3>1, ShowdownBooks DEF Books
    <3> QED  BY <1>1, <2>2, <3>2, KeepsOn
  <2>5. CASE ~AtMostOne(o.pending)
    <3>1. h = r
      BY <1>4, <2>1, <2>5 DEF AdvanceStreet
    <3> HIDE DEF o
    <3>2. a \in Seats \cup {None}
      BY <2>3, NextSeatType DEF Games
    <3> HIDE DEF a
    <3>3. SameBooks(o, r)
      BY <2>2, <2>3, <3>2 DEF SameBooks, InHand, Games
    <3> HIDE DEF r
    <3>4. Keeps(o, r, Strangers(g))
      BY <2>2, <2>3, <3>3, SameBooksKeep
    <3> QED  BY <1>1, <2>2, <3>1, <3>4, KeepsOn
  <2> QED  BY <2>4, <2>5
<1> QED  BY <1>2, <1>3, <1>4

(* When nobody owes an answer, whoever can act has matched the bet and so  *)
(* has as much in the pot as anybody.                                      *)
LEMMA MatchedIsTop ==
  ASSUME NEW g \in Games, Ahead(g), Capped(g), NEW asked, Matched(g, asked),
         asked \cap CanAct(g) = {}
  PROVE  Top(g)
<1> SUFFICES ASSUME NEW s \in CanAct(g) \cap g.dealt, NEW t \in Seats
             PROVE  g.handCommitted[t] <= g.handCommitted[s]
  BY DEF Top
<1>1. s \in Seats
  BY DEF Games
<1>2. g.streetCommitted[s] = g.currentBet /\ g.streetCommitted[t] <= g.currentBet
  BY DEF Matched, Capped
<1>3. g.handCommitted[t] - g.streetCommitted[t] <= g.handCommitted[s] - g.streetCommitted[s]
  BY DEF Ahead, Prior
<1>4. /\ g.handCommitted[s] \in Nat /\ g.handCommitted[t] \in Nat
      /\ g.streetCommitted[s] \in Nat /\ g.streetCommitted[t] \in Nat
  BY <1>1 DEF Games
<1> QED  BY <1>2, <1>3, <1>4

(* The end of a turn keeps the books.                                      *)
LEMMA FinishActionBooks ==
  ASSUME NEW g, Books(g), InHand(g), NEW s \in Seats, NEW raised, NEW fullRaise,
         TurnMatched(g, s, raised, fullRaise),
         NEW r \in FinishAction(g, s, raised, fullRaise)
  PROVE  Keeps(g, r, Strangers(g))
<1> DEFINE asked == PendingAfter(g, s, raised, fullRaise) \cap CanAct(g)
           acted == [g.actedAtBet EXCEPT ![s] = g.currentBet]
           h == [g EXCEPT !.pending = asked, !.actedAtBet = acted]
           a == NextSeat(s, h.pending)
           t == [h EXCEPT !.actor = a]
<1>1. g \in Games
  BY DEF Books, DealtSeats
<1>2. asked \in SUBSET Seats /\ acted \in [Seats -> Nat \cup {-1}]
  BY <1>1, CanActType DEF Games
<1>3. r \in (IF Cardinality(RemainingNotFolded(g)) = 1 THEN {FinishByFold(h)}
             ELSE IF h.pending = {} THEN AdvanceStreet(h)
             ELSE {[h EXCEPT !.actor = NextSeat(s, h.pending)]})
  BY <1>1 DEF FinishAction, Games
<1>4. g.street \in BettingStreets /\ asked = {} => Top(g)
  BY <1>1, MatchedIsTop DEF TurnMatched, Books
<1> HIDE DEF asked, acted
<1>5. SameBooks(g, h) /\ h.pending = asked
  BY <1>1, <1>2 DEF SameBooks, Games
<1>6. Top(g) => Top(h)
  BY <1>5, SameBooksKeep DEF Top, SameBooks
<1> HIDE DEF h
<1>7. /\ Keeps(g, h, Strangers(g)) /\ Strangers(h) = Strangers(g)
      /\ RemainingNotFolded(h) = RemainingNotFolded(g) /\ InHand(h)
      /\ h \in Games /\ h.street = g.street
  BY <1>5, SameBooksKeep DEF SameBooks
<1>8. Books(h)
  BY <1>7 DEF Keeps
<1>9. CASE Cardinality(RemainingNotFolded(g)) = 1
  <2>1. Keeps(h, r, Strangers(g))
    BY <1>3, <1>7, <1>8, <1>9, FinishByFoldBooks
  <2> QED  BY <1>1, <1>7, <2>1, KeepsOn
<1>10. CASE Cardinality(RemainingNotFolded(g)) # 1 /\ h.pending = {}
  <2>1. Keeps(h, r, Strangers(g))
    BY <1>3, <1>4, <1>5, <1>6, <1>7, <1>8, <1>10, AdvanceStreetBooks
  <2> QED  BY <1>1, <1>7, <2>1, KeepsOn
<1>11. CASE Cardinality(RemainingNotFolded(g)) # 1 /\ h.pending # {}
  <2>1. r = t
    BY <1>3, <1>11
  <2>2. a \in Seats \cup {None}
    BY <1>2, <1>5, NextSeatType
  <2> HIDE DEF a
  <2>3. SameBooks(h, t)
    BY <1>7, <2>2 DEF SameBooks, Games
  <2> HIDE DEF t
  <2>4. Keeps(h, r, Strangers(g))
    BY <1>7, <1>8, <2>1, <2>3, SameBooksKeep
  <2> QED  BY <1>1, <1>7, <2>4, KeepsOn
<1> QED  BY <1>9, <1>10, <1>11

(* One step after another, each with the strangers it finds.               *)
LEMMA KeepsThen ==
  ASSUME NEW g \in Games, NEW h, NEW k, NEW odd, Keeps(g, h, odd), Keeps(h, k, Strangers(h))
  PROVE  Keeps(g, k, odd)
<1>1. Keeps(h, k, odd)
  BY DEF Keeps
<1> QED  BY <1>1, KeepsOn

\* the strangers once seat s has acted
WithStranger(g, s) == Strangers(g) \cup ({s} \ g.dealt)

(* commit moves points from the stack into the pot.                        *)
LEMMA CommitBooks ==
  ASSUME NEW g, Books(g), InHand(g), NEW s \in CanAct(g), NEW amount \in Nat
  PROVE  /\ Keeps(g, Commit(g, s, amount), WithStranger(g, s))
         /\ InHand(Commit(g, s, amount))
<1> DEFINE c == Commit(g, s, amount)
           paid == Lesser(amount, g.stack[s])
<1>1. g \in Games /\ DealtSeats(g) /\ s \in Seats /\ s \in g.seated
  BY CanActType DEF Books, DealtSeats, CanAct, Funded
<1>2. /\ c.seated = g.seated /\ c.away = g.away /\ c.leaving = g.leaving
      /\ c.dealt = g.dealt /\ c.folded = g.folded /\ c.allocated = g.allocated
      /\ c.street = g.street /\ c.actor = g.actor /\ g.allIn \subseteq c.allIn
      /\ c.stack = [g.stack EXCEPT ![s] = g.stack[s] - paid]
      /\ c.handCommitted = [g.handCommitted EXCEPT ![s] = g.handCommitted[s] + paid]
      /\ c.streetCommitted = [g.streetCommitted EXCEPT ![s] = g.streetCommitted[s] + paid]
  BY <1>1 DEF Commit, Games
<1>3. c \in Games
  BY <1>1, CommitType
<1>4. \A t \in Seats : g.stack[t] > 0 /\ t \notin c.allIn => c.stack[t] > 0
  BY <1>1, CommitKeepsFunds
<1>5. /\ paid \in Nat /\ g.stack[s] - paid \in Nat
      /\ g.stack \in [Seats -> Nat] /\ g.handCommitted \in [Seats -> Nat]
      /\ g.streetCommitted \in [Seats -> Nat]
      /\ g.stack[s] \in Nat /\ g.handCommitted[s] \in Nat /\ g.handCommitted[s] + paid \in Nat
  BY <1>1 DEF Games, Lesser
<1> HIDE DEF c, paid
<1>6. Total(c.stack) = Total(g.stack) - g.stack[s] + (g.stack[s] - paid)
  BY <1>1, <1>2, <1>5, SeatsFinite, TotalExcept
<1>7. Total(c.handCommitted) = Total(g.handCommitted) - g.handCommitted[s] + (g.handCommitted[s] + paid)
  BY <1>1, <1>2, <1>5, SeatsFinite, TotalExcept
<1>8. Worth(c) = Worth(g)
  <2>1. /\ Total(g.stack) \in Nat /\ Total(g.handCommitted) \in Nat
        /\ Total(g.allocated) \in Nat
    BY <1>1, WorthType
  <2> QED  BY <1>2, <1>5, <1>6, <1>7, <2>1 DEF Worth, PointsInPlay
<1>9. CanAct(c) \subseteq CanAct(g)
  <2>1. ASSUME NEW t \in CanAct(c) PROVE g.stack[t] > 0
    BY <1>1, <1>2, <1>5, <1>3, <2>1 DEF CanAct, Funded, Games
  <2> QED  BY <1>1, <1>2, <2>1 DEF CanAct, Funded
<1>10. Live(g) => Live(c)
  <2>1. ASSUME Live(g), NEW t \in c.dealt \ (c.folded \cup c.allIn) PROVE t \in CanAct(c)
    <3>1. t \in CanAct(g) /\ t \in Seats
      BY <1>1, <1>2, <2>1 DEF Live, Games
    <3>2. c.stack[t] > 0
      BY <1>4, <2>1, <3>1 DEF CanAct, Funded
    <3> QED  BY <1>2, <2>1, <3>1, <3>2 DEF CanAct, Funded
  <2> QED  BY <1>2, <2>1 DEF Live
<1>11. \A t \in Seats : Prior(c, t) = Prior(g, t)
  BY <1>1, <1>2, <1>5 DEF Prior
<1>12. Ahead(g) => Ahead(c)
  BY <1>2, <1>3, <1>9, <1>11 DEF Ahead, Games
<1>13. EmptySeats(c)
  BY <1>1, <1>2 DEF Books, EmptySeats
<1>14. InHand(c) /\ AtRest(c) /\ DealtSeats(c)
  BY <1>1, <1>2, <1>3 DEF InHand, AtRest, DealtSeats
<1>15. Books(c)
  BY <1>2, <1>10, <1>12, <1>13, <1>14 DEF Books
<1>16. Strangers(c) \subseteq WithStranger(g, s)
  BY <1>2 DEF Strangers, WithStranger
<1>17. Locked(g) => Locked(c)
  <2>1. RemainingNotFolded(g) \subseteq RemainingNotFolded(c)
    BY <1>1, <1>2, <1>5 DEF RemainingNotFolded, Games
  <2> QED  BY <1>2, <2>1 DEF Locked, Stuck
<1> QED  BY <1>8, <1>14, <1>15, <1>16, <1>17 DEF Keeps, c

(* A check or a call keeps the books.                                      *)
LEMMA CheckOrCallBooks ==
  ASSUME NEW g, FairGame(g), Books(g), InHand(g), NEW s \in CanAct(g),
         NEW r \in CheckOrCall(g, s)
  PROVE  Keeps(g, r, WithStranger(g, s))
<1> DEFINE c == Commit(g, s, ToCall(g, s))
<1>1. g \in Games /\ s \in Seats /\ ToCall(g, s) \in Nat
  BY CanActType, ToCallType DEF Books, DealtSeats
<1>2. Keeps(g, c, WithStranger(g, s)) /\ InHand(c) /\ TurnMatched(c, s, FALSE, FALSE)
  BY <1>1, CommitBooks, CheckOrCallMatches
<1>3. r \in FinishAction(c, s, FALSE, FALSE)
  BY DEF CheckOrCall
<1> HIDE DEF c
<1>4. Keeps(c, r, Strangers(c))
  BY <1>1, <1>2, <1>3, FinishActionBooks DEF Keeps
<1> QED  BY <1>1, <1>2, <1>4, KeepsThen

(* Who folds, perhaps to leave the table, was not all-in.                  *)
LEMMA FoldOneBooks ==
  ASSUME NEW g, Books(g), NEW h \in Games, NEW s \in Seats \ g.allIn,
         SameBooks(g, [h EXCEPT !.folded = g.folded, !.leaving = g.leaving]),
         h.folded = g.folded \cup {s}, h.leaving \in {g.leaving, g.leaving \cup {s}}
  PROVE  Keeps(g, h, Strangers(g)) /\ Strangers(h) = Strangers(g) /\ InHand(h) = InHand(g)
<1> DEFINE k == [h EXCEPT !.folded = g.folded, !.leaving = g.leaving]
<1>1. /\ Keeps(g, k, Strangers(g)) /\ Strangers(k) = Strangers(g)
      /\ InHand(k) = InHand(g) /\ Books(k)
  BY SameBooksKeep DEF Keeps
<1>2. /\ k \in Games /\ k.seated = h.seated /\ k.away = h.away
      /\ k.dealt = h.dealt /\ k.folded = g.folded /\ k.leaving = g.leaving
      /\ k.stack = h.stack /\ k.allocated = h.allocated
      /\ k.streetCommitted = h.streetCommitted /\ k.handCommitted = h.handCommitted
      /\ k.street = h.street /\ k.actor = h.actor
      /\ k.allIn = h.allIn /\ k.allIn = g.allIn
  BY DEF Games, SameBooks
<1> HIDE DEF k
<1>3. CanAct(h) = CanAct(k) \ {s} /\ RemainingNotFolded(h) = RemainingNotFolded(k) \ {s}
  BY <1>2 DEF CanAct, Funded, RemainingNotFolded
<1>4. (Live(k) => Live(h)) /\ (Ahead(k) => Ahead(h))
  BY <1>2, <1>3 DEF Live, Ahead, Prior
<1>5. Books(h)
  BY <1>1, <1>2, <1>4 DEF Books, DealtSeats, EmptySeats, AtRest, InHand
<1>6. Locked(k) => Locked(h)
  BY <1>2, <1>3 DEF Locked, Stuck
<1>7. Worth(h) = Worth(k) /\ Strangers(h) = Strangers(k) /\ InHand(h) = InHand(k)
  BY <1>2 DEF Worth, PointsInPlay, Strangers, InHand
<1>8. Keeps(k, h, Strangers(g))
  BY <1>1, <1>5, <1>6, <1>7 DEF Keeps
<1>9. g \in Games
  BY DEF Books, DealtSeats
<1> QED  BY <1>1, <1>7, <1>8, <1>9, KeepsOn

(* A fold keeps the books.                                                 *)
LEMMA FoldBooks ==
  ASSUME NEW g, FairGame(g), Books(g), InHand(g), NEW s \in CanAct(g), NEW r \in Fold(g, s)
  PROVE  Keeps(g, r, Strangers(g))
<1> DEFINE h == [g EXCEPT !.folded = @ \cup {s}]
<1>1. g \in Games /\ s \in Seats \ g.allIn
  BY CanActType DEF Books, DealtSeats, CanAct
<1>2. /\ h \in Games /\ h.folded = g.folded \cup {s} /\ h.leaving = g.leaving
      /\ SameBooks(g, [h EXCEPT !.folded = g.folded, !.leaving = g.leaving])
  BY <1>1 DEF Games, SameBooks
<1>3. TurnMatched(h, s, FALSE, FALSE) /\ r \in FinishAction(h, s, FALSE, FALSE)
  BY <1>1, FoldMatches DEF Fold
<1> HIDE DEF h
<1>4. Keeps(g, h, Strangers(g)) /\ InHand(h) /\ Books(h)
  BY <1>1, <1>2, FoldOneBooks DEF Keeps
<1>5. Keeps(h, r, Strangers(h))
  BY <1>1, <1>3, <1>4, FinishActionBooks
<1> QED  BY <1>1, <1>4, <1>5, KeepsThen

(* A raise keeps the books.                                                *)
LEMMA RaiseBooks ==
  ASSUME NEW g, FairGame(g), Books(g), InHand(g), NEW s \in CanAct(g), NEW raiseBy \in Nat,
         ToCall(g, s) + raiseBy <= g.stack[s], NEW r \in Raise(g, s, raiseBy)
  PROVE  Keeps(g, r, WithStranger(g, s))
<1> DEFINE c == Commit(g, s, ToCall(g, s) + raiseBy)
           h == [c EXCEPT !.currentBet = @ + raiseBy, !.minimumRaiseBy = raiseBy]
<1>1. g \in Games /\ s \in Seats /\ ToCall(g, s) + raiseBy \in Nat
  BY CanActType, ToCallType DEF Books, DealtSeats
<1>2. Keeps(g, c, WithStranger(g, s)) /\ InHand(c)
  BY <1>1, CommitBooks
<1>3. TurnMatched(h, s, TRUE, TRUE)
  BY <1>1, RaiseMatches
<1>4. r \in FinishAction(h, s, TRUE, TRUE)
  BY DEF Raise
<1> HIDE DEF c
<1>5. c \in Games /\ Books(c)
  BY <1>2 DEF Keeps, Books, DealtSeats
<1>6. SameBooks(c, h)
  BY <1>2, <1>3, <1>5 DEF SameBooks, Games, TurnMatched, DealtSeats
<1> HIDE DEF h
<1>7. Keeps(c, h, Strangers(c)) /\ InHand(h) /\ Books(h)
  BY <1>2, <1>5, <1>6, SameBooksKeep DEF Keeps
<1>8. Keeps(h, r, Strangers(h))
  BY <1>1, <1>3, <1>4, <1>7, FinishActionBooks
<1> QED  BY <1>1, <1>2, <1>5, <1>7, <1>8, KeepsThen

(* An all-in keeps the books.                                              *)
LEMMA AllInBooks ==
  ASSUME NEW g, FairGame(g), Books(g), InHand(g), NEW s \in CanAct(g), NEW r \in AllIn(g, s)
  PROVE  Keeps(g, r, WithStranger(g, s))
<1> DEFINE total == g.streetCommitted[s] + g.stack[s]
           raiseBy == Greater(0, total - g.currentBet)
           fullRaise == raiseBy >= g.minimumRaiseBy
           c == Commit(g, s, g.stack[s])
           h == [c EXCEPT !.currentBet = Greater(@, total),
                          !.minimumRaiseBy = IF raiseBy > 0 /\ fullRaise THEN raiseBy ELSE @]
<1>1. g \in Games /\ s \in Seats /\ g.stack[s] \in Nat
  BY CanActType DEF Books, DealtSeats, Games
<1>2. Keeps(g, c, WithStranger(g, s)) /\ InHand(c)
  BY <1>1, CommitBooks
<1>3. TurnMatched(h, s, raiseBy > 0, fullRaise)
  BY <1>1, AllInMatches
<1>4. r \in FinishAction(h, s, raiseBy > 0, fullRaise)
  BY DEF AllIn
<1> HIDE DEF c, fullRaise, raiseBy, total
<1>5. c \in Games /\ Books(c)
  BY <1>2 DEF Keeps, Books, DealtSeats
<1>6. SameBooks(c, h)
  BY <1>2, <1>3, <1>5 DEF SameBooks, Games, TurnMatched, DealtSeats
<1> HIDE DEF h
<1>7. Keeps(c, h, Strangers(c)) /\ InHand(h) /\ Books(h)
  BY <1>2, <1>5, <1>6, SameBooksKeep DEF Keeps
<1>8. Keeps(h, r, Strangers(h))
  BY <1>1, <1>3, <1>4, <1>7, FinishActionBooks
<1> QED  BY <1>1, <1>2, <1>5, <1>7, <1>8, KeepsThen

(* The action timer keeps the books.                                       *)
LEMMA TimeoutBooks ==
  ASSUME NEW g, FairGame(g), Books(g), InHand(g), NEW s \in CanAct(g), NEW r \in Timeout(g, s)
  PROVE  Keeps(g, r, WithStranger(g, s))
<1>1. CASE r \in CheckOrCall(g, s)
  BY <1>1, CheckOrCallBooks
<1>2. CASE r \in Fold(g, s)
  BY <1>2, FoldBooks DEF Keeps, WithStranger
<1> QED  BY <1>1, <1>2 DEF Timeout

(* A departure keeps the books: an all-in stake stays in the pot, any other  *)
(* one is folded.                                                          *)
LEMMA WithdrawBooks ==
  ASSUME NEW g, FairGame(g), Books(g), NEW s \in Seats, NEW r \in Withdraw(g, s)
  PROVE  Keeps(g, r, Strangers(g))
<1> DEFINE gone == [g EXCEPT !.leaving = @ \cup {s}, !.disconnected = @ \ {s}]
           out == [gone EXCEPT !.folded = @ \cup {s}]
           unasked == [out EXCEPT !.pending = @ \ {s}]
           pruned == [unasked EXCEPT !.pending = @ \cap CanAct(unasked)]
<1>1. g \in Games /\ DealtSeats(g)
  BY DEF Books, DealtSeats
<1>2. CASE ~InHand(g)
  <2> DEFINE h == [gone EXCEPT !.away = @ \cup {s}]
  <2>1. r = h
    BY <1>2 DEF Withdraw
  <2>2. /\ h \in Games /\ h.seated = g.seated /\ h.dealt = g.dealt /\ h.stack = g.stack
        /\ h.allocated = g.allocated /\ h.handCommitted = g.handCommitted
        /\ h.street = g.street /\ h.actor = g.actor
    BY <1>1 DEF Games
  <2> HIDE DEF h
  <2>3. Books(h)
    BY <1>1, <1>2, <2>2 DEF Books, DealtSeats, EmptySeats, AtRest, InHand
  <2>4. ~Locked(g) /\ Worth(h) = Worth(g) /\ Strangers(h) = Strangers(g)
    BY <1>2, <2>2 DEF Locked, Stuck, InHand, Worth, PointsInPlay, Strangers
  <2> QED  BY <2>1, <2>3, <2>4 DEF Keeps
<1>3. CASE InHand(g) /\ s \in g.allIn
  <2>1. r = gone
    BY <1>3 DEF Withdraw
  <2>2. /\ gone \in Games /\ gone.seated = g.seated /\ gone.away = g.away
        /\ gone.leaving = g.leaving \cup {s}
        /\ gone.dealt = g.dealt /\ gone.folded = g.folded /\ gone.allIn = g.allIn
        /\ gone.stack = g.stack /\ gone.allocated = g.allocated
        /\ gone.streetCommitted = g.streetCommitted /\ gone.handCommitted = g.handCommitted
        /\ gone.street = g.street /\ gone.actor = g.actor
    BY <1>1 DEF Games
  <2> HIDE DEF gone
  <2>3. CanAct(gone) = CanAct(g) /\ RemainingNotFolded(gone) = RemainingNotFolded(g)
    BY <1>3, <2>2 DEF CanAct, Funded, RemainingNotFolded
  <2>4. Books(gone)
    BY <1>1, <2>2, <2>3
       DEF Books, DealtSeats, EmptySeats, AtRest, InHand, Live, Ahead, Prior
  <2>5. /\ Locked(g) => Locked(gone)
        /\ Worth(gone) = Worth(g) /\ Strangers(gone) = Strangers(g)
    BY <2>2, <2>3 DEF Locked, Stuck, Worth, PointsInPlay, Strangers
  <2> QED  BY <2>1, <2>4, <2>5 DEF Keeps
<1>4. CASE InHand(g) /\ s \notin g.allIn
  <2>1. /\ out \in Games /\ out.folded = g.folded \cup {s}
        /\ out.leaving = g.leaving \cup {s}
        /\ SameBooks(g, [out EXCEPT !.folded = g.folded, !.leaving = g.leaving])
        /\ out.pending = g.pending /\ out.dealt = g.dealt /\ out.street = g.street
        /\ out.streetCommitted = g.streetCommitted /\ out.currentBet = g.currentBet
        /\ out.seated = g.seated /\ CanAct(out) = CanAct(g) \ {s}
    BY <1>1, <1>4 DEF Games, SameBooks, CanAct, Funded
  <2>2. /\ s = g.actor => r \in FinishAction(out, s, FALSE, FALSE)
        /\ s # g.actor /\ Cardinality(RemainingNotFolded(unasked)) = 1 =>
             r = FinishByFold(unasked)
        /\ s # g.actor /\ Cardinality(RemainingNotFolded(unasked)) # 1 =>
             r \in IF pruned.pending = {} THEN AdvanceStreet(pruned) ELSE {pruned}
    BY <1>4 DEF Withdraw
  <2> HIDE DEF out, gone
  <2>3. /\ Keeps(g, out, Strangers(g)) /\ InHand(out) /\ Books(out)
    BY <1>1, <1>4, <2>1, FoldOneBooks DEF Keeps
  <2>4. /\ SameBooks(out, unasked) /\ unasked.pending = g.pending \ {s}
        /\ unasked.currentBet = out.currentBet
    BY <2>1, <2>3, SMTT(30) DEF SameBooks, Games
  <2> HIDE DEF unasked
  <2>5. /\ Keeps(out, unasked, Strangers(out)) /\ Books(unasked) /\ InHand(unasked)
        /\ unasked \in Games /\ CanAct(unasked) = CanAct(out)
    BY <2>3, <2>4, SameBooksKeep DEF Keeps, SameBooks
  <2>6. Keeps(g, unasked, Strangers(g))
    BY <1>1, <2>3, <2>5, KeepsThen
  <2>7. /\ SameBooks(unasked, pruned)
        /\ pruned.pending = unasked.pending \cap CanAct(unasked)
        /\ pruned.currentBet = unasked.currentBet
    BY <2>5 DEF SameBooks, Games
  <2> HIDE DEF pruned
  <2>8. /\ Keeps(unasked, pruned, Strangers(unasked)) /\ Books(pruned) /\ InHand(pruned)
        /\ pruned \in Games /\ CanAct(pruned) = CanAct(unasked)
        /\ RemainingNotFolded(pruned) = RemainingNotFolded(unasked)
    BY <2>5, <2>7, SameBooksKeep DEF Keeps, SameBooks
  <2>9. Keeps(g, pruned, Strangers(g))
    BY <1>1, <2>6, <2>8, KeepsThen
  <2>10. CASE s = g.actor
    <3>1. TurnMatched(out, s, FALSE, FALSE)
      BY <1>1, <2>1
         DEF FairGame, Capped, Matched, PendingAfter, TurnMatched, DealtSeats
    <3>2. Keeps(out, r, Strangers(out))
      BY <2>2, <2>3, <2>10, <3>1, FinishActionBooks
    <3> QED  BY <1>1, <2>3, <3>2, KeepsThen
  <2>11. CASE s # g.actor /\ Cardinality(RemainingNotFolded(unasked)) = 1
    <3>1. Keeps(unasked, r, Strangers(unasked))
      BY <2>2, <2>5, <2>11, FinishByFoldBooks
    <3> QED  BY <1>1, <2>6, <3>1, KeepsThen
  <2>12. CASE s # g.actor /\ Cardinality(RemainingNotFolded(unasked)) # 1 /\ pruned.pending # {}
    BY <2>2, <2>9, <2>12
  <2>13. CASE s # g.actor /\ Cardinality(RemainingNotFolded(unasked)) # 1 /\ pruned.pending = {}
    <3>1. pruned.street \in BettingStreets => Top(pruned)
      <4> SUFFICES ASSUME pruned.street \in BettingStreets PROVE Top(pruned)
        OBVIOUS
      <4>1. /\ pruned.street = g.street /\ pruned.dealt = g.dealt
            /\ pruned.streetCommitted = g.streetCommitted
            /\ pruned.currentBet = g.currentBet /\ CanAct(pruned) = CanAct(g) \ {s}
        BY <2>1, <2>4, <2>5, <2>7, <2>8 DEF SameBooks
      <4>2. Capped(pruned) /\ Matched(pruned, g.pending)
        BY <4>1 DEF FairGame, Capped, Matched
      <4>3. g.pending \cap CanAct(pruned) = {}
        BY <2>1, <2>4, <2>5, <2>7, <2>8, <2>13
      <4> QED  BY <2>8, <4>2, <4>3, MatchedIsTop DEF Books
    <3>2. Keeps(pruned, r, Strangers(pruned))
      BY <2>2, <2>8, <2>13, <3>1, AdvanceStreetBooks
    <3> QED  BY <1>1, <2>9, <3>2, KeepsThen
  <2> QED  BY <2>10, <2>11, <2>12, <2>13
<1> QED  BY <1>2, <1>3, <1>4

(* Points and allocation added to one seat leave the table worth the same. *)
LEMMA BuyInWorth ==
  ASSUME NEW g \in Games, NEW h \in Games, NEW s \in Seats, NEW n \in Nat,
         h.stack = [g.stack EXCEPT ![s] = g.stack[s] + n],
         h.allocated = [g.allocated EXCEPT ![s] = g.allocated[s] + n],
         h.handCommitted = g.handCommitted
  PROVE  Worth(h) = Worth(g)
<1>1. /\ g.stack \in [Seats -> Nat] /\ g.allocated \in [Seats -> Nat]
      /\ g.stack[s] \in Nat /\ g.allocated[s] \in Nat
      /\ g.stack[s] + n \in Nat /\ g.allocated[s] + n \in Nat
  BY DEF Games
<1>2. Total(h.stack) = Total(g.stack) - g.stack[s] + (g.stack[s] + n)
  BY <1>1, SeatsFinite, TotalExcept
<1>3. Total(h.allocated) = Total(g.allocated) - g.allocated[s] + (g.allocated[s] + n)
  BY <1>1, SeatsFinite, TotalExcept
<1> QED  BY <1>1, <1>2, <1>3, WorthType DEF Worth, PointsInPlay

(* A newcomer brings the points that are allocated to him, and no cards.   *)
LEMMA SitBooks ==
  ASSUME NEW g, Books(g), NEW s \in Seats \ g.seated
  PROVE  Keeps(g, Sit(g, s), Strangers(g))
<1> DEFINE h == Sit(g, s)
<1>1. g \in Games /\ g.dealt \subseteq g.seated /\ InitialTablePoints \in Nat
  BY PointsAssumption DEF Books, DealtSeats
<1>2. h \in Games
  BY <1>1 DEF Games, Sit
<1>3. /\ g.stack \in [Seats -> Nat] /\ g.allocated \in [Seats -> Nat]
      /\ g.stack[s] = 0 /\ g.allocated[s] = 0
  BY <1>1 DEF Books, EmptySeats, Games
<1>4. /\ h.seated = g.seated \cup {s} /\ h.away = g.away /\ h.leaving = g.leaving
      /\ h.dealt = g.dealt /\ h.folded = g.folded /\ h.allIn = g.allIn
      /\ h.stack = [g.stack EXCEPT ![s] = InitialTablePoints]
      /\ h.allocated = [g.allocated EXCEPT ![s] = InitialTablePoints]
      /\ h.streetCommitted = g.streetCommitted /\ h.handCommitted = g.handCommitted
      /\ h.street = g.street /\ h.actor = g.actor
  BY <1>1 DEF Sit, Games
<1> HIDE DEF h
<1>5. Worth(h) = Worth(g)
  <2>1. /\ h.stack = [g.stack EXCEPT ![s] = g.stack[s] + InitialTablePoints]
        /\ h.allocated = [g.allocated EXCEPT ![s] = g.allocated[s] + InitialTablePoints]
    BY <1>1, <1>3, <1>4
  <2> QED  BY <1>1, <1>2, <1>4, <2>1, BuyInWorth
<1>6. CanAct(h) \cap h.dealt = CanAct(g) \cap g.dealt /\ CanAct(g) \subseteq CanAct(h)
  BY <1>1, <1>3, <1>4 DEF CanAct, Funded
<1>7. (Live(g) => Live(h)) /\ (Ahead(g) => Ahead(h))
  BY <1>4, <1>6 DEF Live, Ahead, Prior
<1>8. EmptySeats(h)
  BY <1>3, <1>4 DEF Books, EmptySeats
<1>9. Books(h)
  BY <1>1, <1>2, <1>4, <1>7, <1>8 DEF Books, DealtSeats, AtRest, InHand
<1>10. Locked(g) => Locked(h)
  BY <1>4 DEF Locked, Stuck, RemainingNotFolded
<1>11. Strangers(h) = Strangers(g)
  BY <1>4 DEF Strangers
<1> QED  BY <1>5, <1>9, <1>10, <1>11 DEF Keeps, h

(* A refill between hands adds what it allocates.                          *)
LEMMA RefillBooks ==
  ASSUME NEW g, Books(g), ~InHand(g), NEW s \in g.seated
  PROVE  Keeps(g, Refill(g, s), Strangers(g))
<1> DEFINE h == Refill(g, s)
<1>1. g \in Games /\ s \in Seats /\ InitialTablePoints \in Nat
  BY PointsAssumption DEF Books, DealtSeats, Games
<1>2. h \in Games
  BY <1>1, RefillGood DEF GoodGame
<1>3. /\ h.seated = g.seated /\ h.dealt = g.dealt
      /\ h.stack = [g.stack EXCEPT ![s] = g.stack[s] + InitialTablePoints]
      /\ h.allocated = [g.allocated EXCEPT ![s] = g.allocated[s] + InitialTablePoints]
      /\ h.handCommitted = g.handCommitted /\ h.street = g.street /\ h.actor = g.actor
  BY <1>1 DEF Refill, Games
<1> HIDE DEF h
<1>4. Worth(h) = Worth(g)
  BY <1>1, <1>2, <1>3, BuyInWorth
<1>5. EmptySeats(h)
  BY <1>1, <1>3 DEF Books, EmptySeats, Games
<1>6. Books(h)
  BY <1>2, <1>3, <1>5 DEF Books, DealtSeats, AtRest, InHand
<1>7. ~Locked(g) /\ Strangers(h) = Strangers(g)
  BY <1>3 DEF Locked, Stuck, InHand, Strangers
<1> QED  BY <1>4, <1>6, <1>7 DEF Keeps, h

(* StartHand clears a table that has nothing in the pot.                   *)
LEMMA HandClearedBooks ==
  ASSUME NEW g, Books(g), ~InHand(g), Available(g) # {}
  PROVE  LET c == HandCleared(g)
             p == [c EXCEPT !.street = "preflop"] IN
         /\ Keeps(g, p, {}) /\ p.dealt \subseteq CanAct(p) /\ p.button \in p.dealt
<1> DEFINE c == HandCleared(g)
           p == [c EXCEPT !.street = "preflop"]
<1>1. g \in Games /\ g.handCommitted = NoPoints /\ g.actor = None
  BY DEF Books, DealtSeats, AtRest
<1>2. c \in Games /\ c.dealt = Available(g) /\ c.dealt \subseteq CanAct(c)
  BY <1>1, HandClearedGood
<1>3. c.button \in Available(g)
  <2>1. g.button \in Seats \cup {None} /\ Available(g) \in SUBSET Seats
    BY <1>1 DEF Games, Available, Funded
  <2>2. c.button = NextSeat(g.button, Available(g))
    BY <1>1 DEF HandCleared, Games
  <2> QED  BY <2>1, <2>2, NextSeatMember
<1>4. /\ c.seated = g.seated /\ c.stack = g.stack /\ c.allocated = g.allocated
      /\ c.handCommitted = NoPoints /\ c.streetCommitted = NoPoints
      /\ c.folded = {} /\ c.leaving = g.leaving
      /\ c.away = g.away \cup (g.seated \ Funded(g))
  BY <1>1 DEF HandCleared, Games
<1> HIDE DEF c
<1>5. /\ p \in Games /\ p.dealt = c.dealt /\ p.button = c.button /\ p.seated = c.seated
      /\ p.stack = c.stack /\ p.allocated = c.allocated /\ p.away = c.away
      /\ p.handCommitted = NoPoints /\ p.streetCommitted = NoPoints
      /\ p.street = "preflop" /\ CanAct(p) = CanAct(c)
      /\ p.folded = c.folded /\ p.allIn = c.allIn
  BY <1>2, <1>4 DEF Games, CanAct, Funded, Streets, BettingStreets
<1> HIDE DEF p
<1>6. p.dealt \subseteq CanAct(p) /\ p.dealt \subseteq p.seated /\ p.dealt \cap p.away = {}
  BY <1>2, <1>5 DEF CanAct, Funded
<1>7. \A s \in Seats : Prior(p, s) = 0
  BY <1>5 DEF Prior, NoPoints
<1>8. Live(p) /\ Ahead(p)
  <2>1. Seats \cap p.dealt = p.dealt
    BY <1>5 DEF Games
  <2> QED  BY <1>6, <1>7, <2>1 DEF Live, Ahead
<1>9. EmptySeats(p)
  BY <1>4, <1>5 DEF Books, EmptySeats, NoPoints
<1>10. Books(p)
  BY <1>5, <1>6, <1>8, <1>9 DEF Books, DealtSeats, AtRest, InHand, BettingStreets
<1>11. Strangers(p) = {}
  BY <1>5 DEF Strangers, NoPoints
<1>12. Worth(p) = Worth(g) /\ ~Locked(g)
  BY <1>1, <1>4, <1>5 DEF Worth, PointsInPlay, Locked, Stuck, InHand
<1> QED  BY <1>2, <1>3, <1>5, <1>6, <1>10, <1>11, <1>12 DEF Keeps, c, p

(* commit does not look at the street.                                     *)
LEMMA CommitAnyStreet ==
  ASSUME NEW g \in Games, NEW s \in Seats, NEW amount \in Nat
  PROVE  Commit([g EXCEPT !.street = "preflop"], s, amount)
         = [Commit(g, s, amount) EXCEPT !.street = "preflop"]
<1> DEFINE st(k) == [k.stack EXCEPT ![s] = @ - Lesser(amount, k.stack[s])]
           sc(k) == [k.streetCommitted EXCEPT ![s] = @ + Lesser(amount, k.stack[s])]
           hc(k) == [k.handCommitted EXCEPT ![s] = @ + Lesser(amount, k.stack[s])]
           al(k) == IF Lesser(amount, k.stack[s]) = k.stack[s] THEN k.allIn \cup {s} ELSE k.allIn
           p == [g EXCEPT !.street = "preflop"]
<1>1. /\ p.stack = g.stack /\ p.streetCommitted = g.streetCommitted
      /\ p.handCommitted = g.handCommitted /\ p.allIn = g.allIn /\ p \in Games
  BY DEF Games, Streets, BettingStreets
<1>2. \A k \in Games : Commit(k, s, amount) = [k EXCEPT !.stack = st(k), !.streetCommitted = sc(k),
                                                       !.handCommitted = hc(k), !.allIn = al(k)]
  BY DEF Commit, Games
<1>3. st(p) = st(g) /\ sc(p) = sc(g) /\ hc(p) = hc(g) /\ al(p) = al(g)
  BY <1>1
<1> HIDE DEF st, sc, hc, al
<1>4. [p EXCEPT !.stack = st(g), !.streetCommitted = sc(g), !.handCommitted = hc(g), !.allIn = al(g)]
      = [[g EXCEPT !.stack = st(g), !.streetCommitted = sc(g), !.handCommitted = hc(g),
                   !.allIn = al(g)] EXCEPT !.street = "preflop"]
  BY DEF Games
<1> QED  BY <1>1, <1>2, <1>3, <1>4

(* The blinds do not look at the street either.                            *)
LEMMA BlindsAnyStreet ==
  ASSUME NEW g \in Games, g.dealt # {}, g.button \in Seats
  PROVE  BlindsPosted([g EXCEPT !.street = "preflop"]) = BlindsPosted(g)
<1> DEFINE p == [g EXCEPT !.street = "preflop"]
           small == IF Cardinality(g.dealt) = 2 THEN g.button
                    ELSE NextSeat(g.button, g.dealt)
           big == NextSeat(small, g.dealt)
           c1 == Commit(g, small, SmallBlind)
           c2 == Commit(c1, big, BigBlind)
           d2 == [c2 EXCEPT !.street = "preflop"]
<1>1. g.dealt \in SUBSET Seats /\ p.dealt = g.dealt /\ p.button = g.button
  BY DEF Games
<1>2. small \in Seats
  BY <1>1, NextSeatMember
<1>3. big \in Seats
  BY <1>1, <1>2, NextSeatMember
<1>4. BlindsPosted(g) = [c2 EXCEPT !.currentBet = BigBlind, !.minimumRaiseBy = BigBlind,
                            !.street = "preflop", !.pending = AskedFirst(c2),
                            !.actor = NextSeat(big, AskedFirst(c2))]
  BY DEF BlindsPosted
<1> DEFINE e2 == Commit(Commit(p, small, SmallBlind), big, BigBlind)
<1>5. BlindsPosted(p) = [e2 EXCEPT !.currentBet = BigBlind, !.minimumRaiseBy = BigBlind,
                            !.street = "preflop", !.pending = AskedFirst(e2),
                            !.actor = NextSeat(big, AskedFirst(e2))]
  BY <1>1 DEF BlindsPosted
<1> HIDE DEF small, big
<1>6. c1 \in Games /\ Commit(p, small, SmallBlind) = [c1 EXCEPT !.street = "preflop"]
  BY <1>2, CommitType, CommitAnyStreet, BlindAssumption
<1> HIDE DEF c1, p
<1>7. c2 \in Games /\ e2 = d2
  BY <1>3, <1>6, CommitType, CommitAnyStreet, BlindAssumption
<1> HIDE DEF c2, e2
<1>8. AskedFirst(d2) = AskedFirst(c2)
  BY <1>7 DEF AskedFirst, Games
<1>9. [d2 EXCEPT !.currentBet = BigBlind, !.minimumRaiseBy = BigBlind,
                 !.street = "preflop", !.pending = AskedFirst(c2),
                 !.actor = NextSeat(big, AskedFirst(c2))]
      = [c2 EXCEPT !.currentBet = BigBlind, !.minimumRaiseBy = BigBlind,
                   !.street = "preflop", !.pending = AskedFirst(c2),
                   !.actor = NextSeat(big, AskedFirst(c2))]
  BY <1>7 DEF Games
<1> QED  BY <1>4, <1>5, <1>7, <1>8, <1>9 DEF p

(* The blinds are posted by two players who were dealt in.                 *)
LEMMA BlindsPostedBooks ==
  ASSUME NEW g, Books(g), g.street = "preflop", Cardinality(g.dealt) >= 2,
         g.dealt \subseteq CanAct(g), g.button \in g.dealt
  PROVE  LET h == BlindsPosted(g) IN
         /\ Keeps(g, h, Strangers(g)) /\ Cardinality(RemainingNotFolded(h)) # 1
         /\ h.actor = None => h.pending = {}
<1> DEFINE small == IF Cardinality(g.dealt) = 2 THEN g.button
                    ELSE NextSeat(g.button, g.dealt)
           big == NextSeat(small, g.dealt)
           c1 == Commit(g, small, SmallBlind)
           c2 == Commit(c1, big, BigBlind)
           a == NextSeat(big, AskedFirst(c2))
           h == [c2 EXCEPT !.currentBet = BigBlind, !.minimumRaiseBy = BigBlind,
                           !.street = "preflop", !.pending = AskedFirst(c2), !.actor = a]
<1>1. g \in Games /\ g.dealt \in SUBSET Seats /\ g.dealt \subseteq g.seated /\ InHand(g)
  BY DEF Books, DealtSeats, Games, InHand, BettingStreets
<1>2. small \in g.dealt
  BY <1>1, NextSeatMember
<1>3. PICK t \in g.dealt : t # small
  <2> SUFFICES ASSUME g.dealt \subseteq {small} PROVE FALSE
    OBVIOUS
  <2> HIDE DEF small
  <2>1. IsFiniteSet({small}) /\ Cardinality({small}) = 1
    BY FS_Singleton
  <2>2. Cardinality(g.dealt) <= 1 /\ Cardinality(g.dealt) \in Nat
    BY <2>1, FS_Subset, FS_CardinalityType
  <2> QED  BY <2>2
<1> HIDE DEF small
<1>4. big \in g.dealt /\ big # small
  BY <1>1, <1>2, <1>3, NextSeatMember, NextSeatMoves
<1> HIDE DEF big
<1>5. /\ Keeps(g, c1, WithStranger(g, small)) /\ InHand(c1)
      /\ Pays(g, c1, small, SmallBlind)
  BY <1>1, <1>2, CommitBooks, CommitPays, BlindAssumption DEF Books
<1>6. WithStranger(g, small) = Strangers(g)
  BY <1>2 DEF WithStranger
<1> HIDE DEF c1
<1>7. c1 \in Games /\ Books(c1) /\ c1.dealt = g.dealt /\ big \in CanAct(c1)
  BY <1>4, <1>5 DEF Keeps, Pays, DealtSeats
<1>8. /\ Keeps(c1, c2, WithStranger(c1, big)) /\ InHand(c2)
      /\ Pays(c1, c2, big, BigBlind)
  BY <1>1, <1>4, <1>5, <1>7, CommitBooks, CommitPays, BlindAssumption DEF Books
<1>9. WithStranger(c1, big) = Strangers(c1)
  BY <1>4, <1>7 DEF WithStranger
<1>10. c2.away = g.away /\ c2.folded = g.folded
  BY <1>1, <1>7 DEF c1, c2, Commit, Games
<1> HIDE DEF c2
<1>11. Keeps(g, c2, Strangers(g))
  BY <1>1, <1>5, <1>6, <1>8, <1>9, KeepsThen
<1>12. c2 \in Games /\ Books(c2) /\ c2.dealt = g.dealt /\ c2.seated = g.seated
  BY <1>5, <1>7, <1>8 DEF Keeps, Pays, DealtSeats
<1>13. AskedFirst(c2) \in SUBSET Seats
  BY <1>12 DEF AskedFirst, Games
<1>14. a \in Seats \cup {None} /\ (a = None => AskedFirst(c2) = {})
  <2>1. big \in Seats /\ None \notin Seats
    BY <1>1, <1>4, SeatCountAssumption DEF Seats, None
  <2> QED  BY <1>13, <2>1, NextSeatType, NextSeatMember
<1>15. BlindsPosted(g) = h
  BY DEF BlindsPosted, c1, c2, small, big
<1> HIDE DEF a
<1>16. \A s \in g.dealt : s \in g.seated /\ s \notin g.folded /\ s \notin g.away
  BY <1>1 DEF CanAct
<1>17. SameBooks(c2, h) /\ h.actor = a /\ h.pending = AskedFirst(c2)
  BY <1>8, <1>12, <1>13, <1>14, <1>5, BlindAssumption DEF SameBooks, Pays, Games
<1> HIDE DEF h
<1>18. Keeps(c2, h, Strangers(c2)) /\ RemainingNotFolded(h) = RemainingNotFolded(c2)
  BY <1>12, <1>17, SameBooksKeep DEF Keeps
<1>19. Keeps(g, h, Strangers(g))
  BY <1>1, <1>11, <1>18, KeepsThen
<1>20. Cardinality(RemainingNotFolded(h)) # 1
  <2>1. g.dealt \subseteq RemainingNotFolded(c2)
    BY <1>10, <1>12, <1>16 DEF RemainingNotFolded
  <2> SUFFICES ASSUME Cardinality(RemainingNotFolded(c2)) = 1 PROVE FALSE
    BY <1>18
  <2>2. PICK s : RemainingNotFolded(c2) = {s}
    BY <1>12, TwoAreNotOne
  <2> QED  BY <1>3, <1>2, <2>1, <2>2
<1> QED  BY <1>14, <1>15, <1>17, <1>19, <1>20

(* A started hand keeps the books: only who was dealt in posts a blind.    *)
LEMMA StartHandBooks ==
  ASSUME NEW g, Books(g), ~InHand(g), Cardinality(Available(g)) >= 2, NEW r \in StartHand(g)
  PROVE  Keeps(g, r, {})
<1> DEFINE c == HandCleared(g)
           p == [c EXCEPT !.street = "preflop"]
           h == BlindsPosted(c)
<1>1. g \in Games /\ Available(g) # {}
  BY FS_EmptySet DEF Books, DealtSeats
<1>2. Keeps(g, p, {}) /\ p.dealt \subseteq CanAct(p) /\ p.button \in p.dealt
  BY <1>1, HandClearedBooks
<1>3. c \in Games /\ c.dealt = Available(g) /\ c.button \in Seats
  BY <1>1, HandClearedGood
<1>4. c.seated = g.seated /\ c.streetCommitted = NoPoints
  BY <1>1 DEF HandCleared, Games
<1>5. FairGame(h)
  BY <1>3, <1>4, BlindsPostedFair DEF DealtSeats, Available, Funded
<1>6. r \in IF h.actor = None THEN AdvanceStreet(h) ELSE {h}
  BY DEF StartHand
<1> HIDE DEF c
<1>7. p.dealt = c.dealt /\ p.street = "preflop"
  BY <1>3 DEF Games
<1>8. h = BlindsPosted(p)
  BY <1>1, <1>3, BlindsAnyStreet
<1> HIDE DEF p, h
<1>9. Books(p) /\ Strangers(p) = {}
  BY <1>2 DEF Keeps
<1>10. /\ Keeps(p, h, Strangers(p)) /\ Cardinality(RemainingNotFolded(h)) # 1
       /\ h.actor = None => h.pending = {}
  BY <1>2, <1>3, <1>7, <1>8, <1>9, BlindsPostedBooks
<1>11. Keeps(g, h, {}) /\ Books(h) /\ h \in Games
  BY <1>1, <1>2, <1>10, KeepsThen DEF Keeps, Books, DealtSeats
<1>12. CASE h.actor # None
  BY <1>6, <1>11, <1>12
<1>13. CASE h.actor = None
  <2>1. h.street \in BettingStreets => Top(h)
    BY <1>5, <1>10, <1>11, <1>13, MatchedIsTop DEF FairGame, Books
  <2>2. Keeps(h, r, Strangers(h))
    BY <1>6, <1>10, <1>11, <1>13, <2>1, AdvanceStreetBooks
  <2> QED  BY <1>1, <1>11, <2>2, KeepsThen
<1> QED  BY <1>12, <1>13

(* Removing the players who leave takes their net out of the table.        *)
LEMMA RemoveSeatsBooks ==
  ASSUME NEW g, FairGame(g), Books(g), NEW S \in SUBSET Seats, InHand(g) => S = {}
  PROVE  LET h == RemoveSeats(g, S) IN
         /\ Books(h) /\ Strangers(h) \subseteq Strangers(g)
         /\ Locked(g) => Locked(h)
         /\ S = {} => Worth(h) = Worth(g)
         /\ Worth(h) + Net(g, S) = Worth(g)
<1> DEFINE h == RemoveSeats(g, S)
           left(f) == [s \in Seats |-> IF s \in S THEN 0 ELSE f[s]]
<1>1. g \in Games /\ h \in Games /\ DealtSeats(h)
  BY RemoveSeatsFair DEF Books, DealtSeats, FairGame
<1>2. /\ h.seated = g.seated \ S /\ h.away = g.away \ S /\ h.leaving = g.leaving \ S
      /\ h.dealt = g.dealt \ S /\ h.folded = g.folded \ S /\ h.allIn = g.allIn \ S
      /\ h.streetCommitted = g.streetCommitted /\ h.handCommitted = g.handCommitted
      /\ h.street = g.street /\ h.actor = g.actor
      /\ h.stack = left(g.stack) /\ h.allocated = left(g.allocated)
  BY <1>1, ZenonT(60) DEF RemoveSeats, Games
<1>3. IsFiniteSet(S)
  BY SeatsFinite, FS_Subset
<1>4. ASSUME NEW f \in [Seats -> Nat]
      PROVE  /\ Total(left(f)) = Total(f) - Total([s \in S |-> f[s]])
             /\ Total(f) \in Nat /\ Total([s \in S |-> f[s]]) \in Nat
  <2> DEFINE l == left(f)
             rest == [s \in Seats \ S |-> f[s]]
             gone == [s \in S |-> f[s]]
  <2>1. /\ l \in [Seats -> Nat] /\ [s \in Seats \ S |-> l[s]] = rest
        /\ (\A s \in Seats \ (Seats \ S) : l[s] = 0)
    OBVIOUS
  <2>2. gone \in [S -> Nat] /\ rest \in [Seats \ S -> Nat]
    OBVIOUS
  <2>3. IsFiniteSet(Seats \ S)
    BY SeatsFinite, FS_Difference
  <2>4. Total(f) = Total(gone) + Total(rest)
    BY SeatsFinite, TotalSplit
  <2> HIDE DEF l, rest, gone
  <2>5. Total(l) = Total(rest)
    BY <2>1, SeatsFinite, TotalWithin
  <2>6. Total(gone) \in Nat /\ Total(rest) \in Nat
    BY <1>3, <2>2, <2>3, TotalType
  <2>7. Total(l) = Total(f) - Total(gone) /\ Total(f) \in Nat /\ Total(gone) \in Nat
    BY <2>4, <2>5, <2>6
  <2> QED  BY <2>7 DEF l, gone
<1> HIDE DEF h
<1>5. Worth(h) + Net(g, S) = Worth(g)
  <2>1. /\ g.stack \in [Seats -> Nat] /\ g.allocated \in [Seats -> Nat]
        /\ h.handCommitted = g.handCommitted
    BY <1>1, <1>2 DEF Games
  <2>2. Total(h.stack) = Total(g.stack) - Total([s \in S |-> g.stack[s]])
    BY <1>2, <1>4, <2>1
  <2>3. Total(h.allocated) = Total(g.allocated) - Total([s \in S |-> g.allocated[s]])
    BY <1>2, <1>4, <2>1
  <2>4. /\ Total(g.stack) \in Nat /\ Total(g.allocated) \in Nat
        /\ Total([s \in S |-> g.stack[s]]) \in Nat
        /\ Total([s \in S |-> g.allocated[s]]) \in Nat /\ Total(g.handCommitted) \in Nat
    BY <1>1, <1>4, <2>1, WorthType
  <2> HIDE DEF left
  <2> QED  BY <2>1, <2>2, <2>3, <2>4 DEF Worth, PointsInPlay, Net
<1>6. CASE S = {}
  <2>1. SameBooks(g, h)
    BY <1>1, <1>2, <1>6 DEF SameBooks, Games
  <2>2. Worth(h) = Worth(g)
    BY <2>1 DEF SameBooks, Worth, PointsInPlay
  <2> QED  BY <1>5, <2>1, <2>2, SameBooksKeep DEF Keeps, h
<1>7. CASE S # {}
  <2>1. ~InHand(g) /\ ~InHand(h) /\ h.handCommitted = NoPoints /\ h.actor = None
    BY <1>2, <1>7 DEF Books, AtRest, InHand
  <2>2. EmptySeats(h)
    BY <1>2, <2>1 DEF Books, EmptySeats, NoPoints
  <2>3. Books(h)
    BY <1>1, <2>1, <2>2 DEF Books, AtRest, InHand
  <2>4. Strangers(h) = {} /\ ~Locked(g)
    BY <2>1 DEF Strangers, NoPoints, Locked, Stuck, InHand
  <2> QED  BY <1>5, <1>7, <2>3, <2>4 DEF h
<1> QED  BY <1>6, <1>7

\* what a step does to the books, the accounts of those who left included
StepKeeps(odd) ==
  /\ Books(game') /\ settled' \in Int
  /\ Strangers(game') \subseteq odd
  /\ Locked(game) => Locked(game')
  /\ \/ Locked(game')
     \/ Worth(game') + settled' = Worth(game) + settled
     \/ odd # {} /\ Worth(game') + settled' <= Worth(game) + settled

(* Settling the players who leave keeps the books.                         *)
LEMMA SettlesToBooks ==
  ASSUME game \in Games, settled \in Int, NEW g, NEW odd,
         FairGame(g), Keeps(game, g, odd), SettlesTo(g)
  PROVE  StepKeeps(odd)
<1> DEFINE S == Departing(g)
<1>1. g \in Games /\ Books(g)
  BY DEF Keeps, Books, DealtSeats
<1>2. S \in SUBSET Seats /\ (InHand(g) => S = {})
  BY <1>1 DEF Departing, Games
<1>3. game' = RemoveSeats(g, S) /\ settled' = settled + Net(g, S)
  BY DEF SettlesTo
<1> HIDE DEF S
<1>4. /\ Books(game') /\ Strangers(game') \subseteq Strangers(g)
      /\ Locked(g) => Locked(game')
      /\ Worth(game') + Net(g, S) = Worth(g)
  BY <1>1, <1>2, <1>3, RemoveSeatsBooks
<1>5. /\ Worth(g) \in Int /\ Worth(game) \in Int /\ Net(g, S) \in Int
      /\ Worth(game') \in Int
  <2>1. game' \in Games
    BY <1>4 DEF Books, DealtSeats
  <2> QED  BY <1>1, <1>2, <2>1, WorthType, NetType
<1>6. Worth(game') + settled' = Worth(g) + settled /\ settled' \in Int
  BY <1>3, <1>4, <1>5
<1> QED  BY <1>4, <1>5, <1>6 DEF Keeps, StepKeeps

(* A step that settles nobody.                                             *)
LEMMA UnsettledBooks ==
  ASSUME settled \in Int, game \in Games, settled' = settled, NEW odd, Keeps(game, game', odd)
  PROVE  StepKeeps(odd)
<1>1. Worth(game) \in Int /\ Worth(game') \in Int
  BY WorthType DEF Keeps, Books, DealtSeats
<1> QED  BY <1>1 DEF Keeps, StepKeeps

\* the strangers of the table, those who may act now included
Odd == Strangers(game) \cup (IF InHand(game) THEN CanAct(game) \ game.dealt ELSE {})

(* One step of the table keeps the books: one case per handler.              *)
LEMMA StepBooks ==
  ASSUME TypeOK, FairGame(game), Books(game), [Next]_vars
  PROVE  StepKeeps(Odd)
<1>1. game \in Games /\ settled \in Int
  BY DEF TypeOK
<1>2. ASSUME NEW h, NEW odd, odd \subseteq Odd, Keeps(game, h, odd) PROVE Keeps(game, h, Odd)
  BY <1>2 DEF Keeps
<1>3. Strangers(game) \subseteq Odd
  BY DEF Odd
<1>4. ASSUME NEW h, FairGame(h), Keeps(game, h, Strangers(game)), SettlesTo(h)
      PROVE  StepKeeps(Odd)
  BY <1>1, <1>2, <1>3, <1>4, SettlesToBooks
<1>5. ASSUME NEW s \in Seats, IsActor(game, s)
      PROVE  s \in CanAct(game) /\ InHand(game) /\ WithStranger(game, s) \subseteq Odd
  <2>1. s \in CanAct(game) /\ game.actor # None
    BY <1>5, SeatCountAssumption DEF IsActor, Seats, None
  <2>2. InHand(game)
    BY <2>1 DEF Books, AtRest
  <2> QED  BY <2>1, <2>2 DEF WithStranger, Odd
<1>6. ASSUME NEW s \in Seats, IsActor(game, s), NEW h, FairGame(h),
             Keeps(game, h, WithStranger(game, s)), SettlesTo(h)
      PROVE  StepKeeps(Odd)
  BY <1>1, <1>2, <1>5, <1>6, SettlesToBooks
<1>7. ASSUME NEW s \in Seats, CallTurn(s) PROVE StepKeeps(Odd)
  <2>1. PICK h \in CheckOrCall(game, s) : SettlesTo(h)
    BY <1>7 DEF CallTurn
  <2>2. IsActor(game, s)
    BY <1>7 DEF CallTurn
  <2> QED  BY <1>5, <1>6, <2>1, <2>2, CheckOrCallFair, CheckOrCallBooks
<1>8. ASSUME NEW s \in Seats, FoldTurn(s) PROVE StepKeeps(Odd)
  <2>1. PICK h \in Fold(game, s) : SettlesTo(h)
    BY <1>8 DEF FoldTurn
  <2>2. IsActor(game, s)
    BY <1>8 DEF FoldTurn
  <2> QED  BY <1>4, <1>5, <2>1, <2>2, FoldFair, FoldBooks
<1>9. ASSUME NEW s \in Seats, AllInTurn(s) PROVE StepKeeps(Odd)
  <2>1. PICK h \in AllIn(game, s) : SettlesTo(h)
    BY <1>9 DEF AllInTurn
  <2>2. IsActor(game, s)
    BY <1>9 DEF AllInTurn
  <2> QED  BY <1>5, <1>6, <2>1, <2>2, AllInFair, AllInBooks
<1>10. ASSUME NEW s \in Seats, NEW raiseBy \in RaiseSizes, RaiseTurn(s, raiseBy)
       PROVE  StepKeeps(Odd)
  <2>1. PICK h \in Raise(game, s, raiseBy) : SettlesTo(h)
    BY <1>10 DEF RaiseTurn
  <2>2. IsActor(game, s) /\ ToCall(game, s) + raiseBy <= game.stack[s]
    BY <1>10 DEF RaiseTurn
  <2>3. raiseBy \in Nat
    BY RaiseSizesAssumption
  <2> QED  BY <1>5, <1>6, <2>1, <2>2, <2>3, RaiseFair, RaiseBooks
<1>11. CASE ActionTimeout
  <2> DEFINE s == game.actor
  <2>1. PICK h \in Timeout(game, s) : SettlesTo(h)
    BY <1>11 DEF ActionTimeout
  <2>2. IsActor(game, s) /\ s \in Seats
    BY <1>1, <1>11 DEF ActionTimeout, ActionDue, IsActor, CanAct, Funded, Games
  <2> HIDE DEF s
  <2> QED  BY <1>5, <1>6, <2>1, <2>2, TimeoutFair, TimeoutBooks
<1>12. CASE GameStart
  <2>1. PICK h \in StartHand(game) : SettlesTo(h)
    BY <1>12 DEF GameStart
  <2>2. ~InHand(game) /\ Cardinality(Available(game)) >= 2
    BY <1>12 DEF GameStart
  <2>3. FairGame(h) /\ Keeps(game, h, {})
    BY <1>1, <2>1, <2>2, StartHandFair, StartHandBooks
  <2>4. Keeps(game, h, Strangers(game))
    BY <2>3 DEF Keeps
  <2> QED  BY <1>4, <2>1, <2>3, <2>4
<1>13. ASSUME NEW s \in Seats, Leave(s) PROVE StepKeeps(Odd)
  <2>1. PICK h \in Withdraw(game, s) : SettlesTo(h)
    BY <1>13 DEF Leave
  <2> QED  BY <1>4, <2>1, WithdrawFair, WithdrawBooks
<1>14. ASSUME NEW s \in Seats, Join(s) PROVE StepKeeps(Odd)
  <2>1. s \in Seats \ game.seated /\ game' = Sit(game, s) /\ settled' = settled
    BY <1>14 DEF Join
  <2>2. Keeps(game, game', Odd)
    BY <1>2, <1>3, <2>1, SitBooks
  <2> QED  BY <1>1, <2>1, <2>2, UnsettledBooks
<1>15. ASSUME NEW s \in Seats, RefillPoints(s) PROVE StepKeeps(Odd)
  <2> DEFINE h == Refill(game, s)
  <2>1. s \in game.seated /\ ~InHand(game) /\ SettlesTo(h)
    BY <1>15 DEF RefillPoints
  <2>2. Keeps(game, h, Strangers(game))
    BY <2>1, RefillBooks
  <2>3. h.street = game.street
    BY <1>1 DEF Refill, Games
  <2> HIDE DEF h
  <2>4. FairGame(h)
    BY <2>1, <2>2, <2>3, OverIsFair DEF Keeps, Books, InHand
  <2> QED  BY <1>4, <2>1, <2>2, <2>4
<1>16. ASSUME NEW s \in Seats, NEW on \in BOOLEAN, SetReady(s, on) PROVE StepKeeps(Odd)
  <2> DEFINE h == [game EXCEPT !.ready = IF on THEN @ \cup {s} ELSE @ \ {s}]
  <2>1. /\ SameBooks(game, h) /\ h.pending = game.pending /\ h.currentBet = game.currentBet
    BY <1>1 DEF SameBooks, Games
  <2>2. SettlesTo(h)
    BY <1>16 DEF SetReady
  <2> HIDE DEF h
  <2>3. Keeps(game, h, Strangers(game)) /\ CanAct(h) = CanAct(game)
    BY <2>1, SameBooksKeep
  <2>4. FairGame(h)
    BY <2>1, <2>3 DEF SameBooks, FairGame, DealtSeats, Capped, Matched
  <2> QED  BY <1>4, <2>2, <2>3, <2>4
<1>17. ASSUME NEW s \in Seats, NEW on \in BOOLEAN, Connection(s, on) PROVE StepKeeps(Odd)
  <2>1. game' = SetDisconnected(game, s, on) /\ settled' = settled
    BY <1>17 DEF Connection
  <2>2. SameBooks(game, game')
    BY <1>1, <2>1 DEF SameBooks, SetDisconnected, Games
  <2>3. Keeps(game, game', Odd)
    BY <1>2, <1>3, <2>2, SameBooksKeep
  <2> QED  BY <1>1, <2>1, <2>3, UnsettledBooks
<1>18. CASE UNCHANGED vars
  <2>1. game' = game /\ settled' = settled
    BY <1>18 DEF vars
  <2>2. Keeps(game, game', Odd)
    BY <1>3, <2>1 DEF Keeps
  <2> QED  BY <1>1, <2>1, <2>2, UnsettledBooks
<1> QED  BY <1>7, <1>8, <1>9, <1>10, <1>11, <1>12, <1>13, <1>14, <1>15, <1>16, <1>17, <1>18
         DEF Next

\* The inductive invariant for the points, whoever is at the table
PointsInv == Books(game) /\ (Locked(game) \/ Worth(game) + settled <= 0)

\* and when only players who were dealt cards act
TablePointsInv ==
  /\ Books(game) /\ NoBystanders(game) /\ Strangers(game) = {}
  /\ Locked(game) \/ Worth(game) + settled = 0

(* The table opens with what was allocated, and nothing in the pot.        *)
LEMMA InitPoints == Init => PointsInv /\ TablePointsInv
<1> SUFFICES ASSUME Init PROVE PointsInv /\ TablePointsInv
  OBVIOUS
<1>1. PICK stack \in OpeningStacks, ready \in SUBSET Seats : game = Table(stack, ready)
  BY DEF Init
<1>2. stack \in [Seats -> Nat] /\ Total(stack) = Total([s \in Seats |-> InitialTablePoints])
  BY OpeningStacksAssumption
<1>3. game \in Games
  BY InitIInv DEF IInv, TypeOK
<1>4. /\ game.seated = Seats /\ game.stack = stack /\ game.dealt = {}
      /\ game.allocated = [s \in Seats |-> InitialTablePoints]
      /\ game.handCommitted = NoPoints /\ game.actor = None /\ game.street = "waiting"
  BY <1>1 DEF Table, NewGame
<1>5. ~InHand(game)
  BY <1>4 DEF InHand, BettingStreets
<1>6. Books(game)
  BY <1>3, <1>4, <1>5 DEF Books, DealtSeats, EmptySeats, AtRest, BettingStreets
<1>7. Strangers(game) = {} /\ NoBystanders(game)
  BY <1>4, <1>5 DEF Strangers, NoPoints, NoBystanders
<1>8. Total(game.handCommitted) = 0
  <2>1. Total([s \in Seats |-> 0]) = Cardinality(Seats) * 0
    BY SeatsFinite, TotalOfEqual
  <2>2. Cardinality(Seats) \in Nat
    BY SeatsFinite, FS_CardinalityType
  <2> QED  BY <1>4, <2>1, <2>2 DEF NoPoints
<1>9. Worth(game) + settled = 0
  <2>1. Total(game.stack) = Total(game.allocated) /\ settled = 0
    BY <1>2, <1>4 DEF Init
  <2> QED  BY <1>3, <1>8, <2>1, WorthType DEF Worth, PointsInPlay
<1> QED  BY <1>6, <1>7, <1>9 DEF PointsInv, TablePointsInv

(* What is kept by a step is an invariant.                                 *)
LEMMA StepPoints == TypeOK /\ FairInv /\ PointsInv /\ [Next]_vars => PointsInv'
<1> SUFFICES ASSUME TypeOK, FairInv, PointsInv, [Next]_vars PROVE PointsInv'
  OBVIOUS
<1>1. StepKeeps(Odd)
  BY StepBooks DEF PointsInv, FairInv
<1>2. /\ settled \in Int /\ settled' \in Int
      /\ Worth(game) \in Int /\ Worth(game') \in Int
  BY <1>1, WorthType DEF TypeOK, StepKeeps, Books, DealtSeats
<1> QED  BY <1>1, <1>2 DEF PointsInv, StepKeeps

(* Every step of a table of players who were dealt in keeps its points.    *)
LEMMA StepTablePoints == TypeOK /\ FairInv /\ TablePointsInv /\ [TableNext]_vars => TablePointsInv'
<1> SUFFICES ASSUME TypeOK, FairInv, TablePointsInv, [TableNext]_vars PROVE TablePointsInv'
  OBVIOUS
<1>1. [Next]_vars /\ NoBystanders(game')
  BY DEF TableNext, vars, TablePointsInv
<1>2. Odd = {}
  BY DEF Odd, TablePointsInv, NoBystanders
<1>3. StepKeeps({})
  BY <1>1, <1>2, StepBooks DEF TablePointsInv, FairInv
<1> QED  BY <1>1, <1>3 DEF TablePointsInv, StepKeeps

(* Points are never made: whoever joins, leaves or acts without cards, what  *)
(* the players hold and have in the pot, with what was settled, is at most   *)
(* what the table allocated (Game.commit, Game.showdown, finishByFold and    *)
(* settlementsForStableState).                                             *)
THEOREM PointsNeverCreated == Spec => []NoPointsCreated
<1>1. TypeOK /\ PointsInv => NoPointsCreated
  <2> SUFFICES ASSUME TypeOK, PointsInv, ~Stuck(game)
               PROVE  PointsInPlay(game) + settled <= Total(game.allocated)
    BY DEF NoPointsCreated
  <2>1. /\ Total(game.stack) \in Nat /\ Total(game.handCommitted) \in Nat
        /\ Total(game.allocated) \in Nat /\ settled \in Int
    BY WorthType DEF TypeOK
  <2>2. PointsInPlay(game) - Total(game.allocated) + settled <= 0
    BY DEF PointsInv, Locked, Worth
  <2> QED  BY <2>1, <2>2 DEF PointsInPlay
<1>2. Spec => []TypeOK
  BY TypeCorrect
<1>3. Spec => []FairInv
  BY InitFair, StepFair, PTL DEF Spec
<1> QED  BY <1>1, <1>2, <1>3, InitPoints, StepPoints, PTL DEF Spec

(* Hands played by the players who were dealt in neither make nor lose       *)
(* points, through blinds, side pots, odd points, departures and refills     *)
(* (the same code).                                                        *)
THEOREM PointsAlwaysConserved == TableSpec => []PointsConserved
<1>1. TypeOK /\ TablePointsInv => PointsConserved
  <2> SUFFICES ASSUME TypeOK, TablePointsInv, ~Stuck(game)
               PROVE  PointsInPlay(game) + settled = Total(game.allocated)
    BY DEF PointsConserved
  <2>1. /\ Total(game.stack) \in Nat /\ Total(game.handCommitted) \in Nat
        /\ Total(game.allocated) \in Nat /\ settled \in Int
    BY WorthType DEF TypeOK
  <2>2. PointsInPlay(game) - Total(game.allocated) + settled = 0
    BY DEF TablePointsInv, Locked, Worth
  <2> QED  BY <2>1, <2>2 DEF PointsInPlay
<1>2. [TableNext]_vars => [Next]_vars
  BY DEF TableNext
<1>3. IInv => TypeOK
  BY DEF IInv
<1> QED  BY <1>1, <1>2, <1>3, InitIInv, StepIInv, InitFair, StepFair, InitPoints,
            StepTablePoints, PTL DEF TableSpec

-----------------------------------------------------------------------------
(* Payouts.  A side pot holds at most as much of each player's points as     *)
(* its level, so a winner takes from nobody more than he put in himself.     *)

\* what seat s may win at most when the seats have committed c
CapOf(c, s) == Total([t \in Seats |-> Lesser(c[t], c[s])])

(* A winner gets no more of a side pot than is in it, and nothing of one   *)
(* above what he committed.                                                *)
LEMMA ShareCapped ==
  ASSUME NEW g \in Games, NEW level \in Levels(g), NEW rank \in Rankings(g), NEW s \in Seats
  PROVE  Share(g, level, rank, s)
         <= IF level <= g.handCommitted[s] THEN SidePotAmount(g, level) ELSE 0
<1> DEFINE f == [t \in Seats |-> Share(g, level, rank, t)]
<1>1. CASE s \notin Winners(g, level, rank)
  <2>1. Share(g, level, rank, s) = 0
    BY <1>1 DEF Share
  <2> QED  BY <2>1, SidePotAmountType
<1>2. CASE s \in Winners(g, level, rank)
  <2>1. s \in Eligible(g, level) /\ level <= g.handCommitted[s]
    BY <1>2, LevelType DEF Winners, Eligible, Contributors, Games
  <2>2. f \in [Seats -> Nat] /\ f[s] = Share(g, level, rank, s)
    BY ShareType
  <2>3. Total(f) = SidePotAmount(g, level)
    BY <2>1, SharesOfSidePot
  <2> HIDE DEF f
  <2>4. Total(f) = Total([t \in Seats \ {s} |-> f[t]]) + f[s]
    BY <2>2, SeatsFinite, TotalWithOne
  <2>5. Total([t \in Seats \ {s} |-> f[t]]) \in Nat
    <3>1. IsFiniteSet(Seats \ {s}) /\ [t \in Seats \ {s} |-> f[t]] \in [Seats \ {s} -> Nat]
      BY <2>2, SeatsFinite, FS_Difference
    <3> QED  BY <3>1, TotalType
  <2> QED  BY <2>1, <2>2, <2>3, <2>4, <2>5
<1> QED  BY <1>1, <1>2

(* What a showdown pays to a player is capped by what he put in.           *)
LEMMA WinningsCapped ==
  ASSUME NEW g \in Games, EmptySeats(g), NEW rank \in Rankings(g), NEW s \in Seats,
         PaidLevels(g) = Levels(g)
  PROVE  Total([level \in PaidLevels(g) |-> Share(g, level, rank, s)])
         <= CapOf(g.handCommitted, s)
<1> DEFINE c == g.handCommitted
           h == [t \in Seats |-> [l \in Levels(g) |-> Stake(g, Lesser(c[t], c[s]), l)]]
           column == [l \in Levels(g) |-> Total([t \in Seats |-> h[t][l]])]
           won == [l \in Levels(g) |-> Share(g, l, rank, s)]
<1>1. c \in [Seats -> Nat] /\ \A t \in Seats : c[t] \in Levels(g) \cup {0}
  BY DEF Games, Levels, EmptySeats
<1>2. \A t \in Seats : Lesser(c[t], c[s]) \in Nat /\ Lesser(c[t], c[s]) \in Levels(g) \cup {0}
  BY <1>1 DEF Lesser
<1>3. h \in [Seats -> [Levels(g) -> Nat]]
  BY <1>2, StakeType
<1>4. \A t \in Seats : Total(h[t]) = Lesser(c[t], c[s])
  BY <1>2, StakesAddUp
<1>5. \A l \in Levels(g) :
        column[l] = IF l <= c[s] THEN SidePotAmount(g, l) ELSE 0
  <2> TAKE l \in Levels(g)
  <2>1. column[l] = Total([t \in Seats |-> Stake(g, Lesser(c[t], c[s]), l)])
    <3>1. [t \in Seats |-> h[t][l]] = [t \in Seats |-> Stake(g, Lesser(c[t], c[s]), l)]
      OBVIOUS
    <3> QED  BY <3>1
  <2>2. CASE l <= c[s]
    <3>1. \A t \in Seats : Stake(g, Lesser(c[t], c[s]), l) = Stake(g, c[t], l)
      BY <1>1, <2>2, LevelType DEF Stake, Lesser
    <3>2. [t \in Seats |-> Stake(g, Lesser(c[t], c[s]), l)] = [t \in Seats |-> Stake(g, c[t], l)]
      BY <3>1
    <3> QED  BY <2>1, <2>2, <3>2, SidePotStakes
  <2>3. CASE ~(l <= c[s])
    <3>1. \A t \in Seats : Stake(g, Lesser(c[t], c[s]), l) = 0
      BY <1>1, <2>3, LevelType DEF Stake, Lesser
    <3>2. [t \in Seats |-> Stake(g, Lesser(c[t], c[s]), l)] = [t \in Seats |-> 0]
      BY <3>1
    <3>3. Total([t \in Seats |-> 0]) = Cardinality(Seats) * 0 /\ Cardinality(Seats) \in Nat
      BY SeatsFinite, TotalOfEqual, FS_CardinalityType
    <3>4. Total([t \in Seats |-> 0]) = 0
      BY <3>3
    <3> QED  BY <2>1, <2>3, <3>2, <3>4
  <2> QED  BY <2>2, <2>3
<1>6. won \in [Levels(g) -> Nat] /\ column \in [Levels(g) -> Nat]
  <2>1. \A l \in Levels(g) : column[l] \in Nat
    BY <1>5, SidePotAmountType
  <2> QED  BY <2>1, ShareType
<1>7. \A l \in Levels(g) : won[l] <= column[l]
  <2> HIDE DEF column
  <2> QED  BY <1>5, ShareCapped
<1>8. Total(won) <= Total(column)
  <2> HIDE DEF won, column
  <2> QED  BY <1>6, <1>7, LevelsFinite, TotalMonotone
<1>9. Total([t \in Seats |-> Total(h[t])]) = Total(column)
  <2> HIDE DEF h
  <2> QED  BY <1>3, SeatsFinite, LevelsFinite, TotalByColumns
<1>10. [t \in Seats |-> Total(h[t])] = [t \in Seats |-> Lesser(c[t], c[s])]
  <2> HIDE DEF h
  <2> QED  BY <1>4
<1>11. [level \in PaidLevels(g) |-> Share(g, level, rank, s)] = won
  OBVIOUS
<1> HIDE DEF won, column, h, c
<1> QED  BY <1>8, <1>9, <1>10, <1>11 DEF CapOf, c

\* what the seats had committed when the hand of g ended as h
CommittedAt(g, h) ==
  [t \in Seats |-> g.handCommitted[t] + (g.stack[t] - (h.stack[t] - h.payouts[t]))]

\* no payouts are pending while a hand is bet
Unpaid(g) == g.street \in BettingStreets => g.payouts = NoPoints

\* h is what a hand of g may become: when it ends with more than one player
\* left, each payout is capped
PaysFairly(g, h) ==
  /\ Unpaid(h)
  /\ h.seated = g.seated /\ g.folded \subseteq h.folded
  /\ ~InHand(h) /\ Cardinality(RemainingNotFolded(g) \ h.folded) > 1 =>
       \A s \in Seats : h.payouts[s] <= CapOf(CommittedAt(g, h), s)

\* the hand goes on from g to h: points only move into the pot
PlaysOn(g, h) ==
  /\ g \in Games /\ h \in Games /\ Unpaid(h)
  /\ h.seated = g.seated /\ g.folded \subseteq h.folded
  /\ \A t \in Seats : h.handCommitted[t] + h.stack[t] = g.handCommitted[t] + g.stack[t]
  /\ RemainingNotFolded(g) \ h.folded \subseteq RemainingNotFolded(h)

(* A hand that plays on pays nothing yet.                                  *)
LEMMA PlaysOnPaysFairly ==
  ASSUME NEW g, NEW h, PlaysOn(g, h), NEW r \in Games, PaysFairly(h, r)
  PROVE  PaysFairly(g, r)
<1> DEFINE left(k) == RemainingNotFolded(k) \ r.folded
<1>1. /\ g \in Games /\ h \in Games /\ r.seated = g.seated /\ g.folded \subseteq r.folded
  BY DEF PlaysOn, PaysFairly
<1>2. left(g) \subseteq left(h)
  BY DEF PlaysOn, PaysFairly
<1>3. IsFiniteSet(left(h))
  <2>1. left(h) \in SUBSET Seats
    BY <1>1 DEF RemainingNotFolded, Games
  <2> QED  BY <2>1, SeatsFinite, FS_Subset
<1>4. Cardinality(left(g)) <= Cardinality(left(h))
      /\ Cardinality(left(g)) \in Nat /\ Cardinality(left(h)) \in Nat
  BY <1>2, <1>3, FS_Subset, FS_CardinalityType
<1>5. CommittedAt(g, r) = CommittedAt(h, r)
  <2>1. \A t \in Seats : /\ g.handCommitted[t] \in Nat /\ g.stack[t] \in Nat
                         /\ h.handCommitted[t] \in Nat /\ h.stack[t] \in Nat
                         /\ r.stack[t] \in Nat /\ r.payouts[t] \in Nat
    BY <1>1 DEF Games
  <2>2. \A t \in Seats : g.handCommitted[t] + (g.stack[t] - (r.stack[t] - r.payouts[t]))
                         = h.handCommitted[t] + (h.stack[t] - (r.stack[t] - r.payouts[t]))
    BY <2>1 DEF PlaysOn
  <2> QED  BY <2>2 DEF CommittedAt
<1> HIDE DEF left
<1> QED  BY <1>1, <1>4, <1>5 DEF PaysFairly, left

(* A hand that ends with a fold ends with one player left.                 *)
LEMMA FinishByFoldPays ==
  ASSUME NEW g \in Games, Cardinality(RemainingNotFolded(g)) = 1
  PROVE  PaysFairly(g, FinishByFold(g))
<1>1. /\ FinishByFold(g).folded = g.folded /\ FinishByFold(g).seated = g.seated
      /\ FinishByFold(g).street = "settled"
  BY DEF FinishByFold, FinishHand, Games
<1>2. RemainingNotFolded(g) \ g.folded = RemainingNotFolded(g)
  BY DEF RemainingNotFolded
<1> QED  BY <1>1, <1>2 DEF PaysFairly, Unpaid, BettingStreets

(* A showdown pays fairly.                                                 *)
LEMMA ShowdownPays ==
  ASSUME NEW g \in Games, EmptySeats(g), g.payouts = NoPoints, NEW h \in Showdown(g)
  PROVE  PaysFairly(g, h)
<1>1. PICK rank \in Rankings(g) : h = ShowdownResult(g, rank)
  BY DEF Showdown
<1> DEFINE levels == PaidLevels(g)
           amount == [s \in Seats |->
                        Total([level \in levels |-> Share(g, level, rank, s)])]
           st == [s \in Seats |-> g.stack[s] + amount[s]]
           po == [s \in Seats |-> g.payouts[s] + amount[s]]
           paid == [g EXCEPT !.street = "showdown", !.stack = st, !.payouts = po]
<1>2. levels \subseteq Levels(g) /\ IsFiniteSet(levels)
  BY LevelsFinite, FS_Subset DEF PaidLevels
<1>3. amount \in [Seats -> Nat]
  <2> SUFFICES ASSUME NEW s \in Seats
               PROVE  Total([level \in levels |-> Share(g, level, rank, s)]) \in Nat
    OBVIOUS
  <2>1. [level \in levels |-> Share(g, level, rank, s)] \in [levels -> Nat]
    BY <1>2, ShareType
  <2> HIDE DEF levels
  <2> QED  BY <1>2, <2>1, TotalType
<1>4. h = IF levels = Levels(g) THEN FinishHand(paid) ELSE paid
  BY <1>1 DEF ShowdownResult, Games
<1>5. levels = Levels(g) => \A s \in Seats : amount[s] <= CapOf(g.handCommitted, s)
  BY WinningsCapped
<1> HIDE DEF amount, levels
<1>6. /\ \A s \in Seats : st[s] = g.stack[s] + amount[s] /\ po[s] = amount[s]
      /\ \A s \in Seats : g.stack[s] \in Nat /\ amount[s] \in Nat /\ g.handCommitted[s] \in Nat
  BY <1>3 DEF NoPoints, Games
<1> HIDE DEF st, po
<1>7. /\ paid.street = "showdown" /\ paid.stack = st /\ paid.payouts = po
      /\ paid.seated = g.seated /\ paid.folded = g.folded
      /\ FinishHand(paid).street = "settled" /\ FinishHand(paid).stack = st
      /\ FinishHand(paid).payouts = po
      /\ FinishHand(paid).seated = g.seated /\ FinishHand(paid).folded = g.folded
  BY DEF FinishHand, Games
<1> HIDE DEF paid
<1>8. CASE levels = Levels(g)
  <2>1. CommittedAt(g, h) = g.handCommitted
    <3>1. \A t \in Seats : g.handCommitted[t] + (g.stack[t] - (h.stack[t] - h.payouts[t]))
                           = g.handCommitted[t]
      BY <1>4, <1>6, <1>7, <1>8
    <3>2. g.handCommitted = [t \in Seats |-> g.handCommitted[t]]
      BY DEF Games
    <3> QED  BY <3>1, <3>2 DEF CommittedAt
  <2> QED  BY <1>4, <1>5, <1>6, <1>7, <1>8, <2>1 DEF PaysFairly, Unpaid, BettingStreets
<1>9. CASE levels # Levels(g)
  BY <1>4, <1>7, <1>9 DEF PaysFairly, Unpaid, BettingStreets, InHand
<1> QED  BY <1>8, <1>9

(* So does a street that ends.                                             *)
LEMMA AdvanceStreetPays ==
  ASSUME NEW g \in Games, EmptySeats(g), Unpaid(g), InHand(g), NEW h \in AdvanceStreet(g)
  PROVE  PaysFairly(g, h)
<1>1. CASE g.street = "river"
  BY <1>1, ShowdownPays DEF AdvanceStreet, Unpaid, BettingStreets
<1>2. CASE g.street # "river" /\ g.street \notin DOMAIN NextStreet
  <2>1. h = g
    BY <1>2 DEF AdvanceStreet
  <2> QED  BY <2>1 DEF PaysFairly
<1>3. CASE g.street \in DOMAIN NextStreet
  <2> DEFINE o == StreetOpened(g)
             a == NextSeat(o.button, o.pending)
             r == [o EXCEPT !.actor = a]
  <2>1. g.street \in BettingStreets /\ g.street # "river"
    BY <1>3 DEF NextStreet, BettingStreets
  <2>2. o \in Games
    BY <1>3, StreetOpenedType
  <2>3. /\ o.seated = g.seated /\ o.folded = g.folded /\ o.away = g.away
        /\ o.dealt = g.dealt /\ o.stack = g.stack /\ o.handCommitted = g.handCommitted
        /\ o.allocated = g.allocated
        /\ o.payouts = g.payouts /\ o.street = NextStreet[g.street]
    BY DEF StreetOpened, Games
  <2> HIDE DEF o
  <2>4. o.payouts = NoPoints /\ EmptySeats(o) /\ o.street \in BettingStreets
    BY <1>3, <2>1, <2>3 DEF Unpaid, EmptySeats, NextStreet, BettingStreets
  <2>5. PlaysOn(g, o)
    BY <2>2, <2>3, <2>4 DEF PlaysOn, Unpaid, RemainingNotFolded
  <2>6. CASE AtMostOne(o.pending)
    <3>1. h \in Showdown(o)
      BY <1>3, <2>1, <2>6 DEF AdvanceStreet, o
    <3>2. PaysFairly(o, h) /\ h \in Games
      BY <2>2, <2>4, <3>1, ShowdownPays, ShowdownGood DEF GoodGame
    <3> QED  BY <2>5, <3>2, PlaysOnPaysFairly
  <2>7. CASE ~AtMostOne(o.pending)
    <3>1. h = r
      BY <1>3, <2>1, <2>7 DEF AdvanceStreet, o
    <3> HIDE DEF a
    <3>2. /\ r.seated = o.seated /\ r.folded = o.folded /\ r.street = o.street
          /\ r.payouts = o.payouts
      BY <2>2 DEF Games
    <3> HIDE DEF r
    <3> QED  BY <2>3, <2>4, <3>1, <3>2 DEF PaysFairly, Unpaid, InHand
  <2> QED  BY <2>6, <2>7
<1> QED  BY <1>1, <1>2, <1>3

(* And so does a turn that ends.                                           *)
LEMMA FinishActionPays ==
  ASSUME NEW g \in Games, EmptySeats(g), Unpaid(g), InHand(g), NEW s \in Seats,
         NEW raised, NEW fullRaise, NEW r \in FinishAction(g, s, raised, fullRaise)
  PROVE  PaysFairly(g, r) /\ r \in Games
<1> DEFINE asked == PendingAfter(g, s, raised, fullRaise) \cap CanAct(g)
           acted == [g.actedAtBet EXCEPT ![s] = g.currentBet]
           h == [g EXCEPT !.pending = asked, !.actedAtBet = acted]
           t == [h EXCEPT !.actor = NextSeat(s, h.pending)]
<1>1. asked \in SUBSET Seats /\ acted \in [Seats -> Nat \cup {-1}]
  BY CanActType DEF Games
<1>2. r \in (IF Cardinality(RemainingNotFolded(g)) = 1 THEN {FinishByFold(h)}
             ELSE IF h.pending = {} THEN AdvanceStreet(h)
             ELSE {t})
  BY DEF FinishAction, Games
<1>3. r \in Games
  BY FinishActionGood DEF GoodGame
<1> HIDE DEF asked, acted
<1>4. /\ h \in Games /\ h.seated = g.seated /\ h.folded = g.folded /\ h.away = g.away
      /\ h.dealt = g.dealt /\ h.stack = g.stack /\ h.handCommitted = g.handCommitted
      /\ h.allocated = g.allocated /\ h.payouts = g.payouts /\ h.street = g.street
      /\ t.seated = g.seated /\ t.folded = g.folded
      /\ t.payouts = g.payouts /\ t.street = g.street
  BY <1>1 DEF Games
<1> HIDE DEF h, t
<1>5. /\ EmptySeats(h) /\ Unpaid(h) /\ InHand(h)
      /\ RemainingNotFolded(h) = RemainingNotFolded(g)
  BY <1>4 DEF EmptySeats, Unpaid, InHand, RemainingNotFolded
<1>6. PlaysOn(g, h)
  BY <1>4, <1>5 DEF PlaysOn
<1>7. CASE r = t
  <2>1. Unpaid(r) /\ InHand(r)
    BY <1>4, <1>7 DEF Unpaid, InHand
  <2> QED  BY <1>3, <1>4, <1>7, <2>1 DEF PaysFairly
<1>8. CASE Cardinality(RemainingNotFolded(g)) = 1 /\ r = FinishByFold(h)
  <2>1. PaysFairly(h, r)
    BY <1>4, <1>5, <1>8, FinishByFoldPays
  <2> QED  BY <1>3, <1>6, <2>1, PlaysOnPaysFairly
<1>9. CASE r \in AdvanceStreet(h)
  <2>1. PaysFairly(h, r)
    BY <1>4, <1>5, <1>9, AdvanceStreetPays
  <2> QED  BY <1>3, <1>6, <2>1, PlaysOnPaysFairly
<1> QED  BY <1>2, <1>3, <1>7, <1>8, <1>9

\* g is a hand about to change, h the same hand with its points moved
LEMMA TurnPays ==
  ASSUME NEW g, NEW h, PlaysOn(g, h), EmptySeats(h), InHand(h), NEW s \in Seats,
         NEW raised, NEW fullRaise, NEW r \in FinishAction(h, s, raised, fullRaise)
  PROVE  PaysFairly(g, r)
<1>1. PaysFairly(h, r) /\ r \in Games
  BY FinishActionPays DEF PlaysOn
<1> QED  BY <1>1, PlaysOnPaysFairly

(* commit only moves points into the pot.                                  *)
LEMMA CommitPlaysOn ==
  ASSUME NEW g \in Games, EmptySeats(g), InHand(g), Unpaid(g), NEW s \in g.seated,
         NEW amount \in Nat
  PROVE  LET h == Commit(g, s, amount) IN
         /\ PlaysOn(g, h) /\ EmptySeats(h) /\ InHand(h)
<1> DEFINE h == Commit(g, s, amount)
           paid == Lesser(amount, g.stack[s])
<1>1. s \in Seats /\ h \in Games
  BY CommitType DEF Games
<1>2. /\ h.seated = g.seated /\ h.folded = g.folded /\ h.away = g.away /\ h.dealt = g.dealt
      /\ h.allocated = g.allocated /\ h.payouts = g.payouts /\ h.street = g.street
      /\ h.stack = [g.stack EXCEPT ![s] = g.stack[s] - paid]
      /\ h.handCommitted = [g.handCommitted EXCEPT ![s] = g.handCommitted[s] + paid]
  BY <1>1 DEF Commit, Games
<1>3. /\ paid \in Nat /\ g.stack \in [Seats -> Nat] /\ g.handCommitted \in [Seats -> Nat]
      /\ \A t \in Seats : g.stack[t] \in Nat /\ g.handCommitted[t] \in Nat
  BY <1>1 DEF Games, Lesser
<1> HIDE DEF h, paid
<1>4. \A t \in Seats : /\ h.handCommitted[t] + h.stack[t] = g.handCommitted[t] + g.stack[t]
                       /\ g.handCommitted[t] > 0 => h.handCommitted[t] > 0
  BY <1>1, <1>2, <1>3
<1>5. RemainingNotFolded(g) \subseteq RemainingNotFolded(h)
  BY <1>2, <1>4 DEF RemainingNotFolded, Games
<1>6. EmptySeats(h) /\ InHand(h) /\ Unpaid(h)
  BY <1>1, <1>2, <1>3 DEF EmptySeats, InHand, Unpaid
<1> QED  BY <1>1, <1>2, <1>4, <1>5, <1>6 DEF PlaysOn, h

\* a hand in which seat s may act
Playing(g, s) ==
  /\ g \in Games /\ EmptySeats(g) /\ InHand(g) /\ Unpaid(g) /\ s \in g.seated /\ s \in Seats

(* A check or a call pays fairly when it ends the hand.                    *)
LEMMA CheckOrCallPays ==
  ASSUME NEW g, NEW s, Playing(g, s), NEW r \in CheckOrCall(g, s)
  PROVE  PaysFairly(g, r)
<1>1. ToCall(g, s) \in Nat
  BY ToCallType DEF Playing
<1> QED  BY <1>1, CommitPlaysOn, TurnPays DEF Playing, CheckOrCall

(* And a fold.                                                             *)
LEMMA FoldPays ==
  ASSUME NEW g, NEW s, Playing(g, s), NEW r \in Fold(g, s)
  PROVE  PaysFairly(g, r)
<1> DEFINE h == [g EXCEPT !.folded = @ \cup {s}]
<1>1. /\ h \in Games /\ h.seated = g.seated /\ h.folded = g.folded \cup {s}
      /\ h.away = g.away /\ h.dealt = g.dealt /\ h.stack = g.stack
      /\ h.handCommitted = g.handCommitted /\ h.allocated = g.allocated
      /\ h.payouts = g.payouts /\ h.street = g.street
  BY DEF Playing, Games
<1>2. r \in FinishAction(h, s, FALSE, FALSE)
  BY DEF Fold
<1> HIDE DEF h
<1>3. PlaysOn(g, h) /\ EmptySeats(h) /\ InHand(h)
  BY <1>1 DEF Playing, PlaysOn, EmptySeats, InHand, Unpaid, RemainingNotFolded
<1> QED  BY <1>2, <1>3, TurnPays DEF Playing

(* Moving the bet moves no points.                                         *)
LEMMA BetPays ==
  ASSUME NEW g, NEW s, Playing(g, s), NEW amount \in Nat, NEW bet \in Nat, NEW least \in Nat,
         NEW raised, NEW fullRaise,
         NEW r \in FinishAction([Commit(g, s, amount) EXCEPT !.currentBet = bet,
                                                            !.minimumRaiseBy = least],
                                s, raised, fullRaise)
  PROVE  PaysFairly(g, r)
<1> DEFINE c == Commit(g, s, amount)
           h == [c EXCEPT !.currentBet = bet, !.minimumRaiseBy = least]
<1>1. PlaysOn(g, c) /\ EmptySeats(c) /\ InHand(c) /\ c \in Games
  BY CommitPlaysOn DEF Playing, PlaysOn
<1> HIDE DEF c
<1>2. /\ h \in Games /\ h.seated = c.seated /\ h.folded = c.folded
      /\ h.away = c.away /\ h.dealt = c.dealt /\ h.stack = c.stack
      /\ h.handCommitted = c.handCommitted /\ h.allocated = c.allocated
      /\ h.payouts = c.payouts /\ h.street = c.street
  BY <1>1 DEF Games
<1>3. r \in FinishAction(h, s, raised, fullRaise)
  BY DEF c
<1> HIDE DEF h
<1>4. PlaysOn(g, h) /\ EmptySeats(h) /\ InHand(h)
  BY <1>1, <1>2 DEF PlaysOn, EmptySeats, InHand, Unpaid, RemainingNotFolded
<1> QED  BY <1>3, <1>4, TurnPays DEF Playing

(* And a raise.                                                            *)
LEMMA RaisePays ==
  ASSUME NEW g, NEW s, Playing(g, s), NEW raiseBy \in Nat, NEW r \in Raise(g, s, raiseBy)
  PROVE  PaysFairly(g, r)
<1> DEFINE c == Commit(g, s, ToCall(g, s) + raiseBy)
           bet == c.currentBet + raiseBy
<1>1. ToCall(g, s) + raiseBy \in Nat
  BY ToCallType DEF Playing
<1>2. c \in Games
  BY <1>1, CommitType DEF Playing
<1>3. bet \in Nat
  <2> HIDE DEF c
  <2> QED  BY <1>2 DEF Games
<1>4. r \in FinishAction([c EXCEPT !.currentBet = bet, !.minimumRaiseBy = raiseBy], s, TRUE, TRUE)
  BY <1>2 DEF Raise, Games
<1> HIDE DEF bet
<1> QED  BY <1>1, <1>3, <1>4, BetPays

(* And an all-in.                                                          *)
LEMMA AllInPays ==
  ASSUME NEW g, NEW s, Playing(g, s), NEW r \in AllIn(g, s)
  PROVE  PaysFairly(g, r)
<1> DEFINE total == g.streetCommitted[s] + g.stack[s]
           raiseBy == Greater(0, total - g.currentBet)
           fullRaise == raiseBy >= g.minimumRaiseBy
           c == Commit(g, s, g.stack[s])
           bet == Greater(c.currentBet, total)
           least == IF raiseBy > 0 /\ fullRaise THEN raiseBy ELSE c.minimumRaiseBy
<1>1. g \in Games /\ s \in Seats /\ total \in Nat /\ g.stack[s] \in Nat /\ g.currentBet \in Nat
  BY DEF Playing, Games
<1>2. c \in Games
  BY <1>1, CommitType
<1>3. raiseBy \in Nat
  BY <1>1 DEF Greater
<1>4. bet \in Nat /\ least \in Nat
  <2> HIDE DEF c, raiseBy
  <2> QED  BY <1>1, <1>2, <1>3 DEF Games, Greater
<1>5. r \in FinishAction([c EXCEPT !.currentBet = bet, !.minimumRaiseBy = least],
                         s, raiseBy > 0, fullRaise)
  BY <1>2 DEF AllIn, Games
<1> HIDE DEF bet, least
<1> QED  BY <1>1, <1>4, <1>5, BetPays

(* And a turn that runs out.                                               *)
LEMMA TimeoutPays ==
  ASSUME NEW g, NEW s, Playing(g, s), NEW r \in Timeout(g, s)
  PROVE  PaysFairly(g, r)
BY CheckOrCallPays, FoldPays DEF Timeout

(* A departure pays fairly when it ends the hand.                          *)
LEMMA WithdrawPays ==
  ASSUME NEW g, NEW s, Playing(g, s), NEW r \in Withdraw(g, s)
  PROVE  PaysFairly(g, r)
<1> DEFINE gone == [g EXCEPT !.leaving = @ \cup {s}, !.disconnected = @ \ {s}]
           out == [gone EXCEPT !.folded = @ \cup {s}]
           unasked == [out EXCEPT !.pending = @ \ {s}]
           pruned == [unasked EXCEPT !.pending = @ \cap CanAct(unasked)]
           Out(h) ==
             /\ h \in Games /\ h.seated = g.seated /\ h.folded = g.folded \cup {s}
             /\ h.away = g.away /\ h.dealt = g.dealt /\ h.stack = g.stack
             /\ h.handCommitted = g.handCommitted /\ h.allocated = g.allocated
             /\ h.payouts = g.payouts /\ h.street = g.street
<1>1. g \in Games /\ s \in Seats
  BY DEF Playing
<1>2. /\ gone.seated = g.seated /\ gone.folded = g.folded /\ gone.payouts = g.payouts
      /\ gone.street = g.street
  BY <1>1 DEF Games
<1>3. Out(out) /\ Out(unasked)
  BY <1>1 DEF Games
<1>4. Out(pruned)
  <2> HIDE DEF unasked
  <2> QED  BY <1>3, SMTT(30) DEF Games
<1>5. \/ r = gone
      \/ r \in FinishAction(out, s, FALSE, FALSE)
      \/ Cardinality(RemainingNotFolded(unasked)) = 1 /\ r = FinishByFold(unasked)
      \/ r \in AdvanceStreet(pruned)
      \/ r = pruned
  BY DEF Withdraw, Playing
<1> HIDE DEF gone, out, unasked, pruned
<1>6. ASSUME NEW h, Out(h) PROVE PlaysOn(g, h) /\ EmptySeats(h) /\ InHand(h) /\ Unpaid(h)
  BY <1>6 DEF Playing, PlaysOn, EmptySeats, InHand, Unpaid, RemainingNotFolded
<1>7. CASE r = gone
  BY <1>2, <1>7 DEF Playing, PaysFairly, Unpaid, InHand
<1>8. CASE r \in FinishAction(out, s, FALSE, FALSE)
  BY <1>1, <1>3, <1>6, <1>8, TurnPays
<1>9. CASE Cardinality(RemainingNotFolded(unasked)) = 1 /\ r = FinishByFold(unasked)
  <2>1. PaysFairly(unasked, r) /\ r \in Games
    BY <1>3, <1>9, FinishByFoldPays, FinishByFoldType
  <2> QED  BY <1>3, <1>6, <2>1, PlaysOnPaysFairly
<1>10. CASE r \in AdvanceStreet(pruned)
  <2>1. PaysFairly(pruned, r) /\ r \in Games
    BY <1>4, <1>6, <1>10, AdvanceStreetPays, AdvanceStreetGood DEF GoodGame
  <2> QED  BY <1>4, <1>6, <2>1, PlaysOnPaysFairly
<1>11. CASE r = pruned
  BY <1>4, <1>6, <1>11 DEF PaysFairly
<1> QED  BY <1>5, <1>7, <1>8, <1>9, <1>10, <1>11

(* Commit pays out nothing.                                                *)
LEMMA CommitPayouts ==
  ASSUME NEW g \in Games, NEW s, NEW amount
  PROVE  Commit(g, s, amount).payouts = g.payouts
BY DEF Commit, Games

(* A hand starts with no payouts.                                          *)
LEMMA StartHandUnpaid ==
  ASSUME NEW g, Books(g), ~InHand(g), Cardinality(Available(g)) >= 2, NEW r \in StartHand(g)
  PROVE  Unpaid(r)
<1> DEFINE c == HandCleared(g)
           h == BlindsPosted(c)
           small == IF Cardinality(c.dealt) = 2 THEN c.button ELSE NextSeat(c.button, c.dealt)
           big == NextSeat(small, c.dealt)
           c1 == Commit(c, small, SmallBlind)
           c2 == Commit(c1, big, BigBlind)
<1>1. g \in Games /\ Available(g) # {}
  BY FS_EmptySet DEF Books, DealtSeats
<1>2. c \in Games /\ c.dealt = Available(g) /\ c.dealt \subseteq CanAct(c) /\ c.button \in Seats
  BY <1>1, HandClearedGood
<1>3. c.payouts = NoPoints
  BY <1>1 DEF HandCleared, Games
<1> HIDE DEF c
<1>5. c.dealt \in SUBSET Seats /\ c.dealt # {}
  BY <1>1, <1>2 DEF Games
<1>6. small \in Seats
  BY <1>2, <1>5, NextSeatMember
<1> HIDE DEF small
<1>7. big \in c.dealt /\ big \in Seats
  BY <1>5, <1>6, NextSeatMember
<1> HIDE DEF big
<1>8. c1 \in Games /\ c1.payouts = NoPoints
  BY <1>2, <1>3, <1>6, CommitType, CommitPayouts, BlindAssumption
<1> HIDE DEF c1
<1>9. c2 \in Games /\ c2.payouts = NoPoints
  BY <1>7, <1>8, CommitType, CommitPayouts, BlindAssumption
<1> HIDE DEF c2
<1>10. h = [c2 EXCEPT !.currentBet = BigBlind, !.minimumRaiseBy = BigBlind,
                      !.street = "preflop", !.pending = AskedFirst(c2),
                      !.actor = NextSeat(big, AskedFirst(c2))]
  BY DEF BlindsPosted, c1, c2, small, big
<1>11. h.payouts = NoPoints /\ h.street = "preflop"
  BY <1>9, <1>10 DEF Games
<1>12. r \in IF h.actor = None THEN AdvanceStreet(h) ELSE {h}
  BY DEF StartHand, c
<1>13. h \in Games /\ EmptySeats(h)
  <2> DEFINE p == [c EXCEPT !.street = "preflop"]
  <2>1. Keeps(g, p, {}) /\ p.dealt \subseteq CanAct(p) /\ p.button \in p.dealt
    BY <1>1, HandClearedBooks DEF c
  <2>2. h = BlindsPosted(p)
    BY <1>2, <1>5, BlindsAnyStreet
  <2>3. p.dealt = c.dealt /\ p.street = "preflop"
    BY <1>2 DEF Games
  <2> HIDE DEF p, h
  <2>4. Keeps(p, h, Strangers(p))
    BY <1>2, <2>1, <2>2, <2>3, BlindsPostedBooks DEF Keeps
  <2> QED  BY <2>4 DEF Keeps, Books, DealtSeats
<1> HIDE DEF h
<1>14. Unpaid(h) /\ InHand(h)
  BY <1>11 DEF Unpaid, InHand, BettingStreets
<1>15. CASE r = h
  BY <1>14, <1>15
<1>16. CASE r \in AdvanceStreet(h)
  BY <1>13, <1>14, <1>16, AdvanceStreetPays DEF PaysFairly
<1> QED  BY <1>12, <1>15, <1>16

\* what PayoutsCapped says of a step
CappedStep ==
  (/\ InHand(game) /\ ~InHand(game')
   /\ game'.seated = game.seated
   /\ Cardinality(RemainingNotFolded(game) \ game'.folded) > 1)
  => \A s \in Seats : game'.payouts[s] <= CapOf(CommittedAt(game, game'), s)

(* Settling those who leave changes no payouts of those who stay.          *)
LEMMA SettlesToPays ==
  ASSUME NEW g, FairGame(g), Books(g), Unpaid(g), SettlesTo(g),
         game \in Games, InHand(game) => PaysFairly(game, g)
  PROVE  Unpaid(game') /\ CappedStep
<1> DEFINE S == Departing(g)
           h == RemoveSeats(g, S)
<1>1. g \in Games /\ game' = h
  BY DEF Books, DealtSeats, SettlesTo
<1>2. /\ h.seated = g.seated \ S /\ h.folded = g.folded \ S
      /\ h.street = g.street /\ h.payouts = g.payouts
      /\ h.stack = [s \in Seats |-> IF s \in S THEN 0 ELSE g.stack[s]]
  BY <1>1 DEF RemoveSeats, Games
<1> HIDE DEF h, S
<1>3. Unpaid(h)
  BY <1>2 DEF Unpaid
<1>4. ASSUME InHand(game), ~InHand(h), h.seated = game.seated,
             Cardinality(RemainingNotFolded(game) \ h.folded) > 1
      PROVE  \A s \in Seats : h.payouts[s] <= CapOf(CommittedAt(game, h), s)
  <2>1. PaysFairly(game, g) /\ g.seated = game.seated /\ ~InHand(g)
    BY <1>2, <1>4 DEF PaysFairly, InHand
  <2>2. S \cap g.seated = {}
    BY <1>2, <1>4, <2>1
  <2>3. h.stack = g.stack
    BY <1>1, <1>2, <2>2 DEF Books, EmptySeats, Games
  <2>4. RemainingNotFolded(game) \ h.folded = RemainingNotFolded(game) \ g.folded
    BY <1>2, <2>1, <2>2 DEF RemainingNotFolded
  <2>5. CommittedAt(game, h) = CommittedAt(game, g)
    BY <1>2, <2>3 DEF CommittedAt
  <2> QED  BY <1>2, <1>4, <2>1, <2>4, <2>5 DEF PaysFairly
<1> QED  BY <1>1, <1>3, <1>4 DEF CappedStep

\* The inductive invariant of the payouts
PaidInv == Unpaid(game)

(* One step of the table caps the payouts: one case per handler.             *)
LEMMA StepPays ==
  ASSUME TypeOK, FairGame(game), Books(game), Unpaid(game), [Next]_vars
  PROVE  Unpaid(game') /\ CappedStep
<1>1. game \in Games /\ EmptySeats(game)
  BY DEF TypeOK, Books
<1>2. ASSUME NEW s \in Seats, IsActor(game, s)
      PROVE  s \in CanAct(game) /\ InHand(game) /\ Playing(game, s)
  <2>1. s \in CanAct(game) /\ game.actor # None
    BY <1>2, SeatCountAssumption DEF IsActor, Seats, None
  <2>2. InHand(game)
    BY <2>1 DEF Books, AtRest
  <2> QED  BY <1>1, <2>1, <2>2 DEF Playing, CanAct, Funded
<1>3. ASSUME NEW h, NEW odd, FairGame(h), Keeps(game, h, odd), SettlesTo(h),
             PaysFairly(game, h)
      PROVE  Unpaid(game') /\ CappedStep
  BY <1>1, <1>3, SettlesToPays DEF Keeps, PaysFairly
<1>4. ASSUME NEW h, NEW odd, FairGame(h), Keeps(game, h, odd), SettlesTo(h),
             ~InHand(game), Unpaid(h)
      PROVE  Unpaid(game') /\ CappedStep
  BY <1>1, <1>4, SettlesToPays DEF Keeps
<1>5. ASSUME game'.street = game.street, game'.payouts = game.payouts
      PROVE  Unpaid(game') /\ CappedStep
  BY <1>5 DEF Unpaid, CappedStep, InHand
<1>6. ASSUME NEW s \in Seats, CallTurn(s) PROVE Unpaid(game') /\ CappedStep
  <2>1. PICK h \in CheckOrCall(game, s) : SettlesTo(h)
    BY <1>6 DEF CallTurn
  <2>2. IsActor(game, s)
    BY <1>6 DEF CallTurn
  <2> QED  BY <1>2, <1>3, <2>1, <2>2, CheckOrCallFair, CheckOrCallBooks, CheckOrCallPays
<1>7. ASSUME NEW s \in Seats, FoldTurn(s) PROVE Unpaid(game') /\ CappedStep
  <2>1. PICK h \in Fold(game, s) : SettlesTo(h)
    BY <1>7 DEF FoldTurn
  <2>2. IsActor(game, s)
    BY <1>7 DEF FoldTurn
  <2> QED  BY <1>2, <1>3, <2>1, <2>2, FoldFair, FoldBooks, FoldPays
<1>8. ASSUME NEW s \in Seats, AllInTurn(s) PROVE Unpaid(game') /\ CappedStep
  <2>1. PICK h \in AllIn(game, s) : SettlesTo(h)
    BY <1>8 DEF AllInTurn
  <2>2. IsActor(game, s)
    BY <1>8 DEF AllInTurn
  <2> QED  BY <1>2, <1>3, <2>1, <2>2, AllInFair, AllInBooks, AllInPays
<1>9. ASSUME NEW s \in Seats, NEW raiseBy \in RaiseSizes, RaiseTurn(s, raiseBy)
      PROVE  Unpaid(game') /\ CappedStep
  <2>1. PICK h \in Raise(game, s, raiseBy) : SettlesTo(h)
    BY <1>9 DEF RaiseTurn
  <2>2. IsActor(game, s) /\ ToCall(game, s) + raiseBy <= game.stack[s]
    BY <1>9 DEF RaiseTurn
  <2>3. raiseBy \in Nat
    BY RaiseSizesAssumption
  <2> QED  BY <1>2, <1>3, <2>1, <2>2, <2>3, RaiseFair, RaiseBooks, RaisePays
<1>10. CASE ActionTimeout
  <2> DEFINE s == game.actor
  <2>1. PICK h \in Timeout(game, s) : SettlesTo(h)
    BY <1>10 DEF ActionTimeout
  <2>2. IsActor(game, s) /\ s \in Seats
    BY <1>1, <1>10 DEF ActionTimeout, ActionDue, IsActor, CanAct, Funded, Games
  <2> HIDE DEF s
  <2> QED  BY <1>2, <1>3, <2>1, <2>2, TimeoutFair, TimeoutBooks, TimeoutPays
<1>11. CASE GameStart
  <2>1. PICK h \in StartHand(game) : SettlesTo(h)
    BY <1>11 DEF GameStart
  <2>2. ~InHand(game) /\ Cardinality(Available(game)) >= 2
    BY <1>11 DEF GameStart
  <2> QED  BY <1>1, <1>4, <2>1, <2>2, StartHandFair, StartHandBooks, StartHandUnpaid
<1>12. ASSUME NEW s \in Seats, Leave(s) PROVE Unpaid(game') /\ CappedStep
  <2>1. PICK h \in Withdraw(game, s) : SettlesTo(h)
    BY <1>12 DEF Leave
  <2>2. FairGame(h) /\ Keeps(game, h, Strangers(game)) /\ s \in game.seated
    BY <1>12, <2>1, WithdrawFair, WithdrawBooks DEF Leave
  <2>3. CASE InHand(game)
    <3>1. PaysFairly(game, h)
      BY <1>1, <2>1, <2>2, <2>3, WithdrawPays DEF Playing
    <3> QED  BY <1>3, <2>1, <2>2, <3>1
  <2>4. CASE ~InHand(game)
    <3>1. h.street = game.street
      BY <1>1, <2>1, <2>4 DEF Withdraw, Games
    <3>2. Unpaid(h)
      BY <2>4, <3>1 DEF Unpaid, InHand
    <3> QED  BY <1>4, <2>1, <2>2, <2>4, <3>2
  <2> QED  BY <2>3, <2>4
<1>13. ASSUME NEW s \in Seats, Join(s) PROVE Unpaid(game') /\ CappedStep
  BY <1>1, <1>5, <1>13 DEF Join, Sit, Games
<1>14. ASSUME NEW s \in Seats, RefillPoints(s) PROVE Unpaid(game') /\ CappedStep
  <2> DEFINE h == Refill(game, s)
  <2>1. s \in game.seated /\ ~InHand(game) /\ SettlesTo(h)
    BY <1>14 DEF RefillPoints
  <2>2. game' = RemoveSeats(h, Departing(h))
    BY <2>1 DEF SettlesTo
  <2>3. h.street = game.street /\ h.payouts = game.payouts
    BY <1>1 DEF Refill, Games
  <2>4. game'.street = h.street /\ game'.payouts = h.payouts
    <3>1. h \in Games
      BY <1>1, <2>1, RefillGood DEF GoodGame
    <3> HIDE DEF h
    <3> QED  BY <2>2, <3>1 DEF RemoveSeats, Games
  <2> QED  BY <1>5, <2>3, <2>4
<1>15. ASSUME NEW s \in Seats, NEW on \in BOOLEAN, SetReady(s, on)
       PROVE  Unpaid(game') /\ CappedStep
  <2> DEFINE h == [game EXCEPT !.ready = IF on THEN @ \cup {s} ELSE @ \ {s}]
  <2>1. game' = RemoveSeats(h, Departing(h))
    BY <1>15 DEF SetReady, SettlesTo
  <2>2. h.street = game.street /\ h.payouts = game.payouts /\ h \in Games
    BY <1>1 DEF Games
  <2> HIDE DEF h
  <2>3. game'.street = h.street /\ game'.payouts = h.payouts
    BY <2>1, <2>2 DEF RemoveSeats, Games
  <2> QED  BY <1>5, <2>2, <2>3
<1>16. ASSUME NEW s \in Seats, NEW on \in BOOLEAN, Connection(s, on)
       PROVE  Unpaid(game') /\ CappedStep
  BY <1>1, <1>5, <1>16 DEF Connection, SetDisconnected, Games
<1>17. CASE UNCHANGED vars
  BY <1>5, <1>17 DEF vars
<1> QED  BY <1>6, <1>7, <1>8, <1>9, <1>10, <1>11, <1>12, <1>13, <1>14, <1>15, <1>16, <1>17
         DEF Next

(* No showdown pays a player more of another's points than he put in         *)
(* himself, whoever left, joined or was all-in for less meanwhile            *)
(* (Game.showdown and buildSidePots).                                      *)
THEOREM PayoutsAlwaysCapped == Spec => PayoutsCapped
<1> DEFINE committed(t) == game.handCommitted[t] + (game.stack[t] - (game'.stack[t] - game'.payouts[t]))
<1>1. Init => PaidInv
  BY DEF Init, Table, NewGame, PaidInv, Unpaid, BettingStreets
<1>2. TypeOK /\ FairInv /\ PointsInv /\ PaidInv /\ [Next]_vars => PaidInv' /\ CappedStep
  BY StepPays DEF FairInv, PointsInv, PaidInv
<1>3. CappedStep =>
        \A s \in Seats :
          (/\ InHand(game) /\ ~InHand(game')
           /\ game'.seated = game.seated
           /\ Cardinality(RemainingNotFolded(game) \ game'.folded) > 1)
          => game'.payouts[s] <= Total([t \in Seats |-> Lesser(committed(t), committed(s))])
  <2> SUFFICES ASSUME NEW s \in Seats
               PROVE  CapOf(CommittedAt(game, game'), s)
                      = Total([t \in Seats |-> Lesser(committed(t), committed(s))])
    BY DEF CappedStep
  <2>1. \A t \in Seats : CommittedAt(game, game')[t] = committed(t)
    BY DEF CommittedAt
  <2> HIDE DEF committed
  <2>2. [t \in Seats |-> Lesser(CommittedAt(game, game')[t], CommittedAt(game, game')[s])]
        = [t \in Seats |-> Lesser(committed(t), committed(s))]
    BY <2>1
  <2> QED  BY <2>2 DEF CapOf
<1>4. Spec => []TypeOK
  BY TypeCorrect
<1>5. Spec => []FairInv
  BY InitFair, StepFair, PTL DEF Spec
<1>6. Spec => []PointsInv
  BY <1>4, <1>5, InitPoints, StepPoints, PTL DEF Spec
<1> QED  BY <1>1, <1>2, <1>3, <1>4, <1>5, <1>6, PTL DEF Spec, PayoutsCapped
=============================================================================
