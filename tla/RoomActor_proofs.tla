--------------------------- MODULE RoomActor_proofs ---------------------------
(***************************************************************************)
(* Proved for any users, any number of sessions, sockets, hands and faults *)
(* and any way persisting may fail: the room is well typed, its timers run, *)
(* answered commands are stored, no seat session is lost, the owner has a  *)
(* seat, and presence leaves the deadline of the turn alone.               *)
(***************************************************************************)
EXTENDS RoomActor, Points_proofs

-----------------------------------------------------------------------------
(* What the operators of the model return *)

(* What every continuation of a hand leaves alone.                           *)
Follows(r, m) ==
  /\ r \in States
  /\ r.session = m.session /\ r.processed = m.processed /\ r.ended = m.ended
  /\ r.owner = m.owner /\ r.disconnected \subseteq m.disconnected

(* The end of a hand moves a point and touches no seat.                      *)
LEMMA HandOverFollows ==
  ASSUME NEW m \in States, NEW r \in HandOver(m)
  PROVE  Follows(r, m)
<1>1. PICK loser \in m.dealt, winner \in m.live : r = PointMoved(m, loser, winner)
  BY DEF HandOver
<1> DEFINE net == [u \in Users |-> m.net[u] + (IF u = winner THEN 1 ELSE 0)
                                            - (IF u = loser THEN 1 ELSE 0)]
<1>2. net \in [Users -> Int]
  BY DEF States
<1>3. r = [m EXCEPT !.dealt = {}, !.live = {}, !.able = {}, !.turn = Nobody,
                    !.deadline = "none", !.net = net]
  BY <1>1 DEF PointMoved, States
<1> HIDE DEF net
<1> QED  BY <1>2, <1>3 DEF Follows, States, Deadlines

(* A hand that sticks keeps its players.                                     *)
LEMMA SticksFollows ==
  ASSUME NEW m \in States, NEW r \in Sticks(m)
  PROVE  Follows(r, m) /\ r.turn = Nobody /\ r.deadline = "none"
<1>1. r = [m EXCEPT !.turn = Nobody, !.deadline = "none"]
  BY DEF Sticks
<1> QED  BY <1>1 DEF Follows, States, Deadlines

(* A turn that passes ends the hand or goes to a player, within the bound.   *)
LEMMA TurnPassesFollows ==
  ASSUME NEW m \in States, NEW r \in TurnPasses(m)
  PROVE  Follows(r, m)
<1>1. CASE r \in HandOver(m) \cup Sticks(m)
  BY <1>1, HandOverFollows, SticksFollows
<1>2. CASE r \notin HandOver(m) \cup Sticks(m)
  <2>1. m.turns # MaxTurns
    BY <1>2 DEF TurnPasses
  <2>2. PICK u \in m.able : r = [m EXCEPT !.turn = u, !.turns = @ + 1, !.deadline = "previous"]
    BY <1>2 DEF TurnPasses
  <2>3. m.turns + 1 \in 0..MaxTurns /\ u \in Users
    BY <2>1, RoomBoundsAssumption DEF States
  <2>4. r = [m EXCEPT !.turn = u, !.turns = m.turns + 1, !.deadline = "previous"]
    BY <2>2
  <2> QED  BY <2>3, <2>4 DEF Follows, States, Deadlines
<1> QED  BY <1>1, <1>2

(* A fold takes a player out of the hand only.                               *)
LEMMA FoldedFollows ==
  ASSUME NEW m \in States, NEW u
  PROVE  Follows(Folded(m, u), m)
BY DEF Follows, Folded, States

(* A hand is started within the bound.                                       *)
LEMMA StartHandFollows ==
  ASSUME NEW m \in States, m.turns < MaxTurns, NEW r \in StartHand(m)
  PROVE  Follows(r, m)
<1>1. PICK S \in SUBSET Seated(m) :
        r \in TurnPasses([m EXCEPT !.turns = @ + 1, !.dealt = S, !.live = S, !.able = S])
  BY DEF StartHand
<1> DEFINE d == [m EXCEPT !.turns = m.turns + 1, !.dealt = S, !.live = S, !.able = S]
<1>2. m.turns + 1 \in 0..MaxTurns /\ S \in SUBSET Users
  BY RoomBoundsAssumption DEF States, Seated
<1>3. Follows(d, m)
  BY <1>2 DEF Follows, States
<1>4. r \in TurnPasses(d)
  BY <1>1
<1> HIDE DEF d
<1> QED  BY <1>3, <1>4, TurnPassesFollows DEF Follows

(* A player's action passes the turn.                                        *)
LEMMA ActFollows ==
  ASSUME NEW m \in States, NEW u, NEW r \in Act(m, u)
  PROVE  Follows(r, m)
<1> DEFINE a == [m EXCEPT !.able = @ \ {u}]
<1>1. Follows(a, m) /\ Follows(Folded(m, u), m)
  BY FoldedFollows DEF Follows, States
<1>2. r \in TurnPasses(m) \cup TurnPasses(a) \cup TurnPasses(Folded(m, u))
  BY DEF Act
<1> HIDE DEF a
<1> QED  BY <1>1, <1>2, TurnPassesFollows DEF Follows

(* A timeout checks or folds.                                                *)
LEMMA TimedOutFollows ==
  ASSUME NEW m \in States, NEW u, NEW r \in TimedOut(m, u)
  PROVE  Follows(r, m)
BY FoldedFollows, TurnPassesFollows DEF TimedOut, Follows

(* Who leaves keeps his seat, and is not shown as disconnected any more.     *)
LEMMA GoneFollows ==
  ASSUME NEW m \in States, NEW u \in Users
  PROVE  /\ Follows(Gone(m, u), m)
         /\ Gone(m, u).disconnected = m.disconnected \ {u}
         /\ Gone(m, u).turn = m.turn /\ Gone(m, u).deadline = m.deadline
         /\ u \in Gone(m, u).leaving
BY DEF Gone, Follows, States

(* A departure keeps the player seated until he is settled.                  *)
LEMMA WithdrawFollows ==
  ASSUME NEW m \in States, NEW u \in Users, NEW r \in Withdraw(m, u)
  PROVE  Follows(r, m)
<1> DEFINE gone == Gone(m, u)
           out == Folded(gone, u)
<1>1. Follows(gone, m)
  BY GoneFollows
<1>2. r \in {gone, out} \cup TurnPasses(out) \cup HandOver(out)
  BY DEF Withdraw
<1> HIDE DEF gone
<1>3. Follows(out, m)
  BY <1>1, FoldedFollows DEF Follows
<1> HIDE DEF out
<1> QED  BY <1>1, <1>2, <1>3, TurnPassesFollows, HandOverFollows DEF Follows

(* Who is withdrawn is not shown as disconnected any more.                   *)
LEMMA WithdrawnConnected ==
  ASSUME NEW m \in States, NEW u \in Users, NEW r \in Withdraw(m, u)
  PROVE  u \notin r.disconnected
<1> DEFINE gone == Gone(m, u)
           out == Folded(gone, u)
<1>1. gone \in States /\ u \notin gone.disconnected
  BY GoneFollows DEF Follows
<1>2. r \in {gone, out} \cup TurnPasses(out) \cup HandOver(out)
  BY DEF Withdraw
<1> HIDE DEF gone
<1>3. out \in States /\ u \notin out.disconnected
  BY <1>1 DEF Folded, States
<1> HIDE DEF out
<1> QED  BY <1>1, <1>2, <1>3, TurnPassesFollows, HandOverFollows DEF Follows

-----------------------------------------------------------------------------
(* Settlement *)

(* Ownership passes to a seated user or to nobody.                           *)
LEMMA NextOwnerSeated ==
  ASSUME NEW m \in States
  PROVE  NextOwner(m) \in Seated(m) \cup {Nobody}
<1> DEFINE present == Seated(m) \ (m.disconnected \cup m.leaving)
<1>1. present \subseteq Users /\ \A u \in present : m.session[u] \in Nat
  BY RoomBoundsAssumption DEF Seated, States
<1>2. CASE present = {}
  BY <1>2 DEF NextOwner
<1>3. CASE present # {}
  <2>1. \E u \in present : \A v \in present : m.session[u] <= m.session[v]
    <3> HIDE DEF present
    <3> QED  BY <1>1, <1>3, LeastValue
  <2>2. NextOwner(m) \in present
    BY <1>3, <2>1 DEF NextOwner
  <2> QED  BY <2>2
<1> QED  BY <1>2, <1>3

(* The owner has a seat.                                                     *)
Led(m) == m.owner \in Seated(m) \cup {Nobody}

(* The state s holds m without those who were settled, and perhaps one more  *)
(* processed request.                                                        *)
Settles(s, m) ==
  /\ s \in States
  /\ s.turn = m.turn /\ s.dealt = m.dealt /\ s.ended = m.ended
  /\ m.processed \subseteq s.processed
  /\ \A u \in Users : s.session[u] = IF u \in Departing(m) THEN 0 ELSE m.session[u]
  /\ s.disconnected \subseteq m.disconnected \ Departing(m)
  /\ Led(m) => Led(s)

(* Only seated players are settled.                                          *)
LEMMA DepartingType ==
  ASSUME NEW m \in States
  PROVE  Departing(m) \in SUBSET Users
BY DEF Departing, Seated, States

(* settlementsForStableState frees the seats of those it settles and no      *)
(* other.                                                                    *)
LEMMA SettledStateSettles ==
  ASSUME NEW m \in States
  PROVE  Settles(SettledState(m), m)
<1> DEFINE S == Departing(m)
           ses == [u \in Users |-> IF u \in S THEN 0 ELSE m.session[u]]
           net == [u \in Users |-> IF u \in S THEN 0 ELSE m.net[u]]
           dis == m.disconnected \ S
           rest == [m EXCEPT !.session = ses, !.net = net,
                             !.disconnected = dis, !.leaving = @ \ S]
           own == IF rest.owner \in S THEN NextOwner(rest) ELSE rest.owner
           r == [rest EXCEPT !.owner = own]
<1>1. ses \in [Users -> 0..MaxSessions] /\ net \in [Users -> Int]
  BY RoomBoundsAssumption DEF States
<1>2. SettledState(m) = r
  BY DEF SettledState, Removed
<1>3. \A u \in Users : ses[u] = IF u \in S THEN 0 ELSE m.session[u]
  OBVIOUS
<1> HIDE DEF ses, net, S
<1>4. rest \in States /\ rest.session = ses /\ rest.turn = m.turn /\ rest.dealt = m.dealt
      /\ rest.ended = m.ended /\ rest.processed = m.processed
      /\ rest.owner = m.owner /\ rest.disconnected = dis
  BY <1>1 DEF States
<1> HIDE DEF rest
<1>5. own \in Users \cup {Nobody}
  BY <1>4, NextOwnerSeated DEF States, Seated
<1>6. Led(m) => own \in Seated(rest) \cup {Nobody}
  <2>1. CASE rest.owner \in S
    BY <1>4, <2>1, NextOwnerSeated
  <2>2. CASE rest.owner \notin S
    BY <1>3, <1>4, <2>2 DEF Led, Seated
  <2> QED  BY <2>1, <2>2
<1> HIDE DEF own
<1>7. r \in States /\ r.session = ses /\ r.turn = m.turn /\ r.dealt = m.dealt
      /\ r.ended = m.ended /\ r.processed = m.processed
      /\ r.owner = own /\ r.disconnected = dis
  BY <1>4, <1>5 DEF States
<1> HIDE DEF r
<1>8. Led(m) => Led(r)
  BY <1>4, <1>6, <1>7 DEF Led, Seated
<1> QED  BY <1>2, <1>3, <1>7, <1>8 DEF Settles, S

(* Granting a deadline changes nothing else.                                 *)
LEMMA GrantedSettles ==
  ASSUME NEW m, NEW s, Settles(s, m)
  PROVE  Settles(Granted(s), m)
<1>1. s \in States
  BY DEF Settles
<1>2. /\ Granted(s) \in States
      /\ Granted(s).turn = s.turn /\ Granted(s).dealt = s.dealt /\ Granted(s).ended = s.ended
      /\ Granted(s).processed = s.processed /\ Granted(s).session = s.session
      /\ Granted(s).owner = s.owner /\ Granted(s).disconnected = s.disconnected
  BY <1>1 DEF Granted, States, Deadlines
<1> QED  BY <1>2 DEF Settles, Led, Seated

(* A command's request is recorded in the state that is persisted.           *)
LEMMA RecordedSettles ==
  ASSUME NEW m, NEW s, Settles(s, m), NEW u \in Users, NEW id \in RequestIds \cup {Fresh}
  PROVE  /\ Settles(Recorded(s, <<u, id>>), m)
         /\ id # Fresh => <<u, id>> \in Recorded(s, <<u, id>>).processed
<1> DEFINE key == <<u, id>>
           r == Recorded(s, key)
<1>1. s \in States
  BY DEF Settles
<1>2. key[2] = id
  OBVIOUS
<1>3. CASE id = Fresh
  BY <1>2, <1>3 DEF Recorded
<1>4. CASE id # Fresh
  <2>1. key \in Keys
    BY <1>4 DEF Keys
  <2>2. r = [s EXCEPT !.processed = @ \cup {key}]
    BY <1>2, <1>4 DEF Recorded
  <2> HIDE DEF key
  <2>3. /\ r \in States
        /\ r.turn = s.turn /\ r.dealt = s.dealt /\ r.ended = s.ended
        /\ r.processed = s.processed \cup {key} /\ r.session = s.session
        /\ r.owner = s.owner /\ r.disconnected = s.disconnected
    BY <1>1, <2>1, <2>2 DEF States
  <2> HIDE DEF r
  <2>4. Settles(r, m)
    BY <2>3 DEF Settles, Led, Seated
  <2> QED  BY <2>3, <2>4 DEF r, key
<1> QED  BY <1>3, <1>4

(* What ApplySettlement adds to the ledger: the sessions of S, once each.    *)
LEMMA LedgerAfterSettles ==
  ASSUME NEW m \in States, NEW S \in SUBSET Users,
         ledger \in [Sessions -> Int \cup {NotSettled}]
  PROVE  /\ LedgerAfter(m, S) \in [Sessions -> Int \cup {NotSettled}]
         /\ \A s \in Sessions : ledger[s] # NotSettled => LedgerAfter(m, S)[s] = ledger[s]
         /\ \A s \in Sessions : (\E u \in S : m.session[u] = s)
                                  => LedgerAfter(m, S)[s] # NotSettled
<1> DEFINE of(s) == CHOOSE u \in S : m.session[u] = s
<1>1. \A s \in Sessions : (\E u \in S : m.session[u] = s) => m.net[of(s)] \in Int
  BY DEF States
<1>2. \A s \in Sessions : LedgerAfter(m, S)[s] =
        IF ledger[s] = NotSettled /\ \E u \in S : m.session[u] = s
        THEN m.net[of(s)] ELSE ledger[s]
  BY DEF LedgerAfter
<1>3. LedgerAfter(m, S) = [s \in Sessions |->
        IF ledger[s] = NotSettled /\ \E u \in S : m.session[u] = s
        THEN m.net[of(s)] ELSE ledger[s]]
  BY DEF LedgerAfter
<1> HIDE DEF of
<1> QED  BY <1>1, <1>2, <1>3, NotSettledAssumption

-----------------------------------------------------------------------------
(* The inductive invariant.  AnswersDurable and NoSessionLost speak of the   *)
(* database; a step writes to it what is in memory, so the memory must hold  *)
(* as much.                                                                  *)

Holds(m, s) == \E u \in Users : m.session[u] = s

Stored ==
  /\ answered \subseteq mem.processed
  /\ mem.processed \subseteq db.processed
  /\ \A s \in joined : ledger[s] # NotSettled \/ (Holds(mem, s) /\ Holds(db, s))

(* OwnerSeated, of the memory and of what a restart would load.              *)
Owned == Led(mem) /\ Led(db)

(* DisconnectCovered: a timer is dropped when its player is connected or the *)
(* room has ended, so the disconnected are neither.                          *)
Retained ==
  /\ status = "up" =>
       /\ mem.disconnected \subseteq Seated(mem)
       /\ mem.ended => Seated(mem) = {}
       /\ \A u \in mem.disconnected : conn[u] = 0
       /\ DisconnectCovered
  /\ status = "down" => conn = Zero

IInv == TypeOK /\ TimerArmed /\ Stored /\ Owned /\ Retained

(* A key a handler works with: that of a command recorded in s, or one that  *)
(* is not logged.                                                            *)
KeyOf(key, s) == key[2] = Fresh \/ (key \in Keys /\ key \in s.processed)

(* Sessions that were held and are not settled are still held once those who *)
(* depart are settled.                                                       *)
LEMMA StillHeld ==
  ASSUME TypeOK, Stored, NEW m \in States, m.session = mem.session,
         NEW saved, Settles(saved, m), NEW s \in joined,
         LedgerAfter(m, Departing(m))[s] = NotSettled
  PROVE  Holds(saved, s)
<1>1. s \in Sessions /\ ledger \in [Sessions -> Int \cup {NotSettled}]
  BY DEF TypeOK
<1>2. ledger[s] = NotSettled /\ ~\E u \in Departing(m) : m.session[u] = s
  BY <1>1, DepartingType, LedgerAfterSettles
<1>3. PICK u \in Users : mem.session[u] = s
  BY <1>2 DEF Stored, Holds
<1>4. saved.session[u] = s
  BY <1>2, <1>3 DEF Settles
<1> QED  BY <1>4 DEF Holds

(* Forgetting the presence of those who left keeps the counters natural.     *)
LEMMA PresenceTyped ==
  ASSUME TypeOK, NEW S \in SUBSET Users, PresenceForgotten(S)
  PROVE  /\ conn' \in [Users -> Nat] /\ dgen' \in [Users -> Nat]
         /\ sockets' \in [Users -> Nat] /\ stale' \in [Users -> Nat]
<1>1. /\ conn' = [u \in Users |-> IF u \in S THEN 0 ELSE conn[u]]
      /\ dgen' = [u \in Users |-> IF u \in S THEN 0 ELSE dgen[u]]
      /\ sockets' = [u \in Users |-> IF u \in S THEN 0 ELSE sockets[u]]
      /\ stale' = [u \in Users |-> IF u \in S THEN stale[u] + sockets[u] ELSE stale[u]]
  BY DEF PresenceForgotten
<1>2. /\ conn \in [Users -> Nat] /\ dgen \in [Users -> Nat]
      /\ sockets \in [Users -> Nat] /\ stale \in [Users -> Nat]
  BY DEF TypeOK
<1> QED  BY <1>1, <1>2

(* The nets with which sessions left are integers.                           *)
LEMMA ClosedTyped ==
  ASSUME TypeOK, NEW m \in States, NEW saved, NEW final, NEW key, NEW rearm,
         Succeeds(m, saved, final, key, rearm)
  PROVE  closed' \in [Sessions -> Int \cup {NotSettled}]
<1> DEFINE S == Departing(m)
           of(s) == CHOOSE u \in S : m.session[u] = s
<1>1. S \in SUBSET Users
  BY DepartingType
<1>2. closed' = [s \in Sessions |-> IF \E u \in S : m.session[u] = s
                                    THEN m.net[of(s)] ELSE closed[s]]
  BY DEF Succeeds
<1>3. \A s \in Sessions : (\E u \in S : m.session[u] = s) => m.net[of(s)] \in Int
  <2> HIDE DEF S
  <2> QED  BY <1>1 DEF States
<1>4. closed \in [Sessions -> Int \cup {NotSettled}]
  BY DEF TypeOK
<1> HIDE DEF S, of
<1> QED  BY <1>2, <1>3, <1>4

(* A handler that succeeds keeps the invariant.                              *)
LEMMA SucceedsKeeps ==
  ASSUME IInv, Running, NEW m \in States, m.session = mem.session,
         m.processed = mem.processed,
         m.disconnected \subseteq mem.disconnected, Led(m),
         NEW saved, Settles(saved, m), NEW final, Settles(final, m),
         final.processed = saved.processed,
         NEW key, KeyOf(key, final),
         NEW rearm \in BOOLEAN, rearm \/ m.turn = mem.turn,
         Succeeds(m, saved, final, key, rearm), signals' \subseteq signals,
         \A signal \in signals : signal \notin signals' => signal.user \notin m.disconnected
  PROVE  IInv'
<1>1. TypeOK /\ TimerArmed /\ Stored /\ Owned /\ Retained
  BY DEF IInv
<1>2. saved \in States /\ final \in States
  BY DEF Settles
<1>3. /\ mem' = final /\ db' = saved
      /\ logged' = LoggedWith(key)
      /\ ledger' = LedgerAfter(m, Departing(m))
      /\ answered' = IF key[2] = Fresh THEN answered ELSE answered \cup {key}
      /\ armed' = IF rearm \/ ~InHand(final) THEN final.turn ELSE armed
      /\ PresenceForgotten(Departing(m))
      /\ UNCHANGED <<status, rows, opened, joined, dialed, faults>>
  BY DEF Succeeds
<1>4. ledger \in [Sessions -> Int \cup {NotSettled}] /\ joined \subseteq Sessions
  BY <1>1 DEF TypeOK
<1>5. /\ ledger' \in [Sessions -> Int \cup {NotSettled}]
      /\ \A s \in Sessions : ledger[s] # NotSettled => ledger'[s] = ledger[s]
  BY <1>3, <1>4, DepartingType, LedgerAfterSettles
<1>6. answered' \subseteq Keys /\ answered' \subseteq final.processed
  BY <1>1, <1>3 DEF KeyOf, Settles, Stored, TypeOK
<1>7. armed' = final.turn
  BY <1>1, <1>3 DEF TimerArmed, Settles
<1>8. TypeOK'
  <2>1. logged' \subseteq Keys
    BY <1>1, <1>3 DEF LoggedWith, KeyOf, TypeOK
  <2>2. armed' \in Users \cup {Nobody}
    BY <1>2, <1>7 DEF States
  <2>3. closed' \in [Sessions -> Int \cup {NotSettled}]
    BY <1>1, ClosedTyped
  <2>4. /\ conn' \in [Users -> Nat] /\ dgen' \in [Users -> Nat]
        /\ sockets' \in [Users -> Nat] /\ stale' \in [Users -> Nat]
    BY <1>1, <1>3, DepartingType, PresenceTyped
  <2>5. signals' \subseteq [user : Users, generation : Nat, session : Sessions]
    BY <1>1 DEF TypeOK
  <2> QED  BY <1>1, <1>2, <1>3, <1>5, <1>6, <2>1, <2>2, <2>3, <2>4, <2>5 DEF TypeOK
<1>9. TimerArmed'
  BY <1>3, <1>7 DEF TimerArmed
<1>10. ASSUME NEW s \in joined, ledger'[s] = NotSettled
       PROVE  Holds(final, s) /\ Holds(saved, s)
  BY <1>1, <1>3, <1>10, StillHeld
<1>11. Stored'
  BY <1>3, <1>6, <1>10 DEF Stored, Holds
<1>12. Owned'
  BY <1>3 DEF Owned, Settles, Led, Seated
<1>13. Retained'
  <2>1. status = "up" /\ status' = "up"
    BY <1>3 DEF Running
  <2>2. final.disconnected \subseteq Seated(final)
    BY <1>1, <2>1 DEF Retained, Settles, Seated, States
  <2>3. final.ended => Seated(final) = {}
    BY DEF Settles, Departing, Seated
  <2>4. \A u \in final.disconnected :
          u \in Users /\ u \in mem.disconnected /\ u \notin Departing(m)
    BY <1>2 DEF Settles, States
  <2>5. /\ conn' = [u \in Users |-> IF u \in Departing(m) THEN 0 ELSE conn[u]]
        /\ dgen' = [u \in Users |-> IF u \in Departing(m) THEN 0 ELSE dgen[u]]
    BY <1>3 DEF PresenceForgotten
  <2>6. \A u \in final.disconnected : conn'[u] = 0
    BY <1>1, <2>1, <2>4, <2>5 DEF Retained
  <2>7. ASSUME NEW u \in final.disconnected
        PROVE  \E signal \in signals' : signal.user = u /\ signal.generation = dgen'[u]
    <3>1. PICK signal \in signals : signal.user = u /\ signal.generation = dgen[u]
      BY <1>1, <2>1, <2>4 DEF Retained, DisconnectCovered
    <3>2. u \in m.disconnected
      BY DEF Settles
    <3>3. signal \in signals'
      BY <3>1, <3>2
    <3>4. dgen'[u] = dgen[u]
      BY <2>4, <2>5
    <3> QED  BY <3>1, <3>3, <3>4
  <2> QED  BY <1>3, <2>1, <2>2, <2>3, <2>6, <2>7 DEF Retained, DisconnectCovered, Seated
<1> QED  BY <1>8, <1>9, <1>11, <1>12, <1>13 DEF IInv

(* A handler that fails keeps the invariant, whatever reached the ledger and *)
(* the database.                                                             *)
LEMMA FailsKeeps ==
  ASSUME IInv, Running, NEW m \in States, m.session = mem.session,
         m.processed = mem.processed, Led(m),
         NEW saved, Settles(saved, m), NEW key, KeyOf(key, saved),
         Fails(m, saved, key), UNCHANGED signals
  PROVE  IInv'
<1>1. TypeOK /\ TimerArmed /\ Stored /\ Owned /\ Retained
  BY DEF IInv
<1>2. /\ mem' = mem /\ armed' = mem.turn
      /\ UNCHANGED <<status, rows, closed, opened, joined, answered>>
      /\ UNCHANGED <<conn, dgen, sockets, stale, dialed>>
  BY DEF Fails, RolledBack
<1>3. PICK S \in SUBSET Departing(m) :
        /\ ledger' = LedgerAfter(m, S)
        /\ \/ UNCHANGED <<db, logged>>
           \/ S = Departing(m) /\ db' = saved /\ logged' = LoggedWith(key)
  BY DEF Fails
<1>4. faults' \in 0..MaxFaults
  BY <1>1, RoomBoundsAssumption DEF Fails, Fault, TypeOK
<1>5. ledger \in [Sessions -> Int \cup {NotSettled}] /\ joined \subseteq Sessions
  BY <1>1 DEF TypeOK
<1>6. S \in SUBSET Users
  BY DepartingType
<1>7. /\ ledger' \in [Sessions -> Int \cup {NotSettled}]
      /\ \A s \in Sessions : ledger[s] # NotSettled => ledger'[s] = ledger[s]
  BY <1>3, <1>5, <1>6, LedgerAfterSettles
<1>8. TypeOK'
  <2>1. logged' \subseteq Keys
    BY <1>1, <1>3 DEF LoggedWith, KeyOf, TypeOK
  <2>2. db' \in States
    BY <1>1, <1>3 DEF TypeOK, Settles
  <2>3. mem.turn \in Users \cup {Nobody}
    BY <1>1 DEF TypeOK, States
  <2>4. signals' \subseteq [user : Users, generation : Nat, session : Sessions]
    BY <1>1 DEF TypeOK
  <2> QED  BY <1>1, <1>2, <1>4, <1>7, <2>1, <2>2, <2>3, <2>4 DEF TypeOK
<1>9. TimerArmed'
  BY <1>2 DEF TimerArmed
<1>10. ASSUME NEW s \in joined, ledger'[s] = NotSettled
       PROVE  Holds(mem, s) /\ Holds(db', s)
  <2>1. Holds(mem, s) /\ Holds(db, s)
    BY <1>1, <1>5, <1>7, <1>10 DEF Stored
  <2>2. CASE UNCHANGED db
    BY <2>1, <2>2
  <2>3. CASE S = Departing(m) /\ db' = saved
    BY <1>1, <1>3, <1>10, <2>1, <2>3, StillHeld
  <2> QED  BY <1>3, <2>2, <2>3
<1>11. mem.processed \subseteq db'.processed
  BY <1>1, <1>3 DEF Stored, Settles
<1>12. Stored'
  BY <1>1, <1>2, <1>10, <1>11 DEF Stored, Holds
<1>13. Owned'
  BY <1>1, <1>2, <1>3 DEF Owned, Settles, Led, Seated
<1>14. Retained'
  BY <1>1, <1>2 DEF Retained, DisconnectCovered, Seated, Zero
<1> QED  BY <1>8, <1>9, <1>12, <1>13, <1>14 DEF IInv

-----------------------------------------------------------------------------
(* One lemma per kind of handler *)

(* A command that ends as it may keeps the invariant.                        *)
LEMMA CommandKeeps ==
  ASSUME IInv, NEW u \in Users, NEW id \in RequestIds \cup {Fresh},
         NEW m \in States, m.session = mem.session, m.processed = mem.processed,
         m.disconnected \subseteq mem.disconnected, Led(m),
         NEW changed \in BOOLEAN, changed \/ m.turn = mem.turn,
         Command(u, id, m, changed)
  PROVE  IInv'
<1> DEFINE key == <<u, id>>
           after == SettledState(m)
           granted == IF changed THEN Granted(after) ELSE after
           saved == Recorded(granted, key)
<1>1. Running /\ signals' = signals /\ (Succeeds(m, saved, saved, key, changed)
                                        \/ Fails(m, saved, key))
  BY DEF Command, Accepted
<1>2. Settles(granted, m)
  BY SettledStateSettles, GrantedSettles
<1> HIDE DEF granted
<1>3. Settles(saved, m) /\ (id # Fresh => key \in saved.processed)
  BY <1>2, RecordedSettles
<1>4. KeyOf(key, saved)
  <2>1. CASE id = Fresh
    BY <2>1 DEF KeyOf
  <2>2. CASE id # Fresh
    BY <1>3, <2>2 DEF KeyOf, Keys
  <2> QED  BY <2>1, <2>2
<1> HIDE DEF key, saved
<1>5. CASE Succeeds(m, saved, saved, key, changed)
  BY <1>1, <1>3, <1>4, <1>5, SucceedsKeeps
<1>6. CASE Fails(m, saved, key)
  BY <1>1, <1>3, <1>4, <1>6, FailsKeeps
<1> QED  BY <1>1, <1>5, <1>6

(* A withdrawal that a stuck hand refuses leaves the player marked in memory: *)
(* he is not disconnected, so a timer of his may be gone.                    *)
LEMMA WithdrawFailsKeeps ==
  ASSUME IInv, Running, NEW u \in Users, WithdrawFails(u), signals' \subseteq signals,
         \A signal \in signals : signal \notin signals' => signal.user = u
  PROVE  IInv'
<1> DEFINE m == Gone(mem, u)
<1>1. TypeOK /\ TimerArmed /\ Stored /\ Owned /\ Retained
  BY DEF IInv
<1>2. /\ mem' = m
      /\ UNCHANGED <<status, db, rows, logged, ledger, closed, opened, joined, answered,
                     armed, conn, dgen, sockets, stale, dialed, faults>>
  BY DEF WithdrawFails
<1>3. /\ m \in States /\ m.session = mem.session /\ m.processed = mem.processed
      /\ m.ended = mem.ended /\ m.owner = mem.owner /\ m.turn = mem.turn
      /\ m.disconnected = mem.disconnected \ {u}
  BY <1>1, GoneFollows DEF TypeOK, Follows
<1> HIDE DEF m
<1>4. TypeOK'
  <2>1. signals' \subseteq [user : Users, generation : Nat, session : Sessions]
    BY <1>1 DEF TypeOK
  <2> QED  BY <1>1, <1>2, <1>3, <2>1 DEF TypeOK
<1>5. TimerArmed'
  BY <1>1, <1>2, <1>3 DEF TimerArmed, Running
<1>6. Stored'
  BY <1>1, <1>2, <1>3 DEF Stored, Holds
<1>7. Owned'
  BY <1>1, <1>2, <1>3 DEF Owned, Led, Seated
<1>8. Retained'
  <2>1. status = "up" /\ status' = "up"
    BY <1>2 DEF Running
  <2>2. ASSUME NEW v \in m.disconnected
        PROVE  \E timer \in signals' : timer.user = v /\ timer.generation = dgen'[v]
    <3>1. PICK timer \in signals : timer.user = v /\ timer.generation = dgen[v]
      BY <1>1, <1>3, <2>1 DEF Retained, DisconnectCovered
    <3>2. timer \in signals'
      BY <1>3, <3>1
    <3> QED  BY <1>2, <3>1, <3>2
  <2> QED  BY <1>1, <1>2, <1>3, <2>1, <2>2 DEF Retained, DisconnectCovered, Seated
<1> QED  BY <1>4, <1>5, <1>6, <1>7, <1>8 DEF IInv

(* The commands that change the hand.                                        *)
LEMMA HandCommandsKeep ==
  ASSUME IInv, NEW u \in Users, NEW id \in RequestIds \cup {Fresh}, NEW v \in Users,
         GameStart(u, id) \/ Action(u, id) \/ Leave(u, id) \/ RemovePlayer(u, id, v)
  PROVE  IInv'
<1>1. mem \in States /\ Led(mem)
  BY DEF IInv, TypeOK, Owned
<1>2. CASE \E m : Follows(m, mem) /\ Command(u, id, m, TRUE)
  BY <1>1, <1>2, CommandKeeps DEF Follows, Led, Seated
<1>3. CASE \E w \in {u, v} : Accepted(u, id) /\ WithdrawFails(w) /\ UNCHANGED signals
  BY <1>3, WithdrawFailsKeeps DEF Accepted
<1>4. \/ \E m : Follows(m, mem) /\ Command(u, id, m, TRUE)
      \/ \E w \in {u, v} : Accepted(u, id) /\ WithdrawFails(w) /\ UNCHANGED signals
  <2>1. CASE GameStart(u, id)
    BY <1>1, <2>1, StartHandFollows DEF GameStart
  <2>2. CASE Action(u, id)
    BY <1>1, <2>2, ActFollows DEF Action
  <2>3. CASE Leave(u, id)
    BY <1>1, <2>3, WithdrawFollows DEF Leave
  <2>4. CASE RemovePlayer(u, id, v)
    BY <1>1, <2>4, WithdrawFollows DEF RemovePlayer
  <2> QED  BY <2>1, <2>2, <2>3, <2>4
<1> QED  BY <1>2, <1>3, <1>4

(* The commands that do not.                                                 *)
LEMMA RoomCommandsKeep ==
  ASSUME IInv, NEW u \in Users, NEW id \in RequestIds \cup {Fresh}, NEW v \in Users,
         TransferOwner(u, id, v) \/ EndRoom(u, id) \/ OtherCommand(u, id)
  PROVE  IInv'
<1>1. mem \in States /\ Led(mem)
  BY DEF IInv, TypeOK, Owned
<1>2. CASE TransferOwner(u, id, v)
  <2> DEFINE m == [mem EXCEPT !.owner = v]
  <2>1. /\ m \in States /\ m.session = mem.session /\ m.processed = mem.processed
        /\ m.turn = mem.turn /\ m.disconnected = mem.disconnected /\ m.owner = v
    BY <1>1 DEF States
  <2>2. v \in Seated(mem) /\ Command(u, id, m, FALSE)
    BY <1>2 DEF TransferOwner
  <2>3. Led(m)
    BY <2>1, <2>2 DEF Led, Seated
  <2> HIDE DEF m
  <2> QED  BY <2>1, <2>2, <2>3, CommandKeeps
<1>3. CASE EndRoom(u, id)
  <2> DEFINE m == [mem EXCEPT !.ended = TRUE]
  <2>1. /\ m \in States /\ m.session = mem.session /\ m.processed = mem.processed
        /\ m.turn = mem.turn /\ m.disconnected = mem.disconnected /\ m.owner = mem.owner
    BY <1>1 DEF States
  <2>2. Command(u, id, m, FALSE)
    BY <1>3 DEF EndRoom
  <2>3. Led(m)
    BY <1>1, <2>1 DEF Led, Seated
  <2> HIDE DEF m
  <2> QED  BY <2>1, <2>2, <2>3, CommandKeeps
<1>4. CASE OtherCommand(u, id)
  BY <1>1, <1>4, CommandKeeps DEF OtherCommand
<1> QED  BY <1>2, <1>3, <1>4

(* A request answered again was recorded.                                    *)
LEMMA DuplicateKeeps ==
  ASSUME IInv, NEW u \in Users, NEW id \in RequestIds, Duplicate(u, id)
  PROVE  IInv'
<1>1. TypeOK /\ TimerArmed /\ Stored /\ Owned /\ Retained
  BY DEF IInv
<1>2. /\ <<u, id>> \in mem.processed
      /\ answered' = answered \cup {<<u, id>>}
      /\ UNCHANGED <<status, mem, db, rows, logged, ledger, closed, opened, joined,
                     armed, conn, dgen, signals, sockets, stale, dialed, faults>>
  BY DEF Duplicate, presence
<1>3. TypeOK'
  BY <1>1, <1>2 DEF TypeOK, Keys
<1>4. TimerArmed'
  BY <1>1, <1>2 DEF TimerArmed, Running
<1>5. Stored'
  BY <1>1, <1>2 DEF Stored, Holds
<1>6. Owned' /\ Retained'
  BY <1>1, <1>2 DEF Owned, Led, Seated, Retained, DisconnectCovered, Zero
<1> QED  BY <1>3, <1>4, <1>5, <1>6 DEF IInv

(* A new session takes a number nobody holds, and is stored before its Join  *)
(* is answered.                                                              *)
LEMMA JoinKeeps ==
  ASSUME IInv, NEW u \in Users, Join(u)
  PROVE  IInv'
<1> DEFINE s == opened + 1
           ses == [mem.session EXCEPT ![u] = s]
           net == [mem.net EXCEPT ![u] = 0]
           own == IF mem.owner = Nobody THEN u ELSE mem.owner
           m == [mem EXCEPT !.session = ses, !.net = net, !.owner = own]
           committed == db' = m /\ rows' = [rows EXCEPT ![s] = u]
<1>1. TypeOK /\ TimerArmed /\ Stored /\ Owned /\ Retained
  BY DEF IInv
<1>2. /\ Running /\ u \notin Seated(mem) /\ s \in Sessions /\ opened' = s
      /\ UNCHANGED <<status, logged, ledger, closed, answered, conn, dgen, signals,
                     sockets, stale, dialed>>
  BY DEF Join, presence
<1>3. \/ mem' = m /\ committed /\ joined' = joined \cup {s} /\ UNCHANGED <<armed, faults>>
      \/ /\ Fault /\ mem' = mem /\ armed' = mem.turn /\ UNCHANGED joined
         /\ UNCHANGED <<db, rows>> \/ committed
  BY DEF Join
<1>4. mem \in States /\ joined \subseteq Sessions
  BY <1>1 DEF TypeOK
<1>5. ses \in [Users -> 0..MaxSessions] /\ net \in [Users -> Int] /\ own \in Users \cup {Nobody}
  BY <1>2, <1>4, RoomBoundsAssumption DEF States, Sessions
<1>6. mem.session[u] = 0
  BY <1>2 DEF Seated
<1>7. ses[u] = s /\ \A v \in Users : v # u => ses[v] = mem.session[v]
  BY <1>4 DEF States
<1> HIDE DEF ses, net, own
<1>8. /\ m \in States /\ m.session = ses /\ m.processed = mem.processed
      /\ m.turn = mem.turn /\ m.ended = mem.ended
      /\ m.disconnected = mem.disconnected /\ m.owner = own
  BY <1>4, <1>5 DEF States
<1> HIDE DEF m
<1>9. Holds(m, s) /\ \A t \in Sessions : Holds(mem, t) => Holds(m, t)
  BY <1>4, <1>6, <1>7, <1>8 DEF Holds, Sessions
<1>10. TypeOK'
  <2>1. faults' \in 0..MaxFaults
    BY <1>1, <1>3, RoomBoundsAssumption DEF Fault, TypeOK
  <2>2. rows' \in [Sessions -> Users \cup {Nobody}]
    BY <1>1, <1>3 DEF TypeOK
  <2>3. mem.turn \in Users \cup {Nobody}
    BY <1>4 DEF States
  <2>4. /\ mem' \in States /\ db' \in States /\ joined' \subseteq Sessions
        /\ armed' \in Users \cup {Nobody}
    BY <1>1, <1>2, <1>3, <1>8, <2>3 DEF TypeOK
  <2> QED  BY <1>1, <1>2, <2>1, <2>2, <2>4 DEF TypeOK
<1>11. TimerArmed'
  BY <1>1, <1>2, <1>3, <1>8 DEF TimerArmed, Running
<1>12. Stored'
  <2>1. CASE mem' = m /\ committed /\ joined' = joined \cup {s}
    BY <1>1, <1>2, <1>4, <1>8, <1>9, <2>1 DEF Stored, Holds
  <2>2. CASE mem' = mem /\ UNCHANGED joined /\ (UNCHANGED <<db, rows>> \/ committed)
    BY <1>1, <1>2, <1>4, <1>8, <1>9, <2>2 DEF Stored, Holds
  <2> QED  BY <1>3, <2>1, <2>2
<1>13. Seated(mem) \subseteq Seated(m) /\ u \in Seated(m)
  BY <1>2, <1>6, <1>7, <1>8 DEF Seated, Sessions
<1>14. Led(m)
  BY <1>1, <1>8, <1>13 DEF Owned, Led, own
<1>15. Owned'
  BY <1>1, <1>3, <1>14 DEF Owned, Led, Seated
<1>16. Retained'
  <2>1. status = "up" /\ status' = "up" /\ ~mem.ended
    BY <1>2 DEF Running
  <2>2. CASE mem' = mem
    BY <1>1, <1>2, <2>1, <2>2 DEF Retained, DisconnectCovered, Seated
  <2>3. CASE mem' = m
    <3>1. mem'.disconnected = mem.disconnected /\ ~mem'.ended
      BY <1>8, <2>1, <2>3
    <3>2. mem'.disconnected \subseteq Seated(mem')
      BY <1>1, <1>8, <1>13, <2>1, <2>3 DEF Retained
    <3> QED  BY <1>1, <1>2, <2>1, <3>1, <3>2 DEF Retained, DisconnectCovered, Seated
  <2> QED  BY <1>3, <2>2, <2>3
<1> QED  BY <1>10, <1>11, <1>12, <1>15, <1>16 DEF IInv

(* What a timer persists before granting the next turn its time is enough.   *)
LEMMA TimeoutKeeps ==
  ASSUME IInv, Running, NEW m, Follows(m, mem),
         \/ /\ Succeeds(m, SettledState(m), Granted(SettledState(m)), System, TRUE)
            /\ signals' \subseteq signals
            /\ \A signal \in signals : signal \notin signals'
                                        => signal.user \notin m.disconnected
         \/ Fails(m, SettledState(m), System) /\ UNCHANGED signals
  PROVE  IInv'
<1> DEFINE after == SettledState(m)
           granted == Granted(after)
<1>1. /\ m \in States /\ m.session = mem.session /\ m.processed = mem.processed
      /\ m.disconnected \subseteq mem.disconnected /\ Led(m)
  BY DEF Follows, IInv, Owned, Led, Seated
<1>2. Settles(after, m) /\ Settles(granted, m)
  BY <1>1, SettledStateSettles, GrantedSettles
<1>3. granted.processed = after.processed
  BY <1>2 DEF Granted, Settles, States
<1>4. KeyOf(System, granted) /\ KeyOf(System, after)
  BY DEF KeyOf, System
<1>5. \/ /\ Succeeds(m, after, granted, System, TRUE)
         /\ signals' \subseteq signals
         /\ \A signal \in signals : signal \notin signals'
                                     => signal.user \notin m.disconnected
      \/ Fails(m, after, System) /\ UNCHANGED signals
  OBVIOUS
<1> HIDE DEF after, granted
<1> QED  BY <1>1, <1>2, <1>3, <1>4, <1>5, SucceedsKeeps, FailsKeeps

(* A step that only moves the counters and timers of the sockets.            *)
LEMMA SocketsKeep ==
  ASSUME IInv,
         UNCHANGED <<status, mem, db, rows, logged, ledger, closed, opened, joined, answered,
                     armed, faults>>,
         conn' \in [Users -> Nat], dgen' \in [Users -> Nat],
         sockets' \in [Users -> Nat], stale' \in [Users -> Nat],
         signals' \subseteq [user : Users, generation : Nat, session : Sessions],
         dialed' \in 0..MaxSockets, Retained'
  PROVE  IInv'
<1>1. TypeOK'
  BY DEF IInv, TypeOK
<1>2. TimerArmed' /\ Stored'
  BY DEF IInv, TimerArmed, Running, Stored, Holds
<1>3. Owned'
  BY DEF IInv, Owned, Led, Seated
<1> QED  BY <1>1, <1>2, <1>3 DEF IInv

(* A presence event changes who is disconnected and nothing else.            *)
LEMMA PersistedKeeps ==
  ASSUME IInv, NEW S \in SUBSET Users, NEW done, NEW undone,
         Persisted([mem EXCEPT !.disconnected = S], done, undone),
         conn' \in [Users -> Nat], dgen' \in [Users -> Nat],
         sockets' \in [Users -> Nat], stale' \in [Users -> Nat],
         signals' \subseteq [user : Users, generation : Nat, session : Sessions],
         dialed' \in 0..MaxSockets, Retained'
  PROVE  IInv'
<1> DEFINE m == [mem EXCEPT !.disconnected = S]
<1>1. TypeOK /\ TimerArmed /\ Stored /\ Owned
  BY DEF IInv
<1>2. /\ UNCHANGED <<status, rows, logged, ledger, closed, opened, joined, answered>>
      /\ \/ mem' = m /\ db' = m /\ UNCHANGED <<armed, faults>>
         \/ mem' = mem /\ armed' = mem.turn /\ Fault /\ (UNCHANGED db \/ db' = m)
  BY DEF Persisted
<1>3. mem \in States
  BY <1>1 DEF TypeOK
<1>4. /\ m \in States /\ m.session = mem.session /\ m.processed = mem.processed
      /\ m.turn = mem.turn /\ m.ended = mem.ended /\ m.owner = mem.owner
  BY <1>3 DEF States
<1> HIDE DEF m
<1>5. TypeOK'
  <2>1. faults' \in 0..MaxFaults
    BY <1>1, <1>2, RoomBoundsAssumption DEF Fault, TypeOK
  <2>2. mem.turn \in Users \cup {Nobody}
    BY <1>3 DEF States
  <2>3. mem' \in States /\ db' \in States /\ armed' \in Users \cup {Nobody}
    BY <1>1, <1>2, <1>4, <2>2 DEF TypeOK
  <2> QED  BY <1>1, <1>2, <2>1, <2>3 DEF TypeOK
<1>6. TimerArmed'
  BY <1>1, <1>2, <1>4 DEF TimerArmed, Running
<1>7. Stored'
  BY <1>1, <1>2, <1>4 DEF Stored, Holds
<1>8. Owned'
  BY <1>1, <1>2, <1>4 DEF Owned, Led, Seated
<1> QED  BY <1>5, <1>6, <1>7, <1>8 DEF IInv

(* A socket opens.                                                           *)
LEMMA PlayerConnectedKeeps ==
  ASSUME IInv, NEW u \in Users, PlayerConnected(u)
  PROVE  IInv'
<1>1. TypeOK /\ Retained
  BY DEF IInv
<1>2. /\ dialed < MaxSockets /\ dialed' = dialed + 1 /\ UNCHANGED <<signals, stale>>
      /\ \/ /\ conn' = [conn EXCEPT ![u] = @ + 1]
            /\ dgen' = [dgen EXCEPT ![u] = @ + 1]
            /\ sockets' = [sockets EXCEPT ![u] = @ + 1]
         \/ UNCHANGED <<conn, dgen, sockets>>
  BY DEF PlayerConnected, Persisted
<1>3. /\ conn' \in [Users -> Nat] /\ dgen' \in [Users -> Nat]
      /\ sockets' \in [Users -> Nat] /\ stale' \in [Users -> Nat]
      /\ signals' \subseteq [user : Users, generation : Nat, session : Sessions]
      /\ dialed' \in 0..MaxSockets
  BY <1>1, <1>2, RoomBoundsAssumption DEF TypeOK
<1>4. CASE u \in mem.disconnected
  <2> DEFINE rest == mem.disconnected \ {u}
             m == [mem EXCEPT !.disconnected = rest]
  <2>1. rest \in SUBSET Users
    BY <1>1 DEF TypeOK, States
  <2>2. /\ status = "up" /\ status' = "up"
        /\ \/ mem' = mem /\ UNCHANGED <<conn, dgen>>
           \/ mem' = m /\ \A v \in Users \ {u} : conn'[v] = conn[v] /\ dgen'[v] = dgen[v]
    BY <1>1, <1>4 DEF PlayerConnected, Persisted, TypeOK
  <2>3. m.disconnected = rest /\ m.session = mem.session /\ m.ended = mem.ended
    BY <1>1 DEF TypeOK, States
  <2> HIDE DEF m
  <2>4. Retained'
    BY <1>1, <1>2, <2>1, <2>2, <2>3 DEF Retained, DisconnectCovered, Seated
  <2> QED  BY <1>3, <1>4, <2>1, <2>4, PersistedKeeps DEF PlayerConnected
<1>5. CASE u \notin mem.disconnected
  <2>1. /\ status = "up" /\ status' = "up" /\ mem' = mem
        /\ \A v \in Users \ {u} : conn'[v] = conn[v] /\ dgen'[v] = dgen[v]
    BY <1>1, <1>5 DEF PlayerConnected, TypeOK
  <2>2. mem.disconnected \subseteq Users \ {u}
    BY <1>1, <1>5 DEF TypeOK, States
  <2>3. Retained'
    BY <1>1, <1>2, <2>1, <2>2 DEF Retained, DisconnectCovered, Seated
  <2> QED  BY <1>3, <1>5, <2>3, SocketsKeep DEF PlayerConnected
<1> QED  BY <1>4, <1>5

(* A socket closes.                                                          *)
LEMMA PlayerDisconnectedKeeps ==
  ASSUME IInv, NEW u \in Users, NEW old \in BOOLEAN, PlayerDisconnected(u, old)
  PROVE  IInv'
<1> DEFINE left == IF conn[u] > 0 THEN conn[u] - 1 ELSE 0
           gen == dgen[u] + 1
           signal == [user |-> u, generation |-> gen, session |-> mem.session[u]]
<1>1. TypeOK /\ Retained
  BY DEF IInv
<1>2. /\ SocketCloses(u, old) /\ UNCHANGED dialed
      /\ conn' = conn \/ conn' = [conn EXCEPT ![u] = left]
      /\ dgen' = dgen \/ dgen' = [dgen EXCEPT ![u] = gen]
      /\ signals' = signals \/ (u \in Seated(mem) /\ signals' = signals \cup {signal})
  BY DEF PlayerDisconnected, Persisted
<1>3. /\ conn \in [Users -> Nat] /\ dgen \in [Users -> Nat]
      /\ sockets \in [Users -> Nat] /\ stale \in [Users -> Nat]
      /\ signals \subseteq [user : Users, generation : Nat, session : Sessions]
      /\ mem \in States
  BY <1>1 DEF TypeOK
<1>4. left \in Nat /\ gen \in Nat
  BY <1>3
<1>5. u \in Seated(mem) => signal \in [user : Users, generation : Nat, session : Sessions]
  BY <1>3, <1>4 DEF Seated, States, Sessions
<1>6. sockets' \in [Users -> Nat] /\ stale' \in [Users -> Nat]
  BY <1>2, <1>3 DEF SocketCloses
<1>7. /\ conn' \in [Users -> Nat] /\ dgen' \in [Users -> Nat]
      /\ signals' \subseteq [user : Users, generation : Nat, session : Sessions]
      /\ dialed' \in 0..MaxSockets
  <2> HIDE DEF left, gen, signal
  <2> QED  BY <1>1, <1>2, <1>3, <1>4, <1>5 DEF TypeOK
<1>8. CASE u \in Seated(mem) /\ ~(left > 0 \/ u \in mem.disconnected)
  <2> DEFINE more == mem.disconnected \cup {u}
             m == [mem EXCEPT !.disconnected = more]
  <2>1. more \in SUBSET Users
    BY <1>3 DEF States
  <2>2. /\ status = "up" /\ status' = "up"
        /\ \/ mem' = mem /\ UNCHANGED <<conn, dgen, signals>>
           \/ /\ mem' = m /\ conn' = [conn EXCEPT ![u] = left]
              /\ dgen' = [dgen EXCEPT ![u] = gen] /\ signals' = signals \cup {signal}
    BY <1>8 DEF PlayerDisconnected, Persisted
  <2>3. m.disconnected = more /\ m.session = mem.session /\ m.ended = mem.ended
    BY <1>3 DEF States
  <2>4. left = 0
    <3>1. ~(left > 0)
      BY <1>8
    <3> HIDE DEF left
    <3> QED  BY <1>4, <3>1
  <2>5. signal.user = u /\ signal.generation = gen
    OBVIOUS
  <2>6. Retained'
    <3> HIDE DEF m, left, gen, signal
    <3>1. CASE mem' = mem /\ UNCHANGED <<conn, dgen, signals>>
      BY <1>1, <2>2, <3>1 DEF Retained, DisconnectCovered, Seated
    <3>2. CASE /\ mem' = m /\ conn' = [conn EXCEPT ![u] = left]
               /\ dgen' = [dgen EXCEPT ![u] = gen] /\ signals' = signals \cup {signal}
      <4>1. \A v \in Users : /\ conn'[v] = IF v = u THEN 0 ELSE conn[v]
                             /\ dgen'[v] = IF v = u THEN gen ELSE dgen[v]
        BY <1>3, <2>4, <3>2
      <4>2. mem'.disconnected = more /\ mem'.session = mem.session /\ mem'.ended = mem.ended
        BY <2>3, <3>2
      <4>3. Seated(mem') = Seated(mem)
        BY <4>2 DEF Seated
      <4>4. \A v \in more : conn'[v] = 0
        BY <1>1, <2>1, <2>2, <4>1 DEF Retained
      <4>5. ASSUME NEW v \in more
            PROVE  \E timer \in signals' : timer.user = v /\ timer.generation = dgen'[v]
        <5>1. CASE v = u
          BY <2>5, <3>2, <4>1, <5>1
        <5>2. CASE v # u
          BY <1>1, <2>1, <2>2, <3>2, <4>1, <5>2 DEF Retained, DisconnectCovered
        <5> QED  BY <5>1, <5>2
      <4> QED  BY <1>1, <1>8, <2>2, <4>2, <4>3, <4>4, <4>5 DEF Retained, DisconnectCovered
    <3> QED  BY <2>2, <3>1, <3>2
  <2> QED  BY <1>6, <1>7, <1>8, <2>1, <2>6, PersistedKeeps DEF PlayerDisconnected
<1>9. CASE ~(u \in Seated(mem) /\ ~(left > 0 \/ u \in mem.disconnected))
  <2>1. UNCHANGED <<status, mem, db, rows, logged, ledger, closed, opened, joined, answered,
                    armed, dgen, signals, faults>>
    BY <1>9 DEF PlayerDisconnected
  <2>2. status = "up" /\ (conn' = conn \/ (u \in Seated(mem) /\ conn' = [conn EXCEPT ![u] = left]))
    BY <1>9 DEF PlayerDisconnected
  <2>3. \A v \in mem.disconnected : v \in Users /\ conn[v] = 0
    BY <1>1, <1>3, <2>2 DEF Retained, States
  <2>4. \A v \in mem.disconnected : conn'[v] = 0
    BY <1>3, <2>2, <2>3
  <2>5. Retained'
    BY <1>1, <2>1, <2>2, <2>4 DEF Retained, DisconnectCovered, Seated
  <2> QED  BY <1>6, <1>7, <2>1, <2>5, SocketsKeep
<1> QED  BY <1>8, <1>9

(* A disconnect timer withdraws its player, or is dropped.                   *)
LEMMA DisconnectTimeoutKeeps ==
  ASSUME IInv, NEW signal \in signals, DisconnectTimeout(signal)
  PROVE  IInv'
<1>1. TypeOK /\ Retained
  BY DEF IInv
<1>2. signal.user \in Users /\ mem \in States
  BY <1>1 DEF TypeOK
<1>3. CASE Applies(signal)
  <2>1. Running
    BY <1>3 DEF Applies
  <2>2. CASE \E m \in Withdraw(mem, signal.user) :
               \/ /\ Succeeds(m, SettledState(m), Granted(SettledState(m)), System, TRUE)
                  /\ signals' = signals \ {signal}
               \/ Fails(m, SettledState(m), System) /\ UNCHANGED signals
    <3>1. PICK m \in Withdraw(mem, signal.user) :
            \/ /\ Succeeds(m, SettledState(m), Granted(SettledState(m)), System, TRUE)
               /\ signals' = signals \ {signal}
            \/ Fails(m, SettledState(m), System) /\ UNCHANGED signals
      BY <2>2
    <3>2. Follows(m, mem)
      BY <1>2, WithdrawFollows
    <3>3. signal.user \notin m.disconnected
      BY <1>2, WithdrawnConnected
    <3> QED  BY <2>1, <3>1, <3>2, <3>3, TimeoutKeeps
  <2>3. CASE WithdrawFails(signal.user) /\ signals' = signals \ {signal}
    BY <1>2, <2>1, <2>3, WithdrawFailsKeeps
  <2> QED  BY <1>3, <2>2, <2>3 DEF DisconnectTimeout, Rescheduled
<1>4. CASE ~Applies(signal)
  <2>1. /\ signals' = signals \ {signal}
        /\ UNCHANGED <<status, mem, db, rows, logged, ledger, closed, opened, joined, answered,
                       armed, conn, dgen, sockets, stale, dialed, faults>>
    BY <1>4 DEF DisconnectTimeout
  <2>2. status = "up"
    BY <1>4 DEF DisconnectTimeout
  <2>3. ASSUME NEW u \in mem.disconnected
        PROVE  \E timer \in signals' : timer.user = u /\ timer.generation = dgen[u]
    <3>1. u \in Seated(mem) /\ conn[u] = 0 /\ Running
      BY <1>1, <2>2 DEF Retained, Running, Seated
    <3>2. PICK timer \in signals : timer.user = u /\ timer.generation = dgen[u]
      BY <1>1, <2>2 DEF Retained, DisconnectCovered
    <3>3. timer # signal
      BY <1>4, <3>1, <3>2 DEF Applies
    <3> QED  BY <2>1, <3>2, <3>3
  <2>4. Retained'
    BY <1>1, <2>1, <2>2, <2>3 DEF Retained, DisconnectCovered, Seated
  <2> QED  BY <1>1, <2>1, <2>4, SocketsKeep DEF TypeOK
<1> QED  BY <1>3, <1>4

(* The turn of the player who did not act in time ends.                      *)
LEMMA ActionTimeoutKeeps ==
  ASSUME IInv, ActionTimeout
  PROVE  IInv'
<1>1. mem \in States
  BY DEF IInv, TypeOK
<1>2. PICK m \in TimedOut(mem, mem.turn) :
        \/ Succeeds(m, SettledState(m), Granted(SettledState(m)), System, TRUE)
        \/ Fails(m, SettledState(m), System)
  BY DEF ActionTimeout
<1>3. Follows(m, mem)
  BY <1>1, TimedOutFollows
<1>4. Running /\ UNCHANGED signals
  BY DEF ActionTimeout
<1> QED  BY <1>2, <1>3, <1>4, TimeoutKeeps

(* What is left after a crash is what was stored.                            *)
LEMMA CrashKeeps ==
  ASSUME IInv, Crash
  PROVE  IInv'
<1>1. TypeOK /\ Stored /\ Owned
  BY DEF IInv
<1>2. TypeOK'
  BY <1>1, RoomBoundsAssumption DEF TypeOK, Crash, Fault, Zero
<1>3. TimerArmed'
  BY DEF TimerArmed, Running, Crash
<1>4. Stored'
  BY <1>1 DEF Stored, Holds, Crash
<1>5. Owned' /\ Retained'
  BY <1>1 DEF Owned, Led, Seated, Retained, DisconnectCovered, Crash
<1> QED  BY <1>2, <1>3, <1>4, <1>5 DEF IInv

(* The restart marks players as disconnected and arms the timer.             *)
LEMMA RestartKeeps ==
  ASSUME IInv, Restart
  PROVE  IInv'
<1> DEFINE m == Resumed(db)
           back == m.disconnected
<1>1. TypeOK /\ TimerArmed /\ Stored /\ Owned /\ Retained
  BY DEF IInv
<1>2. db \in States
  BY <1>1 DEF TypeOK
<1>3. /\ m \in States /\ m.session = db.session /\ m.processed = db.processed
      /\ back \subseteq Seated(db) /\ m.owner = db.owner /\ m.ended = db.ended
  BY <1>2 DEF Resumed, Seated, States
<1>4. \A u \in back : u \in Users /\ m.session[u] \in Sessions
  BY <1>2, <1>3 DEF Seated, States, Sessions
<1>5. /\ UNCHANGED <<rows, logged, ledger, closed, opened, joined, answered,
                     conn, sockets, stale, dialed, faults>>
      /\ status = "down"
      /\ \/ /\ Loaded(db) /\ status' = "up" /\ mem' = m /\ db' = m /\ armed' = m.turn
            /\ dgen' = [u \in Users |-> IF u \in back THEN 1 ELSE 0]
            /\ signals' = {[user |-> u, generation |-> 1, session |-> m.session[u]] : u \in back}
         \/ /\ status' = "gone"
            /\ UNCHANGED <<mem, db, armed, dgen, signals>>
  BY DEF Restart
<1> HIDE DEF m, back
<1>6. TypeOK'
  <2>1. signals' \subseteq [user : Users, generation : Nat, session : Sessions]
    BY <1>1, <1>4, <1>5 DEF TypeOK
  <2>2. dgen' \in [Users -> Nat]
    BY <1>1, <1>5 DEF TypeOK
  <2>3. mem' \in States /\ db' \in States /\ armed' \in Users \cup {Nobody}
    BY <1>1, <1>3, <1>5 DEF TypeOK, States
  <2> QED  BY <1>1, <1>5, <2>1, <2>2, <2>3 DEF TypeOK
<1>7. TimerArmed'
  BY <1>5 DEF TimerArmed, Running
<1>8. Stored'
  BY <1>1, <1>3, <1>5 DEF Stored, Holds
<1>9. Owned'
  BY <1>1, <1>3, <1>5 DEF Owned, Led, Seated
<1>10. Retained'
  <2>1. CASE status' = "up"
    <3>1. mem' = m /\ ~db.ended
      BY <1>5, <2>1 DEF Loaded
    <3>2. /\ back = mem'.disconnected
          /\ Seated(mem') = Seated(db)
      BY <1>3, <3>1 DEF Seated, back
    <3>3. \A u \in back : u \in Users /\ conn'[u] = 0
      BY <1>1, <1>4, <1>5 DEF Retained, Zero
    <3>4. ASSUME NEW u \in back
          PROVE  \E signal \in signals' : signal.user = u /\ signal.generation = dgen'[u]
      <4>1. [user |-> u, generation |-> 1, session |-> m.session[u]] \in signals'
        BY <1>5, <2>1
      <4>2. dgen'[u] = 1
        BY <1>5, <2>1, <3>3
      <4> QED  BY <4>1, <4>2
    <3> QED  BY <1>3, <2>1, <3>1, <3>2, <3>3, <3>4 DEF Retained, DisconnectCovered
  <2>2. CASE status' = "gone"
    BY <2>2 DEF Retained, DisconnectCovered
  <2> QED  BY <1>5, <2>1, <2>2
<1> QED  BY <1>6, <1>7, <1>8, <1>9, <1>10 DEF IInv

-----------------------------------------------------------------------------
(* The theorems *)

(* A new room satisfies the invariant.                                       *)
LEMMA InitIInv == Init => IInv
<1> SUFFICES ASSUME Init PROVE IInv
  OBVIOUS
<1>1. NewRoom \in States
  BY UsersAssumption, RoomBoundsAssumption DEF NewRoom, States, Zero, Deadlines
<1>2. TypeOK
  <2>1. 1 \in Sessions /\ 0 \in 0..MaxSockets /\ 0 \in 0..MaxFaults
    BY RoomBoundsAssumption DEF Sessions
  <2> QED  BY <1>1, <2>1, UsersAssumption DEF Init, TypeOK, Zero
<1>3. TimerArmed
  BY DEF Init, TimerArmed, NewRoom
<1>4. Stored
  <2>1. Holds(NewRoom, 1)
    BY UsersAssumption DEF Holds, NewRoom
  <2> QED  BY <2>1 DEF Init, Stored
<1>5. Owned /\ Retained
  BY UsersAssumption DEF Init, Owned, Led, Seated, NewRoom, Retained, DisconnectCovered
<1> QED  BY <1>2, <1>3, <1>4, <1>5 DEF IInv

(* Every handler, timer, failure, crash and restart keeps it.                *)
LEMMA StepIInv == IInv /\ [Next]_vars => IInv'
<1> SUFFICES ASSUME IInv, [Next]_vars PROVE IInv'
  OBVIOUS
<1>1. ASSUME NEW u \in Users, NEW id \in RequestIds \cup {Fresh}, NEW v \in Users,
             GameStart(u, id) \/ Action(u, id) \/ Leave(u, id) \/ RemovePlayer(u, id, v)
      PROVE  IInv'
  BY <1>1, HandCommandsKeep
<1>2. ASSUME NEW u \in Users, NEW id \in RequestIds \cup {Fresh}, NEW v \in Users,
             TransferOwner(u, id, v) \/ EndRoom(u, id) \/ OtherCommand(u, id)
      PROVE  IInv'
  BY <1>2, RoomCommandsKeep
<1>3. ASSUME NEW u \in Users, NEW id \in RequestIds, Duplicate(u, id)
      PROVE  IInv'
  BY <1>3, DuplicateKeeps
<1>4. ASSUME NEW u \in Users, Join(u) \/ PlayerConnected(u)
      PROVE  IInv'
  BY <1>4, JoinKeeps, PlayerConnectedKeeps
<1>5. ASSUME NEW u \in Users, NEW old \in BOOLEAN, PlayerDisconnected(u, old)
      PROVE  IInv'
  BY <1>5, PlayerDisconnectedKeeps
<1>6. ASSUME NEW signal \in signals, DisconnectTimeout(signal)
      PROVE  IInv'
  BY <1>6, DisconnectTimeoutKeeps
<1>7. CASE ActionTimeout \/ Crash \/ Restart
  BY <1>7, ActionTimeoutKeeps, CrashKeeps, RestartKeeps
<1>8. CASE UNCHANGED vars
  BY <1>8 DEF vars, presence, IInv, TypeOK, TimerArmed, Running, Stored, Holds, Owned,
                 Led, Seated, Retained, DisconnectCovered, Zero
<1> QED  BY <1>1, <1>2, <1>3, <1>4, <1>5, <1>6, <1>7, <1>8, UsersAssumption DEF Next

(* The invariant holds throughout.                                           *)
LEMMA Invariant == Spec => []IInv
BY InitIInv, StepIInv, PTL DEF Spec

(* The states in memory and in the database, the ledger, the connections and *)
(* the timers of a room always are what actor.go takes them for.             *)
THEOREM TypeCorrect == Spec => []TypeOK
<1>1. IInv => TypeOK
  BY DEF IInv
<1> QED  BY <1>1, Invariant, PTL

(* No failed or rolled back event, timeout, crash or restart leaves the turn *)
(* of a running hand without the timer that ends it (scheduleActionTimeout,  *)
(* restorePersistentState, ResumeAfterRestart).                              *)
THEOREM TimerAlwaysArmed == Spec => []TimerArmed
<1>1. IInv => TimerArmed
  BY DEF IInv
<1> QED  BY <1>1, Invariant, PTL

(* A command that was answered is in the database, whatever fails after it   *)
(* (Handle and commitOrRollback), and so cannot be applied a second time.    *)
THEOREM AnswersStored == Spec => []AnswersDurable
<1>1. IInv => AnswersDurable
  BY DEF IInv, Stored, AnswersDurable
<1> QED  BY <1>1, Invariant, PTL

(* A seat whose Join was answered stays in the database until the ledger has *)
(* settled it (finishSettlements and the settlements of a failed handler).   *)
THEOREM SessionsKept == Spec => []NoSessionLost
<1>1. IInv => NoSessionLost
  BY DEF IInv, Stored, Holds, NoSessionLost
<1> QED  BY <1>1, Invariant, PTL

(* The owner of a room, in memory and after every restart, sits in it:       *)
(* transferOwnerAfterDeparture never appoints somebody who has left.         *)
THEOREM OwnerAlwaysSeated == Spec => []OwnerSeated
<1>1. IInv => OwnerSeated
  BY DEF IInv, Owned, Led, OwnerSeated
<1> QED  BY <1>1, Invariant, PTL

(* A disconnected player has a running timer that frees his seat, also after *)
(* the timer of an earlier generation is dropped, his withdrawal fails or    *)
(* the server restarts (handleDisconnectTimeout, ResumeAfterRestart).        *)
THEOREM RetentionAlwaysTimed == Spec => []DisconnectCovered
<1>1. IInv => DisconnectCovered
  BY DEF IInv, Retained, DisconnectCovered
<1> QED  BY <1>1, Invariant, PTL

-----------------------------------------------------------------------------
(* The deadline of a turn.  A crash brings back the state in the database,   *)
(* which after a failure may be one the memory never had: it must not have   *)
(* been postponed either.                                                    *)

(* The state s has no more time for the turn than m, unless somebody leaves. *)
NotPostponed(s, m) ==
  s.deadline = "postponed" => m.deadline = "postponed" \/ s.leaving # {}

Punctual ==
  db.deadline = "postponed" => mem.deadline = "postponed" \/ db.leaving # {}

(* What an operation on m may leave of the deadline for the actor to grant.  *)
Timely(r, m) ==
  \/ r.deadline = "none" /\ r.turn = Nobody
  \/ r.deadline = "previous"
  \/ r.deadline = m.deadline /\ (InHand(r) => r.leaving # {})

(* The end of a hand and a turn that passes have a deadline of their own.    *)
LEMMA PassingTimely ==
  ASSUME NEW m \in States, NEW n, NEW r \in TurnPasses(m) \cup HandOver(m)
  PROVE  Timely(r, n)
<1>1. CASE r \in HandOver(m)
  <2>1. PICK loser \in m.dealt, winner \in m.live : r = PointMoved(m, loser, winner)
    BY <1>1 DEF HandOver
  <2> DEFINE net == [u \in Users |-> m.net[u] + (IF u = winner THEN 1 ELSE 0)
                                              - (IF u = loser THEN 1 ELSE 0)]
  <2>2. r = [m EXCEPT !.dealt = {}, !.live = {}, !.able = {}, !.turn = Nobody,
                      !.deadline = "none", !.net = net]
    BY <2>1 DEF PointMoved, States
  <2> HIDE DEF net
  <2> QED  BY <2>2 DEF Timely, States
<1>2. CASE r \in Sticks(m)
  BY <1>2, SticksFollows DEF Timely
<1>3. CASE r \notin HandOver(m) \cup Sticks(m)
  <2>1. PICK u \in m.able : r = [m EXCEPT !.turn = u, !.turns = @ + 1, !.deadline = "previous"]
    BY <1>3 DEF TurnPasses
  <2> QED  BY <2>1 DEF Timely, States
<1> QED  BY <1>1, <1>2, <1>3

(* A hand that starts gives the first player a turn.                         *)
LEMMA StartTimely ==
  ASSUME NEW m \in States, m.turns < MaxTurns, NEW r \in StartHand(m)
  PROVE  Timely(r, m)
<1>1. PICK S \in SUBSET Seated(m) :
        r \in TurnPasses([m EXCEPT !.turns = @ + 1, !.dealt = S, !.live = S, !.able = S])
  BY DEF StartHand
<1> DEFINE d == [m EXCEPT !.turns = m.turns + 1, !.dealt = S, !.live = S, !.able = S]
<1>2. m.turns + 1 \in 0..MaxTurns /\ S \in SUBSET Users
  BY RoomBoundsAssumption DEF States, Seated
<1>3. d \in States /\ r \in TurnPasses(d)
  BY <1>1, <1>2 DEF States
<1> HIDE DEF d
<1> QED  BY <1>3, PassingTimely

(* An action or its timeout passes the turn or ends the hand.                *)
LEMMA ActTimely ==
  ASSUME NEW m \in States, NEW u, NEW r \in Act(m, u) \cup TimedOut(m, u)
  PROVE  Timely(r, m)
<1> DEFINE a == [m EXCEPT !.able = @ \ {u}]
<1>1. a \in States /\ Folded(m, u) \in States
  BY FoldedFollows DEF Follows, States
<1>2. r \in TurnPasses(m) \cup TurnPasses(a) \cup TurnPasses(Folded(m, u))
  BY DEF Act, TimedOut
<1> HIDE DEF a
<1> QED  BY <1>1, <1>2, PassingTimely

(* A departure may do neither, and then somebody leaves.                     *)
LEMMA WithdrawTimely ==
  ASSUME NEW m \in States, NEW u \in Users, NEW r \in Withdraw(m, u)
  PROVE  Timely(r, m)
<1> DEFINE gone == Gone(m, u)
           out == Folded(gone, u)
<1>1. gone \in States /\ gone.deadline = m.deadline /\ u \in gone.leaving
  BY GoneFollows DEF Follows
<1>2. r \in {gone, out} \cup TurnPasses(out) \cup HandOver(out)
  BY DEF Withdraw
<1> HIDE DEF gone
<1>3. out \in States /\ out.deadline = m.deadline /\ u \in out.leaving
  BY <1>1 DEF Folded, States
<1> HIDE DEF out
<1>4. CASE r \in {gone, out}
  BY <1>1, <1>3, <1>4 DEF Timely
<1>5. CASE r \in TurnPasses(out) \cup HandOver(out)
  BY <1>3, <1>5, PassingTimely
<1> QED  BY <1>2, <1>4, <1>5

(* Settling changes no deadline, and nobody's departure while a hand runs.   *)
LEMMA SettledDeadline ==
  ASSUME NEW m \in States
  PROVE  /\ SettledState(m).deadline = m.deadline
         /\ SettledState(m).dealt = m.dealt
         /\ SettledState(m).turn = m.turn
         /\ ~m.ended /\ InHand(m) => SettledState(m).leaving = m.leaving
<1> DEFINE S == Departing(m)
           ses == [u \in Users |-> IF u \in S THEN 0 ELSE m.session[u]]
           net == [u \in Users |-> IF u \in S THEN 0 ELSE m.net[u]]
           rest == [m EXCEPT !.session = ses, !.net = net,
                             !.disconnected = @ \ S, !.leaving = @ \ S]
           own == IF rest.owner \in S THEN NextOwner(rest) ELSE rest.owner
<1>1. SettledState(m) = [rest EXCEPT !.owner = own]
  BY DEF SettledState, Removed
<1>2. ~m.ended /\ InHand(m) => S = {}
  BY DEF Departing
<1> HIDE DEF S, ses, net, own
<1> QED  BY <1>1, <1>2 DEF States

(* The deadline granted after an operation is not a later one.               *)
LEMMA GrantedNotPostponed ==
  ASSUME NEW m \in States, NEW r \in States, Timely(r, m), ~r.ended
  PROVE  /\ NotPostponed(SettledState(r), m)
         /\ NotPostponed(Granted(SettledState(r)), m)
         /\ SettledState(r).deadline = "postponed"
              => Granted(SettledState(r)).deadline = "postponed"
<1> DEFINE s == SettledState(r)
<1>1. s \in States
  BY SettledStateSettles DEF Settles
<1>2. /\ s.deadline = r.deadline /\ s.turn = r.turn /\ s.dealt = r.dealt
      /\ InHand(r) => s.leaving = r.leaving
  BY SettledDeadline
<1> HIDE DEF s
<1>3. /\ Granted(s).leaving = s.leaving
      /\ Granted(s).deadline =
           IF s.dealt = {} \/ s.turn = Nobody THEN s.deadline
           ELSE IF s.deadline = "previous" THEN "own" ELSE "postponed"
  BY <1>1 DEF Granted, InHand, States
<1>4. NotPostponed(s, m) /\ NotPostponed(Granted(s), m)
      /\ (s.deadline = "postponed" => Granted(s).deadline = "postponed")
  BY <1>2, <1>3 DEF Timely, NotPostponed, InHand
<1> QED  BY <1>4 DEF s

(* Recording a request changes no deadline.                                  *)
LEMMA RecordedDeadline ==
  ASSUME NEW s \in States, NEW key
  PROVE  Recorded(s, key).deadline = s.deadline /\ Recorded(s, key).leaving = s.leaving
BY DEF Recorded, States

(* A step of the deadline: what is required of it and what it keeps.         *)
OnTime ==
  /\ Punctual'
  /\ mem'.leaving = {} /\ mem.deadline # "postponed" => mem'.deadline # "postponed"

(* A handler postpones nothing, however it ends.                             *)
LEMMA EndingsOnTime ==
  ASSUME Punctual, NEW m, NEW saved, NEW final, NEW key, NEW rearm,
         NotPostponed(saved, mem), NotPostponed(final, mem),
         saved.deadline = "postponed" => final.deadline = "postponed",
         Succeeds(m, saved, final, key, rearm) \/ Fails(m, saved, key)
  PROVE  OnTime
<1>1. CASE Succeeds(m, saved, final, key, rearm)
  <2>1. mem' = final /\ db' = saved
    BY <1>1 DEF Succeeds
  <2> QED  BY <2>1 DEF OnTime, Punctual, NotPostponed
<1>2. CASE Fails(m, saved, key)
  <2>1. mem' = mem /\ (db' = db \/ db' = saved)
    BY <1>2 DEF Fails, RolledBack
  <2> QED  BY <2>1 DEF OnTime, Punctual, NotPostponed
<1> QED  BY <1>1, <1>2

(* A command that changes the hand, or leaves the deadline as it is.         *)
LEMMA CommandOnTime ==
  ASSUME IInv, Punctual, NEW u, NEW id, NEW m \in States, NEW changed \in BOOLEAN,
         Command(u, id, m, changed),
         \/ changed /\ Timely(m, mem) /\ m.ended = mem.ended
         \/ ~changed /\ m.deadline = mem.deadline
  PROVE  OnTime
<1> DEFINE after == SettledState(m)
           granted == IF changed THEN Granted(after) ELSE after
           saved == Recorded(granted, <<u, id>>)
<1>1. mem \in States /\ ~mem.ended
  BY DEF IInv, TypeOK, Command, Accepted, Running
<1>2. after \in States /\ Granted(after) \in States
  BY SettledStateSettles, GrantedSettles DEF Settles
<1>3. NotPostponed(granted, mem)
  <2>1. CASE changed
    BY <1>1, <2>1, GrantedNotPostponed
  <2>2. CASE ~changed
    BY <2>2, SettledDeadline DEF NotPostponed
  <2> QED  BY <2>1, <2>2
<1>4. Succeeds(m, saved, saved, <<u, id>>, changed) \/ Fails(m, saved, <<u, id>>)
  BY DEF Command
<1>5. granted \in States
  BY <1>2
<1> HIDE DEF granted, after
<1>6. NotPostponed(saved, mem)
  BY <1>3, <1>5, RecordedDeadline DEF NotPostponed
<1> HIDE DEF saved
<1> QED  BY <1>4, <1>6, EndingsOnTime

(* A withdrawal that a stuck hand refuses leaves the deadline as it is.      *)
LEMMA WithdrawFailsOnTime ==
  ASSUME IInv, Punctual, NEW u \in Users, WithdrawFails(u)
  PROVE  OnTime
<1>1. Gone(mem, u).deadline = mem.deadline
  BY GoneFollows DEF IInv, TypeOK
<1>2. mem' = Gone(mem, u) /\ db' = db
  BY DEF WithdrawFails
<1> QED  BY <1>1, <1>2 DEF OnTime, Punctual

(* Every command.                                                            *)
LEMMA CommandsOnTime ==
  ASSUME IInv, Punctual, NEW u \in Users, NEW id, NEW v \in Users,
         \/ GameStart(u, id) \/ Action(u, id) \/ Leave(u, id) \/ RemovePlayer(u, id, v)
         \/ TransferOwner(u, id, v) \/ EndRoom(u, id) \/ OtherCommand(u, id)
  PROVE  OnTime
<1>1. mem \in States
  BY DEF IInv, TypeOK
<1>2. CASE GameStart(u, id) \/ Action(u, id) \/ Leave(u, id) \/ RemovePlayer(u, id, v)
  <2>1. \/ \E m : Follows(m, mem) /\ Timely(m, mem) /\ Command(u, id, m, TRUE)
        \/ \E w \in {u, v} : WithdrawFails(w)
    <3>1. CASE GameStart(u, id)
      BY <1>1, <3>1, StartHandFollows, StartTimely DEF GameStart
    <3>2. CASE Action(u, id)
      BY <1>1, <3>2, ActFollows, ActTimely DEF Action
    <3>3. CASE Leave(u, id)
      BY <1>1, <3>3, WithdrawFollows, WithdrawTimely DEF Leave
    <3>4. CASE RemovePlayer(u, id, v)
      BY <1>1, <3>4, WithdrawFollows, WithdrawTimely DEF RemovePlayer
    <3> QED  BY <1>2, <3>1, <3>2, <3>3, <3>4
  <2>2. CASE \E m : Follows(m, mem) /\ Timely(m, mem) /\ Command(u, id, m, TRUE)
    BY <2>2, CommandOnTime DEF Follows
  <2>3. CASE \E w \in {u, v} : WithdrawFails(w)
    BY <2>3, WithdrawFailsOnTime
  <2> QED  BY <2>1, <2>2, <2>3
<1>3. CASE TransferOwner(u, id, v) \/ EndRoom(u, id) \/ OtherCommand(u, id)
  <2>1. \E m \in States : m.deadline = mem.deadline /\ Command(u, id, m, FALSE)
    <3>1. [mem EXCEPT !.ended = TRUE] \in States
      BY <1>1 DEF States
    <3>2. [mem EXCEPT !.owner = v] \in States
      BY <1>1 DEF States
    <3>3. /\ [mem EXCEPT !.ended = TRUE].deadline = mem.deadline
          /\ [mem EXCEPT !.owner = v].deadline = mem.deadline
      BY <1>1 DEF States
    <3> QED  BY <1>1, <1>3, <3>1, <3>2, <3>3 DEF TransferOwner, EndRoom, OtherCommand
  <2> QED  BY <2>1, CommandOnTime
<1> QED  BY <1>2, <1>3

(* Both timers.                                                              *)
LEMMA TimersOnTime ==
  ASSUME IInv, Punctual,
         ActionTimeout \/ \E signal \in signals : DisconnectTimeout(signal)
  PROVE  OnTime
<1>1. mem \in States
  BY DEF IInv, TypeOK
<1>2. ASSUME NEW m, Follows(m, mem), Timely(m, mem), Running,
             \/ Succeeds(m, SettledState(m), Granted(SettledState(m)), System, TRUE)
             \/ Fails(m, SettledState(m), System)
      PROVE  OnTime
  <2>1. m \in States /\ ~m.ended
    BY <1>2 DEF Follows, Running
  <2> QED  BY <1>1, <1>2, <2>1, GrantedNotPostponed, EndingsOnTime
<1>3. CASE ActionTimeout
  <2>1. Running
    BY <1>3 DEF ActionTimeout
  <2> QED  BY <1>1, <1>2, <1>3, <2>1, TimedOutFollows, ActTimely DEF ActionTimeout
<1>4. ASSUME NEW signal \in signals, DisconnectTimeout(signal)
      PROVE  OnTime
  <2>1. signal.user \in Users
    BY DEF IInv, TypeOK
  <2>2. CASE Applies(signal)
    <3>1. CASE WithdrawFails(signal.user)
      BY <2>1, <3>1, WithdrawFailsOnTime
    <3>2. CASE ~WithdrawFails(signal.user)
      BY <1>1, <1>2, <1>4, <2>1, <2>2, <3>2, WithdrawFollows, WithdrawTimely
         DEF DisconnectTimeout, Applies
    <3> QED  BY <3>1, <3>2
  <2>3. CASE ~Applies(signal)
    <3>1. mem' = mem /\ db' = db
      BY <1>4, <2>3 DEF DisconnectTimeout
    <3> QED  BY <3>1 DEF OnTime, Punctual
  <2> QED  BY <2>2, <2>3
<1> QED  BY <1>3, <1>4

(* Joins, sockets, crashes and restarts.                                     *)
LEMMA PresenceOnTime ==
  ASSUME IInv, Punctual, NEW u \in Users,
         \/ Join(u) \/ PlayerConnected(u) \/ Crash \/ Restart
         \/ \E old \in BOOLEAN : PlayerDisconnected(u, old)
         \/ \E id \in RequestIds : Duplicate(u, id)
         \/ UNCHANGED vars
  PROVE  OnTime
<1>1. mem \in States /\ db \in States
  BY DEF IInv, TypeOK
<1>2. /\ Punctual'
      /\ \/ mem'.deadline = mem.deadline
         \/ mem'.deadline = db.deadline /\ mem'.leaving = db.leaving
  <2>1. CASE Join(u)
    <3> DEFINE s == opened + 1
               ses == [mem.session EXCEPT ![u] = s]
               net == [mem.net EXCEPT ![u] = 0]
               own == IF mem.owner = Nobody THEN u ELSE mem.owner
               m == [mem EXCEPT !.session = ses, !.net = net, !.owner = own]
    <3>1. (mem' = m /\ db' = m) \/ (mem' = mem /\ (db' = db \/ db' = m))
      BY <2>1 DEF Join
    <3> HIDE DEF ses, net, own
    <3>2. m.deadline = mem.deadline /\ m.leaving = mem.leaving
      BY <1>1 DEF States
    <3> HIDE DEF m
    <3> QED  BY <3>1, <3>2 DEF Punctual
  <2>2. CASE PlayerConnected(u) \/ \E old \in BOOLEAN : PlayerDisconnected(u, old)
    <3> DEFINE less == [mem EXCEPT !.disconnected = @ \ {u}]
               more == [mem EXCEPT !.disconnected = @ \cup {u}]
    <3>1. \/ mem' = less /\ db' = less
          \/ mem' = more /\ db' = more
          \/ mem' = mem /\ db' \in {db, less, more}
      BY <2>2 DEF PlayerConnected, PlayerDisconnected, Persisted
    <3>2. /\ less.deadline = mem.deadline /\ less.leaving = mem.leaving
          /\ more.deadline = mem.deadline /\ more.leaving = mem.leaving
      BY <1>1 DEF States
    <3> HIDE DEF less, more
    <3> QED  BY <3>1, <3>2 DEF Punctual
  <2>3. CASE Crash
    BY <2>3 DEF Crash, Punctual
  <2>4. CASE Restart
    <3>1. (mem' = Resumed(db) /\ db' = Resumed(db)) \/ (mem' = mem /\ db' = db)
      BY <2>4 DEF Restart
    <3>2. Resumed(db).deadline = db.deadline /\ Resumed(db).leaving = db.leaving
      BY <1>1 DEF Resumed, States
    <3> QED  BY <3>1, <3>2 DEF Punctual
  <2>5. CASE (\E id \in RequestIds : Duplicate(u, id)) \/ UNCHANGED vars
    BY <2>5 DEF Duplicate, vars, Punctual
  <2> QED  BY <2>1, <2>2, <2>3, <2>4, <2>5
<1> QED  BY <1>2 DEF OnTime, Punctual

(* Every step.                                                               *)
LEMMA StepOnTime == IInv /\ Punctual /\ [Next]_vars => OnTime
<1> SUFFICES ASSUME IInv, Punctual, [Next]_vars PROVE OnTime
  OBVIOUS
<1>1. CASE \E u \in Users, id \in RequestIds \cup {Fresh}, v \in Users :
             \/ GameStart(u, id) \/ Action(u, id) \/ Leave(u, id) \/ RemovePlayer(u, id, v)
             \/ TransferOwner(u, id, v) \/ EndRoom(u, id) \/ OtherCommand(u, id)
  BY <1>1, CommandsOnTime
<1>2. CASE \/ \E u \in Users, id \in RequestIds : Duplicate(u, id)
           \/ \E u \in Users : Join(u) \/ PlayerConnected(u)
           \/ \E u \in Users, old \in BOOLEAN : PlayerDisconnected(u, old)
  BY <1>2, PresenceOnTime
<1>3. CASE Crash \/ Restart \/ UNCHANGED vars
  BY <1>3, UsersAssumption, PresenceOnTime
<1>4. CASE ActionTimeout \/ \E signal \in signals : DisconnectTimeout(signal)
  BY <1>4, TimersOnTime
<1> QED  BY <1>1, <1>2, <1>3, <1>4, UsersAssumption DEF Next

(* Connections, joins, messages, failures, crashes and restarts never give   *)
(* the player whose turn it is more time: only somebody who leaves while the *)
(* hand runs may (the version check before scheduleActionTimeout in Handle,  *)
(* restorePersistentState with the old deadline).                            *)
THEOREM DeadlineKept == Spec => PresenceKeepsDeadline
<1>1. Init => Punctual
  BY DEF Init, NewRoom, Punctual
<1>2. IInv /\ Punctual /\ [Next]_vars => Punctual'
  BY StepOnTime DEF OnTime
<1>3. IInv /\ Punctual /\ [Next]_vars
        => [ mem'.leaving = {} /\ mem.deadline # "postponed"
               => mem'.deadline # "postponed" ]_vars
  BY StepOnTime DEF OnTime
<1> QED  BY <1>1, <1>2, <1>3, Invariant, PTL DEF Spec, PresenceKeepsDeadline
=============================================================================
