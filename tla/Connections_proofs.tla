-------------------------- MODULE Connections_proofs --------------------------
(***************************************************************************)
(* What the account, its sockets and the room's seat owe each other, for   *)
(* any number of requests and sessions.  Most steps of a request touch     *)
(* nobody else (QuietStep); those that matter open, close or replace a     *)
(* socket, free the seat, or moderate.                                     *)
(***************************************************************************)
EXTENDS Connections, TLAPS

\* the hub holds only clients that are being served
HubServes == \A r \in hub : r \in Requests /\ At(r, "serving") /\ Is(r, {"voice"})

\* what is still to be written to the row has been audited
Audited ==
  \A r \in Requests : At(r, "disconnect") \/ At(r, "setBanned") => request[r].input \in audit

IInv ==
  /\ TypeOK
  /\ SocketsReachable /\ WatchersSeated
  /\ HubServes /\ VoiceCurrent
  /\ Audited /\ BanSurvives

\* the steps at which a request owes something
Owing == {"connect", "serving", "disconnect", "setBanned"}

LEMMA Types ==
  ASSUME TypeOK, NEW r \in Requests, NEW y \in Running \cup {Idle},
         request' = [request EXCEPT ![r] = y]
  PROVE  /\ request' \in [Requests -> Running \cup {Idle}]
         /\ request'[r] = y
         /\ \A x \in Requests \ {r} : request'[x] = request[x]
  BY DEF TypeOK

LEMMA Stepped ==
  ASSUME TypeOK, NEW r \in Requests, request[r] # Idle, NEW step \in Steps, Goes(r, step)
  PROVE  /\ request[r] \in Running
         /\ [request[r] EXCEPT !.at = step] \in Running
         /\ request' = [request EXCEPT ![r] = [request[r] EXCEPT !.at = step]]
  BY DEF TypeOK, Running, Goes

\* A request that owes nothing before and after its step, and touches no socket.
LEMMA QuietStep ==
  ASSUME IInv, NEW r \in Requests, NEW y \in Running \cup {Idle},
         request' = [request EXCEPT ![r] = y],
         y = Idle \/ y.at \notin Owing,
         request[r] = Idle \/ request[r].at # "serving",
         row' \in Users, row'.banned = row.banned,
         sessions' \subseteq Tokens, begun' \in 0..MaxRequests,
         UNCHANGED <<audit, room, sockets>>
  PROVE  IInv'
<1>1. /\ request' \in [Requests -> Running \cup {Idle}] /\ request'[r] = y
      /\ \A x \in Requests \ {r} : request'[x] = request[x]
  BY Types DEF IInv
<1>2. r \notin hub
  BY DEF IInv, HubServes, At
<1>3. TypeOK'
  BY <1>1 DEF IInv, TypeOK, room, sockets
<1>4. SocketsReachable' /\ WatchersSeated'
  BY <1>1 DEF IInv, SocketsReachable, WatchersSeated, Serves, At, Is, Owing, room, sockets
<1>5. HubServes'
  BY <1>1, <1>2 DEF IInv, HubServes, At, Is, sockets
<1>6. VoiceCurrent'
  BY <1>1 DEF IInv, VoiceCurrent, Serves, At, Is, Owing, sockets
<1>7. Audited' /\ BanSurvives'
  BY <1>1 DEF IInv, Audited, BanSurvives, At, Owing
<1> QED
  BY <1>3, <1>4, <1>5, <1>6, <1>7 DEF IInv

\* A request whose step revokes all of the user's sockets, and moves on.
LEMMA RevokingStep ==
  ASSUME IInv, NEW r \in Requests, NEW y \in Running \cup {Idle},
         request[r] # Idle, request[r].at # "serving", request' = [request EXCEPT ![r] = y],
         y = Idle \/ y.at \notin Owing \/ (y.at = "setBanned" /\ y.input \in audit),
         registered' = {}, closing' = closing \cup registered,
         seat' \in {"none", "seated", "leaving"}, left' \in {left, TRUE},
         UNCHANGED <<accounts, seats, hub, announced, begun>>
  PROVE  IInv'
<1>1. /\ request' \in [Requests -> Running \cup {Idle}] /\ request'[r] = y
      /\ \A x \in Requests \ {r} : request'[x] = request[x]
  BY Types DEF IInv
<1>2. r \notin hub
  BY DEF IInv, HubServes, At
<1>3. TypeOK'
  BY <1>1 DEF IInv, TypeOK, Revoke, accounts
<1>4. SocketsReachable'
  BY <1>1 DEF IInv, SocketsReachable, At, Owing, Revoke
<1>5. WatchersSeated'
  BY <1>1 DEF IInv, SocketsReachable, WatchersSeated, Serves, At, Is, Owing, Revoke
<1>6. HubServes'
  BY <1>1, <1>2 DEF IInv, HubServes, At, Is
<1>7. VoiceCurrent'
  BY <1>1 DEF IInv, VoiceCurrent, Serves, At, Is, Owing, Revoke
<1>8. Audited' /\ BanSurvives'
  BY <1>1 DEF IInv, Audited, BanSurvives, At, Owing, accounts
<1> QED
  BY <1>3, <1>4, <1>5, <1>6, <1>7, <1>8 DEF IInv

LEMMA InitHolds == Init => IInv
<1> SUFFICES ASSUME Init PROVE IInv
  OBVIOUS
<1>1. TypeOK
  <2>1. row \in Users
    BY DEF Init, Users
  <2>2. request \in [Requests -> Running \cup {Idle}]
    BY DEF Init
  <2>3. begun \in 0..MaxRequests /\ seats \in 0..MaxSeats
    BY BoundsAssumption DEF Init
  <2> QED
    BY <2>1, <2>2, <2>3 DEF Init, TypeOK
<1>2. \A r \in Requests, step \in Steps : ~At(r, step)
  BY DEF Init, At
<1>3. SocketsReachable /\ WatchersSeated /\ HubServes /\ VoiceCurrent /\ Audited /\ BanSurvives
  BY <1>2 DEF Init, SocketsReachable, WatchersSeated, Serves, HubServes, VoiceCurrent, Audited,
     BanSurvives, Steps
<1> QED
  BY <1>1, <1>3 DEF IInv

-----------------------------------------------------------------------------
(* The steps of a request that owes nothing *)

LEMMA BeginKeeps == ASSUME IInv, NEW r \in Requests, Begin(r) PROVE IInv'
<1>1. PICK kind \in Kinds : \E token \in TokensOf(kind), input \in Inputs(kind) :
        request' = [request EXCEPT ![r] =
          [kind |-> kind, at |-> FirstStep(kind), token |-> token, user |-> row, input |-> input]]
  BY DEF Begin
<1>2. PICK token \in TokensOf(kind), input \in Inputs(kind) :
        request' = [request EXCEPT ![r] =
          [kind |-> kind, at |-> FirstStep(kind), token |-> token, user |-> row, input |-> input]]
  BY <1>1
<1> DEFINE y == [kind |-> kind, at |-> FirstStep(kind), token |-> token, user |-> row, input |-> input]
<1>3. token \in Tokens \cup {None} /\ input \in Nicks \cup Moderations \cup {None}
  BY DEF TokensOf, Inputs
<1>4. FirstStep(kind) \in Steps \ Owing
  BY DEF FirstStep, Steps, Owing
<1>5. y \in Running /\ y.at \notin Owing
  BY <1>3, <1>4 DEF Running, IInv, TypeOK
<1>6. begun' \in 0..MaxRequests
  BY BoundsAssumption DEF Begin, IInv, TypeOK
<1>7. row' \in Users /\ row'.banned = row.banned /\ sessions' \subseteq Tokens
  BY DEF Begin, accounts, IInv, TypeOK
<1>8. request[r] = Idle /\ UNCHANGED <<audit, room, sockets>> /\ request' = [request EXCEPT ![r] = y]
  BY <1>2 DEF Begin, accounts
<1> HIDE DEF y
<1> QED
  BY <1>5, <1>6, <1>7, <1>8, QuietStep

LEMMA EndsQuietly ==
  ASSUME IInv, NEW r \in Requests, request[r] # Idle, request[r].at # "serving", Ends(r),
         row' \in Users, row'.banned = row.banned, sessions' \subseteq Tokens,
         UNCHANGED <<audit, room, sockets, begun>>
  PROVE  IInv'
<1>1. begun' \in 0..MaxRequests
  BY DEF IInv, TypeOK
<1> QED
  BY <1>1, QuietStep DEF Ends

LEMMA GoesQuietly ==
  ASSUME IInv, NEW r \in Requests, request[r] # Idle, request[r].at # "serving",
         NEW step \in Steps \ Owing, Goes(r, step),
         row' \in Users, row'.banned = row.banned, sessions' \subseteq Tokens,
         UNCHANGED <<audit, room, sockets, begun>>
  PROVE  IInv'
<1> DEFINE y == [request[r] EXCEPT !.at = step]
<1>1. y \in Running /\ request' = [request EXCEPT ![r] = y]
  BY Stepped DEF IInv
<1>2. y.at \notin Owing
  BY Stepped DEF IInv, Running
<1>3. begun' \in 0..MaxRequests
  BY DEF IInv, TypeOK
<1> HIDE DEF y
<1> QED
  BY <1>1, <1>2, <1>3, QuietStep

LEMMA ReadsQuietly ==
  ASSUME IInv, NEW r \in Requests, request[r] # Idle, request[r].at # "serving",
         NEW step \in Steps \ Owing, Read(r, step), UNCHANGED <<accounts, room, sockets, begun>>
  PROVE  IInv'
<1> DEFINE y == [request[r] EXCEPT !.at = step, !.user = row]
<1>1. y \in Running /\ y.at \notin Owing
  BY DEF IInv, TypeOK, Running
<1>2. request' = [request EXCEPT ![r] = y]
  BY DEF Read, IInv, TypeOK
<1>3. /\ begun' \in 0..MaxRequests /\ row' \in Users /\ row'.banned = row.banned
      /\ sessions' \subseteq Tokens /\ UNCHANGED <<audit, room, sockets>>
  BY DEF IInv, TypeOK, accounts
<1> HIDE DEF y
<1> QED
  BY <1>1, <1>2, <1>3, QuietStep

LEMMA SavedRow ==
  ASSUME TypeOK, NEW user, NEW nick \in Nicks, row' = Saved(user, nick)
  PROVE  row' \in Users /\ row'.banned = row.banned
  BY DEF TypeOK, Users, Saved

LEMMA Unwritten ==
  ASSUME IInv, UNCHANGED accounts
  PROVE  /\ row' \in Users /\ row'.banned = row.banned /\ sessions' \subseteq Tokens
         /\ UNCHANGED audit
  BY DEF IInv, TypeOK, accounts

LEMMA AuthenticateKeeps == ASSUME IInv, NEW r \in Requests, Authenticate(r) PROVE IInv'
<1>1. CASE UserBySession(r)
  <2>1. request[r] # Idle /\ request[r].at # "serving" /\ "upsert" \in Steps \ Owing
    BY <1>1 DEF UserBySession, At, Steps, Owing
  <2>2. CASE Admitted(r)
    BY <1>1, <2>1, <2>2, ReadsQuietly DEF UserBySession
  <2>3. CASE ~Admitted(r)
    BY <1>1, <2>1, <2>3, EndsQuietly, Unwritten DEF UserBySession
  <2> QED
    BY <2>2, <2>3
<1>2. CASE UpsertUser(r)
  <2>1. request[r] # Idle /\ request[r].at # "serving" /\ "banned" \in Steps \ Owing
    BY <1>2 DEF UpsertUser, At, Steps, Owing
  <2>2. request[r].user.nick \in Nicks
    BY <2>1 DEF IInv, TypeOK, Running, Users
  <2>3. row' \in Users /\ row'.banned = row.banned /\ sessions' \subseteq Tokens
    BY <1>2, <2>2, SavedRow DEF UpsertUser, IInv, TypeOK
  <2> QED
    BY <1>2, <2>1, <2>3, GoesQuietly DEF UpsertUser
<1>3. CASE IsBanned(r)
  <2>1. request[r] # Idle /\ request[r].at # "serving"
    BY <1>3 DEF IsBanned, At
  <2>2. CASE row.banned
    BY <1>3, <2>1, <2>2, EndsQuietly, Unwritten DEF IsBanned
  <2>3. CASE ~row.banned
    <3> DEFINE kind == request[r].kind
    <3>1. HandlerOf(kind) \in Steps \ Owing
      BY DEF HandlerOf, Steps, Owing
    <3> QED
      BY <1>3, <2>1, <2>3, <3>1, GoesQuietly, Unwritten DEF IsBanned
  <2> QED
    BY <2>2, <2>3
<1> QED
  BY <1>1, <1>2, <1>3 DEF Authenticate

LEMMA AbortKeeps == ASSUME IInv, NEW r \in Requests, Abort(r) PROVE IInv'
<1>1. /\ request[r] # Idle /\ request[r].at # "serving" /\ Ends(r)
      /\ UNCHANGED <<accounts, room, sockets, begun>>
  BY DEF Abort
<1> QED
  BY <1>1, EndsQuietly, Unwritten

LEMMA CommandKeeps == ASSUME IInv, NEW r \in Requests, Command(r) PROVE IInv'
<1>1. request[r] # Idle /\ request[r].at # "serving" /\ "departed" \in Steps \ Owing
  BY DEF Command, Depart, DepartAgain, DepartRefused, At, Steps, Owing
<1>2. CASE Depart(r)
  <2> DEFINE y == [request[r] EXCEPT !.at = "departed"]
  <2>1. y \in Running /\ request' = [request EXCEPT ![r] = y]
    BY <1>1, <1>2, Stepped DEF Depart, IInv
  <2>2. y.at \notin Owing
    BY <1>1, Stepped DEF IInv, TypeOK, Running
  <2>3. seat' \in {"none", "seated", "leaving"} /\ left' \in {left, TRUE}
    BY <1>2 DEF Depart, FreesSeat
  <2> HIDE DEF y
  <2>4. CASE FreesSeat
    <3>1. /\ registered' = {} /\ closing' = closing \cup registered
          /\ UNCHANGED <<accounts, seats, hub, announced, begun>>
      BY <1>2, <2>4 DEF Depart, FreesSeat, Revoke
    <3> QED
      BY <1>1, <2>1, <2>2, <2>3, <3>1, RevokingStep
  <2>5. CASE seat' = "leaving" /\ UNCHANGED <<registered, closing>>
    <3>1. /\ request' \in [Requests -> Running \cup {Idle}] /\ request'[r] = y
          /\ \A x \in Requests \ {r} : request'[x] = request[x]
      BY <2>1, Types DEF IInv
    <3>2. r \notin hub
      BY <1>1 DEF IInv, HubServes, At
    <3>3. TypeOK'
      BY <1>2, <2>3, <2>5, <3>1 DEF IInv, TypeOK, Depart, accounts
    <3>4. SocketsReachable' /\ WatchersSeated'
      BY <1>2, <2>2, <2>5, <3>1
      DEF IInv, SocketsReachable, WatchersSeated, Serves, At, Is, Owing
    <3>5. HubServes' /\ VoiceCurrent'
      BY <1>2, <2>2, <2>5, <3>1, <3>2
      DEF IInv, HubServes, VoiceCurrent, Serves, At, Is, Owing, Depart
    <3>6. Audited' /\ BanSurvives'
      BY <1>2, <2>2, <3>1 DEF IInv, Audited, BanSurvives, At, Owing, Depart, accounts
    <3> QED
      BY <3>3, <3>4, <3>5, <3>6 DEF IInv
  <2> QED
    BY <1>2, <2>4, <2>5 DEF Depart
<1>3. CASE DepartAgain(r)
  BY <1>1, <1>3, GoesQuietly, Unwritten DEF DepartAgain
<1>4. CASE DepartRefused(r)
  BY <1>1, <1>4, EndsQuietly, Unwritten DEF DepartRefused
<1> QED
  BY <1>2, <1>3, <1>4 DEF Command

-----------------------------------------------------------------------------
(* Accounts *)

LEMMA UserKeeps ==
  ASSUME IInv, NEW r \in Requests,
         UserByID(r) \/ SaveSession(r) \/ SaveUser(r) \/ PersistIdentity(r)
  PROVE  IInv'
<1>1. /\ request[r] # Idle /\ request[r].at # "serving" /\ request[r] \in Running
      /\ {"save", "persist"} \subseteq Steps \ Owing
  BY DEF UserByID, SaveSession, SaveUser, PersistIdentity, At, Steps, Owing, IInv, TypeOK
<1>2. CASE UserByID(r)
  <2>1. CASE Is(r, {"login"}) /\ row.banned
    BY <1>1, <1>2, <2>1, EndsQuietly, Unwritten DEF UserByID
  <2>2. CASE ~(Is(r, {"login"}) /\ row.banned)
    BY <1>1, <1>2, <2>2, ReadsQuietly DEF UserByID
  <2> QED
    BY <2>1, <2>2
<1>3. CASE SaveSession(r)
  <2>1. request[r].token \in Tokens
    BY <1>1, <1>3 DEF SaveSession, Is, Running, TokensOf
  <2>2. row' \in Users /\ row'.banned = row.banned /\ sessions' \subseteq Tokens
    BY <1>3, <2>1 DEF SaveSession, IInv, TypeOK
  <2> QED
    BY <1>1, <1>3, <2>2, GoesQuietly DEF SaveSession
<1>4. CASE SaveUser(r)
  <2> DEFINE y == [request[r] EXCEPT !.at = "persist", !.user.nick = request[r].input]
  <2>1. request[r].input \in Nicks
    BY <1>1, <1>4 DEF SaveUser, Is, Running, Inputs
  <2>2. y \in Running /\ y.at \notin Owing
    BY <1>1, <2>1 DEF Running, Users
  <2>3. request' = [request EXCEPT ![r] = y]
    BY <1>4 DEF SaveUser, IInv, TypeOK
  <2>4. row' \in Users /\ row'.banned = row.banned
    BY <1>4, <2>1, SavedRow DEF SaveUser, IInv
  <2>5. begun' \in 0..MaxRequests /\ sessions' \subseteq Tokens /\ UNCHANGED <<audit, room, sockets>>
    BY <1>4 DEF SaveUser, IInv, TypeOK
  <2> HIDE DEF y
  <2> QED
    BY <1>1, <2>2, <2>3, <2>4, <2>5, QuietStep
<1>5. CASE PersistIdentity(r)
  <2>1. request[r].user.nick \in Nicks
    BY <1>1 DEF Running, Users
  <2>2. row' \in Users /\ row'.banned = row.banned
    BY <1>5, <2>1, SavedRow DEF PersistIdentity, IInv
  <2>3. sessions' \subseteq Tokens
    BY <1>5 DEF PersistIdentity, IInv, TypeOK
  <2> QED
    BY <1>1, <1>5, <2>2, <2>3, EndsQuietly DEF PersistIdentity
<1> QED
  BY <1>2, <1>3, <1>4, <1>5

\* logout, and the end of a command
LEMMA LogoutKeeps ==
  ASSUME IInv, NEW r \in Requests, WhoLogsOut(r) \/ DeleteSession(r) \/ LastRevocation(r)
  PROVE  IInv'
<1>1. /\ request[r] # Idle /\ request[r].at # "serving"
      /\ {"forget", "delete", "revoke"} \subseteq Steps \ Owing
  BY DEF WhoLogsOut, DeleteSession, LastRevocation, At, Steps, Owing
<1>2. CASE WhoLogsOut(r)
  BY <1>1, <1>2, GoesQuietly, Unwritten DEF WhoLogsOut
<1>3. CASE DeleteSession(r)
  <2>1. /\ row' \in Users /\ row'.banned = row.banned /\ sessions' \subseteq Tokens
        /\ UNCHANGED <<audit, room, sockets, begun>>
    BY <1>3 DEF DeleteSession, IInv, TypeOK
  <2>2. CASE At(r, "delete")
    BY <1>1, <1>3, <2>1, <2>2, GoesQuietly DEF DeleteSession
  <2>3. CASE ~At(r, "delete")
    BY <1>1, <1>3, <2>1, <2>3, EndsQuietly DEF DeleteSession
  <2> QED
    BY <2>2, <2>3
<1>4. CASE LastRevocation(r)
  <2>1. /\ registered' = {} /\ closing' = closing \cup registered
        /\ request' = [request EXCEPT ![r] = Idle]
        /\ UNCHANGED <<accounts, seats, hub, announced, begun>>
    BY <1>4 DEF LastRevocation, Revoke, Ends, room
  <2>2. seat' \in {"none", "seated", "leaving"} /\ left' \in {left, TRUE}
    BY <1>4 DEF LastRevocation, room, IInv, TypeOK
  <2> QED
    BY <1>1, <2>1, <2>2, RevokingStep
<1> QED
  BY <1>2, <1>3, <1>4

LEMMA BannedRow ==
  ASSUME NEW x \in Users, NEW S, NEW id
  PROVE  [x EXCEPT !.banned = id \in S] \in Users
<1>1. CASE id \in S
  <2>1. [x EXCEPT !.banned = id \in S] = [x EXCEPT !.banned = TRUE]
    BY <1>1
  <2> QED
    BY <2>1 DEF Users
<1>2. CASE id \notin S
  <2>1. (id \in S) = FALSE
    BY <1>2
  <2>2. [x EXCEPT !.banned = FALSE] \in Users
    BY DEF Users
  <2> QED
    BY <2>1, <2>2, Zenon
<1> QED
  BY <1>1, <1>2

LEMMA ModerationKeeps ==
  ASSUME IInv, NEW r \in Requests, SetUserBanned(r) \/ DisconnectBanned(r) \/ SetBanned(r)
  PROVE  IInv'
<1>1. request[r] # Idle /\ request[r].at # "serving" /\ request[r] \in Running /\ r \notin hub
  BY DEF SetUserBanned, DisconnectBanned, SetBanned, At, IInv, TypeOK, HubServes
<1>2. CASE SetUserBanned(r)
  <2> DEFINE id == request[r].input
             step == IF id \in Bans THEN "disconnect" ELSE "setBanned"
             y == [request[r] EXCEPT !.at = step]
  <2>1. /\ row' = (IF id \in audit THEN row ELSE [row EXCEPT !.banned = id \in Bans])
        /\ audit' = audit \cup {id} /\ Goes(r, step)
        /\ UNCHANGED <<sessions, room, sockets, begun>>
    BY <1>2 DEF SetUserBanned
  <2>2. step \in Steps
    BY DEF Steps
  <2>3. y \in Running /\ request' = [request EXCEPT ![r] = y] /\ y.at = step /\ y.input = id
        /\ y.at \notin {"connect", "serving"}
    BY <1>1, <2>1, <2>2, Stepped DEF IInv, Running
  <2>4. id \in Moderations
    BY <1>1, <1>2 DEF SetUserBanned, Is, Running, Inputs
  <2> HIDE DEF y, step, id
  <2>5. /\ request' \in [Requests -> Running \cup {Idle}] /\ request'[r] = y
        /\ \A x \in Requests \ {r} : request'[x] = request[x]
    BY <2>3, Types DEF IInv
  <2>6. TypeOK'
    <3>1. row' \in Users
      BY <2>1, BannedRow DEF IInv, TypeOK
    <3> QED
      BY <2>1, <2>4, <2>5, <3>1 DEF IInv, TypeOK, room, sockets
  <2>7. SocketsReachable' /\ WatchersSeated'
    BY <2>1, <2>3, <2>5 DEF IInv, SocketsReachable, WatchersSeated, Serves, At, Is, room, sockets
  <2>8. HubServes' /\ VoiceCurrent'
    BY <1>1, <2>1, <2>3, <2>5 DEF IInv, HubServes, VoiceCurrent, Serves, At, Is, sockets
  <2>9. Audited'
    BY <2>1, <2>3, <2>5 DEF IInv, Audited, At
  <2>10. BanSurvives'
    <3>1. CASE id \in audit
      BY <2>1, <3>1 DEF IInv, BanSurvives
    <3>2. CASE id \notin audit /\ id \in Bans
      <4>1. row' = [row EXCEPT !.banned = TRUE]
        BY <2>1, <3>2
      <4> QED
        BY <4>1 DEF IInv, TypeOK, Users, BanSurvives
    <3>3. CASE id \in Unbans
      BY <2>1, <3>3 DEF BanSurvives
    <3> QED
      BY <2>4, <3>1, <3>2, <3>3 DEF Moderations
  <2> QED
    BY <2>6, <2>7, <2>8, <2>9, <2>10 DEF IInv
<1>3. CASE DisconnectBanned(r)
  <2> DEFINE y == [request[r] EXCEPT !.at = "setBanned"]
  <2>0. Goes(r, "setBanned") /\ "setBanned" \in Steps
    BY <1>3 DEF DisconnectBanned, Steps
  <2>1. y \in Running /\ request' = [request EXCEPT ![r] = y] /\ y.at = "setBanned"
        /\ y.input = request[r].input
    BY <1>1, <2>0, Stepped DEF IInv, Running
  <2> HIDE DEF y
  <2>2. y.input \in audit
    <3>1. At(r, "disconnect") /\ Audited
      BY <1>3 DEF DisconnectBanned, IInv
    <3> QED
      BY <2>1, <3>1 DEF Audited
  <2>3. /\ registered' = {} /\ closing' = closing \cup registered
        /\ UNCHANGED <<accounts, seats, hub, announced, begun>>
    BY <1>3 DEF DisconnectBanned, Revoke, room
  <2>4. seat' \in {"none", "seated", "leaving"} /\ left' \in {left, TRUE}
    BY <1>3 DEF DisconnectBanned, room, IInv, TypeOK
  <2> QED
    BY <1>1, <2>1, <2>2, <2>3, <2>4, RevokingStep
<1>4. CASE SetBanned(r)
  <2>1. /\ request' = [request EXCEPT ![r] = Idle]
        /\ row' = [row EXCEPT !.banned = request[r].input \in Bans]
        /\ UNCHANGED <<sessions, audit, room, sockets, begun>>
    BY <1>4 DEF SetBanned, Ends
  <2>2. /\ request' \in [Requests -> Running \cup {Idle}] /\ request'[r] = Idle
        /\ \A x \in Requests \ {r} : request'[x] = request[x]
    BY <2>1, Types DEF IInv
  <2>3. TypeOK'
    <3>1. row' \in Users
      BY <2>1, BannedRow DEF IInv, TypeOK
    <3> QED
      BY <2>1, <2>2, <3>1 DEF IInv, TypeOK, room, sockets
  <2>4. SocketsReachable' /\ WatchersSeated'
    BY <2>1, <2>2 DEF IInv, SocketsReachable, WatchersSeated, Serves, At, Is, room, sockets
  <2>5. HubServes' /\ VoiceCurrent'
    BY <1>1, <2>1, <2>2 DEF IInv, HubServes, VoiceCurrent, Serves, At, Is, sockets
  <2>6. Audited'
    BY <2>1, <2>2 DEF IInv, Audited, At
  <2>7. BanSurvives'
    <3>1. request[r].input \in audit /\ audit \subseteq Bans \cup Unbans
      BY <1>4 DEF SetBanned, IInv, Audited, TypeOK, Moderations
    <3>2. CASE request[r].input \in Bans
      <4>1. row' = [row EXCEPT !.banned = TRUE]
        BY <2>1, <3>2
      <4> QED
        BY <4>1 DEF IInv, TypeOK, Users, BanSurvives
    <3>3. CASE request[r].input \in Unbans
      BY <2>1, <3>1, <3>3 DEF BanSurvives
    <3> QED
      BY <3>1, <3>2, <3>3
  <2> QED
    BY <2>3, <2>4, <2>5, <2>6, <2>7 DEF IInv
<1> QED
  BY <1>2, <1>3, <1>4

-----------------------------------------------------------------------------
(* Sockets *)

LEMMA HandshakeKeeps ==
  ASSUME IInv, NEW r \in Requests, Snapshot(r) \/ AcceptFails(r) \/ Register(r) \/ PlayerConnected(r)
  PROVE  IInv'
<1>1. /\ request[r] # Idle /\ request[r].at # "serving" /\ request[r] \in Running /\ r \notin hub
      /\ {"register", "unregister"} \subseteq Steps \ Owing /\ {"connect", "serving"} \subseteq Steps
  BY DEF Snapshot, AcceptFails, Register, PlayerConnected, At, Steps, Owing, IInv, TypeOK, HubServes
<1>2. CASE Snapshot(r)
  <2>1. CASE seat = "none"
    BY <1>1, <1>2, <2>1, EndsQuietly, Unwritten DEF Snapshot
  <2>2. CASE seat # "none"
    BY <1>1, <1>2, <2>2, GoesQuietly, Unwritten DEF Snapshot
  <2> QED
    BY <2>1, <2>2
<1>3. CASE AcceptFails(r)
  BY <1>1, <1>3, EndsQuietly, Unwritten DEF AcceptFails
<1>4. CASE Register(r)
  <2> DEFINE y == [request[r] EXCEPT !.at = "connect"]
  <2>1. y \in Running /\ request' = [request EXCEPT ![r] = y] /\ y.at = "connect"
    BY <1>1, <1>4, Stepped DEF Register, IInv, Running
  <2> HIDE DEF y
  <2>2. /\ request' \in [Requests -> Running \cup {Idle}] /\ request'[r] = y
        /\ \A x \in Requests \ {r} : request'[x] = request[x]
    BY <2>1, Types DEF IInv
  <2>3. /\ registered' = registered \cup {r}
        /\ UNCHANGED <<row, sessions, audit, seat, left, seats, closing, hub, announced, begun>>
    BY <1>4 DEF Register, accounts, room
  <2>4. TypeOK'
    BY <2>2, <2>3 DEF IInv, TypeOK
  <2>5. SocketsReachable' /\ WatchersSeated'
    BY <2>1, <2>2, <2>3 DEF IInv, SocketsReachable, WatchersSeated, Serves, At, Is
  <2>6. HubServes' /\ VoiceCurrent'
    BY <1>1, <2>1, <2>2, <2>3 DEF IInv, HubServes, VoiceCurrent, Serves, At, Is
  <2>7. Audited' /\ BanSurvives'
    BY <2>1, <2>2, <2>3 DEF IInv, Audited, BanSurvives, At
  <2> QED
    BY <2>4, <2>5, <2>6, <2>7 DEF IInv
<1>5. CASE PlayerConnected(r)
  <2>1. CASE Connects /\ Goes(r, "serving")
    <3> DEFINE y == [request[r] EXCEPT !.at = "serving"]
    <3>1. /\ y \in Running /\ request' = [request EXCEPT ![r] = y] /\ y.at = "serving"
          /\ y.kind = "watch"
      BY <1>1, <1>5, <2>1, Stepped DEF PlayerConnected, Is, IInv, Running
    <3> HIDE DEF y
    <3>2. /\ request' \in [Requests -> Running \cup {Idle}] /\ request'[r] = y
          /\ \A x \in Requests \ {r} : request'[x] = request[x]
      BY <3>1, Types DEF IInv
    <3>3. UNCHANGED <<row, sessions, audit, seat, left, seats, registered, closing, hub, announced, begun>>
      BY <1>5 DEF PlayerConnected, accounts, room, sockets
    <3>4. TypeOK'
      BY <3>2, <3>3 DEF IInv, TypeOK
    <3>5. SocketsReachable'
      BY <1>5, <3>1, <3>2, <3>3 DEF PlayerConnected, IInv, SocketsReachable, At
    <3>6. WatchersSeated'
      BY <2>1, <3>2, <3>3 DEF IInv, WatchersSeated, Serves, At, Is, Connects
    <3>7. HubServes' /\ VoiceCurrent'
      BY <1>1, <3>1, <3>2, <3>3 DEF IInv, HubServes, VoiceCurrent, Serves, At, Is
    <3>8. Audited' /\ BanSurvives'
      BY <3>1, <3>2, <3>3 DEF IInv, Audited, BanSurvives, At
    <3> QED
      BY <3>4, <3>5, <3>6, <3>7, <3>8 DEF IInv
  <2>2. CASE Goes(r, "unregister")
    BY <1>1, <1>5, <2>2, GoesQuietly, Unwritten DEF PlayerConnected
  <2> QED
    BY <1>5, <2>1, <2>2 DEF PlayerConnected
<1> QED
  BY <1>2, <1>3, <1>4, <1>5

LEMMA JoinVoiceKeeps == ASSUME IInv, NEW r \in Requests, JoinVoice(r) PROVE IInv'
<1> DEFINE y == [request[r] EXCEPT !.at = "serving"]
<1>1. /\ y \in Running /\ request' = [request EXCEPT ![r] = y] /\ y.at = "serving"
      /\ y.kind = "voice" /\ r \in registered \cup closing
  <2>1. At(r, "connect") /\ Is(r, {"voice"}) /\ Goes(r, "serving") /\ "serving" \in Steps
    BY DEF JoinVoice, Steps
  <2> QED
    BY <2>1, Stepped DEF IInv, SocketsReachable, At, Is, Running
<1> HIDE DEF y
<1>2. /\ request' \in [Requests -> Running \cup {Idle}] /\ request'[r] = y
      /\ \A x \in Requests \ {r} : request'[x] = request[x]
  BY <1>1, Types DEF IInv
<1>3. /\ hub' = {r} /\ closing' = closing \cup hub /\ announced' = TRUE
      /\ UNCHANGED <<row, sessions, audit, seat, left, seats, registered, begun>>
  BY DEF JoinVoice, accounts, room
<1>4. TypeOK'
  BY <1>2, <1>3 DEF IInv, TypeOK
<1>5. SocketsReachable' /\ WatchersSeated'
  BY <1>1, <1>2, <1>3 DEF IInv, SocketsReachable, WatchersSeated, Serves, At, Is
<1>6. HubServes'
  <2>1. request'[r] # Idle
    BY <1>1, <1>2, IdleAssumption
  <2> QED
    BY <1>1, <1>2, <1>3, <2>1 DEF HubServes, At, Is
<1>7. VoiceCurrent'
  BY <1>2, <1>3 DEF IInv, VoiceCurrent, Serves, At, Is
<1>8. Audited' /\ BanSurvives'
  BY <1>1, <1>2, <1>3 DEF IInv, Audited, BanSurvives, At
<1> QED
  BY <1>4, <1>5, <1>6, <1>7, <1>8 DEF IInv

LEMMA StopServingKeeps == ASSUME IInv, NEW r \in Requests, StopServing(r) PROVE IInv'
<1> DEFINE y == [request[r] EXCEPT !.at = "unregister"]
<1>1. y \in Running /\ request' = [request EXCEPT ![r] = y] /\ y.at = "unregister"
  <2>1. request[r] # Idle /\ Goes(r, "unregister") /\ "unregister" \in Steps
    BY DEF StopServing, At, Steps
  <2> QED
    BY <2>1, Stepped DEF IInv, Running
<1> HIDE DEF y
<1>2. /\ request' \in [Requests -> Running \cup {Idle}] /\ request'[r] = y
      /\ \A x \in Requests \ {r} : request'[x] = request[x]
  BY <1>1, Types DEF IInv
<1>3. UNCHANGED <<row, sessions, audit, seat, left, seats, registered, closing, begun>>
  BY DEF StopServing, accounts, room
<1>4. /\ r \in hub => hub' = hub \ {r} /\ announced' = (hub # {r})
      /\ r \notin hub => UNCHANGED <<hub, announced>>
  BY DEF StopServing, LeavesVoice, IInv, HubServes
<1>5. TypeOK'
  BY <1>2, <1>3, <1>4 DEF IInv, TypeOK
<1>6. SocketsReachable' /\ WatchersSeated'
  BY <1>1, <1>2, <1>3 DEF IInv, SocketsReachable, WatchersSeated, Serves, At, Is
<1>7. HubServes'
  BY <1>2, <1>3, <1>4 DEF IInv, HubServes, At, Is
<1>8. VoiceCurrent'
  <2>1. (\A x \in Requests : Serves(x) /\ Is(x, {"voice"}) => hub = {x})'
    BY <1>1, <1>2, <1>3, <1>4 DEF IInv, VoiceCurrent, Serves, At, Is
  <2>2. CASE r \in hub
    <3>1. hub' # {} <=> hub # {r}
      BY <1>4, <2>2
    <3> QED
      BY <1>4, <2>1, <2>2, <3>1, Zenon DEF VoiceCurrent
  <2>3. CASE r \notin hub
    BY <1>4, <2>1, <2>3 DEF IInv, VoiceCurrent
  <2> QED
    BY <2>2, <2>3
<1>9. Audited' /\ BanSurvives'
  BY <1>1, <1>2, <1>3 DEF IInv, Audited, BanSurvives, At
<1> QED
  BY <1>5, <1>6, <1>7, <1>8, <1>9 DEF IInv

LEMMA UnregisterKeeps == ASSUME IInv, NEW r \in Requests, Unregister(r) PROVE IInv'
<1>1. /\ request' = [request EXCEPT ![r] = Idle]
      /\ registered' = registered \ {r} /\ closing' = closing \ {r}
      /\ UNCHANGED <<row, sessions, audit, seat, left, seats, hub, announced, begun>>
  BY DEF Unregister, Unregisters, Ends, accounts, room
<1>2. /\ request' \in [Requests -> Running \cup {Idle}] /\ request'[r] = Idle
      /\ \A x \in Requests \ {r} : request'[x] = request[x]
  BY <1>1, Types DEF IInv
<1>3. r \notin hub
  BY DEF Unregister, At, IInv, HubServes
<1>4. TypeOK'
  BY <1>1, <1>2 DEF IInv, TypeOK
<1>5. SocketsReachable' /\ WatchersSeated'
  BY <1>1, <1>2 DEF IInv, SocketsReachable, WatchersSeated, Serves, At, Is
<1>6. HubServes' /\ VoiceCurrent'
  BY <1>1, <1>2, <1>3 DEF IInv, HubServes, VoiceCurrent, Serves, At, Is
<1>7. Audited' /\ BanSurvives'
  BY <1>1, <1>2 DEF IInv, Audited, BanSurvives, At
<1> QED
  BY <1>4, <1>5, <1>6, <1>7 DEF IInv

-----------------------------------------------------------------------------
(* Steps of nobody's request *)

LEMMA OthersKeep == ASSUME IInv, Sit \/ Settle \/ Expire PROVE IInv'
<1>1. UNCHANGED <<row, audit, request, hub, announced, begun>>
  BY DEF Sit, Settle, Expire, accounts, sockets
<1>2. sessions' \subseteq Tokens
  BY DEF Sit, Settle, Expire, accounts, IInv, TypeOK
<1>3. \/ registered' = {} /\ closing' = closing \cup registered
      \/ UNCHANGED <<registered, closing>> /\ (seat' = "seated" \/ UNCHANGED seat)
  BY DEF Sit, Settle, Expire, FreesSeat, Revoke, sockets, room
<1>4. TypeOK'
  <2>1. seat' \in {"none", "seated", "leaving"} /\ left' \in BOOLEAN
    BY DEF Sit, Settle, Expire, FreesSeat, room, IInv, TypeOK
  <2>2. seats' \in 0..MaxSeats
    BY BoundsAssumption DEF Sit, Settle, Expire, room, IInv, TypeOK
  <2> QED
    BY <1>1, <1>2, <1>3, <2>1, <2>2 DEF IInv, TypeOK
<1>5. SocketsReachable' /\ WatchersSeated'
  BY <1>1, <1>3 DEF IInv, SocketsReachable, WatchersSeated, Serves, At, Is
<1>6. HubServes' /\ VoiceCurrent'
  BY <1>1, <1>3 DEF IInv, HubServes, VoiceCurrent, Serves, At, Is
<1>7. Audited' /\ BanSurvives'
  BY <1>1 DEF IInv, Audited, BanSurvives, At
<1> QED
  BY <1>4, <1>5, <1>6, <1>7 DEF IInv

LEMMA NextKeeps == IInv /\ [Next]_vars => IInv'
<1> SUFFICES ASSUME IInv, [Next]_vars PROVE IInv'
  OBVIOUS
<1>1. CASE Sit \/ Settle \/ Expire
  BY <1>1, OthersKeep
<1>2. ASSUME NEW r \in Requests, Begin(r) \/ Abort(r) \/ StopServing(r) PROVE IInv'
  BY <1>2, BeginKeeps, AbortKeeps, StopServingKeeps
<1>3. ASSUME NEW r \in Requests, Handler(r) PROVE IInv'
  BY <1>3, AuthenticateKeeps, UserKeeps, LogoutKeeps, ModerationKeeps, CommandKeeps, HandshakeKeeps,
     JoinVoiceKeeps, UnregisterKeeps, StopServingKeeps
  DEF Handler, Account, Socket
<1>4. CASE UNCHANGED vars
  BY <1>4 DEF vars, IInv, TypeOK, SocketsReachable, WatchersSeated, HubServes, VoiceCurrent, Audited,
     BanSurvives, Serves, At, Is
<1> QED
  BY <1>1, <1>2, <1>3, <1>4 DEF Next

THEOREM Invariance == Spec => []IInv
<1> QED
  BY InitHolds, NextKeeps, PTL DEF Spec

\* The account's row, its requests and its sockets keep their types.
THEOREM TypeCorrect == Spec => []TypeOK
<1>1. IInv => TypeOK
  BY DEF IInv
<1> QED
  BY <1>1, Invariance, PTL

\* Who has lost his seat is served no room events, whatever handshake or departure was under
\* way at the time (PlayerConnected after the registration, websocket.go:33).
THEOREM WatchersAlwaysSeated == Spec => []WatchersSeated
<1>1. IInv => WatchersSeated
  BY DEF IInv
<1> QED
  BY <1>1, Invariance, PTL

\* A revocation finds every open socket of the user (realtime_connections.go:30).
THEOREM SocketsAlwaysReachable == Spec => []SocketsReachable
<1>1. IInv => SocketsReachable
  BY DEF IInv
<1> QED
  BY <1>1, Invariance, PTL

\* The hub holds the voice socket in use, and the peers know (voice_websocket.go:88).
THEOREM VoiceAlwaysCurrent == Spec => []VoiceCurrent
<1>1. IInv => VoiceCurrent
  BY DEF IInv
<1> QED
  BY <1>1, Invariance, PTL

\* A ban nobody lifted stands, whatever was written to the row meanwhile.
THEOREM BansSurvive == Spec => []BanSurvives
<1>1. IInv => BanSurvives
  BY DEF IInv
<1> QED
  BY <1>1, Invariance, PTL
=============================================================================
