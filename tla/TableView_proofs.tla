--------------------------- MODULE TableView_proofs ---------------------------
(***************************************************************************)
(* Proved for any number of sockets, events, faults and requests, and any  *)
(* sizes of the buffers: the client keeps one line to its room, and what   *)
(* it shows once all is quiet is the room as it is, or as it was before    *)
(* the last event it may have been denied.                                 *)
(***************************************************************************)
EXTENDS TableView, SequenceTheorems, TLAPS

-----------------------------------------------------------------------------
(* The inductive invariant *)

\* the timer runs only while there is no socket, and a socket is used once
Lines ==
  /\ \A s \in Sockets : Live(s) => s = current
  /\ wants => (timer <=> current = None)
  /\ timer => current = None
  /\ \A s \in Sockets : socket[s] = "none" => handler[s] = "none"

\* how much a handler has written
Written(s) ==
  /\ handler[s] \in {"none", "called"} => Len(wire[s]) = 0
  /\ handler[s] \in {"accepted", "registered", "connected", "snapped"} => Len(wire[s]) <= 1
  /\ handler[s] = "serving" => Len(wire[s]) <= Wire + 1

Serving ==
  /\ \A s \in Sockets : Written(s)
  /\ \A s \in revoked : Registered(s)

\* nothing is of a version the room has yet to reach
Known ==
  /\ view <= version /\ excuse <= version
  /\ \A s \in Sockets :
       /\ taken[s] <= version
       /\ handler[s] = "snapped" => taken[s] >= 1
       /\ \A i \in 1..Len(wire[s]) :
            wire[s][i].type = "snapshot" => wire[s][i].value <= version
  /\ \A who \in Askers, v \in 0..MaxVersion : answers[who][v] > 0 => v <= version

\* on its way over socket s
Coming(s) ==
  \/ queue[s] > 0
  \/ \E i \in 1..Len(wire[s]) :
       \/ wire[s][i].type = "event"
       \/ wire[s][i].type = "snapshot" /\ wire[s][i].value = version

Requested == \E who \in Askers : asked[who] > 0 \/ answers[who][version] > 0

Excused == view = version \/ excuse = version

\* the snapshot a handler holds is the present one, or an event was missed
SnappedFresh ==
  \A s \in Sockets : handler[s] = "snapped" => taken[s] = version \/ excuse = version

\* the client shows the room, or something is under way that will make it ask
Repairs == Watches /\ seated => Excused \/ Coming(current) \/ Requested

IInv == TypeOK /\ Lines /\ Serving /\ Known /\ SnappedFresh /\ Repairs

-----------------------------------------------------------------------------
(* What is sent and received *)

LEMMA Sent ==
  ASSUME TypeOK, NEW s \in Sockets, NEW m \in Messages, Send(s, m)
  PROVE  /\ wire' \in [Sockets -> Seq(Messages)]
         /\ Len(wire'[s]) <= Len(wire[s]) + 1
         /\ \A t \in Sockets \ {s} : wire'[t] = wire[t]
         /\ \A i \in 1..Len(wire[s]) : i \in 1..Len(wire'[s]) /\ wire'[s][i] = wire[s][i]
         /\ \A i \in 1..Len(wire'[s]) : i \in 1..Len(wire[s]) \/ wire'[s][i] = m
         /\ Live(s) => Len(wire'[s]) = Len(wire[s]) + 1 /\ wire'[s][Len(wire[s]) + 1] = m
<1>1. wire[s] \in Seq(Messages) /\ Len(wire[s]) \in Nat
  BY DEF TypeOK
<1>2. CASE Live(s)
  <2>1. wire' = [wire EXCEPT ![s] = Append(@, m)] /\ wire'[s] = Append(wire[s], m)
    BY <1>2 DEF Send, TypeOK
  <2>2. /\ Append(wire[s], m) \in Seq(Messages)
        /\ Len(Append(wire[s], m)) = Len(wire[s]) + 1
        /\ \A i \in 1..Len(wire[s]) : Append(wire[s], m)[i] = wire[s][i]
        /\ Append(wire[s], m)[Len(wire[s]) + 1] = m
    BY <1>1, AppendProperties
  <2> QED BY <1>1, <2>1, <2>2 DEF TypeOK
<1>3. CASE ~Live(s)
  BY <1>1, <1>3 DEF Send, TypeOK
<1> QED BY <1>2, <1>3

LEMMA Taken ==
  ASSUME TypeOK, NEW s \in Sockets, wire[s] # <<>>, wire' = [wire EXCEPT ![s] = Tail(@)]
  PROVE  /\ wire' \in [Sockets -> Seq(Messages)]
         /\ Len(wire'[s]) = Len(wire[s]) - 1 /\ Len(wire[s]) >= 1
         /\ Head(wire[s]) \in Messages /\ Head(wire[s]) = wire[s][1]
         /\ \A t \in Sockets \ {s} : wire'[t] = wire[t]
         /\ \A i \in 1..Len(wire'[s]) : i + 1 \in 1..Len(wire[s]) /\ wire'[s][i] = wire[s][i + 1]
         /\ \A i \in 1..Len(wire[s]) : i = 1 \/ i - 1 \in 1..Len(wire'[s])
<1>1. wire[s] \in Seq(Messages) /\ Len(wire[s]) \in Nat
  BY DEF TypeOK
<1>2. wire'[s] = Tail(wire[s])
  BY DEF TypeOK
<1>3. Len(wire[s]) >= 1
  BY <1>1
<1>4. /\ Tail(wire[s]) \in Seq(Messages) /\ Len(Tail(wire[s])) = Len(wire[s]) - 1
      /\ \A i \in 1..Len(Tail(wire[s])) : Tail(wire[s])[i] = wire[s][i + 1]
      /\ Head(wire[s]) = wire[s][1] /\ Head(wire[s]) \in Messages
  BY <1>1, <1>3
<1> QED BY <1>1, <1>2, <1>3, <1>4 DEF TypeOK

LEMMA MessageTypes ==
  /\ Message("open", 0) \in Messages /\ Message("event", 0) \in Messages
  /\ \A v \in Versions : Message("snapshot", v) \in Messages
  /\ \A code \in Codes : Message("closed", code) \in Messages
  /\ \A type, value : Message(type, value).type = type /\ Message(type, value).value = value
BY DEF Message, Messages

\* What a message that is sent changes: no snapshot of an unknown version comes.
LEMMA SentKnown ==
  ASSUME IInv, NEW s \in Sockets, NEW m \in Messages, Send(s, m),
         m.type = "snapshot" => m.value <= version
  PROVE  \A t \in Sockets : \A i \in 1..Len(wire'[t]) :
           wire'[t][i].type = "snapshot" => wire'[t][i].value <= version
<1> SUFFICES ASSUME NEW t \in Sockets, NEW i \in 1..Len(wire'[t]),
                    wire'[t][i].type = "snapshot"
             PROVE  wire'[t][i].value <= version
  OBVIOUS
<1>1. CASE t # s
  BY <1>1, Sent DEF IInv, Known
<1>2. CASE t = s
  BY <1>2, Sent DEF IInv, Known
<1> QED BY <1>1, <1>2

\* At most one message more is on its way over s, and no snapshot of an unknown version.
Grown(s) ==
  /\ wire' \in [Sockets -> Seq(Messages)]
  /\ \A t \in Sockets \ {s} : wire'[t] = wire[t]
  /\ Len(wire'[s]) <= Len(wire[s]) + 1
  /\ \A t \in Sockets : \A i \in 1..Len(wire'[t]) :
       wire'[t][i].type = "snapshot" => wire'[t][i].value <= version

LEMMA NothingSent ==
  ASSUME IInv, NEW s \in Sockets, UNCHANGED wire PROVE Grown(s)
<1>1. wire \in [Sockets -> Seq(Messages)] /\ Len(wire[s]) \in Nat
  BY DEF IInv, TypeOK
<1> QED BY <1>1 DEF IInv, Known, Grown

LEMMA SentGrown ==
  ASSUME IInv, NEW s \in Sockets, NEW m \in Messages, Send(s, m),
         m.type = "snapshot" => m.value <= version
  PROVE  Grown(s)
<1>1. TypeOK
  BY DEF IInv
<1>2. \A t \in Sockets : \A i \in 1..Len(wire'[t]) :
        wire'[t][i].type = "snapshot" => wire'[t][i].value <= version
  BY SentKnown
<1> QED BY <1>1, <1>2, Sent DEF Grown

\* What was coming still comes.
LEMMA SentComing ==
  ASSUME IInv, NEW s \in Sockets, NEW m \in Messages, Send(s, m), UNCHANGED version,
         NEW t \in Sockets, Coming(t), queue'[t] = queue[t]
  PROVE  Coming(t)'
<1>1. CASE queue[t] > 0
  BY <1>1 DEF Coming
<1>2. CASE queue[t] <= 0
  <2>1. PICK i \in 1..Len(wire[t]) :
          \/ wire[t][i].type = "event"
          \/ wire[t][i].type = "snapshot" /\ wire[t][i].value = version
    BY <1>2 DEF Coming, IInv, TypeOK
  <2>2. i \in 1..Len(wire'[t]) /\ wire'[t][i] = wire[t][i]
    <3>1. CASE t # s
      BY <3>1, Sent DEF IInv
    <3>2. CASE t = s
      BY <3>2, Sent DEF IInv
    <3> QED BY <3>1, <3>2
  <2> QED BY <2>1, <2>2 DEF Coming
<1> QED BY <1>1, <1>2 DEF IInv, TypeOK

-----------------------------------------------------------------------------
(* The actor and the handlers of the sockets *)

HandlerSteps ==
  {"none", "called", "accepted", "registered", "connected", "snapped", "serving", "ended"}

LEMMA Stepped ==
  ASSUME TypeOK, NEW s \in Sockets, NEW step \in HandlerSteps, GoesOn(s, step)
  PROVE  /\ handler' \in [Sockets -> HandlerSteps]
         /\ handler'[s] = step
         /\ \A t \in Sockets \ {s} : handler'[t] = handler[t]
  BY DEF TypeOK, GoesOn, HandlerSteps

LEMMA HandlerLines ==
  ASSUME IInv, NEW s \in Sockets, handler[s] # "none",
         UNCHANGED <<socket, current, wants, timer>>,
         \A t \in Sockets \ {s} : handler'[t] = handler[t]
  PROVE  Lines'
<1>1. socket[s] # "none"
  BY DEF IInv, Lines
<1> QED BY <1>1 DEF IInv, Lines, Live

\* The client's variables and its requests stay.
LEMMA ClientStays ==
  ASSUME IInv, UNCHANGED <<version, client, requests, excuse>>
  PROVE  (Excused <=> Excused') /\ (Requested => Requested')
  BY DEF client, requests, Excused, Requested

\* An event: whoever watches finds it in his queue, or one before it.
LEMMA Published ==
  ASSUME IInv, version < MaxVersion, Publish,
         UNCHANGED <<taken, client, requests, bounds, wire>>,
         seated' \in BOOLEAN, seated' => seated,
         handler' \in [Sockets -> HandlerSteps],
         \A t \in Sockets : \/ handler'[t] = handler[t]
                            \/ handler[t] = "registered" /\ handler'[t] = "connected",
         revoked' \subseteq Sockets, \A t \in revoked' : Registered(t)'
  PROVE  IInv'
<1>1. /\ version' = version + 1 /\ version \in Nat /\ version >= 1 /\ version' \in Versions
      /\ excuse \in Nat /\ excuse <= version /\ view <= version /\ view \in Nat
      /\ excuse' \in {excuse, version'}
  BY NumbersAssumption DEF IInv, TypeOK, Known, Publish, Versions
<1>2. /\ queue' \in [Sockets -> 0..Buffer]
      /\ \A t \in Sockets : handler[t] = "serving" => queue'[t] > 0
  BY NumbersAssumption DEF IInv, TypeOK, Publish, Delivered
<1>3. TypeOK'
  <2>1. UNCHANGED <<socket, current, wants, timer, view, signedOut, asked, answers, loads, faults>>
    BY DEF client, requests, bounds
  <2>2. excuse' \in 0..MaxVersion
    BY <1>1, NumbersAssumption DEF Versions
  <2> QED BY <1>1, <1>2, <2>1, <2>2 DEF IInv, TypeOK, HandlerSteps
<1>4. Lines'
  BY DEF IInv, Lines, Live, client
<1>5. Serving'
  BY DEF IInv, Serving, Written
<1>6. Known'
  <2>1. view' = view /\ taken' = taken /\ wire' = wire /\ answers' = answers
    BY DEF client, requests
  <2>2. view' <= version' /\ excuse' <= version'
    BY <1>1, <2>1
  <2>3. ASSUME NEW s \in Sockets
        PROVE  /\ taken'[s] <= version'
               /\ handler'[s] = "snapped" => taken'[s] >= 1
               /\ \A i \in 1..Len(wire'[s]) :
                    wire'[s][i].type = "snapshot" => wire'[s][i].value <= version'
    <3>1. taken[s] \in Nat /\ taken[s] <= version
      BY DEF IInv, TypeOK, Known
    <3>2. handler'[s] = "snapped" => handler[s] = "snapped"
      OBVIOUS
    <3>3. ASSUME NEW i \in 1..Len(wire[s]), wire[s][i].type = "snapshot"
          PROVE  wire[s][i].value <= version'
      <4>1. wire[s][i] \in Messages
        BY DEF IInv, TypeOK
      <4>2. wire[s][i].value \in Nat
        BY <3>3, <4>1 DEF Messages, Versions
      <4> QED BY <1>1, <3>3, <4>2 DEF IInv, Known
    <3> QED BY <1>1, <2>1, <3>1, <3>2, <3>3 DEF IInv, Known
  <2>4. \A who \in Askers, v \in 0..MaxVersion : answers'[who][v] > 0 => v <= version'
    BY <1>1, <2>1 DEF IInv, Known
  <2> QED BY <2>2, <2>3, <2>4 DEF Known
<1>7. SnappedFresh'
  BY DEF Publish, SnappedFresh
<1>8. Repairs'
  <2> SUFFICES ASSUME Watches' PROVE Coming(current)'
    BY DEF Repairs
  <2>1. current' = current /\ current \in Sockets /\ handler[current] = "serving"
    BY DEF Watches, client, IInv, TypeOK
  <2> QED BY <1>2, <2>1 DEF Coming
<1> QED BY <1>3, <1>4, <1>5, <1>6, <1>7, <1>8 DEF IInv

LEMMA ActorInv ==
  ASSUME IInv, Change \/ LoseSeat \/ LeaveInHand PROVE IInv'
<1>1. handler \in [Sockets -> HandlerSteps] /\ seated \in BOOLEAN
  BY DEF IInv, TypeOK, HandlerSteps
<1>2. revoked \subseteq Sockets /\ \A t \in revoked : Registered(t)
  BY DEF IInv, TypeOK, Serving
<1>3. ASSUME Revoke, handler' = handler
      PROVE  revoked' \subseteq Sockets /\ \A t \in revoked' : Registered(t)'
  BY <1>3 DEF Revoke, Registered
<1>4. ASSUME UNCHANGED <<handler, revoked>>
      PROVE  revoked' \subseteq Sockets /\ \A t \in revoked' : Registered(t)'
  BY <1>2, <1>4 DEF Registered
<1>5. CASE Change
  <2>1. /\ version < MaxVersion /\ Publish /\ UNCHANGED <<seated, handler, revoked>>
        /\ UNCHANGED <<taken, client, requests, bounds, wire>>
    BY <1>5 DEF Change
  <2> QED BY <2>1, <1>1, <1>4, Published
<1>6. CASE LoseSeat
  <2>1. /\ version < MaxVersion /\ Publish /\ Revoke /\ UNCHANGED handler /\ seated' = FALSE
        /\ UNCHANGED <<taken, client, requests, bounds, wire>>
    BY <1>6 DEF LoseSeat
  <2> QED BY <2>1, <1>1, <1>3, Published
<1>7. CASE LeaveInHand
  <2>1. /\ version < MaxVersion /\ Publish /\ Revoke /\ UNCHANGED <<seated, handler>>
        /\ UNCHANGED <<taken, client, requests, bounds, wire>>
    BY <1>7 DEF LeaveInHand
  <2> QED BY <2>1, <1>1, <1>3, Published
<1> QED BY <1>5, <1>6, <1>7

\* A handler goes on, and writes at most one message.
LEMMA HandlerMoves ==
  ASSUME IInv, NEW s \in Sockets, handler[s] # "none", NEW step \in HandlerSteps,
         GoesOn(s, step),
         UNCHANGED <<version, seated, client, requests, loads, excuse>>,
         faults' \in 0..MaxFaults,
         taken' \in [Sockets -> 0..MaxVersion], \A t \in Sockets \ {s} : taken'[t] = taken[t],
         taken'[s] <= version, step = "snapped" => taken'[s] = version,
         queue' \in [Sockets -> 0..Buffer], \A t \in Sockets \ {s} : queue'[t] = queue[t],
         revoked' \subseteq revoked, s \in revoked' => Registered(s)',
         wire' \in [Sockets -> Seq(Messages)], \A t \in Sockets \ {s} : wire'[t] = wire[t],
         Len(wire'[s]) <= Wire + 2, Written(s)',
         \A t \in Sockets : \A i \in 1..Len(wire'[t]) :
           wire'[t][i].type = "snapshot" => wire'[t][i].value <= version,
         step = "serving" /\ Watches' /\ s = current => excuse = version \/ Coming(s)'
  PROVE  IInv'
<1>1. /\ handler' \in [Sockets -> HandlerSteps] /\ handler'[s] = step
      /\ \A t \in Sockets \ {s} : handler'[t] = handler[t]
  BY Stepped DEF IInv
<1>2. UNCHANGED <<socket, current, wants, timer, view, signedOut, asked, answers>>
  BY DEF client, requests
<1>3. TypeOK'
  <2>1. \A t \in Sockets : Len(wire'[t]) <= Wire + 2
    BY DEF IInv, TypeOK
  <2> QED BY <1>1, <1>2, <2>1 DEF IInv, TypeOK, HandlerSteps
<1>4. Lines'
  BY <1>1, <1>2, HandlerLines
<1>5. Serving'
  <2>1. \A t \in Sockets : Written(t)'
    BY <1>1 DEF IInv, Serving, Written
  <2>2. \A t \in revoked' : Registered(t)'
    BY <1>1 DEF IInv, TypeOK, Serving, Registered
  <2> QED BY <2>1, <2>2 DEF Serving
<1>6. Known'
  <2>1. version >= 1
    BY NumbersAssumption DEF IInv, TypeOK, Versions
  <2>2. \A t \in Sockets : taken'[t] <= version /\ (handler'[t] = "snapped" => taken'[t] >= 1)
    BY <1>1, <2>1 DEF IInv, Known
  <2> QED BY <1>2, <2>2 DEF IInv, Known
<1>7. SnappedFresh'
  BY <1>1 DEF IInv, SnappedFresh
<1>8. Repairs'
  <2> SUFFICES ASSUME Watches', seated' PROVE Excused' \/ Coming(current)' \/ Requested'
    BY DEF Repairs
  <2>1. CASE current = s
    <3>1. step = "serving"
      BY <1>1, <1>2, <2>1 DEF Watches
    <3>2. excuse = version \/ Coming(s)'
      BY <2>1, <3>1
    <3> QED BY <1>2, <2>1, <3>2 DEF Excused
  <2>2. CASE current # s
    <3>1. current \in Sockets \ {s} /\ Watches
      BY <1>1, <1>2, <2>2 DEF Watches, IInv, TypeOK
    <3>2. Coming(current) => Coming(current)'
      BY <1>2, <3>1 DEF Coming
    <3> QED BY <3>1, <3>2, ClientStays DEF IInv, Repairs
  <2> QED BY <2>1, <2>2
<1> QED BY <1>3, <1>4, <1>5, <1>6, <1>7, <1>8 DEF IInv

\* The handler ends; what it sent before stays on its way.
LEMMA ReturnInv ==
  ASSUME IInv, NEW s \in Sockets, handler[s] \notin {"none", "ended"}, Returns(s),
         UNCHANGED <<version, seated, taken, client, requests, loads, excuse>>,
         faults' \in 0..MaxFaults,
         UNCHANGED wire \/ \E code \in Codes : Send(s, Message("closed", code))
  PROVE  IInv'
<1>1. handler'[s] = "ended" /\ GoesOn(s, "ended") /\ "ended" \in HandlerSteps
  BY DEF Returns, GoesOn, HandlerSteps, IInv, TypeOK
<1>2. /\ queue' \in [Sockets -> 0..Buffer]
      /\ \A t \in Sockets \ {s} : queue'[t] = queue[t]
  BY NumbersAssumption DEF Returns, IInv, TypeOK
<1>3. Grown(s)
  <2>1. CASE UNCHANGED wire
    BY <2>1, NothingSent
  <2>2. ASSUME NEW code \in Codes, Send(s, Message("closed", code))
        PROVE  Grown(s)
    <3>1. /\ Message("closed", code) \in Messages
          /\ Message("closed", code).type # "snapshot"
      BY MessageTypes
    <3> QED BY <2>2, <3>1, SentGrown
  <2> QED BY <2>1, <2>2
<1>4. Len(wire'[s]) <= Wire + 2
  <2>1. Len(wire[s]) \in Nat
    BY DEF IInv, TypeOK
  <2>2. Len(wire[s]) <= Wire + 1
    <3>1. /\ Written(s) /\ Wire \in Nat \ {0}
          /\ handler[s] \in HandlerSteps /\ handler[s] \notin {"none", "ended"}
      BY NumbersAssumption DEF IInv, Serving, TypeOK, HandlerSteps
    <3> QED BY <2>1, <3>1 DEF Written, HandlerSteps
  <2>3. Len(wire'[s]) \in Nat
    BY <1>3 DEF Grown
  <2> QED BY <1>3, <2>1, <2>2, <2>3, NumbersAssumption DEF Grown
<1>5. taken' \in [Sockets -> 0..MaxVersion] /\ taken'[s] <= version
  BY DEF IInv, TypeOK, Known
<1>6. revoked' \subseteq revoked /\ s \notin revoked' /\ Written(s)'
  BY <1>1 DEF Returns, Written
<1> QED BY <1>1, <1>2, <1>3, <1>4, <1>5, <1>6, HandlerMoves DEF Grown

-----------------------------------------------------------------------------
(* The steps of a handler *)

LEMMA CloseInv ==
  ASSUME IInv, NEW s \in Sockets, NEW code \in Codes, CloseWith(s, code),
         handler[s] \notin {"none", "ended"},
         UNCHANGED <<version, seated, taken, client, requests, loads, excuse>>,
         faults' \in 0..MaxFaults
  PROVE  IInv'
BY ReturnInv DEF CloseWith

\* the step of a handler that writes nothing
LEMMA QuietMove ==
  ASSUME IInv, NEW s \in Sockets, handler[s] \notin {"none", "called", "serving", "ended"},
         NEW step \in {"registered", "connected", "snapped"}, GoesOn(s, step),
         UNCHANGED <<version, seated, client, requests, bounds, excuse, queue, revoked, wire>>,
         UNCHANGED taken \/ taken' = [taken EXCEPT ![s] = version],
         step = "snapped" => taken' = [taken EXCEPT ![s] = version]
  PROVE  IInv'
<1>1. /\ version \in 0..MaxVersion /\ faults \in 0..MaxFaults
      /\ taken \in [Sockets -> 0..MaxVersion] /\ queue \in [Sockets -> 0..Buffer]
      /\ wire \in [Sockets -> Seq(Messages)] /\ Len(wire[s]) <= Wire + 2
      /\ handler[s] \in HandlerSteps /\ handler \in [Sockets -> HandlerSteps]
  BY NumbersAssumption DEF IInv, TypeOK, Versions, HandlerSteps
<1>2. /\ taken' \in [Sockets -> 0..MaxVersion] /\ taken'[s] <= version
      /\ \A t \in Sockets \ {s} : taken'[t] = taken[t]
      /\ step = "snapped" => taken'[s] = version
  BY <1>1 DEF IInv, Known
<1>3. handler'[s] = step /\ step \in HandlerSteps
  BY <1>1 DEF GoesOn, HandlerSteps
<1>4. Len(wire'[s]) <= 1
  BY <1>1 DEF IInv, Serving, Written, HandlerSteps
<1>5. Written(s)' /\ Registered(s)'
  BY <1>3, <1>4 DEF Written, Registered
<1>6. \A t \in Sockets : \A i \in 1..Len(wire'[t]) :
        wire'[t][i].type = "snapshot" => wire'[t][i].value <= version
  BY DEF IInv, Known
<1>7. UNCHANGED <<loads, faults>>
  BY DEF bounds
<1> QED BY <1>1, <1>2, <1>3, <1>5, <1>6, <1>7, HandlerMoves

LEMMA AcceptInv ==
  ASSUME IInv, NEW s \in Sockets, Accept(s) PROVE IInv'
<1>1. /\ handler[s] = "called" /\ UNCHANGED <<loads, faults>>
      /\ UNCHANGED <<version, seated, taken, client, requests, loads, excuse>>
      /\ faults \in 0..MaxFaults
  BY DEF Accept, bounds, IInv, TypeOK
<1>2. CASE ~seated
  BY <1>1, <1>2, CloseInv DEF Accept, Codes
<1>3. CASE seated
  <2>1. GoesOn(s, "accepted") /\ Send(s, Message("open", 0)) /\ UNCHANGED <<queue, revoked>>
    BY <1>3 DEF Accept
  <2>2. Message("open", 0) \in Messages /\ Message("open", 0).type # "snapshot"
    BY MessageTypes
  <2>3. Grown(s)
    BY <2>1, <2>2, SentGrown
  <2>4. Len(wire[s]) = 0 /\ Len(wire'[s]) \in Nat /\ Len(wire'[s]) <= 1
    BY <1>1, <2>3 DEF IInv, Serving, Written, Grown
  <2>5. handler'[s] = "accepted" /\ "accepted" \in HandlerSteps
    BY <2>1 DEF GoesOn, HandlerSteps, IInv, TypeOK
  <2>6. Written(s)' /\ Len(wire'[s]) <= Wire + 2
    BY <2>4, <2>5, NumbersAssumption DEF Written
  <2>7. s \notin revoked
    BY <1>1 DEF IInv, Serving, Registered
  <2>8. /\ taken' \in [Sockets -> 0..MaxVersion] /\ taken'[s] <= version
        /\ queue' \in [Sockets -> 0..Buffer]
    BY <1>1, <2>1 DEF IInv, TypeOK, Known
  <2> QED BY <1>1, <2>1, <2>3, <2>5, <2>6, <2>7, <2>8, HandlerMoves DEF Grown
<1> QED BY <1>2, <1>3

LEMMA RegisterInv ==
  ASSUME IInv, NEW s \in Sockets, Register(s) PROVE IInv'
BY QuietMove DEF Register

LEMMA PlayerConnectedInv ==
  ASSUME IInv, NEW s \in Sockets, PlayerConnected(s) PROVE IInv'
<1>1. handler[s] = "registered" /\ UNCHANGED <<seated, taken, client, requests, loads>>
  BY DEF PlayerConnected
<1>2. CASE /\ seated => Fault
           /\ ~seated => UNCHANGED faults
           /\ CloseWith(s, 1008)
           /\ UNCHANGED <<version, excuse>>
  <2>1. faults' \in 0..MaxFaults
    BY <1>2, NumbersAssumption DEF Fault, IInv, TypeOK
  <2> QED BY <1>1, <1>2, <2>1, CloseInv DEF Codes
<1>3. CASE /\ GoesOn(s, "connected") /\ UNCHANGED <<version, queue, excuse>>
           /\ UNCHANGED <<revoked, wire, faults>>
  BY <1>1, <1>3, QuietMove DEF bounds
<1>4. CASE /\ GoesOn(s, "connected") /\ version < MaxVersion /\ Publish
           /\ UNCHANGED <<revoked, wire, faults>>
  <2>1. TypeOK /\ "connected" \in HandlerSteps
    BY DEF IInv, HandlerSteps
  <2>2. /\ handler' \in [Sockets -> HandlerSteps] /\ handler'[s] = "connected"
        /\ \A t \in Sockets \ {s} : handler'[t] = handler[t]
    BY <1>4, <2>1, Stepped
  <2>3. revoked' \subseteq Sockets /\ \A t \in revoked' : Registered(t)'
    BY <1>4, <2>2 DEF IInv, TypeOK, Serving, Registered
  <2>4. UNCHANGED <<taken, client, requests, bounds, wire>>
    BY <1>1, <1>4 DEF bounds
  <2>5. seated' \in BOOLEAN /\ (seated' => seated)
    BY <1>1 DEF IInv, TypeOK
  <2> QED BY <1>1, <1>4, <2>2, <2>3, <2>4, <2>5, Published
<1> QED BY <1>2, <1>3, <1>4 DEF PlayerConnected

LEMMA SnapshotInv ==
  ASSUME IInv, NEW s \in Sockets, Snapshot(s) PROVE IInv'
<1>1. /\ handler[s] = "connected" /\ UNCHANGED <<loads, faults>>
      /\ UNCHANGED <<version, seated, client, requests, bounds, excuse>>
      /\ faults \in 0..MaxFaults
  BY DEF Snapshot, bounds, IInv, TypeOK
<1>2. CASE CloseWith(s, 1011) /\ UNCHANGED taken
  BY <1>1, <1>2, CloseInv DEF Codes
<1>3. CASE /\ GoesOn(s, "snapped") /\ taken' = [taken EXCEPT ![s] = version]
           /\ UNCHANGED <<queue, revoked, wire>>
  BY <1>1, <1>3, QuietMove
<1> QED BY <1>2, <1>3 DEF Snapshot

LEMMA SubscribeInv ==
  ASSUME IInv, NEW s \in Sockets, Subscribe(s) PROVE IInv'
<1> DEFINE m == Message("snapshot", taken[s])
<1>1. /\ handler[s] = "snapped" /\ GoesOn(s, "serving") /\ Send(s, m)
      /\ taken' = [taken EXCEPT ![s] = 0]
      /\ UNCHANGED <<version, seated, client, requests, loads, faults, excuse, queue, revoked>>
  BY DEF Subscribe, bounds
<1>2. taken[s] \in Versions /\ taken[s] <= version /\ (taken[s] = version \/ excuse = version)
  BY <1>1 DEF IInv, TypeOK, Known, SnappedFresh, Versions
<1>3. m \in Messages /\ m.type = "snapshot" /\ m.value = taken[s]
  BY <1>2, MessageTypes
<1> HIDE DEF m
<1>4. Grown(s)
  BY <1>1, <1>2, <1>3, SentGrown
<1>5. Len(wire[s]) \in Nat /\ Len(wire[s]) <= 1 /\ Len(wire'[s]) \in Nat
  BY <1>1, <1>4 DEF IInv, TypeOK, Serving, Written, Grown
<1>6. handler'[s] = "serving" /\ "serving" \in HandlerSteps
  BY <1>1 DEF GoesOn, HandlerSteps, IInv, TypeOK
<1>7. Written(s)' /\ Len(wire'[s]) <= Wire + 2 /\ Registered(s)'
  BY <1>4, <1>5, <1>6, NumbersAssumption DEF Written, Registered, Grown
<1>8. /\ taken' \in [Sockets -> 0..MaxVersion] /\ \A t \in Sockets \ {s} : taken'[t] = taken[t]
      /\ queue' \in [Sockets -> 0..Buffer] /\ faults' \in 0..MaxFaults
  BY <1>1, NumbersAssumption DEF IInv, TypeOK
<1>9. taken'[s] <= version
  <2>1. taken'[s] = 0 /\ version \in Nat
    BY <1>1, NumbersAssumption DEF IInv, TypeOK, Versions
  <2> QED BY <2>1
<1>10. Watches' /\ s = current => excuse = version \/ Coming(s)'
  <2> SUFFICES ASSUME Watches', s = current, taken[s] = version PROVE Coming(s)'
    BY <1>2
  <2>1. Live(s)
    BY <1>1, NamesAssumption DEF Watches, Live, client
  <2>2. wire'[s][Len(wire[s]) + 1] = m /\ Len(wire[s]) + 1 = Len(wire'[s])
    BY <1>1, <1>3, <2>1, Sent DEF IInv
  <2>3. Len(wire[s]) + 1 \in 1..Len(wire'[s])
    BY <1>5, <2>2
  <2> QED BY <1>1, <1>3, <2>2, <2>3 DEF Coming
<1> QED BY <1>1, <1>4, <1>6, <1>7, <1>8, <1>9, <1>10, HandlerMoves DEF Grown

LEMMA ServeInv ==
  ASSUME IInv, NEW s \in Sockets, Serve(s) PROVE IInv'
<1> DEFINE m == Message("event", 0)
<1>1. /\ handler[s] = "serving" /\ queue[s] > 0 /\ Len(wire[s]) < Wire /\ Send(s, m)
      /\ queue' = [queue EXCEPT ![s] = @ - 1]
      /\ UNCHANGED <<version, seated, handler, taken, client, requests, loads, faults, excuse, revoked>>
  BY DEF Serve, bounds
<1>2. m \in Messages /\ m.type = "event"
  BY MessageTypes
<1> HIDE DEF m
<1>3. Grown(s)
  BY <1>1, <1>2, SentGrown
<1>4. Len(wire[s]) \in Nat /\ Len(wire'[s]) \in Nat /\ Len(wire'[s]) <= Wire
  BY <1>1, <1>3, NumbersAssumption DEF IInv, TypeOK, Grown
<1>5. GoesOn(s, "serving") /\ "serving" \in HandlerSteps /\ handler'[s] = "serving"
  BY <1>1 DEF GoesOn, HandlerSteps, IInv, TypeOK
<1>6. Written(s)' /\ Len(wire'[s]) <= Wire + 2 /\ Registered(s)'
  BY <1>4, <1>5, NumbersAssumption DEF Written, Registered
<1>7. queue' \in [Sockets -> 0..Buffer] /\ \A t \in Sockets \ {s} : queue'[t] = queue[t]
  BY <1>1, NumbersAssumption DEF IInv, TypeOK
<1>8. /\ taken' \in [Sockets -> 0..MaxVersion] /\ taken'[s] <= version
      /\ faults' \in 0..MaxFaults
  BY <1>1 DEF IInv, TypeOK, Known
<1>9. Watches' /\ s = current => Coming(s)'
  <2> SUFFICES ASSUME Watches', s = current PROVE Coming(s)'
    OBVIOUS
  <2>1. Live(s)
    BY <1>1, NamesAssumption DEF Watches, Live, client
  <2>2. wire'[s][Len(wire[s]) + 1] = m /\ Len(wire[s]) + 1 = Len(wire'[s])
    BY <1>1, <1>2, <2>1, Sent DEF IInv
  <2>3. Len(wire[s]) + 1 \in 1..Len(wire'[s])
    BY <1>4, <2>2
  <2> QED BY <1>2, <2>2, <2>3 DEF Coming
<1> QED BY <1>1, <1>3, <1>5, <1>6, <1>7, <1>8, <1>9, HandlerMoves DEF Grown

LEMMA HandlerInv ==
  ASSUME IInv, NEW s \in Sockets, Handler(s) PROVE IInv'
<1>1. CASE CloseRevoked(s)
  <2>1. Registered(s)
    BY <1>1 DEF CloseRevoked, IInv, Serving
  <2>2. /\ handler[s] \notin {"none", "ended"} /\ CloseWith(s, 4002)
        /\ UNCHANGED <<version, seated, taken, client, requests, loads, excuse>>
        /\ faults' \in 0..MaxFaults
    BY <1>1, <2>1 DEF CloseRevoked, Registered, bounds, IInv, TypeOK
  <2> QED BY <2>2, CloseInv DEF Codes
<1>2. CASE Notice(s)
  <2>1. /\ handler[s] \notin {"none", "ended"} /\ Returns(s) /\ UNCHANGED wire
        /\ UNCHANGED <<version, seated, taken, client, requests, loads, excuse>>
        /\ faults' \in 0..MaxFaults
    BY <1>2 DEF Notice, bounds, IInv, TypeOK
  <2> QED BY <2>1, ReturnInv
<1> QED BY <1>1, <1>2, AcceptInv, RegisterInv, PlayerConnectedInv, SnapshotInv, SubscribeInv,
           ServeInv DEF Handler

-----------------------------------------------------------------------------
(* The steps of the client *)

\* The client reads, asks and opens sockets: what it leaves is a matter of Lines and Repairs.
LEMMA ClientMoves ==
  ASSUME IInv, UNCHANGED <<version, seated, taken, queue, revoked>>,
         handler' \in [Sockets -> HandlerSteps],
         \A t \in Sockets : \/ handler'[t] = handler[t]
                            \/ handler[t] = "none" /\ handler'[t] = "called",
         wire' \in [Sockets -> Seq(Messages)],
         \A t \in Sockets : Len(wire'[t]) <= Len(wire[t]),
         \A t \in Sockets : \A i \in 1..Len(wire'[t]) :
           wire'[t][i].type = "snapshot" => wire'[t][i].value <= version,
         socket' \in [Sockets -> {"none", "connecting", "open", "closing", "closed"}],
         current' \in Sockets \cup {None},
         wants' \in BOOLEAN, timer' \in BOOLEAN, signedOut' \in BOOLEAN,
         asked' \in [Askers -> Nat], answers' \in [Askers -> [0..MaxVersion -> Nat]],
         \A who \in Askers, v \in 0..MaxVersion : answers'[who][v] > 0 => v <= version,
         view' \in Versions, view' <= version, excuse' \in 0..MaxVersion, excuse' <= version,
         excuse = version => excuse' = version,
         loads' \in 0..MaxLoads, faults' \in 0..MaxFaults,
         Lines', Repairs'
  PROVE  IInv'
<1>1. \A t \in Sockets : Len(wire[t]) \in Nat /\ Len(wire'[t]) \in Nat
  BY DEF IInv, TypeOK
<1>2. TypeOK'
  <2>1. \A t \in Sockets : Len(wire'[t]) <= Wire + 2
    BY <1>1, NumbersAssumption DEF IInv, TypeOK
  <2> QED BY <2>1 DEF IInv, TypeOK, HandlerSteps
<1>3. Serving'
  <2>1. \A t \in Sockets : Written(t)'
    <3> SUFFICES ASSUME NEW t \in Sockets PROVE Written(t)'
      OBVIOUS
    <3>1. Written(t) /\ Len(wire'[t]) <= Len(wire[t]) /\ Wire \in Nat
      BY NumbersAssumption DEF IInv, Serving
    <3> QED BY <1>1, <3>1 DEF Written
  <2>2. \A t \in revoked' : Registered(t)'
    BY DEF IInv, TypeOK, Serving, Registered
  <2> QED BY <2>1, <2>2 DEF Serving
<1>4. Known'
  BY DEF IInv, Known
<1>5. SnappedFresh'
  BY DEF IInv, SnappedFresh
<1> QED BY <1>2, <1>3, <1>4, <1>5 DEF IInv

\* what stays when the client does nothing to its socket or to what it shows
LEMMA Present ==
  ASSUME IInv
  PROVE  /\ handler \in [Sockets -> HandlerSteps]
         /\ wire \in [Sockets -> Seq(Messages)] /\ \A t \in Sockets : Len(wire[t]) \in Nat
         /\ \A t \in Sockets : \A i \in 1..Len(wire[t]) :
              wire[t][i].type = "snapshot" => wire[t][i].value <= version
         /\ socket \in [Sockets -> {"none", "connecting", "open", "closing", "closed"}]
         /\ current \in Sockets \cup {None}
         /\ wants \in BOOLEAN /\ timer \in BOOLEAN /\ signedOut \in BOOLEAN
         /\ asked \in [Askers -> Nat] /\ answers \in [Askers -> [0..MaxVersion -> Nat]]
         /\ \A who \in Askers, v \in 0..MaxVersion : answers[who][v] > 0 => v <= version
         /\ version \in Versions /\ version \in Nat /\ version >= 1 /\ version \in 0..MaxVersion
         /\ view \in Versions /\ view \in Nat /\ view <= version
         /\ excuse \in 0..MaxVersion /\ excuse <= version
         /\ loads \in 0..MaxLoads /\ faults \in 0..MaxFaults
BY NumbersAssumption DEF IInv, TypeOK, Known, Versions, HandlerSteps

\* One counter of a table of counters is set.
LEMMA Counted ==
  ASSUME NEW A, NEW B, NEW f \in [A -> [B -> Nat]], NEW a \in A, NEW b \in B, NEW n \in Nat,
         NEW g, g = [f EXCEPT ![a][b] = n]
  PROVE  /\ g \in [A -> [B -> Nat]] /\ g[a][b] = n
         /\ \A w \in A, x \in B : (w = a /\ x = b) \/ g[w][x] = f[w][x]
<1> DEFINE y == [f[a] EXCEPT ![b] = n]
<1>1. g = [f EXCEPT ![a] = y]
  OBVIOUS
<1>2. f[a] \in [B -> Nat]
  OBVIOUS
<1>3. y \in [B -> Nat] /\ y[b] = n /\ \A x \in B : x = b \/ y[x] = f[a][x]
  BY <1>2
<1> HIDE DEF y
<1>4. g \in [A -> [B -> Nat]] /\ g[a] = y /\ \A w \in A : w = a \/ g[w] = f[w]
  BY <1>1, <1>3
<1> QED BY <1>3, <1>4

LEMMA AnswersCounted ==
  ASSUME IInv, NEW who \in Askers, NEW v \in 0..MaxVersion
  PROVE  answers[who][v] \in Nat
<1>1. answers[who] \in [0..MaxVersion -> Nat]
  BY DEF IInv, TypeOK
<1> QED BY <1>1

LEMMA LoadInv == ASSUME IInv, Load PROVE IInv'
<1>1. /\ asked' = [asked EXCEPT ![View] = @ + 1] /\ loads' \in 0..MaxLoads
      /\ UNCHANGED <<server, client, answers, faults, wire, excuse>>
  BY Present, NumbersAssumption DEF Load
<1>2. View \in Askers /\ asked' \in [Askers -> Nat] /\ asked'[View] > 0
  BY <1>1, Present DEF Askers
<1>3. UNCHANGED <<version, seated, handler, taken, queue, revoked>>
  BY <1>1 DEF server
<1>4. UNCHANGED <<socket, current, wants, timer, view, signedOut>>
  BY <1>1 DEF client
<1>5. Lines'
  BY <1>3, <1>4 DEF IInv, Lines, Live
<1>6. Repairs'
  BY <1>2 DEF Repairs, Requested
<1> HIDE DEF Versions
<1> QED BY <1>1, <1>2, <1>3, <1>4, <1>5, <1>6, Present, ClientMoves

LEMMA AnswerInv == ASSUME IInv, NEW who \in Askers, Answer(who) PROVE IInv'
<1> DEFINE v == IF seated THEN version ELSE NotSeated
<1>1. /\ asked[who] > 0 /\ asked' = [asked EXCEPT ![who] = @ - 1]
      /\ answers' = [answers EXCEPT ![who][v] = @ + 1]
      /\ UNCHANGED <<server, client, bounds, wire, excuse>>
  BY DEF Answer
<1>2. v \in 0..MaxVersion /\ v <= version /\ (seated => v = version)
  <2>1. CASE seated
    BY <2>1, Present
  <2>2. CASE ~seated
    BY <2>2, Present, NumbersAssumption DEF NotSeated
  <2> QED BY <2>1, <2>2
<1> HIDE DEF v
<1>3. asked' \in [Askers -> Nat]
  BY <1>1, Present
<1>4. /\ answers' \in [Askers -> [0..MaxVersion -> Nat]] /\ answers'[who][v] > 0
      /\ \A w \in Askers, x \in 0..MaxVersion :
           (w = who /\ x = v) \/ answers'[w][x] = answers[w][x]
  <2>1. answers[who][v] + 1 \in Nat /\ answers[who][v] + 1 > 0
    BY <1>2, AnswersCounted
  <2>2. answers' = [answers EXCEPT ![who][v] = answers[who][v] + 1]
    BY <1>1
  <2>3. answers \in [Askers -> [0..MaxVersion -> Nat]]
    BY Present
  <2>4. /\ answers' \in [Askers -> [0..MaxVersion -> Nat]]
        /\ answers'[who][v] = answers[who][v] + 1
        /\ \A w \in Askers, x \in 0..MaxVersion :
             (w = who /\ x = v) \/ answers'[w][x] = answers[w][x]
    BY <1>2, <2>1, <2>2, <2>3, Counted
  <2> QED BY <2>1, <2>4
<1>5. \A w \in Askers, x \in 0..MaxVersion : answers'[w][x] > 0 => x <= version
  BY <1>2, <1>4, Present
<1>6. UNCHANGED <<version, seated, handler, taken, queue, revoked, loads, faults>>
  BY <1>1 DEF server, bounds
<1>7. UNCHANGED <<socket, current, wants, timer, view, signedOut>>
  BY <1>1 DEF client
<1>8. Lines'
  BY <1>6, <1>7 DEF IInv, Lines, Live
<1>9. Repairs'
  BY <1>2, <1>4, <1>6 DEF Repairs, Requested
<1> QED BY <1>1, <1>3, <1>4, <1>5, <1>6, <1>7, <1>8, <1>9, Present, ClientMoves

LEMMA LoseAnswerInv == ASSUME IInv, NEW who \in Askers, LoseAnswer(who) PROVE IInv'
<1>1. /\ asked[who] > 0 /\ asked' = [asked EXCEPT ![who] = @ - 1] /\ excuse' = version
      /\ faults' \in 0..MaxFaults
      /\ UNCHANGED <<server, socket, current, wants, timer, view, signedOut, answers, loads, wire>>
  BY Present, NumbersAssumption DEF LoseAnswer, Fault
<1>2. asked' \in [Askers -> Nat]
  BY <1>1, Present
<1>3. UNCHANGED <<version, seated, handler, taken, queue, revoked>>
  BY <1>1 DEF server
<1>4. Lines'
  BY <1>1, <1>3 DEF IInv, Lines, Live
<1>5. Repairs'
  BY <1>1, <1>3 DEF Repairs, Excused
<1> QED BY <1>1, <1>2, <1>3, <1>4, <1>5, Present, ClientMoves

\* The shown version goes backwards only with an excuse.
LEMMA ShowsInv ==
  ASSUME IInv, NEW v \in Versions, v <= version, Shows(v), version' = version
  PROVE  /\ view' \in Versions /\ view' <= version
         /\ excuse' \in 0..MaxVersion /\ excuse' <= version
         /\ excuse = version => excuse' = version
         /\ v = version \/ Excused => Excused'
<1>1. /\ version \in Nat /\ view \in Nat /\ view \in 0..MaxVersion /\ view <= version
      /\ excuse \in 0..MaxVersion /\ excuse <= version /\ excuse \in Nat
  BY Present, NumbersAssumption DEF Versions
<1>2. view' = v /\ v \in Nat
  BY DEF Shows, Versions
<1>3. /\ v < view => excuse' = Latest(excuse, view)
      /\ ~(v < view) => excuse' = excuse
  BY DEF Shows
<1>4. /\ Latest(excuse, view) \in {excuse, view}
      /\ view = version \/ excuse = version => Latest(excuse, view) = version
  BY <1>1 DEF Latest
<1>5. /\ excuse' \in 0..MaxVersion /\ excuse' <= version
      /\ excuse = version => excuse' = version
  BY <1>1, <1>2, <1>3, <1>4
<1>6. ASSUME v = version \/ view = version \/ excuse = version
      PROVE  view' = version \/ excuse' = version
  BY <1>1, <1>2, <1>3, <1>4, <1>6
<1> QED BY <1>2, <1>5, <1>6 DEF Excused

\* A socket is opened only when no other is live.
LEMMA OpensLines ==
  ASSUME IInv, NEW s \in Sockets, Opens(s), ~Live(current), wants' = TRUE \/ wants' = wants
  PROVE  /\ Lines' /\ ~Watches' /\ current' = s /\ timer' = FALSE
         /\ socket' \in [Sockets -> {"none", "connecting", "open", "closing", "closed"}]
         /\ handler' \in [Sockets -> HandlerSteps]
         /\ \A t \in Sockets : \/ handler'[t] = handler[t]
                               \/ handler[t] = "none" /\ handler'[t] = "called"
<1>1. /\ socket[s] = "none" /\ socket' = [socket EXCEPT ![s] = "connecting"]
      /\ current' = s /\ timer' = FALSE /\ handler' = [handler EXCEPT ![s] = "called"]
  BY DEF Opens, Unused
<1>2. handler[s] = "none"
  BY <1>1 DEF IInv, Lines
<1>3. /\ socket' \in [Sockets -> {"none", "connecting", "open", "closing", "closed"}]
      /\ socket'[s] = "connecting" /\ \A t \in Sockets \ {s} : socket'[t] = socket[t]
  BY <1>1, Present
<1>4. /\ handler' \in [Sockets -> HandlerSteps]
      /\ handler'[s] = "called" /\ \A t \in Sockets \ {s} : handler'[t] = handler[t]
  BY <1>1, Present DEF HandlerSteps
<1>5. \A t \in Sockets \ {s} : ~Live(t)'
  <2> SUFFICES ASSUME NEW t \in Sockets \ {s}, Live(t)' PROVE FALSE
    OBVIOUS
  <2>1. Live(t)
    BY <1>3 DEF Live
  <2> QED BY <2>1 DEF IInv, Lines
<1>6. s # None
  BY NamesAssumption
<1>7. Lines'
  <2>1. \A t \in Sockets : Live(t)' => t = current'
    BY <1>1, <1>5
  <2>2. \A t \in Sockets : socket'[t] = "none" => handler'[t] = "none"
    BY <1>3, <1>4 DEF IInv, Lines
  <2> QED BY <1>1, <1>6, <2>1, <2>2 DEF Lines
<1>8. ~Watches'
  BY <1>1, <1>3 DEF Watches
<1> QED BY <1>1, <1>2, <1>3, <1>4, <1>7, <1>8

LEMMA AcceptedInv ==
  ASSUME IInv, NEW who \in Askers, NEW v \in Versions, Accepted(who, v) PROVE IInv'
<1>1. /\ answers[who][v] > 0 /\ answers' = [answers EXCEPT ![who][v] = @ - 1] /\ Shows(v)
      /\ UNCHANGED <<version, seated, taken, queue, revoked, signedOut, asked, bounds, wire>>
  BY DEF Accepted
<1>2. v \in 0..MaxVersion /\ v <= version
  BY <1>1, Present, NumbersAssumption DEF Versions
<1>3. /\ answers' \in [Askers -> [0..MaxVersion -> Nat]]
      /\ \A w \in Askers, x \in 0..MaxVersion :
           (w = who /\ x = v) \/ answers'[w][x] = answers[w][x]
  <2>1. answers[who][v] - 1 \in Nat
    BY <1>1, <1>2, AnswersCounted
  <2>2. answers' = [answers EXCEPT ![who][v] = answers[who][v] - 1]
    BY <1>1
  <2> QED BY <1>2, <2>1, <2>2, Present, Counted
<1>4. \A w \in Askers, x \in 0..MaxVersion : answers'[w][x] > 0 => x <= version
  BY <1>2, <1>3, Present
<1>5. /\ view' \in Versions /\ view' <= version
      /\ excuse' \in 0..MaxVersion /\ excuse' <= version
      /\ excuse = version => excuse' = version
      /\ v = version \/ Excused => Excused'
  BY <1>1, <1>2, ShowsInv
<1>6. UNCHANGED <<loads, faults>>
  BY <1>1 DEF bounds
<1>7. CASE UNCHANGED <<socket, current, timer, handler>> /\ (wants' = TRUE => wants \/ Live(current))
                                                        /\ wants' \in BOOLEAN
  <2>1. Live(current) => current # None /\ ~timer
    BY DEF Live, IInv, Lines
  <2>2. Lines'
    BY <1>7, <2>1 DEF IInv, Lines, Live
  <2>3. Repairs'
    <3> SUFFICES ASSUME Watches', seated', v # version
                 PROVE  Excused' \/ Coming(current)' \/ Requested'
      BY <1>5 DEF Repairs
    <3>1. Excused \/ Coming(current) \/ Requested
      BY <1>1, <1>7 DEF Watches, IInv, Repairs
    <3>2. Coming(current) => Coming(current)'
      BY <1>1, <1>7 DEF Coming
    <3>3. Requested => Requested'
      BY <1>1, <1>3, Present DEF Requested
    <3> QED BY <1>5, <3>1, <3>2, <3>3
  <2> QED BY <1>1, <1>3, <1>4, <1>5, <1>6, <1>7, <2>2, <2>3, Present, ClientMoves
<1>8. ASSUME NEW s \in Sockets, Opens(s), ~Live(current), wants' = TRUE
      PROVE  IInv'
  <2>1. /\ Lines' /\ ~Watches' /\ current' = s /\ timer' = FALSE
        /\ socket' \in [Sockets -> {"none", "connecting", "open", "closing", "closed"}]
        /\ handler' \in [Sockets -> HandlerSteps]
        /\ \A t \in Sockets : \/ handler'[t] = handler[t]
                              \/ handler[t] = "none" /\ handler'[t] = "called"
    BY <1>8, OpensLines
  <2>2. Repairs'
    BY <2>1 DEF Repairs
  <2>3. current' \in Sockets \cup {None} /\ wants' \in BOOLEAN /\ timer' \in BOOLEAN
    BY <1>8, <2>1
  <2> QED BY <1>1, <1>3, <1>4, <1>5, <1>6, <2>1, <2>2, <2>3, Present, ClientMoves
<1>9. \/ UNCHANGED <<wants, socket, current, timer, handler>>
      \/ Live(current) /\ wants' = TRUE /\ UNCHANGED <<socket, current, timer, handler>>
      \/ ~Live(current) /\ wants' = TRUE /\ \E s \in Sockets : Opens(s)
  BY DEF Accepted, Connects
<1>10. CASE UNCHANGED <<wants, socket, current, timer, handler>>
  BY <1>7, <1>10, Present
<1> QED BY <1>7, <1>8, <1>9, <1>10

\* What ends a socket of the client leaves no line, or the one there is.
EndedAs(s, state) == socket' = [socket EXCEPT ![s] = state]

LEMMA EndsLines ==
  ASSUME IInv, UNCHANGED handler, NEW s \in Sockets, socket[s] # "none",
         NEW state \in {"closing", "closed"}, EndedAs(s, state),
         \/ current' = current /\ timer' = timer /\ (wants' => wants)
         \/ s = current /\ current' = None /\ (wants' => timer')
         \/ s = current /\ current' = None /\ wants' = FALSE
  PROVE  /\ Lines'
         /\ socket' \in [Sockets -> {"none", "connecting", "open", "closing", "closed"}]
         /\ Watches' => Watches /\ current' = current /\ current # s
<1>1. /\ socket' \in [Sockets -> {"none", "connecting", "open", "closing", "closed"}]
      /\ socket'[s] = state /\ \A t \in Sockets \ {s} : socket'[t] = socket[t]
  BY Present DEF EndedAs
<1>2. \A t \in Sockets : Live(t)' => t # s /\ Live(t)
  BY <1>1 DEF Live
<1>3. \A t \in Sockets : Live(t)' => t = current'
  BY <1>2 DEF IInv, Lines
<1>4. \A t \in Sockets : socket'[t] = "none" => handler'[t] = "none"
  BY <1>1 DEF IInv, Lines
<1>5. (wants' => (timer' <=> current' = None)) /\ (timer' => current' = None)
  BY DEF IInv, Lines
<1>6. Lines'
  BY <1>3, <1>4, <1>5 DEF Lines
<1>7. Watches' => Watches /\ current' = current /\ current # s
  BY <1>1, Present DEF Watches
<1> QED BY <1>1, <1>6, <1>7

\* An event that is no more on its way, and the rest is.
LEMMA WatchesKept ==
  ASSUME IInv, Watches' => Watches /\ current' = current,
         UNCHANGED <<version, seated>>,
         Watches' => (Coming(current) => Coming(current)'), Requested => Requested',
         Excused => Excused'
  PROVE  Repairs'
<1> SUFFICES ASSUME Watches', seated' PROVE Excused' \/ Coming(current)' \/ Requested'
  BY DEF Repairs
<1> QED BY DEF IInv, Repairs

\* disconnectRoomEvents
LEMMA DisconnectsLines ==
  ASSUME IInv, UNCHANGED handler, Disconnects
  PROVE  /\ Lines' /\ ~Watches' /\ current' = None
         /\ wants' \in BOOLEAN /\ timer' \in BOOLEAN
         /\ socket' \in [Sockets -> {"none", "connecting", "open", "closing", "closed"}]
<1>1. wants' = FALSE /\ timer' = FALSE /\ current' = None /\ socket' = Ends(current)
  BY DEF Disconnects
<1>2. /\ socket' \in [Sockets -> {"none", "connecting", "open", "closing", "closed"}]
      /\ \A t \in Sockets : ~Live(t)'
      /\ \A t \in Sockets : socket'[t] = "none" => socket[t] = "none"
  <2>1. CASE Live(current)
    <3>1. current \in Sockets /\ socket' = [socket EXCEPT ![current] = "closing"]
      BY <1>1, <2>1, Present DEF Ends, Live
    <3> QED BY <3>1, Present DEF Live, IInv, Lines
  <2>2. CASE ~Live(current)
    <3>1. socket' = socket
      BY <1>1, <2>2 DEF Ends
    <3> QED BY <2>2, <3>1, Present DEF Live, IInv, Lines
  <2> QED BY <2>1, <2>2
<1>3. Lines'
  BY <1>1, <1>2 DEF Lines, IInv
<1>4. ~Watches'
  BY <1>1 DEF Watches
<1> QED BY <1>1, <1>2, <1>3, <1>4

LEMMA DeniedInv == ASSUME IInv, NEW who \in Askers, Denied(who) PROVE IInv'
<1>1. /\ answers[who][NotSeated] > 0
      /\ answers' = [answers EXCEPT ![who][NotSeated] = @ - 1]
      /\ UNCHANGED <<server, view, signedOut, asked, bounds, wire, excuse>>
  BY DEF Denied
<1>2. UNCHANGED <<version, seated, handler, taken, queue, revoked, loads, faults>>
  BY <1>1 DEF server, bounds
<1>3. NotSeated \in 0..MaxVersion /\ NotSeated # version
  BY Present, NumbersAssumption DEF NotSeated
<1>4. /\ answers' \in [Askers -> [0..MaxVersion -> Nat]]
      /\ \A w \in Askers, x \in 0..MaxVersion :
           (w = who /\ x = NotSeated) \/ answers'[w][x] = answers[w][x]
  <2>1. answers[who][NotSeated] - 1 \in Nat
    BY <1>1, <1>3, AnswersCounted
  <2>2. answers' = [answers EXCEPT ![who][NotSeated] = answers[who][NotSeated] - 1]
    BY <1>1
  <2> QED BY <1>3, <2>1, <2>2, Present, Counted
<1>5. \A w \in Askers, x \in 0..MaxVersion : answers'[w][x] > 0 => x <= version
  <2>1. NotSeated <= version
    BY Present DEF NotSeated
  <2> QED BY <1>4, <2>1, Present
<1>6. (Requested => Requested') /\ (Excused => Excused')
  BY <1>1, <1>2, <1>3, <1>4, Present DEF Requested, Excused
<1>7. ASSUME Lines', Watches' => Watches /\ current' = current,
             wants' \in BOOLEAN, timer' \in BOOLEAN, current' \in Sockets \cup {None},
             socket' \in [Sockets -> {"none", "connecting", "open", "closing", "closed"}]
      PROVE  IInv'
  <2>1. Watches' => (Coming(current) => Coming(current)')
    BY <1>1, <1>2, <1>7 DEF Coming
  <2>2. Repairs'
    BY <1>2, <1>6, <1>7, <2>1, WatchesKept
  <2> QED BY <1>1, <1>2, <1>4, <1>5, <1>7, <2>2, Present, ClientMoves
<1>8. CASE who # View /\ wants' = FALSE /\ socket' = Ends(who) /\ UNCHANGED <<current, timer>>
  <2>1. who \in Sockets
    BY <1>8 DEF Askers
  <2>2. CASE Live(who)
    <3>1. socket[who] # "none" /\ EndedAs(who, "closing") /\ UNCHANGED handler
      BY <1>2, <1>8, <2>2 DEF Ends, EndedAs, Live
    <3>2. /\ Lines' /\ (Watches' => Watches /\ current' = current)
          /\ socket' \in [Sockets -> {"none", "connecting", "open", "closing", "closed"}]
      BY <1>8, <2>1, <3>1, EndsLines
    <3> QED BY <1>7, <1>8, <3>2, Present
  <2>3. CASE ~Live(who)
    <3>1. socket' = socket
      BY <1>8, <2>3 DEF Ends
    <3>2. Lines' /\ (Watches' => Watches /\ current' = current)
      BY <1>2, <1>8, <3>1 DEF IInv, Lines, Live, Watches
    <3> QED BY <1>7, <1>8, <3>1, <3>2, Present
  <2> QED BY <2>2, <2>3
<1>9. CASE Disconnects
  BY <1>2, <1>7, <1>9, DisconnectsLines
<1>10. CASE UNCHANGED <<wants, timer, current, socket>>
  <2>1. Lines' /\ (Watches' => Watches /\ current' = current)
    BY <1>2, <1>10 DEF IInv, Lines, Live, Watches
  <2> QED BY <1>7, <1>10, <2>1, Present
<1> QED BY <1>8, <1>9, <1>10 DEF Denied

\* A message is taken off: whatever else comes still comes.
LEMMA TakenOff ==
  ASSUME IInv, NEW s \in Sockets, wire[s] # <<>>, wire' = [wire EXCEPT ![s] = Tail(@)],
         UNCHANGED <<version, queue>>
  PROVE  /\ wire' \in [Sockets -> Seq(Messages)]
         /\ \A t \in Sockets : Len(wire'[t]) <= Len(wire[t])
         /\ \A t \in Sockets : \A i \in 1..Len(wire'[t]) :
              wire'[t][i].type = "snapshot" => wire'[t][i].value <= version
         /\ Head(wire[s]) \in Messages
         /\ Head(wire[s]).type = "snapshot" => Head(wire[s]).value <= version
         /\ \A t \in Sockets : Coming(t) =>
              \/ Coming(t)'
              \/ Head(wire[s]).type = "event"
              \/ Head(wire[s]).type = "snapshot" /\ Head(wire[s]).value = version
<1>1. /\ wire' \in [Sockets -> Seq(Messages)]
      /\ Len(wire'[s]) = Len(wire[s]) - 1 /\ Len(wire[s]) >= 1
      /\ Head(wire[s]) \in Messages /\ Head(wire[s]) = wire[s][1]
      /\ \A t \in Sockets \ {s} : wire'[t] = wire[t]
      /\ \A i \in 1..Len(wire'[s]) : i + 1 \in 1..Len(wire[s]) /\ wire'[s][i] = wire[s][i + 1]
      /\ \A i \in 1..Len(wire[s]) : i = 1 \/ i - 1 \in 1..Len(wire'[s])
  BY Taken DEF IInv
<1>2. \A t \in Sockets : Len(wire[t]) \in Nat
  BY Present
<1>3. \A t \in Sockets : Len(wire'[t]) <= Len(wire[t])
  BY <1>1, <1>2
<1>4. \A i \in 1..Len(wire'[s]) :
        wire'[s][i].type = "snapshot" => wire'[s][i].value <= version
  <2> SUFFICES ASSUME NEW i \in 1..Len(wire'[s]), wire'[s][i].type = "snapshot"
               PROVE  wire'[s][i].value <= version
    OBVIOUS
  <2>1. i + 1 \in 1..Len(wire[s]) /\ wire'[s][i] = wire[s][i + 1]
    BY <1>1
  <2> QED BY <2>1, Present
<1>5. \A t \in Sockets : \A i \in 1..Len(wire'[t]) :
        wire'[t][i].type = "snapshot" => wire'[t][i].value <= version
  BY <1>1, <1>4, Present
<1>6. Head(wire[s]).type = "snapshot" => Head(wire[s]).value <= version
  <2>1. 1 \in 1..Len(wire[s])
    BY <1>1, <1>2
  <2>2. wire[s][1].type = "snapshot" => wire[s][1].value <= version
    BY <2>1, Present
  <2>3. Head(wire[s]) = wire[s][1]
    BY <1>1
  <2> QED BY <2>2, <2>3, Zenon
<1>7. ASSUME NEW t \in Sockets, Coming(t), ~Coming(t)'
      PROVE  \/ Head(wire[s]).type = "event"
             \/ Head(wire[s]).type = "snapshot" /\ Head(wire[s]).value = version
  <2>1. PICK i \in 1..Len(wire[t]) :
          \/ wire[t][i].type = "event"
          \/ wire[t][i].type = "snapshot" /\ wire[t][i].value = version
    BY <1>7 DEF Coming
  <2>2. t = s
    BY <1>1, <1>7, <2>1 DEF Coming
  <2>3. CASE i = 1
    BY <1>1, <2>1, <2>2, <2>3
  <2>4. CASE i # 1
    <3>1. i - 1 \in 1..Len(wire'[s]) /\ (i - 1) + 1 = i
      BY <1>1, <2>2, <2>4
    <3>2. wire'[s][i - 1] = wire[s][i]
      BY <1>1, <3>1
    <3> QED BY <1>7, <2>1, <2>2, <3>1, <3>2 DEF Coming
  <2> QED BY <2>3, <2>4
<1> QED BY <1>1, <1>3, <1>5, <1>6, <1>7

\* what a connective is equal to
LEMMA Either ==
  /\ \A x, p, q : x = (p \/ q) => (x = TRUE \/ x = FALSE) /\ (x <=> p \/ q)
  /\ \A x, p, q : x = (p /\ q) => (x = TRUE \/ x = FALSE) /\ (x <=> p /\ q)
OBVIOUS

\* The connection of s is gone: it was the current one, and the timer runs if one is wanted.
LEMMA ClosedLines ==
  ASSUME IInv, UNCHANGED handler, NEW s \in Sockets, socket[s] # "none", NEW code \in Codes,
         Closed(s, code)
  PROVE  /\ Lines'
         /\ socket' \in [Sockets -> {"none", "connecting", "open", "closing", "closed"}]
         /\ Watches' => Watches /\ current' = current /\ current # s
         /\ current' \in Sockets \cup {None}
         /\ wants' \in BOOLEAN /\ timer' \in BOOLEAN /\ signedOut' \in BOOLEAN
<1>1. EndedAs(s, "closed")
  BY DEF Closed, EndedAs
<1>2. CASE s # current
  <2>1. UNCHANGED <<current, wants, timer, signedOut>>
    BY <1>2 DEF Closed
  <2> QED BY <1>1, <2>1, EndsLines, Present
<1>3. CASE s = current
  <2>1. /\ current' = None /\ wants' = (wants /\ code \notin {1008, 4002})
        /\ timer' = (timer \/ wants') /\ signedOut' = (signedOut \/ code = 1008)
    BY <1>3 DEF Closed, Reconnects
  <2>2. wants' = TRUE \/ wants' = FALSE
    BY <2>1, Either
  <2>3. timer' = TRUE \/ timer' = FALSE
    BY <2>1, Either
  <2>4. signedOut' = TRUE \/ signedOut' = FALSE
    BY <2>1, Either
  <2>5. wants' => timer'
    BY <2>1, Either
  <2>6. current' = None
    BY <2>1
  <2>7. /\ Lines'
        /\ socket' \in [Sockets -> {"none", "connecting", "open", "closing", "closed"}]
        /\ Watches' => Watches /\ current' = current /\ current # s
    BY <1>1, <1>3, <2>5, <2>6, EndsLines
  <2>8. wants' \in BOOLEAN /\ timer' \in BOOLEAN /\ signedOut' \in BOOLEAN
    BY <2>2, <2>3, <2>4
  <2> QED BY <2>6, <2>7, <2>8
<1> QED BY <1>2, <1>3

LEMMA ReceiveInv == ASSUME IInv, NEW s \in Sockets, Receive(s) PROVE IInv'
<1> DEFINE m == Head(wire[s])
<1>1. /\ socket[s] \in {"connecting", "open"} /\ wire[s] # <<>>
      /\ wire' = [wire EXCEPT ![s] = Tail(@)]
      /\ UNCHANGED <<server, answers, bounds>>
  BY DEF Receive
<1>2. UNCHANGED <<version, seated, handler, taken, queue, revoked, loads, faults>>
  BY <1>1 DEF server, bounds
<1>3. /\ wire' \in [Sockets -> Seq(Messages)]
      /\ \A t \in Sockets : Len(wire'[t]) <= Len(wire[t])
      /\ \A t \in Sockets : \A i \in 1..Len(wire'[t]) :
           wire'[t][i].type = "snapshot" => wire'[t][i].value <= version
      /\ m \in Messages
      /\ m.type = "snapshot" => m.value <= version
      /\ \A t \in Sockets : Coming(t) =>
           \/ Coming(t)'
           \/ m.type = "event"
           \/ m.type = "snapshot" /\ m.value = version
  BY <1>1, <1>2, TakenOff
<1>4. s = current /\ s # None /\ Live(s)
  BY <1>1, NamesAssumption DEF Live, IInv, Lines
<1>5. \/ /\ m.type = "open" /\ socket' = [socket EXCEPT ![s] = "open"]
         /\ IF s = current THEN Refresh(s) ELSE UNCHANGED asked
         /\ UNCHANGED <<current, wants, timer, view, signedOut, excuse>>
      \/ m.type = "snapshot" /\ Shows(m.value)
         /\ UNCHANGED <<socket, current, wants, timer, signedOut, asked>>
      \/ m.type = "event" /\ Refresh(s) /\ UNCHANGED <<client, excuse>>
      \/ m.type = "closed" /\ Closed(s, m.value) /\ UNCHANGED <<view, asked, excuse>>
  BY DEF Receive
<1> HIDE DEF m
<1>6. ASSUME Refresh(s) PROVE asked' \in [Askers -> Nat] /\ Requested'
  <2>1. s \in Askers /\ asked \in [Askers -> Nat]
    BY Present DEF Askers
  <2>2. asked' \in [Askers -> Nat] /\ asked'[s] > 0
    BY <1>6, <2>1 DEF Refresh
  <2> QED BY <2>1, <2>2 DEF Requested
<1>7. CASE /\ m.type = "open" /\ socket' = [socket EXCEPT ![s] = "open"] /\ Refresh(s)
           /\ UNCHANGED <<current, wants, timer, view, signedOut, excuse>>
  <2>1. /\ socket' \in [Sockets -> {"none", "connecting", "open", "closing", "closed"}]
        /\ socket'[s] = "open" /\ \A t \in Sockets \ {s} : socket'[t] = socket[t]
    BY <1>7, Present
  <2>2. Lines'
    BY <1>1, <1>2, <1>4, <1>7, <2>1 DEF IInv, Lines, Live
  <2>3. Repairs'
    BY <1>6, <1>7 DEF Repairs
  <2> QED BY <1>1, <1>2, <1>3, <1>6, <1>7, <2>1, <2>2, <2>3, Present, ClientMoves
<1>8. CASE /\ m.type = "snapshot" /\ Shows(m.value)
           /\ UNCHANGED <<socket, current, wants, timer, signedOut, asked>>
  <2>1. m.value \in Versions /\ m.value <= version
    BY <1>3, <1>8 DEF Messages
  <2>2. /\ view' \in Versions /\ view' <= version
        /\ excuse' \in 0..MaxVersion /\ excuse' <= version
        /\ excuse = version => excuse' = version
        /\ m.value = version \/ Excused => Excused'
    BY <1>2, <1>8, <2>1, ShowsInv
  <2>3. Lines'
    BY <1>2, <1>8 DEF IInv, Lines, Live
  <2>4. Repairs'
    <3>1. CASE m.value = version
      BY <2>2, <3>1 DEF Repairs
    <3>2. CASE m.value # version
      <4>1. Coming(s) => Coming(s)'
        BY <1>3, <1>8, <3>2
      <4>2. (Requested => Requested') /\ (Watches' => Watches)
        BY <1>1, <1>2, <1>8 DEF Requested, Watches
      <4>3. Coming(current) => Coming(current)'
        BY <1>4, <1>8, <4>1 DEF Coming
      <4> QED BY <1>2, <1>8, <2>2, <4>2, <4>3, WatchesKept
    <3> QED BY <3>1, <3>2
  <2> QED BY <1>1, <1>2, <1>3, <1>8, <2>2, <2>3, <2>4, Present, ClientMoves
<1>9. CASE m.type = "event" /\ Refresh(s) /\ UNCHANGED <<client, excuse>>
  <2>1. UNCHANGED <<socket, current, wants, timer, view, signedOut>>
    BY <1>9 DEF client
  <2>2. Lines'
    BY <1>2, <2>1 DEF IInv, Lines, Live
  <2>3. Repairs'
    BY <1>6, <1>9 DEF Repairs
  <2> QED BY <1>1, <1>2, <1>3, <1>6, <1>9, <2>1, <2>2, <2>3, Present, ClientMoves
<1>10. CASE m.type = "closed" /\ Closed(s, m.value) /\ UNCHANGED <<view, asked, excuse>>
  <2>1. m.value \in Codes /\ socket[s] # "none"
    BY <1>1, <1>3, <1>10 DEF Messages
  <2>2. /\ Lines'
        /\ socket' \in [Sockets -> {"none", "connecting", "open", "closing", "closed"}]
        /\ Watches' => current # s
        /\ current' \in Sockets \cup {None}
        /\ wants' \in BOOLEAN /\ timer' \in BOOLEAN /\ signedOut' \in BOOLEAN
    BY <1>2, <1>10, <2>1, ClosedLines
  <2>3. Repairs'
    BY <1>4, <2>2 DEF Repairs
  <2> QED BY <1>1, <1>2, <1>3, <1>10, <2>2, <2>3, Present, ClientMoves
<1> QED BY <1>4, <1>5, <1>7, <1>8, <1>9, <1>10

\* The connection of s and what was on its way are gone.
LEMMA GoneInv ==
  ASSUME IInv, NEW s \in Sockets, socket[s] # "none", Closed(s, 1006),
         wire' = [wire EXCEPT ![s] = <<>>],
         UNCHANGED <<server, view, requests, loads, excuse>>, faults' \in 0..MaxFaults
  PROVE  IInv'
<1>1. UNCHANGED <<version, seated, handler, taken, queue, revoked, asked, answers>>
  BY DEF server, requests
<1>2. /\ Lines'
      /\ socket' \in [Sockets -> {"none", "connecting", "open", "closing", "closed"}]
      /\ Watches' => Watches /\ current' = current /\ current # s
      /\ current' \in Sockets \cup {None}
      /\ wants' \in BOOLEAN /\ timer' \in BOOLEAN /\ signedOut' \in BOOLEAN
  BY <1>1, ClosedLines DEF Codes
<1>3. /\ wire' \in [Sockets -> Seq(Messages)] /\ wire'[s] = <<>>
      /\ \A t \in Sockets \ {s} : wire'[t] = wire[t]
  BY Present
<1>4. /\ \A t \in Sockets : Len(wire'[t]) <= Len(wire[t])
      /\ \A t \in Sockets : \A i \in 1..Len(wire'[t]) :
           wire'[t][i].type = "snapshot" => wire'[t][i].value <= version
  BY <1>3, Present
<1>5. Watches' => (Coming(current) => Coming(current)')
  BY <1>1, <1>2, <1>3 DEF Coming, Watches, IInv, TypeOK
<1>6. Repairs'
  BY <1>1, <1>2, <1>5, WatchesKept DEF Requested, Excused
<1> QED BY <1>1, <1>2, <1>3, <1>4, <1>6, Present, ClientMoves

LEMMA BreakInv == ASSUME IInv, NEW s \in Sockets, Break(s) \/ Completed(s) PROVE IInv'
<1>1. faults' \in 0..MaxFaults /\ UNCHANGED loads
  BY Present, NumbersAssumption DEF Break, Completed, Fault, bounds
<1> QED BY <1>1, GoneInv DEF Break, Completed, Live

LEMMA ReconnectInv == ASSUME IInv, Reconnect PROVE IInv'
<1>1. /\ timer
      /\ UNCHANGED <<version, seated, taken, queue, revoked, wants, view, signedOut, requests,
                     bounds, wire, excuse>>
  BY DEF Reconnect
<1>2. UNCHANGED <<asked, answers, loads, faults>>
  BY <1>1 DEF requests, bounds
<1>3. current = None /\ ~Live(current)
  BY <1>1 DEF IInv, Lines, Live
<1>4. ASSUME NEW s \in Sockets, Opens(s) PROVE IInv'
  <2>1. /\ Lines' /\ ~Watches' /\ current' = s /\ timer' = FALSE
        /\ socket' \in [Sockets -> {"none", "connecting", "open", "closing", "closed"}]
        /\ handler' \in [Sockets -> HandlerSteps]
        /\ \A t \in Sockets : \/ handler'[t] = handler[t]
                              \/ handler[t] = "none" /\ handler'[t] = "called"
    BY <1>1, <1>3, <1>4, OpensLines
  <2>2. Repairs'
    BY <2>1 DEF Repairs
  <2>3. current' \in Sockets \cup {None} /\ timer' \in BOOLEAN
    BY <2>1
  <2> QED BY <1>1, <1>2, <2>1, <2>2, <2>3, Present, ClientMoves
<1>5. CASE ~wants /\ timer' = FALSE /\ UNCHANGED <<socket, current, handler>>
  <2>1. Lines'
    BY <1>1, <1>5 DEF IInv, Lines, Live
  <2>2. Repairs'
    BY <1>3, <1>5 DEF Repairs, Watches
  <2>3. timer' \in BOOLEAN /\ wants' \in BOOLEAN
    BY <1>1, <1>5, Present, Zenon
  <2> QED BY <1>1, <1>2, <1>5, <2>1, <2>2, <2>3, Present, ClientMoves
<1> QED BY <1>4, <1>5 DEF Reconnect

LEMMA LeaveInv == ASSUME IInv, Leave PROVE IInv'
<1>1. /\ Disconnects
      /\ UNCHANGED <<server, view, signedOut, requests, bounds, wire, excuse>>
  BY DEF Leave
<1>2. /\ UNCHANGED <<version, seated, handler, taken, queue, revoked, asked, answers>>
      /\ UNCHANGED <<loads, faults>>
  BY <1>1 DEF server, requests, bounds
<1>3. /\ Lines' /\ ~Watches' /\ current' = None
      /\ wants' \in BOOLEAN /\ timer' \in BOOLEAN
      /\ socket' \in [Sockets -> {"none", "connecting", "open", "closing", "closed"}]
  BY <1>1, <1>2, DisconnectsLines
<1>4. Repairs'
  BY <1>3 DEF Repairs
<1> QED BY <1>1, <1>2, <1>3, <1>4, Present, ClientMoves

-----------------------------------------------------------------------------
(* The theorems *)

LEMMA InitInv == Init => IInv
<1> SUFFICES ASSUME Init PROVE IInv
  OBVIOUS
<1>1. /\ wire = [s \in Sockets |-> <<>>] /\ \A s \in Sockets : Len(wire[s]) = 0
  BY DEF Init
<1>2. TypeOK
  <2>1. wire \in [Sockets -> Seq(Messages)] /\ \A s \in Sockets : Len(wire[s]) <= Wire + 2
    BY <1>1, NumbersAssumption
  <2>2. answers \in [Askers -> [0..MaxVersion -> Nat]] /\ asked \in [Askers -> Nat]
    BY NumbersAssumption DEF Init
  <2>3. /\ version \in Versions /\ view \in Versions /\ excuse \in 0..MaxVersion
        /\ loads \in 0..MaxLoads /\ faults \in 0..MaxFaults
    BY NumbersAssumption DEF Init, Versions
  <2>4. taken \in [Sockets -> 0..MaxVersion] /\ queue \in [Sockets -> 0..Buffer]
    BY NumbersAssumption DEF Init
  <2>5. /\ seated \in BOOLEAN /\ {wants, timer, signedOut} \subseteq BOOLEAN
        /\ revoked \subseteq Sockets /\ current \in Sockets \cup {None}
    BY DEF Init
  <2>6. /\ handler \in [Sockets -> HandlerSteps]
        /\ socket \in [Sockets -> {"none", "connecting", "open", "closing", "closed"}]
    BY DEF Init, HandlerSteps
  <2> QED BY <2>1, <2>2, <2>3, <2>4, <2>5, <2>6 DEF TypeOK, HandlerSteps
<1>3. Lines
  BY NamesAssumption DEF Init, Lines, Live
<1>4. Serving
  BY <1>1, NumbersAssumption DEF Init, Serving, Written
<1>5. Known
  BY <1>1, NumbersAssumption DEF Init, Known
<1>6. SnappedFresh /\ Repairs
  BY DEF Init, SnappedFresh, Repairs, Watches
<1> QED BY <1>2, <1>3, <1>4, <1>5, <1>6 DEF IInv

LEMMA StutterInv == ASSUME IInv, UNCHANGED vars PROVE IInv'
<1>1. /\ UNCHANGED <<version, seated, handler, taken, queue, revoked, asked, answers>>
      /\ UNCHANGED <<socket, current, wants, timer, view, signedOut, loads, faults, wire, excuse>>
  BY DEF vars, server, client, requests, bounds
<1>2. TypeOK' /\ Lines' /\ Serving'
  BY <1>1 DEF IInv, TypeOK, Lines, Live, Serving, Written, Registered
<1>3. Known' /\ SnappedFresh'
  BY <1>1 DEF IInv, Known, SnappedFresh
<1>4. Repairs'
  BY <1>1 DEF IInv, Repairs, Watches, Excused, Coming, Requested
<1> QED BY <1>2, <1>3, <1>4 DEF IInv

LEMMA NextInv == IInv /\ [Next]_vars => IInv'
<1> SUFFICES ASSUME IInv, [Next]_vars PROVE IInv'
  OBVIOUS
<1>1. CASE Change \/ LoseSeat \/ LeaveInHand
  BY <1>1, ActorInv
<1>2. CASE Load \/ Reconnect \/ Leave
  BY <1>2, LoadInv, ReconnectInv, LeaveInv
<1>3. ASSUME NEW s \in Sockets, Handler(s) \/ Receive(s) \/ Break(s) \/ Completed(s)
      PROVE  IInv'
  BY <1>3, HandlerInv, ReceiveInv, BreakInv
<1>4. ASSUME NEW who \in Askers, Request(who) \/ LoseAnswer(who) PROVE IInv'
  BY <1>4, AnswerInv, DeniedInv, AcceptedInv, LoseAnswerInv DEF Request
<1>5. CASE UNCHANGED vars
  BY <1>5, StutterInv
<1> QED BY <1>1, <1>2, <1>3, <1>4, <1>5 DEF Next

\* The server, the requests and the client keep their types: no connection ever holds more
\* than two messages beyond what its writer waits for.
THEOREM TypeCorrect == Spec => []TypeOK
<1>1. IInv => TypeOK
  BY DEF IInv
<1> QED BY <1>1, InitInv, NextInv, PTL DEF Spec

\* The client listens to one socket, and has a socket or a timer while it wants one, in
\* whatever order opens, closes, answers and timers come.
THEOREM AlwaysOneLine == Spec => []OneLine
<1>1. IInv => OneLine
  BY DEF IInv, Lines, OneLine
<1> QED BY <1>1, InitInv, NextInv, PTL DEF Spec

\* Once all is quiet the client shows the room as it is, unless it was denied the last
\* change, for buffers of any size.
THEOREM StaleNoLonger == Spec => []StaleUntilNextChange
<1>1. IInv => StaleUntilNextChange
  <2> SUFFICES ASSUME IInv, NothingPending, Watches, wire[current] = <<>>, queue[current] = 0, seated
               PROVE  view = version \/ excuse = version
    BY DEF StaleUntilNextChange
  <2>1. ~Requested
    BY Present DEF NothingPending, Requested
  <2>2. ~Coming(current)
    BY Present DEF Coming
  <2> QED BY <2>1, <2>2 DEF IInv, Repairs, Excused
<1> QED BY <1>1, InitInv, NextInv, PTL DEF Spec
=============================================================================
