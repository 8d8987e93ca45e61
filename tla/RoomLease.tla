----------------------------- MODULE RoomLease -----------------------------
(***************************************************************************)
(* Several server processes and one room: the lease in Redis that says who *)
(* may run it (manager.go, infra/redis_lease.go), the renewal goroutine    *)
(* that loses it, and the events and states that its actors write to       *)
(* Postgres.  A period is leaseRenew, five seconds.  Timers fire in time,  *)
(* and a call that has no answer within a period has failed; Redis and     *)
(* Postgres may fail with a call or after it, and a process may die at any *)
(* moment.                                                                 *)
(*                                                                         *)
(* Every event is a number of its own, and a state of the room is known by *)
(* the events that made it: room_states keeps one state, whichever copy it *)
(* was written from.                                                       *)
(***************************************************************************)
EXTENDS Integers

CONSTANTS
  Instances,
  Nobody,
  Races,      \* what else may happen: "load", the room is written between LoadRoomStates and
              \* Acquire; "drain", an actor that is being closed still serves what it was sent
  Ttl,        \* leaseTTL in periods
  Retries,    \* failed renewals after which the room is given up
  MaxTime, MaxEvents, MaxCrashes   \* bounds

ASSUME NumbersAssumption ==
  /\ Ttl \in Nat /\ Ttl >= 3 /\ Retries \in Nat \ {0}
  /\ MaxTime \in Nat /\ MaxEvents \in Nat /\ MaxCrashes \in Nat
ASSUME NamesAssumption == Nobody \notin Instances

VARIABLES
  faulty,   \* the stores that may fail in this behaviour, chosen once
  now,      \* in periods
  lease,    \* the key in Redis
  stored,   \* the events that made the state in room_states; none: there is no such room
  answered, \* (history) the events whose commit the server was told of, and its user after it
  process,  \* what each server does: down, restoring, serving
  actor,    \* its actor of the room: none, creating (not yet in Manager.rooms), open (there)
            \* or closing
  known,    \* the events that made the actor's, or the restoring server's, copy; none
            \* where there is no such copy
  renewal,  \* its renewal goroutine
  event, crashes  \* for the bounds

vars == <<faulty, now, lease, stored, answered, process, actor, known, renewal, event, crashes>>

Time == 0..(MaxTime + Ttl)

TypeOK ==
  /\ faulty \subseteq {"redis", "postgres"}
  /\ now \in 0..MaxTime
  /\ lease \in [by : Instances \cup {Nobody}, until : Time]
  /\ stored \subseteq 1..MaxEvents /\ answered \subseteq 1..MaxEvents
  /\ process \in [Instances -> {"down", "restoring", "serving"}]
  /\ actor \in [Instances -> {"none", "creating", "open", "closing"}]
  /\ known \in [Instances -> SUBSET (1..MaxEvents)]
  /\ renewal \in [Instances ->
       [calling : BOOLEAN, due : 0..(MaxTime + 1), failures : 0..(Retries - 1), since : 0..MaxTime]]
  /\ event \in 0..MaxEvents /\ crashes \in 0..MaxCrashes

-----------------------------------------------------------------------------
(* Redis *)

Holder == IF now < lease.until THEN lease.by ELSE Nobody

Free == [by |-> Nobody, until |-> 0]

Lost(store) == store \in faulty

\* (mutation of Acquire: SET without NX)
AcquireAnyway(i) == lease' = [by |-> i, until |-> now + Ttl]

\* SETNX with a TTL: the owner's name does not matter
Acquire(i) == Holder = Nobody /\ lease' = [by |-> i, until |-> now + Ttl]

\* the script of Release; m.releaseLease ignores its errors
Released(i) ==
  \/ lease' = (IF Holder = i THEN Free ELSE lease)
  \/ Lost("redis") /\ UNCHANGED lease

-----------------------------------------------------------------------------
(* Postgres *)

NewEvent == event < MaxEvents /\ event' = event + 1

\* Makes an event from the copy i has, and stores it with the state it makes.  saveRoomStateTx
\* overwrites room_states whatever it holds: nothing compares versions, and since migration 004
\* the only unique index of room_events is that of a user's request.
Store(i) == NewEvent /\ stored' = known[i] \cup {event'}

\* stored, and acknowledged; or stored, and i restores its checkpoint
Persist(i) ==
  /\ Store(i)
  /\ \/ /\ known' = [known EXCEPT ![i] = stored']
        /\ answered' = answered \cup {event'}
     \/ Lost("postgres") /\ UNCHANGED <<known, answered>>

-----------------------------------------------------------------------------
(* The renewal goroutine *)

Quiet == [calling |-> FALSE, due |-> 0, failures |-> 0, since |-> 0]

\* startLeaseRenewal
Renewing(i) ==
  renewal' = [renewal EXCEPT ![i] =
    [calling |-> FALSE, due |-> now + 1, failures |-> 0, since |-> now]]

Tick(i) ==
  /\ actor[i] = "open" /\ ~renewal[i].calling /\ renewal[i].due <= now
  /\ renewal' = [renewal EXCEPT ![i].calling = TRUE, ![i].due = @ + 1]
  /\ UNCHANGED <<faulty, now, lease, stored, answered, process, actor, known, event, crashes>>

Extended == [lease EXCEPT !.until = now + Ttl]

RenewalSucceeds(i) ==
  /\ actor[i] = "open" /\ renewal[i].calling /\ Holder = i
  /\ lease' = Extended
  /\ renewal' = [renewal EXCEPT ![i].calling = FALSE, ![i].failures = 0]
  /\ UNCHANGED <<faulty, now, stored, answered, process, actor, known, event, crashes>>

\* (mutation of GivesUp: one failure more)
GivesUpLate(failures) == failures > Retries

GivesUp(failures) == failures >= Retries

\* expireLostLease: the actor is closed, the key left alone
ExpireLostLease(i) ==
  /\ actor' = [actor EXCEPT ![i] = "closing"]
  /\ renewal' = [renewal EXCEPT ![i] = Quiet]

LeaseNotOwned(i) ==
  /\ actor[i] = "open" /\ renewal[i].calling /\ Holder # i
  /\ ExpireLostLease(i)
  /\ UNCHANGED <<faulty, now, lease, stored, answered, process, known, event, crashes>>

\* no answer, whether or not Redis ran the script
RenewalFails(i) ==
  /\ actor[i] = "open" /\ renewal[i].calling /\ Lost("redis")
  /\ lease' \in {lease} \cup {Extended : h \in {Holder} \cap {i}}
  /\ IF GivesUp(renewal[i].failures + 1)
     THEN ExpireLostLease(i)
     ELSE /\ renewal' = [renewal EXCEPT ![i].calling = FALSE, ![i].failures = @ + 1]
          /\ UNCHANGED actor
  /\ UNCHANGED <<faulty, now, stored, answered, process, known, event, crashes>>

-----------------------------------------------------------------------------
(* The servers *)

Halted(i) ==
  /\ process' = [process EXCEPT ![i] = "down"]
  /\ actor' = [actor EXCEPT ![i] = "none"]
  /\ known' = [known EXCEPT ![i] = {}]
  /\ renewal' = [renewal EXCEPT ![i] = Quiet]

\* LoadRoomStates, at the start of the process
LoadRoomStates(i) ==
  /\ process[i] = "down" /\ actor[i] = "none"
  /\ process' = [process EXCEPT ![i] = "restoring"]
  /\ known' = [known EXCEPT ![i] = stored]
  /\ UNCHANGED <<faulty, now, lease, stored, answered, actor, renewal, event, crashes>>

RestoreNothing(i) ==
  /\ process[i] = "restoring" /\ known[i] = {} /\ actor[i] = "none"
  /\ process' = [process EXCEPT ![i] = "serving"]
  /\ known' = [known EXCEPT ![i] = {}]
  /\ UNCHANGED <<faulty, now, lease, stored, answered, actor, renewal, event, crashes>>

Restoring(i) == process[i] = "restoring" /\ known[i] # {} /\ actor[i] = "none"

\* somebody's key is there, if only that of this server's last life: the room is skipped
SkipRoom(i) ==
  /\ Restoring(i) /\ Holder # Nobody
  /\ process' = [process EXCEPT ![i] = "serving"]
  /\ known' = [known EXCEPT ![i] = {}]
  /\ UNCHANGED <<faulty, now, lease, stored, answered, actor, renewal, event, crashes>>

\* the copy is the one loaded before
AcquireRoom(i) ==
  /\ Restoring(i) /\ ("load" \in Races \/ known[i] = stored)
  /\ Acquire(i)
  /\ actor' = [actor EXCEPT ![i] = "open"]
  /\ Renewing(i)
  /\ UNCHANGED <<faulty, now, stored, answered, process, known, event, crashes>>

\* an error of Acquire or of ResumeAfterRestart ends the process: os.Exit runs no
\* deferred Close, so the key stays
AcquireFails(i) ==
  /\ Restoring(i) /\ Lost("redis")
  /\ Acquire(i) \/ UNCHANGED lease
  /\ Halted(i)
  /\ UNCHANGED <<faulty, now, stored, answered, event, crashes>>

Resuming(i) == process[i] = "restoring" /\ actor[i] # "none"

\* whether the actor's loop still takes what it is sent: with stop and a request before it,
\* it may choose either
Serves(i) == actor[i] = "open" \/ (actor[i] = "closing" /\ "drain" \in Races)

\* the seated players are stored as disconnected
ResumeAfterRestart(i) ==
  /\ Resuming(i) /\ Serves(i)
  /\ Store(i)
  /\ \/ /\ known' = [known EXCEPT ![i] = stored']
        /\ process' = [process EXCEPT ![i] = "serving"]
        /\ UNCHANGED <<actor, renewal>>
     \/ Lost("postgres") /\ Halted(i)
  /\ UNCHANGED <<faulty, now, lease, answered, crashes>>

ResumeFails(i) ==
  /\ Resuming(i) /\ (Lost("postgres") \/ actor[i] = "closing")
  /\ Halted(i)
  /\ UNCHANGED <<faulty, now, lease, stored, answered, event, crashes>>

\* the room has a new id; if Acquire fails, there will never be a room of that id
Create(i) ==
  /\ process[i] = "serving" /\ actor[i] = "none" /\ stored = {} /\ Acquire(i)
  /\ actor' = [actor EXCEPT ![i] = "creating"]
  /\ known' = [known EXCEPT ![i] = {}]
  /\ renewal' = [renewal EXCEPT ![i] = [Quiet EXCEPT !.since = now]]
  /\ UNCHANGED <<faulty, now, stored, answered, process, event, crashes>>

\* CreateRoomAndSaveState is committed
CreateRoomAndSaveState(i) ==
  /\ actor[i] = "creating" /\ known[i] = {}
  /\ Store(i)
  /\ known' = [known EXCEPT ![i] = stored']
  /\ UNCHANGED <<faulty, now, lease, answered, process, actor, renewal, crashes>>

\* and answered before its timeout: the room is open, and its lease renewed from now on
Created(i) ==
  /\ actor[i] = "creating" /\ known[i] # {} /\ now = renewal[i].since
  /\ actor' = [actor EXCEPT ![i] = "open"]
  /\ answered' = answered \cup known[i]
  /\ Renewing(i)
  /\ UNCHANGED <<faulty, now, lease, stored, process, known, event, crashes>>

\* the transaction has failed, or i was not told of its commit: the lease is given back
CreateFails(i) ==
  /\ actor[i] = "creating" /\ Lost("postgres")
  /\ Released(i)
  /\ actor' = [actor EXCEPT ![i] = "none"]
  /\ known' = [known EXCEPT ![i] = {}]
  /\ renewal' = [renewal EXCEPT ![i] = Quiet]
  /\ UNCHANGED <<faulty, now, stored, answered, process, event, crashes>>

\* a command, a timeout or a connection; a refused one leaves no trace
WriteEvent(i) ==
  /\ process[i] = "serving" /\ Serves(i)
  /\ Persist(i)
  /\ UNCHANGED <<faulty, now, lease, process, actor, renewal, crashes>>

\* the actor's loop meets stop
ActorStops(i) ==
  /\ process[i] = "serving" /\ actor[i] = "closing"
  /\ actor' = [actor EXCEPT ![i] = "none"]
  /\ known' = [known EXCEPT ![i] = {}]
  /\ UNCHANGED <<faulty, now, lease, stored, answered, process, renewal, event, crashes>>

\* Manager.Close: the lease is released first, then the actor closed
Close(i) ==
  /\ process[i] = "serving" /\ actor[i] = "open"
  /\ Released(i)
  /\ actor' = [actor EXCEPT ![i] = "closing"]
  /\ renewal' = [renewal EXCEPT ![i] = Quiet]
  /\ UNCHANGED <<faulty, now, stored, answered, process, known, event, crashes>>

\* the process ends, in order or not
Halt(i) ==
  /\ process[i] # "down" /\ crashes < MaxCrashes
  /\ crashes' = crashes + 1
  /\ Halted(i)
  /\ UNCHANGED <<faulty, now, lease, stored, answered, event>>

-----------------------------------------------------------------------------
(* Time passes when no tick is waiting and no renewal has reached its timeout *)

\* a transaction has a period, postgresOperationTimeout, and only a failing database uses it up
InTime(i) ==
  /\ actor[i] = "open" => renewal[i].due > now
  /\ actor[i] = "creating" => renewal[i].since = now /\ Lost("postgres")

Advance ==
  /\ now < MaxTime /\ \A i \in Instances : InTime(i)
  /\ now' = now + 1
  /\ UNCHANGED <<faulty, lease, stored, answered, process, actor, known, renewal, event, crashes>>

-----------------------------------------------------------------------------

Init ==
  /\ faulty \in SUBSET {"redis", "postgres"}
  /\ now = 0 /\ lease = Free /\ stored = {} /\ answered = {}
  /\ process = [i \in Instances |-> "down"]
  /\ actor = [i \in Instances |-> "none"]
  /\ known = [i \in Instances |-> {}]
  /\ renewal = [i \in Instances |-> Quiet]
  /\ event = 0 /\ crashes = 0

Renew(i) == Tick(i) \/ RenewalSucceeds(i) \/ LeaseNotOwned(i) \/ RenewalFails(i)

Restore(i) ==
  \/ LoadRoomStates(i) \/ RestoreNothing(i) \/ SkipRoom(i) \/ AcquireRoom(i) \/ AcquireFails(i)
  \/ ResumeAfterRestart(i) \/ ResumeFails(i)

Run(i) ==
  \/ Create(i) \/ CreateRoomAndSaveState(i) \/ Created(i) \/ CreateFails(i)
  \/ WriteEvent(i) \/ ActorStops(i) \/ Close(i) \/ Halt(i)

Next == Advance \/ \E i \in Instances : Renew(i) \/ Restore(i) \/ Run(i)

Spec == Init /\ [][Next]_vars

-----------------------------------------------------------------------------
(* Properties *)

Runs(i) == actor[i] = "open"

\* While Redis answers, no two servers run the room, through restarts, shutdowns and
\* keys that expire (the purpose of the lease; three periods of TTL outlast a renewal).
OneRunner == "redis" \notin faulty => \A i, j \in Instances : Runs(i) /\ Runs(j) => i = j

\* When Redis fails, a server that cannot renew may run the room beside the next holder,
\* but for one period after that one began (three failures of startLeaseRenewal, each
\* up to a period late).
OverlapBounded ==
  \A i, j \in Instances :
    i # j /\ Runs(i) /\ Runs(j) =>
      now <= renewal[i].since + 1 \/ now <= renewal[j].since + 1

\* What a user was told of his room is in the state that is stored, and so in the room that
\* the next holder of the lease restores: no server writes the room from a copy that lacks
\* it.  Only the lease sees to that, the database compares nothing; so while Redis answers.
\* Either of Races breaks it (RoomLease_handover.cfg), and nothing else does.
AnswersStored == "redis" \notin faulty => answered \subseteq stored

\* A server that has restored runs the room of users it found, if no other process lives
\* (actor_test.go:538 "room disappeared after restart immediately following a join").
RestartFindsRoom ==
  [][\A i \in Instances :
       (/\ process[i] = "restoring" /\ known[i] \cap answered # {} /\ process'[i] = "serving"
        /\ \A j \in Instances \ {i} : process[j] = "down") => actor'[i] # "none"]_vars
=============================================================================
