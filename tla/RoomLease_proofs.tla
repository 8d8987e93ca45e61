--------------------------- MODULE RoomLease_proofs ---------------------------
(***************************************************************************)
(* For any number of servers, periods, events and crashes: while Redis     *)
(* answers one server runs the room, and what it answered its users stays  *)
(* in the stored state, unless the room was written between the load and   *)
(* the lease or by an actor being closed; when Redis does not answer, two  *)
(* servers run the room for a period at most.                              *)
(***************************************************************************)
EXTENDS RoomLease, TLAPS

-----------------------------------------------------------------------------
(* One server runs the room *)

Renewals == [calling : BOOLEAN, due : Nat, failures : Nat, since : Nat]

LeaseTyped ==
  /\ now \in Nat
  /\ lease \in [by : Instances \cup {Nobody}, until : Nat]
  /\ actor \in [Instances -> {"none", "creating", "open", "closing"}]
  /\ renewal \in [Instances -> Renewals]

\* the key of a running room outlasts the next renewal, wherever it stands
Held(i) ==
  /\ lease.by = i
  /\ now <= renewal[i].due
  /\ IF renewal[i].calling
     THEN renewal[i].due <= now + 1 /\ renewal[i].due + 1 <= lease.until
     ELSE renewal[i].due + 2 <= lease.until

LeaseInv == LeaseTyped /\ ("redis" \notin faulty => \A i \in Instances : Runs(i) => Held(i))

\* whoever creates the room has its key, set at most a period ago
Acquired(i) ==
  /\ lease.by = i /\ lease.until = renewal[i].since + Ttl
  /\ renewal[i].since <= now /\ now <= renewal[i].since + 1

CreatingInv == \A i \in Instances : actor[i] = "creating" => Acquired(i)

LEMMA CreatorHolds ==
  ASSUME LeaseTyped, CreatingInv, NEW i \in Instances, actor[i] = "creating"
  PROVE  Holder = i /\ lease.by = i
  BY NumbersAssumption DEF LeaseTyped, CreatingInv, Acquired, Holder, Renewals

LEMMA HolderRuns ==
  ASSUME LeaseInv, "redis" \notin faulty, NEW i \in Instances, Runs(i)
  PROVE  Holder = i /\ \A j \in Instances : Runs(j) => j = i
  BY DEF LeaseInv, LeaseTyped, Held, Holder, Renewals

LEMMA FreeNobodyRuns ==
  ASSUME LeaseInv, "redis" \notin faulty, Holder = Nobody
  PROVE  \A j \in Instances : ~Runs(j)
  BY HolderRuns, NamesAssumption

LEMMA LeaseInit == Init => LeaseInv
  BY DEF Init, LeaseInv, LeaseTyped, Free, Quiet, Renewals, Runs

LEMMA QuietTyped == Quiet \in Renewals
  BY DEF Quiet, Renewals

LEMMA LeaseAcquired ==
  ASSUME LeaseInv, NEW i \in Instances, lease' = [by |-> i, until |-> now + Ttl], Renewing(i),
         actor' = [actor EXCEPT ![i] = "open"], UNCHANGED <<faulty, now>>,
         "redis" \notin faulty => \A j \in Instances \ {i} : ~Runs(j)
  PROVE  LeaseInv'
<1>1. now + Ttl \in Nat /\ now + 1 \in Nat /\ now + 3 <= now + Ttl
  BY NumbersAssumption DEF LeaseInv, LeaseTyped
<1>2. LeaseTyped'
  BY <1>1 DEF LeaseInv, LeaseTyped, Renewing, Renewals
<1>3. ASSUME "redis" \notin faulty, NEW j \in Instances, Runs(j)' PROVE Held(j)'
  <2>1. j = i
    BY <1>3 DEF Runs, LeaseInv, LeaseTyped
  <2>2. lease'.by = i /\ lease'.until = now + Ttl /\ renewal'[i].due = now + 1 /\ ~renewal'[i].calling
    BY DEF Renewing, LeaseInv, LeaseTyped
  <2> QED BY <1>1, <2>1, <2>2 DEF Held, LeaseInv, LeaseTyped
<1> QED BY <1>2, <1>3 DEF LeaseInv

\* A server stops running the room, or is not running it, and touches no other's key.
LEMMA LeaseStopped ==
  ASSUME LeaseInv, NEW i \in Instances, UNCHANGED <<faulty, now>>,
         lease' \in [by : Instances \cup {Nobody}, until : Nat],
         "redis" \notin faulty => lease' = lease \/ \A j \in Instances \ {i} : ~Runs(j),
         NEW a \in {"none", "closing"}, actor' = [actor EXCEPT ![i] = a],
         renewal' = [renewal EXCEPT ![i] = Quiet]
  PROVE  LeaseInv'
<1>1. LeaseTyped'
  BY QuietTyped DEF LeaseInv, LeaseTyped
<1>2. ASSUME "redis" \notin faulty, NEW j \in Instances, Runs(j)' PROVE Held(j)'
  <2>1. j # i /\ Runs(j) /\ renewal'[j] = renewal[j]
    BY <1>2 DEF Runs, LeaseInv, LeaseTyped
  <2>2. lease' = lease /\ Held(j)
    BY <1>2, <2>1 DEF LeaseInv
  <2> QED BY <2>1, <2>2 DEF Held
<1> QED BY <1>1, <1>2 DEF LeaseInv

LEMMA LeaseUntouched ==
  ASSUME LeaseInv, UNCHANGED <<faulty, now, lease, renewal, actor>>
  PROVE  LeaseInv'
  BY DEF LeaseInv, LeaseTyped, Runs, Held

LEMMA LeaseRenew ==
  ASSUME LeaseInv, NEW i \in Instances, Renew(i)
  PROVE  LeaseInv'
<1>1. CASE Tick(i)
  <2> DEFINE r == [renewal[i] EXCEPT !.calling = TRUE, !.due = @ + 1]
  <2>1. /\ r \in Renewals /\ r.calling /\ r.due = renewal[i].due + 1
        /\ renewal' = [renewal EXCEPT ![i] = r]
        /\ ~renewal[i].calling /\ renewal[i].due <= now /\ actor[i] = "open"
        /\ UNCHANGED <<faulty, now, lease, actor>>
    BY <1>1 DEF Tick, LeaseInv, LeaseTyped, Renewals
  <2> HIDE DEF r
  <2>2. LeaseTyped'
    BY <2>1 DEF LeaseInv, LeaseTyped
  <2>3. ASSUME "redis" \notin faulty, NEW j \in Instances, Runs(j)' PROVE Held(j)'
    <3>1. Runs(j) /\ Held(j)
      BY <2>1, <2>3 DEF LeaseInv, Runs
    <3>2. CASE j = i
      BY <2>1, <3>1, <3>2 DEF Held, LeaseInv, LeaseTyped, Renewals
    <3>3. CASE j # i
      BY <2>1, <3>1, <3>3 DEF Held, LeaseInv, LeaseTyped
    <3> QED BY <3>2, <3>3
  <2> QED BY <2>1, <2>2, <2>3 DEF LeaseInv
<1>2. CASE RenewalSucceeds(i)
  <2> DEFINE r == [renewal[i] EXCEPT !.calling = FALSE, !.failures = 0]
  <2>0. now + Ttl \in Nat /\ now + 3 <= now + Ttl
    BY NumbersAssumption DEF LeaseInv, LeaseTyped
  <2>1. /\ r \in Renewals /\ ~r.calling /\ r.due = renewal[i].due
        /\ renewal' = [renewal EXCEPT ![i] = r]
        /\ renewal[i].calling /\ actor[i] = "open" /\ Holder = i
        /\ lease' \in [by : Instances \cup {Nobody}, until : Nat]
        /\ lease'.by = lease.by /\ lease'.until = now + Ttl
        /\ UNCHANGED <<faulty, now, actor>>
    BY <1>2, <2>0 DEF RenewalSucceeds, Extended, LeaseInv, LeaseTyped, Renewals
  <2> HIDE DEF r
  <2>2. LeaseTyped'
    BY <2>1 DEF LeaseInv, LeaseTyped
  <2>3. ASSUME "redis" \notin faulty, NEW j \in Instances, Runs(j)' PROVE Held(j)'
    <3>1. j = i /\ Held(i)
      BY <2>1, <2>3, HolderRuns DEF LeaseInv, Runs
    <3> QED BY <2>0, <2>1, <3>1 DEF Held, LeaseInv, LeaseTyped, Renewals
  <2> QED BY <2>1, <2>2, <2>3 DEF LeaseInv
<1>3. CASE LeaseNotOwned(i)
  BY <1>3, LeaseStopped DEF LeaseNotOwned, ExpireLostLease, LeaseInv, LeaseTyped
<1>4. CASE RenewalFails(i)
  <2>1. "redis" \in faulty /\ UNCHANGED <<faulty, now>>
    BY <1>4 DEF RenewalFails, Lost
  <2>2. lease' \in [by : Instances \cup {Nobody}, until : Nat]
    <3>1. now + Ttl \in Nat
      BY NumbersAssumption DEF LeaseInv, LeaseTyped
    <3> QED BY <1>4, <3>1 DEF RenewalFails, Extended, LeaseInv, LeaseTyped
  <2>3. actor' \in [Instances -> {"none", "creating", "open", "closing"}]
    BY <1>4 DEF RenewalFails, ExpireLostLease, LeaseInv, LeaseTyped
  <2>4. renewal' \in [Instances -> Renewals]
    <3>1. CASE ExpireLostLease(i)
      BY <3>1, QuietTyped DEF ExpireLostLease, LeaseInv, LeaseTyped
    <3>2. CASE renewal' = [renewal EXCEPT ![i].calling = FALSE, ![i].failures = @ + 1]
      BY <3>2 DEF LeaseInv, LeaseTyped, Renewals
    <3> QED BY <1>4, <3>1, <3>2 DEF RenewalFails
  <2> QED BY <2>1, <2>2, <2>3, <2>4 DEF LeaseInv, LeaseTyped
<1> QED BY <1>1, <1>2, <1>3, <1>4 DEF Renew

LEMMA LeaseHalted ==
  ASSUME LeaseInv, NEW i \in Instances, Halted(i), UNCHANGED <<faulty, now>>,
         lease' \in [by : Instances \cup {Nobody}, until : Nat],
         "redis" \notin faulty => lease' = lease
  PROVE  LeaseInv'
  BY LeaseStopped DEF Halted

LEMMA LeaseRestore ==
  ASSUME LeaseInv, NEW i \in Instances, Restore(i)
  PROVE  LeaseInv'
<1>1. CASE LoadRoomStates(i) \/ RestoreNothing(i) \/ SkipRoom(i)
  BY <1>1, LeaseUntouched DEF LoadRoomStates, RestoreNothing, SkipRoom
<1>2. CASE AcquireRoom(i)
  BY <1>2, LeaseAcquired, FreeNobodyRuns DEF AcquireRoom, Acquire
<1>3. CASE AcquireFails(i)
  <2>1. now + Ttl \in Nat
    BY NumbersAssumption DEF LeaseInv, LeaseTyped
  <2>2. "redis" \in faulty /\ lease' \in [by : Instances \cup {Nobody}, until : Nat]
    BY <1>3, <2>1 DEF AcquireFails, Lost, Acquire, LeaseInv, LeaseTyped
  <2> QED BY <1>3, <2>2, LeaseHalted DEF AcquireFails
<1>4. CASE ResumeAfterRestart(i)
  <2>1. lease' = lease /\ lease \in [by : Instances \cup {Nobody}, until : Nat] /\ UNCHANGED <<faulty, now>>
    BY <1>4 DEF ResumeAfterRestart, LeaseInv, LeaseTyped
  <2>2. CASE UNCHANGED <<actor, renewal>>
    BY <2>1, <2>2, LeaseUntouched
  <2>3. CASE Halted(i)
    BY <2>1, <2>3, LeaseHalted
  <2> QED BY <1>4, <2>2, <2>3 DEF ResumeAfterRestart
<1>5. CASE ResumeFails(i)
  BY <1>5, LeaseHalted DEF ResumeFails, LeaseInv, LeaseTyped
<1> QED BY <1>1, <1>2, <1>3, <1>4, <1>5 DEF Restore

LEMMA LeaseRun ==
  ASSUME LeaseInv, CreatingInv, NEW i \in Instances, Run(i)
  PROVE  LeaseInv'
<1>1. CASE Create(i)
  <2> DEFINE r == [Quiet EXCEPT !.since = now]
  <2>0. /\ renewal' = [renewal EXCEPT ![i] = r] /\ lease' = [by |-> i, until |-> now + Ttl]
         /\ actor' = [actor EXCEPT ![i] = "creating"] /\ now' = now
    BY <1>1 DEF Create, Acquire
  <2>1. now + Ttl \in Nat /\ r \in Renewals
    <3>1. now + Ttl \in Nat /\ now \in Nat
      BY NumbersAssumption DEF LeaseInv, LeaseTyped
    <3> QED BY <3>1, QuietTyped DEF Renewals
  <2> HIDE DEF r
  <2>2. LeaseTyped'
    BY <2>1, <2>0 DEF LeaseInv, LeaseTyped
  <2>3. "redis" \notin faulty => \A j \in Instances : ~Runs(j)
    BY <1>1, FreeNobodyRuns DEF Create, Acquire
  <2>4. \A j \in Instances : Runs(j)' => Runs(j)
    BY <1>1 DEF Create, Runs, LeaseInv, LeaseTyped
  <2> QED BY <1>1, <2>2, <2>3, <2>4 DEF Create, LeaseInv
<1>2. CASE CreateRoomAndSaveState(i)
  BY <1>2, LeaseUntouched DEF CreateRoomAndSaveState
<1>7. CASE Created(i)
  <2>1. Acquired(i) /\ Holder = i
    BY <1>7, CreatorHolds DEF Created, CreatingInv, LeaseInv
  <2>2. lease' = [by |-> i, until |-> now + Ttl]
    BY <1>7, <2>1 DEF Created, Acquired, LeaseInv, LeaseTyped
  <2>3. "redis" \notin faulty => \A j \in Instances \ {i} : ~Runs(j)
    BY <2>1, HolderRuns
  <2> QED BY <1>7, <2>2, <2>3, LeaseAcquired DEF Created
<1>8. CASE CreateFails(i)
  <2>1. lease' \in [by : Instances \cup {Nobody}, until : Nat]
    BY <1>8 DEF CreateFails, Released, Free, LeaseInv, LeaseTyped
  <2>2. Holder = i
    BY <1>8, CreatorHolds DEF CreateFails, LeaseInv
  <2>3. "redis" \notin faulty => \A j \in Instances \ {i} : ~Runs(j)
    BY <2>2, HolderRuns
  <2> QED BY <1>8, <2>1, <2>3, LeaseStopped DEF CreateFails
<1>3. CASE WriteEvent(i)
  BY <1>3, LeaseUntouched DEF WriteEvent
<1>4. CASE ActorStops(i)
  <2>1. LeaseTyped' /\ UNCHANGED <<faulty, now, lease, renewal>>
    BY <1>4 DEF ActorStops, LeaseInv, LeaseTyped
  <2>2. \A j \in Instances : Runs(j)' => Runs(j)
    BY <1>4 DEF ActorStops, Runs, LeaseInv, LeaseTyped
  <2> QED BY <2>1, <2>2 DEF LeaseInv, Held
<1>5. CASE Close(i)
  <2>1. lease' \in [by : Instances \cup {Nobody}, until : Nat]
    BY <1>5 DEF Close, Released, Free, LeaseInv, LeaseTyped
  <2>2. "redis" \notin faulty => \A j \in Instances \ {i} : ~Runs(j)
    BY <1>5, HolderRuns DEF Close, Runs
  <2> QED BY <1>5, <2>1, <2>2, LeaseStopped DEF Close
<1>6. CASE Halt(i)
  BY <1>6, LeaseHalted DEF Halt, LeaseInv, LeaseTyped
<1> QED BY <1>1, <1>2, <1>3, <1>4, <1>5, <1>6, <1>7, <1>8 DEF Run

LEMMA LeaseNext == LeaseInv /\ CreatingInv /\ [Next]_vars => LeaseInv'
<1> SUFFICES ASSUME LeaseInv, CreatingInv, [Next]_vars PROVE LeaseInv'
  OBVIOUS
<1>1. CASE Advance
  <2>1. LeaseTyped' /\ now' = now + 1 /\ UNCHANGED <<faulty, lease, actor, renewal>>
    BY <1>1 DEF Advance, LeaseInv, LeaseTyped
  <2>2. ASSUME "redis" \notin faulty, NEW j \in Instances, Runs(j)' PROVE Held(j)'
    <3>1. Runs(j) /\ Held(j) /\ now < renewal[j].due /\ renewal[j].due \in Nat /\ now \in Nat
      BY <1>1, <2>1, <2>2 DEF Advance, InTime, Runs, LeaseInv, LeaseTyped, Renewals
    <3> QED BY <2>1, <3>1 DEF Held
  <2> QED BY <2>1, <2>2 DEF LeaseInv
<1>2. CASE \E i \in Instances : Renew(i) \/ Restore(i) \/ Run(i)
  BY <1>2, LeaseRenew, LeaseRestore, LeaseRun
<1>3. CASE UNCHANGED vars
  BY <1>3, LeaseUntouched DEF vars
<1> QED BY <1>1, <1>2, <1>3 DEF Next

-----------------------------------------------------------------------------
(* The key of a room that is being created *)

LEMMA CreatingInit == Init => CreatingInv
  BY DEF Init, CreatingInv

\* Nobody but a creator, or whoever finds no key, touches the creator's key.
LEMMA CreatingKept ==
  ASSUME LeaseTyped, CreatingInv, NEW i \in Instances, now' = now,
         lease' = lease \/ Holder \in {i, Nobody},
         \A j \in Instances \ {i} :
           actor'[j] = "creating" => actor[j] = "creating" /\ renewal'[j] = renewal[j],
         actor'[i] = "creating" => Acquired(i)'
  PROVE  CreatingInv'
<1> SUFFICES ASSUME NEW j \in Instances \ {i}, actor'[j] = "creating" PROVE Acquired(j)'
  BY DEF CreatingInv
<1>1. Acquired(j) /\ renewal'[j] = renewal[j] /\ Holder = j
  BY CreatorHolds DEF CreatingInv
<1>2. lease' = lease
  BY <1>1, NamesAssumption
<1> QED BY <1>1, <1>2 DEF Acquired

LEMMA CreatingRenew ==
  ASSUME LeaseTyped, CreatingInv, NEW i \in Instances, Renew(i)
  PROVE  CreatingInv'
<1>1. now' = now /\ actor[i] = "open" /\ (lease' = lease \/ Holder = i)
  BY DEF Renew, Tick, RenewalSucceeds, LeaseNotOwned, RenewalFails
<1>2. actor' = actor \/ actor' = [actor EXCEPT ![i] = "closing"]
  BY DEF Renew, Tick, RenewalSucceeds, LeaseNotOwned, RenewalFails, ExpireLostLease
<1>3. \A j \in Instances \ {i} : renewal'[j] = renewal[j]
  BY DEF Renew, Tick, RenewalSucceeds, LeaseNotOwned, RenewalFails, ExpireLostLease, LeaseTyped
<1>4. actor'[i] # "creating" /\ \A j \in Instances \ {i} : actor'[j] = actor[j]
  BY <1>1, <1>2 DEF LeaseTyped
<1> QED BY <1>1, <1>3, <1>4, CreatingKept

LEMMA CreatingHalted ==
  ASSUME LeaseTyped, CreatingInv, NEW i \in Instances, Halted(i), now' = now,
         lease' = lease \/ Holder = Nobody
  PROVE  CreatingInv'
<1>1. /\ actor'[i] # "creating"
      /\ \A j \in Instances \ {i} : actor'[j] = actor[j] /\ renewal'[j] = renewal[j]
  BY DEF Halted, LeaseTyped
<1> QED BY <1>1, CreatingKept

LEMMA CreatingRestore ==
  ASSUME LeaseTyped, CreatingInv, NEW i \in Instances, Restore(i)
  PROVE  CreatingInv'
<1>1. CASE LoadRoomStates(i) \/ RestoreNothing(i) \/ SkipRoom(i)
  BY <1>1 DEF LoadRoomStates, RestoreNothing, SkipRoom, CreatingInv, Acquired
<1>2. CASE AcquireRoom(i)
  <2>1. /\ actor'[i] # "creating" /\ Holder = Nobody /\ now' = now
        /\ \A j \in Instances \ {i} : actor'[j] = actor[j] /\ renewal'[j] = renewal[j]
    BY <1>2 DEF AcquireRoom, Acquire, Renewing, LeaseTyped
  <2> QED BY <2>1, CreatingKept
<1>3. CASE AcquireFails(i)
  BY <1>3, CreatingHalted DEF AcquireFails, Acquire
<1>4. CASE ResumeAfterRestart(i)
  <2>1. CASE UNCHANGED <<actor, renewal>>
    BY <1>4, <2>1 DEF ResumeAfterRestart, CreatingInv, Acquired
  <2>2. CASE Halted(i)
    BY <1>4, <2>2, CreatingHalted DEF ResumeAfterRestart
  <2> QED BY <1>4, <2>1, <2>2 DEF ResumeAfterRestart
<1>5. CASE ResumeFails(i)
  BY <1>5, CreatingHalted DEF ResumeFails
<1> QED BY <1>1, <1>2, <1>3, <1>4, <1>5 DEF Restore

LEMMA CreatingRun ==
  ASSUME LeaseTyped, CreatingInv, NEW i \in Instances, Run(i)
  PROVE  CreatingInv'
<1>1. CASE Create(i)
  <2>1. /\ Holder = Nobody /\ now' = now
        /\ \A j \in Instances \ {i} : actor'[j] = actor[j] /\ renewal'[j] = renewal[j]
    BY <1>1 DEF Create, Acquire, LeaseTyped
  <2>2. /\ lease'.by = i /\ lease'.until = now + Ttl /\ renewal'[i].since = now
        /\ now \in Nat
    BY <1>1 DEF Create, Acquire, Quiet, LeaseTyped
  <2>3. Acquired(i)'
    BY <2>1, <2>2 DEF Acquired
  <2> QED BY <2>1, <2>3, CreatingKept
<1>2. CASE CreateRoomAndSaveState(i) \/ WriteEvent(i)
  BY <1>2 DEF CreateRoomAndSaveState, WriteEvent, CreatingInv, Acquired
<1>3. CASE Created(i) \/ CreateFails(i)
  <2>1. /\ actor'[i] # "creating" /\ now' = now
        /\ \A j \in Instances \ {i} : actor'[j] = actor[j] /\ renewal'[j] = renewal[j]
    BY <1>3 DEF Created, CreateFails, Renewing, LeaseTyped
  <2>2. lease' = lease \/ Holder = i
    BY <1>3 DEF Created, CreateFails, Released
  <2> QED BY <2>1, <2>2, CreatingKept
<1>4. CASE ActorStops(i)
  <2>1. \A j \in Instances : actor'[j] = "creating" => actor[j] = "creating"
    BY <1>4 DEF ActorStops, LeaseTyped
  <2> QED BY <1>4, <2>1 DEF ActorStops, CreatingInv, Acquired
<1>5. CASE Close(i)
  <2>1. /\ actor'[i] # "creating" /\ now' = now
        /\ \A j \in Instances \ {i} : actor'[j] = actor[j] /\ renewal'[j] = renewal[j]
    BY <1>5 DEF Close, LeaseTyped
  <2>2. lease' = lease \/ Holder = i
    BY <1>5 DEF Close, Released
  <2> QED BY <2>1, <2>2, CreatingKept
<1>6. CASE Halt(i)
  BY <1>6, CreatingHalted DEF Halt
<1> QED BY <1>1, <1>2, <1>3, <1>4, <1>5, <1>6 DEF Run

LEMMA CreatingNext == LeaseTyped /\ CreatingInv /\ [Next]_vars => CreatingInv'
<1> SUFFICES ASSUME LeaseTyped, CreatingInv, [Next]_vars PROVE CreatingInv'
  OBVIOUS
<1>1. CASE Advance
  <2> SUFFICES ASSUME NEW i \in Instances, actor[i] = "creating" PROVE Acquired(i)'
    BY <1>1 DEF Advance, CreatingInv
  <2>1. Acquired(i) /\ renewal[i].since = now /\ now \in Nat
    BY <1>1 DEF Advance, InTime, CreatingInv, LeaseTyped
  <2> QED BY <1>1, <2>1 DEF Advance, Acquired
<1>2. CASE \E i \in Instances : Renew(i) \/ Restore(i) \/ Run(i)
  BY <1>2, CreatingRenew, CreatingRestore, CreatingRun
<1>3. CASE UNCHANGED vars
  BY <1>3 DEF vars, CreatingInv, Acquired
<1> QED BY <1>1, <1>2, <1>3 DEF Next

KeysInv == LeaseInv /\ CreatingInv

LEMMA KeysInit == Init => KeysInv
  BY LeaseInit, CreatingInit DEF KeysInv

LEMMA KeysNext == KeysInv /\ [Next]_vars => KeysInv'
  BY LeaseNext, CreatingNext DEF KeysInv, LeaseInv

\* While Redis answers its calls, no two servers run the room at once, through any
\* number of restarts, shutdowns, expired keys and failures of the database.
THEOREM OneRunnerAlways == Spec => []OneRunner
<1>1. KeysInv => OneRunner
  BY HolderRuns DEF OneRunner, KeysInv
<1> QED BY <1>1, KeysInit, KeysNext, PTL DEF Spec

-----------------------------------------------------------------------------
(* What users were told *)

AnswersInv ==
  /\ known \in [Instances -> SUBSET Nat] /\ stored \subseteq Nat /\ event \in Nat
  /\ "redis" \notin faulty =>
       /\ answered \subseteq stored
       /\ \A i \in Instances : Runs(i) => answered \subseteq known[i]
       /\ \A i \in Instances :
            actor[i] = "creating" => answered = {} /\ known[i] \subseteq stored

LEMMA AnswersInit == Init => AnswersInv
  BY DEF Init, AnswersInv, Runs

\* Nothing is stored or answered.
LEMMA AnswersUntouched ==
  ASSUME AnswersInv, UNCHANGED <<faulty, stored, answered, event>>,
         known' \in [Instances -> SUBSET Nat],
         \A j \in Instances :
           Runs(j)' \/ actor'[j] = "creating" =>
             known'[j] = known[j] /\ actor'[j] = actor[j]
  PROVE  AnswersInv'
<1> SUFFICES ASSUME "redis" \notin faulty
             PROVE  \A j \in Instances :
                      /\ Runs(j)' => answered \subseteq known'[j]
                      /\ actor'[j] = "creating" => answered = {} /\ known'[j] \subseteq stored
  BY DEF AnswersInv
<1> SUFFICES ASSUME NEW j \in Instances, Runs(j)' \/ actor'[j] = "creating"
             PROVE  /\ Runs(j) => answered \subseteq known[j]
                    /\ actor[j] = "creating" => answered = {} /\ known[j] \subseteq stored
  BY DEF Runs
<1> QED BY DEF AnswersInv

LEMMA AnswersHalted ==
  ASSUME AnswersInv, LeaseTyped, NEW i \in Instances, Halted(i),
         UNCHANGED <<faulty, stored, answered, event>>
  PROVE  AnswersInv'
<1>1. /\ known' \in [Instances -> SUBSET Nat] /\ actor'[i] = "none"
      /\ \A j \in Instances \ {i} : known'[j] = known[j] /\ actor'[j] = actor[j]
  BY DEF Halted, LeaseTyped, AnswersInv
<1> QED BY <1>1, AnswersUntouched DEF Runs

\* Whoever runs the room, and only he while Redis answers, stores an event.
LEMMA AnswersStoring ==
  ASSUME AnswersInv, KeysInv, NEW i \in Instances, Runs(i), Store(i), faulty' = faulty,
         \/ known' = [known EXCEPT ![i] = stored'] /\ answered' \in {answered, answered \cup {event'}}
         \/ UNCHANGED <<known, answered>>
         \/ known' = [known EXCEPT ![i] = {}] /\ actor'[i] = "none" /\ answered' = answered,
         \A j \in Instances : actor'[j] \in {actor[j], "none"}
  PROVE  AnswersInv'
<1>1. event' \in Nat /\ stored' = known[i] \cup {event'} /\ stored' \subseteq Nat
  BY NumbersAssumption DEF Store, NewEvent, AnswersInv
<1>2. known' \in [Instances -> SUBSET Nat]
  BY <1>1 DEF AnswersInv
<1> SUFFICES ASSUME "redis" \notin faulty
             PROVE  /\ answered' \subseteq stored'
                    /\ \A j \in Instances :
                         /\ Runs(j)' => answered' \subseteq known'[j]
                         /\ actor'[j] # "creating"
  BY <1>1, <1>2 DEF AnswersInv
<1>3. Holder = i /\ \A j \in Instances : Runs(j) => j = i
  BY HolderRuns DEF KeysInv
<1>4. answered \subseteq known[i]
  BY DEF AnswersInv
<1>5. answered' \subseteq stored'
  BY <1>1, <1>4
<1>6. ASSUME NEW j \in Instances, Runs(j)' PROVE answered' \subseteq known'[j]
  <2>1. j = i /\ actor'[i] # "none"
    BY <1>3, <1>6 DEF Runs
  <2> QED BY <1>4, <1>5, <2>1 DEF AnswersInv
<1>7. ASSUME NEW j \in Instances PROVE actor'[j] # "creating"
  BY <1>3, CreatorHolds DEF KeysInv, LeaseInv, Runs
<1> QED BY <1>5, <1>6, <1>7

LEMMA AnswersRestore ==
  ASSUME AnswersInv, KeysInv, Races = {}, NEW i \in Instances, Restore(i)
  PROVE  AnswersInv'
<1>0. LeaseTyped
  BY DEF KeysInv, LeaseInv
<1>1. CASE LoadRoomStates(i) \/ RestoreNothing(i) \/ SkipRoom(i)
  <2>1. /\ UNCHANGED <<faulty, stored, answered, event, actor>>
        /\ known' \in [Instances -> SUBSET Nat]
        /\ \A j \in Instances \ {i} : known'[j] = known[j]
    BY <1>1 DEF LoadRoomStates, RestoreNothing, SkipRoom, AnswersInv
  <2>2. actor[i] = "none"
    BY <1>1 DEF LoadRoomStates, RestoreNothing, SkipRoom, Restoring
  <2> QED BY <2>1, <2>2, AnswersUntouched DEF Runs
<1>2. CASE AcquireRoom(i)
  <2>1. /\ known[i] = stored /\ actor' = [actor EXCEPT ![i] = "open"]
        /\ UNCHANGED <<faulty, stored, answered, event, known>>
    BY <1>2 DEF AcquireRoom
  <2>2. \A j \in Instances \ {i} : actor'[j] = actor[j]
    BY <1>0, <2>1 DEF LeaseTyped
  <2> QED BY <1>0, <2>1, <2>2 DEF AnswersInv, Runs, LeaseTyped
<1>3. CASE AcquireFails(i) \/ ResumeFails(i)
  BY <1>0, <1>3, AnswersHalted DEF AcquireFails, ResumeFails
<1>4. CASE ResumeAfterRestart(i)
  <2>1. Runs(i) /\ Store(i) /\ UNCHANGED <<faulty, answered>>
    BY <1>4 DEF ResumeAfterRestart, Serves, Runs
  <2>2. \/ known' = [known EXCEPT ![i] = stored'] /\ actor' = actor
        \/ known' = [known EXCEPT ![i] = {}] /\ actor' = [actor EXCEPT ![i] = "none"]
    BY <1>4 DEF ResumeAfterRestart, Halted
  <2>3. /\ known' = [known EXCEPT ![i] = {}] /\ actor' = [actor EXCEPT ![i] = "none"] =>
             actor'[i] = "none"
        /\ \A j \in Instances : actor'[j] \in {actor[j], "none"}
    BY <1>0, <2>2 DEF LeaseTyped
  <2> QED BY <2>1, <2>2, <2>3, AnswersStoring
<1> QED BY <1>1, <1>2, <1>3, <1>4 DEF Restore

LEMMA AnswersRun ==
  ASSUME AnswersInv, KeysInv, Races = {}, NEW i \in Instances, Run(i)
  PROVE  AnswersInv'
<1>0. LeaseTyped
  BY DEF KeysInv, LeaseInv
<1>1. CASE Create(i)
  <2>1. /\ stored = {} /\ actor[i] = "none" /\ UNCHANGED <<faulty, stored, answered, event>>
        /\ actor' = [actor EXCEPT ![i] = "creating"] /\ known' = [known EXCEPT ![i] = {}]
    BY <1>1 DEF Create
  <2>2. /\ known' \in [Instances -> SUBSET Nat] /\ known'[i] = {} /\ actor'[i] = "creating"
        /\ \A j \in Instances \ {i} : actor'[j] = actor[j] /\ known'[j] = known[j]
    BY <1>0, <2>1 DEF LeaseTyped, AnswersInv
  <2> QED BY <2>1, <2>2 DEF AnswersInv, Runs
<1>2. CASE CreateRoomAndSaveState(i)
  <2>1. /\ Holder = i /\ actor[i] = "creating" /\ known[i] = {}
        /\ \A j \in Instances : actor[j] = "creating" => j = i
    BY <1>0, <1>2, CreatorHolds DEF CreateRoomAndSaveState, KeysInv
  <2>2. /\ event' \in Nat /\ stored' = {event'} /\ known' = [known EXCEPT ![i] = stored']
        /\ UNCHANGED <<faulty, answered, actor>>
    BY <1>2, <2>1, NumbersAssumption DEF CreateRoomAndSaveState, Store, NewEvent, AnswersInv
  <2>3. /\ known' \in [Instances -> SUBSET Nat] /\ known'[i] = stored'
        /\ \A j \in Instances \ {i} : known'[j] = known[j]
    BY <2>2 DEF AnswersInv
  <2>4. "redis" \notin faulty => answered = {}
    BY <2>1 DEF AnswersInv
  <2> QED BY <2>1, <2>2, <2>3, <2>4 DEF AnswersInv, Runs
<1>3. CASE Created(i)
  <2>1. /\ Holder = i /\ actor[i] = "creating" /\ answered' = answered \cup known[i]
        /\ actor' = [actor EXCEPT ![i] = "open"] /\ UNCHANGED <<faulty, stored, known, event>>
        /\ \A j \in Instances : actor[j] = "creating" => j = i
    BY <1>0, <1>3, CreatorHolds DEF Created, KeysInv
  <2>2. actor'[i] = "open" /\ \A j \in Instances \ {i} : actor'[j] = actor[j]
    BY <1>0, <2>1 DEF LeaseTyped
  <2>3. "redis" \notin faulty => \A j \in Instances : Runs(j) => j = i
    BY <2>1, HolderRuns DEF KeysInv
  <2>4. "redis" \notin faulty => answered' = known[i] /\ known[i] \subseteq stored
    BY <2>1 DEF AnswersInv
  <2> QED BY <2>1, <2>2, <2>3, <2>4 DEF AnswersInv, Runs
<1>4. CASE CreateFails(i) \/ ActorStops(i)
  <2>1. /\ UNCHANGED <<faulty, stored, answered, event>> /\ actor'[i] = "none"
        /\ known' \in [Instances -> SUBSET Nat]
        /\ \A j \in Instances \ {i} : actor'[j] = actor[j] /\ known'[j] = known[j]
    BY <1>0, <1>4 DEF CreateFails, ActorStops, LeaseTyped, AnswersInv
  <2> QED BY <2>1, AnswersUntouched DEF Runs
<1>5. CASE WriteEvent(i)
  <2>1. Runs(i) /\ Store(i) /\ UNCHANGED <<faulty, actor>>
    BY <1>5 DEF WriteEvent, Persist, Serves, Runs
  <2>2. \/ known' = [known EXCEPT ![i] = stored'] /\ answered' = answered \cup {event'}
        \/ UNCHANGED <<known, answered>>
    BY <1>5 DEF WriteEvent, Persist
  <2> QED BY <2>1, <2>2, AnswersStoring
<1>6. CASE Close(i)
  <2>1. /\ UNCHANGED <<faulty, stored, answered, event, known>> /\ actor'[i] = "closing"
        /\ \A j \in Instances \ {i} : actor'[j] = actor[j]
    BY <1>0, <1>6 DEF Close, LeaseTyped
  <2> QED BY <2>1, AnswersUntouched DEF Runs, AnswersInv
<1>7. CASE Halt(i)
  BY <1>0, <1>7, AnswersHalted DEF Halt
<1> QED BY <1>1, <1>2, <1>3, <1>4, <1>5, <1>6, <1>7 DEF Run

LEMMA AnswersNext ==
  ASSUME Races = {}
  PROVE  AnswersInv /\ KeysInv /\ [Next]_vars => AnswersInv'
<1> SUFFICES ASSUME AnswersInv, KeysInv, [Next]_vars PROVE AnswersInv'
  OBVIOUS
<1>1. CASE Advance \/ UNCHANGED vars
  BY <1>1, AnswersUntouched DEF Advance, vars, AnswersInv
<1>2. ASSUME NEW i \in Instances, Renew(i) PROVE AnswersInv'
  <2>1. /\ UNCHANGED <<faulty, stored, answered, event, known>>
        /\ actor' = actor \/ actor' = [actor EXCEPT ![i] = "closing"]
    BY <1>2 DEF Renew, Tick, RenewalSucceeds, LeaseNotOwned, RenewalFails, ExpireLostLease
  <2>2. \A j \in Instances : actor'[j] = actor[j] \/ actor'[j] = "closing"
    BY <2>1 DEF KeysInv, LeaseInv, LeaseTyped
  <2> QED BY <2>1, <2>2, AnswersUntouched DEF Runs, AnswersInv
<1>3. ASSUME NEW i \in Instances, Restore(i) \/ Run(i) PROVE AnswersInv'
  BY <1>3, AnswersRestore, AnswersRun
<1> QED BY <1>1, <1>2, <1>3 DEF Next

\* While Redis answers, what a user was told of is never lost from the stored state,
\* through any number of restarts, shutdowns and unacknowledged commits, if the room is
\* not written between LoadRoomStates and Acquire or by an actor that is being closed.
THEOREM AnswersKept == Races = {} => (Spec => []AnswersStored)
<1> SUFFICES ASSUME Races = {} PROVE Spec => []AnswersStored
  OBVIOUS
<1>1. AnswersInv => AnswersStored
  BY DEF AnswersInv, AnswersStored
<1>2. AnswersInv /\ KeysInv /\ [Next]_vars => AnswersInv'
  BY AnswersNext
<1> QED BY <1>1, <1>2, KeysInit, KeysNext, AnswersInit, PTL DEF Spec

-----------------------------------------------------------------------------
(* When Redis fails: how long two servers can run the room                   *)

\* the renewal that the goroutine counts its failures from: the key was set or
\* extended then, or later by a call that was not answered
LastKey(i) ==
  renewal[i].due - renewal[i].failures - (IF renewal[i].calling THEN 2 ELSE 1)

\* a running server is in time with its calls, and the key it had was not free
\* before a TTL had passed
Paced(i) ==
  /\ now <= renewal[i].due
  /\ renewal[i].calling => renewal[i].due <= now + 1
  /\ renewal[i].failures < Retries
  /\ LastKey(i) + Ttl <= (IF Holder = i THEN lease.until ELSE now)

\* one of two servers began after the other's key, and it is the one with a key
InTurn(i, j) ==
  /\ LastKey(i) + Ttl <= renewal[j].since \/ LastKey(j) + Ttl <= renewal[i].since
  /\ Holder = i => LastKey(j) + Ttl <= renewal[i].since

OverlapInv ==
  /\ LeaseTyped
  /\ \A i \in Instances : Runs(i) => Paced(i)
  /\ \A i, j \in Instances : i # j /\ Runs(i) /\ Runs(j) => InTurn(i, j)

LEMMA LastKeyType ==
  ASSUME LeaseTyped, NEW i \in Instances
  PROVE  LastKey(i) \in Int
  BY DEF LeaseTyped, Renewals, LastKey

LEMMA OverlapInit == Init => OverlapInv
  BY DEF Init, OverlapInv, LeaseTyped, Free, Quiet, Renewals, Runs

\* Whoever runs the room afterwards did so before, with the same goroutine and,
\* if he had it, the same key.
LEMMA OverlapKept ==
  ASSUME OverlapInv, LeaseTyped', now' = now,
         \A k \in Instances : Runs(k)' =>
           /\ Runs(k) /\ renewal'[k] = renewal[k]
           /\ (Holder = k)' <=> Holder = k
           /\ Holder = k => lease' = lease
  PROVE  OverlapInv'
<1>1. \A k \in Instances : Runs(k)' => LastKey(k)' = LastKey(k)
  BY DEF LastKey
<1>2. ASSUME NEW k \in Instances, Runs(k)' PROVE Paced(k)'
  BY <1>1, <1>2 DEF OverlapInv, Paced
<1>3. ASSUME NEW i \in Instances, NEW j \in Instances, i # j, Runs(i)', Runs(j)'
      PROVE  InTurn(i, j)'
  BY <1>1, <1>3 DEF OverlapInv, InTurn
<1> QED BY <1>2, <1>3 DEF OverlapInv

\* Only the renewal of one server changes, and the key of another is left alone.
LEMMA OverlapRenewed ==
  ASSUME OverlapInv, NEW i \in Instances, Runs(i), LeaseTyped',
         UNCHANGED <<now, actor>>,
         NEW r, renewal' = [renewal EXCEPT ![i] = r], r.since = renewal[i].since,
         Holder' = Holder, Holder # i => lease' = lease,
         Paced(i)', Holder = i \/ LastKey(i)' = LastKey(i)
  PROVE  OverlapInv'
<1>1. /\ renewal'[i].since = renewal[i].since
      /\ \A k \in Instances \ {i} : renewal'[k] = renewal[k] /\ LastKey(k)' = LastKey(k)
      /\ \A k \in Instances : Runs(k)' <=> Runs(k)
  BY DEF OverlapInv, LeaseTyped, LastKey, Runs
<1>2. ASSUME NEW k \in Instances, Runs(k)' PROVE Paced(k)'
  <2>1. CASE k = i
    BY <2>1 DEF OverlapInv
  <2>2. CASE k # i
    BY <1>1, <1>2, <2>2 DEF OverlapInv, Paced
  <2> QED BY <2>1, <2>2
<1>3. ASSUME NEW j \in Instances, NEW k \in Instances, j # k, Runs(j)', Runs(k)'
      PROVE  InTurn(j, k)'
  <2>1. InTurn(j, k) /\ InTurn(k, j)
    BY <1>1, <1>3 DEF OverlapInv
  <2>2. CASE LastKey(i)' = LastKey(i)
    BY <1>1, <1>3, <2>1, <2>2 DEF InTurn
  <2>3. CASE Holder = i
    BY <1>1, <1>3, <2>1, <2>3 DEF InTurn
  <2> QED BY <2>2, <2>3
<1> QED BY <1>2, <1>3 DEF OverlapInv

\* A server begins when nobody else holds the key.
LEMMA OverlapBegins ==
  ASSUME OverlapInv, LeaseTyped', NEW i \in Instances, Renewing(i), now' = now,
         lease' = [by |-> i, until |-> now + Ttl], \A k \in Instances \ {i} : Holder # k,
         actor' = [actor EXCEPT ![i] = "open"]
  PROVE  OverlapInv'
<1>1. now \in Nat /\ now + 1 \in Nat /\ now + 1 - 0 - 1 = now /\ now < now + Ttl
  BY NumbersAssumption DEF OverlapInv, LeaseTyped
<1>2. /\ Holder' = i /\ lease'.until = now + Ttl
      /\ renewal'[i] = [calling |-> FALSE, due |-> now + 1, failures |-> 0, since |-> now]
  BY <1>1 DEF Renewing, Holder, OverlapInv, LeaseTyped
<1>3. LastKey(i)' = now
  BY <1>1, <1>2 DEF LastKey
<1>4. \A k \in Instances \ {i} :
        /\ renewal'[k] = renewal[k] /\ LastKey(k)' = LastKey(k)
        /\ Runs(k)' <=> Runs(k)
  BY DEF Renewing, OverlapInv, LeaseTyped, LastKey, Runs
<1>5. \A k \in Instances \ {i} : Runs(k) => Paced(k) /\ LastKey(k) + Ttl <= now
  BY DEF OverlapInv, Paced
<1>6. ASSUME NEW k \in Instances, Runs(k)' PROVE Paced(k)'
  <2>1. CASE k = i
    BY <1>1, <1>2, <1>3, <2>1, NumbersAssumption DEF Paced
  <2>2. CASE k # i
    BY <1>2, <1>4, <1>5, <1>6, <2>2 DEF Paced
  <2> QED BY <2>1, <2>2
<1>7. ASSUME NEW j \in Instances, NEW k \in Instances, j # k, Runs(j)', Runs(k)'
      PROVE  InTurn(j, k)'
  <2>1. CASE j = i
    BY <1>2, <1>4, <1>5, <1>7, <2>1 DEF InTurn
  <2>2. CASE k = i
    BY <1>2, <1>4, <1>5, <1>7, <2>2 DEF InTurn
  <2>3. CASE j # i /\ k # i
    BY <1>2, <1>4, <1>7, <2>3 DEF OverlapInv, InTurn
  <2> QED BY <2>1, <2>2, <2>3
<1> QED BY <1>6, <1>7 DEF OverlapInv

LEMMA OverlapRenew ==
  ASSUME OverlapInv, LeaseTyped', NEW i \in Instances, Renew(i)
  PROVE  OverlapInv'
<1>0. /\ renewal[i] \in Renewals /\ now \in Nat /\ lease.until \in Nat
      /\ Retries \in Nat /\ Ttl \in Nat /\ Ttl >= 3
  BY NumbersAssumption DEF OverlapInv, LeaseTyped
<1>1. CASE Tick(i)
  <2> DEFINE r == [renewal[i] EXCEPT !.calling = TRUE, !.due = @ + 1]
  <2>1. /\ r.calling /\ r.due = renewal[i].due + 1 /\ r.failures = renewal[i].failures
        /\ r.since = renewal[i].since
        /\ renewal' = [renewal EXCEPT ![i] = r] /\ renewal'[i] = r
        /\ ~renewal[i].calling /\ renewal[i].due <= now /\ Runs(i)
        /\ UNCHANGED <<now, lease, actor>>
    BY <1>1 DEF Tick, OverlapInv, LeaseTyped, Renewals, Runs
  <2> HIDE DEF r
  <2>2. LastKey(i)' = LastKey(i)
    BY <1>0, <2>1 DEF LastKey, Renewals
  <2>3. Holder' = Holder /\ Paced(i)
    BY <2>1 DEF Holder, OverlapInv
  <2>4. Paced(i)'
    BY <1>0, <2>1, <2>2, <2>3 DEF Paced, Renewals
  <2> QED BY <2>1, <2>2, <2>3, <2>4, OverlapRenewed
<1>2. CASE RenewalSucceeds(i)
  <2> DEFINE r == [renewal[i] EXCEPT !.calling = FALSE, !.failures = 0]
  <2>1. /\ ~r.calling /\ r.due = renewal[i].due /\ r.failures = 0
        /\ r.since = renewal[i].since
        /\ renewal' = [renewal EXCEPT ![i] = r] /\ renewal'[i] = r
        /\ renewal[i].calling /\ Holder = i /\ Runs(i)
        /\ UNCHANGED <<now, actor>>
    BY <1>2 DEF RenewalSucceeds, OverlapInv, LeaseTyped, Renewals, Runs
  <2> HIDE DEF r
  <2>2. lease'.until = now + Ttl /\ lease'.by = lease.by
    BY <1>2 DEF RenewalSucceeds, Extended, OverlapInv, LeaseTyped
  <2>3. Holder' = i
    <3>1. now < lease.until /\ lease.by = i
      BY <2>1, NamesAssumption DEF Holder
    <3> QED BY <1>0, <2>1, <2>2, <3>1 DEF Holder
  <2>4. LastKey(i)' = renewal[i].due - 1
    BY <1>0, <2>1 DEF LastKey, Renewals
  <2>5. Paced(i)
    BY <2>1 DEF OverlapInv
  <2>6. Paced(i)'
    BY <1>0, <2>1, <2>2, <2>3, <2>4, <2>5, NumbersAssumption DEF Paced, Renewals
  <2> QED BY <2>1, <2>3, <2>6, OverlapRenewed
<1>3. CASE LeaseNotOwned(i) \/ (RenewalFails(i) /\ ExpireLostLease(i))
  <2>1. ExpireLostLease(i) /\ now' = now
    BY <1>3 DEF LeaseNotOwned, RenewalFails
  <2>2. \A k \in Instances : Runs(k)' => k # i /\ Runs(k) /\ renewal'[k] = renewal[k]
    BY <2>1 DEF ExpireLostLease, Runs, OverlapInv, LeaseTyped
  <2>3. lease' = lease \/ (Holder = i /\ lease' = Extended)
    BY <1>3 DEF LeaseNotOwned, RenewalFails
  <2>4. \A k \in Instances \ {i} :
          ((Holder = k)' <=> Holder = k) /\ (Holder = k => lease' = lease)
    BY <2>1, <2>3, NamesAssumption DEF Holder, Extended, OverlapInv, LeaseTyped
  <2> QED BY <2>1, <2>2, <2>4, OverlapKept
<1>4. CASE RenewalFails(i) /\ ~ExpireLostLease(i)
  <2> DEFINE r == [renewal[i] EXCEPT !.calling = FALSE, !.failures = @ + 1]
  <2>1. /\ ~r.calling /\ r.due = renewal[i].due
        /\ r.failures = renewal[i].failures + 1 /\ r.failures < Retries
        /\ r.since = renewal[i].since
        /\ renewal' = [renewal EXCEPT ![i] = r] /\ renewal'[i] = r
        /\ renewal[i].calling /\ Runs(i)
        /\ UNCHANGED <<now, actor>>
    BY <1>0, <1>4 DEF RenewalFails, GivesUp, OverlapInv, LeaseTyped, Renewals, Runs
  <2> HIDE DEF r
  <2>2. lease' = lease \/ (Holder = i /\ lease' = Extended)
    BY <1>4 DEF RenewalFails
  <2>3. /\ Holder' = Holder /\ (Holder # i => lease' = lease)
        /\ lease'.until = lease.until \/ lease'.until = now + Ttl
    <3>1. CASE lease' = lease
      BY <2>1, <3>1 DEF Holder
    <3>2. CASE Holder = i /\ lease' = Extended
      <4>1. lease.by = i
        BY <3>2, NamesAssumption DEF Holder
      <4>2. lease'.by = i /\ lease'.until = now + Ttl /\ now < now + Ttl
        BY <1>0, <3>2, <4>1 DEF Extended, OverlapInv, LeaseTyped
      <4> QED BY <2>1, <3>2, <4>2 DEF Holder
    <3> QED BY <2>2, <3>1, <3>2
  <2>4. LastKey(i)' = LastKey(i) /\ LastKey(i) = renewal[i].due - renewal[i].failures - 2
    BY <1>0, <2>1 DEF LastKey, Renewals
  <2>5. Paced(i)
    BY <2>1 DEF OverlapInv
  <2>6. Paced(i)'
    <3>1. LastKey(i) + Ttl <= now + Ttl
      BY <1>0, <2>1, <2>4, <2>5 DEF Paced, Renewals
    <3>2. LastKey(i)' + Ttl <= (IF Holder' = i THEN lease'.until ELSE now')
      BY <2>1, <2>3, <2>4, <2>5, <3>1 DEF Paced
    <3> QED BY <2>1, <2>5, <3>2 DEF Paced
  <2> QED BY <2>1, <2>3, <2>4, <2>6, OverlapRenewed
<1> QED BY <1>1, <1>2, <1>3, <1>4 DEF Renew

\* A server dies, with or without its key set last.
LEMMA OverlapHalted ==
  ASSUME OverlapInv, LeaseTyped', NEW i \in Instances, Halted(i), now' = now,
         lease' = lease \/ (Acquire(i) /\ actor[i] = "none")
  PROVE  OverlapInv'
<1>1. \A k \in Instances : Runs(k)' => k # i /\ Runs(k) /\ renewal'[k] = renewal[k]
  BY DEF Halted, Runs, OverlapInv, LeaseTyped
<1>2. \A k \in Instances \ {i} :
        ((Holder = k)' <=> Holder = k) /\ (Holder = k => lease' = lease)
  BY NamesAssumption DEF Holder, Acquire, OverlapInv, LeaseTyped
<1> QED BY <1>1, <1>2, OverlapKept

LEMMA OverlapRestore ==
  ASSUME OverlapInv, LeaseTyped', NEW i \in Instances, Restore(i)
  PROVE  OverlapInv'
<1>1. CASE LoadRoomStates(i) \/ RestoreNothing(i) \/ SkipRoom(i)
  BY <1>1, OverlapKept DEF LoadRoomStates, RestoreNothing, SkipRoom, Runs, Holder
<1>2. CASE AcquireRoom(i)
  BY <1>2, OverlapBegins, NamesAssumption DEF AcquireRoom, Acquire
<1>3. CASE AcquireFails(i)
  BY <1>3, OverlapHalted DEF AcquireFails, Restoring
<1>4. CASE ResumeAfterRestart(i)
  <2>1. UNCHANGED <<now, lease>>
    BY <1>4 DEF ResumeAfterRestart
  <2>2. CASE UNCHANGED <<actor, renewal>>
    BY <2>1, <2>2, OverlapKept DEF Runs, Holder
  <2>3. CASE Halted(i)
    BY <2>1, <2>3, OverlapHalted
  <2> QED BY <1>4, <2>2, <2>3 DEF ResumeAfterRestart
<1>5. CASE ResumeFails(i)
  BY <1>5, OverlapHalted DEF ResumeFails
<1> QED BY <1>1, <1>2, <1>3, <1>4, <1>5 DEF Restore

LEMMA OverlapRun ==
  ASSUME OverlapInv, CreatingInv, LeaseTyped', NEW i \in Instances, Run(i)
  PROVE  OverlapInv'
<1>1. CASE Create(i)
  <2>1. \A k \in Instances : Runs(k)' => k # i /\ Runs(k) /\ renewal'[k] = renewal[k]
    BY <1>1 DEF Create, Runs, OverlapInv, LeaseTyped
  <2>2. \A k \in Instances \ {i} : Holder # k /\ Holder' # k
    BY <1>1, NamesAssumption DEF Create, Acquire, Holder
  <2> QED BY <1>1, <2>1, <2>2, OverlapKept DEF Create
<1>2. CASE CreateRoomAndSaveState(i) \/ WriteEvent(i)
  BY <1>2, OverlapKept DEF CreateRoomAndSaveState, WriteEvent, Runs, Holder
<1>3. CASE Created(i)
  <2>1. Acquired(i) /\ Holder = i
    BY <1>3, CreatorHolds DEF Created, CreatingInv, OverlapInv
  <2>2. lease' = [by |-> i, until |-> now + Ttl]
    BY <1>3, <2>1 DEF Created, Acquired, OverlapInv, LeaseTyped
  <2> QED BY <1>3, <2>1, <2>2, OverlapBegins DEF Created
<1>4. CASE CreateFails(i)
  <2>1. \A k \in Instances : Runs(k)' => k # i /\ Runs(k) /\ renewal'[k] = renewal[k]
    BY <1>4 DEF CreateFails, Runs, OverlapInv, LeaseTyped
  <2>2. \A k \in Instances \ {i} :
          ((Holder = k)' <=> Holder = k) /\ (Holder = k => lease' = lease)
    BY <1>4, NamesAssumption DEF CreateFails, Released, Free, Holder, OverlapInv, LeaseTyped
  <2> QED BY <1>4, <2>1, <2>2, OverlapKept DEF CreateFails
<1>5. CASE ActorStops(i)
  <2>1. \A k \in Instances : Runs(k)' => Runs(k)
    BY <1>5 DEF ActorStops, Runs, OverlapInv, LeaseTyped
  <2> QED BY <1>5, <2>1, OverlapKept DEF ActorStops, Holder
<1>6. CASE Close(i)
  <2>1. \A k \in Instances : Runs(k)' => k # i /\ Runs(k) /\ renewal'[k] = renewal[k]
    BY <1>6 DEF Close, Runs, OverlapInv, LeaseTyped
  <2>2. \A k \in Instances \ {i} :
          ((Holder = k)' <=> Holder = k) /\ (Holder = k => lease' = lease)
    BY <1>6, NamesAssumption DEF Close, Released, Free, Holder, OverlapInv, LeaseTyped
  <2> QED BY <1>6, <2>1, <2>2, OverlapKept DEF Close
<1>7. CASE Halt(i)
  BY <1>7, OverlapHalted DEF Halt
<1> QED BY <1>1, <1>2, <1>3, <1>4, <1>5, <1>6, <1>7 DEF Run

LEMMA OverlapAdvance ==
  ASSUME OverlapInv, LeaseTyped', Advance
  PROVE  OverlapInv'
<1>1. /\ now \in Nat /\ now' = now + 1 /\ lease.until \in Nat
      /\ UNCHANGED <<lease, actor, renewal>>
  BY DEF Advance, OverlapInv, LeaseTyped
<1>2. \A k \in Instances : (Runs(k)' <=> Runs(k)) /\ LastKey(k)' = LastKey(k) /\ LastKey(k) \in Int
  BY <1>1, LastKeyType DEF Runs, LastKey, OverlapInv
<1>3. \A k \in Instances : (Holder = k)' => Holder = k
  BY <1>1, NamesAssumption DEF Holder
<1>4. \A k \in Instances : Holder = k /\ ~(Holder = k)' => lease.until <= now'
  BY <1>1, NamesAssumption DEF Holder
<1>5. ASSUME NEW k \in Instances, Runs(k)' PROVE Paced(k)'
  <2>1. Paced(k) /\ now < renewal[k].due /\ renewal[k] \in Renewals
    BY <1>2, <1>5 DEF Advance, InTime, Runs, OverlapInv, LeaseTyped
  <2>2. Ttl \in Nat
    BY NumbersAssumption
  <2>3. LastKey(k) + Ttl <= (IF (Holder = k)' THEN lease.until ELSE now')
    BY <1>1, <1>2, <1>3, <1>4, <2>1, <2>2 DEF Paced
  <2> QED BY <1>1, <1>2, <2>1, <2>3 DEF Paced, Renewals
<1>6. ASSUME NEW i \in Instances, NEW j \in Instances, i # j, Runs(i)', Runs(j)'
      PROVE  InTurn(i, j)'
  BY <1>1, <1>2, <1>3, <1>6 DEF OverlapInv, InTurn
<1> QED BY <1>5, <1>6 DEF OverlapInv

LEMMA OverlapNext == OverlapInv /\ KeysInv /\ [Next]_vars => OverlapInv'
<1> SUFFICES ASSUME OverlapInv, KeysInv, [Next]_vars PROVE OverlapInv'
  OBVIOUS
<1>1. LeaseTyped' /\ CreatingInv
  BY KeysNext DEF KeysInv, LeaseInv
<1>2. CASE Advance
  BY <1>1, <1>2, OverlapAdvance
<1>3. CASE \E i \in Instances : Renew(i) \/ Restore(i) \/ Run(i)
  BY <1>1, <1>3, OverlapRenew, OverlapRestore, OverlapRun
<1>4. CASE UNCHANGED vars
  BY <1>1, <1>4, OverlapKept DEF vars, Runs, Holder
<1> QED BY <1>2, <1>3, <1>4 DEF Next

\* Whatever Redis and Postgres do, a server whose renewals are not answered gives the
\* room up at most a period after the next one began, if it gives up after as many
\* failures as the key has periods (the code has three of both).
THEOREM OverlapAlwaysBounded == Retries <= Ttl => (Spec => []OverlapBounded)
<1> SUFFICES ASSUME Retries <= Ttl PROVE Spec => []OverlapBounded
  OBVIOUS
<1>1. OverlapInv => OverlapBounded
  <2> SUFFICES ASSUME OverlapInv, NEW i \in Instances, NEW j \in Instances,
                      i # j, Runs(i), Runs(j)
               PROVE  now <= renewal[i].since + 1 \/ now <= renewal[j].since + 1
    BY DEF OverlapBounded
  <2>1. Paced(i) /\ Paced(j) /\ InTurn(i, j)
    BY DEF OverlapInv
  <2>2. /\ renewal[i] \in Renewals /\ renewal[j] \in Renewals /\ now \in Nat
        /\ Retries \in Nat /\ Ttl \in Nat
    BY NumbersAssumption DEF OverlapInv, LeaseTyped
  <2>3. now <= LastKey(i) + Retries + 1 /\ now <= LastKey(j) + Retries + 1
    BY <2>1, <2>2 DEF Paced, LastKey, Renewals
  <2>4. LastKey(i) \in Int /\ LastKey(j) \in Int
    BY LastKeyType DEF OverlapInv
  <2> QED BY <2>1, <2>2, <2>3, <2>4 DEF InTurn, Renewals
<1> QED BY <1>1, KeysInit, KeysNext, OverlapInit, OverlapNext, PTL DEF Spec
=============================================================================
