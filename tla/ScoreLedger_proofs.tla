-------------------------- MODULE ScoreLedger_proofs --------------------------
(***************************************************************************)
(* The store of account scores implements ScoreBook, for any users,        *)
(* requests, clocks and number of calls under way, and a reset wipes what  *)
(* was entered before it.  A new entry is compared with those its          *)
(* transaction read by what the transaction checks, and with the later     *)
(* ones by what the database refuses to commit.  And balances run: a sum   *)
(* over rows does not depend on their order, so the total a transaction    *)
(* computed from a snapshot is that of the rows it commits after.          *)
(***************************************************************************)
EXTENDS ScoreLedger, Points_proofs, SequenceTheorems, TLAPS

\* a sequence, of whatever: a balance is a sum, whose type is not followed here
Sequence(s) == \E T : s \in Seq(T)

CallsTyped ==
  /\ calls \in [Slots -> Mutations \cup ResetCalls \cup {Idle}]
  /\ nextId \in Nat

Snapshots ==
  \A c \in Slots : calls[c] # Idle =>
    /\ calls[c].rows <= Len(ledger) /\ calls[c].opened <= Len(epochs)
    /\ calls[c].step # "called" => calls[c].opened >= 1

Inserted(c) == calls[c] # Idle /\ calls[c].kind = "reset" /\ calls[c].step = "inserted"

\* the ids and requests that are taken, by epochs and by calls about to commit one
IdsFresh ==
  /\ \A i \in 1..Len(epochs) : epochs[i].id \in Nat /\ epochs[i].id < nextId
  /\ \A c \in Slots : Inserted(c) =>
       /\ calls[c].id < nextId
       /\ \A i \in 1..Len(epochs) :
            epochs[i].id # calls[c].id /\ epochs[i].request # calls[c].request
       /\ \A d \in Slots : Inserted(d) /\ d # c =>
            calls[d].id # calls[c].id /\ calls[d].request # calls[c].request

LedgerInv ==
  /\ Sequence(ledger) /\ Sequence(epochs) /\ Len(epochs) >= 1
  /\ \A i \in 1..Len(ledger) : ledger[i].at \in Int
  /\ TheBook!Consistent(ledger)
  /\ TheBook!Distinct(epochs)
  /\ given \subseteq {ledger[i] : i \in 1..Len(ledger)}

Inv == CallsTyped /\ Snapshots /\ IdsFresh /\ LedgerInv

-----------------------------------------------------------------------------
(* Sequences *)

LEMMA SequenceLen ==
  ASSUME NEW s, Sequence(s) PROVE Len(s) \in Nat
  BY DEF Sequence

LEMMA Appended ==
  ASSUME NEW s, Sequence(s), NEW e
  PROVE  /\ Sequence(Append(s, e))
         /\ Len(Append(s, e)) = Len(s) + 1
         /\ \A i \in 1..Len(s) : Append(s, e)[i] = s[i]
         /\ Append(s, e)[Len(s) + 1] = e
<1>1. PICK T : s \in Seq(T)
  BY DEF Sequence
<1> DEFINE U == T \cup {e}
<1>2. s \in Seq(U) /\ e \in U
  BY <1>1
<1> HIDE DEF U
<1>3. Append(s, e) \in Seq(U)
  BY <1>2
<1>4. Sequence(Append(s, e))
  BY <1>3 DEF Sequence
<1> QED BY <1>2, <1>4, AppendProperties

LEMMA Longer ==
  ASSUME NEW s, Sequence(s), NEW e
  PROVE  TheBook!Grows(s, Append(s, e)) /\ TheBook!Grows(s, s)
  BY SequenceLen, Appended DEF TheBook!Grows

-----------------------------------------------------------------------------
(* An entry differs from every row its transaction read and from every later one *)

LEMMA EntryConsistent ==
  ASSUME Inv, NEW c \in Slots, Book(c)
  PROVE  TheBook!Consistent(ledger') /\ \A i \in 1..Len(ledger') : ledger'[i].at \in Int
<1> DEFINE x == calls[c]
<1>1. x \in Mutations
  BY DEF Book, Mutates, Active, Inv, CallsTyped, Mutations, ResetCalls
<1>2. x.at \in Int /\ x.rows \in Nat
  <2>1. x.at \in Times /\ x.rows \in Nat
    BY <1>1 DEF Mutations
  <2>2. \A t \in Times : t \in Int
    BY NumbersAssumption
  <2> QED BY <2>1, <2>2
<1>3. Len(ledger) \in Nat
  BY SequenceLen DEF Inv, LedgerInv
<1>4. ledger' = Append(ledger, Entry(x))
  BY DEF Book
<1> DEFINE n == Len(ledger)
<1>5. /\ Len(ledger') = n + 1
      /\ \A i \in 1..n : ledger'[i] = ledger[i]
      /\ ledger'[n + 1] = Entry(x)
  BY <1>4, Appended DEF Inv, LedgerInv
<1>6. /\ Entry(x).kind = x.kind /\ Entry(x).user = x.user /\ Entry(x).request = x.request
      /\ Entry(x).at = x.at
  BY DEF Entry
<1>7. Booked(x, x.rows) = {} /\ ~RateLimited(x) /\ ~Conflicts(x)
  BY DEF Book
<1>8. \A i \in 1..n : ledger[i].at \in Int
  BY DEF Inv, LedgerInv
<1>9. ASSUME NEW i \in 1..n
      PROVE  /\ ~TheBook!SameRequest(ledger[i], Entry(x))
             /\ ~TheBook!TooClose(ledger[i], Entry(x))
             /\ ~TheBook!SameRequest(Entry(x), ledger[i])
             /\ ~TheBook!TooClose(Entry(x), ledger[i])
  <2>1. CASE i \in Rows(x.rows)
    <3>1. ~(ledger[i].user = x.user /\ ledger[i].request = x.request)
      BY <1>7, <2>1 DEF Booked
    <3>2. x.kind = "add" /\ ledger[i].user = x.user /\ ledger[i].kind = "add"
            => ~(x.at - ledger[i].at < Gap)
      BY <1>7, <2>1 DEF RateLimited
    <3> HIDE DEF x
    <3> QED BY <1>6, <3>1, <3>2 DEF TheBook!SameRequest, TheBook!TooClose
  <2>2. CASE i \notin Rows(x.rows)
    <3>1. i \in Rows(Len(ledger)) \ Rows(x.rows)
      BY <2>2 DEF Rows
    <3>2. ledger[i].user = x.user => /\ ~(ledger[i].kind = "add" /\ x.kind = "add")
                                     /\ ledger[i].request # x.request
      BY <1>7, <3>1 DEF Conflicts
    <3> HIDE DEF x
    <3> QED BY <1>6, <3>2 DEF TheBook!SameRequest, TheBook!TooClose
  <2> QED BY <2>1, <2>2
<1>10. TheBook!Consistent(ledger)
  BY DEF Inv, LedgerInv
<1> HIDE DEF x, n
<1>11. TheBook!Consistent(ledger')
  <2> SUFFICES ASSUME NEW i \in 1..Len(ledger'), NEW j \in 1..Len(ledger'), i # j
               PROVE  /\ ~TheBook!SameRequest(ledger'[i], ledger'[j])
                      /\ ~TheBook!TooClose(ledger'[i], ledger'[j])
    BY DEF TheBook!Consistent
  <2>1. CASE i \in 1..n /\ j \in 1..n
    BY <1>5, <1>10, <2>1 DEF TheBook!Consistent, n
  <2>2. CASE i = n + 1 /\ j \in 1..n
    BY <1>5, <1>9, <2>2
  <2>3. CASE i \in 1..n /\ j = n + 1
    BY <1>5, <1>9, <2>3
  <2> QED BY <1>3, <1>5, <2>1, <2>2, <2>3 DEF n
<1>12. \A i \in 1..Len(ledger') : ledger'[i].at \in Int
  <2> SUFFICES ASSUME NEW i \in 1..Len(ledger') PROVE ledger'[i].at \in Int
    OBVIOUS
  <2>1. CASE i \in 1..n
    BY <1>5, <1>8, <2>1
  <2>2. CASE i = n + 1
    BY <1>2, <1>5, <1>6, <2>2
  <2> QED BY <1>3, <1>5, <2>1, <2>2 DEF n
<1> QED BY <1>11, <1>12

-----------------------------------------------------------------------------
(* The calls under way *)

LEMMA LedgerLen ==
  ASSUME Inv PROVE Len(ledger) \in Nat /\ Len(epochs) \in Nat /\ Len(epochs) >= 1
  BY SequenceLen DEF Inv, LedgerInv

\* What a call that makes a step was, and what it becomes.
LEMMA CallKinds ==
  ASSUME Inv, NEW c \in Slots
  PROVE  /\ \A step : Mutates(c, step) => calls[c] \in Mutations
         /\ \A step : Active(c, step) /\ calls[c].kind = "reset" => calls[c] \in ResetCalls
         /\ Active(c, "inserted") => calls[c] \in ResetCalls /\ Inserted(c)
  BY DEF Inv, CallsTyped, Mutates, Active, Mutations, ResetCalls, Inserted

\* A call that ends, while the tables at most grow, leaves the others as they are.
LEMMA EndedKeeps ==
  ASSUME Inv, NEW c \in Slots, Ended(c), UNCHANGED nextId,
         Len(ledger') >= Len(ledger), Len(epochs') >= Len(epochs),
         Len(ledger') \in Nat, Len(epochs') \in Nat
  PROVE  CallsTyped' /\ Snapshots'
<1>1. CallsTyped'
  BY DEF Inv, CallsTyped, Ended
<1>2. Snapshots'
  <2> SUFFICES ASSUME NEW d \in Slots, calls'[d] # Idle
               PROVE  /\ calls'[d].rows <= Len(ledger') /\ calls'[d].opened <= Len(epochs')
                      /\ calls'[d].step # "called" => calls'[d].opened >= 1
    BY DEF Snapshots
  <2>1. d # c /\ calls'[d] = calls[d]
    BY DEF Ended, Inv, CallsTyped
  <2>2. calls[d].rows \in Nat /\ calls[d].opened \in Nat
    BY <2>1 DEF Inv, CallsTyped, Mutations, ResetCalls
  <2> QED BY <2>1, <2>2, LedgerLen DEF Inv, Snapshots
<1> QED BY <1>1, <1>2

\* A call that takes another step, one that inserts no epoch, on tables that stay.
LEMMA MovedKeeps ==
  ASSUME Inv, NEW c \in Slots, NEW y \in Mutations \cup ResetCalls,
         calls' = [calls EXCEPT ![c] = y], UNCHANGED <<ledger, epochs, nextId>>,
         ~(y.kind = "reset" /\ y.step = "inserted"),
         y.rows <= Len(ledger), y.opened <= Len(epochs),
         y.step # "called" => y.opened >= 1
  PROVE  CallsTyped' /\ Snapshots' /\ IdsFresh'
<1>1. CallsTyped'
  BY DEF Inv, CallsTyped
<1>2. Snapshots'
  BY DEF Inv, CallsTyped, Snapshots
<1>3. IdsFresh'
  BY DEF Inv, CallsTyped, IdsFresh, Inserted
<1> QED BY <1>1, <1>2, <1>3

LEMMA EndedFresh ==
  ASSUME Inv, NEW c \in Slots, Ended(c), UNCHANGED <<epochs, nextId>>
  PROVE  IdsFresh'
  BY DEF Inv, CallsTyped, IdsFresh, Inserted, Ended

LEMMA SameTables ==
  ASSUME Inv, UNCHANGED <<ledger, epochs>>, given' \subseteq {ledger[i] : i \in 1..Len(ledger)}
  PROVE  LedgerInv'
  BY DEF Inv, LedgerInv, TheBook!Consistent, TheBook!SameRequest, TheBook!TooClose,
         TheBook!Distinct

LEMMA GivenKept ==
  ASSUME Inv PROVE given \subseteq {ledger[i] : i \in 1..Len(ledger)}
  BY DEF Inv, LedgerInv

-----------------------------------------------------------------------------
(* Each action keeps the invariant *)

LEMMA InitInv == Init => Inv
<1> SUFFICES ASSUME Init PROVE Inv
  OBVIOUS
<1>1. ledger \in Seq({}) /\ Len(ledger) = 0
  BY DEF Init
<1>2. epochs \in Seq({[id |-> 1, request |-> System]}) /\ Len(epochs) = 1
      /\ epochs[1] = [id |-> 1, request |-> System]
  BY DEF Init
<1>3. Sequence(ledger) /\ Sequence(epochs)
  BY <1>1, <1>2 DEF Sequence
<1>6. LedgerInv
  BY <1>1, <1>2, <1>3 DEF Init, LedgerInv, TheBook!Consistent, TheBook!Distinct
<1>4. CallsTyped /\ Snapshots
  BY DEF Init, CallsTyped, Snapshots
<1>5. IdsFresh
  BY <1>2 DEF Init, IdsFresh, Inserted
<1> QED BY <1>4, <1>5, <1>6 DEF Inv

LEMMA StartInv ==
  ASSUME Inv, NEW c \in Slots, NEW y \in Mutations \cup ResetCalls, Start(c, y),
         y.step = "called", y.opened = 0, y.rows <= Len(ledger)
  PROVE  Inv'
<1>1. CallsTyped' /\ Snapshots' /\ IdsFresh'
  <2>1. /\ calls' = [calls EXCEPT ![c] = y] /\ UNCHANGED <<ledger, epochs, nextId>>
        /\ y.step # "inserted" /\ y.opened <= Len(epochs)
    BY LedgerLen DEF Start
  <2> QED BY <2>1, MovedKeeps
<1>2. LedgerInv'
  BY SameTables, GivenKept DEF Start
<1> QED BY <1>1, <1>2 DEF Inv

LEMMA RequestInv ==
  ASSUME Inv, NEW c \in Slots, Request(c)
  PROVE  Inv'
<1>1. ASSUME NEW u \in Users, NEW request \in Requests, NEW amount \in Amounts, NEW now \in Times,
             Add(c, u, request, amount, now)
      PROVE  Inv'
  <2> DEFINE y == [kind |-> "add", user |-> u, request |-> request, amount |-> amount,
                   at |-> now, step |-> "called", rows |-> 0, opened |-> 0]
  <2>1. y \in Mutations /\ y.step = "called" /\ y.opened = 0 /\ y.rows = 0
    BY NumbersAssumption DEF Mutations, Keys
  <2>2. Start(c, y)
    BY <1>1 DEF Add
  <2> HIDE DEF y
  <2> QED BY <2>1, <2>2, StartInv, LedgerLen
<1>2. ASSUME NEW session \in Sessions, NEW net \in Nets, NEW now \in Times,
             ApplySettlement(c, session, net, now)
      PROVE  Inv'
  <2> DEFINE y == [kind |-> "settle", user |-> Holder[session], request |-> session,
                   amount |-> net, at |-> now, step |-> "called", rows |-> 0, opened |-> 0]
  <2>1. y \in Mutations /\ y.step = "called" /\ y.opened = 0 /\ y.rows = 0
    BY NumbersAssumption, HolderAssumption DEF Mutations, Keys
  <2>2. Start(c, y)
    BY <1>2 DEF ApplySettlement
  <2> HIDE DEF y
  <2> QED BY <2>1, <2>2, StartInv, LedgerLen
<1>3. ASSUME NEW request \in Resets, ResetAll(c, request)
      PROVE  Inv'
  <2> DEFINE y == [kind |-> "reset", request |-> request, step |-> "called",
                   rows |-> Len(ledger), opened |-> 0, id |-> 0]
  <2>1. y \in ResetCalls /\ y.step = "called" /\ y.opened = 0 /\ y.rows = Len(ledger)
    BY LedgerLen DEF ResetCalls
  <2>2. Start(c, y)
    BY <1>3 DEF ResetAll
  <2> HIDE DEF y
  <2> QED BY <2>1, <2>2, StartInv, LedgerLen
<1> QED BY <1>1, <1>2, <1>3 DEF Request

LEMMA BeginInv ==
  ASSUME Inv, NEW c \in Slots, BeginMutation(c) \/ BeginReset(c) \/ LockAccount(c)
  PROVE  Inv'
<1>1. LedgerInv'
  BY SameTables, GivenKept DEF BeginMutation, BeginReset, LockAccount
<1>2. CASE BeginMutation(c)
  <2> DEFINE y == [calls[c] EXCEPT !.step = "begun", !.rows = Len(ledger),
                                   !.opened = Len(epochs)]
  <2>1. calls[c] \in Mutations
    BY <1>2, CallKinds DEF BeginMutation
  <2>2. y \in Mutations /\ y.step = "begun" /\ y.rows = Len(ledger) /\ y.opened = Len(epochs)
    BY <2>1, LedgerLen DEF Mutations
  <2>3. calls' = [calls EXCEPT ![c] = y]
    BY <1>2 DEF BeginMutation
  <2> HIDE DEF y
  <2>4. /\ UNCHANGED <<ledger, epochs, nextId>> /\ y.step # "inserted"
        /\ y.rows <= Len(ledger) /\ y.opened <= Len(epochs) /\ y.opened >= 1
    BY <1>2, <2>2, LedgerLen DEF BeginMutation
  <2>5. CallsTyped' /\ Snapshots' /\ IdsFresh'
    BY <2>2, <2>3, <2>4, MovedKeeps
  <2> QED BY <1>1, <2>5 DEF Inv
<1>3. CASE BeginReset(c)
  <2> DEFINE y == [calls[c] EXCEPT !.step = "begun", !.opened = Len(epochs)]
  <2>1. calls[c] \in ResetCalls /\ calls[c].rows <= Len(ledger)
    BY <1>3, CallKinds DEF BeginReset, Active, Inv, Snapshots
  <2>2. y \in ResetCalls /\ y.step = "begun" /\ y.rows <= Len(ledger) /\ y.opened = Len(epochs)
    BY <2>1, LedgerLen DEF ResetCalls
  <2>3. calls' = [calls EXCEPT ![c] = y]
    BY <1>3 DEF BeginReset
  <2> HIDE DEF y
  <2>4. /\ UNCHANGED <<ledger, epochs, nextId>> /\ y.step # "inserted"
        /\ y.rows <= Len(ledger) /\ y.opened <= Len(epochs) /\ y.opened >= 1
    BY <1>3, <2>2, LedgerLen DEF BeginReset
  <2>5. CallsTyped' /\ Snapshots' /\ IdsFresh'
    BY <2>2, <2>3, <2>4, MovedKeeps
  <2> QED BY <1>1, <2>5 DEF Inv
<1>4. CASE LockAccount(c)
  <2> DEFINE y == [calls[c] EXCEPT !.step = "locked"]
  <2>1. /\ calls[c] \in Mutations /\ calls[c].rows <= Len(ledger)
        /\ calls[c].opened <= Len(epochs) /\ calls[c].opened >= 1
    BY <1>4, CallKinds DEF LockAccount, Mutates, Active, Inv, Snapshots
  <2>2. y \in Mutations /\ y.step = "locked" /\ y.rows = calls[c].rows
        /\ y.opened = calls[c].opened /\ y.kind # "reset"
    BY <2>1 DEF Mutations
  <2>3. calls' = [calls EXCEPT ![c] = y]
    BY <1>4 DEF LockAccount
  <2> HIDE DEF y
  <2> QED BY <1>1, <1>4, <2>1, <2>2, <2>3, MovedKeeps DEF LockAccount, Inv
<1> QED BY <1>2, <1>3, <1>4

LEMMA RepeatInv ==
  ASSUME Inv, NEW c \in Slots, Repeat(c) \/ RepeatReset(c) \/ Fail(c)
  PROVE  Inv'
<1>1. CallsTyped' /\ Snapshots' /\ IdsFresh'
  BY EndedKeeps, EndedFresh, LedgerLen DEF Repeat, RepeatReset, Fail
<1>2. given' \subseteq {ledger[i] : i \in 1..Len(ledger)}
  <2>1. CASE Repeat(c)
    <3>1. calls[c].rows \in Nat /\ calls[c].rows <= Len(ledger)
      BY <2>1, CallKinds DEF Repeat, Mutates, Active, Inv, Snapshots, Mutations
    <3>2. PICK i \in Booked(calls[c], calls[c].rows) : given' = given \cup {ledger[i]}
      BY <2>1 DEF Repeat
    <3>3. i \in 1..Len(ledger)
      BY <3>1, <3>2, LedgerLen DEF Booked, Rows
    <3> QED BY <3>2, <3>3, GivenKept
  <2>2. CASE RepeatReset(c) \/ Fail(c)
    BY <2>2, GivenKept DEF RepeatReset, Fail
  <2> QED BY <2>1, <2>2
<1>3. LedgerInv'
  BY <1>2, SameTables DEF Repeat, RepeatReset, Fail
<1> QED BY <1>1, <1>3 DEF Inv

LEMMA BookInv ==
  ASSUME Inv, NEW c \in Slots, Book(c)
  PROVE  Inv'
<1> DEFINE e == Entry(calls[c])
<1>1. /\ ledger' = Append(ledger, e) /\ UNCHANGED <<epochs, nextId>> /\ Ended(c)
      /\ given' \subseteq given \cup {e}
  BY DEF Book
<1> HIDE DEF e
<1>2. /\ Sequence(ledger') /\ Len(ledger') = Len(ledger) + 1
      /\ \A i \in 1..Len(ledger) : ledger'[i] = ledger[i]
      /\ ledger'[Len(ledger) + 1] = e
  BY <1>1, Appended DEF Inv, LedgerInv
<1>3. CallsTyped' /\ Snapshots' /\ IdsFresh'
  BY <1>1, <1>2, EndedKeeps, EndedFresh, LedgerLen
<1>4. given' \subseteq {ledger'[i] : i \in 1..Len(ledger')}
  <2> SUFFICES ASSUME NEW g \in given' PROVE \E i \in 1..Len(ledger') : g = ledger'[i]
    OBVIOUS
  <2>1. CASE g = e
    BY <1>2, <2>1, LedgerLen
  <2>2. CASE g \in given
    <3>1. PICK i \in 1..Len(ledger) : g = ledger[i]
      BY <2>2, GivenKept
    <3> QED BY <3>1, <1>2, LedgerLen
  <2> QED BY <1>1, <2>1, <2>2
<1>5. LedgerInv'
  BY <1>1, <1>2, <1>4, EntryConsistent
  DEF Inv, LedgerInv, TheBook!Distinct
<1> QED BY <1>3, <1>5 DEF Inv

\* The sequence gives an id no epoch and no other call has, to a request none has.
LEMMA InsertEpochInv ==
  ASSUME Inv, NEW c \in Slots, InsertEpoch(c)
  PROVE  Inv'
<1> DEFINE y == [calls[c] EXCEPT !.step = "inserted", !.id = nextId]
<1>1. /\ calls[c] \in ResetCalls /\ calls[c].rows <= Len(ledger)
      /\ calls[c].opened <= Len(epochs) /\ calls[c].opened >= 1
  BY CallKinds DEF InsertEpoch, Active, Inv, Snapshots
<1>2. /\ y \in ResetCalls /\ y.step = "inserted" /\ y.rows = calls[c].rows /\ y.id = nextId
      /\ y.opened = calls[c].opened /\ y.kind = "reset" /\ y.request = calls[c].request
  BY <1>1 DEF ResetCalls, Inv, CallsTyped
<1>3. calls' = [calls EXCEPT ![c] = y] /\ nextId' = nextId + 1 /\ UNCHANGED <<ledger, epochs, given>>
  BY DEF InsertEpoch
<1> HIDE DEF y
<1>4. CallsTyped'
  BY <1>2, <1>3 DEF Inv, CallsTyped
<1>5. Snapshots'
  BY <1>1, <1>2, <1>3 DEF Inv, CallsTyped, Snapshots
<1>6. IdsFresh'
  <2>1. nextId \in Nat /\ \A i \in 1..Len(epochs) : epochs[i].id \in Nat /\ epochs[i].id < nextId
    BY DEF Inv, CallsTyped, IdsFresh
  <2>2. \A i \in 1..Len(epochs) : epochs[i].request # y.request
    BY <1>2 DEF InsertEpoch, OpenedBy, Rows
  <2>3. \A d \in Slots : d # c /\ Inserted(d) =>
          /\ calls[d].id < nextId /\ calls[d].id \in Nat /\ calls[d].request # y.request
          /\ \A i \in 1..Len(epochs) :
               epochs[i].id # calls[d].id /\ epochs[i].request # calls[d].request
          /\ \A f \in Slots : Inserted(f) /\ f # d =>
               calls[f].id # calls[d].id /\ calls[f].request # calls[d].request
    <3> SUFFICES ASSUME NEW d \in Slots, d # c, Inserted(d)
                 PROVE  /\ calls[d].id < nextId /\ calls[d].id \in Nat
                        /\ calls[d].request # y.request
                        /\ \A i \in 1..Len(epochs) :
                             epochs[i].id # calls[d].id /\ epochs[i].request # calls[d].request
                        /\ \A f \in Slots : Inserted(f) /\ f # d =>
                             calls[f].id # calls[d].id /\ calls[f].request # calls[d].request
      OBVIOUS
    <3>1. calls[d] \in ResetCalls /\ Active(d, "inserted")
      BY CallKinds DEF Inserted, Active
    <3>2. calls[d].id \in Nat
      BY <3>1 DEF ResetCalls
    <3>3. calls[d].request # y.request
      BY <3>1, <1>2 DEF InsertEpoch
    <3> QED BY <3>2, <3>3 DEF Inv, IdsFresh
  <2>4. /\ calls'[c] = y /\ \A d \in Slots : d # c => calls'[d] = calls[d]
        /\ \A d \in Slots : d # c => (Inserted(d)' <=> Inserted(d))
    BY <1>3 DEF Inv, CallsTyped, Inserted
  <2> QED BY <1>2, <1>3, <2>1, <2>2, <2>3, <2>4 DEF IdsFresh
<1>7. LedgerInv'
  BY <1>3, SameTables, GivenKept
<1> QED BY <1>4, <1>5, <1>6, <1>7 DEF Inv

LEMMA CommitResetInv ==
  ASSUME Inv, NEW c \in Slots, CommitReset(c)
  PROVE  Inv'
<1> DEFINE e == [id |-> calls[c].id, request |-> calls[c].request]
           n == Len(epochs)
<1>1. calls[c] \in ResetCalls /\ Inserted(c)
  BY CallKinds DEF CommitReset
<1>2. e.id \in Nat /\ e.id = calls[c].id /\ e.request = calls[c].request
  BY <1>1 DEF ResetCalls
<1>3. /\ epochs' = Append(epochs, e) /\ UNCHANGED <<ledger, nextId, given>> /\ Ended(c)
  BY DEF CommitReset
<1> HIDE DEF e
<1>4. /\ Sequence(epochs') /\ Len(epochs') = n + 1 /\ n \in Nat /\ n >= 1
      /\ \A i \in 1..n : epochs'[i] = epochs[i]
      /\ epochs'[n + 1] = e
  BY <1>3, Appended, LedgerLen DEF Inv, LedgerInv
<1>5. CallsTyped' /\ Snapshots'
  BY <1>3, <1>4, EndedKeeps, LedgerLen
<1>6. \A i \in 1..Len(epochs') : i \in 1..n \/ i = n + 1
  BY <1>4
<1>7. /\ e.id < nextId
      /\ \A i \in 1..n : epochs[i].id # e.id /\ epochs[i].request # e.request
      /\ \A d \in Slots : Inserted(d) /\ d # c => calls[d].id # e.id /\ calls[d].request # e.request
  BY <1>1, <1>2 DEF Inv, IdsFresh
<1>8. \A d \in Slots : Inserted(d)' => d # c /\ Inserted(d) /\ calls'[d] = calls[d]
  BY <1>3 DEF Ended, Inv, CallsTyped, Inserted
<1>9. IdsFresh'
  <2>1. \A i \in 1..Len(epochs') : epochs'[i].id \in Nat /\ epochs'[i].id < nextId'
    BY <1>2, <1>3, <1>4, <1>6, <1>7 DEF Inv, IdsFresh
  <2>2. ASSUME NEW d \in Slots, Inserted(d)'
        PROVE  /\ calls'[d].id < nextId'
               /\ \A i \in 1..Len(epochs') :
                    epochs'[i].id # calls'[d].id /\ epochs'[i].request # calls'[d].request
               /\ \A f \in Slots : Inserted(f)' /\ f # d =>
                    calls'[f].id # calls'[d].id /\ calls'[f].request # calls'[d].request
    BY <2>2, <1>3, <1>4, <1>6, <1>7, <1>8 DEF Inv, IdsFresh
  <2> QED BY <2>1, <2>2 DEF IdsFresh
<1>10. TheBook!Distinct(epochs')
  <2> SUFFICES ASSUME NEW i \in 1..Len(epochs'), NEW j \in 1..Len(epochs'), i # j
               PROVE  epochs'[i].id # epochs'[j].id /\ epochs'[i].request # epochs'[j].request
    BY DEF TheBook!Distinct
  <2>1. CASE i \in 1..n /\ j \in 1..n
    BY <1>4, <2>1 DEF Inv, LedgerInv, TheBook!Distinct
  <2>2. CASE i = n + 1 /\ j \in 1..n
    BY <1>4, <1>7, <2>2
  <2>3. CASE i \in 1..n /\ j = n + 1
    BY <1>4, <1>7, <2>3
  <2> QED BY <1>6, <2>1, <2>2, <2>3
<1>11. LedgerInv'
  BY <1>3, <1>4, <1>10 DEF Inv, LedgerInv, TheBook!Consistent, TheBook!SameRequest,
     TheBook!TooClose
<1> QED BY <1>5, <1>9, <1>11 DEF Inv

LEMMA StutterInv ==
  ASSUME Inv, UNCHANGED vars PROVE Inv'
<1>1. CallsTyped' /\ Snapshots' /\ IdsFresh'
  BY DEF vars, Inv, CallsTyped, Snapshots, IdsFresh, Inserted
<1>2. LedgerInv'
  BY SameTables, GivenKept DEF vars
<1> QED BY <1>1, <1>2 DEF Inv

LEMMA NextInv ==
  ASSUME Inv, [Next]_vars PROVE Inv'
<1>1. CASE \E c \in Slots : Request(c)
  BY <1>1, RequestInv
<1>2. CASE \E c \in Slots : Transaction(c) \/ Fail(c)
  BY <1>2, BeginInv, RepeatInv, BookInv, InsertEpochInv, CommitResetInv DEF Transaction
<1>3. CASE UNCHANGED vars
  BY <1>3, StutterInv
<1> QED BY <1>1, <1>2, <1>3 DEF Next

LEMMA Invariant == Spec => []Inv
  BY InitInv, NextInv, PTL DEF Spec

-----------------------------------------------------------------------------
(* Refinement *)

LEMMA TablesGrow ==
  ASSUME Inv, [Next]_vars
  PROVE  /\ TheBook!Grows(ledger, ledger') /\ TheBook!Grows(epochs, epochs')
         /\ given \subseteq given'
<1>1. Sequence(ledger) /\ Sequence(epochs)
  BY DEF Inv, LedgerInv
<1>2. ASSUME UNCHANGED <<ledger, epochs>>, given \subseteq given'
      PROVE  TheBook!Grows(ledger, ledger') /\ TheBook!Grows(epochs, epochs')
  BY <1>1, <1>2, Longer
<1>3. ASSUME NEW c \in Slots, Request(c) PROVE UNCHANGED <<ledger, epochs, given>>
  BY <1>3 DEF Request, Add, ApplySettlement, ResetAll, Start
<1>4. ASSUME NEW c \in Slots, Fail(c) \/ BeginMutation(c) \/ LockAccount(c) \/ BeginReset(c)
                               \/ RepeatReset(c) \/ InsertEpoch(c)
      PROVE  UNCHANGED <<ledger, epochs, given>>
  BY <1>4 DEF Fail, BeginMutation, LockAccount, BeginReset, RepeatReset, InsertEpoch
<1>5. ASSUME NEW c \in Slots, Repeat(c)
      PROVE  UNCHANGED <<ledger, epochs>> /\ given \subseteq given'
  BY <1>5 DEF Repeat
<1>6. ASSUME NEW c \in Slots, Book(c)
      PROVE  /\ TheBook!Grows(ledger, ledger') /\ TheBook!Grows(epochs, epochs')
             /\ given \subseteq given'
  BY <1>1, <1>6, Longer DEF Book
<1>7. ASSUME NEW c \in Slots, CommitReset(c)
      PROVE  /\ TheBook!Grows(ledger, ledger') /\ TheBook!Grows(epochs, epochs')
             /\ given \subseteq given'
  BY <1>1, <1>7, Longer DEF CommitReset
<1>8. CASE UNCHANGED vars
  BY <1>8, <1>2 DEF vars
<1> QED BY <1>2, <1>3, <1>4, <1>5, <1>6, <1>7, <1>8 DEF Next, Transaction

LEMMA StepKeepsBook ==
  ASSUME Inv, Inv', [Next]_vars
  PROVE  [TheBook!Next]_(TheBook!vars)
<1>1. /\ TheBook!Consistent(ledger') /\ TheBook!Distinct(epochs')
      /\ given' \subseteq {ledger'[i] : i \in 1..Len(ledger')}
  BY DEF Inv, LedgerInv
<1> QED BY <1>1, TablesGrow DEF TheBook!Next

LEMMA InitKeepsBook == Init => TheBook!Init
  BY DEF Init, TheBook!Init

\* The Postgres store implements ScoreBook: no interleaving of calls, on any servers,
\* with any failures, unacknowledged commits and repeated requests, enters a request
\* twice, answers with anything but the entry made, or lets two additions come too close.
THEOREM StoreKeepsBook == Spec => KeepsBook
<1>1. Spec => TheBook!Init
  BY InitKeepsBook DEF Spec
<1>2. Spec => [][TheBook!Next]_(TheBook!vars)
  BY Invariant, StepKeepsBook, PTL DEF Spec
<1> QED BY <1>1, <1>2, PTL DEF KeepsBook, TheBook!Spec

-----------------------------------------------------------------------------
(* Resets: the id of an epoch is above every epoch that was committed when it was taken *)

NewestExists ==
  \A n \in 1..Len(epochs) : \E k \in 1..n : \A i \in 1..n : epochs[i].id <= epochs[k].id

Older(n, id) == \A i \in 1..n : ledger[i].epoch < id

Told(told) ==
  /\ told.rows \in Nat /\ told.rows <= Len(ledger)
  /\ \E i \in 1..Len(epochs) : epochs[i].id = told.id
  /\ Older(told.rows, told.id)

WipeInv ==
  /\ NewestExists
  /\ \A i \in 1..Len(ledger) : ledger[i].epoch \in Nat /\ ledger[i].epoch < nextId
  /\ \A c \in Slots : Inserted(c) => Older(calls[c].rows, calls[c].id)
  /\ \A told \in resets : Told(told)

\* CHOOSE finds what it looks for: there is a newest epoch.
LEMMA CurrentNewest ==
  ASSUME NewestExists, NEW n \in 1..Len(epochs)
  PROVE  /\ \E k \in 1..n : Current(n) = epochs[k].id
         /\ \A i \in 1..n : epochs[i].id <= Current(n)
<1>1. PICK k \in 1..n : \A i \in 1..n : epochs[i].id <= epochs[k].id
  BY DEF NewestExists
<1>2. \E id \in {epochs[i].id : i \in Rows(n)} : \A i \in Rows(n) : epochs[i].id <= id
  BY <1>1 DEF Rows
<1>3. /\ Current(n) \in {epochs[i].id : i \in Rows(n)}
      /\ \A i \in Rows(n) : epochs[i].id <= Current(n)
  BY <1>2 DEF Current
<1> QED BY <1>3 DEF Rows

\* Only InsertEpoch brings a call to where it holds an id.
LEMMA NothingInserted ==
  ASSUME Inv, NEW c \in Slots,
         Request(c) \/ Fail(c) \/ BeginMutation(c) \/ LockAccount(c) \/ Repeat(c) \/ Book(c)
           \/ BeginReset(c) \/ RepeatReset(c) \/ CommitReset(c)
  PROVE  \A d \in Slots : Inserted(d)' => d # c /\ Inserted(d) /\ calls'[d] = calls[d]
<1>1. ASSUME NEW y, calls' = [calls EXCEPT ![c] = y], y = Idle \/ y.step # "inserted"
      PROVE  \A d \in Slots : Inserted(d)' => d # c /\ Inserted(d) /\ calls'[d] = calls[d]
  BY <1>1 DEF Inv, CallsTyped, Inserted
<1>2. CASE Request(c)
  BY <1>2, <1>1 DEF Request, Add, ApplySettlement, ResetAll, Start
<1>3. CASE Fail(c) \/ Repeat(c) \/ Book(c) \/ RepeatReset(c) \/ CommitReset(c)
  BY <1>3, <1>1 DEF Fail, Repeat, Book, RepeatReset, CommitReset, Ended
<1>4. CASE BeginMutation(c)
  <2> DEFINE y == [calls[c] EXCEPT !.step = "begun", !.rows = Len(ledger),
                                   !.opened = Len(epochs)]
  <2>1. y.step = "begun"
    BY <1>4, CallKinds DEF BeginMutation, Mutations
  <2>2. calls' = [calls EXCEPT ![c] = y]
    BY <1>4 DEF BeginMutation
  <2> HIDE DEF y
  <2> QED BY <2>1, <2>2, <1>1
<1>5. CASE LockAccount(c)
  <2> DEFINE y == [calls[c] EXCEPT !.step = "locked"]
  <2>1. y.step = "locked"
    BY <1>5, CallKinds DEF LockAccount, Mutations
  <2>2. calls' = [calls EXCEPT ![c] = y]
    BY <1>5 DEF LockAccount
  <2> HIDE DEF y
  <2> QED BY <2>1, <2>2, <1>1
<1>6. CASE BeginReset(c)
  <2> DEFINE y == [calls[c] EXCEPT !.step = "begun", !.opened = Len(epochs)]
  <2>1. y.step = "begun"
    BY <1>6, CallKinds DEF BeginReset, ResetCalls
  <2>2. calls' = [calls EXCEPT ![c] = y]
    BY <1>6 DEF BeginReset
  <2> HIDE DEF y
  <2> QED BY <2>1, <2>2, <1>1
<1> QED BY <1>2, <1>3, <1>4, <1>5, <1>6

LEMMA InitWipe == Init => WipeInv
<1> SUFFICES ASSUME Init PROVE WipeInv
  OBVIOUS
<1>1. Len(ledger) = 0 /\ Len(epochs) = 1 /\ epochs[1].id = 1
  BY DEF Init
<1>2. NewestExists
  BY <1>1 DEF NewestExists
<1> QED BY <1>1, <1>2 DEF Init, WipeInv, Inserted

\* A step of a call that inserts, commits and answers no epoch, and enters nothing.
LEMMA QuietWipe ==
  ASSUME WipeInv, UNCHANGED <<ledger, epochs, nextId, resets>>,
         \A d \in Slots : Inserted(d)' => Inserted(d) /\ calls'[d] = calls[d]
  PROVE  WipeInv'
<1>1. NewestExists'
  BY DEF WipeInv, NewestExists
<1>2. \A n, id : Older(n, id) => Older(n, id)'
  BY DEF Older
<1>3. \A told : Told(told) => Told(told)'
  BY <1>2 DEF Told
<1> QED BY <1>1, <1>2, <1>3 DEF WipeInv

\* A new entry belongs to an epoch its transaction read, so to one with an earlier id.
LEMMA BookWipe ==
  ASSUME Inv, WipeInv, NEW c \in Slots, Book(c)
  PROVE  WipeInv'
<1> DEFINE e == Entry(calls[c])
           n == Len(ledger)
<1>1. /\ ledger' = Append(ledger, e) /\ UNCHANGED <<epochs, nextId, resets>>
      /\ calls[c] \in Mutations /\ calls[c] # Idle /\ calls[c].step = "locked"
  BY CallKinds DEF Book, Mutates, Active
<1>2. calls[c].opened \in 1..Len(epochs)
  BY <1>1, LedgerLen DEF Inv, Snapshots, Mutations
<1>3. e.epoch = Current(calls[c].opened)
  BY DEF Entry
<1> HIDE DEF e
<1>4. e.epoch \in Nat /\ e.epoch < nextId
  <2>1. PICK k \in 1..calls[c].opened : Current(calls[c].opened) = epochs[k].id
    BY <1>2, CurrentNewest DEF WipeInv
  <2>2. k \in 1..Len(epochs)
    BY <1>2, LedgerLen
  <2> QED BY <1>3, <2>1, <2>2 DEF Inv, IdsFresh
<1>5. /\ n \in Nat /\ Len(ledger') = n + 1 /\ ledger'[n + 1] = e
      /\ \A i \in 1..n : ledger'[i] = ledger[i]
  BY <1>1, Appended, LedgerLen DEF Inv, LedgerInv
<1>6. \A m \in Nat : \A id : m <= n /\ Older(m, id) => Older(m, id)'
  <2> SUFFICES ASSUME NEW m \in Nat, NEW id, m <= n, Older(m, id), NEW i \in 1..m
               PROVE  ledger'[i].epoch < id
    BY DEF Older
  <2>1. i \in 1..n
    BY <1>5
  <2> QED BY <1>5, <2>1 DEF Older
<1>7. \A d \in Slots : Inserted(d)' => Older(calls[d].rows, calls[d].id)' /\ calls'[d] = calls[d]
  <2> SUFFICES ASSUME NEW d \in Slots, Inserted(d)'
               PROVE  Older(calls[d].rows, calls[d].id)' /\ calls'[d] = calls[d]
    OBVIOUS
  <2>1. Inserted(d) /\ calls'[d] = calls[d]
    BY NothingInserted
  <2>2. calls[d].rows \in Nat /\ calls[d].rows <= n
    BY <2>1, CallKinds DEF Inserted, Active, ResetCalls, Inv, Snapshots
  <2>3. Older(calls[d].rows, calls[d].id)
    BY <2>1 DEF WipeInv
  <2> QED BY <1>6, <2>1, <2>2, <2>3
<1>8. \A told \in resets : Told(told)'
  BY <1>1, <1>5, <1>6 DEF WipeInv, Told
<1>9. NewestExists'
  BY <1>1 DEF WipeInv, NewestExists
<1>10. \A i \in 1..Len(ledger') : ledger'[i].epoch \in Nat /\ ledger'[i].epoch < nextId'
  BY <1>1, <1>4, <1>5 DEF WipeInv
<1> QED BY <1>1, <1>7, <1>8, <1>9, <1>10 DEF WipeInv

LEMMA RepeatResetWipe ==
  ASSUME Inv, WipeInv, NEW c \in Slots, RepeatReset(c)
  PROVE  WipeInv'
<1>1. PICK k \in OpenedBy(calls[c].request, calls[c].opened) :
        resets' = resets \cup {[id |-> epochs[k].id, rows |-> 0]}
  BY DEF RepeatReset
<1>2. calls[c].opened \in Nat /\ calls[c].opened <= Len(epochs)
  BY CallKinds DEF RepeatReset, Active, ResetCalls, Inv, Snapshots
<1>3. k \in 1..Len(epochs)
  BY <1>1, <1>2, LedgerLen DEF OpenedBy, Rows
<1>4. UNCHANGED <<ledger, epochs, nextId>>
  BY DEF RepeatReset
<1>5. \A n, id : Older(n, id) => Older(n, id)'
  BY <1>4 DEF Older
<1>6. \A told \in resets' : Told(told)'
  <2>1. \A told \in {[id |-> epochs[k].id, rows |-> 0]} : Told(told)'
    BY <1>3, <1>4, LedgerLen DEF Told, Older
  <2>2. \A told \in resets : Told(told)'
    BY <1>4, <1>5 DEF WipeInv, Told
  <2> QED BY <1>1, <2>1, <2>2
<1>7. \A d \in Slots : Inserted(d)' => Inserted(d) /\ calls'[d] = calls[d]
  BY NothingInserted
<1>8. NewestExists'
  BY <1>4 DEF WipeInv, NewestExists
<1> QED BY <1>4, <1>5, <1>6, <1>7, <1>8 DEF WipeInv

\* The id is above those of all entries there are, and there were no more at the call.
LEMMA InsertEpochWipe ==
  ASSUME Inv, WipeInv, NEW c \in Slots, InsertEpoch(c)
  PROVE  WipeInv'
<1> DEFINE y == [calls[c] EXCEPT !.step = "inserted", !.id = nextId]
<1>1. /\ calls[c] \in ResetCalls /\ calls[c].rows \in Nat /\ calls[c].rows <= Len(ledger)
  BY CallKinds DEF InsertEpoch, Active, Inv, Snapshots, ResetCalls
<1>2. y.rows = calls[c].rows /\ y.id = nextId
  BY <1>1 DEF ResetCalls
<1>3. /\ calls' = [calls EXCEPT ![c] = y] /\ nextId' = nextId + 1
      /\ UNCHANGED <<ledger, epochs, resets>>
  BY DEF InsertEpoch
<1> HIDE DEF y
<1>4. \A n, id : Older(n, id) => Older(n, id)'
  BY <1>3 DEF Older
<1>5. Older(y.rows, y.id)
  BY <1>1, <1>2, LedgerLen DEF Older, WipeInv
<1>6. ASSUME NEW d \in Slots, Inserted(d)'
      PROVE  Older(calls[d].rows, calls[d].id)'
  <2>1. CASE d = c
    <3>1. calls'[d] = y
      BY <1>3, <2>1 DEF Inv, CallsTyped
    <3> QED BY <1>3, <1>5, <3>1 DEF Older
  <2>2. CASE d # c
    <3>1. calls'[d] = calls[d]
      BY <1>3, <2>2 DEF Inv, CallsTyped
    <3>2. Older(calls[d].rows, calls[d].id)
      BY <1>6, <3>1 DEF WipeInv, Inserted
    <3> QED BY <1>3, <3>1, <3>2 DEF Older
  <2> QED BY <2>1, <2>2
<1>7. \A told \in resets' : Told(told)'
  BY <1>3, <1>4 DEF WipeInv, Told
<1>8. \A i \in 1..Len(ledger') : ledger'[i].epoch \in Nat /\ ledger'[i].epoch < nextId'
  BY <1>3 DEF WipeInv, Inv, CallsTyped
<1>9. NewestExists'
  BY <1>3 DEF WipeInv, NewestExists
<1> QED BY <1>6, <1>7, <1>8, <1>9 DEF WipeInv

LEMMA CommitResetWipe ==
  ASSUME Inv, WipeInv, NEW c \in Slots, CommitReset(c)
  PROVE  WipeInv'
<1> DEFINE e == [id |-> calls[c].id, request |-> calls[c].request]
           told == [id |-> calls[c].id, rows |-> calls[c].rows]
           n == Len(epochs)
<1>1. /\ calls[c] \in ResetCalls /\ Inserted(c) /\ calls[c].rows \in Nat
      /\ calls[c].rows <= Len(ledger) /\ calls[c].id \in Nat
  BY CallKinds DEF CommitReset, Active, Inv, Snapshots, ResetCalls
<1>2. /\ epochs' = Append(epochs, e) /\ UNCHANGED <<ledger, nextId>>
      /\ resets' \subseteq resets \cup {told}
  BY DEF CommitReset
<1>3. e.id = calls[c].id /\ told.id = calls[c].id /\ told.rows = calls[c].rows
  OBVIOUS
<1> HIDE DEF e, told
<1>4. /\ n \in Nat /\ n >= 1 /\ Len(epochs') = n + 1 /\ epochs'[n + 1] = e
      /\ \A i \in 1..n : epochs'[i] = epochs[i]
  BY <1>2, Appended, LedgerLen DEF Inv, LedgerInv
<1>5. \A m, id : Older(m, id) => Older(m, id)'
  BY <1>2 DEF Older
<1>6. NewestExists'
  <2> SUFFICES ASSUME NEW m \in 1..(n + 1)
               PROVE  \E k \in 1..m : \A i \in 1..m : epochs'[i].id <= epochs'[k].id
    BY <1>4 DEF NewestExists
  <2>1. CASE m <= n
    <3>1. m \in 1..n
      BY <1>4, <2>1
    <3>2. PICK k \in 1..m : \A i \in 1..m : epochs[i].id <= epochs[k].id
      BY <3>1 DEF WipeInv, NewestExists
    <3>3. \A i \in 1..m : i \in 1..n
      BY <3>1
    <3> QED BY <1>4, <3>2, <3>3
  <2>2. CASE m = n + 1
    <3>0. n \in 1..Len(epochs)
      BY <1>4
    <3>1. PICK k \in 1..n : \A i \in 1..n : epochs[i].id <= epochs[k].id
      BY <3>0 DEF WipeInv, NewestExists
    <3>2. \A i \in 1..n : epochs[i].id \in Nat
      BY DEF Inv, IdsFresh
    <3>3. \A i \in 1..m : i \in 1..n \/ i = n + 1
      BY <1>4, <2>2
    <3>4. n + 1 \in 1..m /\ k \in 1..m
      BY <1>4, <2>2
    <3>5. e.id \in Nat /\ epochs[k].id \in Nat
      BY <1>1, <1>3, <3>2
    <3>6. CASE epochs[k].id <= e.id
      <4>1. \A i \in 1..m : epochs'[i].id <= epochs'[n + 1].id
        BY <1>4, <3>1, <3>2, <3>3, <3>5, <3>6
      <4> QED BY <3>4, <4>1
    <3>7. CASE e.id <= epochs[k].id
      <4>1. epochs'[k].id = epochs[k].id /\ \A i \in 1..n : epochs'[i].id <= epochs[k].id
        BY <1>4, <3>1
      <4>2. epochs'[n + 1].id <= epochs[k].id
        BY <1>4, <3>7
      <4>3. ASSUME NEW i \in 1..m PROVE epochs'[i].id <= epochs'[k].id
        <5>1. CASE i \in 1..n
          BY <4>1, <5>1
        <5>2. CASE i = n + 1
          BY <4>1, <4>2, <5>2
        <5> QED BY <3>3, <5>1, <5>2
      <4>4. \A i \in 1..m : epochs'[i].id <= epochs'[k].id
        BY <4>3
      <4> QED BY <3>4, <4>4
    <3>8. epochs[k].id <= e.id \/ e.id <= epochs[k].id
      BY <3>5
    <3> QED BY <3>6, <3>7, <3>8
  <2> QED BY <1>4, <2>1, <2>2
<1>7. \A t \in {told} : Told(t)'
  <2> SUFFICES ASSUME NEW t \in {told} PROVE Told(t)'
    OBVIOUS
  <2>1. Older(t.rows, t.id)
    BY <1>1, <1>3 DEF WipeInv
  <2>2. n + 1 \in 1..Len(epochs') /\ epochs'[n + 1].id = t.id
    BY <1>3, <1>4
  <2> QED BY <1>1, <1>2, <1>3, <1>5, <2>1, <2>2 DEF Told
<1>8. \A t \in resets : Told(t)'
  <2> SUFFICES ASSUME NEW t \in resets PROVE Told(t)'
    OBVIOUS
  <2>1. Told(t)
    BY DEF WipeInv
  <2>2. PICK i \in 1..n : epochs[i].id = t.id
    BY <2>1 DEF Told
  <2>3. i \in 1..Len(epochs') /\ epochs'[i].id = t.id
    BY <1>4, <2>2
  <2> QED BY <1>2, <1>5, <2>1, <2>3 DEF Told
<1>9. \A d \in Slots : Inserted(d)' => Inserted(d) /\ calls'[d] = calls[d]
  BY NothingInserted
<1>10. \A d \in Slots : Inserted(d)' => Older(calls[d].rows, calls[d].id)'
  BY <1>2, <1>9 DEF WipeInv, Older
<1>11. \A i \in 1..Len(ledger') : ledger'[i].epoch \in Nat /\ ledger'[i].epoch < nextId'
  BY <1>2 DEF WipeInv
<1> QED BY <1>2, <1>6, <1>7, <1>8, <1>10, <1>11 DEF WipeInv

LEMMA NextWipe ==
  ASSUME Inv, WipeInv, [Next]_vars PROVE WipeInv'
<1>1. ASSUME NEW c \in Slots, Request(c) \/ Fail(c) \/ BeginMutation(c) \/ LockAccount(c)
                               \/ Repeat(c) \/ BeginReset(c)
      PROVE  WipeInv'
  <2>1. \A d \in Slots : Inserted(d)' => Inserted(d) /\ calls'[d] = calls[d]
    BY <1>1, NothingInserted
  <2>2. UNCHANGED <<ledger, epochs, nextId, resets>>
    BY <1>1 DEF Request, Add, ApplySettlement, ResetAll, Start, Fail, BeginMutation,
       LockAccount, Repeat, BeginReset
  <2> QED BY <2>1, <2>2, QuietWipe
<1>2. CASE UNCHANGED vars
  BY <1>2, QuietWipe DEF vars, Inserted
<1> QED BY <1>1, <1>2, BookWipe, RepeatResetWipe, InsertEpochWipe, CommitResetWipe
        DEF Next, Transaction

LEMMA WipeInvWipes ==
  ASSUME Inv, WipeInv PROVE ResetWipes
<1> SUFFICES ASSUME NEW told \in resets, NEW i \in Rows(told.rows)
             PROVE  ledger[i].epoch < told.id /\ told.id <= Current(Len(epochs))
  BY DEF ResetWipes
<1>1. Told(told)
  BY DEF WipeInv
<1>2. ledger[i].epoch < told.id
  BY <1>1 DEF Told, Older, Rows
<1>3. Len(epochs) \in 1..Len(epochs)
  BY LedgerLen
<1>4. told.id <= Current(Len(epochs))
  BY <1>1, <1>3, CurrentNewest DEF WipeInv, Told
<1> QED BY <1>2, <1>4

\* Whatever resets overlap, commit in another order than they took their ids, are refused
\* or sent again: once one was answered, no entry made before it was asked for counts.
THEOREM ResetsWipe == Spec => []ResetWipes
<1>1. Inv /\ WipeInv /\ [Next]_vars => WipeInv'
  BY NextWipe
<1>2. Inv /\ WipeInv => ResetWipes
  BY WipeInvWipes
<1> QED BY <1>1, <1>2, Invariant, InitWipe, PTL DEF Spec

-----------------------------------------------------------------------------
(* A sum over rows does not depend on the order they are taken in *)

\* the amount of a row
Amount(rows, i) == rows[i].amount

\* SUM(amount) over the rows S of a ledger
SumOver(rows, S) == MapThenSumSet(LAMBDA i : rows[i].amount, S)

\* h has the sum of every part of S, taken row by row
Sums(h, rows, S) ==
  h = [T \in SUBSET S |->
         IF T = {} THEN 0
         ELSE Amount(rows, CHOOSE x \in T : TRUE) + h[T \ {CHOOSE x \in T : TRUE}]]

\* A sum exists for every finite set: by the number of rows.
LEMMA SumExists ==
  ASSUME NEW rows, NEW S, IsFiniteSet(S), \A i \in S : Amount(rows, i) \in Int
  PROVE  \E h \in [SUBSET S -> Int] : Sums(h, rows, S)
<1> DEFINE Pick(T) == CHOOSE x \in T : TRUE
           UpTo(n) == {T \in SUBSET S : Cardinality(T) <= n}
           SumsUpTo(n, h) ==
             /\ h \in [UpTo(n) -> Int]
             /\ \A T \in UpTo(n) :
                  h[T] = IF T = {} THEN 0 ELSE Amount(rows, Pick(T)) + h[T \ {Pick(T)}]
           Missing == {n \in Nat : ~ \E h : SumsUpTo(n, h)}
<1>1. \A T \in SUBSET S : /\ IsFiniteSet(T) /\ Cardinality(T) \in Nat
                          /\ Cardinality(T) = 0 <=> T = {}
  BY FS_Subset, FS_CardinalityType, FS_EmptySet
<1>2. \A T \in SUBSET S : T # {} => /\ Pick(T) \in T /\ T \ {Pick(T)} \in SUBSET S
                                    /\ Cardinality(T \ {Pick(T)}) = Cardinality(T) - 1
  BY <1>1, FS_RemoveElement
<1> HIDE DEF Pick
<1>3. Missing = {}
  <2> SUFFICES ASSUME Missing # {} PROVE FALSE
    OBVIOUS
  <2>1. PICK n \in Missing : \A m \in Missing : n <= m
    <3>1. Missing \subseteq Nat
      OBVIOUS
    <3> HIDE DEF Missing
    <3> QED  BY <3>1, NatMinimum
  <2>2. n # 0
    <3>1. SumsUpTo(0, [T \in UpTo(0) |-> 0])
      BY <1>1
    <3> HIDE DEF SumsUpTo
    <3> QED  BY <2>1, <3>1
  <2>3. n - 1 \in Nat /\ n - 1 \notin Missing
    <3>1. n \in Nat
      BY <2>1
    <3> HIDE DEF Missing
    <3> QED  BY <2>1, <2>2, <3>1
  <2>4. PICK h : SumsUpTo(n - 1, h)
    BY <2>3
  <2> DEFINE value == [T \in UpTo(n) |->
                         IF T = {} THEN 0 ELSE Amount(rows, Pick(T)) + h[T \ {Pick(T)}]]
  <2>5. \A T \in UpTo(n) : T # {} =>
          /\ T \ {Pick(T)} \in UpTo(n - 1) /\ T \ {Pick(T)} \in UpTo(n)
    BY <1>1, <1>2, <2>3
  <2>6. value \in [UpTo(n) -> Int]
    <3>1. ASSUME NEW T \in UpTo(n), T # {}
          PROVE  Amount(rows, Pick(T)) \in Int /\ h[T \ {Pick(T)}] \in Int
      BY <1>2, <2>4, <2>5, <3>1
    <3>2. ASSUME NEW T \in UpTo(n)
          PROVE  (IF T = {} THEN 0 ELSE Amount(rows, Pick(T)) + h[T \ {Pick(T)}]) \in Int
      <4>1. CASE T = {}
        BY <4>1
      <4>2. CASE T # {}
        <5> HIDE DEF UpTo
        <5>1. Amount(rows, Pick(T)) \in Int /\ h[T \ {Pick(T)}] \in Int
          BY <3>1, <3>2, <4>2
        <5> QED  BY <4>2, <5>1
      <4> QED  BY <4>1, <4>2
    <3> HIDE DEF UpTo
    <3> QED  BY <3>2
  <2>7. \A T \in UpTo(n - 1) : value[T] = h[T]
    <3> SUFFICES ASSUME NEW T \in UpTo(n - 1) PROVE value[T] = h[T]
      OBVIOUS
    <3>1. T \in UpTo(n)
      BY <1>1, <2>3
    <3> QED  BY <2>4, <3>1
  <2>8. \A T \in UpTo(n) :
          value[T] = IF T = {} THEN 0 ELSE Amount(rows, Pick(T)) + value[T \ {Pick(T)}]
    BY <2>5, <2>7
  <2> HIDE DEF value
  <2>9. SumsUpTo(n, value)
    BY <2>6, <2>8
  <2> QED  BY <2>1, <2>9
<1>4. Cardinality(S) \in Nat
  BY FS_CardinalityType
<1>5. UpTo(Cardinality(S)) = SUBSET S
  BY FS_Subset
<1>6. PICK h : SumsUpTo(Cardinality(S), h)
  BY <1>3, <1>4
<1>7. h \in [SUBSET S -> Int] /\
      \A T \in SUBSET S :
        h[T] = IF T = {} THEN 0 ELSE Amount(rows, Pick(T)) + h[T \ {Pick(T)}]
  BY <1>5, <1>6
<1>8. h = [T \in SUBSET S |->
             IF T = {} THEN 0 ELSE Amount(rows, Pick(T)) + h[T \ {Pick(T)}]]
  BY <1>7
<1> QED  BY <1>7, <1>8 DEF Sums, Pick

\* And there is only one.
LEMMA SumUnique ==
  ASSUME NEW rows, NEW S, IsFiniteSet(S), NEW h, NEW k, Sums(h, rows, S), Sums(k, rows, S)
  PROVE  k = h
<1>1. ASSUME NEW U \in SUBSET S PROVE k[U] = h[U]
  <2> DEFINE Good == {T \in SUBSET U : k[T] = h[T]}
  <2>1. {} \in Good
    BY <1>1 DEF Sums
  <2>2. ASSUME NEW T \in SUBSET U, T # {}, \A x \in T : T \ {x} \in Good
        PROVE  T \in Good
    <3> DEFINE c == CHOOSE x \in T : TRUE
    <3>1. c \in T
      BY <2>2
    <3>2. h[T] = Amount(rows, c) + h[T \ {c}] /\ k[T] = Amount(rows, c) + k[T \ {c}]
      BY <1>1, <2>2 DEF Sums
    <3> HIDE DEF c
    <3> QED  BY <2>2, <3>1, <3>2
  <2>3. IsFiniteSet(U)
    BY <1>1, FS_Subset
  <2> HIDE DEF Good
  <2>4. U \in Good
    BY <2>1, <2>2, <2>3, SubsetInduction
  <2> QED  BY <2>4 DEF Good
<1>2. h = [T \in SUBSET S |-> h[T]] /\ k = [T \in SUBSET S |-> k[T]]
  BY DEF Sums
<1> QED  BY <1>1, <1>2

\* It is the sum the store computes.
LEMMA SumUnfolds ==
  ASSUME NEW rows, NEW S, IsFiniteSet(S), NEW h, Sums(h, rows, S)
  PROVE  SumOver(rows, S) = h[S]
<1> DEFINE iter == CHOOSE k : Sums(k, rows, S)
<1>1. SumOver(rows, S) = iter[S]
  BY DEF SumOver, MapThenSumSet, MapThenFoldSet, Sums, Amount
<1>2. Sums(iter, rows, S)
  OBVIOUS
<1> HIDE DEF iter
<1> QED  BY <1>1, <1>2, SumUnique

\* h adds up U beginning with y
TakesFirst(h, rows, U, y) == h[U] = Amount(rows, y) + h[U \ {y}]

\* Any row may be taken first.
LEMMA SumWithOne ==
  ASSUME NEW rows, NEW S, IsFiniteSet(S), \A i \in S : Amount(rows, i) \in Int,
         NEW h \in [SUBSET S -> Int], Sums(h, rows, S)
  PROVE  \A U \in SUBSET S : \A y \in U : TakesFirst(h, rows, U, y)
<1> SUFFICES ASSUME NEW U \in SUBSET S PROVE \A y \in U : h[U] = Amount(rows, y) + h[U \ {y}]
  BY DEF TakesFirst
<1> DEFINE Good == {T \in SUBSET U : \A x \in T : h[T] = Amount(rows, x) + h[T \ {x}]}
<1>1. {} \in Good
  OBVIOUS
<1>2. ASSUME NEW T \in SUBSET U, T # {}, \A x \in T : T \ {x} \in Good
      PROVE  T \in Good
  <2> DEFINE c == CHOOSE x \in T : TRUE
  <2>1. c \in T
    BY <1>2
  <2>2. h[T] = Amount(rows, c) + h[T \ {c}]
    BY <1>2 DEF Sums
  <2> HIDE DEF c
  <2>3. ASSUME NEW x \in T PROVE h[T] = Amount(rows, x) + h[T \ {x}]
    <3>1. CASE x = c
      BY <2>2, <3>1
    <3>2. CASE x # c
      <4> DEFINE rest == T \ {c, x}
      <4>1. (T \ {c}) \ {x} = rest /\ (T \ {x}) \ {c} = rest
        OBVIOUS
      <4>2. h[T \ {c}] = Amount(rows, x) + h[(T \ {c}) \ {x}]
        <5>1. T \ {c} \in Good /\ x \in T \ {c}
          BY <1>2, <2>1, <3>2
        <5> QED  BY <5>1
      <4>3. h[T \ {x}] = Amount(rows, c) + h[(T \ {x}) \ {c}]
        <5>1. T \ {x} \in Good /\ c \in T \ {x}
          BY <1>2, <2>1, <3>2
        <5> QED  BY <5>1
      <4>4. h[rest] \in Int /\ Amount(rows, c) \in Int /\ Amount(rows, x) \in Int
        BY <2>1
      <4> HIDE DEF rest, Good
      <4>5. h[T \ {c}] = Amount(rows, x) + h[rest] /\ h[T \ {x}] = Amount(rows, c) + h[rest]
        BY <4>1, <4>2, <4>3
      <4> QED  BY <2>2, <4>4, <4>5
    <3> QED  BY <3>1, <3>2
  <2> QED  BY <2>3
<1>3. IsFiniteSet(U)
  BY FS_Subset
<1> HIDE DEF Good
<1>4. U \in Good
  BY <1>1, <1>2, <1>3, SubsetInduction
<1> QED  BY <1>4 DEF Good

\* A sum with one more row.
LEMMA SumAdd ==
  ASSUME NEW rows, NEW S, IsFiniteSet(S), NEW x, x \notin S,
         \A i \in S \cup {x} : Amount(rows, i) \in Int
  PROVE  /\ SumOver(rows, S) \in Int
         /\ SumOver(rows, S \cup {x}) = SumOver(rows, S) + Amount(rows, x)
<1> DEFINE R == S \cup {x}
<1>1. IsFiniteSet(R) /\ S \in SUBSET R /\ x \in R /\ R \ {x} = S
  BY FS_AddElement
<1>2. \A i \in R : Amount(rows, i) \in Int
  OBVIOUS
<1> HIDE DEF R
<1>3. PICK h \in [SUBSET R -> Int] : Sums(h, rows, R)
  BY <1>1, <1>2, SumExists
<1> DEFINE k == [T \in SUBSET S |-> h[T]]
<1>4. Sums(k, rows, S)
  <2>1. \A T \in SUBSET S : T # {} => T \ {CHOOSE y \in T : TRUE} \in SUBSET S
    OBVIOUS
  <2>2. \A T \in SUBSET S :
          h[T] = IF T = {} THEN 0
                 ELSE Amount(rows, CHOOSE y \in T : TRUE) + h[T \ {CHOOSE y \in T : TRUE}]
    BY <1>1, <1>3 DEF Sums
  <2> QED  BY <2>1, <2>2 DEF Sums
<1>5. k[S] = h[S] /\ h[S] \in Int /\ Amount(rows, x) \in Int
  BY <1>1, <1>2
<1> HIDE DEF k
<1>6. SumOver(rows, S) = h[S]
  BY <1>4, <1>5, SumUnfolds
<1>7. SumOver(rows, R) = h[R]
  BY <1>1, <1>3, SumUnfolds
<1>8. h[R] = Amount(rows, x) + h[S]
  <2>1. R \in SUBSET R
    OBVIOUS
  <2>2. TakesFirst(h, rows, R, x)
    BY <1>1, <1>2, <1>3, <2>1, SumWithOne
  <2> QED  BY <1>1, <2>2 DEF TakesFirst
<1> QED  BY <1>5, <1>6, <1>7, <1>8 DEF R

\* Ledgers with the same amounts have the same sum.
LEMMA SumSame ==
  ASSUME NEW rows, NEW other, NEW S, IsFiniteSet(S), \A i \in S : Amount(rows, i) \in Int,
         \A i \in S : Amount(other, i) = Amount(rows, i)
  PROVE  SumOver(other, S) = SumOver(rows, S)
<1>1. PICK h \in [SUBSET S -> Int] : Sums(h, rows, S)
  BY SumExists
<1>2. \A T \in SUBSET S : T # {} =>
        Amount(other, CHOOSE y \in T : TRUE) = Amount(rows, CHOOSE y \in T : TRUE)
  OBVIOUS
<1>3. Sums(h, other, S)
  BY <1>1, <1>2 DEF Sums
<1> QED  BY <1>1, <1>3, SumUnfolds

\* A sum of amounts is a number.
LEMMA SumType ==
  ASSUME NEW rows, NEW S, IsFiniteSet(S), \A i \in S : Amount(rows, i) \in Int
  PROVE  SumOver(rows, S) \in Int
<1>1. PICK h \in [SUBSET S -> Int] : Sums(h, rows, S)
  BY SumExists
<1>2. SumOver(rows, S) = h[S]
  BY <1>1, SumUnfolds
<1> QED  BY <1>1, <1>2

-----------------------------------------------------------------------------
(* Every entry shows the running balance *)

\* the rows of a user in an epoch among the first n
Of(rows, u, e, n) == {i \in Rows(n) : rows[i].user = u /\ rows[i].epoch = e}

BalanceInv ==
  /\ \A i \in 1..Len(ledger) : Amount(ledger, i) \in Int
  /\ \A i \in 1..Len(ledger) :
       ledger[i].balance = Base + SumOver(ledger, Of(ledger, ledger[i].user, ledger[i].epoch, i))

\* That is what the property says.
LEMMA BalanceInvRuns == BalanceInv => RunningBalance
BY DEF BalanceInv, RunningBalance, Rows, Delta, SumOver, Of, Rows

\* The rows of a ledger are finitely many.
LEMMA RowsFinite == ASSUME NEW n \in Nat PROVE IsFiniteSet(Rows(n))
BY FS_Interval DEF Rows

\* What the transaction summed up, though it did not see the latest rows, is the sum of
\* all rows there are when it commits.
LEMMA SeenSum ==
  ASSUME Inv, NEW c \in Slots, Book(c)
  PROVE  LET x == calls[c] IN
         Of(ledger, x.user, Current(x.opened), x.rows)
         = Of(ledger, x.user, Current(x.opened), Len(ledger))
<1> DEFINE x == calls[c]
<1>1. x.rows \in Nat /\ x.rows <= Len(ledger) /\ Len(ledger) \in Nat
  BY CallKinds, LedgerLen DEF Book, Mutates, Active, Inv, Snapshots, Mutations
<1>2. ~Conflicts(x)
  BY DEF Book
<1>3. \A i \in Rows(Len(ledger)) \ Rows(x.rows) :
        ~(ledger[i].user = x.user /\ ledger[i].epoch = Current(x.opened))
  BY <1>2 DEF Conflicts
<1>4. \A i \in Rows(x.rows) : i \in Rows(Len(ledger))
  BY <1>1 DEF Rows
<1> QED  BY <1>3, <1>4 DEF Of

\* A new entry shows the balance after it; those there show what they showed.
LEMMA BookBalance ==
  ASSUME Inv, BalanceInv, NEW c \in Slots, Book(c)
  PROVE  BalanceInv'
<1> DEFINE x == calls[c]
           e == Entry(x)
           n == Len(ledger)
           ep == Current(x.opened)
           A == Of(ledger, x.user, ep, n)
<1>1. x \in Mutations
  BY CallKinds DEF Book
<1>2. x.amount \in Int /\ x.rows \in Nat /\ x.rows <= n /\ n \in Nat
  BY <1>1, LedgerLen DEF Book, Mutates, Active, Inv, Snapshots, Mutations
<1>3. ledger' = Append(ledger, e)
  BY DEF Book
<1>4. /\ Len(ledger') = n + 1 /\ ledger'[n + 1] = e
      /\ \A i \in 1..n : ledger'[i] = ledger[i]
  BY <1>3, Appended DEF Inv, LedgerInv
<1>5. /\ e.user = x.user /\ e.epoch = ep /\ e.amount = x.amount
      /\ e.balance = Base + SumOver(ledger, Of(ledger, x.user, ep, x.rows)) + x.amount
  BY DEF Entry, Delta, SumOver, Of
<1>6. Of(ledger, x.user, ep, x.rows) = A
  BY SeenSum
<1>7. e.balance = Base + SumOver(ledger, A) + x.amount
  BY <1>5, <1>6
<1> HIDE DEF e, x, ep, n
<1>8. \A m \in 0..n : \A u, k : Of(ledger', u, k, m) = Of(ledger, u, k, m)
  <2> SUFFICES ASSUME NEW m \in 0..n, NEW u, NEW k
               PROVE  Of(ledger', u, k, m) = Of(ledger, u, k, m)
    OBVIOUS
  <2>1. \A i \in Rows(m) : ledger'[i] = ledger[i]
    BY <1>2, <1>4 DEF Rows
  <2> QED  BY <2>1 DEF Of
<1>9. \A i \in 1..n : Amount(ledger, i) \in Int /\ Amount(ledger', i) = Amount(ledger, i)
  BY <1>4 DEF BalanceInv, Amount, n
<1>10. \A m \in 0..n : \A u, k :
         /\ IsFiniteSet(Of(ledger, u, k, m))
         /\ Of(ledger, u, k, m) \subseteq 1..n
  <2> SUFFICES ASSUME NEW m \in 0..n, NEW u, NEW k
               PROVE  IsFiniteSet(Of(ledger, u, k, m)) /\ Of(ledger, u, k, m) \subseteq 1..n
    OBVIOUS
  <2>1. m \in Nat /\ Of(ledger, u, k, m) \subseteq Rows(m)
    BY <1>2 DEF Of
  <2>2. Rows(m) \subseteq 1..n
    BY <1>2 DEF Rows
  <2> QED  BY <2>1, <2>2, RowsFinite, FS_Subset
<1>11. \A m \in 0..n : \A u, k :
         SumOver(ledger', Of(ledger', u, k, m)) = SumOver(ledger, Of(ledger, u, k, m))
  <2> SUFFICES ASSUME NEW m \in 0..n, NEW u, NEW k
               PROVE  SumOver(ledger', Of(ledger', u, k, m))
                      = SumOver(ledger, Of(ledger, u, k, m))
    OBVIOUS
  <2> DEFINE S == Of(ledger, u, k, m)
  <2>1. IsFiniteSet(S) /\ S \subseteq 1..n /\ Of(ledger', u, k, m) = S
    BY <1>8, <1>10
  <2> HIDE DEF S
  <2>2. \A i \in S : Amount(ledger, i) \in Int /\ Amount(ledger', i) = Amount(ledger, i)
    BY <1>9, <2>1
  <2>3. SumOver(ledger', S) = SumOver(ledger, S)
    BY <2>1, <2>2, SumSame
  <2> QED  BY <2>1, <2>3 DEF S
<1>12. Amount(ledger', n + 1) = x.amount
  BY <1>4, <1>5 DEF Amount
<1>13. \A i \in 1..(n + 1) : Amount(ledger', i) \in Int
  BY <1>2, <1>9, <1>12
<1>14. ASSUME NEW i \in 1..n
       PROVE  ledger'[i].balance
              = Base + SumOver(ledger', Of(ledger', ledger'[i].user, ledger'[i].epoch, i))
  <2>1. ledger[i].balance
        = Base + SumOver(ledger, Of(ledger, ledger[i].user, ledger[i].epoch, i))
    BY DEF BalanceInv, n
  <2>2. i \in 0..n
    OBVIOUS
  <2>3. SumOver(ledger', Of(ledger', ledger[i].user, ledger[i].epoch, i))
        = SumOver(ledger, Of(ledger, ledger[i].user, ledger[i].epoch, i))
    BY <1>11, <2>2
  <2> QED  BY <1>4, <2>1, <2>3
<1>15. e.balance = Base + SumOver(ledger', Of(ledger', e.user, e.epoch, n + 1))
  <2>1. n \in 0..n /\ A = Of(ledger, x.user, ep, n)
    BY <1>2
  <2>2. SumOver(ledger', A) = SumOver(ledger, A) /\ A = Of(ledger', x.user, ep, n)
    BY <1>8, <1>11, <2>1
  <2>3. Of(ledger', x.user, ep, n + 1) = A \cup {n + 1}
    <3>1. \A i : i \in Rows(n + 1) <=> i \in Rows(n) \/ i = n + 1
      BY <1>2 DEF Rows
    <3> QED  BY <1>4, <1>5, <2>2, <3>1 DEF Of
  <2>4. IsFiniteSet(A) /\ A \subseteq 1..n /\ n + 1 \notin A
    <3>1. IsFiniteSet(A) /\ A \subseteq 1..n
      BY <1>10, <2>1
    <3> HIDE DEF A
    <3> QED  BY <1>2, <3>1
  <2> HIDE DEF A
  <2>5. \A i \in A \cup {n + 1} : Amount(ledger', i) \in Int
    BY <1>2, <1>13, <2>4
  <2>6. /\ SumOver(ledger', A) \in Int
        /\ SumOver(ledger', A \cup {n + 1}) = SumOver(ledger', A) + Amount(ledger', n + 1)
    BY <2>4, <2>5, SumAdd
  <2>7. Base \in Int /\ x.amount \in Int
    BY <1>2, NumbersAssumption
  <2> DEFINE total == SumOver(ledger', A)
  <2>8. SumOver(ledger', Of(ledger', e.user, e.epoch, n + 1)) = total + x.amount
    BY <1>5, <1>12, <2>3, <2>6
  <2>9. e.balance = Base + total + x.amount /\ total \in Int
    BY <1>7, <2>2, <2>6
  <2> HIDE DEF total
  <2> QED  BY <2>7, <2>8, <2>9
<1>16. \A i \in 1..(n + 1) :
         ledger'[i].balance
         = Base + SumOver(ledger', Of(ledger', ledger'[i].user, ledger'[i].epoch, i))
  <2>1. \A i \in 1..(n + 1) : i \in 1..n \/ i = n + 1
    BY <1>2
  <2> QED  BY <1>4, <1>14, <1>15, <2>1
<1> QED  BY <1>4, <1>13, <1>16 DEF BalanceInv

\* Entries of a ledger are made by committed mutations and resets only.
LEMMA NextBalance ==
  ASSUME Inv, BalanceInv, [Next]_vars PROVE BalanceInv'
<1>1. (\E c \in Slots : Book(c)) \/ UNCHANGED ledger
  BY DEF Next, Request, Add, ApplySettlement, ResetAll, Start, Transaction, BeginMutation,
     LockAccount, Repeat, BeginReset, RepeatReset, InsertEpoch, CommitReset, Fail, vars
<1>2. ASSUME UNCHANGED ledger PROVE BalanceInv'
  BY <1>2 DEF BalanceInv
<1> QED  BY <1>1, <1>2, BookBalance

\* An empty ledger has no balances.
LEMMA InitBalance == Init => BalanceInv
<1> SUFFICES ASSUME Init PROVE BalanceInv
  OBVIOUS
<1>1. Len(ledger) = 0
  BY DEF Init
<1> QED  BY <1>1 DEF BalanceInv

\* Whatever calls overlap, though each sums up a snapshot older than the entries that
\* were committed before its own: every entry shows the base and all its user's entries
\* of its epoch up to it (insertLedgerEntry).
THEOREM BalancesRun == Spec => []RunningBalance
<1>1. Inv /\ BalanceInv /\ [Next]_vars => BalanceInv'
  BY NextBalance
<1> QED  BY <1>1, InitBalance, Invariant, BalanceInvRuns, PTL DEF Spec

=============================================================================
