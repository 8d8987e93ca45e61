----------------------------- MODULE ScoreLedger -----------------------------
(***************************************************************************)
(* The Postgres store of account scores (infra/postgres_score.go) under    *)
(* concurrent calls of several servers.  A mutation is a serializable      *)
(* transaction: ensureUserTx takes its snapshot, then it waits for the     *)
(* lock of its user, so what it reads may be older than what the lock's    *)
(* last holder has committed.  The database refuses a commit that no       *)
(* serial order explains, or that repeats a key of a unique index; it may  *)
(* refuse any other as well.  A commit may succeed without its             *)
(* acknowledgement, and callers send the same request again.               *)
(*                                                                         *)
(* The tables only grow: a snapshot is the number of rows it sees.         *)
(***************************************************************************)
EXTENDS Integers, Sequences, FiniteSets, FiniteSetsExt

CONSTANTS
  Users,
  Requests,  \* request ids of additions
  Sessions,  \* seat sessions, which are the request ids of settlements
  Resets,    \* request ids of resets
  System,    \* what the first epoch has for a request
  Holder,    \* user of each seat session
  Amounts, Nets, Times, Gap, Base,
  Slots,     \* calls that can be under way at once
  Idle,
  MaxCalls   \* bound

ASSUME KeysAssumption == Requests \cap Sessions = {} /\ System \notin Resets
ASSUME HolderAssumption == Holder \in [Sessions -> Users]
ASSUME NumbersAssumption ==
  /\ Amounts \subseteq Nat \ {0} /\ Nets \subseteq Int /\ Times \subseteq Nat
  /\ Gap \in Nat /\ Base \in Nat /\ MaxCalls \in Nat

VARIABLES
  ledger,  \* score_ledger with score_addition_requests and seat_settlements, as committed
  epochs,  \* score_epochs, as committed
  nextId,  \* the sequence behind score_epochs.id, which no rollback takes back
  calls,   \* the calls under way
  given,   \* the entries callers were answered with
  resets,  \* the epochs callers were answered with, and the entries there were at the call
  count    \* for the bound

vars == <<ledger, epochs, nextId, calls, given, resets, count>>

Keys == Requests \cup Sessions

Mutations ==
  [kind : {"add", "settle"}, user : Users, request : Keys, amount : Int, at : Times,
   step : {"called", "begun", "locked"}, rows : Nat, opened : Nat]

ResetCalls ==
  [kind : {"reset"}, request : Resets, step : {"called", "begun", "inserted"},
   rows : Nat, opened : Nat, id : Nat]

Entries ==
  [kind : {"add", "settle"}, user : Users, request : Keys, amount : Int, at : Times,
   epoch : Nat, balance : Int]

TypeOK ==
  /\ ledger \in Seq(Entries)
  /\ epochs \in Seq([id : Nat, request : Resets \cup {System}])
  /\ nextId \in Nat /\ \A i \in 1..Len(epochs) : epochs[i].id < nextId
  /\ count \in 0..MaxCalls
  /\ calls \in [Slots -> Mutations \cup ResetCalls \cup {Idle}]
  /\ given \subseteq Entries
  /\ resets \subseteq [id : Nat, rows : Nat]

-----------------------------------------------------------------------------
(* Reading the tables *)

Rows(n) == 1..n

\* SUM(amount) of a user's rows of an epoch among the first n
Delta(u, e, n) ==
  MapThenSumSet(LAMBDA i : ledger[i].amount,
                {i \in Rows(n) : ledger[i].user = u /\ ledger[i].epoch = e})

\* (mutation of Current: the epoch that was committed last)
CurrentCommitted(n) == epochs[n].id

\* the newest epoch among the first n
Current(n) == CHOOSE id \in {epochs[i].id : i \in Rows(n)} :
                 \A i \in Rows(n) : epochs[i].id <= id

\* account_score, current_score_epoch_id
Balance(u) == Base + Delta(u, Current(Len(epochs)), Len(ledger))

Active(c, step) == calls[c] # Idle /\ calls[c].step = step

Mutates(c, step) == Active(c, step) /\ calls[c].kind # "reset"

\* findLedgerResult, findSettlementResult
Booked(x, n) == {i \in Rows(n) : ledger[i].user = x.user /\ ledger[i].request = x.request}

RateLimited(x) ==
  x.kind = "add" /\ \E i \in Rows(x.rows) :
    ledger[i].user = x.user /\ ledger[i].kind = "add" /\ x.at - ledger[i].at < Gap

\* insertLedgerEntry
Entry(x) ==
  [kind |-> x.kind, user |-> x.user, request |-> x.request, amount |-> x.amount,
   at |-> x.at, epoch |-> Current(x.opened),
   balance |-> Base + Delta(x.user, Current(x.opened), x.rows) + x.amount]

\* (mutation of Conflicts: the rate limit is not read in the transaction)
ConflictsOfSums(x) ==
  \E i \in Rows(Len(ledger)) \ Rows(x.rows) :
    ledger[i].user = x.user /\ ledger[i].epoch = Current(x.opened)

\* (mutation of Conflicts: a snapshot is all that is isolated)
ConflictsOfKeys(x) ==
  \E i \in Rows(Len(ledger)) \ Rows(x.rows) :
    ledger[i].user = x.user /\ ledger[i].request = x.request

\* Both transactions read what the other one writes, the sum of an epoch or the last
\* addition, or both write one key.
Conflicts(x) ==
  \E i \in Rows(Len(ledger)) \ Rows(x.rows) :
    /\ ledger[i].user = x.user
    /\ \/ ledger[i].epoch = Current(x.opened)
       \/ ledger[i].kind = "add" /\ x.kind = "add"
       \/ ledger[i].request = x.request

-----------------------------------------------------------------------------
(* Calls *)

Start(c, call) ==
  /\ calls[c] = Idle /\ count < MaxCalls
  /\ calls' = [calls EXCEPT ![c] = call]
  /\ count' = count + 1
  /\ UNCHANGED <<ledger, epochs, nextId, given, resets>>

\* Service.Add reads the clock of its server before the transaction
Add(c, u, request, amount, now) ==
  Start(c, [kind |-> "add", user |-> u, request |-> request, amount |-> amount, at |-> now,
            step |-> "called", rows |-> 0, opened |-> 0])

ApplySettlement(c, session, net, now) ==
  Start(c, [kind |-> "settle", user |-> Holder[session], request |-> session, amount |-> net,
            at |-> now, step |-> "called", rows |-> 0, opened |-> 0])

\* rows: the entries there were when the call was made
ResetAll(c, request) ==
  Start(c, [kind |-> "reset", request |-> request, step |-> "called", rows |-> Len(ledger),
            opened |-> 0, id |-> 0])

\* the first statement of the transaction takes its snapshot
BeginMutation(c) ==
  /\ Mutates(c, "called")
  /\ calls' = [calls EXCEPT ![c].step = "begun", ![c].rows = Len(ledger),
                            ![c].opened = Len(epochs)]
  /\ UNCHANGED <<ledger, epochs, nextId, given, resets, count>>

LockAccount(c) ==
  /\ Mutates(c, "begun")
  /\ \A d \in Slots : Mutates(d, "locked") => calls[d].user # calls[c].user
  /\ calls' = [calls EXCEPT ![c].step = "locked"]
  /\ UNCHANGED <<ledger, epochs, nextId, given, resets, count>>

Ended(c) == calls' = [calls EXCEPT ![c] = Idle]

\* answered from the ledger
Repeat(c) ==
  /\ Mutates(c, "locked")
  /\ \E i \in Booked(calls[c], calls[c].rows) : given' = given \cup {ledger[i]}
  /\ Ended(c)
  /\ UNCHANGED <<ledger, epochs, nextId, resets, count>>

Book(c) ==
  LET x == calls[c] IN
  /\ Mutates(c, "locked")
  /\ Booked(x, x.rows) = {} /\ ~RateLimited(x) /\ ~Conflicts(x)
  /\ ledger' = Append(ledger, Entry(x))
  /\ given' \in {given, given \cup {Entry(x)}}
  /\ Ended(c)
  /\ UNCHANGED <<epochs, nextId, resets, count>>

BeginReset(c) ==
  /\ Active(c, "called") /\ calls[c].kind = "reset"
  /\ calls' = [calls EXCEPT ![c].step = "begun", ![c].opened = Len(epochs)]
  /\ UNCHANGED <<ledger, epochs, nextId, given, resets, count>>

OpenedBy(request, n) == {i \in Rows(n) : epochs[i].request = request}

RepeatReset(c) ==
  /\ Active(c, "begun") /\ calls[c].kind = "reset"
  /\ \E i \in OpenedBy(calls[c].request, calls[c].opened) :
       resets' = resets \cup {[id |-> epochs[i].id, rows |-> 0]}
  /\ Ended(c)
  /\ UNCHANGED <<ledger, epochs, nextId, given, count>>

\* an insert with the request of another uncommitted one waits for it
InsertEpoch(c) ==
  /\ Active(c, "begun") /\ calls[c].kind = "reset"
  /\ OpenedBy(calls[c].request, Len(epochs)) = {}
  /\ \A d \in Slots : Active(d, "inserted") => calls[d].request # calls[c].request
  /\ nextId' = nextId + 1
  /\ calls' = [calls EXCEPT ![c].step = "inserted", ![c].id = nextId]
  /\ UNCHANGED <<ledger, epochs, given, resets, count>>

\* affected users and the audit entry are part of the transaction
CommitReset(c) ==
  /\ Active(c, "inserted")
  /\ epochs' = Append(epochs, [id |-> calls[c].id, request |-> calls[c].request])
  /\ resets' \in {resets, resets \cup {[id |-> calls[c].id, rows |-> calls[c].rows]}}
  /\ Ended(c)
  /\ UNCHANGED <<ledger, nextId, given, count>>

\* refused, rolled back or forgotten by a server that crashed
Fail(c) ==
  /\ calls[c] # Idle
  /\ Ended(c)
  /\ UNCHANGED <<ledger, epochs, nextId, given, resets, count>>

-----------------------------------------------------------------------------

Init ==
  /\ ledger = <<>>
  /\ epochs = <<[id |-> 1, request |-> System]>>
  /\ nextId = 2
  /\ calls = [c \in Slots |-> Idle]
  /\ given = {} /\ resets = {} /\ count = 0

Request(c) ==
  \/ \E u \in Users, request \in Requests, amount \in Amounts, now \in Times :
       Add(c, u, request, amount, now)
  \/ \E session \in Sessions, net \in Nets, now \in Times :
       ApplySettlement(c, session, net, now)
  \/ \E request \in Resets : ResetAll(c, request)

Transaction(c) ==
  \/ BeginMutation(c) \/ LockAccount(c) \/ Repeat(c) \/ Book(c)
  \/ BeginReset(c) \/ RepeatReset(c) \/ InsertEpoch(c) \/ CommitReset(c)

Next == \E c \in Slots : Request(c) \/ Transaction(c) \/ Fail(c)

Spec == Init /\ [][Next]_vars

-----------------------------------------------------------------------------
(* Properties *)

TheBook == INSTANCE ScoreBook WITH book <- ledger

\* The ledger is an idempotent book (store.go's promise): whatever calls overlap, fail,
\* commit without acknowledgement or are sent again, with another amount or after a
\* reset, a request is entered once, its caller is told the entry that was made, and
\* additions keep their distance whichever server's clock they carry.
KeepsBook == TheBook!Spec

\* The balance every entry shows is the base and all the user's entries of its epoch up
\* to it, in the order of the commits (insertLedgerEntry's SUM over a snapshot).
RunningBalance ==
  \A i \in Rows(Len(ledger)) :
    ledger[i].balance = Base + Delta(ledger[i].user, ledger[i].epoch, i)

\* Once a reset was answered, no entry made before it was asked for counts in anybody's
\* balance, though epochs may commit in another order than their ids (account_score).
ResetWipes ==
  \A told \in resets : \A i \in Rows(told.rows) :
    ledger[i].epoch < told.id /\ told.id <= Current(Len(epochs))
=============================================================================
