------------------------------ MODULE ScoreBook ------------------------------
(***************************************************************************)
(* What score.Store promises its callers: the book is only ever appended   *)
(* to and holds a request once, however often it was sent; who is given an *)
(* answer is given an entry of the book; additions of one user are Gap     *)
(* apart; epochs are never taken back, and a reset opens one of its own.   *)
(***************************************************************************)
EXTENDS Integers, Sequences

CONSTANT Gap

VARIABLES
  book,    \* the entries made
  epochs,  \* the epochs opened
  given    \* the entries callers were given

vars == <<book, epochs, given>>

SameRequest(x, y) == x.user = y.user /\ x.request = y.request

TooClose(x, y) ==
  x.user = y.user /\ x.kind = "add" /\ y.kind = "add" /\ x.at - y.at < Gap /\ y.at - x.at < Gap

Grows(old, new) ==
  Len(old) <= Len(new) /\ \A i \in 1..Len(old) : new[i] = old[i]

Consistent(entries) ==
  \A i, j \in 1..Len(entries) : i # j =>
    ~SameRequest(entries[i], entries[j]) /\ ~TooClose(entries[i], entries[j])

Distinct(opened) ==
  \A i, j \in 1..Len(opened) : i # j =>
    opened[i].id # opened[j].id /\ opened[i].request # opened[j].request

Init == book = <<>> /\ Len(epochs) = 1 /\ given = {}

Next ==
  /\ Grows(book, book') /\ Consistent(book')
  /\ Grows(epochs, epochs') /\ Distinct(epochs')
  /\ given \subseteq given' /\ given' \subseteq {book'[i] : i \in 1..Len(book')}

Spec == Init /\ [][Next]_vars
=============================================================================
