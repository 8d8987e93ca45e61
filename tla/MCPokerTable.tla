----------------------------- MODULE MCPokerTable -----------------------------
(* Three seats.  The stacks are small enough to explore and unequal enough   *)
(* for short all-ins, side pots and odd points to occur.                     *)
EXTENDS PokerTable

EqualStacks == {[s \in Seats |-> InitialTablePoints]}

\* a deep, a middle and a short stack, which is all-in with the big blind
UnequalStacks == {[s \in Seats |-> InitialTablePoints + 2 - 2 * s]}

MCStacks == EqualStacks \cup UnequalStacks
=============================================================================
