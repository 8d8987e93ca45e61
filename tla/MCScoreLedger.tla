--------------------------- MODULE MCScoreLedger ---------------------------
EXTENDS ScoreLedger, TLC

MCHolder == [s \in Sessions |-> CHOOSE u \in Users : TRUE]
MCNets == {-1}
Symmetry == Permutations(Slots) \cup Permutations(Requests) \cup Permutations(Resets)
=============================================================================
