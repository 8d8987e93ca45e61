---------------------------- MODULE MCConnections ----------------------------
EXTENDS Connections, TLC

Symmetry == Permutations(Requests)
=============================================================================
