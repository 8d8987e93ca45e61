----------------------------- MODULE MCRoomLease -----------------------------
EXTENDS RoomLease, TLC

Symmetry == Permutations(Instances)
=============================================================================
