--------------------------- MODULE MCRoomManager ---------------------------
\* Users and rooms are interchangeable in the safety properties.
EXTENDS RoomManager, TLC

Symmetry == Permutations(Users) \cup Permutations(Rooms)
=============================================================================
