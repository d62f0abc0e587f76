--------------------------- MODULE MCRoomMembers ---------------------------
(* RoomMembers for TLC: what users, slots and invites share is symmetric.  *)
EXTENDS RoomMembers, TLC

Symmetry ==
  Permutations(Users) \cup Permutations(Requests) \cup Permutations(Invites)
=============================================================================
