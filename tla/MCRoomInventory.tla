--------------------------- MODULE MCRoomInventory ---------------------------
(***************************************************************************)
(* RoomInventory on small instances.                                       *)
(***************************************************************************)
EXTENDS RoomInventory, TLC

CONSTANTS b1, b2, b3, a1, a2

MCSymmetry == Permutations(Bookings) \cup Permutations(Admins)
=============================================================================
