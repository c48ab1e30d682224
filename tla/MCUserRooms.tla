------------------------------ MODULE MCUserRooms ------------------------------
(***************************************************************************)
(* A small instance of UserRooms for TLC.  Casters, users and a user's     *)
(* devices are interchangeable.                                            *)
(***************************************************************************)
EXTENDS UserRooms

CONSTANTS u1, u2, d1, d2, v1, k1, k2

Symmetry == Permutations(Casters) \cup Permutations(Devices) \cup Permutations(Users)
=============================================================================
