--------------------------- MODULE MCRoomSessions ---------------------------
(* The sessions of a room on a small instance: see MCRoomSessions.cfg.     *)
EXTENDS RoomSessions

Symmetry == Permutations(Tab)
=============================================================================
