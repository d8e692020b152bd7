--------------------------- MODULE MCPresenceRoom ---------------------------
(* The presence rooms in detail on a small instance: see MCPresenceRoom.cfg. *)
EXTENDS PresenceRoom
=============================================================================
