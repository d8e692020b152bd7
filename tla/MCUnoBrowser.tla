--------------------------- MODULE MCUnoBrowser ----------------------------
(* One browser and two boards.                                             *)
EXTENDS UnoBrowser
=============================================================================
