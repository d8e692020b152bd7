---------------------------- MODULE MCLocalSync ----------------------------
(* The tabs of one browser on small instances.                             *)
EXTENDS LocalSync
=============================================================================
