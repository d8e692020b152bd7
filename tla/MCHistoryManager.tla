------------------------- MODULE MCHistoryManager --------------------------
(* One record that only recorded changes touch, and one that others touch. *)
EXTENDS HistoryManager
=============================================================================
