---------------------------- MODULE MCSyncStorage ----------------------------
(* The storage on a small instance: see MCSyncStorage.cfg.                 *)
EXTENDS SyncStorage, TLC

\* Ids and values are only compared, so any two are exchangeable.
Symmetry == Permutations(RecordId) \cup Permutations(Value)
=============================================================================
