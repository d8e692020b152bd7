----------------------------- MODULE MCUnoServer -----------------------------
(* The whole server on a small instance: see MCUnoServer.cfg.              *)
EXTENDS UnoServer, TLC

\* Ids and tokens are random and only compared, so any two are exchangeable.
Symmetry ==
  Permutations(UserId) \cup Permutations(BoardId) \cup Permutations(SessionToken)
    \cup Permutations(ConnId)
=============================================================================
