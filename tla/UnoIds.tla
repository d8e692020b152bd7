------------------------------- MODULE UnoIds -------------------------------
(* The identities the directory and the presence rooms share: both are     *)
(* random strings minted by the directory (directory.ts:59-63).            *)
CONSTANTS UserId, BoardId
=============================================================================
