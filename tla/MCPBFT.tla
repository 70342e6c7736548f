------------------------------- MODULE MCPBFT -------------------------------
(* Small instances of PBFT for TLC. *)
EXTENDS PBFT
=============================================================================
