----------------------------- MODULE MCCLPARelay -----------------------------
(* Small instances of CLPARelay and RelayStats for TLC. *)
EXTENDS RelayStats

CONSTANTS s1, s2, a, b

\* One account in each shard.
MCLoc == [x \in {a, b} |-> IF x = a THEN s1 ELSE s2]

\* A payment from a to b.
OnePayment == <<[from |-> a, to |-> b]>>
=============================================================================
