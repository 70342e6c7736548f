---------------------------- MODULE MCCLPABroker ----------------------------
(* Small instances of CLPABroker for TLC. *)
EXTENDS CLPABroker

CONSTANTS s1, s2, a, b

\* Both accounts start in the first shard.
MCLoc == [x \in {a, b} |-> s1]

\* A payment from a to b.
OnePayment == <<[from |-> a, to |-> b]>>
=============================================================================
