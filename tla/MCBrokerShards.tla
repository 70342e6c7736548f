--------------------------- MODULE MCBrokerShards ---------------------------
(* Small instances of BrokerShards for TLC. *)
EXTENDS BrokerStats

CONSTANTS s1, s2, a, c, p, q

\* Account a and both brokers live in the first shard, c in the second.
MCHome == [x \in {a, c, p, q} |-> IF x = c THEN s2 ELSE s1]

Payment(x, y, v) == [from |-> x, to |-> y, value |-> v]

\* One payment takes all a broker has in the second shard at the start, one goes
\* back, and one is more than a broker has there unless it took on that one.
MixedPayments == <<Payment(a, c, 2), Payment(c, a, 1), Payment(a, c, 3)>>
=============================================================================
