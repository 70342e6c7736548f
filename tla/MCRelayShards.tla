---------------------------- MODULE MCRelayShards ----------------------------
(* Small instances of RelayShards for TLC. *)
EXTENDS RelayShards

CONSTANTS s1, s2, a, b, c

\* Two shards: a and b live in the first, c in the second.
MCHome == [x \in {a, b, c} |-> IF x = c THEN s2 ELSE s1]

Pay(id, x, y, v) == [id |-> id, from |-> x, to |-> y, value |-> v]

\* Relays in both directions and an inner-shard payment, of a sender who can pay
\* twice only after a relay from the other shard has come.
ShortSource == <<Pay(1, c, a, 3), Pay(2, a, c, 4), Pay(3, a, b, 3)>>

\* A sender who spends all it has, and then more.
SpendAllSource == <<Pay(1, a, c, 4), Pay(2, a, b, 1)>>

\* A larger value has a longer encoding.
MCSize(t) == IF t.value > 3 THEN 2 ELSE 1
=============================================================================
