------------------------------- MODULE TxPool -------------------------------
(***************************************************************************)
(* The transaction pool of a leader: pkg/core/txpool/queue/queue.go.  One  *)
(* mutex guards the queue, so AddTxs and PackTxs are atomic: AddTxs appends*)
(* to the queue, and PackTxs cuts it where PackEnd says.                   *)
(***************************************************************************)
EXTENDS Integers, Sequences, SequencesExt

CONSTANTS
  Size(_),  \* length of the encoding of a transaction
  PoolType  \* config.TxPoolNumType ("num") or config.TxPoolByteType ("byte")

ASSUME PoolAssumption == PoolType \in {"num", "byte"}

AddTxs(q, txs) == q \o txs

\* getCurSizeOfNum and getCurSizeOfByte, by which GetTxListSize measures.
TxListSize(type, txs) ==
  IF type = "num" THEN Len(txs)
  ELSE FoldLeft(LAMBDA sum, t : sum + Size(t), 0, txs)

\* A mutated NumEnd: one transaction too many.
NumEnd_oneMore(q, n) == IF Len(q) > n THEN n + 1 ELSE Len(q)

\* packTxsByGivenNum: how many transactions of q are packed.
NumEnd(q, n) == IF Len(q) > n THEN n ELSE Len(q)

\* packTxsByGivenBytes: the loop goes on while the size of the next
\* transaction is not below what is left of n.
ByteEnd(q, n) ==
  LET left(i) == n - TxListSize("byte", SubSeq(q, 1, i - 1))
      stops == {i \in DOMAIN q : Size(q[i]) < left(i)}
  IN  IF stops = {} THEN Len(q)
      ELSE CHOOSE e \in 0 .. Len(q) : e + 1 \in stops /\ \A i \in stops : e < i

PackEnd(q, n) == IF PoolType = "num" THEN NumEnd(q, n) ELSE ByteEnd(q, n)

\* A mutated Rest: the packed transactions stay in the queue.
Rest_keep(q, e) == q

\* What PackTxs leaves in the queue.
Rest(q, e) == SubSeq(q, e + 1, Len(q))
=============================================================================
