-------------------------- MODULE RelayShardsProofs --------------------------
(***************************************************************************)
(* Proofs about RelayShards: every transaction is in one list, with the    *)
(* stage its execution has reached, so no half of it is executed twice.    *)
(***************************************************************************)
EXTENDS RelayShards, FiniteSetTheorems, SetSums, WellFoundedInduction, TLAPS

-----------------------------------------------------------------------------
(* Lists. *)

\* A nonempty set of numbers has a least one.
LEMMA LeastNat ==
  ASSUME NEW Q \in SUBSET Nat, Q # {}
  PROVE  \E k \in Q : \A j \in Q : k <= j
<1>1. PICK k \in Q : \A j \in Q : <<j, k>> \notin OpToRel(<, Nat)
  BY NatLessThanWellFounded, WFMin
<1>2. \A j \in Q : ~(j < k)
  BY <1>1 DEF OpToRel
<1> QED
  BY <1>2

\* g is a run of n steps over values of X: F[i][x] is what step i makes of x.
IsLoop(g, F, base, n, X) ==
  g \in [0 .. n -> X] /\ g[0] = base /\ \A i \in 1 .. n : g[i] = F[i][g[i - 1]]
Steps(n, X) == [1 .. n -> [X -> X]]

\* Every loop has a run.
LEMMA LoopRuns ==
  ASSUME NEW X, NEW base \in X, NEW n \in Nat, NEW F \in Steps(n, X)
  PROVE  \E g : IsLoop(g, F, base, n, X)
<1> DEFINE Run(k, g) == g[0] = base /\ \A i \in 1 .. k : g[i] = F[i][g[i - 1]]
           Q == {k \in 0 .. n : ~ \E g \in [0 .. k -> X] : Run(k, g)}
<1>6. F \in [1 .. n -> [X -> X]]
  BY DEF Steps
<1>0. SUFFICES ASSUME ~ \E g \in [0 .. n -> X] : Run(n, g) PROVE FALSE
  BY DEF IsLoop
<1>1. n \in Q
  BY <1>0
<1>2. PICK k \in Q : \A j \in Q : k <= j
  <2>1. Q \in SUBSET Nat
    OBVIOUS
  <2> HIDE DEF Q
  <2> QED
    BY <1>1, <2>1, LeastNat
<1>3. k \in 0 .. n /\ ~ \E g \in [0 .. k -> X] : Run(k, g)
  BY <1>2
<1>4. CASE k = 0
  <2>1. [i \in 0 .. 0 |-> base] \in [0 .. 0 -> X] /\ Run(0, [i \in 0 .. 0 |-> base])
    OBVIOUS
  <2> QED
    BY <1>3, <1>4, <2>1
<1>5. CASE k # 0
  <2>1. k - 1 \in 0 .. n /\ k - 1 \notin Q
    <3>1. k \in Int /\ k - 1 \in 0 .. n /\ ~(k <= k - 1)
      BY <1>3, <1>5
    <3> HIDE DEF Q
    <3> QED
      BY <1>2, <3>1
  <2>2. PICK g \in [0 .. k - 1 -> X] : Run(k - 1, g)
    BY <2>1
  <2> DEFINE h == [i \in 0 .. k |-> IF i = k THEN F[k][g[k - 1]] ELSE g[i]]
  <2>3. k \in 1 .. n /\ k - 1 \in 0 .. k - 1
    BY <1>3, <1>5
  <2>4. F[k][g[k - 1]] \in X
    BY <1>6, <2>3
  <2>5. h \in [0 .. k -> X]
    BY <2>3, <2>4
  <2>6. Run(k, h)
    <3>1. h[0] = base
      BY <2>2, <2>3
    <3>2. ASSUME NEW i \in 1 .. k PROVE h[i] = F[i][h[i - 1]]
      BY <2>2, <2>3
    <3> QED
      BY <3>1, <3>2
  <2> QED
    BY <1>3, <2>5, <2>6
<1> QED
  BY <1>4, <1>5

\* kept is the function of the loop that Selected is defined by.
IsKept(kept, q, I) ==
  kept = [i \in 0 .. Len(q) |->
            IF i = 0 THEN <<>>
            ELSE IF i \in I THEN Append(kept[i - 1], q[i]) ELSE kept[i - 1]]

\* Selected is the end of a run of its loop.
LEMMA SelectedRuns ==
  ASSUME NEW X, NEW q \in Seq(X), NEW I
  PROVE  \E kept : IsKept(kept, q, I) /\ Selected(q, I) = kept[Len(q)]
<1>0. Len(q) \in Nat /\ \A i \in 1 .. Len(q) : q[i] \in X
  OBVIOUS
<1>1. PICK n \in Nat : n = Len(q)
  BY <1>0
<1>21. PICK S : S = Seq(X)
  OBVIOUS
<1>22. PICK e : e = <<>>
  OBVIOUS
<1>2. e \in S
  BY <1>21, <1>22
<1>3. PICK F \in [1 .. n -> [S -> S]] :
        F = [i \in 1 .. n |-> [r \in S |-> IF i \in I THEN Append(r, q[i]) ELSE r]]
  <2> DEFINE G == [i \in 1 .. n |-> [r \in S |-> IF i \in I THEN Append(r, q[i]) ELSE r]]
  <2>1. G \in [1 .. n -> [S -> S]]
    BY <1>0, <1>1, <1>21
  <2> QED
    BY <2>1, Zenon
<1>4. PICK g \in [0 .. n -> S] : g[0] = e /\ \A i \in 1 .. n : g[i] = F[i][g[i - 1]]
  <2>1. F \in Steps(n, S)
    BY DEF Steps
  <2>2. \E g : IsLoop(g, F, e, n, S)
    BY <1>2, <2>1, LoopRuns, Zenon
  <2> QED
    BY <2>2 DEF IsLoop
<1>5. ASSUME NEW i \in 1 .. n
      PROVE  g[i] = IF i \in I THEN Append(g[i - 1], q[i]) ELSE g[i - 1]
  <2>1. g[i - 1] \in S
    OBVIOUS
  <2>2. F[i][g[i - 1]] = IF i \in I THEN Append(g[i - 1], q[i]) ELSE g[i - 1]
    BY <1>3, <2>1
  <2> QED
    BY <1>4, <2>2
<1>6. IsKept(g, q, I)
  <2>1. g = [i \in 0 .. n |->
               IF i = 0 THEN <<>>
               ELSE IF i \in I THEN Append(g[i - 1], q[i]) ELSE g[i - 1]]
    <3>1. \A i \in 0 .. n : g[i] = IF i = 0 THEN <<>>
               ELSE IF i \in I THEN Append(g[i - 1], q[i]) ELSE g[i - 1]
      <4>1. g[0] = <<>>
        BY <1>22, <1>4
      <4>2. \A i \in 0 .. n : i = 0 \/ i \in 1 .. n
        OBVIOUS
      <4> QED
        BY <4>1, <4>2, <1>5
    <3> QED
      BY <3>1
  <2> QED
    BY <1>1, <2>1 DEF IsKept
<1> DEFINE it == CHOOSE h : IsKept(h, q, I)
<1>7. IsKept(it, q, I)
  BY <1>6, Zenon
<1>8. Selected(q, I) = it[Len(q)]
  BY DEF Selected, IsKept
<1> QED
  BY <1>7, <1>8

\* r has the elements of q at the indices J, each once: f says where they come from.
Picks(f, r, q, J) ==
  /\ f \in [1 .. Len(r) -> J]
  /\ \A k \in 1 .. Len(r) : r[k] = q[f[k]]
  /\ \A k, l \in 1 .. Len(r) : f[k] = f[l] => k = l
  /\ \A j \in J : \E k \in 1 .. Len(r) : f[k] = j

\* A list that is extended by one element.
LEMMA PicksAppend ==
  ASSUME NEW X, NEW q \in Seq(X), NEW r \in Seq(X), NEW J, NEW f, Picks(f, r, q, J),
         NEW j, j \notin J, q[j] \in X
  PROVE  \E g : Picks(g, Append(r, q[j]), q, J \cup {j})
<1>1. PICK n \in Nat : n = Len(r)
  OBVIOUS
<1>2. PICK a \in Seq(X) : a = Append(r, q[j])
  <2>1. Append(r, q[j]) \in Seq(X)
    OBVIOUS
  <2> QED
    BY <2>1, Zenon
<1>3. Len(a) = n + 1 /\ a[n + 1] = q[j] /\ \A k \in 1 .. n : a[k] = r[k]
  BY <1>1, <1>2
<1> DEFINE g == [k \in 1 .. n + 1 |-> IF k = n + 1 THEN j ELSE f[k]]
<1>4. \A k \in 1 .. n + 1 : k = n + 1 \/ k \in 1 .. n
  OBVIOUS
<1>5. g[n + 1] = j /\ \A k \in 1 .. n : g[k] = f[k] /\ f[k] \in J
  <2>1. f \in [1 .. n -> J] /\ n + 1 \in 1 .. n + 1 /\ \A k \in 1 .. n : k \in 1 .. n + 1 /\ k # n + 1
    BY <1>1 DEF Picks
  <2> QED
    BY <2>1
<1>6. g \in [1 .. n + 1 -> J \cup {j}]
  BY <1>4, <1>5
<1>7. \A k \in 1 .. n + 1 : a[k] = q[g[k]]
  BY <1>1, <1>3, <1>4, <1>5 DEF Picks
<1> HIDE DEF g
<1>8. \A k, l \in 1 .. n + 1 : g[k] = g[l] => k = l
  BY <1>1, <1>4, <1>5 DEF Picks
<1>9. \A i \in J \cup {j} : \E k \in 1 .. n + 1 : g[k] = i
  <2>1. ASSUME NEW i \in J PROVE \E k \in 1 .. n + 1 : g[k] = i
    <3>1. PICK k \in 1 .. n : f[k] = i
      BY <1>1 DEF Picks
    <3>2. g[k] = i /\ k \in 1 .. n + 1
      BY <1>5, <3>1
    <3> QED
      BY <3>2
  <2>2. n + 1 \in 1 .. n + 1
    OBVIOUS
  <2> QED
    BY <1>5, <2>1, <2>2
<1>10. Picks(g, a, q, J \cup {j})
  BY <1>3, <1>6, <1>7, <1>8, <1>9 DEF Picks
<1> QED
  BY <1>2, <1>10

\* Selected has the elements at the given indices, each once, and no others.
LEMMA SelectedPicks ==
  ASSUME NEW X, NEW q \in Seq(X), NEW I \in SUBSET (1 .. Len(q))
  PROVE  /\ Selected(q, I) \in Seq(X) /\ Len(Selected(q, I)) <= Len(q)
         /\ \E f : Picks(f, Selected(q, I), q, I)
<1>1. PICK kept : IsKept(kept, q, I) /\ Selected(q, I) = kept[Len(q)]
  BY SelectedRuns
<1>2. PICK n \in Nat : n = Len(q)
  OBVIOUS
<1> DEFINE Good(k) == /\ kept[k] \in Seq(X) /\ Len(kept[k]) <= k
                      /\ \E f : Picks(f, kept[k], q, I \cap (1 .. k))
           Q == {k \in 0 .. n : ~Good(k)}
<1>3. kept[0] = <<>> /\ \A k \in 1 .. n :
        kept[k] = IF k \in I THEN Append(kept[k - 1], q[k]) ELSE kept[k - 1]
  <2>1. \A k \in 0 .. n : kept[k] = IF k = 0 THEN <<>>
          ELSE IF k \in I THEN Append(kept[k - 1], q[k]) ELSE kept[k - 1]
    BY <1>1, <1>2, Zenon DEF IsKept
  <2>2. 0 \in 0 .. n /\ \A k \in 1 .. n : k \in 0 .. n /\ k # 0
    OBVIOUS
  <2> QED
    BY <2>1, <2>2, Zenon
<1>4. Good(0)
  <2>1. I \cap (1 .. 0) = {}
    OBVIOUS
  <2>2. Picks([i \in 1 .. 0 |-> 0], <<>>, q, {})
    BY DEF Picks
  <2> QED
    BY <1>3, <2>1, <2>2
<1>5. ASSUME NEW k \in 1 .. n, Good(k - 1) PROVE Good(k)
  <2>1. PICK f : Picks(f, kept[k - 1], q, I \cap (1 .. k - 1))
    BY <1>5
  <2>2. kept[k - 1] \in Seq(X) /\ Len(kept[k - 1]) <= k - 1 /\ q[k] \in X
    BY <1>2, <1>5
  <2>3. CASE k \in I
    <3>1. I \cap (1 .. k) = (I \cap (1 .. k - 1)) \cup {k} /\ k \notin I \cap (1 .. k - 1)
      BY <2>3
    <3>2. kept[k] = Append(kept[k - 1], q[k])
      BY <1>3, <2>3
    <3>3. \E g : Picks(g, kept[k], q, I \cap (1 .. k))
      <4>1. \E g : Picks(g, Append(kept[k - 1], q[k]), q, (I \cap (1 .. k - 1)) \cup {k})
        BY <2>1, <2>2, <3>1, PicksAppend
      <4> QED
        BY <3>1, <3>2, <4>1, Zenon
    <3>4. kept[k] \in Seq(X) /\ Len(kept[k]) <= k
      BY <2>2, <3>2
    <3> QED
      BY <3>3, <3>4
  <2>4. CASE k \notin I
    <3>1. I \cap (1 .. k) = I \cap (1 .. k - 1)
      BY <2>4
    <3>2. kept[k] = kept[k - 1]
      BY <1>3, <2>4
    <3>3. Len(kept[k - 1]) \in Nat
      BY <2>2
    <3>4. Picks(f, kept[k], q, I \cap (1 .. k))
      BY <2>1, <3>1, <3>2, Zenon
    <3> QED
      BY <2>2, <3>2, <3>3, <3>4
  <2> QED
    BY <2>3, <2>4
<1> HIDE DEF Good
<1>6. Q = {}
  <2> SUFFICES ASSUME Q # {} PROVE FALSE
    OBVIOUS
  <2>1. PICK k \in Q : \A j \in Q : k <= j
    <3>1. Q \in SUBSET Nat
      OBVIOUS
    <3> HIDE DEF Q
    <3> QED
      BY <3>1, LeastNat
  <2>2. k # 0 /\ k - 1 \in 0 .. n /\ k - 1 \notin Q /\ k \in 1 .. n
    BY <1>4, <2>1
  <2> QED
    BY <1>5, <2>1, <2>2
<1>7. Good(n)
  BY <1>6
<1>8. I \cap (1 .. n) = I
  BY <1>2
<1> QED
  BY <1>1, <1>2, <1>7, <1>8 DEF Good

-----------------------------------------------------------------------------
(* The invariant: every transaction read from the source is in at most one   *)
(* list, in the shard that has to execute it next, and its stage says what   *)
(* the chains have executed of it.                                           *)

Ids(q) == {q[i].id : i \in DOMAIN q}

Distinct(q) == \A i, j \in DOMAIN q : q[i].id = q[j].id => i = j

Apart(q, r) == Ids(q) \cap Ids(r) = {}

\* t is one of the first rd transactions of the source, unaltered but for its stage.
Genuine(t, rd) ==
  \E i \in 1 .. rd : /\ t.id = Source[i].id /\ t.value = Source[i].value
                     /\ t.from = Source[i].from /\ t.to = Source[i].to

\* A relay2 transaction has debited, the others have not, and none has credited.
Live(t, rd, ex) ==
  /\ Genuine(t, rd)
  /\ ex[t.id] = [debit |-> IF t.stage = "relay2" THEN 1 ELSE 0, credit |-> 0]

\* The shard that executes the next half of t.
Station(t) == IF t.stage = "relay2" THEN Home[t.to] ELSE Home[t.from]

\* A list of shard s, with rd transactions read and ex executed.
ListOK(q, s, rd, ex) ==
  /\ q \in Seq(Tx) /\ Distinct(q)
  /\ \A i \in DOMAIN q : Live(q[i], rd, ex) /\ Station(q[i]) = s

\* A block has no cross-shard transaction that is not marked.
BlockOK(b, s, rd, ex) ==
  /\ ListOK(b, s, rd, ex)
  /\ \A i \in DOMAIN b : b[i].stage = "undetermined" => Home[b[i].to] = s

ListTypes ==
  /\ read \in 0 .. Len(Source) /\ unsent \in Nat
  /\ pool \in [Shard -> Seq(Tx)]
  /\ proposal \in [Shard -> SUBSET Seq(Tx)]
  /\ executed \in [TxId -> [debit : Nat, credit : Nat]]

ListsInv ==
  /\ \A m \in txMsgs : m.to \in Shard /\ ListOK(m.txs, m.to, read, executed)
  /\ \A s \in Shard : ListOK(pool[s], s, read, executed)
  /\ \A s \in Shard : \A b \in proposal[s] : BlockOK(b, s, read, executed)

ApartInv ==
  /\ \A m, k \in txMsgs : m # k => Apart(m.txs, k.txs)
  /\ \A s, r \in Shard : s # r => Apart(pool[s], pool[r])
  /\ \A s \in Shard : \A b \in proposal[s] : proposal[s] = {b}
  /\ \A s, r \in Shard : s # r => \A b \in proposal[s], c \in proposal[r] : Apart(b, c)
  /\ \A m \in txMsgs, s \in Shard : Apart(m.txs, pool[s])
  /\ \A m \in txMsgs, s \in Shard : \A b \in proposal[s] : Apart(m.txs, b)
  /\ \A s, r \in Shard : \A b \in proposal[r] : Apart(pool[s], b)

\* A transaction that has debited was read, and it credits after it has debited.
DoneOK(ex, rd) ==
  \A t \in TxId :
    /\ ex[t] \in {[debit |-> 0, credit |-> 0], [debit |-> 1, credit |-> 0],
                  [debit |-> 1, credit |-> 1]}
    /\ ex[t].debit = 1 => \E i \in 1 .. rd : t = Source[i].id

RelayInv == ListTypes /\ ListsInv /\ ApartInv /\ DoneOK(executed, read)

-----------------------------------------------------------------------------
(* What the operators do to lists. *)

\* The source is a sequence of payments between accounts.
LEMMA SourceFacts ==
  /\ Len(Source) \in Nat /\ DOMAIN Source = 1 .. Len(Source)
  /\ \A i \in 1 .. Len(Source) :
       /\ Source[i].id \in TxId /\ Source[i].from \in Account /\ Source[i].to \in Account
       /\ Source[i].value \in Nat
  /\ \A i, j \in 1 .. Len(Source) : Source[i].id = Source[j].id => i = j
  /\ Home \in [Account -> Shard]
<1> DEFINE R == [id : {Source[i].id : i \in DOMAIN Source}, from : Account, to : Account, value : Nat]
<1>1. Source \in Seq(R)
  BY RelayAssumption
<1>2. \A r \in R : r.from \in Account /\ r.to \in Account /\ r.value \in Nat
  OBVIOUS
<1> HIDE DEF R
<1>3. /\ Len(Source) \in Nat /\ DOMAIN Source = 1 .. Len(Source)
      /\ \A i \in 1 .. Len(Source) : Source[i] \in R
  BY <1>1
<1>4. \A i \in 1 .. Len(Source) : Source[i].id \in TxId
  BY <1>3 DEF TxId
<1> QED
  BY <1>2, <1>3, <1>4, RelayAssumption

\* A list stays correct while none of its transactions is executed.
LEMMA ListKept ==
  ASSUME NEW q, NEW s, NEW rd \in Nat, NEW rd2 \in Nat, rd <= rd2, NEW ex, NEW ex2,
         \A i \in DOMAIN q : ex2[q[i].id] = ex[q[i].id]
  PROVE  /\ ListOK(q, s, rd, ex) => ListOK(q, s, rd2, ex2)
         /\ BlockOK(q, s, rd, ex) => BlockOK(q, s, rd2, ex2)
<1>1. \A i \in 1 .. rd : i \in 1 .. rd2
  OBVIOUS
<1>2. \A t : Genuine(t, rd) => Genuine(t, rd2)
  BY <1>1 DEF Genuine
<1> QED
  BY <1>2 DEF ListOK, BlockOK, Live

\* The elements of a sequence of transactions.
LEMMA ListElements ==
  ASSUME NEW q \in Seq(Tx)
  PROVE  /\ Len(q) \in Nat /\ DOMAIN q = 1 .. Len(q)
         /\ \A i \in 1 .. Len(q) : q[i] \in Tx /\ q[i].id \in TxId /\ q[i].from \in Account
                                /\ q[i].to \in Account /\ q[i].value \in Nat
                                /\ q[i].stage \in Stage
<1>1. \A t \in Tx : /\ t.id \in TxId /\ t.from \in Account /\ t.to \in Account
                     /\ t.value \in Nat /\ t.stage \in Stage
  BY DEF Tx
<1> QED
  BY <1>1

\* Selected keeps a list without duplicates so.
LEMMA SelectedList ==
  ASSUME NEW q \in Seq(Tx), Distinct(q), NEW I \in SUBSET DOMAIN q,
         NEW r, r = Selected(q, I)
  PROVE  /\ r \in Seq(Tx) /\ Distinct(r) /\ Len(r) <= Len(q)
         /\ \A k \in DOMAIN r : \E i \in I : r[k] = q[i]
         /\ \A i \in I : \E k \in DOMAIN r : r[k] = q[i]
<1>1. I \in SUBSET (1 .. Len(q)) /\ DOMAIN q = 1 .. Len(q)
  OBVIOUS
<1>2. r \in Seq(Tx) /\ Len(r) <= Len(q)
  BY <1>1, SelectedPicks
<1>3. PICK f : Picks(f, r, q, I)
  BY <1>1, SelectedPicks
<1>4. DOMAIN r = 1 .. Len(r)
  BY <1>2
<1>5. \A k \in DOMAIN r : f[k] \in I /\ r[k] = q[f[k]]
  BY <1>3, <1>4 DEF Picks
<1>6. Distinct(r)
  BY <1>1, <1>3, <1>4, <1>5 DEF Picks, Distinct
<1>7. \A i \in I : \E k \in DOMAIN r : r[k] = q[i]
  BY <1>3, <1>4, <1>5 DEF Picks
<1> QED
  BY <1>2, <1>5, <1>6, <1>7

\* The ids of a list that has elements of another one.
LEMMA IdsWithin ==
  ASSUME NEW q, NEW r, \A k \in DOMAIN r : \E i \in DOMAIN q : r[k].id = q[i].id
  PROVE  Ids(r) \subseteq Ids(q)
BY DEF Ids

\* SendWrappedTxs2Shards: a transaction goes to its shard and to no other one.
LEMMA MsgsForFacts ==
  ASSUME NEW q \in Seq(Tx), Distinct(q), NEW dest
  PROVE  /\ \A m \in TxMsgsFor(q, dest) :
              /\ m.to \in Shard /\ m.txs \in Seq(Tx) /\ Distinct(m.txs)
              /\ \A k \in DOMAIN m.txs : \E i \in DOMAIN q :
                   m.txs[k] = q[i] /\ dest[q[i]] = m.to
              /\ Ids(m.txs) \subseteq Ids(q)
         /\ \A m, n \in TxMsgsFor(q, dest) : m # n => Apart(m.txs, n.txs)
<1> DEFINE I(s) == {i \in DOMAIN q : dest[q[i]] = s}
<1>1. \A m \in TxMsgsFor(q, dest) : \E s \in Shard : m = [to |-> s, txs |-> Selected(q, I(s))]
  BY DEF TxMsgsFor
<1>2. ASSUME NEW m \in TxMsgsFor(q, dest)
      PROVE  /\ m.to \in Shard /\ m.txs = Selected(q, I(m.to))
             /\ m = [to |-> m.to, txs |-> m.txs]
  <2> HIDE DEF I
  <2>1. PICK s \in Shard : m = [to |-> s, txs |-> Selected(q, I(s))]
    BY <1>1
  <2>2. m.to = s /\ m.txs = Selected(q, I(s))
    BY <2>1
  <2> QED
    BY <2>1, <2>2
<1>3. ASSUME NEW m \in TxMsgsFor(q, dest)
      PROVE  /\ m.txs \in Seq(Tx) /\ Distinct(m.txs)
             /\ \A k \in DOMAIN m.txs : \E i \in I(m.to) : m.txs[k] = q[i]
  <2>1. I(m.to) \in SUBSET DOMAIN q
    OBVIOUS
  <2> HIDE DEF I
  <2> QED
    BY <1>2, <2>1, SelectedList
<1>4. ASSUME NEW m \in TxMsgsFor(q, dest)
      PROVE  Ids(m.txs) \subseteq Ids(q)
  BY <1>3 DEF Ids
<1>5. ASSUME NEW m \in TxMsgsFor(q, dest), NEW n \in TxMsgsFor(q, dest), m # n
      PROVE  Apart(m.txs, n.txs)
  <2>1. m.to # n.to
    BY <1>2, <1>5
  <2>2. ASSUME NEW k \in DOMAIN m.txs, NEW l \in DOMAIN n.txs PROVE m.txs[k].id # n.txs[l].id
    <3>1. PICK i \in I(m.to) : m.txs[k] = q[i]
      BY <1>3
    <3>2. PICK j \in I(n.to) : n.txs[l] = q[j]
      BY <1>3
    <3>3. i # j
      BY <2>1
    <3> QED
      BY <3>1, <3>2, <3>3 DEF Distinct
  <2> QED
    BY <2>2 DEF Apart, Ids
<1> QED
  BY <1>2, <1>3, <1>4, <1>5

\* The messages of correct transactions are correct when each goes to its station.
LEMMA MsgsSent ==
  ASSUME NEW q \in Seq(Tx), Distinct(q), NEW dest, NEW rd, NEW ex,
         \A i \in DOMAIN q : Live(q[i], rd, ex) /\ Station(q[i]) = dest[q[i]]
  PROVE  \A m \in TxMsgsFor(q, dest) : m.to \in Shard /\ ListOK(m.txs, m.to, rd, ex)
<1> SUFFICES ASSUME NEW m \in TxMsgsFor(q, dest)
             PROVE  m.to \in Shard /\ ListOK(m.txs, m.to, rd, ex)
  OBVIOUS
<1>1. /\ m.to \in Shard /\ m.txs \in Seq(Tx) /\ Distinct(m.txs)
      /\ \A k \in DOMAIN m.txs : \E i \in DOMAIN q : m.txs[k] = q[i] /\ dest[q[i]] = m.to
  BY MsgsForFacts
<1>2. ASSUME NEW k \in DOMAIN m.txs
      PROVE  Live(m.txs[k], rd, ex) /\ Station(m.txs[k]) = m.to
  <2>1. PICK i \in DOMAIN q : m.txs[k] = q[i] /\ dest[q[i]] = m.to
    BY <1>1
  <2>2. Live(q[i], rd, ex) /\ Station(q[i]) = m.to
    BY <2>1
  <2> QED
    BY <2>1, <2>2
<1> QED
  BY <1>1, <1>2 DEF ListOK

\* AddTxs: the lists of a pool and a message, which have no transaction in common.
LEMMA ListConcat ==
  ASSUME NEW q, NEW r, NEW s, NEW rd, NEW ex, ListOK(q, s, rd, ex), ListOK(r, s, rd, ex),
         Apart(q, r)
  PROVE  ListOK(q \o r, s, rd, ex) /\ Ids(q \o r) = Ids(q) \cup Ids(r)
<1>1. q \in Seq(Tx) /\ r \in Seq(Tx)
  BY DEF ListOK
<1>2. PICK c : c = q \o r
  OBVIOUS
<1>3. /\ c \in Seq(Tx) /\ DOMAIN c = 1 .. Len(q) + Len(r)
      /\ DOMAIN q = 1 .. Len(q) /\ DOMAIN r = 1 .. Len(r) /\ Len(q) \in Nat /\ Len(r) \in Nat
      /\ \A i \in 1 .. Len(q) : c[i] = q[i]
      /\ \A i \in 1 .. Len(r) : c[Len(q) + i] = r[i]
  BY <1>1, <1>2
<1>4. ASSUME NEW i \in DOMAIN c
      PROVE  \/ i \in DOMAIN q /\ c[i] = q[i]
             \/ i - Len(q) \in DOMAIN r /\ c[i] = r[i - Len(q)] /\ i \notin DOMAIN q
  <2>1. CASE i <= Len(q)
    BY <1>3, <2>1
  <2>2. CASE i > Len(q)
    <3>1. i - Len(q) \in 1 .. Len(r) /\ Len(q) + (i - Len(q)) = i
      BY <1>3, <2>2
    <3> QED
      BY <1>3, <2>2, <3>1
  <2> QED
    BY <1>3, <2>1, <2>2
<1>5. \A i \in DOMAIN q, j \in DOMAIN r : q[i].id # r[j].id
  BY DEF Apart, Ids
<1>6. Distinct(c)
  <2> SUFFICES ASSUME NEW i \in DOMAIN c, NEW j \in DOMAIN c, c[i].id = c[j].id PROVE i = j
    BY DEF Distinct
  <2>1. CASE i \in DOMAIN q /\ j \in DOMAIN q
    BY <1>4, <2>1 DEF ListOK, Distinct
  <2>2. CASE i \notin DOMAIN q /\ j \notin DOMAIN q
    <3>1. r[i - Len(q)].id = r[j - Len(q)].id /\ i - Len(q) \in DOMAIN r /\ j - Len(q) \in DOMAIN r
      BY <1>4, <2>2
    <3>2. i - Len(q) = j - Len(q)
      BY <3>1 DEF ListOK, Distinct
    <3> QED
      BY <1>3, <3>2
  <2>3. CASE ~(i \in DOMAIN q <=> j \in DOMAIN q)
    BY <1>4, <1>5, <2>3
  <2> QED
    BY <2>1, <2>2, <2>3
<1>7. Ids(c) = Ids(q) \cup Ids(r)
  <2>1. \A i \in DOMAIN c : c[i].id \in Ids(q) \cup Ids(r)
    BY <1>4 DEF Ids
  <2>2. \A i \in DOMAIN q : i \in DOMAIN c /\ c[i].id = q[i].id
    BY <1>3
  <2>3. \A i \in DOMAIN r : Len(q) + i \in DOMAIN c /\ c[Len(q) + i].id = r[i].id
    BY <1>3
  <2> QED
    BY <2>1, <2>2, <2>3 DEF Ids
<1>8. \A i \in DOMAIN c : Live(c[i], rd, ex) /\ Station(c[i]) = s
  BY <1>4 DEF ListOK
<1> QED
  BY <1>2, <1>3, <1>6, <1>7, <1>8 DEF ListOK

\* PackTxs cuts a queue somewhere, and by number it keeps to the limit.
LEMMA PackEndFacts ==
  ASSUME NEW X, NEW q \in Seq(X)
  PROVE  /\ PackEnd(q, BlockSizeLimit) \in 0 .. Len(q)
         /\ PoolType = "num" => PackEnd(q, BlockSizeLimit) <= BlockSizeLimit
<1>0. Len(q) \in Nat /\ BlockSizeLimit \in Nat /\ DOMAIN q = 1 .. Len(q)
  BY RelayAssumption
<1>1. NumEnd(q, BlockSizeLimit) \in 0 .. Len(q) /\ NumEnd(q, BlockSizeLimit) <= BlockSizeLimit
  BY <1>0 DEF NumEnd
<1>2. ByteEnd(q, BlockSizeLimit) \in 0 .. Len(q)
  <2> DEFINE left(i) == BlockSizeLimit - TxListSize("byte", SubSeq(q, 1, i - 1))
             stops == {i \in DOMAIN q : Size(q[i]) < left(i)}
  <2>1. ByteEnd(q, BlockSizeLimit) =
          IF stops = {} THEN Len(q)
          ELSE CHOOSE e \in 0 .. Len(q) : e + 1 \in stops /\ \A i \in stops : e < i
    BY DEF ByteEnd
  <2>2. stops \in SUBSET (1 .. Len(q))
    BY <1>0
  <2> HIDE DEF stops
  <2>3. ASSUME stops # {}
        PROVE  \E e \in 0 .. Len(q) : e + 1 \in stops /\ \A i \in stops : e < i
    <3>1. stops \in SUBSET Nat
      BY <2>2
    <3>2. PICK k \in stops : \A j \in stops : k <= j
      BY <2>3, <3>1, LeastNat
    <3>3. k - 1 \in 0 .. Len(q) /\ (k - 1) + 1 = k
      BY <1>0, <2>2
    <3>4. \A i \in stops : k - 1 < i
      BY <2>2, <3>2
    <3> QED
      BY <3>2, <3>3, <3>4
  <2> QED
    BY <1>0, <2>1, <2>3
<1> QED
  BY <1>1, <1>2 DEF PackEnd

\* The two parts of a queue that PackTxs cuts.
LEMMA CutFacts ==
  ASSUME NEW q, NEW s, NEW rd, NEW ex, ListOK(q, s, rd, ex), NEW n \in 0 .. Len(q)
  PROVE  /\ ListOK(SubSeq(q, 1, n), s, rd, ex) /\ ListOK(Rest(q, n), s, rd, ex)
         /\ Apart(SubSeq(q, 1, n), Rest(q, n)) /\ Len(SubSeq(q, 1, n)) = n
         /\ Ids(SubSeq(q, 1, n)) \subseteq Ids(q) /\ Ids(Rest(q, n)) \subseteq Ids(q)
<1>1. q \in Seq(Tx) /\ Len(q) \in Nat /\ DOMAIN q = 1 .. Len(q)
  BY DEF ListOK
<1>2. PICK a : a = SubSeq(q, 1, n)
  OBVIOUS
<1>3. PICK c : c = Rest(q, n)
  OBVIOUS
<1>4. /\ a \in Seq(Tx) /\ Len(a) = n /\ DOMAIN a = 1 .. n
      /\ \A i \in 1 .. n : a[i] = q[i] /\ i \in DOMAIN q
  BY <1>1, <1>2
<1>5. /\ c \in Seq(Tx) /\ DOMAIN c = 1 .. Len(q) - n
      /\ \A i \in 1 .. Len(q) - n : c[i] = q[n + i] /\ n + i \in DOMAIN q
  BY <1>1, <1>3 DEF Rest
<1>6. Distinct(a)
  BY <1>4 DEF ListOK, Distinct
<1>7. Distinct(c)
  <2> SUFFICES ASSUME NEW i \in DOMAIN c, NEW j \in DOMAIN c, c[i].id = c[j].id PROVE i = j
    BY DEF Distinct
  <2>1. n + i = n + j
    BY <1>5 DEF ListOK, Distinct
  <2> QED
    BY <1>1, <1>5, <2>1
<1>8. \A i \in DOMAIN a, j \in DOMAIN c : a[i].id # c[j].id
  <2> SUFFICES ASSUME NEW i \in DOMAIN a, NEW j \in DOMAIN c PROVE a[i].id # c[j].id
    OBVIOUS
  <2>1. i # n + j /\ i \in DOMAIN q /\ n + j \in DOMAIN q
    BY <1>1, <1>4, <1>5
  <2>2. a[i] = q[i] /\ c[j] = q[n + j]
    BY <1>4, <1>5
  <2>3. q[i].id # q[n + j].id
    BY <2>1 DEF ListOK, Distinct
  <2> QED
    BY <2>2, <2>3
<1>9. ListOK(a, s, rd, ex) /\ ListOK(c, s, rd, ex)
  BY <1>4, <1>5, <1>6, <1>7 DEF ListOK
<1>10. Apart(a, c)
  BY <1>8 DEF Apart, Ids
<1>11. Ids(a) \subseteq Ids(q) /\ Ids(c) \subseteq Ids(q)
  <2>1. \A k \in DOMAIN a : \E i \in DOMAIN q : a[k].id = q[i].id
    BY <1>4
  <2>2. \A k \in DOMAIN c : \E i \in DOMAIN q : c[k].id = q[i].id
    BY <1>5
  <2> QED
    BY <2>1, <2>2, IdsWithin
<1> QED
  BY <1>2, <1>3, <1>4, <1>9, <1>10, <1>11

\* modifyTxRelayOpt makes a correct block of correct transactions.
LEMMA ModifyFacts ==
  ASSUME NEW q, NEW s, NEW rd, NEW ex, ListOK(q, s, rd, ex)
  PROVE  /\ BlockOK(ModifyTxRelayOpt(s, q), s, rd, ex)
         /\ Len(ModifyTxRelayOpt(s, q)) <= Len(q)
         /\ Ids(ModifyTxRelayOpt(s, q)) \subseteq Ids(q)
<1> DEFINE here == {i \in DOMAIN q : q[i].stage # "undetermined" \/ Home[q[i].from] = s}
           Mark(t) == IF t.stage = "undetermined" /\ Home[t.to] # s
                      THEN [t EXCEPT !.stage = "relay1"] ELSE t
           marked == [i \in DOMAIN q |-> Mark(q[i])]
<1>1. q \in Seq(Tx) /\ Len(q) \in Nat /\ DOMAIN q = 1 .. Len(q) /\ \A i \in DOMAIN q : q[i] \in Tx
  BY DEF ListOK
<1>21. \A t \in Tx : Mark(t) \in Tx /\ Mark(t).id = t.id
  BY DEF Tx, Stage
<1>22. ASSUME NEW t \in Tx
       PROVE  /\ Live(t, rd, ex) => Live(Mark(t), rd, ex)
              /\ Station(Mark(t)) = Station(t)
              /\ Mark(t).stage = "undetermined" => Home[Mark(t).to] = s
  <2>1. /\ Mark(t).id = t.id /\ Mark(t).from = t.from /\ Mark(t).to = t.to
        /\ Mark(t).value = t.value
        /\ Mark(t).stage = IF t.stage = "undetermined" /\ Home[t.to] # s THEN "relay1" ELSE t.stage
    BY DEF Tx
  <2> HIDE DEF Mark
  <2>2. Genuine(t, rd) => Genuine(Mark(t), rd)
    BY <2>1 DEF Genuine
  <2>3. (Mark(t).stage = "relay2") <=> (t.stage = "relay2")
    BY <2>1
  <2>4. Live(t, rd, ex) => Live(Mark(t), rd, ex)
    BY <2>1, <2>2, <2>3 DEF Live
  <2>5. Station(Mark(t)) = Station(t)
    BY <2>1, <2>3 DEF Station
  <2>6. Mark(t).stage = "undetermined" => Home[Mark(t).to] = s
    BY <2>1
  <2> QED
    BY <2>4, <2>5, <2>6
<1>3. ModifyTxRelayOpt(s, q) = Selected(marked, here)
  BY DEF ModifyTxRelayOpt
<1> HIDE DEF Mark
<1>4. /\ marked \in Seq(Tx) /\ DOMAIN marked = DOMAIN q /\ Len(marked) = Len(q)
      /\ \A i \in DOMAIN q : marked[i] = Mark(q[i])
  BY <1>1, <1>21
<1>5. Distinct(marked)
  BY <1>1, <1>21, <1>4 DEF ListOK, Distinct
<1>6. here \in SUBSET DOMAIN marked
  BY <1>4
<1> HIDE DEF here, marked
<1>7. PICK r : r = Selected(marked, here)
  OBVIOUS
<1>8. /\ r \in Seq(Tx) /\ Distinct(r) /\ Len(r) <= Len(q)
      /\ \A k \in DOMAIN r : \E i \in here : r[k] = marked[i]
  BY <1>4, <1>5, <1>6, <1>7, SelectedList
<1>9. ASSUME NEW k \in DOMAIN r
      PROVE  \E i \in DOMAIN q : r[k] = Mark(q[i])
  BY <1>4, <1>6, <1>8
<1>10. ASSUME NEW k \in DOMAIN r
       PROVE  /\ Live(r[k], rd, ex) /\ Station(r[k]) = s
              /\ r[k].stage = "undetermined" => Home[r[k].to] = s
              /\ r[k].id \in Ids(q)
  <2>1. PICK i \in DOMAIN q : r[k] = Mark(q[i])
    BY <1>9
  <2>2. q[i] \in Tx /\ Live(q[i], rd, ex) /\ Station(q[i]) = s /\ q[i].id \in Ids(q)
    BY <1>1 DEF ListOK, Ids
  <2> DEFINE t == Mark(q[i])
  <2>3. /\ Live(t, rd, ex) /\ Station(t) = s /\ t.id \in Ids(q)
        /\ t.stage = "undetermined" => Home[t.to] = s
    BY <1>21, <1>22, <2>2, Zenon
  <2> QED
    BY <2>1, <2>3, Zenon
<1>11. BlockOK(r, s, rd, ex)
  BY <1>8, <1>10 DEF BlockOK, ListOK
<1>12. Ids(r) \subseteq Ids(q)
  BY <1>10, Zenon DEF Ids
<1> QED
  BY <1>3, <1>7, <1>8, <1>11, <1>12

-----------------------------------------------------------------------------
(* Every step preserves the invariant. *)

\* Parts of lists with no transaction in common have none in common.
LEMMA ApartWithin ==
  ASSUME NEW q, NEW r, NEW a, NEW b, Apart(q, r), Ids(a) \subseteq Ids(q), Ids(b) \subseteq Ids(r)
  PROVE  Apart(a, b) /\ Apart(b, a)
BY DEF Apart

\* Initially there are no lists.
LEMMA InitStep == Init => RelayInv
<1> SUFFICES ASSUME Init PROVE RelayInv
  OBVIOUS
<1>1. ListTypes
  <2>1. Len(Source) \in Nat
    BY SourceFacts
  <2>2. unsent \in Nat
    BY RelayAssumption DEF Init
  <2>3. executed \in [TxId -> [debit : Nat, credit : Nat]]
    BY DEF Init
  <2> QED
    BY <2>1, <2>2, <2>3 DEF Init, ListTypes
<1>2. ListsInv
  <2>1. \A s : ListOK(<<>>, s, read, executed)
    BY DEF ListOK, Distinct
  <2> QED
    BY <2>1 DEF Init, ListsInv
<1>3. ApartInv
  <2>1. Apart(<<>>, <<>>)
    BY DEF Apart, Ids
  <2> QED
    BY <2>1 DEF Init, ApartInv
<1>4. DoneOK(executed, read)
  BY DEF Init, DoneOK
<1> QED
  BY <1>1, <1>2, <1>3, <1>4 DEF RelayInv

\* The steps that touch no list, or only take a message away.
LEMMA FewerMsgsStep ==
  ASSUME RelayInv, UNCHANGED <<unsent, read, pool, proposal, executed>>,
         txMsgs' \subseteq txMsgs
  PROVE  RelayInv'
<1>1. ListTypes'
  BY DEF RelayInv, ListTypes
<1>2. ListsInv'
  BY DEF RelayInv, ListsInv
<1>3. ApartInv'
  BY DEF RelayInv, ApartInv
<1>4. DoneOK(executed, read)'
  BY DEF RelayInv, DoneOK
<1> QED
  BY <1>1, <1>2, <1>3, <1>4 DEF RelayInv

\* AddTxs moves the transactions of a message to the pool of its shard.
LEMMA ReceiveStep ==
  ASSUME RelayInv, NEW s \in Shard, NEW m \in txMsgs, HandleReceiveTxs(s, m)
  PROVE  RelayInv'
<1>1. /\ m.to = s /\ txMsgs' = txMsgs \ {m} /\ pool' = [pool EXCEPT ![s] = pool[s] \o m.txs]
      /\ read' = read /\ unsent' = unsent /\ proposal' = proposal /\ executed' = executed
  BY DEF HandleReceiveTxs, supVars, AddTxs
<1>2. /\ ListTypes /\ ListsInv /\ ApartInv /\ DoneOK(executed, read)
  BY DEF RelayInv
<1>3. PICK q : q = pool[s] \o m.txs
  OBVIOUS
<1>4. ListOK(q, s, read, executed) /\ Ids(q) = Ids(pool[s]) \cup Ids(m.txs)
  <2>1. /\ ListOK(pool[s], s, read, executed) /\ ListOK(m.txs, s, read, executed)
        /\ Apart(pool[s], m.txs)
    BY <1>1, <1>2 DEF ListsInv, ApartInv, Apart
  <2> QED
    BY <1>3, <2>1, ListConcat
<1>5. /\ pool'[s] = q /\ \A r \in Shard : r # s => pool'[r] = pool[r]
      /\ pool' \in [Shard -> Seq(Tx)]
  BY <1>1, <1>2, <1>3, <1>4 DEF ListTypes, ListOK
<1>6. ListTypes'
  BY <1>1, <1>2, <1>5 DEF ListTypes
<1>7. ListsInv'
  <2>1. \A r \in Shard : ListOK(pool'[r], r, read, executed)
    BY <1>2, <1>4, <1>5 DEF ListsInv
  <2> QED
    BY <1>1, <1>2, <2>1 DEF ListsInv
<1>8. ApartInv'
  <2>1. ASSUME NEW x, Apart(x, pool[s]) \/ Apart(pool[s], x), Apart(m.txs, x) \/ Apart(x, m.txs)
        PROVE  Apart(x, q) /\ Apart(q, x)
    BY <1>4, <2>1 DEF Apart
  <2>2. \A r, v \in Shard : r # v => Apart(pool'[r], pool'[v])
    <3> SUFFICES ASSUME NEW r \in Shard, NEW v \in Shard, r # v
                 PROVE  Apart(pool'[r], pool'[v])
      OBVIOUS
    <3>1. CASE r # s /\ v # s
      BY <1>2, <1>5, <3>1 DEF ApartInv
    <3>2. CASE r = s
      <4>1. Apart(pool[s], pool[v]) /\ Apart(m.txs, pool[v])
        BY <1>2, <3>2 DEF ApartInv
      <4> QED
        BY <1>5, <2>1, <3>2, <4>1
    <3>3. CASE v = s
      <4>1. Apart(pool[s], pool[r]) /\ Apart(m.txs, pool[r])
        BY <1>2, <3>3 DEF ApartInv
      <4> QED
        BY <1>5, <2>1, <3>3, <4>1
    <3> QED
      BY <3>1, <3>2, <3>3
  <2>3. \A k \in txMsgs', r \in Shard : Apart(k.txs, pool'[r])
    <3> SUFFICES ASSUME NEW k \in txMsgs', NEW r \in Shard PROVE Apart(k.txs, pool'[r])
      OBVIOUS
    <3>1. Apart(k.txs, pool[r]) /\ Apart(k.txs, m.txs)
      BY <1>1, <1>2 DEF ApartInv
    <3> QED
      BY <1>5, <2>1, <3>1
  <2>4. \A r, v \in Shard : \A b \in proposal[v] : Apart(pool'[r], b)
    <3> SUFFICES ASSUME NEW r \in Shard, NEW v \in Shard, NEW b \in proposal[v]
                 PROVE  Apart(pool'[r], b)
      OBVIOUS
    <3>1. Apart(pool[r], b) /\ Apart(m.txs, b)
      BY <1>2 DEF ApartInv
    <3> QED
      BY <1>5, <2>1, <3>1
  <2> QED
    BY <1>1, <1>2, <2>2, <2>3, <2>4 DEF ApartInv
<1>9. DoneOK(executed, read)'
  BY <1>1, <1>2 DEF DoneOK
<1> QED
  BY <1>6, <1>7, <1>8, <1>9 DEF RelayInv

\* BuildProposal cuts the queue and makes a block of its first part.
LEMMA BuildStep ==
  ASSUME RelayInv, NEW s \in Shard, BuildProposal(s)
  PROVE  RelayInv'
<1>0. ListTypes /\ ListsInv /\ ApartInv /\ DoneOK(executed, read)
  BY DEF RelayInv
<1>1. PICK n : n = PackEnd(pool[s], BlockSizeLimit)
  OBVIOUS
<1>2. PICK c : c = Rest(pool[s], n)
  OBVIOUS
<1>3. PICK b : b = ModifyTxRelayOpt(s, SubSeq(pool[s], 1, n))
  OBVIOUS
<1>4. /\ pool' = [pool EXCEPT ![s] = c] /\ proposal[s] = {}
      /\ proposal' = [proposal EXCEPT ![s] = {b}] \/ proposal' = proposal
      /\ read' = read /\ unsent' = unsent /\ txMsgs' = txMsgs /\ executed' = executed
  BY <1>1, <1>2, <1>3 DEF BuildProposal, supVars
<1>5. /\ ListOK(c, s, read, executed) /\ BlockOK(b, s, read, executed) /\ Apart(c, b)
      /\ Ids(b) \subseteq Ids(pool[s]) /\ Ids(c) \subseteq Ids(pool[s])
  <2>1. ListOK(pool[s], s, read, executed) /\ pool[s] \in Seq(Tx)
    BY <1>0 DEF ListsInv, ListTypes
  <2>2. n \in 0 .. Len(pool[s])
    BY <1>1, <2>1, PackEndFacts
  <2>3. PICK a : a = SubSeq(pool[s], 1, n)
    OBVIOUS
  <2>4. /\ ListOK(a, s, read, executed) /\ ListOK(c, s, read, executed) /\ Apart(a, c)
        /\ Ids(a) \subseteq Ids(pool[s]) /\ Ids(c) \subseteq Ids(pool[s])
    BY <1>2, <2>1, <2>2, <2>3, CutFacts
  <2>5. BlockOK(b, s, read, executed) /\ Ids(b) \subseteq Ids(a)
    BY <1>3, <2>3, <2>4, ModifyFacts
  <2> QED
    BY <2>4, <2>5, ApartWithin
<1>6. /\ pool'[s] = c /\ \A r \in Shard : r # s => pool'[r] = pool[r]
      /\ pool' \in [Shard -> Seq(Tx)]
      /\ \A r \in Shard : Ids(pool'[r]) \subseteq Ids(pool[r])
  BY <1>0, <1>4, <1>5 DEF ListTypes, ListOK
<1>7. /\ proposal' \in [Shard -> SUBSET Seq(Tx)]
      /\ \A r \in Shard : \A d \in proposal'[r] :
           \/ r = s /\ d = b /\ proposal'[s] = {b}
           \/ r # s /\ d \in proposal[r] /\ proposal'[r] = proposal[r]
  <2>1. b \in Seq(Tx) /\ proposal \in [Shard -> SUBSET Seq(Tx)]
    BY <1>0, <1>5 DEF ListTypes, ListOK, BlockOK
  <2>2. CASE proposal' = proposal
    BY <1>4, <2>1, <2>2
  <2>3. CASE proposal' = [proposal EXCEPT ![s] = {b}]
    <3>1. proposal'[s] = {b} /\ \A r \in Shard : r # s => proposal'[r] = proposal[r]
      BY <2>1, <2>3
    <3>2. proposal' \in [Shard -> SUBSET Seq(Tx)]
      BY <2>1, <2>3
    <3> QED
      BY <3>1, <3>2
  <2> QED
    BY <1>4, <2>2, <2>3
<1>8. ListTypes'
  BY <1>0, <1>4, <1>6, <1>7 DEF ListTypes
<1>9. ListsInv'
  <2>1. \A r \in Shard : ListOK(pool'[r], r, read, executed)
    BY <1>0, <1>5, <1>6 DEF ListsInv
  <2>2. \A r \in Shard : \A d \in proposal'[r] : BlockOK(d, r, read, executed)
    BY <1>0, <1>5, <1>7 DEF ListsInv
  <2> QED
    BY <1>0, <1>4, <2>1, <2>2 DEF ListsInv
<1>10. ApartInv'
  <2>1. \A r, v \in Shard : r # v => Apart(pool'[r], pool'[v])
    BY <1>0, <1>6, ApartWithin DEF ApartInv
  <2>2. \A r \in Shard : \A d \in proposal'[r] : proposal'[r] = {d}
    BY <1>0, <1>7 DEF ApartInv
  <2>3. \A m \in txMsgs, r \in Shard : Apart(m.txs, pool'[r])
    BY <1>0, <1>6, ApartWithin DEF ApartInv
  <2>4. ASSUME NEW r \in Shard, NEW v \in Shard, r # v, NEW d \in proposal'[r],
               NEW e \in proposal'[v]
        PROVE  Apart(d, e)
    <3>1. CASE r # s /\ v # s
      BY <1>0, <1>7, <2>4, <3>1 DEF ApartInv
    <3>2. CASE r = s
      <4>1. d = b /\ e \in proposal[v]
        BY <1>7, <2>4, <3>2
      <4>2. Apart(pool[s], e)
        BY <1>0, <4>1 DEF ApartInv
      <4> QED
        BY <1>5, <4>1, <4>2, ApartWithin
    <3>3. CASE v = s
      <4>1. e = b /\ d \in proposal[r]
        BY <1>7, <2>4, <3>3
      <4>2. Apart(pool[s], d)
        BY <1>0, <4>1 DEF ApartInv
      <4> QED
        BY <1>5, <4>1, <4>2, ApartWithin
    <3> QED
      BY <3>1, <3>2, <3>3
  <2>5. ASSUME NEW m \in txMsgs, NEW r \in Shard, NEW d \in proposal'[r]
        PROVE  Apart(m.txs, d)
    <3>1. CASE r # s
      BY <1>0, <1>7, <3>1 DEF ApartInv
    <3>2. CASE r = s
      <4>1. d = b /\ Apart(m.txs, pool[s])
        BY <1>0, <1>7, <3>2 DEF ApartInv
      <4> QED
        BY <1>5, <4>1, ApartWithin
    <3> QED
      BY <3>1, <3>2
  <2>6. ASSUME NEW v \in Shard, NEW r \in Shard, NEW d \in proposal'[r]
        PROVE  Apart(pool'[v], d)
    <3>1. CASE r # s
      <4>1. Apart(pool[v], d)
        BY <1>0, <1>7, <3>1 DEF ApartInv
      <4> QED
        BY <1>6, <4>1, ApartWithin
    <3>2. CASE r = s /\ v # s
      <4>1. d = b /\ Apart(pool[v], pool[s])
        BY <1>0, <1>7, <3>2 DEF ApartInv
      <4> QED
        BY <1>5, <1>6, <4>1, ApartWithin
    <3>3. CASE r = s /\ v = s
      BY <1>5, <1>6, <1>7, <3>3
    <3> QED
      BY <3>1, <3>2, <3>3
  <2>7. \A m, k \in txMsgs : m # k => Apart(m.txs, k.txs)
    BY <1>0 DEF ApartInv
  <2> QED
    BY <1>4, <2>1, <2>2, <2>3, <2>4, <2>5, <2>6, <2>7 DEF ApartInv
<1>11. DoneOK(executed, read)'
  BY <1>0, <1>4 DEF DoneOK
<1> QED
  BY <1>8, <1>9, <1>10, <1>11 DEF RelayInv

\* The smaller one of two numbers.
LEMMA SmallerOf ==
  ASSUME NEW x \in Int, NEW y \in Int
  PROVE  Min({x, y}) = IF x <= y THEN x ELSE y
<1> DEFINE m == IF x <= y THEN x ELSE y
<1>1. m \in {x, y} /\ \A z \in {x, y} : m <= z
  OBVIOUS
<1>2. \A n \in {x, y} : (\A z \in {x, y} : n <= z) => n = m
  OBVIOUS
<1> QED
  BY <1>1, <1>2 DEF Min

\* Correct lists stay correct, and apart, when messages are added that have no
\* transaction in common with them.
LEMMA MsgsAdded ==
  ASSUME ApartInv, NEW New, txMsgs' = txMsgs \cup New, NEW drop \in SUBSET Shard,
         UNCHANGED pool,
         proposal' = [r \in Shard |-> IF r \in drop THEN {} ELSE proposal[r]],
         \A m, k \in New : m # k => Apart(m.txs, k.txs),
         \A m \in New : \A k \in txMsgs : Apart(k.txs, m.txs),
         \A m \in New : \A r \in Shard : Apart(pool[r], m.txs),
         \A m \in New : \A r \in Shard \ drop : \A b \in proposal[r] : Apart(b, m.txs)
  PROVE  ApartInv'
<1>0. \A q, r : Apart(q, r) => Apart(r, q)
  BY DEF Apart
<1>1. \A m, k \in txMsgs' : m # k => Apart(m.txs, k.txs)
  BY <1>0 DEF ApartInv
<1>2. \A m \in txMsgs', r \in Shard : Apart(m.txs, pool[r])
  BY <1>0 DEF ApartInv
<1>3. \A r \in Shard : \A b \in proposal'[r] :
        r \notin drop /\ b \in proposal[r] /\ proposal'[r] = proposal[r]
  OBVIOUS
<1>4. \A m \in txMsgs', r \in Shard : \A b \in proposal'[r] : Apart(m.txs, b)
  BY <1>0, <1>3 DEF ApartInv
<1>5. \A r \in Shard : \A b \in proposal'[r] : proposal'[r] = {b}
  BY <1>3 DEF ApartInv
<1>6. \A v, r \in Shard : v # r => \A b \in proposal'[v], c \in proposal'[r] : Apart(b, c)
  BY <1>3 DEF ApartInv
<1>7. \A v, r \in Shard : \A b \in proposal'[r] : Apart(pool[v], b)
  BY <1>3 DEF ApartInv
<1>8. \A v, r \in Shard : v # r => Apart(pool[v], pool[r])
  BY DEF ApartInv
<1> QED
  BY <1>1, <1>2, <1>4, <1>5, <1>6, <1>7, <1>8 DEF ApartInv

\* readTxsAndSend reads the next transactions of the source and sends each to its
\* sender's shard.
LEMMA ReadFacts ==
  ASSUME RelayInv, ReadTxsAndSend
  PROVE  \E size \in Nat, q \in Seq(Tx) :
           /\ unsent' \in Nat /\ read' = read + size
           /\ read \in Nat /\ read' \in Nat /\ read' \in 0 .. Len(Source) /\ read <= read'
           /\ \A i \in 1 .. size : read + i \in 1 .. Len(Source) /\ read + i > read
                                 /\ read + i <= read + size
           /\ Distinct(q) /\ DOMAIN q = 1 .. size
           /\ \A i \in 1 .. size :
                /\ q[i].id = Source[read + i].id /\ q[i].from = Source[read + i].from
                /\ q[i].to = Source[read + i].to /\ q[i].value = Source[read + i].value
                /\ q[i].stage = "undetermined"
           /\ txMsgs' = txMsgs \cup TxMsgsFor(q, [t \in ToSet(q) |-> Home[t.from]])
           /\ pool' = pool /\ proposal' = proposal /\ executed' = executed /\ dropped' = dropped
<1>0. ListTypes /\ ListsInv /\ ApartInv /\ DoneOK(executed, read)
  BY DEF RelayInv
<1>1. PICK size : size = Min({Min({TxInjectionSpeed, unsent}), Len(Source) - read})
  OBVIOUS
<1>2. size \in Nat /\ size <= unsent /\ size <= Len(Source) - read
  <2>1. /\ unsent \in Nat /\ read \in 0 .. Len(Source) /\ Len(Source) \in Nat
        /\ TxInjectionSpeed \in Nat
    BY <1>0, SourceFacts, RelayAssumption DEF ListTypes
  <2>2. PICK want : want = Min({TxInjectionSpeed, unsent})
    OBVIOUS
  <2>3. want \in Nat /\ want <= unsent
    BY <2>1, <2>2, SmallerOf
  <2>4. PICK rest : rest = Len(Source) - read
    OBVIOUS
  <2>5. rest \in Nat
    BY <2>1, <2>4
  <2>6. size = Min({want, rest})
    BY <1>1, <2>2, <2>4
  <2>7. size = IF want <= rest THEN want ELSE rest
    BY <2>3, <2>5, <2>6, SmallerOf
  <2> QED
    BY <2>1, <2>3, <2>4, <2>5, <2>7
<1> DEFINE item(i) == [id |-> Source[read + i].id, from |-> Source[read + i].from,
                       to |-> Source[read + i].to, value |-> Source[read + i].value,
                       stage |-> "undetermined"]
           dest(q) == [t \in ToSet(q) |-> Home[t.from]]
<1>3. PICK q : q = [i \in 1 .. size |-> item(i)]
  OBVIOUS
<1>4. /\ txMsgs' = txMsgs \cup TxMsgsFor(q, dest(q))
      /\ unsent' = unsent - size /\ read' = read + size
      /\ pool' = pool /\ proposal' = proposal /\ executed' = executed /\ dropped' = dropped
  BY <1>1, <1>3 DEF ReadTxsAndSend
<1>5. \A i \in 1 .. size : read + i \in 1 .. Len(Source) /\ read + i > read /\ read + i <= read + size
  BY <1>0, <1>2, SourceFacts DEF ListTypes
<1>6. \A i \in 1 .. size : item(i) \in Tx
  BY <1>5, SourceFacts DEF Tx, Stage
<1>7. /\ q \in Seq(Tx) /\ DOMAIN q = 1 .. size
      /\ \A i \in 1 .. size : q[i] = item(i)
  <2> HIDE DEF item
  <2> QED
    BY <1>2, <1>3, <1>6
<1>8. \A i \in 1 .. size : /\ q[i].id = Source[read + i].id /\ q[i].from = Source[read + i].from
                            /\ q[i].to = Source[read + i].to /\ q[i].value = Source[read + i].value
                            /\ q[i].stage = "undetermined"
  BY <1>7
<1> HIDE DEF item
<1>9. read \in Nat /\ read' \in Nat /\ read' \in 0 .. Len(Source) /\ read <= read'
  BY <1>0, <1>2, <1>4, SourceFacts DEF ListTypes
<1>10. Distinct(q)
  <2> SUFFICES ASSUME NEW i \in DOMAIN q, NEW j \in DOMAIN q, q[i].id = q[j].id PROVE i = j
    BY DEF Distinct
  <2>1. read + i = read + j
    BY <1>5, <1>7, <1>8, SourceFacts
  <2> QED
    BY <1>7, <1>9, <2>1
<1>11. unsent' \in Nat
  BY <1>0, <1>2, <1>4 DEF ListTypes
<1> HIDE DEF dest
<1>12. txMsgs' = txMsgs \cup TxMsgsFor(q, [t \in ToSet(q) |-> Home[t.from]])
  BY <1>4 DEF dest
<1> QED
  BY <1>2, <1>4, <1>5, <1>7, <1>8, <1>9, <1>10, <1>11, <1>12

\* No list has these transactions yet.
LEMMA ReadStep ==
  ASSUME RelayInv, ReadTxsAndSend
  PROVE  RelayInv'
<1>0. ListTypes /\ ListsInv /\ ApartInv /\ DoneOK(executed, read)
  BY DEF RelayInv
<1> DEFINE dest(q) == [t \in ToSet(q) |-> Home[t.from]]
<1>1. PICK size \in Nat, q \in Seq(Tx) :
        /\ unsent' \in Nat /\ read' = read + size
        /\ read \in Nat /\ read' \in Nat /\ read' \in 0 .. Len(Source) /\ read <= read'
        /\ \A i \in 1 .. size : read + i \in 1 .. Len(Source) /\ read + i > read
                              /\ read + i <= read + size
        /\ Distinct(q) /\ DOMAIN q = 1 .. size
        /\ \A i \in 1 .. size :
             /\ q[i].id = Source[read + i].id /\ q[i].from = Source[read + i].from
             /\ q[i].to = Source[read + i].to /\ q[i].value = Source[read + i].value
             /\ q[i].stage = "undetermined"
        /\ txMsgs' = txMsgs \cup TxMsgsFor(q, dest(q))
        /\ pool' = pool /\ proposal' = proposal /\ executed' = executed
  BY ReadFacts
<1>4. /\ txMsgs' = txMsgs \cup TxMsgsFor(q, dest(q))
      /\ read' = read + size
      /\ pool' = pool /\ proposal' = proposal /\ executed' = executed
  BY <1>1
<1>5. \A i \in 1 .. size : read + i \in 1 .. Len(Source) /\ read + i > read /\ read + i <= read + size
  BY <1>1
<1>7. q \in Seq(Tx) /\ DOMAIN q = 1 .. size
  BY <1>1
<1>8. \A i \in 1 .. size : /\ q[i].id = Source[read + i].id /\ q[i].from = Source[read + i].from
                            /\ q[i].to = Source[read + i].to /\ q[i].value = Source[read + i].value
                            /\ q[i].stage = "undetermined"
  BY <1>1
<1>9. read \in Nat /\ read' \in Nat /\ read' \in 0 .. Len(Source) /\ read <= read'
  BY <1>1
<1>10. Distinct(q)
  BY <1>1
<1>11. ASSUME NEW i \in DOMAIN q
       PROVE  Live(q[i], read', executed) /\ Station(q[i]) = dest(q)[q[i]]
  <2>1. Genuine(q[i], read')
    <3>1. read + i \in 1 .. read'
      BY <1>4, <1>5, <1>7, <1>9
    <3> QED
      BY <1>7, <1>8, <3>1 DEF Genuine
  <2>2. executed[q[i].id] = [debit |-> 0, credit |-> 0]
    <3>1. q[i].id \in TxId
      BY <1>5, <1>7, <1>8, SourceFacts
    <3>2. ASSUME executed[q[i].id].debit = 1 PROVE FALSE
      <4>1. PICK j \in 1 .. read : q[i].id = Source[j].id
        BY <1>0, <3>1, <3>2 DEF DoneOK
      <4>2. j \in 1 .. Len(Source) /\ j # read + i
        BY <1>0, <1>5, <1>7, <1>9, SourceFacts DEF ListTypes
      <4> QED
        BY <1>5, <1>7, <1>8, <4>1, <4>2, SourceFacts
    <3> QED
      BY <1>0, <3>1, <3>2 DEF DoneOK
  <2>3. Live(q[i], read', executed)
    BY <1>7, <1>8, <2>1, <2>2 DEF Live
  <2>4. q[i] \in ToSet(q)
    BY DEF ToSet
  <2> QED
    BY <1>7, <1>8, <2>3, <2>4 DEF Station
<1> DEFINE New == TxMsgsFor(q, dest(q))
<1>12. \A m \in New : m.to \in Shard /\ ListOK(m.txs, m.to, read', executed)
  <2> HIDE DEF dest
  <2> QED
    BY <1>7, <1>10, <1>11, MsgsSent
<1>13. /\ \A m \in New : Ids(m.txs) \subseteq Ids(q)
       /\ \A m, k \in New : m # k => Apart(m.txs, k.txs)
  <2> HIDE DEF dest
  <2> QED
    BY <1>7, <1>10, MsgsForFacts
<1> HIDE DEF New
<1>14. txMsgs' = txMsgs \cup New
  BY <1>4 DEF New
<1>15. ASSUME NEW l, NEW r, ListOK(l, r, read, executed), NEW m \in New
       PROVE  Apart(l, m.txs)
  <2>1. ASSUME NEW i \in DOMAIN l, NEW j \in DOMAIN q PROVE l[i].id # q[j].id
    <3>1. PICK k \in 1 .. read : l[i].id = Source[k].id
      BY <1>15 DEF ListOK, Live, Genuine
    <3>2. k \in 1 .. Len(Source) /\ k # read + j
      BY <1>0, <1>5, <1>7, <1>9, SourceFacts DEF ListTypes
    <3> QED
      BY <1>5, <1>7, <1>8, <3>1, <3>2, SourceFacts
  <2>2. Apart(l, q)
    BY <2>1 DEF Apart, Ids
  <2> QED
    BY <1>13, <2>2, ApartWithin
<1>16. ListTypes'
  BY <1>0, <1>1, <1>4, <1>9 DEF ListTypes
<1>17. \A l, r : /\ ListOK(l, r, read, executed) => ListOK(l, r, read', executed)
                 /\ BlockOK(l, r, read, executed) => BlockOK(l, r, read', executed)
  BY <1>9, ListKept
<1>18. ListsInv'
  BY <1>0, <1>4, <1>12, <1>14, <1>17 DEF ListsInv
<1>19. ApartInv'
  <2>1. proposal' = [r \in Shard |-> IF r \in {} THEN {} ELSE proposal[r]]
    BY <1>0, <1>4 DEF ListTypes
  <2>2. \A m \in New : \A k \in txMsgs : Apart(k.txs, m.txs)
    BY <1>0, <1>15 DEF ListsInv
  <2>3. \A m \in New : \A r \in Shard : Apart(pool[r], m.txs)
    BY <1>0, <1>15 DEF ListsInv
  <2>4. \A m \in New : \A r \in Shard : \A b \in proposal[r] : Apart(b, m.txs)
    BY <1>0, <1>15 DEF ListsInv, BlockOK
  <2>5. {} \in SUBSET Shard
    OBVIOUS
  <2> QED
    BY <1>0, <1>4, <1>13, <1>14, <2>1, <2>2, <2>3, <2>4, <2>5, MsgsAdded
<1>20. DoneOK(executed, read)'
  BY <1>0, <1>4, <1>9 DEF DoneOK
<1> QED
  BY <1>16, <1>18, <1>19, <1>20 DEF RelayInv

\* What a block of s adds to the counters of a transaction.
DebitCount(b, t, s) == Cardinality({i \in DOMAIN b : b[i].id = t /\ DebitedBy(s, b[i])})
CreditCount(b, t, s) == Cardinality({i \in DOMAIN b : b[i].id = t /\ CreditedBy(s, b[i])})

\* A transaction that is in a block once is counted once.
LEMMA CountFacts ==
  ASSUME NEW b, Distinct(b), NEW s, NEW t
  PROVE  /\ \A i \in DOMAIN b : b[i].id = t =>
              /\ DebitCount(b, t, s) = IF DebitedBy(s, b[i]) THEN 1 ELSE 0
              /\ CreditCount(b, t, s) = IF CreditedBy(s, b[i]) THEN 1 ELSE 0
         /\ t \notin Ids(b) => DebitCount(b, t, s) = 0 /\ CreditCount(b, t, s) = 0
         /\ DebitCount(b, t, s) \in Nat /\ CreditCount(b, t, s) \in Nat
<1>1. Cardinality({}) = 0 /\ \A i : Cardinality({i}) = 1
  BY FS_EmptySet, FS_Singleton
<1> DEFINE D == {i \in DOMAIN b : b[i].id = t /\ DebitedBy(s, b[i])}
           C == {i \in DOMAIN b : b[i].id = t /\ CreditedBy(s, b[i])}
<1>2. DebitCount(b, t, s) = Cardinality(D) /\ CreditCount(b, t, s) = Cardinality(C)
  BY DEF DebitCount, CreditCount
<1>3. ASSUME NEW i \in DOMAIN b, b[i].id = t
      PROVE  /\ D = IF DebitedBy(s, b[i]) THEN {i} ELSE {}
             /\ C = IF CreditedBy(s, b[i]) THEN {i} ELSE {}
  BY <1>3 DEF Distinct
<1>4. ASSUME t \notin Ids(b) PROVE D = {} /\ C = {}
  BY <1>4 DEF Ids
<1> HIDE DEF D, C
<1>5. ASSUME NEW i \in DOMAIN b, b[i].id = t
      PROVE  /\ Cardinality(D) = IF DebitedBy(s, b[i]) THEN 1 ELSE 0
             /\ Cardinality(C) = IF CreditedBy(s, b[i]) THEN 1 ELSE 0
  BY <1>1, <1>3, <1>5
<1>6. ASSUME t \notin Ids(b) PROVE Cardinality(D) = 0 /\ Cardinality(C) = 0
  BY <1>1, <1>4, <1>6
<1>7. Cardinality(D) \in Nat /\ Cardinality(C) \in Nat
  <2>1. CASE t \notin Ids(b)
    BY <1>6, <2>1
  <2>2. CASE t \in Ids(b)
    <3>1. PICK i \in DOMAIN b : b[i].id = t
      BY <2>2 DEF Ids
    <3> QED
      BY <1>5, <3>1
  <2> QED
    BY <2>1, <2>2
<1> QED
  BY <1>2, <1>5, <1>6, <1>7

\* What a committed block executes: its own transactions, and no other ones.
LEMMA CommitCounts ==
  ASSUME NEW s, NEW rd, NEW ex, NEW ex2, NEW b, BlockOK(b, s, rd, ex),
         ex \in [TxId -> [debit : Nat, credit : Nat]],
         ex2 = [t \in TxId |-> ex2[t]],
         \A t \in TxId : ex2[t] = [debit  |-> ex[t].debit + DebitCount(b, t, s),
                                   credit |-> ex[t].credit + CreditCount(b, t, s)]
  PROVE  /\ ex2 \in [TxId -> [debit : Nat, credit : Nat]]
         /\ \A t \in TxId : t \notin Ids(b) => ex2[t] = ex[t]
         /\ \A i \in DOMAIN b :
              ex2[b[i].id] = [debit |-> 1, credit |-> IF b[i].stage = "relay1" THEN 0 ELSE 1]
<1>1. b \in Seq(Tx) /\ Distinct(b)
  BY DEF BlockOK, ListOK
<1> DEFINE dc(t) == DebitCount(b, t, s)
           cc(t) == CreditCount(b, t, s)
<1>2. \A t \in TxId : ex2[t] = [debit  |-> ex[t].debit + dc(t),
                                credit |-> ex[t].credit + cc(t)]
  OBVIOUS
<1>3. ASSUME NEW t
      PROVE  /\ \A i \in DOMAIN b : b[i].id = t =>
                  /\ dc(t) = IF DebitedBy(s, b[i]) THEN 1 ELSE 0
                  /\ cc(t) = IF CreditedBy(s, b[i]) THEN 1 ELSE 0
             /\ t \notin Ids(b) => dc(t) = 0 /\ cc(t) = 0
             /\ dc(t) \in Nat /\ cc(t) \in Nat
  BY <1>1, CountFacts
<1> HIDE DEF dc, cc
<1>4. \A t \in TxId : dc(t) \in Nat /\ cc(t) \in Nat
  BY <1>3
<1>5. ex2 \in [TxId -> [debit : Nat, credit : Nat]]
  BY <1>2, <1>4
<1>6. ASSUME NEW t \in TxId, t \notin Ids(b) PROVE ex2[t] = ex[t]
  <2>1. dc(t) = 0 /\ cc(t) = 0
    BY <1>3, <1>6
  <2>2. ex[t] \in [debit : Nat, credit : Nat]
    OBVIOUS
  <2>3. ex[t].debit + 0 = ex[t].debit /\ ex[t].credit + 0 = ex[t].credit
    BY <2>2
  <2>4. ex2[t] = [debit |-> ex[t].debit, credit |-> ex[t].credit]
    BY <1>2, <2>1, <2>3
  <2> QED
    BY <2>2, <2>4
<1>7. ASSUME NEW i \in DOMAIN b
      PROVE  ex2[b[i].id] = [debit |-> 1, credit |-> IF b[i].stage = "relay1" THEN 0 ELSE 1]
  <2>1. b[i].id \in TxId /\ b[i].stage \in Stage
    BY <1>1, ListElements
  <2>2. PICK t \in TxId : t = b[i].id
    BY <2>1
  <2>3. ex[t] = [debit |-> IF b[i].stage = "relay2" THEN 1 ELSE 0, credit |-> 0]
    BY <2>2 DEF BlockOK, ListOK, Live
  <2>4. ex[t].debit = (IF b[i].stage = "relay2" THEN 1 ELSE 0) /\ ex[t].credit = 0
    BY <2>3
  <2>5. dc(t) = (IF b[i].stage = "relay2" THEN 0 ELSE 1) /\ cc(t) = (IF b[i].stage = "relay1" THEN 0 ELSE 1)
    <3>1. Station(b[i]) = s
      BY DEF BlockOK, ListOK
    <3>2. /\ dc(t) = IF DebitedBy(s, b[i]) THEN 1 ELSE 0
          /\ cc(t) = IF CreditedBy(s, b[i]) THEN 1 ELSE 0
      BY <1>3, <2>2
    <3> QED
      BY <2>1, <3>1, <3>2 DEF Station, DebitedBy, CreditedBy, Stage
  <2>6. /\ ex[t].debit + dc(t) = 1
        /\ ex[t].credit + cc(t) = IF b[i].stage = "relay1" THEN 0 ELSE 1
    BY <2>4, <2>5
  <2> QED
    BY <1>2, <2>2, <2>6
<1> QED
  BY <1>5, <1>6, <1>7

\* sendRelayedTxs sends the second halves of the relay1 transactions of a block.
LEMMA RelayedFacts ==
  ASSUME NEW b \in Seq(Tx), Distinct(b)
  PROVE  /\ RelayedTxs(b) \in Seq(Tx) /\ Distinct(RelayedTxs(b))
         /\ Ids(RelayedTxs(b)) \subseteq Ids(b)
         /\ \A k \in DOMAIN RelayedTxs(b) : \E i \in DOMAIN b :
              b[i].stage = "relay1" /\ RelayedTxs(b)[k] = [b[i] EXCEPT !.stage = "relay2"]
<1> DEFINE Relay(t) == [t EXCEPT !.stage = "relay2"]
           relayed == [i \in DOMAIN b |-> Relay(b[i])]
           I == {i \in DOMAIN b : b[i].stage = "relay1"}
<1>1. RelayedTxs(b) = Selected(relayed, I)
  BY DEF RelayedTxs
<1>2. \A t \in Tx : Relay(t) \in Tx /\ Relay(t).id = t.id
  BY DEF Tx, Stage
<1> HIDE DEF Relay
<1>3. DOMAIN b = 1 .. Len(b) /\ Len(b) \in Nat /\ \A i \in DOMAIN b : b[i] \in Tx
  OBVIOUS
<1>4. /\ relayed \in Seq(Tx) /\ DOMAIN relayed = DOMAIN b
      /\ \A i \in DOMAIN b : relayed[i] = Relay(b[i])
  BY <1>2, <1>3
<1>5. Distinct(relayed)
  BY <1>2, <1>3, <1>4 DEF Distinct
<1>6. I \in SUBSET DOMAIN relayed
  BY <1>4
<1>7. PICK r : r = RelayedTxs(b)
  OBVIOUS
<1> HIDE DEF relayed
<1>8. /\ r \in Seq(Tx) /\ Distinct(r)
      /\ \A k \in DOMAIN r : \E i \in I : r[k] = relayed[i]
  <2> HIDE DEF I
  <2> QED
    BY <1>1, <1>4, <1>5, <1>6, <1>7, SelectedList
<1>9. ASSUME NEW k \in DOMAIN r
      PROVE  \E i \in DOMAIN b : b[i].stage = "relay1" /\ r[k] = Relay(b[i])
  BY <1>4, <1>8
<1>10. ASSUME NEW k \in DOMAIN r PROVE \E i \in DOMAIN b : r[k].id = b[i].id
  <2>1. PICK i \in DOMAIN b : r[k] = Relay(b[i])
    BY <1>9
  <2>2. r[k].id = b[i].id
    BY <1>2, <1>3, <2>1
  <2> QED
    BY <2>2
<1>11. Ids(r) \subseteq Ids(b)
  BY <1>10, IdsWithin
<1> QED
  BY <1>7, <1>8, <1>9, <1>11 DEF Relay

\* What BlockCommitAndDeliver does to the states and the counters.
LEMMA CommitExecutes ==
  ASSUME RelayInv, NEW s \in Shard, BlockCommitAndDeliver(s)
  PROVE  \E b \in proposal[s] :
           /\ BlockOK(b, s, read, executed) /\ Execute(s, b).ok
           /\ balance' = [balance EXCEPT ![s] = DeleteEmpty(Execute(s, b).balance)]
           /\ txMsgs' = txMsgs \cup
                TxMsgsFor(RelayedTxs(b), [t \in ToSet(RelayedTxs(b)) |-> RelayDest(t)])
           /\ executed' \in [TxId -> [debit : Nat, credit : Nat]]
           /\ \A t \in TxId : t \notin Ids(b) => executed'[t] = executed[t]
           /\ \A i \in DOMAIN b : executed'[b[i].id]
                = [debit |-> 1, credit |-> IF b[i].stage = "relay1" THEN 0 ELSE 1]
<1>1. PICK b \in proposal[s] :
        /\ Execute(s, b).ok
        /\ balance' = [balance EXCEPT ![s] = DeleteEmpty(Execute(s, b).balance)]
        /\ txMsgs' = txMsgs \cup
             TxMsgsFor(RelayedTxs(b), [t \in ToSet(RelayedTxs(b)) |-> RelayDest(t)])
        /\ executed' = [t \in TxId |-> [debit  |-> executed[t].debit + DebitCount(b, t, s),
                                         credit |-> executed[t].credit + CreditCount(b, t, s)]]
  BY DEF BlockCommitAndDeliver, Count, DebitCount, CreditCount
<1>2. /\ BlockOK(b, s, read, executed)
      /\ executed \in [TxId -> [debit : Nat, credit : Nat]]
  BY DEF RelayInv, ListsInv, ListTypes
<1>3. /\ executed' = [t \in TxId |-> executed'[t]]
      /\ \A t \in TxId :
           executed'[t] = [debit  |-> executed[t].debit + DebitCount(b, t, s),
                           credit |-> executed[t].credit + CreditCount(b, t, s)]
  BY <1>1
<1>4. /\ executed' \in [TxId -> [debit : Nat, credit : Nat]]
      /\ \A t \in TxId : t \notin Ids(b) => executed'[t] = executed[t]
      /\ \A i \in DOMAIN b :
           executed'[b[i].id] = [debit |-> 1, credit |-> IF b[i].stage = "relay1" THEN 0 ELSE 1]
  BY <1>2, <1>3, CommitCounts
<1> QED
  BY <1>1, <1>2, <1>4

\* BlockCommitAndDeliver executes a block, and relays what it could do only half of.
LEMMA CommitStep ==
  ASSUME RelayInv, NEW s \in Shard, BlockCommitAndDeliver(s)
  PROVE  RelayInv'
<1>0. ListTypes /\ ListsInv /\ ApartInv /\ DoneOK(executed, read)
  BY DEF RelayInv
<1> DEFINE dest(q) == [t \in ToSet(q) |-> RelayDest(t)]
<1>1. PICK b \in proposal[s] :
        /\ txMsgs' = txMsgs \cup TxMsgsFor(RelayedTxs(b), dest(RelayedTxs(b)))
        /\ executed' \in [TxId -> [debit : Nat, credit : Nat]]
        /\ \A t \in TxId : t \notin Ids(b) => executed'[t] = executed[t]
        /\ \A i \in DOMAIN b :
             executed'[b[i].id] = [debit |-> 1, credit |-> IF b[i].stage = "relay1" THEN 0 ELSE 1]
  BY CommitExecutes
<1>2. /\ proposal' = [proposal EXCEPT ![s] = {}]
      /\ pool' = pool /\ read' = read /\ unsent' = unsent
  BY DEF BlockCommitAndDeliver, supVars
<1>3. /\ BlockOK(b, s, read, executed) /\ b \in Seq(Tx) /\ Distinct(b)
      /\ executed \in [TxId -> [debit : Nat, credit : Nat]] /\ read \in Nat
  BY <1>0, SourceFacts DEF ListsInv, ListTypes, BlockOK, ListOK
<1>4. /\ executed' \in [TxId -> [debit : Nat, credit : Nat]]
      /\ \A t \in TxId : t \notin Ids(b) => executed'[t] = executed[t]
      /\ \A i \in DOMAIN b :
           executed'[b[i].id] = [debit |-> 1, credit |-> IF b[i].stage = "relay1" THEN 0 ELSE 1]
  BY <1>1
<1>5. PICK r : r = RelayedTxs(b)
  OBVIOUS
<1>6. /\ r \in Seq(Tx) /\ Distinct(r) /\ Ids(r) \subseteq Ids(b)
      /\ \A k \in DOMAIN r : \E i \in DOMAIN b :
           b[i].stage = "relay1" /\ r[k] = [b[i] EXCEPT !.stage = "relay2"]
  BY <1>3, <1>5, RelayedFacts
<1>7. ASSUME NEW k \in DOMAIN r
      PROVE  Live(r[k], read, executed') /\ Station(r[k]) = dest(r)[r[k]]
  <2>1. PICK i \in DOMAIN b : b[i].stage = "relay1" /\ r[k] = [b[i] EXCEPT !.stage = "relay2"]
    BY <1>6
  <2>2. b[i] \in Tx
    BY <1>3
  <2>3. /\ r[k].id = b[i].id /\ r[k].from = b[i].from /\ r[k].to = b[i].to
        /\ r[k].value = b[i].value /\ r[k].stage = "relay2"
    BY <2>1, <2>2 DEF Tx
  <2>4. Genuine(b[i], read)
    BY <1>3 DEF BlockOK, ListOK, Live
  <2>5. Genuine(r[k], read)
    BY <2>3, <2>4 DEF Genuine
  <2>6. executed'[r[k].id] = [debit |-> 1, credit |-> 0]
    BY <1>4, <2>1, <2>3
  <2>7. r[k] \in ToSet(r)
    BY DEF ToSet
  <2> QED
    BY <2>3, <2>5, <2>6, <2>7 DEF Live, Station, RelayDest
<1> DEFINE New == TxMsgsFor(r, dest(r))
<1>8. \A m \in New : m.to \in Shard /\ ListOK(m.txs, m.to, read, executed')
  <2> HIDE DEF dest
  <2> QED
    BY <1>6, <1>7, MsgsSent
<1>9. /\ \A m \in New : Ids(m.txs) \subseteq Ids(b)
      /\ \A m, k \in New : m # k => Apart(m.txs, k.txs)
  <2> HIDE DEF dest
  <2> QED
    BY <1>6, MsgsForFacts
<1>10. txMsgs' = txMsgs \cup New
  BY <1>1, <1>5
<1> HIDE DEF New
<1>11. ASSUME NEW l, Apart(l, b), NEW v, ListOK(l, v, read, executed)
       PROVE  \A i \in DOMAIN l : executed'[l[i].id] = executed[l[i].id]
  <2>1. l \in Seq(Tx)
    BY <1>11 DEF ListOK
  <2>2. \A i \in DOMAIN l : l[i].id \in TxId
    BY <2>1, ListElements
  <2> QED
    BY <1>4, <1>11, <2>2 DEF Apart, Ids
<1>12. ASSUME NEW l, Apart(l, b), NEW v
       PROVE  /\ ListOK(l, v, read, executed) => ListOK(l, v, read, executed')
              /\ BlockOK(l, v, read, executed) => BlockOK(l, v, read, executed')
  <2>1. CASE ~ListOK(l, v, read, executed)
    BY <2>1 DEF BlockOK
  <2>2. CASE ListOK(l, v, read, executed)
    <3>1. \A i \in DOMAIN l : executed'[l[i].id] = executed[l[i].id]
      BY <1>11, <1>12, <2>2
    <3>2. read <= read
      BY <1>3
    <3> QED
      BY <1>3, <3>1, <3>2, ListKept
  <2> QED
    BY <2>1, <2>2
<1>13. /\ \A m \in txMsgs : Apart(m.txs, b)
       /\ \A v \in Shard : Apart(pool[v], b)
       /\ \A v \in Shard : v # s => \A d \in proposal[v] : Apart(d, b)
  BY <1>0, <1>1 DEF ApartInv
<1>14. proposal' = [v \in Shard |-> IF v \in {s} THEN {} ELSE proposal[v]]
  BY <1>0, <1>2 DEF ListTypes
<1>15. ListTypes'
  BY <1>0, <1>2, <1>4, <1>14 DEF ListTypes
<1>16. ListsInv'
  <2>1. \A m \in txMsgs' : m.to \in Shard /\ ListOK(m.txs, m.to, read, executed')
    BY <1>0, <1>8, <1>10, <1>12, <1>13 DEF ListsInv
  <2>2. \A v \in Shard : ListOK(pool[v], v, read, executed')
    BY <1>0, <1>12, <1>13 DEF ListsInv
  <2>3. \A v \in Shard : \A d \in proposal'[v] : BlockOK(d, v, read, executed')
    BY <1>0, <1>12, <1>13, <1>14 DEF ListsInv
  <2> QED
    BY <1>2, <2>1, <2>2, <2>3 DEF ListsInv
<1>17. ApartInv'
  <2>1. \A m \in New : \A k \in txMsgs : Apart(k.txs, m.txs)
    BY <1>9, <1>13, ApartWithin
  <2>2. \A m \in New : \A v \in Shard : Apart(pool[v], m.txs)
    BY <1>9, <1>13, ApartWithin
  <2>3. \A m \in New : \A v \in Shard \ {s} : \A d \in proposal[v] : Apart(d, m.txs)
    BY <1>9, <1>13, ApartWithin
  <2>4. PICK drop \in SUBSET Shard : drop = {s}
    OBVIOUS
  <2>5. \A m \in New : \A v \in Shard \ drop : \A d \in proposal[v] : Apart(d, m.txs)
    BY <2>3, <2>4
  <2>6. proposal' = [v \in Shard |-> IF v \in drop THEN {} ELSE proposal[v]]
    BY <1>14, <2>4, Zenon
  <2> QED
    BY <1>0, <1>2, <1>9, <1>10, <2>1, <2>2, <2>5, <2>6, MsgsAdded
<1>18. DoneOK(executed', read)
  <2> SUFFICES ASSUME NEW t \in TxId
               PROVE  /\ executed'[t] \in {[debit |-> 0, credit |-> 0], [debit |-> 1, credit |-> 0],
                                           [debit |-> 1, credit |-> 1]}
                      /\ executed'[t].debit = 1 => \E i \in 1 .. read : t = Source[i].id
    BY DEF DoneOK
  <2>1. CASE t \notin Ids(b)
    BY <1>0, <1>4, <2>1 DEF DoneOK
  <2>2. CASE t \in Ids(b)
    <3>1. PICK i \in DOMAIN b : t = b[i].id
      BY <2>2 DEF Ids
    <3>2. executed'[t] = [debit |-> 1, credit |-> IF b[i].stage = "relay1" THEN 0 ELSE 1]
      BY <1>4, <3>1
    <3>3. \E j \in 1 .. read : t = Source[j].id
      BY <1>3, <3>1 DEF BlockOK, ListOK, Live, Genuine
    <3> QED
      BY <3>2, <3>3
  <2> QED
    BY <2>1, <2>2
<1>19. DoneOK(executed, read)'
  BY <1>2, <1>18
<1> QED
  BY <1>15, <1>16, <1>17, <1>19 DEF RelayInv

-----------------------------------------------------------------------------
(* The theorems. *)

\* In every reachable state each transaction is in one list, with the stage its
\* execution has reached.
THEOREM Invariance == Spec => []RelayInv
<1>1. RelayInv /\ [Next]_vars => RelayInv'
  <2> SUFFICES ASSUME RelayInv, [Next]_vars PROVE RelayInv'
    OBVIOUS
  <2>1. CASE SupCheck \/ DrainEnd \/ \E k \in InfoKind : HandleBlockInfo(k)
    <3>1. UNCHANGED <<unsent, read, pool, proposal, executed>> /\ txMsgs' = txMsgs
      BY <2>1 DEF SupCheck, DrainEnd, HandleBlockInfo
    <3> QED
      BY <3>1, FewerMsgsStep
  <2>2. CASE ReadTxsAndSend
    BY <2>2, ReadStep
  <2>3. ASSUME NEW s \in Shard, ShardStep(s) PROVE RelayInv'
    <3>1. CASE \E m \in txMsgs : HandleReceiveTxs(s, m)
      BY <3>1, ReceiveStep
    <3>2. CASE BuildProposal(s)
      BY <3>2, BuildStep
    <3>3. CASE BlockCommitAndDeliver(s)
      BY <3>3, CommitStep
    <3>4. CASE HandleStop(s)
      <4>1. UNCHANGED <<unsent, read, pool, proposal, executed>> /\ txMsgs' = txMsgs
        BY <3>4 DEF HandleStop, supVars
      <4> QED
        BY <4>1, FewerMsgsStep
    <3> QED
      BY <2>3, <3>1, <3>2, <3>3, <3>4 DEF ShardStep
  <2>4. ASSUME NEW m \in txMsgs, LoseTxs(m) PROVE RelayInv'
    <3>1. UNCHANGED <<unsent, read, pool, proposal, executed>> /\ txMsgs' \subseteq txMsgs
      BY <2>4 DEF LoseTxs, supVars
    <3> QED
      BY <3>1, FewerMsgsStep
  <2>5. CASE UNCHANGED vars
    <3>1. UNCHANGED <<unsent, read, pool, proposal, executed>> /\ txMsgs' = txMsgs
      BY <2>5 DEF vars, supVars
    <3> QED
      BY <3>1, FewerMsgsStep
  <2> QED
    BY <2>1, <2>2, <2>3, <2>4, <2>5 DEF Next, Supervisor
<1> QED
  BY InitStep, <1>1, PTL DEF Spec

\* Whatever is lost, delayed, reordered or fails: no transaction debits twice, none
\* credits twice, and none credits before it has debited.
THEOREM NoDoubleExecution == Spec => []CreditAfterDebit
<1>1. RelayInv => CreditAfterDebit
  BY DEF RelayInv, DoneOK, CreditAfterDebit
<1> QED
  BY Invariance, <1>1, PTL

\* Proposed blocks are within the limit.
BlocksWithin == \A s \in Shard : \A b \in proposal[s] : Len(b) <= BlockSizeLimit

\* A pool that counts transactions (packTxsByGivenNum) packs no block beyond the limit. A
\* pool that counts bytes does (run txpool_byte).
THEOREM NumPoolKeepsLimit ==
  ASSUME PoolType = "num"
  PROVE  Spec => []LimitRespected
<1>1. Init => BlocksWithin
  BY DEF Init, BlocksWithin
<1>2. RelayInv /\ BlocksWithin /\ [Next]_vars => BlocksWithin'
  <2> SUFFICES ASSUME RelayInv, BlocksWithin, [Next]_vars PROVE BlocksWithin'
    OBVIOUS
  <2>1. CASE proposal' = proposal
    BY <2>1 DEF BlocksWithin
  <2>2. ASSUME NEW s \in Shard, BuildProposal(s) PROVE BlocksWithin'
    <3>1. ListTypes /\ ListsInv
      BY DEF RelayInv
    <3>2. PICK n : n = PackEnd(pool[s], BlockSizeLimit)
      OBVIOUS
    <3>3. PICK a : a = SubSeq(pool[s], 1, n)
      OBVIOUS
    <3>4. PICK b : b = ModifyTxRelayOpt(s, a)
      OBVIOUS
    <3>5. proposal' = [proposal EXCEPT ![s] = {b}] \/ proposal' = proposal
      BY <2>2, <3>2, <3>3, <3>4 DEF BuildProposal
    <3>6. Len(b) <= BlockSizeLimit
      <4>1. ListOK(pool[s], s, read, executed) /\ pool[s] \in Seq(Tx)
        BY <3>1 DEF ListsInv, ListTypes
      <4>2. n \in 0 .. Len(pool[s]) /\ n <= BlockSizeLimit
        BY <3>2, <4>1, PackEndFacts
      <4>3. ListOK(a, s, read, executed) /\ Len(a) = n
        BY <3>3, <4>1, <4>2, CutFacts
      <4>4. BlockOK(b, s, read, executed) /\ Len(b) <= Len(a)
        BY <3>4, <4>3, ModifyFacts
      <4>5. Len(b) \in Nat /\ n \in Nat /\ BlockSizeLimit \in Nat
        BY <4>1, <4>2, <4>4, RelayAssumption DEF BlockOK, ListOK
      <4> QED
        BY <4>2, <4>3, <4>4, <4>5
    <3>7. \A r \in Shard : \A d \in proposal'[r] : d = b \/ d \in proposal[r]
      BY <3>1, <3>5 DEF ListTypes
    <3> QED
      BY <3>6, <3>7 DEF BlocksWithin
  <2>3. ASSUME NEW s \in Shard, BlockCommitAndDeliver(s) PROVE BlocksWithin'
    <3>1. proposal' = [proposal EXCEPT ![s] = {}] /\ proposal \in [Shard -> SUBSET Seq(Tx)]
      BY <2>3 DEF BlockCommitAndDeliver, RelayInv, ListTypes
    <3> QED
      BY <3>1 DEF BlocksWithin
  <2>4. Supervisor => proposal' = proposal
    BY DEF Supervisor, SupCheck, DrainEnd, ReadTxsAndSend, HandleBlockInfo
  <2>5. \A s \in Shard : \A m \in txMsgs : HandleReceiveTxs(s, m) => proposal' = proposal
    BY DEF HandleReceiveTxs
  <2>6. \A s \in Shard : HandleStop(s) => proposal' = proposal
    BY DEF HandleStop
  <2>7. \A m \in txMsgs : LoseTxs(m) => proposal' = proposal
    BY DEF LoseTxs
  <2>8. UNCHANGED vars => proposal' = proposal
    BY DEF vars
  <2> QED
    BY <2>1, <2>2, <2>3, <2>4, <2>5, <2>6, <2>7, <2>8 DEF Next, ShardStep
<1>3. BlocksWithin => LimitRespected
  BY DEF BlocksWithin, LimitRespected, TxListSize
<1> QED
  BY Invariance, <1>1, <1>2, <1>3, PTL DEF Spec

-----------------------------------------------------------------------------
(* Money: what is on an account is what the executed transactions say. *)

\* The balances of a shard, and what an account is worth by them.
Balances == [Account -> Nat \cup {Absent}]
WorthIn(bal, a) == IF bal[a] = Absent THEN NormalInitBalance ELSE bal[a]
States == [ok : BOOLEAN, balance : Balances]

\* setInitBalanceIfNotExist writes down what an account is worth already.
LEMMA WithInitFacts ==
  ASSUME NEW bal \in Balances, NEW a \in Account
  PROVE  /\ WithInit(bal, a) \in Balances
         /\ WithInit(bal, a)[a] \in Nat
         /\ \A x \in Account : WorthIn(WithInit(bal, a), x) = WorthIn(bal, x)
<1>1. NormalInitBalance \in Nat /\ Absent = -1
  BY RelayAssumption DEF Absent
<1> QED
  BY <1>1 DEF WithInit, WorthIn, Balances

\* A transfer that succeeds takes its value from the payer, and only from the payer.
LEMMA DebitFacts ==
  ASSUME NEW st \in States, NEW a \in Account, NEW v \in Nat
  PROVE  /\ Debit(st, a, v) \in States
         /\ Debit(st, a, v).ok =>
              /\ st.ok
              /\ \A x \in Account : WorthIn(Debit(st, a, v).balance, x)
                                    = WorthIn(st.balance, x) - (IF x = a THEN v ELSE 0)
<1>0. st.ok \in BOOLEAN /\ st.balance \in Balances
  BY DEF States
<1>1. PICK bal : bal = WithInit(st.balance, a)
  OBVIOUS
<1>2. /\ bal \in Balances /\ bal[a] \in Nat
      /\ \A x \in Account : WorthIn(bal, x) = WorthIn(st.balance, x)
  BY <1>0, <1>1, WithInitFacts
<1>3. CASE bal[a] < v
  <2>1. Debit(st, a, v) = [ok |-> FALSE, balance |-> bal]
    BY <1>1, <1>3 DEF Debit
  <2> QED
    BY <1>2, <2>1 DEF States
<1>4. CASE ~(bal[a] < v)
  <2>1. PICK new : new = [bal EXCEPT ![a] = bal[a] - v]
    OBVIOUS
  <2>2. Debit(st, a, v) = [ok |-> st.ok, balance |-> new]
    BY <1>1, <1>4, <2>1 DEF Debit
  <2>3. bal[a] - v \in Nat
    BY <1>2, <1>4
  <2>4. new \in Balances /\ new[a] = bal[a] - v /\ \A x \in Account : x # a => new[x] = bal[x]
    BY <1>2, <2>1, <2>3 DEF Balances
  <2>5. \A x \in Account : WorthIn(bal, x) \in Nat
    BY <1>2, RelayAssumption DEF Balances, WorthIn
  <2>6. ASSUME NEW x \in Account
        PROVE  WorthIn(new, x) = WorthIn(bal, x) - (IF x = a THEN v ELSE 0)
    <3>1. CASE x = a
      BY <1>2, <2>3, <2>4, <3>1 DEF WorthIn, Absent
    <3>2. CASE x # a
      BY <2>4, <2>5, <3>2 DEF WorthIn
    <3> QED
      BY <3>1, <3>2
  <2>7. [ok |-> st.ok, balance |-> new] \in States
    BY <1>0, <2>4 DEF States
  <2> QED
    BY <1>2, <2>2, <2>6, <2>7
<1> QED
  BY <1>3, <1>4

\* A credit adds its value to the recipient, and cannot fail.
LEMMA CreditFacts ==
  ASSUME NEW st \in States, NEW a \in Account, NEW v \in Nat
  PROVE  /\ Credit(st, a, v) \in States
         /\ Credit(st, a, v).ok = st.ok
         /\ \A x \in Account : WorthIn(Credit(st, a, v).balance, x)
                               = WorthIn(st.balance, x) + (IF x = a THEN v ELSE 0)
<1>0. st.ok \in BOOLEAN /\ st.balance \in Balances
  BY DEF States
<1>1. PICK bal : bal = WithInit(st.balance, a)
  OBVIOUS
<1>2. /\ bal \in Balances /\ bal[a] \in Nat
      /\ \A x \in Account : WorthIn(bal, x) = WorthIn(st.balance, x)
  BY <1>0, <1>1, WithInitFacts
<1>3. PICK new : new = [bal EXCEPT ![a] = bal[a] + v]
  OBVIOUS
<1>4. Credit(st, a, v) = [ok |-> st.ok, balance |-> new]
  BY <1>1, <1>3 DEF Credit, States
<1>5. bal[a] + v \in Nat
  BY <1>2
<1>6. new \in Balances /\ new[a] = bal[a] + v /\ \A x \in Account : x # a => new[x] = bal[x]
  BY <1>2, <1>3, <1>5 DEF Balances
<1>7. \A x \in Account : WorthIn(bal, x) \in Nat
  BY <1>2, RelayAssumption DEF Balances, WorthIn
<1>8. ASSUME NEW x \in Account
      PROVE  WorthIn(new, x) = WorthIn(bal, x) + (IF x = a THEN v ELSE 0)
  <2>1. CASE x = a
    BY <1>2, <1>5, <1>6, <2>1 DEF WorthIn, Absent
  <2>2. CASE x # a
    BY <1>6, <1>7, <2>2 DEF WorthIn
  <2> QED
    BY <2>1, <2>2
<1>9. [ok |-> st.ok, balance |-> new] \in States
  BY <1>0, <1>6 DEF States
<1> QED
  BY <1>2, <1>4, <1>8, <1>9

\* What a transaction that succeeds moves.
Taken(s, t, a) == IF DebitedBy(s, t) /\ a = t.from THEN t.value ELSE 0
Given(s, t, a) == IF CreditedBy(s, t) /\ a = t.to THEN t.value ELSE 0

\* txExecute takes and gives what the stage of the transaction says.
LEMMA TxExecuteFacts ==
  ASSUME NEW st \in States, NEW s, NEW t \in Tx
  PROVE  /\ TxExecute(s, st, t) \in States
         /\ TxExecute(s, st, t).ok => \A a \in Account :
              WorthIn(TxExecute(s, st, t).balance, a)
              = WorthIn(st.balance, a) - Taken(s, t, a) + Given(s, t, a)
<1>0. /\ t.from \in Account /\ t.to \in Account /\ t.value \in Nat /\ t.stage \in Stage
      /\ st.balance \in Balances /\ st.ok \in BOOLEAN
  BY DEF Tx, States
<1>1. \A x \in Account : WorthIn(st.balance, x) \in Nat
  BY <1>0, RelayAssumption DEF Balances, WorthIn
<1>2. CASE t.stage = "undetermined"
  <2>1. PICK st1 : st1 = [st EXCEPT !.balance = WithInit(st.balance, t.to)]
    OBVIOUS
  <2>2. /\ st1 \in States
        /\ \A x \in Account : WorthIn(st1.balance, x) = WorthIn(st.balance, x)
    BY <1>0, <2>1, WithInitFacts DEF States
  <2>3. PICK st2 : st2 = Debit(st1, t.from, t.value)
    OBVIOUS
  <2>4. /\ st2 \in States
        /\ st2.ok => \A x \in Account : WorthIn(st2.balance, x)
             = WorthIn(st1.balance, x) - (IF x = t.from THEN t.value ELSE 0)
    BY <1>0, <2>2, <2>3, DebitFacts
  <2>5. PICK st3 : st3 = Credit(st2, t.to, t.value)
    OBVIOUS
  <2>6. /\ st3 \in States /\ st3.ok = st2.ok
        /\ \A x \in Account : WorthIn(st3.balance, x)
             = WorthIn(st2.balance, x) + (IF x = t.to THEN t.value ELSE 0)
    BY <1>0, <2>4, <2>5, CreditFacts
  <2>7. TxExecute(s, st, t) = st3
    BY <1>2, <2>1, <2>3, <2>5 DEF TxExecute
  <2>8. DebitedBy(s, t) /\ CreditedBy(s, t)
    BY <1>2 DEF DebitedBy, CreditedBy
  <2> QED
    BY <2>2, <2>4, <2>6, <2>7, <2>8 DEF Taken, Given
<1>3. CASE t.stage = "relay1"
  <2>1. ~CreditedBy(s, t) /\ (DebitedBy(s, t) <=> Home[t.from] = s)
    BY <1>3 DEF DebitedBy, CreditedBy
  <2>2. TxExecute(s, st, t) = IF Home[t.from] = s THEN Debit(st, t.from, t.value) ELSE st
    BY <1>3 DEF TxExecute
  <2>3. CASE Home[t.from] = s
    <3>1. PICK st2 : st2 = Debit(st, t.from, t.value)
      OBVIOUS
    <3>2. /\ st2 \in States
          /\ st2.ok => \A x \in Account : WorthIn(st2.balance, x)
               = WorthIn(st.balance, x) - (IF x = t.from THEN t.value ELSE 0)
      BY <1>0, <3>1, DebitFacts
    <3>3. TxExecute(s, st, t) = st2
      BY <2>2, <2>3, <3>1
    <3> QED
      BY <1>0, <1>1, <2>1, <2>3, <3>2, <3>3 DEF Taken, Given
  <2>4. CASE Home[t.from] # s
    BY <1>1, <2>1, <2>2, <2>4 DEF Taken, Given
  <2> QED
    BY <2>3, <2>4
<1>4. CASE t.stage = "relay2"
  <2>1. ~DebitedBy(s, t) /\ (CreditedBy(s, t) <=> Home[t.to] = s)
    BY <1>4 DEF DebitedBy, CreditedBy
  <2>2. TxExecute(s, st, t) = IF Home[t.to] = s THEN Credit(st, t.to, t.value) ELSE st
    BY <1>4 DEF TxExecute
  <2>3. CASE Home[t.to] = s
    <3>1. PICK st2 : st2 = Credit(st, t.to, t.value)
      OBVIOUS
    <3>2. /\ st2 \in States
          /\ \A x \in Account : WorthIn(st2.balance, x)
               = WorthIn(st.balance, x) + (IF x = t.to THEN t.value ELSE 0)
      BY <1>0, <3>1, CreditFacts
    <3>3. TxExecute(s, st, t) = st2
      BY <2>2, <2>3, <3>1
    <3> QED
      BY <1>0, <1>1, <2>1, <2>3, <3>2, <3>3 DEF Taken, Given
  <2>4. CASE Home[t.to] # s
    BY <1>1, <2>1, <2>2, <2>4 DEF Taken, Given
  <2> QED
    BY <2>3, <2>4
<1> QED
  BY <1>0, <1>2, <1>3, <1>4 DEF Stage

\* A set of numbers that has 0 and every successor up to n.
LEMMA UpTo ==
  ASSUME NEW n \in Nat, NEW Q \in SUBSET Nat, 0 \in Q, \A k \in 1 .. n : k - 1 \in Q => k \in Q
  PROVE  0 .. n \subseteq Q
<1> DEFINE R == {k \in 0 .. n : k \notin Q}
<1>1. SUFFICES ASSUME R # {} PROVE FALSE
  OBVIOUS
<1>2. PICK k \in R : \A j \in R : k <= j
  <2>1. R \in SUBSET Nat
    OBVIOUS
  <2> HIDE DEF R
  <2> QED
    BY <1>1, <2>1, LeastNat
<1>3. k \in 1 .. n /\ k - 1 \in 0 .. n /\ k - 1 \notin R
  BY <1>2
<1> QED
  BY <1>2, <1>3

\* g is the function of the loop of calcStateModification.
IsRun(g, s, q, bal) ==
  g = [i \in 0 .. Len(q) |->
         IF i = 0 THEN [ok |-> TRUE, balance |-> bal]
         ELSE LET before == g[i - 1]
              IN  IF before.ok THEN TxExecute(s, before, q[i]) ELSE before]

\* Execute is the end of a run of its loop.
LEMMA ExecuteRuns ==
  ASSUME NEW q \in Seq(Tx), NEW s, balance[s] \in Balances
  PROVE  \E g \in [0 .. Len(q) -> States] :
           /\ g[0] = [ok |-> TRUE, balance |-> balance[s]]
           /\ \A i \in 1 .. Len(q) :
                g[i] = IF g[i - 1].ok THEN TxExecute(s, g[i - 1], q[i]) ELSE g[i - 1]
           /\ Execute(s, q) = g[Len(q)]
<1>1. PICK n \in Nat : n = Len(q)
  OBVIOUS
<1>2. \A i \in 1 .. n : q[i] \in Tx
  BY <1>1
<1>20. PICK X : X = States
  OBVIOUS
<1>3. PICK base \in X : base = [ok |-> TRUE, balance |-> balance[s]]
  <2>1. [ok |-> TRUE, balance |-> balance[s]] \in X
    BY <1>20 DEF States
  <2> QED
    BY <2>1, Zenon
<1>4. PICK F \in [1 .. n -> [X -> X]] :
        \A i \in 1 .. n : \A st \in X :
          F[i][st] = IF st.ok THEN TxExecute(s, st, q[i]) ELSE st
  <2> DEFINE G == [i \in 1 .. n |->
                     [st \in X |-> IF st.ok THEN TxExecute(s, st, q[i]) ELSE st]]
  <2>1. \A i \in 1 .. n : \A st \in X : TxExecute(s, st, q[i]) \in X
    BY <1>2, <1>20, TxExecuteFacts
  <2>2. G \in [1 .. n -> [X -> X]]
    BY <2>1
  <2>3. \A i \in 1 .. n : \A st \in X :
          G[i][st] = IF st.ok THEN TxExecute(s, st, q[i]) ELSE st
    OBVIOUS
  <2> HIDE DEF G
  <2> QED
    BY <2>2, <2>3
<1>5. PICK g \in [0 .. n -> X] : g[0] = base /\ \A i \in 1 .. n : g[i] = F[i][g[i - 1]]
  <2>1. F \in Steps(n, X)
    BY DEF Steps
  <2>2. \E g : IsLoop(g, F, base, n, X)
    BY <2>1, LoopRuns, Zenon
  <2> QED
    BY <2>2 DEF IsLoop
<1>6. \A i \in 1 .. n : g[i] = IF g[i - 1].ok THEN TxExecute(s, g[i - 1], q[i]) ELSE g[i - 1]
  <2>1. \A i \in 1 .. n : g[i - 1] \in X
    OBVIOUS
  <2> QED
    BY <1>4, <1>5, <2>1
<1>7. IsRun(g, s, q, balance[s])
  <2>1. \A i \in 0 .. n : g[i] = IF i = 0 THEN [ok |-> TRUE, balance |-> balance[s]]
                                 ELSE LET before == g[i - 1]
                                      IN  IF before.ok THEN TxExecute(s, before, q[i]) ELSE before
    <3>1. \A i \in 0 .. n : i = 0 \/ i \in 1 .. n
      OBVIOUS
    <3> QED
      BY <1>3, <1>5, <1>6, <3>1
  <2>2. g = [i \in 0 .. n |-> g[i]]
    OBVIOUS
  <2> QED
    BY <1>1, <2>1, <2>2 DEF IsRun
<1> DEFINE it == CHOOSE h : IsRun(h, s, q, balance[s])
<1>8. IsRun(it, s, q, balance[s])
  BY <1>7, Zenon
<1>9. Execute(s, q) = it[Len(q)]
  BY DEF Execute, IsRun
<1> HIDE DEF it
<1>10. /\ it[0] = base
       /\ \A i \in 1 .. n : it[i] = IF it[i - 1].ok THEN TxExecute(s, it[i - 1], q[i]) ELSE it[i - 1]
  <2>1. \A i \in 0 .. n : it[i] = IF i = 0 THEN [ok |-> TRUE, balance |-> balance[s]]
                                  ELSE LET before == it[i - 1]
                                       IN  IF before.ok THEN TxExecute(s, before, q[i]) ELSE before
    BY <1>1, <1>8, Zenon DEF IsRun
  <2>2. 0 \in 0 .. n /\ \A i \in 1 .. n : i \in 0 .. n /\ i # 0
    OBVIOUS
  <2> QED
    BY <1>3, <2>1, <2>2, Zenon
<1>11. 0 .. n \subseteq {k \in 0 .. n : it[k] = g[k]}
  <2> DEFINE Q == {k \in 0 .. n : it[k] = g[k]}
  <2>1. Q \in SUBSET Nat /\ 0 \in Q
    BY <1>5, <1>10
  <2>2. ASSUME NEW k \in 1 .. n, k - 1 \in Q PROVE k \in Q
    <3>1. it[k - 1] = g[k - 1]
      BY <2>2
    <3>2. it[k] = g[k]
      BY <1>6, <1>10, <3>1
    <3> QED
      BY <3>2
  <2> HIDE DEF Q
  <2>3. 0 .. n \subseteq Q
    BY <2>1, <2>2, UpTo
  <2> QED
    BY <2>3 DEF Q
<1>12. Execute(s, q) = g[n]
  BY <1>1, <1>9, <1>11
<1> QED
  BY <1>1, <1>20, <1>3, <1>5, <1>6, <1>12

\* What the payments of the source have moved when ex is executed of them.
Counters == [TxId -> [debit : Nat, credit : Nat]]
Charges(ex) == [i \in DOMAIN Source |-> ex[Source[i].id].debit * Source[i].value]
Gains(ex) == [i \in DOMAIN Source |-> ex[Source[i].id].credit * Source[i].value]
PaidBy(a) == {i \in DOMAIN Source : Source[i].from = a}
PaidTo(a) == {i \in DOMAIN Source : Source[i].to = a}
Expenses(ex, a) == SumOf(Charges(ex), PaidBy(a))
Income(ex, a) == SumOf(Gains(ex), PaidTo(a))

\* The source is finite, and its sums are numbers.
LEMMA SourceSums ==
  ASSUME NEW ex \in Counters
  PROVE  /\ \A S \in SUBSET DOMAIN Source : IsFiniteSet(S)
         /\ \A i \in DOMAIN Source : Charges(ex)[i] \in Nat /\ Gains(ex)[i] \in Nat
         /\ \A a : Expenses(ex, a) \in Nat /\ Income(ex, a) \in Nat
<1>1. IsFiniteSet(DOMAIN Source)
  <2>1. 1 \in Int /\ Len(Source) \in Int
    BY SourceFacts
  <2>2. IsFiniteSet(1 .. Len(Source))
    BY <2>1, FS_Interval
  <2> QED
    BY <2>2, SourceFacts
<1>2. \A S \in SUBSET DOMAIN Source : IsFiniteSet(S)
  BY <1>1, FS_Subset
<1>3. ASSUME NEW i \in DOMAIN Source
      PROVE  Charges(ex)[i] \in Nat /\ Gains(ex)[i] \in Nat
  <2>1. PICK e \in [debit : Nat, credit : Nat] : e = ex[Source[i].id]
    BY SourceFacts DEF Counters
  <2>2. PICK v \in Nat : v = Source[i].value
    BY SourceFacts
  <2>3. e.debit * v \in Nat /\ e.credit * v \in Nat
    OBVIOUS
  <2> QED
    BY <2>1, <2>2, <2>3 DEF Charges, Gains
<1>4. ASSUME NEW a PROVE Expenses(ex, a) \in Nat /\ Income(ex, a) \in Nat
  <2>1. PaidBy(a) \in SUBSET DOMAIN Source /\ PaidTo(a) \in SUBSET DOMAIN Source
    BY DEF PaidBy, PaidTo
  <2>2. IsFiniteSet(PaidBy(a)) /\ IsFiniteSet(PaidTo(a))
    BY <1>2, <2>1
  <2> QED
    BY <1>3, <2>1, <2>2, SumType DEF Expenses, Income
<1> QED
  BY <1>2, <1>3, <1>4

\* The properties' sums are these.
LEMMA SpentIs ==
  ASSUME NEW a, executed \in Counters
  PROVE  Spent(a) = Expenses(executed, a) /\ Received(a) = Income(executed, a)
<1>1. /\ PaidBy(a) \in SUBSET DOMAIN Source /\ PaidTo(a) \in SUBSET DOMAIN Source
      /\ IsFiniteSet(PaidBy(a)) /\ IsFiniteSet(PaidTo(a))
  BY SourceSums DEF PaidBy, PaidTo
<1> DEFINE f == [i \in PaidBy(a) |-> executed[Source[i].id].debit * Source[i].value]
           h == [i \in PaidTo(a) |-> executed[Source[i].id].credit * Source[i].value]
<1>2. Spent(a) = SumFunction(f) /\ Received(a) = SumFunction(h)
  BY DEF Spent, Received, PaidBy, PaidTo
<1>3. /\ DOMAIN f = PaidBy(a) /\ \A i \in PaidBy(a) : f[i] = Charges(executed)[i]
      /\ DOMAIN h = PaidTo(a) /\ \A i \in PaidTo(a) : h[i] = Gains(executed)[i]
  BY <1>1 DEF Charges, Gains
<1> HIDE DEF f, h
<1>4. SumFunction(f) = SumOf(f, PaidBy(a)) /\ SumFunction(h) = SumOf(h, PaidTo(a))
  BY <1>3, SumFunctionIs
<1>5. SumOf(f, PaidBy(a)) = SumOf(Charges(executed), PaidBy(a))
  BY <1>1, <1>3, SumSame
<1>6. SumOf(h, PaidTo(a)) = SumOf(Gains(executed), PaidTo(a))
  BY <1>1, <1>3, SumSame
<1> QED
  BY <1>2, <1>4, <1>5, <1>6 DEF Expenses, Income

\* What one more execution of payment i changes.
LEMMA SumsChange ==
  ASSUME NEW ex \in Counters, NEW ex2 \in Counters, NEW i \in DOMAIN Source,
         \A t \in TxId : t # Source[i].id => ex2[t] = ex[t],
         NEW dd \in {0, 1}, ex2[Source[i].id].debit = ex[Source[i].id].debit + dd,
         NEW dc \in {0, 1}, ex2[Source[i].id].credit = ex[Source[i].id].credit + dc, NEW a
  PROVE  /\ Expenses(ex2, a) = Expenses(ex, a)
                               + (IF dd = 1 /\ a = Source[i].from THEN Source[i].value ELSE 0)
         /\ Income(ex2, a) = Income(ex, a)
                             + (IF dc = 1 /\ a = Source[i].to THEN Source[i].value ELSE 0)
<1>1. /\ PaidBy(a) \in SUBSET DOMAIN Source /\ PaidTo(a) \in SUBSET DOMAIN Source
      /\ IsFiniteSet(PaidBy(a)) /\ IsFiniteSet(PaidTo(a))
  BY SourceSums DEF PaidBy, PaidTo
<1>2. /\ \A j \in DOMAIN Source : /\ Charges(ex)[j] \in Int /\ Gains(ex)[j] \in Int
                                  /\ Charges(ex2)[j] \in Int /\ Gains(ex2)[j] \in Int
      /\ Expenses(ex, a) \in Int /\ Income(ex, a) \in Int
  BY SourceSums
<1>3. \A j \in DOMAIN Source : j # i => /\ Charges(ex2)[j] = Charges(ex)[j]
                                        /\ Gains(ex2)[j] = Gains(ex)[j]
  <2>1. \A j \in DOMAIN Source : j # i => Source[j].id \in TxId /\ Source[j].id # Source[i].id
    BY SourceFacts
  <2> QED
    BY <2>1 DEF Charges, Gains
<1>4. PICK v \in Nat : v = Source[i].value
  BY SourceFacts
<1>5. /\ Charges(ex2)[i] = Charges(ex)[i] + (IF dd = 1 THEN v ELSE 0)
      /\ Gains(ex2)[i] = Gains(ex)[i] + (IF dc = 1 THEN v ELSE 0)
  <2>1. PICK e \in [debit : Nat, credit : Nat] : e = ex[Source[i].id]
    BY SourceFacts DEF Counters
  <2>2. /\ (e.debit + dd) * v = e.debit * v + (IF dd = 1 THEN v ELSE 0)
        /\ (e.credit + dc) * v = e.credit * v + (IF dc = 1 THEN v ELSE 0)
    OBVIOUS
  <2>3. /\ Charges(ex)[i] = e.debit * v /\ Charges(ex2)[i] = (e.debit + dd) * v
        /\ Gains(ex)[i] = e.credit * v /\ Gains(ex2)[i] = (e.credit + dc) * v
    BY <1>4, <2>1 DEF Charges, Gains
  <2> QED
    BY <2>2, <2>3
<1>6. Expenses(ex2, a) = Expenses(ex, a) + (IF dd = 1 /\ a = Source[i].from THEN v ELSE 0)
  <2>1. CASE i \in PaidBy(a)
    <3>1. Expenses(ex2, a) = Expenses(ex, a) - Charges(ex)[i] + Charges(ex2)[i]
      BY <1>1, <1>2, <1>3, <2>1, SumChange DEF Expenses
    <3>2. a = Source[i].from
      BY <2>1 DEF PaidBy
    <3> QED
      BY <1>2, <1>5, <3>1, <3>2
  <2>2. CASE i \notin PaidBy(a)
    <3>1. \A j \in PaidBy(a) : Charges(ex2)[j] = Charges(ex)[j]
      BY <1>1, <1>3, <2>2
    <3>2. Expenses(ex2, a) = Expenses(ex, a)
      BY <1>1, <3>1, SumSame DEF Expenses
    <3>3. a # Source[i].from
      BY <2>2 DEF PaidBy
    <3> QED
      BY <1>2, <3>2, <3>3
  <2> QED
    BY <2>1, <2>2
<1>7. Income(ex2, a) = Income(ex, a) + (IF dc = 1 /\ a = Source[i].to THEN v ELSE 0)
  <2>1. CASE i \in PaidTo(a)
    <3>1. Income(ex2, a) = Income(ex, a) - Gains(ex)[i] + Gains(ex2)[i]
      BY <1>1, <1>2, <1>3, <2>1, SumChange DEF Income
    <3>2. a = Source[i].to
      BY <2>1 DEF PaidTo
    <3> QED
      BY <1>2, <1>5, <3>1, <3>2
  <2>2. CASE i \notin PaidTo(a)
    <3>1. \A j \in PaidTo(a) : Gains(ex2)[j] = Gains(ex)[j]
      BY <1>1, <1>3, <2>2
    <3>2. Income(ex2, a) = Income(ex, a)
      BY <1>1, <3>1, SumSame DEF Income
    <3>3. a # Source[i].to
      BY <2>2 DEF PaidTo
    <3> QED
      BY <1>2, <3>2, <3>3
  <2> QED
    BY <2>1, <2>2
<1> QED
  BY <1>4, <1>6, <1>7

\* What an account should be worth when ex is executed.
Due(ex, a) == NormalInitBalance + Income(ex, a) - Expenses(ex, a)

\* After a block the accounts are worth what the counters say, if they were before it.
LEMMA CommitWorth ==
  ASSUME NEW s \in Shard, NEW b, NEW rd \in 0 .. Len(Source), BlockOK(b, s, rd, executed),
         balance[s] \in Balances, executed \in Counters, NEW ex2 \in Counters,
         \A t \in TxId : t \notin Ids(b) => ex2[t] = executed[t],
         \A i \in DOMAIN b :
           ex2[b[i].id] = [debit |-> 1, credit |-> IF b[i].stage = "relay1" THEN 0 ELSE 1],
         \A a \in Account : Worth(a) = Due(executed, a),
         Execute(s, b).ok
  PROVE  /\ Execute(s, b).balance \in Balances
         /\ \A a \in Account :
              (IF Home[a] = s THEN WorthIn(Execute(s, b).balance, a) ELSE Worth(a)) = Due(ex2, a)
<1>0. b \in Seq(Tx) /\ Distinct(b)
  BY DEF BlockOK, ListOK
<1>1. PICK n \in Nat : n = Len(b) /\ DOMAIN b = 1 .. n
  BY <1>0
<1>2. PICK g \in [0 .. n -> States] :
        /\ g[0] = [ok |-> TRUE, balance |-> balance[s]]
        /\ \A i \in 1 .. n : g[i] = IF g[i - 1].ok THEN TxExecute(s, g[i - 1], b[i]) ELSE g[i - 1]
        /\ Execute(s, b) = g[n]
  BY <1>0, <1>1, ExecuteRuns
<1> DEFINE Ex(k) == [t \in TxId |-> IF \E j \in 1 .. k : b[j].id = t THEN ex2[t] ELSE executed[t]]
           W(k, a) == IF Home[a] = s THEN WorthIn(g[k].balance, a) ELSE Worth(a)
           Good(k) == g[k].ok => \A a \in Account : W(k, a) = Due(Ex(k), a)
           Q == {k \in 0 .. n : Good(k)}
<1>3. Ex(0) = executed
  BY DEF Counters
<1>4. Ex(n) = ex2
  <2>1. \A t \in TxId : (~ \E j \in 1 .. n : b[j].id = t) => t \notin Ids(b)
    BY <1>1 DEF Ids
  <2>2. \A t \in TxId : Ex(n)[t] = ex2[t]
    BY <2>1
  <2> QED
    BY <2>2 DEF Counters
<1>5. \A k \in 0 .. n : Ex(k) \in Counters
  BY DEF Counters
<1>6. Good(0)
  <2>1. \A a \in Account : W(0, a) = Worth(a)
    BY <1>2 DEF Worth, WorthIn
  <2> HIDE DEF W, Ex
  <2> QED
    BY <1>3, <2>1
<1>7. ASSUME NEW k \in 1 .. n, Good(k - 1) PROVE Good(k)
  <2> SUFFICES ASSUME g[k].ok, NEW a \in Account PROVE W(k, a) = Due(Ex(k), a)
    OBVIOUS
  <2>0. k - 1 \in 0 .. n /\ k \in 0 .. n /\ k \in DOMAIN b
    BY <1>1
  <2>1. g[k - 1].ok /\ g[k] = TxExecute(s, g[k - 1], b[k]) /\ g[k - 1] \in States
    BY <1>2, <2>0
  <2>2. PICK t \in Tx : t = b[k]
    BY <1>0, <1>1
  <2>3. /\ Live(t, rd, executed) /\ Station(t) = s
        /\ t.stage = "undetermined" => Home[t.to] = s
    BY <1>1, <2>2 DEF BlockOK, ListOK
  <2>4. PICK i \in 1 .. rd : /\ t.id = Source[i].id /\ t.value = Source[i].value
                             /\ t.from = Source[i].from /\ t.to = Source[i].to
    BY <2>3 DEF Live, Genuine
  <2>5. /\ i \in DOMAIN Source /\ t.id \in TxId /\ t.value \in Nat /\ t.from \in Account
        /\ t.to \in Account /\ t.stage \in Stage
    BY <2>4, SourceFacts DEF Tx
  <2>6. /\ Ex(k)[t.id] = ex2[t.id] /\ Ex(k - 1)[t.id] = executed[t.id]
        /\ \A u \in TxId : u # t.id => Ex(k)[u] = Ex(k - 1)[u]
    <3>1. \A j \in 1 .. k - 1 : b[j].id # t.id
      BY <1>0, <1>1, <2>2 DEF Distinct
    <3>2. k \in 1 .. k /\ b[k].id = t.id
      BY <2>2
    <3>3. \A u \in TxId : u # t.id =>
            ((\E j \in 1 .. k : b[j].id = u) <=> (\E j \in 1 .. k - 1 : b[j].id = u))
      <4>1. \A j \in 1 .. k : j = k \/ j \in 1 .. k - 1
        OBVIOUS
      <4>2. \A j \in 1 .. k - 1 : j \in 1 .. k
        OBVIOUS
      <4> QED
        BY <2>2, <4>1, <4>2
    <3> QED
      BY <2>5, <3>1, <3>2, <3>3
  <2>7. PICK dd \in {0, 1} : dd = IF t.stage = "relay2" THEN 0 ELSE 1
    OBVIOUS
  <2>8. PICK dc \in {0, 1} : dc = IF t.stage = "relay1" THEN 0 ELSE 1
    OBVIOUS
  <2>9. /\ ex2[t.id].debit = executed[t.id].debit + dd
        /\ ex2[t.id].credit = executed[t.id].credit + dc
    <3>1. ex2[t.id] = [debit |-> 1, credit |-> IF t.stage = "relay1" THEN 0 ELSE 1]
      BY <2>0, <2>2
    <3>2. executed[t.id] = [debit |-> IF t.stage = "relay2" THEN 1 ELSE 0, credit |-> 0]
      BY <2>3 DEF Live
    <3>3. /\ ex2[t.id].debit = 1 /\ ex2[t.id].credit = dc
          /\ executed[t.id].debit = 1 - dd /\ executed[t.id].credit = 0
      BY <2>7, <2>8, <3>1, <3>2
    <3> QED
      BY <3>3
  <2>10. PICK e0 \in Counters : e0 = Ex(k - 1)
    BY <1>5, <2>0
  <2>11. PICK e1 \in Counters : e1 = Ex(k)
    BY <1>5, <2>0
  <2> HIDE DEF Ex
  <2>12. /\ Expenses(e1, a) = Expenses(e0, a) + (IF dd = 1 /\ a = t.from THEN t.value ELSE 0)
         /\ Income(e1, a) = Income(e0, a) + (IF dc = 1 /\ a = t.to THEN t.value ELSE 0)
    <3>1. /\ e1[Source[i].id].debit = e0[Source[i].id].debit + dd
          /\ e1[Source[i].id].credit = e0[Source[i].id].credit + dc
          /\ \A u \in TxId : u # Source[i].id => e1[u] = e0[u]
      BY <2>4, <2>6, <2>9, <2>10, <2>11
    <3> QED
      BY <2>4, <2>5, <3>1, SumsChange
  <2>13. W(k - 1, a) = Due(e0, a)
    BY <1>7, <2>1, <2>10
  <2>14. /\ (DebitedBy(s, t) <=> dd = 1) /\ (CreditedBy(s, t) <=> dc = 1)
         /\ dd = 1 => Home[t.from] = s
         /\ dc = 1 => Home[t.to] = s
    BY <2>3, <2>5, <2>7, <2>8 DEF DebitedBy, CreditedBy, Station, Stage
  <2>15. W(k, a) = W(k - 1, a) - (IF dd = 1 /\ a = t.from THEN t.value ELSE 0)
                               + (IF dc = 1 /\ a = t.to THEN t.value ELSE 0)
    <3>1. CASE Home[a] = s
      <4>1. WorthIn(g[k].balance, a)
            = WorthIn(g[k - 1].balance, a) - Taken(s, t, a) + Given(s, t, a)
        BY <2>1, <2>2, TxExecuteFacts
      <4>2. /\ Taken(s, t, a) = IF dd = 1 /\ a = t.from THEN t.value ELSE 0
            /\ Given(s, t, a) = IF dc = 1 /\ a = t.to THEN t.value ELSE 0
        BY <2>14 DEF Taken, Given
      <4> QED
        BY <3>1, <4>1, <4>2
    <3>2. CASE Home[a] # s
      <4>1. ~(dd = 1 /\ a = t.from) /\ ~(dc = 1 /\ a = t.to)
        BY <2>14, <3>2
      <4>2. W(k, a) = Worth(a) /\ W(k - 1, a) = Worth(a)
        BY <3>2
      <4>3. Worth(a) \in Int
        BY SourceSums, RelayAssumption DEF Due
      <4> QED
        BY <4>1, <4>2, <4>3
    <3> QED
      BY <3>1, <3>2
  <2> HIDE DEF W
  <2>16. Expenses(e0, a) \in Int /\ Income(e0, a) \in Int /\ NormalInitBalance \in Int
    BY SourceSums, RelayAssumption
  <2> QED
    BY <2>5, <2>11, <2>12, <2>13, <2>15, <2>16 DEF Due
<1> HIDE DEF Good
<1>8. n \in Q
  <2>1. Q \in SUBSET Nat /\ 0 \in Q /\ \A k \in 1 .. n : k - 1 \in Q => k \in Q
    BY <1>6, <1>7
  <2> HIDE DEF Q
  <2>2. 0 .. n \subseteq Q
    BY <2>1, UpTo
  <2> QED
    BY <2>2
<1>9. \A a \in Account : W(n, a) = Due(ex2, a)
  <2> HIDE DEF W, Ex
  <2> QED
    BY <1>2, <1>4, <1>8 DEF Good
<1>10. Execute(s, b).balance \in Balances
  BY <1>2 DEF States
<1> QED
  BY <1>2, <1>9, <1>10

\* The states of accounts are those of the committed transactions.
BalanceInv ==
  /\ balance \in [Shard -> Balances]
  /\ \A a \in Account : Worth(a) = Due(executed, a)

\* No proposed block leaves an account of its shard with exactly nothing: such an
\* account would be deleted and initialised again (run relay_remint).
NoneEmptied ==
  \A s \in Shard : \A b \in proposal[s] : \A a \in Account :
    Home[a] = s => Execute(s, b).balance[a] # 0

\* In every step but a commit.
LEMMA BalanceKept ==
  ASSUME BalanceInv, UNCHANGED <<balance, executed>>
  PROVE  BalanceInv'
BY DEF BalanceInv, Worth, Due, Income, Expenses, Gains, Charges, PaidBy, PaidTo

\* A commit of a block that empties no account.
LEMMA BalanceCommit ==
  ASSUME RelayInv, BalanceInv, NoneEmptied, NEW s \in Shard, BlockCommitAndDeliver(s)
  PROVE  BalanceInv'
<1>1. PICK b \in proposal[s] :
        /\ BlockOK(b, s, read, executed) /\ Execute(s, b).ok
        /\ balance' = [balance EXCEPT ![s] = DeleteEmpty(Execute(s, b).balance)]
        /\ executed' \in Counters
        /\ \A t \in TxId : t \notin Ids(b) => executed'[t] = executed[t]
        /\ \A i \in DOMAIN b :
             executed'[b[i].id] = [debit |-> 1, credit |-> IF b[i].stage = "relay1" THEN 0 ELSE 1]
  BY CommitExecutes DEF Counters
<1>2. /\ read \in 0 .. Len(Source) /\ executed \in Counters
      /\ balance \in [Shard -> Balances] /\ \A a \in Account : Worth(a) = Due(executed, a)
  BY DEF RelayInv, ListTypes, BalanceInv, Counters
<1>3. PICK bal : bal = Execute(s, b).balance
  OBVIOUS
<1>4. PICK ex2 \in Counters : ex2 = executed'
  BY <1>1
<1>5. /\ bal \in Balances
      /\ \A a \in Account : (IF Home[a] = s THEN WorthIn(bal, a) ELSE Worth(a)) = Due(ex2, a)
  <2>1. balance[s] \in Balances
    BY <1>2
  <2>2. /\ \A t \in TxId : t \notin Ids(b) => ex2[t] = executed[t]
        /\ \A i \in DOMAIN b :
             ex2[b[i].id] = [debit |-> 1, credit |-> IF b[i].stage = "relay1" THEN 0 ELSE 1]
    BY <1>1, <1>4
  <2> QED
    BY <1>1, <1>2, <1>3, <2>1, <2>2, CommitWorth
<1>6. DeleteEmpty(bal) \in Balances
  BY <1>5 DEF DeleteEmpty, Balances
<1>7. \A a \in Account : Home[a] = s => DeleteEmpty(bal)[a] = bal[a]
  BY <1>3 DEF NoneEmptied, DeleteEmpty
<1>8. balance' \in [Shard -> Balances]
  BY <1>1, <1>2, <1>3, <1>6
<1>9. ASSUME NEW a \in Account PROVE Worth(a)' = Due(ex2, a)
  <2>0. Home[a] \in Shard
    BY SourceFacts
  <2>1. CASE Home[a] = s
    <3>1. balance'[Home[a]][a] = bal[a]
      BY <1>1, <1>2, <1>3, <1>7, <2>1
    <3> QED
      BY <1>5, <2>1, <3>1 DEF Worth, WorthIn
  <2>2. CASE Home[a] # s
    <3>1. balance'[Home[a]] = balance[Home[a]]
      BY <1>1, <1>2, <2>0, <2>2
    <3> QED
      BY <1>5, <2>2, <3>1 DEF Worth
  <2> QED
    BY <2>1, <2>2
<1>10. \A a \in Account : Due(executed, a)' = Due(ex2, a)
  BY <1>4 DEF Due, Income, Expenses, Gains, Charges, PaidBy, PaidTo
<1> QED
  BY <1>8, <1>9, <1>10 DEF BalanceInv

\* In every behaviour in which no block empties an account, each account has exactly
\* what the committed transactions say.
LEMMA BalancesExact == Spec /\ []NoneEmptied => []BalanceInv
<1>1. Init => BalanceInv
  <2> SUFFICES ASSUME Init PROVE BalanceInv
    OBVIOUS
  <2>1. balance \in [Shard -> Balances]
    BY DEF Init, Balances
  <2>2. executed \in Counters /\ \A t \in TxId : executed[t] = [debit |-> 0, credit |-> 0]
    BY DEF Init, Counters
  <2>3. ASSUME NEW a \in Account PROVE Worth(a) = Due(executed, a)
    <3>1. Worth(a) = NormalInitBalance
      BY SourceFacts DEF Init, Worth
    <3>2. \A i \in DOMAIN Source : Charges(executed)[i] = 0 /\ Gains(executed)[i] = 0
      <4>1. \A v \in Nat : 0 * v = 0
        OBVIOUS
      <4>2. \A i \in DOMAIN Source : /\ executed[Source[i].id].debit = 0
                                     /\ executed[Source[i].id].credit = 0
                                     /\ Source[i].value \in Nat
        BY <2>2, SourceFacts
      <4> QED
        BY <4>1, <4>2 DEF Charges, Gains
    <3>3. /\ PaidBy(a) \in SUBSET DOMAIN Source /\ PaidTo(a) \in SUBSET DOMAIN Source
          /\ IsFiniteSet(PaidBy(a)) /\ IsFiniteSet(PaidTo(a))
      BY <2>2, SourceSums DEF PaidBy, PaidTo
    <3>4. SumOf(Charges(executed), PaidBy(a)) = Cardinality(PaidBy(a)) * 0
      BY <3>2, <3>3, SumConst
    <3>5. SumOf(Gains(executed), PaidTo(a)) = Cardinality(PaidTo(a)) * 0
      BY <3>2, <3>3, SumConst
    <3>6. \A k \in Nat : k * 0 = 0
      OBVIOUS
    <3>7. Expenses(executed, a) = 0 /\ Income(executed, a) = 0
      BY <3>3, <3>4, <3>5, <3>6, FS_CardinalityType DEF Expenses, Income
    <3> QED
      BY <3>1, <3>7, RelayAssumption DEF Due
  <2> QED
    BY <2>1, <2>3 DEF BalanceInv
<1>2. RelayInv /\ NoneEmptied /\ BalanceInv /\ [Next]_vars => BalanceInv'
  <2> SUFFICES ASSUME RelayInv, NoneEmptied, BalanceInv, [Next]_vars PROVE BalanceInv'
    OBVIOUS
  <2>1. ASSUME NEW s \in Shard, BlockCommitAndDeliver(s) PROVE BalanceInv'
    BY <2>1, BalanceCommit
  <2>2. Supervisor => UNCHANGED <<balance, executed>>
    BY DEF Supervisor, SupCheck, DrainEnd, ReadTxsAndSend, HandleBlockInfo
  <2>3. \A s \in Shard : \A m \in txMsgs : HandleReceiveTxs(s, m) => UNCHANGED <<balance, executed>>
    BY DEF HandleReceiveTxs
  <2>4. \A s \in Shard : HandleStop(s) \/ BuildProposal(s) => UNCHANGED <<balance, executed>>
    BY DEF HandleStop, BuildProposal
  <2>5. \A m \in txMsgs : LoseTxs(m) => UNCHANGED <<balance, executed>>
    BY DEF LoseTxs
  <2>6. UNCHANGED vars => UNCHANGED <<balance, executed>>
    BY DEF vars
  <2> QED
    BY <2>1, <2>2, <2>3, <2>4, <2>5, <2>6, BalanceKept DEF Next, ShardStep
<1> QED
  BY Invariance, <1>1, <1>2, PTL DEF Spec

\* As long as no account is emptied, nobody spends more than the initial balance and
\* what was received, with any interleaving of shards, losses and failed blocks.
THEOREM NobodyOverdraws == Spec /\ []NoneEmptied => []NoOverdraft
<1>1. RelayInv /\ BalanceInv => NoOverdraft
  <2> SUFFICES ASSUME RelayInv, BalanceInv, NEW a \in Account
               PROVE  Spent(a) <= NormalInitBalance + Received(a)
    BY DEF NoOverdraft
  <2>1. executed \in Counters
    BY DEF RelayInv, ListTypes, Counters
  <2>2. Spent(a) = Expenses(executed, a) /\ Received(a) = Income(executed, a)
    BY <2>1, SpentIs
  <2>3. Expenses(executed, a) \in Nat /\ Income(executed, a) \in Nat /\ NormalInitBalance \in Nat
    BY <2>1, SourceSums, RelayAssumption
  <2>4. Worth(a) \in Nat
    BY SourceFacts, RelayAssumption DEF BalanceInv, Balances, Worth
  <2>5. Worth(a) = NormalInitBalance + Income(executed, a) - Expenses(executed, a)
    BY DEF BalanceInv, Due
  <2> QED
    BY <2>2, <2>3, <2>4, <2>5
<1> QED
  BY Invariance, BalancesExact, <1>1, PTL

-----------------------------------------------------------------------------
(* The money under way: every payment that has debited and not credited is a *)
(* relay2 transaction of one list, or dropped.                               *)

\* The relay2 transactions of a list.
Carried(q) == {t \in TxId : \E k \in DOMAIN q : q[k].id = t /\ q[k].stage = "relay2"}

\* Transaction t is in a list; as a relay2 transaction in a list, or dropped.
Listed(t) ==
  \/ \E m \in txMsgs : t \in Ids(m.txs)
  \/ \E s \in Shard : t \in Ids(pool[s])
  \/ \E s \in Shard : \E b \in proposal[s] : t \in Ids(b)
Carrying(t) ==
  \/ \E m \in txMsgs : t \in Carried(m.txs)
  \/ \E s \in Shard : t \in Carried(pool[s])
  \/ \E s \in Shard : \E b \in proposal[s] : t \in Carried(b)
  \/ \E d \in dropped : d.id = t /\ d.stage = "relay2"

\* The counters of a payment that is half done.
Half == [debit |-> 1, credit |-> 0]

\* No debited payment is forgotten before it is credited.
HalfInv == \A t \in TxId : executed[t] = Half => Carrying(t)

\* What is dropped is in no list, and stays as it was.
DropInv ==
  /\ dropped \subseteq Tx
  /\ \A d \in dropped : Live(d, read, executed) /\ ~Listed(d.id)
  /\ \A d, e \in dropped : d.id = e.id => d = e

\* The inductive invariant, on top of RelayInv.
PathInv == HalfInv /\ DropInv /\ IsFiniteSet(txMsgs)

\* AddTxs and the cut of PackTxs lose nothing.
LEMMA CarriedConcat ==
  ASSUME NEW q \in Seq(Tx), NEW r \in Seq(Tx)
  PROVE  Carried(q) \cup Carried(r) \subseteq Carried(q \o r)
<1>1. PICK c : c = q \o r
  OBVIOUS
<1>2. /\ \A i \in DOMAIN q : i \in DOMAIN c /\ c[i] = q[i]
      /\ \A i \in DOMAIN r : Len(q) + i \in DOMAIN c /\ c[Len(q) + i] = r[i]
  <2>1. /\ DOMAIN c = 1 .. Len(q) + Len(r)
        /\ DOMAIN q = 1 .. Len(q) /\ DOMAIN r = 1 .. Len(r) /\ Len(q) \in Nat /\ Len(r) \in Nat
        /\ \A i \in 1 .. Len(q) : c[i] = q[i]
        /\ \A i \in 1 .. Len(r) : c[Len(q) + i] = r[i]
    BY <1>1
  <2> QED
    BY <2>1
<1> QED
  BY <1>1, <1>2 DEF Carried

\* A list cut in two keeps its relay2 transactions.
LEMMA CarriedCut ==
  ASSUME NEW q \in Seq(Tx), NEW n \in 0 .. Len(q)
  PROVE  Carried(q) \subseteq Carried(SubSeq(q, 1, n)) \cup Carried(Rest(q, n))
<1>1. PICK a : a = SubSeq(q, 1, n)
  OBVIOUS
<1>2. PICK c : c = Rest(q, n)
  OBVIOUS
<1>3. Len(q) \in Nat /\ DOMAIN q = 1 .. Len(q)
  OBVIOUS
<1>4. DOMAIN a = 1 .. n /\ \A i \in 1 .. n : a[i] = q[i]
  BY <1>1
<1>5. DOMAIN c = 1 .. Len(q) - n /\ \A i \in 1 .. Len(q) - n : c[i] = q[n + i]
  BY <1>2 DEF Rest
<1>6. ASSUME NEW i \in DOMAIN q
      PROVE  \/ i \in DOMAIN a /\ a[i] = q[i]
             \/ i - n \in DOMAIN c /\ c[i - n] = q[i]
  <2>1. CASE i <= n
    BY <1>3, <1>4, <2>1
  <2>2. CASE i > n
    <3>1. i - n \in 1 .. Len(q) - n /\ n + (i - n) = i
      BY <1>3, <2>2
    <3> QED
      BY <1>5, <3>1
  <2> QED
    BY <1>3, <2>1, <2>2
<1> QED
  BY <1>1, <1>2, <1>6 DEF Carried

\* modifyTxRelayOpt takes no relay2 transaction away.
LEMMA CarriedModify ==
  ASSUME NEW q \in Seq(Tx), Distinct(q), NEW s
  PROVE  Carried(q) \subseteq Carried(ModifyTxRelayOpt(s, q))
<1> DEFINE here == {i \in DOMAIN q : q[i].stage # "undetermined" \/ Home[q[i].from] = s}
           Mark(t) == IF t.stage = "undetermined" /\ Home[t.to] # s
                      THEN [t EXCEPT !.stage = "relay1"] ELSE t
           marked == [i \in DOMAIN q |-> Mark(q[i])]
<1>1. Len(q) \in Nat /\ DOMAIN q = 1 .. Len(q) /\ \A i \in DOMAIN q : q[i] \in Tx
  OBVIOUS
<1>2. \A t \in Tx : Mark(t) \in Tx /\ Mark(t).id = t.id /\ (t.stage = "relay2" => Mark(t) = t)
  BY DEF Tx, Stage
<1>3. ModifyTxRelayOpt(s, q) = Selected(marked, here)
  BY DEF ModifyTxRelayOpt
<1> HIDE DEF Mark
<1>4. /\ marked \in Seq(Tx) /\ DOMAIN marked = DOMAIN q
      /\ \A i \in DOMAIN q : marked[i] = Mark(q[i])
  BY <1>1, <1>2
<1>5. Distinct(marked)
  BY <1>1, <1>2, <1>4 DEF Distinct
<1>6. here \in SUBSET DOMAIN marked /\ \A i \in DOMAIN q : q[i].stage = "relay2" => i \in here
  BY <1>4
<1> HIDE DEF here, marked
<1>7. PICK r : r = Selected(marked, here)
  OBVIOUS
<1>8. \A i \in here : \E k \in DOMAIN r : r[k] = marked[i]
  BY <1>4, <1>5, <1>6, <1>7, SelectedList
<1>9. \A i \in DOMAIN q : q[i].stage = "relay2" => \E k \in DOMAIN r : r[k] = q[i]
  BY <1>1, <1>2, <1>4, <1>6, <1>8
<1> QED
  BY <1>3, <1>7, <1>9 DEF Carried

\* sendRelayedTxs makes a relay2 transaction of every relay1 transaction.
LEMMA CarriedRelayed ==
  ASSUME NEW b \in Seq(Tx), Distinct(b), NEW i \in DOMAIN b, b[i].stage = "relay1"
  PROVE  \E k \in DOMAIN RelayedTxs(b) : RelayedTxs(b)[k] = [b[i] EXCEPT !.stage = "relay2"]
<1> DEFINE Relay(t) == [t EXCEPT !.stage = "relay2"]
           relayed == [j \in DOMAIN b |-> Relay(b[j])]
           I == {j \in DOMAIN b : b[j].stage = "relay1"}
<1>1. RelayedTxs(b) = Selected(relayed, I)
  BY DEF RelayedTxs
<1>2. \A t \in Tx : Relay(t) \in Tx /\ Relay(t).id = t.id
  BY DEF Tx, Stage
<1> HIDE DEF Relay
<1>3. DOMAIN b = 1 .. Len(b) /\ Len(b) \in Nat /\ \A j \in DOMAIN b : b[j] \in Tx
  OBVIOUS
<1>4. /\ relayed \in Seq(Tx) /\ DOMAIN relayed = DOMAIN b
      /\ \A j \in DOMAIN b : relayed[j] = Relay(b[j])
  BY <1>2, <1>3
<1>5. Distinct(relayed)
  BY <1>2, <1>3, <1>4 DEF Distinct
<1>6. I \in SUBSET DOMAIN relayed /\ i \in I
  BY <1>4
<1>7. PICK r : r = RelayedTxs(b)
  OBVIOUS
<1> HIDE DEF relayed, I
<1>8. \E k \in DOMAIN r : r[k] = relayed[i]
  BY <1>1, <1>4, <1>5, <1>6, <1>7, SelectedList
<1> QED
  BY <1>4, <1>7, <1>8 DEF Relay

\* SendWrappedTxs2Shards sends every transaction that has a shard, in finitely many messages.
LEMMA MsgsForAll ==
  ASSUME NEW q \in Seq(Tx), Distinct(q), NEW dest, \A k \in DOMAIN q : dest[q[k]] \in Shard
  PROVE  /\ \A k \in DOMAIN q : \E m \in TxMsgsFor(q, dest) : \E j \in DOMAIN m.txs :
              m.txs[j] = q[k]
         /\ IsFiniteSet(TxMsgsFor(q, dest))
<1> DEFINE I(s) == {i \in DOMAIN q : dest[q[i]] = s}
           M(s) == [to |-> s, txs |-> Selected(q, I(s))]
           All == {M(s) : s \in Shard}
<1>1. TxMsgsFor(q, dest) = {m \in All : m.txs # <<>>}
  BY DEF TxMsgsFor
<1>2. ASSUME NEW k \in DOMAIN q
      PROVE  \E m \in TxMsgsFor(q, dest) : \E j \in DOMAIN m.txs : m.txs[j] = q[k]
  <2>1. PICK s \in Shard : s = dest[q[k]]
    OBVIOUS
  <2>2. k \in I(s) /\ I(s) \in SUBSET DOMAIN q
    BY <2>1
  <2> HIDE DEF I
  <2>3. PICK r : r = Selected(q, I(s))
    OBVIOUS
  <2>4. PICK j \in DOMAIN r : r[j] = q[k]
    BY <2>2, <2>3, SelectedList
  <2>5. r # <<>>
    BY <2>4
  <2>6. M(s).txs = r /\ M(s) \in All
    BY <2>3
  <2>7. M(s) \in TxMsgsFor(q, dest)
    BY <1>1, <2>5, <2>6
  <2> QED
    BY <2>4, <2>6, <2>7
<1>3. IsFiniteSet(TxMsgsFor(q, dest))
  <2> HIDE DEF M
  <2>1. IsFiniteSet(Shard)
    BY RelayAssumption
  <2> DEFINE f == [s \in Shard |-> M(s)]
  <2>2. f \in [Shard -> All] /\ \A z \in All : \E s \in Shard : f[s] = z
    OBVIOUS
  <2> HIDE DEF All, f
  <2>3. IsFiniteSet(All)
    BY <2>1, <2>2, FiniteImage
  <2>4. TxMsgsFor(q, dest) \subseteq All
    BY <1>1
  <2> QED
    BY <2>3, <2>4, FS_Subset
<1> QED
  BY <1>2, <1>3

-----------------------------------------------------------------------------

\* What a step that executes nothing has to keep.
LEMMA PathKept ==
  ASSUME RelayInv, PathInv, executed' = executed, read' \in Nat, read <= read',
         IsFiniteSet(txMsgs'), NEW q, dropped' = dropped \cup ToSet(q), q \in Seq(Tx), Distinct(q),
         \A k \in DOMAIN q : Live(q[k], read, executed) /\ Listed(q[k].id),
         \A k \in DOMAIN q : ~Listed(q[k].id)',
         \A t \in TxId : Carrying(t) => Carrying(t)',
         \A t \in TxId : (\E d \in dropped : d.id = t) => ~Listed(t)'
  PROVE  PathInv'
<1>1. read \in Nat
  BY SourceFacts DEF RelayInv, ListTypes
<1>2. HalfInv'
  BY DEF PathInv, HalfInv
<1>3. \A d \in dropped : d \in Tx /\ d.id \in TxId /\ Live(d, read, executed) /\ ~Listed(d.id)
  BY DEF PathInv, DropInv, Tx
<1>4. \A d \in dropped' : d \in dropped \/ \E k \in DOMAIN q : d = q[k]
  BY DEF ToSet
<1>5. \A k \in DOMAIN q : q[k] \in Tx
  BY ListElements
<1>6. \A t : Live(t, read, executed) => Live(t, read', executed')
  <2>1. \A i \in 1 .. read : i \in 1 .. read'
    BY <1>1
  <2> QED
    BY <2>1 DEF Live, Genuine
<1>7. dropped' \subseteq Tx
  BY <1>3, <1>4, <1>5
<1>8. \A d \in dropped' : Live(d, read, executed)' /\ ~Listed(d.id)'
  <2> SUFFICES ASSUME NEW d \in dropped' PROVE Live(d, read', executed') /\ ~Listed(d.id)'
    OBVIOUS
  <2>1. CASE d \in dropped
    BY <1>3, <1>6, <2>1
  <2>2. ASSUME NEW k \in DOMAIN q, d = q[k] PROVE Live(d, read', executed') /\ ~Listed(d.id)'
    BY <1>6, <2>2
  <2> QED
    BY <1>4, <2>1, <2>2
<1>9. \A d, e \in dropped' : d.id = e.id => d = e
  <2> SUFFICES ASSUME NEW d \in dropped', NEW e \in dropped', d.id = e.id PROVE d = e
    OBVIOUS
  <2>1. CASE d \in dropped /\ e \in dropped
    BY <2>1 DEF PathInv, DropInv
  <2>2. CASE ~(d \in dropped) /\ ~(e \in dropped)
    BY <1>4, <2>2 DEF Distinct
  <2>3. CASE ~(d \in dropped <=> e \in dropped)
    BY <1>3, <1>4, <2>3
  <2> QED
    BY <2>1, <2>2, <2>3
<1> QED
  BY <1>2, <1>7, <1>8, <1>9 DEF PathInv, DropInv

\* Initially no payment has debited.
LEMMA PathInit == Init => PathInv
<1> SUFFICES ASSUME Init PROVE PathInv
  OBVIOUS
<1>1. HalfInv
  BY DEF Init, HalfInv, Half
<1>2. DropInv
  BY DEF Init, DropInv
<1>3. IsFiniteSet(txMsgs)
  BY FS_EmptySet DEF Init
<1> QED
  BY <1>1, <1>2, <1>3 DEF PathInv

\* The steps that touch no list.
LEMMA PathStutter ==
  ASSUME RelayInv, PathInv, UNCHANGED <<read, pool, proposal, executed, txMsgs, dropped>>
  PROVE  PathInv'
BY DEF PathInv, HalfInv, DropInv, Carrying, Listed

\* AddTxs moves the transactions of a message to the pool of its shard.
LEMMA PathReceive ==
  ASSUME RelayInv, PathInv, NEW s \in Shard, NEW m \in txMsgs, HandleReceiveTxs(s, m)
  PROVE  PathInv'
<1>1. /\ m.to = s /\ txMsgs' = txMsgs \ {m} /\ pool' = [pool EXCEPT ![s] = pool[s] \o m.txs]
      /\ UNCHANGED <<read, proposal, executed, dropped>>
  BY DEF HandleReceiveTxs, supVars, AddTxs
<1>2. /\ ListTypes /\ ListsInv /\ ApartInv
  BY DEF RelayInv
<1>3. PICK q : q = pool[s] \o m.txs
  OBVIOUS
<1>4. /\ Ids(q) = Ids(pool[s]) \cup Ids(m.txs)
      /\ Carried(pool[s]) \subseteq Carried(q) /\ Carried(m.txs) \subseteq Carried(q)
  <2>1. /\ ListOK(pool[s], s, read, executed) /\ ListOK(m.txs, s, read, executed)
        /\ Apart(pool[s], m.txs) /\ pool[s] \in Seq(Tx) /\ m.txs \in Seq(Tx)
    BY <1>1, <1>2 DEF ListsInv, ApartInv, Apart, ListOK
  <2>2. Ids(q) = Ids(pool[s]) \cup Ids(m.txs)
    BY <1>3, <2>1, ListConcat
  <2>3. Carried(pool[s]) \cup Carried(m.txs) \subseteq Carried(q)
    BY <1>3, <2>1, CarriedConcat
  <2> QED
    BY <2>2, <2>3
<1>5. pool'[s] = q /\ \A r \in Shard : r # s => pool'[r] = pool[r]
  BY <1>1, <1>2, <1>3 DEF ListTypes
<1>6. \A t \in TxId : Carrying(t) => Carrying(t)'
  <2> SUFFICES ASSUME NEW t \in TxId, Carrying(t) PROVE Carrying(t)'
    OBVIOUS
  <2>1. CASE \E k \in txMsgs : t \in Carried(k.txs)
    <3>1. PICK k \in txMsgs : t \in Carried(k.txs)
      BY <2>1
    <3>2. CASE k = m
      BY <1>4, <1>5, <3>1, <3>2 DEF Carrying
    <3>3. CASE k # m
      BY <1>1, <3>1, <3>3 DEF Carrying
    <3> QED
      BY <3>2, <3>3
  <2>2. CASE \E r \in Shard : t \in Carried(pool[r])
    <3>1. PICK r \in Shard : t \in Carried(pool[r])
      BY <2>2
    <3>2. t \in Carried(pool'[r])
      BY <1>4, <1>5, <3>1
    <3> QED
      BY <3>2 DEF Carrying
  <2>3. CASE \E r \in Shard : \E b \in proposal[r] : t \in Carried(b)
    BY <1>1, <2>3 DEF Carrying
  <2>4. CASE \E d \in dropped : d.id = t /\ d.stage = "relay2"
    BY <1>1, <2>4 DEF Carrying
  <2> QED
    BY <2>1, <2>2, <2>3, <2>4 DEF Carrying
<1>7. \A t : Listed(t)' => Listed(t)
  BY <1>1, <1>4, <1>5 DEF Listed
<1>8. \A d \in dropped : ~Listed(d.id)
  BY DEF PathInv, DropInv
<1>9. IsFiniteSet(txMsgs')
  BY <1>1, FS_Subset DEF PathInv
<1>10. PICK e : e = <<>>
  OBVIOUS
<1>11. e \in Seq(Tx) /\ Distinct(e) /\ DOMAIN e = {} /\ dropped' = dropped \cup ToSet(e)
  BY <1>1, <1>10 DEF Distinct, ToSet
<1>12. read' \in Nat /\ read <= read' /\ executed' = executed
  BY <1>1, <1>2, SourceFacts DEF ListTypes
<1> HIDE DEF RelayInv, PathInv, Carrying, Listed
<1> QED
  BY <1>6, <1>7, <1>8, <1>9, <1>11, <1>12, PathKept

\* BuildProposal moves transactions from the pool to a block, or drops them.
LEMMA PathBuild ==
  ASSUME RelayInv, PathInv, NEW s \in Shard, BuildProposal(s)
  PROVE  PathInv'
<1>0. ListTypes /\ ListsInv /\ ApartInv
  BY DEF RelayInv
<1>1. PICK n : n = PackEnd(pool[s], BlockSizeLimit)
  OBVIOUS
<1>2. PICK c : c = Rest(pool[s], n)
  OBVIOUS
<1>3. PICK b : b = ModifyTxRelayOpt(s, SubSeq(pool[s], 1, n))
  OBVIOUS
<1>4. /\ pool' = [pool EXCEPT ![s] = c] /\ proposal[s] = {}
      /\ \/ proposal' = [proposal EXCEPT ![s] = {b}] /\ dropped' = dropped
         \/ proposal' = proposal /\ dropped' = dropped \cup ToSet(b)
      /\ UNCHANGED <<read, txMsgs, executed>>
  BY <1>1, <1>2, <1>3 DEF BuildProposal, supVars
<1>5. /\ BlockOK(b, s, read, executed) /\ Apart(c, b)
      /\ Ids(b) \subseteq Ids(pool[s]) /\ Ids(c) \subseteq Ids(pool[s])
      /\ Carried(pool[s]) \subseteq Carried(b) \cup Carried(c)
  <2>1. ListOK(pool[s], s, read, executed) /\ pool[s] \in Seq(Tx)
    BY <1>0 DEF ListsInv, ListTypes
  <2>2. n \in 0 .. Len(pool[s])
    BY <1>1, <2>1, PackEndFacts
  <2>3. PICK a : a = SubSeq(pool[s], 1, n)
    OBVIOUS
  <2>4. /\ ListOK(a, s, read, executed) /\ ListOK(c, s, read, executed) /\ Apart(a, c)
        /\ Ids(a) \subseteq Ids(pool[s]) /\ Ids(c) \subseteq Ids(pool[s])
    BY <1>2, <2>1, <2>2, <2>3, CutFacts
  <2>5. BlockOK(b, s, read, executed) /\ Ids(b) \subseteq Ids(a)
    BY <1>3, <2>3, <2>4, ModifyFacts
  <2>6. Carried(pool[s]) \subseteq Carried(a) \cup Carried(c)
    BY <1>2, <2>1, <2>2, <2>3, CarriedCut
  <2>7. a \in Seq(Tx) /\ Distinct(a)
    BY <2>4 DEF ListOK
  <2>8. Carried(a) \subseteq Carried(b)
    BY <1>3, <2>3, <2>7, CarriedModify
  <2>9. Apart(c, b) /\ Ids(b) \subseteq Ids(pool[s])
    BY <2>4, <2>5, ApartWithin
  <2> QED
    BY <2>4, <2>5, <2>6, <2>8, <2>9
<1>6. pool'[s] = c /\ \A r \in Shard : r # s => pool'[r] = pool[r]
  BY <1>0, <1>4 DEF ListTypes
<1>7. b \in Seq(Tx) /\ Distinct(b) /\ \A k \in DOMAIN b : Live(b[k], read, executed)
  BY <1>5 DEF BlockOK, ListOK
<1>8. \A d \in dropped : ~Listed(d.id)
  BY DEF PathInv, DropInv
<1>9. read' \in Nat /\ read <= read' /\ executed' = executed /\ IsFiniteSet(txMsgs')
  BY <1>0, <1>4, SourceFacts DEF ListTypes, PathInv
<1>10. CASE proposal' = [proposal EXCEPT ![s] = {b}] /\ dropped' = dropped
  <2>1. proposal'[s] = {b} /\ \A r \in Shard : r # s => proposal'[r] = proposal[r]
    BY <1>0, <1>10 DEF ListTypes
  <2>2. \A t \in TxId : Carrying(t) => Carrying(t)'
    <3> SUFFICES ASSUME NEW t \in TxId, Carrying(t) PROVE Carrying(t)'
      OBVIOUS
    <3>1. CASE \E k \in txMsgs : t \in Carried(k.txs)
      BY <1>4, <3>1 DEF Carrying
    <3>2. CASE \E r \in Shard : t \in Carried(pool[r])
      <4>1. PICK r \in Shard : t \in Carried(pool[r])
        BY <3>2
      <4>2. t \in Carried(pool'[r]) \/ (t \in Carried(b) /\ b \in proposal'[s])
        BY <1>5, <1>6, <2>1, <4>1
      <4> QED
        BY <4>2 DEF Carrying
    <3>3. CASE \E r \in Shard : \E d \in proposal[r] : t \in Carried(d)
      <4>1. PICK r \in Shard : \E d \in proposal[r] : t \in Carried(d)
        BY <3>3
      <4>2. r # s
        BY <1>4, <4>1
      <4> QED
        BY <2>1, <4>1, <4>2 DEF Carrying
    <3>4. CASE \E d \in dropped : d.id = t /\ d.stage = "relay2"
      BY <1>10, <3>4 DEF Carrying
    <3> QED
      BY <3>1, <3>2, <3>3, <3>4 DEF Carrying
  <2>3. \A t : Listed(t)' => Listed(t)
    <3> SUFFICES ASSUME NEW t, Listed(t)' PROVE Listed(t)
      OBVIOUS
    <3>1. CASE \E m \in txMsgs' : t \in Ids(m.txs)
      BY <1>4, <3>1 DEF Listed
    <3>2. CASE \E r \in Shard : t \in Ids(pool'[r])
      BY <1>5, <1>6, <3>2 DEF Listed
    <3>3. CASE \E r \in Shard : \E d \in proposal'[r] : t \in Ids(d)
      <4>1. PICK r \in Shard : \E d \in proposal'[r] : t \in Ids(d)
        BY <3>3
      <4>2. t \in Ids(pool[s]) \/ \E d \in proposal[r] : t \in Ids(d)
        BY <1>5, <2>1, <4>1
      <4> QED
        BY <4>2 DEF Listed
    <3> QED
      BY <3>1, <3>2, <3>3 DEF Listed
  <2>4. PICK e : e = <<>>
    OBVIOUS
  <2>5. e \in Seq(Tx) /\ Distinct(e) /\ DOMAIN e = {} /\ dropped' = dropped \cup ToSet(e)
    BY <1>10, <2>4 DEF Distinct, ToSet
  <2> HIDE DEF RelayInv, PathInv, Carrying, Listed
  <2> QED
    BY <1>8, <1>9, <2>2, <2>3, <2>5, PathKept
<1>11. CASE proposal' = proposal /\ dropped' = dropped \cup ToSet(b)
  <2>1. \A t \in TxId : Carrying(t) => Carrying(t)'
    <3> SUFFICES ASSUME NEW t \in TxId, Carrying(t) PROVE Carrying(t)'
      OBVIOUS
    <3>1. CASE \E k \in txMsgs : t \in Carried(k.txs)
      BY <1>4, <3>1 DEF Carrying
    <3>2. CASE \E r \in Shard : t \in Carried(pool[r])
      <4>1. PICK r \in Shard : t \in Carried(pool[r])
        BY <3>2
      <4>2. t \in Carried(pool'[r]) \/ t \in Carried(b)
        BY <1>5, <1>6, <4>1
      <4>3. t \in Carried(b) => \E d \in dropped' : d.id = t /\ d.stage = "relay2"
        BY <1>11 DEF Carried, ToSet
      <4> QED
        BY <4>2, <4>3 DEF Carrying
    <3>3. CASE \E r \in Shard : \E d \in proposal[r] : t \in Carried(d)
      BY <1>11, <3>3 DEF Carrying
    <3>4. CASE \E d \in dropped : d.id = t /\ d.stage = "relay2"
      BY <1>11, <3>4 DEF Carrying
    <3> QED
      BY <3>1, <3>2, <3>3, <3>4 DEF Carrying
  <2>2. \A t : Listed(t)' => Listed(t)
    BY <1>4, <1>5, <1>6, <1>11 DEF Listed
  <2>3. \A k \in DOMAIN b : Listed(b[k].id) /\ ~Listed(b[k].id)'
    <3> SUFFICES ASSUME NEW k \in DOMAIN b PROVE Listed(b[k].id) /\ ~Listed(b[k].id)'
      OBVIOUS
    <3>1. PICK t : t = b[k].id
      OBVIOUS
    <3>2. t \in Ids(b) /\ t \in Ids(pool[s])
      BY <1>5, <3>1 DEF Ids
    <3>3. Listed(t)
      BY <3>2 DEF Listed
    <3>4. \A m \in txMsgs : t \notin Ids(m.txs)
      BY <1>0, <3>2 DEF ApartInv, Apart
    <3>5. \A r \in Shard : t \notin Ids(pool'[r])
      BY <1>0, <1>5, <1>6, <3>2 DEF ApartInv, Apart
    <3>6. \A r \in Shard : \A d \in proposal[r] : t \notin Ids(d)
      BY <1>0, <3>2 DEF ApartInv, Apart
    <3>7. ~Listed(t)'
      BY <1>4, <1>11, <3>4, <3>5, <3>6 DEF Listed
    <3> QED
      BY <3>1, <3>3, <3>7
  <2> HIDE DEF RelayInv, PathInv, Carrying, Listed
  <2> QED
    BY <1>7, <1>8, <1>9, <1>11, <2>1, <2>2, <2>3, PathKept
<1> QED
  BY <1>4, <1>10, <1>11

\* A lost message takes its transactions with it.
LEMMA PathLose ==
  ASSUME RelayInv, PathInv, NEW m \in txMsgs, LoseTxs(m)
  PROVE  PathInv'
<1>0. ListTypes /\ ListsInv /\ ApartInv
  BY DEF RelayInv
<1>1. /\ txMsgs' = txMsgs \ {m} /\ dropped' = dropped \cup ToSet(m.txs)
      /\ UNCHANGED <<read, pool, proposal, executed>>
  BY DEF LoseTxs, supVars
<1>2. PICK q : q = m.txs
  OBVIOUS
<1>3. q \in Seq(Tx) /\ Distinct(q) /\ \A k \in DOMAIN q : Live(q[k], read, executed)
  BY <1>0, <1>2 DEF ListsInv, ListOK
<1>4. read' \in Nat /\ read <= read' /\ executed' = executed /\ IsFiniteSet(txMsgs')
  BY <1>0, <1>1, SourceFacts, FS_Subset DEF ListTypes, PathInv
<1>5. \A t \in TxId : Carrying(t) => Carrying(t)'
  <2> SUFFICES ASSUME NEW t \in TxId, Carrying(t) PROVE Carrying(t)'
    OBVIOUS
  <2>1. CASE \E k \in txMsgs : t \in Carried(k.txs)
    <3>1. PICK k \in txMsgs : t \in Carried(k.txs)
      BY <2>1
    <3>2. CASE k = m
      <4>1. \E d \in dropped' : d.id = t /\ d.stage = "relay2"
        BY <1>1, <3>1, <3>2 DEF Carried, ToSet
      <4> QED
        BY <4>1 DEF Carrying
    <3>3. CASE k # m
      BY <1>1, <3>1, <3>3 DEF Carrying
    <3> QED
      BY <3>2, <3>3
  <2>2. CASE \E r \in Shard : t \in Carried(pool[r])
    BY <1>1, <2>2 DEF Carrying
  <2>3. CASE \E r \in Shard : \E b \in proposal[r] : t \in Carried(b)
    BY <1>1, <2>3 DEF Carrying
  <2>4. CASE \E d \in dropped : d.id = t /\ d.stage = "relay2"
    BY <1>1, <2>4 DEF Carrying
  <2> QED
    BY <2>1, <2>2, <2>3, <2>4 DEF Carrying
<1>6. \A t : Listed(t)' => Listed(t)
  BY <1>1 DEF Listed
<1>7. \A d \in dropped : ~Listed(d.id)
  BY DEF PathInv, DropInv
<1>8. \A k \in DOMAIN q : Listed(q[k].id) /\ ~Listed(q[k].id)'
  <2> SUFFICES ASSUME NEW k \in DOMAIN q PROVE Listed(q[k].id) /\ ~Listed(q[k].id)'
    OBVIOUS
  <2>1. PICK t : t = q[k].id
    OBVIOUS
  <2>2. t \in Ids(m.txs)
    BY <1>2, <2>1 DEF Ids
  <2>3. Listed(t)
    BY <2>2 DEF Listed
  <2>4. \A n \in txMsgs' : t \notin Ids(n.txs)
    BY <1>0, <1>1, <2>2 DEF ApartInv, Apart
  <2>5. \A r \in Shard : t \notin Ids(pool[r])
    BY <1>0, <2>2 DEF ApartInv, Apart
  <2>6. \A r \in Shard : \A d \in proposal[r] : t \notin Ids(d)
    BY <1>0, <2>2 DEF ApartInv, Apart
  <2>7. ~Listed(t)'
    BY <1>1, <2>4, <2>5, <2>6 DEF Listed
  <2> QED
    BY <2>1, <2>3, <2>7
<1>9. dropped' = dropped \cup ToSet(q)
  BY <1>1, <1>2
<1> HIDE DEF RelayInv, PathInv, Carrying, Listed
<1> QED
  BY <1>3, <1>4, <1>5, <1>6, <1>7, <1>8, <1>9, PathKept

\* readTxsAndSend sends only transactions that were not dropped.
LEMMA PathRead ==
  ASSUME RelayInv, PathInv, ReadTxsAndSend
  PROVE  PathInv'
<1> DEFINE dest(q) == [t \in ToSet(q) |-> Home[t.from]]
<1>1. PICK size \in Nat, q \in Seq(Tx) :
        /\ read \in Nat /\ read' \in Nat /\ read <= read'
        /\ \A i \in 1 .. size : read + i \in 1 .. Len(Source) /\ read + i > read
        /\ Distinct(q) /\ DOMAIN q = 1 .. size
        /\ \A i \in 1 .. size : q[i].id = Source[read + i].id
        /\ txMsgs' = txMsgs \cup TxMsgsFor(q, dest(q))
        /\ pool' = pool /\ proposal' = proposal /\ executed' = executed /\ dropped' = dropped
  BY ReadFacts
<1>2. \A k \in DOMAIN q : dest(q)[q[k]] \in Shard
  <2>1. \A k \in DOMAIN q : q[k] \in ToSet(q) /\ q[k].from \in Account
    BY ListElements DEF ToSet
  <2> QED
    BY <2>1, SourceFacts
<1> DEFINE New == TxMsgsFor(q, dest(q))
<1>3. IsFiniteSet(New) /\ \A m \in New : Ids(m.txs) \subseteq Ids(q)
  <2> HIDE DEF dest
  <2> QED
    BY <1>1, <1>2, MsgsForAll, MsgsForFacts
<1>4. txMsgs' = txMsgs \cup New
  BY <1>1
<1> HIDE DEF New
<1>5. IsFiniteSet(txMsgs')
  BY <1>3, <1>4, FS_Union DEF PathInv
<1>6. \A t \in TxId : Carrying(t) => Carrying(t)'
  BY <1>1, <1>4 DEF Carrying
<1>7. ASSUME NEW d \in dropped PROVE ~Listed(d.id)'
  <2>1. ~Listed(d.id) /\ Live(d, read, executed)
    BY DEF PathInv, DropInv
  <2>2. PICK j \in 1 .. read : d.id = Source[j].id
    BY <2>1 DEF Live, Genuine
  <2>3. d.id \notin Ids(q)
    <3> SUFFICES ASSUME NEW i \in DOMAIN q, q[i].id = d.id PROVE FALSE
      BY DEF Ids
    <3>1. read + i \in 1 .. Len(Source) /\ read + i > read /\ q[i].id = Source[read + i].id
      BY <1>1
    <3>2. read \in 0 .. Len(Source) /\ Len(Source) \in Nat
      BY SourceFacts DEF RelayInv, ListTypes
    <3>3. j \in 1 .. Len(Source) /\ j # read + i
      BY <3>1, <3>2
    <3> QED
      BY <2>2, <3>1, <3>3, SourceFacts
  <2> QED
    BY <1>1, <1>3, <1>4, <2>1, <2>3 DEF Listed
<1>8. PICK e : e = <<>>
  OBVIOUS
<1>9. e \in Seq(Tx) /\ Distinct(e) /\ DOMAIN e = {} /\ dropped' = dropped \cup ToSet(e)
  BY <1>1, <1>8 DEF Distinct, ToSet
<1> HIDE DEF RelayInv, PathInv, Carrying, Listed
<1> QED
  BY <1>1, <1>5, <1>6, <1>7, <1>9, PathKept

\* A commit credits the relay2 transactions of its block, and sends the second halves
\* of the payments it has debited only.
LEMMA PathCommit ==
  ASSUME RelayInv, PathInv, NEW s \in Shard, BlockCommitAndDeliver(s)
  PROVE  PathInv'
<1>0. ListTypes /\ ListsInv /\ ApartInv
  BY DEF RelayInv
<1> DEFINE dest(q) == [t \in ToSet(q) |-> RelayDest(t)]
<1>1. PICK b \in proposal[s] :
        /\ BlockOK(b, s, read, executed)
        /\ txMsgs' = txMsgs \cup TxMsgsFor(RelayedTxs(b), dest(RelayedTxs(b)))
        /\ \A t \in TxId : t \notin Ids(b) => executed'[t] = executed[t]
        /\ \A i \in DOMAIN b :
             executed'[b[i].id] = [debit |-> 1, credit |-> IF b[i].stage = "relay1" THEN 0 ELSE 1]
  BY CommitExecutes
<1>2. /\ proposal' = [proposal EXCEPT ![s] = {}] /\ pool' = pool /\ read' = read
      /\ dropped' = dropped
  BY DEF BlockCommitAndDeliver, supVars
<1>3. b \in Seq(Tx) /\ Distinct(b) /\ proposal[s] = {b}
  BY <1>0, <1>1 DEF BlockOK, ListOK, ApartInv
<1>4. PICK r : r = RelayedTxs(b)
  OBVIOUS
<1>5. r \in Seq(Tx) /\ Distinct(r) /\ Ids(r) \subseteq Ids(b)
  BY <1>3, <1>4, RelayedFacts
<1>6. \A k \in DOMAIN r : dest(r)[r[k]] \in Shard
  <2>1. \A k \in DOMAIN r : r[k] \in ToSet(r) /\ r[k].to \in Account
    BY <1>5, ListElements DEF ToSet
  <2> QED
    BY <2>1, SourceFacts DEF RelayDest
<1> DEFINE New == TxMsgsFor(r, dest(r))
<1>7. /\ IsFiniteSet(New) /\ \A m \in New : Ids(m.txs) \subseteq Ids(b)
      /\ \A k \in DOMAIN r : \E m \in New : \E j \in DOMAIN m.txs : m.txs[j] = r[k]
  <2> HIDE DEF dest
  <2> QED
    BY <1>5, <1>6, MsgsForAll, MsgsForFacts
<1>8. txMsgs' = txMsgs \cup New
  BY <1>1, <1>4
<1> HIDE DEF New
<1>9. proposal'[s] = {} /\ \A v \in Shard : v # s => proposal'[v] = proposal[v]
  BY <1>0, <1>2 DEF ListTypes
<1>10. HalfInv'
  <2> SUFFICES ASSUME NEW t \in TxId, executed'[t] = Half PROVE Carrying(t)'
    BY DEF HalfInv
  <2>1. CASE t \notin Ids(b)
    <3>1. Carrying(t)
      BY <1>1, <2>1 DEF PathInv, HalfInv
    <3>2. t \notin Carried(b)
      BY <2>1 DEF Carried, Ids
    <3>3. CASE \E k \in txMsgs : t \in Carried(k.txs)
      BY <1>8, <3>3 DEF Carrying
    <3>4. CASE \E v \in Shard : t \in Carried(pool[v])
      BY <1>2, <3>4 DEF Carrying
    <3>5. CASE \E v \in Shard : \E d \in proposal[v] : t \in Carried(d)
      <4>1. PICK v \in Shard : \E d \in proposal[v] : t \in Carried(d)
        BY <3>5
      <4>2. v # s
        BY <1>3, <3>2, <4>1
      <4> QED
        BY <1>9, <4>1, <4>2 DEF Carrying
    <3>6. CASE \E d \in dropped : d.id = t /\ d.stage = "relay2"
      BY <1>2, <3>6 DEF Carrying
    <3> QED
      BY <3>1, <3>3, <3>4, <3>5, <3>6 DEF Carrying
  <2>2. CASE t \in Ids(b)
    <3>1. PICK i \in DOMAIN b : t = b[i].id
      BY <2>2 DEF Ids
    <3>2. b[i].stage = "relay1"
      <4>1. executed'[t] = [debit |-> 1, credit |-> IF b[i].stage = "relay1" THEN 0 ELSE 1]
        BY <1>1, <3>1
      <4>2. executed'[t].credit = 0 /\ executed'[t].credit = IF b[i].stage = "relay1" THEN 0 ELSE 1
        BY <4>1 DEF Half
      <4> QED
        BY <4>2
    <3>3. PICK k \in DOMAIN r : r[k] = [b[i] EXCEPT !.stage = "relay2"]
      BY <1>3, <1>4, <3>2, CarriedRelayed
    <3>4. r[k].id = t /\ r[k].stage = "relay2"
      <4>1. b[i] \in Tx
        BY <1>3
      <4> QED
        BY <3>1, <3>3, <4>1 DEF Tx
    <3>5. PICK m \in New : \E j \in DOMAIN m.txs : m.txs[j] = r[k]
      BY <1>7
    <3>6. t \in Carried(m.txs)
      BY <3>4, <3>5 DEF Carried
    <3> QED
      BY <1>8, <3>6 DEF Carrying
  <2> QED
    BY <2>1, <2>2
<1>11. \A t : Listed(t)' => Listed(t)
  <2> SUFFICES ASSUME NEW t, Listed(t)' PROVE Listed(t)
    OBVIOUS
  <2>1. CASE \E m \in txMsgs' : t \in Ids(m.txs)
    BY <1>1, <1>7, <1>8, <2>1 DEF Listed
  <2>2. CASE \E v \in Shard : t \in Ids(pool'[v])
    BY <1>2, <2>2 DEF Listed
  <2>3. CASE \E v \in Shard : \E d \in proposal'[v] : t \in Ids(d)
    BY <1>9, <2>3 DEF Listed
  <2> QED
    BY <2>1, <2>2, <2>3 DEF Listed
<1>12. ASSUME NEW d \in dropped PROVE Live(d, read, executed') /\ ~Listed(d.id)'
  <2>1. d \in Tx /\ d.id \in TxId /\ Live(d, read, executed) /\ ~Listed(d.id)
    BY DEF PathInv, DropInv, Tx
  <2>2. d.id \notin Ids(b)
    BY <1>1, <2>1 DEF Listed
  <2>3. executed'[d.id] = executed[d.id]
    BY <1>1, <2>1, <2>2
  <2> QED
    BY <1>11, <2>1, <2>3 DEF Live
<1>13. DropInv'
  BY <1>2, <1>12 DEF PathInv, DropInv
<1>14. IsFiniteSet(txMsgs')
  BY <1>7, <1>8, FS_Union DEF PathInv
<1> QED
  BY <1>10, <1>13, <1>14 DEF PathInv

\* In every reachable state the debited and not credited payments are under way once, or
\* gone with a lost message or a failed block.
THEOREM MoneyUnderWay == Spec => []PathInv
<1>1. RelayInv /\ PathInv /\ [Next]_vars => PathInv'
  <2> SUFFICES ASSUME RelayInv, PathInv, [Next]_vars PROVE PathInv'
    OBVIOUS
  <2>1. CASE SupCheck \/ DrainEnd \/ \E k \in InfoKind : HandleBlockInfo(k)
    <3>1. UNCHANGED <<read, pool, proposal, executed, txMsgs, dropped>>
      BY <2>1 DEF SupCheck, DrainEnd, HandleBlockInfo
    <3> QED
      BY <3>1, PathStutter
  <2>2. CASE ReadTxsAndSend
    BY <2>2, PathRead
  <2>3. ASSUME NEW s \in Shard, ShardStep(s) PROVE PathInv'
    <3>1. CASE \E m \in txMsgs : HandleReceiveTxs(s, m)
      BY <3>1, PathReceive
    <3>2. CASE BuildProposal(s)
      BY <3>2, PathBuild
    <3>3. CASE BlockCommitAndDeliver(s)
      BY <3>3, PathCommit
    <3>4. CASE HandleStop(s)
      <4>1. UNCHANGED <<read, pool, proposal, executed, txMsgs, dropped>>
        BY <3>4 DEF HandleStop, supVars
      <4> QED
        BY <4>1, PathStutter
    <3> QED
      BY <2>3, <3>1, <3>2, <3>3, <3>4 DEF ShardStep
  <2>4. ASSUME NEW m \in txMsgs, LoseTxs(m) PROVE PathInv'
    BY <2>4, PathLose
  <2>5. CASE UNCHANGED vars
    <3>1. UNCHANGED <<read, pool, proposal, executed, txMsgs, dropped>>
      BY <2>5 DEF vars, supVars
    <3> QED
      BY <3>1, PathStutter
  <2> QED
    BY <2>1, <2>2, <2>3, <2>4, <2>5 DEF Next, Supervisor
<1> QED
  BY Invariance, PathInit, <1>1, PTL DEF Spec

-----------------------------------------------------------------------------
(* All the money, as sums over the payments of the source. *)

\* The values of the payments, and the payments with these ids.
Values == [i \in DOMAIN Source |-> Source[i].value]
At(T) == {i \in DOMAIN Source : Source[i].id \in T}

\* The payments that have debited and not credited.
HalfDone == {i \in DOMAIN Source : executed[Source[i].id] = Half}

\* Where they are.
MsgIdx   == UNION {At(Carried(m.txs)) : m \in txMsgs}
PoolIdx  == UNION {At(Carried(pool[s])) : s \in Shard}
BlockIdx == UNION {UNION {At(Carried(b)) : b \in proposal[s]} : s \in Shard}
DropIdx  == At({d.id : d \in {e \in dropped : e.stage = "relay2"}})

\* Sums over payments are numbers.
LEMMA IndexSums ==
  /\ IsFiniteSet(DOMAIN Source) /\ \A S \in SUBSET DOMAIN Source : IsFiniteSet(S)
  /\ \A i \in DOMAIN Source : Values[i] \in Int
  /\ \A S \in SUBSET DOMAIN Source : SumOf(Values, S) \in Int
<1>1. IsFiniteSet(DOMAIN Source)
  <2>1. 1 \in Int /\ Len(Source) \in Int
    BY SourceFacts
  <2>2. IsFiniteSet(1 .. Len(Source))
    BY <2>1, FS_Interval
  <2> QED
    BY <2>2, SourceFacts
<1>2. \A S \in SUBSET DOMAIN Source : IsFiniteSet(S)
  BY <1>1, FS_Subset
<1>3. \A i \in DOMAIN Source : Values[i] \in Int
  BY SourceFacts DEF Values
<1>4. ASSUME NEW S \in SUBSET DOMAIN Source PROVE SumOf(Values, S) \in Int
  <2>1. IsFiniteSet(S) /\ \A i \in S : Values[i] \in Int
    BY <1>2, <1>3
  <2> QED
    BY <2>1, SumType
<1> QED
  BY <1>1, <1>2, <1>3, <1>4

\* The relay2 transactions of a list are worth what their payments are.
LEMMA ListWorth ==
  ASSUME NEW q, NEW s, ListOK(q, s, read, executed), read \in 0 .. Len(Source)
  PROVE  Relayed(q) = SumOf(Values, At(Carried(q))) /\ At(Carried(q)) \in SUBSET DOMAIN Source
<1>1. q \in Seq(Tx) /\ Distinct(q)
  BY DEF ListOK
<1> DEFINE D == {j \in DOMAIN q : q[j].stage = "relay2"}
           f == [j \in D |-> q[j].value]
<1>2. Relayed(q) = SumFunction(f)
  BY DEF Relayed
<1>3. DOMAIN f = D /\ \A j \in D : f[j] = q[j].value
  OBVIOUS
<1>4. At(Carried(q)) \in SUBSET DOMAIN Source /\ IsFiniteSet(At(Carried(q)))
  BY IndexSums DEF At
<1>5. ASSUME NEW i \in At(Carried(q))
      PROVE  \E j \in D : q[j].id = Source[i].id
  BY DEF At, Carried
<1>6. ASSUME NEW j \in D
      PROVE  \E i \in At(Carried(q)) : q[j].id = Source[i].id /\ q[j].value = Source[i].value
  <2>1. PICK i \in 1 .. read : q[j].id = Source[i].id /\ q[j].value = Source[i].value
    BY DEF ListOK, Live, Genuine
  <2>2. i \in DOMAIN Source /\ Source[i].id \in TxId
    BY <2>1, SourceFacts
  <2>3. i \in At(Carried(q))
    BY <2>1, <2>2 DEF At, Carried
  <2> QED
    BY <2>1, <2>3
<1>7. PICK g \in [At(Carried(q)) -> D] : \A i \in At(Carried(q)) : q[g[i]].id = Source[i].id
  <2> DEFINE h == [i \in At(Carried(q)) |-> CHOOSE j \in D : q[j].id = Source[i].id]
  <2> HIDE DEF D
  <2>1. \A i \in At(Carried(q)) : h[i] \in D /\ q[h[i]].id = Source[i].id
    BY <1>5
  <2>2. h \in [At(Carried(q)) -> D]
    BY <2>1
  <2> QED
    BY <2>1, <2>2
<1>8. \A i, k \in At(Carried(q)) : g[i] = g[k] => i = k
  <2>1. \A i, k \in At(Carried(q)) : g[i] = g[k] => Source[i].id = Source[k].id
    BY <1>7
  <2> QED
    BY <1>4, <2>1, SourceFacts
<1>9. \A j \in D : \E i \in At(Carried(q)) : g[i] = j
  <2> SUFFICES ASSUME NEW j \in D PROVE \E i \in At(Carried(q)) : g[i] = j
    OBVIOUS
  <2>1. PICK i \in At(Carried(q)) : q[j].id = Source[i].id
    BY <1>6
  <2>2. q[g[i]].id = q[j].id /\ g[i] \in DOMAIN q
    BY <1>7, <2>1
  <2>3. g[i] = j
    BY <1>1, <2>2 DEF Distinct
  <2> QED
    BY <2>3
<1>10. \A i \in At(Carried(q)) : Values[i] \in Int /\ Values[i] = f[g[i]]
  <2> SUFFICES ASSUME NEW i \in At(Carried(q)) PROVE Values[i] \in Int /\ Values[i] = f[g[i]]
    OBVIOUS
  <2>1. g[i] \in D /\ q[g[i]].id = Source[i].id
    BY <1>7
  <2>2. PICK k \in At(Carried(q)) : q[g[i]].id = Source[k].id /\ q[g[i]].value = Source[k].value
    BY <1>6, <2>1
  <2>3. k = i
    BY <1>4, <2>1, <2>2, SourceFacts
  <2>4. f[g[i]] = Source[i].value
    BY <1>3, <2>1, <2>2, <2>3
  <2> QED
    BY <1>4, <2>4, SourceFacts DEF Values
<1> HIDE DEF f, D
<1>11. SumOf(Values, At(Carried(q))) = SumOf(f, D)
  BY <1>4, <1>8, <1>9, <1>10, SumBijection
<1>12. SumFunction(f) = SumOf(f, D)
  BY <1>3, SumFunctionIs
<1> QED
  BY <1>2, <1>4, <1>11, <1>12

\* Lists with no transaction in common carry different payments.
LEMMA ApartIdx ==
  ASSUME NEW q, NEW r, Apart(q, r)
  PROVE  At(Carried(q)) \cap At(Carried(r)) = {}
BY DEF Apart, Ids, At, Carried

\* The money in messages.
LEMMA MsgWorth ==
  ASSUME RelayInv, PathInv
  PROVE  SumFunction([m \in txMsgs |-> Relayed(m.txs)]) = SumOf(Values, MsgIdx)
<1>1. read \in 0 .. Len(Source) /\ ListsInv /\ ApartInv
  BY DEF RelayInv, ListTypes
<1>2. PICK u : u = [m \in txMsgs |-> Relayed(m.txs)]
  OBVIOUS
<1>3. PICK P : P = [m \in txMsgs |-> At(Carried(m.txs))]
  OBVIOUS
<1>4. \A m \in txMsgs : u[m] = SumOf(Values, P[m]) /\ P[m] \in SUBSET DOMAIN Source
  BY <1>1, <1>2, <1>3, ListWorth DEF ListsInv
<1>5. P \in [txMsgs -> SUBSET DOMAIN Source]
  BY <1>3, <1>4
<1>6. \A m, k \in txMsgs : m # k => P[m] \cap P[k] = {}
  BY <1>1, <1>3, ApartIdx DEF ApartInv
<1>7. IsFiniteSet(txMsgs) /\ IsFiniteSet(DOMAIN Source) /\ \A i \in DOMAIN Source : Values[i] \in Int
  BY IndexSums DEF PathInv
<1>8. SumOf(u, txMsgs) = SumOf(Values, UNION {P[m] : m \in txMsgs})
  BY <1>4, <1>5, <1>6, <1>7, SumDisjoint
<1>9. UNION {P[m] : m \in txMsgs} = MsgIdx
  BY <1>3 DEF MsgIdx
<1>10. SumFunction(u) = SumOf(u, txMsgs)
  <2>1. DOMAIN u = txMsgs
    BY <1>2
  <2> QED
    BY <2>1, SumFunctionIs
<1> QED
  BY <1>2, <1>8, <1>9, <1>10

\* The money in pools.
LEMMA PoolWorth ==
  ASSUME RelayInv
  PROVE  SumFunction([s \in Shard |-> Relayed(pool[s])]) = SumOf(Values, PoolIdx)
<1>1. read \in 0 .. Len(Source) /\ ListsInv /\ ApartInv
  BY DEF RelayInv, ListTypes
<1>2. PICK u : u = [s \in Shard |-> Relayed(pool[s])]
  OBVIOUS
<1>3. PICK P : P = [s \in Shard |-> At(Carried(pool[s]))]
  OBVIOUS
<1>4. \A s \in Shard : u[s] = SumOf(Values, P[s]) /\ P[s] \in SUBSET DOMAIN Source
  BY <1>1, <1>2, <1>3, ListWorth DEF ListsInv
<1>5. P \in [Shard -> SUBSET DOMAIN Source]
  BY <1>3, <1>4
<1>6. \A s, k \in Shard : s # k => P[s] \cap P[k] = {}
  BY <1>1, <1>3, ApartIdx DEF ApartInv
<1>7. IsFiniteSet(Shard) /\ IsFiniteSet(DOMAIN Source) /\ \A i \in DOMAIN Source : Values[i] \in Int
  BY IndexSums, RelayAssumption
<1>8. SumOf(u, Shard) = SumOf(Values, UNION {P[s] : s \in Shard})
  BY <1>4, <1>5, <1>6, <1>7, SumDisjoint
<1>9. UNION {P[s] : s \in Shard} = PoolIdx
  BY <1>3 DEF PoolIdx
<1>10. SumFunction(u) = SumOf(u, Shard)
  <2>1. DOMAIN u = Shard
    BY <1>2
  <2> QED
    BY <2>1, SumFunctionIs
<1> QED
  BY <1>2, <1>8, <1>9, <1>10

\* The money in a proposed block, if there is one.
LEMMA ProposalWorth ==
  ASSUME RelayInv, NEW s \in Shard
  PROVE  /\ SumFunction([b \in proposal[s] |-> Relayed(b)])
              = SumOf(Values, UNION {At(Carried(b)) : b \in proposal[s]})
         /\ UNION {At(Carried(b)) : b \in proposal[s]} \in SUBSET DOMAIN Source
<1>1. read \in 0 .. Len(Source) /\ ListsInv /\ ApartInv
  BY DEF RelayInv, ListTypes
<1>2. PICK B : B = proposal[s]
  OBVIOUS
<1>3. PICK u : u = [b \in B |-> Relayed(b)]
  OBVIOUS
<1>4. PICK P : P = [b \in B |-> At(Carried(b))]
  OBVIOUS
<1>5. \A b \in B : u[b] = SumOf(Values, P[b]) /\ P[b] \in SUBSET DOMAIN Source
  BY <1>1, <1>2, <1>3, <1>4, ListWorth DEF ListsInv, BlockOK
<1>6. P \in [B -> SUBSET DOMAIN Source]
  BY <1>4, <1>5
<1>7. \A b, c \in B : b = c
  BY <1>1, <1>2 DEF ApartInv
<1>8. IsFiniteSet(B)
  <2>1. CASE B = {}
    BY <2>1, FS_EmptySet
  <2>2. ASSUME NEW b \in B PROVE IsFiniteSet(B)
    <3>1. B = {b}
      BY <1>7
    <3> QED
      BY <3>1, FS_Singleton
  <2> QED
    BY <2>1, <2>2
<1>9. IsFiniteSet(DOMAIN Source) /\ \A i \in DOMAIN Source : Values[i] \in Int
  BY IndexSums
<1>10. \A b, c \in B : b # c => P[b] \cap P[c] = {}
  BY <1>7
<1>11. SumOf(u, B) = SumOf(Values, UNION {P[b] : b \in B})
  BY <1>5, <1>6, <1>8, <1>9, <1>10, SumDisjoint
<1>12. UNION {P[b] : b \in B} = UNION {At(Carried(b)) : b \in proposal[s]}
  BY <1>2, <1>4
<1>13. SumFunction(u) = SumOf(u, B)
  <2>1. DOMAIN u = B
    BY <1>3
  <2> QED
    BY <2>1, SumFunctionIs
<1>14. UNION {At(Carried(b)) : b \in proposal[s]} \in SUBSET DOMAIN Source
  BY DEF At
<1> QED
  BY <1>2, <1>3, <1>11, <1>12, <1>13, <1>14

\* The money in blocks.
LEMMA BlockWorth ==
  ASSUME RelayInv
  PROVE  SumFunction([s \in Shard |-> SumFunction([b \in proposal[s] |-> Relayed(b)])])
         = SumOf(Values, BlockIdx)
<1>1. read \in 0 .. Len(Source) /\ ListsInv /\ ApartInv
  BY DEF RelayInv, ListTypes
<1>2. PICK u : u = [s \in Shard |-> SumFunction([b \in proposal[s] |-> Relayed(b)])]
  OBVIOUS
<1>3. PICK P : P = [s \in Shard |-> UNION {At(Carried(b)) : b \in proposal[s]}]
  OBVIOUS
<1>31. \A s \in Shard : /\ u[s] = SumFunction([b \in proposal[s] |-> Relayed(b)])
                        /\ P[s] = UNION {At(Carried(b)) : b \in proposal[s]}
  BY <1>2, <1>3, Zenon
<1>4. \A s \in Shard : u[s] = SumOf(Values, P[s]) /\ P[s] \in SUBSET DOMAIN Source
  BY <1>31, ProposalWorth, Zenon
<1>5. P \in [Shard -> SUBSET DOMAIN Source]
  BY <1>3, <1>4
<1>6. \A s, k \in Shard : s # k => P[s] \cap P[k] = {}
  <2> SUFFICES ASSUME NEW s \in Shard, NEW k \in Shard, s # k, NEW i, i \in P[s], i \in P[k]
               PROVE  FALSE
    OBVIOUS
  <2>1. PICK b \in proposal[s] : i \in At(Carried(b))
    <3>1. i \in UNION {At(Carried(d)) : d \in proposal[s]}
      BY <1>31, Zenon
    <3> QED
      BY <3>1, Zenon
  <2>2. PICK c \in proposal[k] : i \in At(Carried(c))
    <3>1. i \in UNION {At(Carried(d)) : d \in proposal[k]}
      BY <1>31, Zenon
    <3> QED
      BY <3>1, Zenon
  <2>3. Apart(b, c)
    BY <1>1 DEF ApartInv
  <2> QED
    BY <2>1, <2>2, <2>3, ApartIdx
<1>7. IsFiniteSet(Shard) /\ IsFiniteSet(DOMAIN Source) /\ \A i \in DOMAIN Source : Values[i] \in Int
  BY IndexSums, RelayAssumption
<1>8. SumOf(u, Shard) = SumOf(Values, UNION {P[s] : s \in Shard})
  BY <1>4, <1>5, <1>6, <1>7, SumDisjoint
<1>9. UNION {P[s] : s \in Shard} = BlockIdx
  BY <1>31 DEF BlockIdx
<1>10. SumFunction(u) = SumOf(u, Shard)
  <2>1. DOMAIN u = Shard
    BY <1>2
  <2> QED
    BY <2>1, SumFunctionIs
<1> QED
  BY <1>2, <1>8, <1>9, <1>10

\* The money that is gone.
LEMMA DropWorth ==
  ASSUME RelayInv, PathInv
  PROVE  Burnt = SumOf(Values, DropIdx)
<1>1. read \in 0 .. Len(Source) /\ DropInv
  BY DEF RelayInv, ListTypes, PathInv
<1> DEFINE D == {d \in dropped : d.stage = "relay2"}
           f == [t \in D |-> t.value]
<1>2. Burnt = SumFunction(f)
  BY DEF Burnt
<1>3. DOMAIN f = D /\ \A t \in D : f[t] = t.value
  OBVIOUS
<1>4. DropIdx \in SUBSET DOMAIN Source /\ IsFiniteSet(DropIdx)
  BY IndexSums DEF DropIdx, At
<1>5. ASSUME NEW i \in DropIdx
      PROVE  \E t \in D : t.id = Source[i].id
  BY DEF DropIdx, At
<1>6. ASSUME NEW t \in D
      PROVE  \E i \in DropIdx : t.id = Source[i].id /\ t.value = Source[i].value
  <2>1. PICK i \in 1 .. read : t.id = Source[i].id /\ t.value = Source[i].value
    BY <1>1 DEF DropInv, Live, Genuine
  <2>2. i \in DOMAIN Source /\ Source[i].id \in TxId
    BY <1>1, <2>1, SourceFacts
  <2>3. i \in DropIdx
    BY <2>1, <2>2 DEF DropIdx, At
  <2> QED
    BY <2>1, <2>3
<1>7. PICK g \in [DropIdx -> D] : \A i \in DropIdx : g[i].id = Source[i].id
  <2> DEFINE h == [i \in DropIdx |-> CHOOSE t \in D : t.id = Source[i].id]
  <2> HIDE DEF D
  <2>1. \A i \in DropIdx : h[i] \in D /\ h[i].id = Source[i].id
    BY <1>5
  <2>2. h \in [DropIdx -> D]
    BY <2>1
  <2> QED
    BY <2>1, <2>2
<1>8. \A i, k \in DropIdx : g[i] = g[k] => i = k
  <2>1. \A i, k \in DropIdx : g[i] = g[k] => Source[i].id = Source[k].id
    BY <1>7
  <2> QED
    BY <1>4, <2>1, SourceFacts
<1>9. \A t \in D : \E i \in DropIdx : g[i] = t
  <2> SUFFICES ASSUME NEW t \in D PROVE \E i \in DropIdx : g[i] = t
    OBVIOUS
  <2>1. PICK i \in DropIdx : t.id = Source[i].id
    BY <1>6
  <2>2. g[i].id = t.id /\ g[i] \in dropped
    BY <1>7, <2>1
  <2>3. g[i] = t
    BY <1>1, <2>2 DEF DropInv
  <2> QED
    BY <2>3
<1>10. \A i \in DropIdx : Values[i] \in Int /\ Values[i] = f[g[i]]
  <2> SUFFICES ASSUME NEW i \in DropIdx PROVE Values[i] \in Int /\ Values[i] = f[g[i]]
    OBVIOUS
  <2>1. g[i] \in D /\ g[i].id = Source[i].id
    BY <1>7
  <2>2. PICK k \in DropIdx : g[i].id = Source[k].id /\ g[i].value = Source[k].value
    BY <1>6, <2>1
  <2>3. k = i
    BY <1>4, <2>1, <2>2, SourceFacts
  <2>4. f[g[i]] = Source[i].value
    BY <1>3, <2>1, <2>2, <2>3
  <2> QED
    BY <1>4, <2>4, SourceFacts DEF Values
<1> HIDE DEF f, D
<1>11. SumOf(Values, DropIdx) = SumOf(f, D)
  BY <1>4, <1>8, <1>9, <1>10, SumBijection
<1>12. SumFunction(f) = SumOf(f, D)
  BY <1>3, SumFunctionIs
<1> QED
  BY <1>2, <1>11, <1>12

\* The payments that are half done are in exactly one of the four places.
LEMMA PlacesOfHalf ==
  ASSUME RelayInv, PathInv
  PROVE  /\ HalfDone = MsgIdx \cup PoolIdx \cup BlockIdx \cup DropIdx
         /\ MsgIdx \cap PoolIdx = {} /\ MsgIdx \cap BlockIdx = {} /\ MsgIdx \cap DropIdx = {}
         /\ PoolIdx \cap BlockIdx = {} /\ PoolIdx \cap DropIdx = {} /\ BlockIdx \cap DropIdx = {}
         /\ HalfDone \in SUBSET DOMAIN Source
<1>0. ListsInv /\ ApartInv /\ DropInv /\ HalfInv
  BY DEF RelayInv, PathInv
<1>1. \A i \in MsgIdx : i \in DOMAIN Source /\ \E m \in txMsgs : Source[i].id \in Carried(m.txs)
  BY DEF MsgIdx, At
<1>2. \A i \in PoolIdx : i \in DOMAIN Source /\ \E s \in Shard : Source[i].id \in Carried(pool[s])
  BY DEF PoolIdx, At
<1>3. \A i \in BlockIdx : i \in DOMAIN Source /\ \E s \in Shard : \E b \in proposal[s] :
                            Source[i].id \in Carried(b)
  BY DEF BlockIdx, At
<1>4. \A i \in DropIdx : i \in DOMAIN Source /\ \E d \in dropped : d.id = Source[i].id /\ d.stage = "relay2"
  BY DEF DropIdx, At
<1>5. \A q : Carried(q) \subseteq Ids(q)
  BY DEF Carried, Ids
<1>6. ASSUME NEW q, NEW s, ListOK(q, s, read, executed), NEW t \in Carried(q)
      PROVE  executed[t] = Half
  BY <1>6 DEF Carried, ListOK, Live, Half
<1>7. HalfDone \subseteq MsgIdx \cup PoolIdx \cup BlockIdx \cup DropIdx
  <2> SUFFICES ASSUME NEW i \in HalfDone PROVE i \in MsgIdx \cup PoolIdx \cup BlockIdx \cup DropIdx
    OBVIOUS
  <2>1. i \in DOMAIN Source /\ Source[i].id \in TxId /\ Carrying(Source[i].id)
    BY <1>0, SourceFacts DEF HalfDone, HalfInv
  <2>2. CASE \E m \in txMsgs : Source[i].id \in Carried(m.txs)
    BY <2>1, <2>2 DEF MsgIdx, At
  <2>3. CASE \E s \in Shard : Source[i].id \in Carried(pool[s])
    BY <2>1, <2>3 DEF PoolIdx, At
  <2>4. CASE \E s \in Shard : \E b \in proposal[s] : Source[i].id \in Carried(b)
    BY <2>1, <2>4 DEF BlockIdx, At
  <2>5. CASE \E d \in dropped : d.id = Source[i].id /\ d.stage = "relay2"
    BY <2>1, <2>5 DEF DropIdx, At
  <2> QED
    BY <2>1, <2>2, <2>3, <2>4, <2>5 DEF Carrying
<1>8. MsgIdx \subseteq HalfDone
  BY <1>0, <1>1, <1>6 DEF ListsInv, HalfDone
<1>9. PoolIdx \subseteq HalfDone
  BY <1>0, <1>2, <1>6 DEF ListsInv, HalfDone
<1>10. BlockIdx \subseteq HalfDone
  BY <1>0, <1>3, <1>6 DEF ListsInv, BlockOK, HalfDone
<1>11. DropIdx \subseteq HalfDone
  BY <1>0, <1>4 DEF DropInv, Live, HalfDone, Half
<1>12. MsgIdx \cap PoolIdx = {}
  BY <1>0, <1>1, <1>2, <1>5 DEF ApartInv, Apart
<1>13. MsgIdx \cap BlockIdx = {}
  BY <1>0, <1>1, <1>3, <1>5 DEF ApartInv, Apart
<1>14. PoolIdx \cap BlockIdx = {}
  BY <1>0, <1>2, <1>3, <1>5 DEF ApartInv, Apart
<1>15. MsgIdx \cap DropIdx = {}
  BY <1>0, <1>1, <1>4, <1>5 DEF DropInv, Listed
<1>16. PoolIdx \cap DropIdx = {}
  BY <1>0, <1>2, <1>4, <1>5 DEF DropInv, Listed
<1>17. BlockIdx \cap DropIdx = {}
  BY <1>0, <1>3, <1>4, <1>5 DEF DropInv, Listed
<1>18. HalfDone \in SUBSET DOMAIN Source
  BY DEF HalfDone
<1> HIDE DEF HalfDone, MsgIdx, PoolIdx, BlockIdx, DropIdx
<1> QED
  BY <1>7, <1>8, <1>9, <1>10, <1>11, <1>12, <1>13, <1>14, <1>15, <1>16, <1>17, <1>18

\* All the money that is on no account.
LEMMA UnderWay ==
  ASSUME RelayInv, PathInv
  PROVE  SumOf(Values, HalfDone) = SumOf(Values, MsgIdx) + SumOf(Values, PoolIdx)
                                   + SumOf(Values, BlockIdx) + SumOf(Values, DropIdx)
<1>1. PICK H, M, P, B, D : H = HalfDone /\ M = MsgIdx /\ P = PoolIdx /\ B = BlockIdx /\ D = DropIdx
  OBVIOUS
<1>2. /\ H = M \cup P \cup B \cup D /\ H \in SUBSET DOMAIN Source
      /\ M \cap P = {} /\ M \cap B = {} /\ M \cap D = {} /\ P \cap B = {} /\ P \cap D = {}
      /\ B \cap D = {}
  BY <1>1, PlacesOfHalf
<1>3. /\ M \in SUBSET DOMAIN Source /\ P \in SUBSET DOMAIN Source /\ B \in SUBSET DOMAIN Source
      /\ D \in SUBSET DOMAIN Source /\ M \cup P \in SUBSET DOMAIN Source
      /\ M \cup P \cup B \in SUBSET DOMAIN Source
      /\ (M \cup P) \cap B = {} /\ (M \cup P \cup B) \cap D = {}
  BY <1>2
<1>4. ASSUME NEW X \in SUBSET DOMAIN Source, NEW Y \in SUBSET DOMAIN Source, X \cap Y = {}
      PROVE  /\ SumOf(Values, X \cup Y) = SumOf(Values, X) + SumOf(Values, Y)
             /\ SumOf(Values, X) \in Int /\ SumOf(Values, Y) \in Int
  <2>1. IsFiniteSet(X) /\ IsFiniteSet(Y) /\ \A i \in X \cup Y : Values[i] \in Int
    BY IndexSums
  <2>2. SumOf(Values, X \cup Y) = SumOf(Values, X) + SumOf(Values, Y)
    BY <1>4, <2>1, SumUnion
  <2> QED
    BY <2>2, IndexSums
<1>5. SumOf(Values, M \cup P) = SumOf(Values, M) + SumOf(Values, P)
  BY <1>2, <1>3, <1>4
<1>6. SumOf(Values, M \cup P \cup B) = SumOf(Values, M \cup P) + SumOf(Values, B)
  BY <1>3, <1>4
<1>7. SumOf(Values, M \cup P \cup B \cup D) = SumOf(Values, M \cup P \cup B) + SumOf(Values, D)
  BY <1>3, <1>4
<1> QED
  BY <1>1, <1>2, <1>5, <1>6, <1>7

\* What every account paid, and what every account got, is what every payment moved.
LEMMA AllAccounts ==
  ASSUME NEW ex \in Counters, NEW spent, NEW gained,
         \A a \in Account : spent[a] = Expenses(ex, a) /\ gained[a] = Income(ex, a)
  PROVE  /\ SumOf(spent, Account) = SumOf(Charges(ex), DOMAIN Source)
         /\ SumOf(gained, Account) = SumOf(Gains(ex), DOMAIN Source)
<1>1. /\ IsFiniteSet(DOMAIN Source) /\ IsFiniteSet(Account)
      /\ \A i \in DOMAIN Source : Charges(ex)[i] \in Int /\ Gains(ex)[i] \in Int
      /\ \A i \in DOMAIN Source : Source[i].from \in Account /\ Source[i].to \in Account
  <2>1. IsFiniteSet(DOMAIN Source) /\ IsFiniteSet(Account)
    BY IndexSums, RelayAssumption
  <2>2. \A i \in DOMAIN Source : Charges(ex)[i] \in Nat /\ Gains(ex)[i] \in Nat
    BY SourceSums
  <2>3. \A i \in DOMAIN Source : Source[i].from \in Account /\ Source[i].to \in Account
    BY SourceFacts
  <2> QED
    BY <2>1, <2>2, <2>3
<1>2. PICK c, g : c = Charges(ex) /\ g = Gains(ex)
  OBVIOUS
<1>3. PICK B : B = [a \in Account |-> PaidBy(a)]
  OBVIOUS
<1>4. PICK T : T = [a \in Account |-> PaidTo(a)]
  OBVIOUS
<1>5. \A a \in Account : B[a] = PaidBy(a) /\ T[a] = PaidTo(a)
  BY <1>3, <1>4
<1>6. B \in [Account -> SUBSET DOMAIN Source] /\ T \in [Account -> SUBSET DOMAIN Source]
  BY <1>3, <1>4 DEF PaidBy, PaidTo
<1>7. \A a, k \in Account : a # k => B[a] \cap B[k] = {} /\ T[a] \cap T[k] = {}
  BY <1>5 DEF PaidBy, PaidTo
<1>8. \A a \in Account : spent[a] = SumOf(c, B[a]) /\ gained[a] = SumOf(g, T[a])
  BY <1>2, <1>5 DEF Expenses, Income
<1>9. UNION {B[a] : a \in Account} = DOMAIN Source
  <2>1. ASSUME NEW i \in DOMAIN Source PROVE i \in UNION {B[a] : a \in Account}
    <3>1. Source[i].from \in Account /\ i \in B[Source[i].from]
      BY <1>1, <1>5 DEF PaidBy
    <3> QED
      BY <3>1, Zenon
  <2>2. ASSUME NEW i \in UNION {B[a] : a \in Account} PROVE i \in DOMAIN Source
    BY <1>6
  <2> QED
    BY <2>1, <2>2
<1>10. UNION {T[a] : a \in Account} = DOMAIN Source
  <2>1. ASSUME NEW i \in DOMAIN Source PROVE i \in UNION {T[a] : a \in Account}
    <3>1. Source[i].to \in Account /\ i \in T[Source[i].to]
      BY <1>1, <1>5 DEF PaidTo
    <3> QED
      BY <3>1, Zenon
  <2>2. ASSUME NEW i \in UNION {T[a] : a \in Account} PROVE i \in DOMAIN Source
    BY <1>6
  <2> QED
    BY <2>1, <2>2
<1>11. \A i \in DOMAIN Source : c[i] \in Int /\ g[i] \in Int
  BY <1>1, <1>2
<1>12. SumOf(spent, Account) = SumOf(c, UNION {B[a] : a \in Account})
  <2>1. /\ \A a \in Account : spent[a] = SumOf(c, B[a])
        /\ \A i \in DOMAIN Source : c[i] \in Int
        /\ \A a, k \in Account : a # k => B[a] \cap B[k] = {}
        /\ B \in [Account -> SUBSET DOMAIN Source]
        /\ IsFiniteSet(DOMAIN Source) /\ IsFiniteSet(Account)
    BY <1>1, <1>6, <1>7, <1>8, <1>11
  <2> QED
    BY <2>1, SumDisjoint
<1>13. SumOf(gained, Account) = SumOf(g, UNION {T[a] : a \in Account})
  <2>1. /\ \A a \in Account : gained[a] = SumOf(g, T[a])
        /\ \A i \in DOMAIN Source : g[i] \in Int
        /\ \A a, k \in Account : a # k => T[a] \cap T[k] = {}
        /\ T \in [Account -> SUBSET DOMAIN Source]
        /\ IsFiniteSet(DOMAIN Source) /\ IsFiniteSet(Account)
    BY <1>1, <1>6, <1>7, <1>8, <1>11
  <2> QED
    BY <2>1, SumDisjoint
<1> QED
  BY <1>2, <1>9, <1>10, <1>12, <1>13

\* What was taken and not yet given is what the payments that are half done are worth.
LEMMA TakenNotGiven ==
  ASSUME RelayInv
  PROVE  SumOf(Charges(executed), DOMAIN Source)
         = SumOf(Gains(executed), DOMAIN Source) + SumOf(Values, HalfDone)
<1>1. executed \in Counters /\ DoneOK(executed, read)
  BY DEF RelayInv, ListTypes, Counters
<1>2. PICK c, g, D, H : c = Charges(executed) /\ g = Gains(executed) /\ D = DOMAIN Source /\ H = HalfDone
  OBVIOUS
<1>3. IsFiniteSet(D) /\ \A i \in D : c[i] \in Nat /\ g[i] \in Nat /\ Values[i] \in Int
  BY <1>1, <1>2, SourceSums, IndexSums
<1>4. PICK h : h = [i \in D |-> IF i \in H THEN Values[i] ELSE 0]
  OBVIOUS
<1>5. \A i \in D : /\ i \in H => h[i] = Values[i]
                   /\ i \notin H => h[i] = 0
  BY <1>4
<1>6. \A i \in D : c[i] = g[i] + h[i]
  <2> SUFFICES ASSUME NEW i \in D PROVE c[i] = g[i] + h[i]
    OBVIOUS
  <2>1. PICK v \in Nat : v = Source[i].value /\ Values[i] = v
    BY <1>2, SourceFacts DEF Values
  <2>2. PICK x : x = executed[Source[i].id]
    OBVIOUS
  <2>3. x \in {[debit |-> 0, credit |-> 0], [debit |-> 1, credit |-> 0], [debit |-> 1, credit |-> 1]}
    BY <1>1, <1>2, <2>2, SourceFacts DEF DoneOK
  <2>4. c[i] = x.debit * v /\ g[i] = x.credit * v
    BY <1>2, <2>1, <2>2 DEF Charges, Gains
  <2>5. i \in H <=> x = [debit |-> 1, credit |-> 0]
    BY <1>2, <2>2 DEF HalfDone, Half
  <2>6. 0 * v = 0 /\ 1 * v = v
    OBVIOUS
  <2>7. CASE x = [debit |-> 0, credit |-> 0]
    <3>1. x.debit = 0 /\ x.credit = 0 /\ i \notin H
      BY <2>5, <2>7
    <3> QED
      BY <1>5, <2>4, <2>6, <3>1
  <2>8. CASE x = [debit |-> 1, credit |-> 0]
    <3>1. x.debit = 1 /\ x.credit = 0 /\ i \in H
      BY <2>5, <2>8
    <3> QED
      BY <1>5, <2>1, <2>4, <2>6, <3>1
  <2>9. CASE x = [debit |-> 1, credit |-> 1]
    <3>1. x.debit = 1 /\ x.credit = 1 /\ i \notin H
      BY <2>5, <2>9
    <3> QED
      BY <1>5, <2>4, <2>6, <3>1
  <2> QED
    BY <2>3, <2>7, <2>8, <2>9
<1>7. \A i \in D : g[i] \in Int /\ h[i] \in Int
  BY <1>3, <1>5
<1>8. SumOf(c, D) = SumOf(g, D) + SumOf(h, D)
  BY <1>3, <1>6, <1>7, SumPlus
<1>9. /\ H \in SUBSET D /\ D \ H \in SUBSET D /\ H \cap (D \ H) = {} /\ D = H \cup (D \ H)
      /\ IsFiniteSet(H) /\ IsFiniteSet(D \ H)
  <2>1. H \in SUBSET D
    BY <1>2 DEF HalfDone
  <2>2. D \ H \in SUBSET D /\ H \cap (D \ H) = {} /\ D = H \cup (D \ H)
    BY <2>1
  <2>3. IsFiniteSet(H) /\ IsFiniteSet(D \ H)
    BY <1>2, <2>1, <2>2, IndexSums
  <2> QED
    BY <2>1, <2>2, <2>3
<1>10. SumOf(h, H \cup (D \ H)) = SumOf(h, H) + SumOf(h, D \ H)
  BY <1>7, <1>9, SumUnion
<1>11. SumOf(h, H) = SumOf(Values, H)
  <2>1. \A i \in H : h[i] = Values[i]
    BY <1>5, <1>9
  <2> QED
    BY <1>9, <2>1, SumSame
<1>12. SumOf(h, D \ H) = 0
  <2>1. 0 \in Int /\ \A i \in D \ H : h[i] = 0
    BY <1>5
  <2>2. SumOf(h, D \ H) = Cardinality(D \ H) * 0
    BY <1>9, <2>1, SumConst
  <2>3. Cardinality(D \ H) \in Nat /\ \A k \in Nat : k * 0 = 0
    BY <1>9, FS_CardinalityType
  <2> QED
    BY <2>2, <2>3
<1>13. SumOf(Values, H) \in Int
  BY <1>2, <1>9, IndexSums
<1>14. SumOf(h, D) = SumOf(Values, H)
  BY <1>9, <1>10, <1>11, <1>12, <1>13
<1> QED
  BY <1>2, <1>8, <1>14

\* The accounts have all the money but what is under way.
LEMMA AccountsWorth ==
  ASSUME RelayInv, BalanceInv
  PROVE  /\ SumFunction([a \in Account |-> Worth(a)]) \in Int
         /\ SumFunction([a \in Account |-> Worth(a)]) + SumOf(Values, HalfDone)
            = Cardinality(Account) * NormalInitBalance
<1>1. executed \in Counters /\ IsFiniteSet(Account) /\ NormalInitBalance \in Int
  BY RelayAssumption DEF RelayInv, ListTypes, Counters
<1>2. PICK ex \in Counters : ex = executed
  BY <1>1
<1>3. PICK w : w = [a \in Account |-> Worth(a)]
  OBVIOUS
<1>4. PICK e : e = [a \in Account |-> Expenses(ex, a)]
  OBVIOUS
<1>5. PICK n : n = [a \in Account |-> Income(ex, a)]
  OBVIOUS
<1>6. PICK k : k = [a \in Account |-> NormalInitBalance]
  OBVIOUS
<1>7. \A a \in Account : /\ w[a] = Worth(a) /\ e[a] = Expenses(ex, a)
                         /\ n[a] = Income(ex, a) /\ k[a] = NormalInitBalance
  BY <1>3, <1>4, <1>5, <1>6
<1>8. \A a \in Account : e[a] \in Int /\ n[a] \in Int /\ k[a] \in Int
  BY <1>1, <1>7, SourceSums
<1>9. \A a \in Account : w[a] = k[a] + n[a] - e[a]
  BY <1>2, <1>7 DEF BalanceInv, Due
<1>10. PICK z : z = [a \in Account |-> k[a] + n[a]]
  OBVIOUS
<1>11. \A a \in Account : w[a] \in Int /\ z[a] = k[a] + n[a] /\ z[a] = w[a] + e[a]
  BY <1>8, <1>9, <1>10
<1>12. SumOf(z, Account) = SumOf(w, Account) + SumOf(e, Account)
  BY <1>1, <1>8, <1>11, SumPlus
<1>13. SumOf(z, Account) = SumOf(k, Account) + SumOf(n, Account)
  BY <1>1, <1>8, <1>11, SumPlus
<1>14. SumOf(k, Account) = Cardinality(Account) * NormalInitBalance
  BY <1>1, <1>7, SumConst
<1>15. /\ SumOf(e, Account) = SumOf(Charges(ex), DOMAIN Source)
       /\ SumOf(n, Account) = SumOf(Gains(ex), DOMAIN Source)
  BY <1>7, AllAccounts
<1>16. SumOf(e, Account) = SumOf(n, Account) + SumOf(Values, HalfDone)
  BY <1>2, <1>15, TakenNotGiven
<1>17. /\ SumOf(w, Account) \in Int /\ SumOf(e, Account) \in Int
       /\ SumOf(n, Account) \in Int /\ SumOf(k, Account) \in Int
  BY <1>1, <1>8, <1>11, SumType
<1>18. SumOf(Values, HalfDone) \in Int
  BY IndexSums DEF HalfDone
<1>19. SumOf(w, Account) + SumOf(Values, HalfDone) = SumOf(k, Account)
  BY <1>12, <1>13, <1>16, <1>17, <1>18
<1>20. SumFunction(w) = SumOf(w, Account)
  <2>1. DOMAIN w = Account
    BY <1>3
  <2> QED
    BY <2>1, SumFunctionIs
<1> QED
  BY <1>3, <1>14, <1>17, <1>19, <1>20

\* As long as no account is emptied, every coin is on an account, in exactly one relay2
\* transaction, or gone with a lost message or a failed block: the steps of any number of
\* shards between a debit and its credit neither lose money nor make any.
THEOREM MoneyAccountedFor == Spec /\ []NoneEmptied => []MoneyConserved
<1>1. RelayInv /\ BalanceInv /\ PathInv => MoneyConserved
  <2> SUFFICES ASSUME RelayInv, BalanceInv, PathInv PROVE MoneyConserved
    OBVIOUS
  <2>1. PICK A, M, P, B :
          /\ A = SumFunction([a \in Account |-> Worth(a)])
          /\ M = SumFunction([m \in txMsgs |-> Relayed(m.txs)])
          /\ P = SumFunction([s \in Shard |-> Relayed(pool[s])])
          /\ B = SumFunction([s \in Shard |-> SumFunction([b \in proposal[s] |-> Relayed(b)])])
    OBVIOUS
  <2>2. Money = A + M + P + B
    BY <2>1, Zenon DEF Money
  <2>3. /\ M = SumOf(Values, MsgIdx) /\ P = SumOf(Values, PoolIdx)
        /\ B = SumOf(Values, BlockIdx) /\ Burnt = SumOf(Values, DropIdx)
    BY <2>1, MsgWorth, PoolWorth, BlockWorth, DropWorth, Zenon
  <2>4. A \in Int /\ A + SumOf(Values, HalfDone) = Cardinality(Account) * NormalInitBalance
    BY <2>1, AccountsWorth, Zenon
  <2>5. SumOf(Values, HalfDone) = SumOf(Values, MsgIdx) + SumOf(Values, PoolIdx)
                                  + SumOf(Values, BlockIdx) + SumOf(Values, DropIdx)
    BY UnderWay
  <2>6. /\ SumOf(Values, MsgIdx) \in Int /\ SumOf(Values, PoolIdx) \in Int
        /\ SumOf(Values, BlockIdx) \in Int /\ SumOf(Values, DropIdx) \in Int
    <3>1. /\ MsgIdx \in SUBSET DOMAIN Source /\ PoolIdx \in SUBSET DOMAIN Source
          /\ BlockIdx \in SUBSET DOMAIN Source /\ DropIdx \in SUBSET DOMAIN Source
      BY PlacesOfHalf
    <3> QED
      BY <3>1, IndexSums
  <2>7. Money + Burnt = A + SumOf(Values, HalfDone)
    BY <2>2, <2>3, <2>4, <2>5, <2>6
  <2> QED
    BY <2>4, <2>7 DEF MoneyConserved
<1> QED
  BY Invariance, BalancesExact, MoneyUnderWay, <1>1, PTL

=============================================================================
