------------------------- MODULE BrokerShardsProofs -------------------------
(***************************************************************************)
(* Theorems about BrokerShards and its measurement, BrokerStats, for any   *)
(* shards, accounts, brokers, source and lost messages: a payment is made  *)
(* once, through whatever halves, the supervisor does not stop before      *)
(* those of the brokers are made, and its results are complete then.       *)
(***************************************************************************)
EXTENDS BrokerStats, FiniteSetTheorems, SetSums, TLAPS

-----------------------------------------------------------------------------
(* The inductive invariant. *)

\* Whether payment i is among these transactions; each is there once.
Has(S, i) == \E t \in S : t.id = i
Unique(S) == \A t, u \in S : t.id = u.id => t = u

InMsgs(i) == \E m \in txMsgs : Has(m.txs, i)
InPool(i) == \E s \in Shard : Has(pool[s], i)

FileTypes ==
  /\ read \in 0 .. Len(Pay)
  /\ via \in [TxId -> SUBSET Broker]
  /\ stage \in [TxId -> {"none", "wait1", "wait2"}]
  /\ ready2 \subseteq TxId
  /\ pool \in [Shard -> SUBSET Tx]
  /\ \A m \in txMsgs : m.txs \subseteq Tx
  /\ \A m \in infos : m.txs \subseteq Tx
  /\ done \in [TxId -> [debit : {0, 1}, credit : {0, 1}]]

\* A transaction under way is with the shard it is for, and nowhere else.
Located ==
  /\ \A m \in txMsgs : Unique(m.txs) /\ \A t \in m.txs : TxLoc(t) = m.to
  /\ \A m, k \in txMsgs : \A i \in TxId : Has(m.txs, i) /\ Has(k.txs, i) => m = k
  /\ \A s \in Shard : Unique(pool[s]) /\ \A t \in pool[s] : TxLoc(t) = s
  /\ \A s, r \in Shard : \A i \in TxId : Has(pool[s], i) /\ Has(pool[r], i) => s = r
  /\ \A i \in TxId : ~(InMsgs(i) /\ InPool(i))

\* What the chains have done of a payment under way, and what the supervisor has
\* on file for it.
ByBroker == {"sigma1", "sigma2"}
Second   == {"sigma2", "relay2"}
OnFile   == [inner |-> "none", relay1 |-> "none", relay2 |-> "none",
             sigma1 |-> "wait1", sigma2 |-> "wait2"]
Expected(t) ==
  /\ t.id <= read
  /\ done[t.id].debit = IF t.kind \in Second THEN 1 ELSE 0
  /\ done[t.id].credit = 0
  /\ stage[t.id] = OnFile[t.kind]
  /\ via[t.id] # {} <=> t.kind \in ByBroker

ExpectedInv ==
  /\ \A m \in txMsgs : \A t \in m.txs : Expected(t)
  /\ \A s \in Shard : \A t \in pool[s] : Expected(t)

\* A payment with a broker is a cross-shard one, and it leaves the file complete.
FileInv ==
  \A i \in TxId :
    /\ i > read => via[i] = {} /\ stage[i] = "none" /\ done[i].debit = 0
    /\ done[i].credit <= done[i].debit
    /\ via[i] # {} => Cross(i)
    /\ via[i] # {} /\ stage[i] = "none" => done[i].credit = 1
    /\ stage[i] # "none" => via[i] # {}
    /\ stage[i] = "wait1" => done[i].credit = 0
    /\ i \in ready2 => /\ stage[i] = "wait2" /\ done[i].debit = 1 /\ done[i].credit = 0
                       /\ ~InMsgs(i) /\ ~InPool(i)

\* An info of a half says that the half is done.
InfoInv ==
  \A m \in infos : \A t \in m.txs :
    /\ t.kind = "sigma1" => done[t.id].debit = 1
    /\ t.kind = "sigma2" => done[t.id].credit = 1

\* The stop check asks the manager whether it has finished.
StopInv == stopped => \A i \in TxId : stage[i] = "none"

BrokerInv == FileTypes /\ Located /\ ExpectedInv /\ FileInv /\ InfoInv /\ StopInv

-----------------------------------------------------------------------------
(* Facts about single operators. *)

\* The smaller one of two numbers.
LEMMA MinOfTwo ==
  ASSUME NEW x \in Int, NEW y \in Int
  PROVE  Min({x, y}) = IF x <= y THEN x ELSE y
<1> DEFINE m == IF x <= y THEN x ELSE y
<1>1. m \in {x, y} /\ \A z \in {x, y} : m <= z
  OBVIOUS
<1>2. \A n \in {x, y} : (\A z \in {x, y} : n <= z) => n = m
  OBVIOUS
<1> QED
  BY <1>1, <1>2 DEF Min

\* The payments are numbered, and every transaction has a shard.
LEMMA SourceFacts ==
  /\ Len(Pay) \in Nat /\ TxId = 1 .. Len(Pay)
  /\ \A t \in Tx : TxLoc(t) \in Shard
<1>1. Pay \in Seq([from : Account \cup Broker, to : Account \cup Broker, value : Nat])
  BY BrokerAssumption
<1>2. Len(Pay) \in Nat /\ TxId = 1 .. Len(Pay)
  BY <1>1 DEF TxId
<1>3. \A i \in TxId : Pay[i].from \in Account \cup Broker /\ Pay[i].to \in Account \cup Broker
  <2> DEFINE P == [from : Account \cup Broker, to : Account \cup Broker, value : Nat]
  <2>0. Pay \in Seq(P)
    BY <1>1
  <2> HIDE DEF P
  <2>1. \A i \in TxId : Pay[i] \in P
    BY <1>2, <2>0
  <2> USE DEF P
  <2> QED
    BY <2>1
<1> QED
  BY <1>2, <1>3, BrokerAssumption DEF Tx, TxLoc, SrcShard, DstShard

\* SendWrappedTxs2Shards puts a transaction into one message, to its shard.
LEMMA MsgsFor ==
  ASSUME NEW F
  PROVE  /\ \A m \in TxMsgsFor(F) :
              m.to \in Shard /\ m.txs \subseteq F /\ \A t \in m.txs : TxLoc(t) = m.to
         /\ \A m, k \in TxMsgsFor(F) : \A t : t \in m.txs /\ t \in k.txs => m = k
<1>1. ASSUME NEW m \in TxMsgsFor(F)
      PROVE  /\ m.to \in Shard /\ m.txs = {t \in F : TxLoc(t) = m.to}
             /\ m = [to |-> m.to, txs |-> m.txs]
  BY DEF TxMsgsFor
<1>2. ASSUME NEW m \in TxMsgsFor(F), NEW k \in TxMsgsFor(F), NEW t, t \in m.txs, t \in k.txs
      PROVE  m = k
  <2>1. m.to = TxLoc(t) /\ k.to = TxLoc(t)
    BY <1>1, <1>2
  <2>2. m.txs = k.txs
    BY <1>1, <2>1
  <2> QED
    BY <1>1, <2>1, <2>2
<1> QED
  BY <1>1, <1>2

\* Transactions F of payments that are not under way are sent, after T have left
\* the pool of shard s.
LEMMA LocatedSend ==
  ASSUME FileTypes, Located, NEW F \in SUBSET Tx, Unique(F),
         NEW s \in Shard, NEW T \in SUBSET pool[s],
         \A f \in F : ~InMsgs(f.id) /\ (InPool(f.id) => Has(T, f.id)),
         txMsgs' = txMsgs \cup TxMsgsFor(F),
         pool' = [pool EXCEPT ![s] = @ \ T]
  PROVE  /\ Located'
         /\ \A m \in txMsgs' : m.txs \subseteq Tx /\ \A t \in m.txs : t \in F \/ \E k \in txMsgs : t \in k.txs
         /\ pool' \in [Shard -> SUBSET Tx]
         /\ \A i \in TxId : InMsgs(i)' => InMsgs(i) \/ Has(F, i)
         /\ \A i \in TxId : InPool(i)' => InPool(i) /\ ~Has(T, i)
<1>1. \A r \in Shard : pool'[r] = IF r = s THEN pool[r] \ T ELSE pool[r]
  BY DEF FileTypes
<1>2. \A m \in txMsgs' : \/ m \in txMsgs
                         \/ /\ m \in TxMsgsFor(F) /\ m.txs \subseteq F
                            /\ \A t \in m.txs : TxLoc(t) = m.to
  BY MsgsFor
<1>3. \A m \in txMsgs' : m.txs \subseteq Tx /\ \A t \in m.txs : t \in F \/ \E k \in txMsgs : t \in k.txs
  BY <1>2 DEF FileTypes
<1>4. \A i \in TxId : InMsgs(i)' => InMsgs(i) \/ Has(F, i)
  BY <1>2 DEF InMsgs, Has
<1>5. ASSUME NEW i \in TxId, InPool(i)' PROVE InPool(i) /\ ~Has(T, i)
  <2>1. PICK r \in Shard : \E t \in pool'[r] : t.id = i
    BY <1>5 DEF InPool, Has
  <2>2. PICK t \in pool[r] : t.id = i /\ (r = s => t \notin T)
    BY <1>1, <2>1
  <2>3. ASSUME NEW u \in T, u.id = i PROVE FALSE
    BY <2>1, <2>2, <2>3 DEF Located, Unique, Has
  <2> QED
    BY <2>1, <2>2, <2>3 DEF InPool, Has
<1>6. \A m \in txMsgs' : Unique(m.txs) /\ \A t \in m.txs : TxLoc(t) = m.to
  BY <1>2 DEF Located, Unique
<1>7. ASSUME NEW m \in txMsgs', NEW k \in txMsgs', NEW i \in TxId, Has(m.txs, i), Has(k.txs, i)
      PROVE  m = k
  <2>1. CASE m \in txMsgs /\ k \in txMsgs
    BY <1>7, <2>1 DEF Located
  <2>2. CASE m \in txMsgs /\ k \notin txMsgs
    BY <1>2, <1>7, <2>2 DEF Has, InMsgs
  <2>3. CASE m \notin txMsgs /\ k \in txMsgs
    BY <1>2, <1>7, <2>3 DEF Has, InMsgs
  <2>4. CASE m \notin txMsgs /\ k \notin txMsgs
    <3>1. PICK t \in m.txs : t.id = i
      BY <1>7 DEF Has
    <3>2. PICK u \in k.txs : u.id = i
      BY <1>7 DEF Has
    <3>3. t = u
      BY <1>2, <2>4, <3>1, <3>2 DEF Unique
    <3> QED
      BY <1>2, <2>4, <3>3, MsgsFor
  <2> QED
    BY <2>1, <2>2, <2>3, <2>4
<1>8. /\ \A r \in Shard : Unique(pool'[r]) /\ \A t \in pool'[r] : TxLoc(t) = r
      /\ \A r, q \in Shard : \A i \in TxId : Has(pool'[r], i) /\ Has(pool'[q], i) => r = q
  BY <1>1 DEF Located, Unique, Has
<1>9. \A i \in TxId : ~(InMsgs(i)' /\ InPool(i)')
  BY <1>4, <1>5 DEF Located, Has
<1>10. Located'
  BY <1>6, <1>7, <1>8, <1>9 DEF Located, Unique, TxLoc, SrcShard, DstShard, TxId, Has
<1>11. pool' \in [Shard -> SUBSET Tx]
  BY DEF FileTypes
<1> QED
  BY <1>3, <1>4, <1>5, <1>10, <1>11

\* What a block with transactions T of the pool has done: all of them have
\* debited by now, and all but the first halves have credited.
LEMMA DoneFacts ==
  ASSUME BrokerInv, NEW s \in Shard, NEW T \in SUBSET pool[s],
         done' = [i \in TxId |->
           LET debits  == {t \in T : t.id = i /\ Pay[i].from \in Payers(s, t)}
               credits == {t \in T : t.id = i /\ Pay[i].to \in Receivers(s, t)}
           IN  [debit  |-> done[i].debit + Cardinality(debits),
                credit |-> done[i].credit + Cardinality(credits)]]
  PROVE  /\ done' \in [TxId -> [debit : {0, 1}, credit : {0, 1}]]
         /\ \A i \in TxId : ~Has(T, i) => done'[i] = done[i]
         /\ \A t \in T : /\ t.id \in TxId
                         /\ done'[t.id].debit = 1
                         /\ done'[t.id].credit = IF t.kind \in {"sigma1", "relay1"} THEN 0 ELSE 1
<1> DEFINE D(i) == {t \in T : t.id = i /\ Pay[i].from \in Payers(s, t)}
           C(i) == {t \in T : t.id = i /\ Pay[i].to \in Receivers(s, t)}
<1>1. done' = [i \in TxId |-> [debit  |-> done[i].debit + Cardinality(D(i)),
                               credit |-> done[i].credit + Cardinality(C(i))]]
  OBVIOUS
<1>2. ASSUME NEW i \in TxId
      PROVE  done[i].debit \in {0, 1} /\ done[i].credit \in {0, 1}
             /\ done[i] = [debit |-> done[i].debit, credit |-> done[i].credit]
  BY DEF BrokerInv, FileTypes
<1>3. ASSUME NEW i \in TxId, ~Has(T, i) PROVE done'[i] = done[i]
  <2>1. D(i) = {} /\ C(i) = {}
    BY <1>3 DEF Has
  <2>2. Cardinality(D(i)) = 0 /\ Cardinality(C(i)) = 0
    BY <2>1, FS_EmptySet
  <2> HIDE DEF D, C
  <2>3. done'[i] = [debit |-> done[i].debit + Cardinality(D(i)),
                    credit |-> done[i].credit + Cardinality(C(i))]
    BY <1>1, Zenon
  <2>4. done[i].debit + 0 = done[i].debit /\ done[i].credit + 0 = done[i].credit
    <3> DEFINE d == done[i].debit
               c == done[i].credit
    <3>1. d \in {0, 1} /\ c \in {0, 1}
      BY <1>2
    <3> HIDE DEF d, c
    <3>2. d + 0 = d /\ c + 0 = c
      BY <3>1
    <3> QED
      BY <3>2 DEF d, c
  <2> QED
    BY <1>2, <2>2, <2>3, <2>4
<1>4. ASSUME NEW t \in T
      PROVE  /\ t.id \in TxId
             /\ done'[t.id] = [debit |-> 1, credit |-> IF t.kind \in {"sigma1", "relay1"} THEN 0 ELSE 1]
  <2>1. t \in Tx /\ t.id \in TxId /\ Expected(t) /\ TxLoc(t) = s
    BY DEF BrokerInv, FileTypes, Tx, ExpectedInv, Located
  <2>2. \A u \in T : u.id = t.id => u = t
    BY DEF BrokerInv, Located, Unique
  <2>3. t.kind \in ByBroker => Pay[t.id].from \notin via[t.id] /\ Pay[t.id].to \notin via[t.id]
    BY <2>1 DEF Expected, BrokerInv, FileTypes, FileInv, Cross
  <2>4. /\ Pay[t.id].from \in Payers(s, t) <=> t.kind \notin Second
        /\ Pay[t.id].to \in Receivers(s, t) <=> t.kind \notin {"sigma1", "relay1"}
    BY <2>1, <2>3 DEF Payers, Receivers, TxLoc, Tx, Second, ByBroker
  <2>5. /\ D(t.id) = IF t.kind \in Second THEN {} ELSE {t}
        /\ C(t.id) = IF t.kind \in {"sigma1", "relay1"} THEN {} ELSE {t}
    BY <2>2, <2>4
  <2>6. Cardinality({t}) = 1 /\ Cardinality({}) = 0
    BY FS_EmptySet, FS_Singleton
  <2> HIDE DEF D, C
  <2>7. done'[t.id] = [debit |-> done[t.id].debit + Cardinality(D(t.id)),
                       credit |-> done[t.id].credit + Cardinality(C(t.id))]
    BY <1>1, <2>1, Zenon
  <2>8. done[t.id].debit + Cardinality(D(t.id)) = 1
    BY <2>1, <2>5, <2>6 DEF Expected
  <2>9. done[t.id].credit + Cardinality(C(t.id)) = IF t.kind \in {"sigma1", "relay1"} THEN 0 ELSE 1
    BY <2>1, <2>5, <2>6 DEF Expected
  <2> QED
    BY <2>1, <2>7, <2>8, <2>9
<1> HIDE DEF D, C
<1>5. ASSUME NEW i \in TxId PROVE done'[i] \in [debit : {0, 1}, credit : {0, 1}]
  <2>1. CASE Has(T, i)
    BY <1>4, <2>1 DEF Has
  <2>2. CASE ~Has(T, i)
    BY <1>2, <1>3, <2>2
  <2> QED
    BY <2>1, <2>2
<1>6. done' \in [TxId -> [debit : {0, 1}, credit : {0, 1}]]
  BY <1>1, <1>5
<1> QED
  BY <1>3, <1>4, <1>6

-----------------------------------------------------------------------------
(* The steps. *)

\* Nothing is read, sent or on file at the start.
LEMMA InitInv == Init => BrokerInv
<1> SUFFICES ASSUME Init PROVE BrokerInv
  OBVIOUS
<1>1. FileTypes
  BY SourceFacts DEF Init, FileTypes
<1>2. Located /\ ExpectedInv
  BY DEF Init, Located, ExpectedInv, Unique, Has, InMsgs, InPool
<1>3. FileInv /\ InfoInv /\ StopInv
  BY DEF Init, FileInv, InfoInv, StopInv
<1> QED
  BY <1>1, <1>2, <1>3 DEF BrokerInv

\* Steps that only take messages away, or leave the payments alone.
LEMMA LessUnderWay ==
  ASSUME BrokerInv, txMsgs' \subseteq txMsgs, infos' \subseteq infos,
         UNCHANGED <<read, via, stage, ready2, stopped, pool, done>>
  PROVE  BrokerInv'
<1>1. FileTypes'
  BY DEF BrokerInv, FileTypes, TxId, Tx
<1>2. \A i \in TxId : (InMsgs(i)' => InMsgs(i)) /\ (InPool(i)' <=> InPool(i))
  BY DEF InMsgs, InPool, Has
<1>3. Located'
  BY <1>2 DEF BrokerInv, Located, Unique, Has, TxLoc, SrcShard, DstShard, TxId
<1>4. ExpectedInv'
  BY DEF BrokerInv, ExpectedInv, Expected, OnFile, ByBroker, Second
<1>5. FileInv'
  BY <1>2 DEF BrokerInv, FileInv, Cross, SrcShard, DstShard, TxId
<1>6. InfoInv' /\ StopInv'
  BY DEF BrokerInv, InfoInv, StopInv, TxId
<1> QED
  BY <1>1, <1>3, <1>4, <1>5, <1>6 DEF BrokerInv

\* A message goes into the pool of its shard.
LEMMA ReceiveStep ==
  ASSUME BrokerInv, NEW s \in Shard, NEW m \in txMsgs, HandleReceiveTxs(s, m)
  PROVE  BrokerInv'
<1>1. /\ UNCHANGED <<read, via, stage, ready2, stopped, infos, done>>
      /\ m.to = s /\ txMsgs' = txMsgs \ {m}
      /\ pool' = [pool EXCEPT ![s] = @ \cup m.txs]
  BY DEF HandleReceiveTxs, supVars
<1>2. m.txs \subseteq Tx /\ \A t \in m.txs : t.id \in TxId /\ InMsgs(t.id)
  BY DEF BrokerInv, FileTypes, InMsgs, Has, Tx
<1>3. \A r \in Shard : pool'[r] = IF r = s THEN pool[r] \cup m.txs ELSE pool[r]
  BY <1>1 DEF BrokerInv, FileTypes
<1>4. FileTypes'
  BY <1>1, <1>2 DEF BrokerInv, FileTypes, TxId, Tx
<1>5. \A i \in TxId : /\ InMsgs(i)' => InMsgs(i) /\ ~Has(m.txs, i)
                      /\ InPool(i)' => InPool(i) \/ Has(m.txs, i)
                      /\ Has(m.txs, i) => InMsgs(i)
  <2>1. ASSUME NEW i \in TxId, InMsgs(i)' PROVE InMsgs(i) /\ ~Has(m.txs, i)
    BY <1>1, <2>1 DEF InMsgs, BrokerInv, Located, Has
  <2>2. \A i \in TxId : InPool(i)' => InPool(i) \/ Has(m.txs, i)
    BY <1>3 DEF InPool, Has
  <2>3. \A i \in TxId : Has(m.txs, i) => InMsgs(i)
    BY DEF InMsgs
  <2> QED
    BY <2>1, <2>2, <2>3
<1>6. Located'
  <2>1. \A k \in txMsgs' : Unique(k.txs) /\ \A t \in k.txs : TxLoc(t) = k.to
    BY <1>1 DEF BrokerInv, Located
  <2>2. \A k, l \in txMsgs' : \A i \in TxId : Has(k.txs, i) /\ Has(l.txs, i) => k = l
    BY <1>1 DEF BrokerInv, Located
  <2>3. \A t \in m.txs : \A r \in Shard : ~Has(pool[r], t.id)
    BY <1>2 DEF BrokerInv, Located, InPool
  <2>4. ASSUME NEW r \in Shard
        PROVE  Unique(pool'[r]) /\ \A t \in pool'[r] : TxLoc(t) = r
    BY <1>1, <1>3, <2>3 DEF BrokerInv, Located, Unique, Has
  <2>5. ASSUME NEW r \in Shard, NEW q \in Shard, NEW i \in TxId, Has(pool'[r], i), Has(pool'[q], i)
        PROVE  r = q
    <3>1. \A k \in Shard : Has(pool'[k], i) => Has(pool[k], i) \/ (k = s /\ Has(m.txs, i))
      BY <1>3 DEF Has
    <3>2. Has(m.txs, i) => ~Has(pool[r], i) /\ ~Has(pool[q], i)
      BY <2>3 DEF Has
    <3> QED
      BY <2>5, <3>1, <3>2 DEF BrokerInv, Located
  <2>6. \A i \in TxId : ~(InMsgs(i)' /\ InPool(i)')
    BY <1>5 DEF BrokerInv, Located
  <2> QED
    BY <2>1, <2>2, <2>4, <2>5, <2>6 DEF Located, Unique, Has, TxLoc, SrcShard, DstShard, TxId
<1>7. ExpectedInv'
  BY <1>1, <1>3 DEF BrokerInv, ExpectedInv, Expected, OnFile, ByBroker, Second
<1>8. FileInv'
  BY <1>1, <1>5 DEF BrokerInv, FileInv, Cross, SrcShard, DstShard, TxId
<1>9. InfoInv' /\ StopInv'
  BY <1>1 DEF BrokerInv, InfoInv, StopInv, TxId
<1> QED
  BY <1>4, <1>6, <1>7, <1>8, <1>9 DEF BrokerInv

\* A block: its first halves of relays go on as second halves.
LEMMA CommitStep ==
  ASSUME BrokerInv, NEW s \in Shard, CommitBlock(s)
  PROVE  BrokerInv'
<1>1. PICK T \in SUBSET pool[s] :
        /\ pool' = [pool EXCEPT ![s] = @ \ T]
        /\ infos' = infos \cup {[shard |-> s, txs |-> T]} \/ infos' = infos
        /\ txMsgs' = txMsgs \cup
             TxMsgsFor({[id |-> t.id, kind |-> "relay2"] : t \in {u \in T : u.kind = "relay1"}})
        /\ done' = [i \in TxId |->
             LET debits  == {t \in T : t.id = i /\ Pay[i].from \in Payers(s, t)}
                 credits == {t \in T : t.id = i /\ Pay[i].to \in Receivers(s, t)}
             IN  [debit  |-> done[i].debit + Cardinality(debits),
                  credit |-> done[i].credit + Cardinality(credits)]]
        /\ UNCHANGED supVars
  BY DEF CommitBlock
<1>2. UNCHANGED <<read, via, stage, ready2, stopped>>
  BY <1>1 DEF supVars
<1>3. /\ done' \in [TxId -> [debit : {0, 1}, credit : {0, 1}]]
      /\ \A i \in TxId : ~Has(T, i) => done'[i] = done[i]
      /\ \A t \in T : /\ t.id \in TxId
                      /\ done'[t.id].debit = 1
                      /\ done'[t.id].credit = IF t.kind \in {"sigma1", "relay1"} THEN 0 ELSE 1
  BY <1>1, DoneFacts
<1>4. \A t \in T : t \in Tx /\ Expected(t) /\ InPool(t.id) /\ ~InMsgs(t.id) /\ t.id \notin ready2
  <2>1. \A t \in T : t \in Tx /\ Expected(t) /\ InPool(t.id)
    BY DEF BrokerInv, FileTypes, ExpectedInv, InPool, Has
  <2> QED
    BY <1>3, <2>1 DEF BrokerInv, Located, FileInv
<1> DEFINE F == {[id |-> t.id, kind |-> "relay2"] : t \in {u \in T : u.kind = "relay1"}}
<1>5. F \in SUBSET Tx /\ Unique(F)
  BY <1>3 DEF Tx, Unique
<1>6. \A f \in F : f.kind = "relay2" /\ \E t \in T : t.id = f.id /\ t.kind = "relay1"
  OBVIOUS
<1>7. txMsgs' = txMsgs \cup TxMsgsFor(F)
  BY <1>1
<1> HIDE DEF F
<1>8. \A f \in F : ~InMsgs(f.id) /\ (InPool(f.id) => Has(T, f.id))
  BY <1>4, <1>6 DEF Has
<1>9. /\ Located'
      /\ \A m \in txMsgs' : m.txs \subseteq Tx /\ \A t \in m.txs : t \in F \/ \E k \in txMsgs : t \in k.txs
      /\ pool' \in [Shard -> SUBSET Tx]
      /\ \A i \in TxId : InMsgs(i)' => InMsgs(i) \/ Has(F, i)
      /\ \A i \in TxId : InPool(i)' => InPool(i) /\ ~Has(T, i)
  BY <1>1, <1>5, <1>7, <1>8, LocatedSend DEF BrokerInv
<1>10. \A m \in infos' : m \in infos \/ m.txs = T
  BY <1>1
<1>11. FileTypes'
  BY <1>2, <1>3, <1>4, <1>9, <1>10 DEF BrokerInv, FileTypes, TxId, Tx
<1>12. ExpectedInv'
  <2>1. ASSUME NEW t, t \in Tx, Expected(t), ~Has(T, t.id) PROVE Expected(t)'
    BY <1>2, <1>3, <2>1 DEF Expected, OnFile, ByBroker, Second, Tx
  <2>2. \A f \in F : Expected(f)'
    <3>1. ASSUME NEW f \in F PROVE Expected(f)'
      <4>1. PICK t \in T : t.id = f.id /\ t.kind = "relay1" /\ f.kind = "relay2"
        BY <1>6
      <4> QED
        BY <1>2, <1>3, <1>4, <4>1 DEF Expected, OnFile, ByBroker, Second
    <3> QED
      BY <3>1
  <2>3. ASSUME NEW m \in txMsgs', NEW t \in m.txs PROVE Expected(t)'
    <3>1. CASE t \notin F
      <4>1. PICK k \in txMsgs : t \in k.txs
        BY <1>9, <3>1
      <4>2. t \in Tx /\ Expected(t) /\ InMsgs(t.id)
        BY <4>1 DEF BrokerInv, FileTypes, ExpectedInv, InMsgs, Has
      <4> QED
        BY <1>4, <2>1, <4>2 DEF Has
    <3> QED
      BY <2>2, <3>1
  <2>4. ASSUME NEW r \in Shard, NEW t \in pool'[r] PROVE Expected(t)'
    <3>1. t \in Tx /\ t.id \in TxId /\ InPool(t.id)'
      BY <1>9 DEF InPool, Has, Tx
    <3>2. t \in pool[r]
      BY <1>1 DEF BrokerInv, FileTypes
    <3> QED
      BY <1>9, <2>1, <3>1, <3>2 DEF BrokerInv, ExpectedInv
  <2> QED
    BY <2>3, <2>4 DEF ExpectedInv
<1>13. FileInv'
  <2> SUFFICES ASSUME NEW i \in TxId
               PROVE  /\ i > read => via[i] = {} /\ stage[i] = "none" /\ done'[i].debit = 0
                      /\ done'[i].credit <= done'[i].debit
                      /\ via[i] # {} => Cross(i)
                      /\ via[i] # {} /\ stage[i] = "none" => done'[i].credit = 1
                      /\ stage[i] # "none" => via[i] # {}
                      /\ stage[i] = "wait1" => done'[i].credit = 0
                      /\ i \in ready2 => /\ stage[i] = "wait2" /\ done'[i].debit = 1
                                         /\ done'[i].credit = 0 /\ ~InMsgs(i)' /\ ~InPool(i)'
    BY <1>2 DEF FileInv, Cross, SrcShard, DstShard, TxId
  <2>1. CASE Has(T, i)
    <3>1. PICK t \in T : t.id = i
      BY <2>1 DEF Has
    <3>2. /\ i <= read
          /\ via[i] # {} <=> t.kind \in ByBroker
          /\ stage[i] = OnFile[t.kind] /\ i \notin ready2
      BY <1>4, <3>1 DEF Expected
    <3>3. done'[i].debit = 1 /\ done'[i].credit = IF t.kind \in {"sigma1", "relay1"} THEN 0 ELSE 1
      BY <1>3, <3>1
    <3>4. ~(i > read)
      <4>1. i \in Int /\ read \in Int
        <5>1. TxId = 1 .. Len(Pay) /\ read \in 0 .. Len(Pay)
          BY SourceFacts DEF BrokerInv, FileTypes
        <5> QED
          BY <5>1, SourceFacts
      <4> QED
        BY <3>2, <4>1
    <3>5. t.kind \in {"inner", "sigma1", "sigma2", "relay1", "relay2"}
      BY <1>4, <3>1 DEF Tx
    <3>6. done'[i].credit <= done'[i].debit
      BY <3>3
    <3>7. /\ via[i] # {} /\ stage[i] = "none" => done'[i].credit = 1
          /\ stage[i] = "wait1" => done'[i].credit = 0
      BY <3>2, <3>3, <3>5 DEF ByBroker, OnFile
    <3> QED
      BY <3>2, <3>4, <3>6, <3>7 DEF BrokerInv, FileInv
  <2>2. CASE ~Has(T, i)
    <3>1. i \in ready2 => ~Has(F, i)
      BY <1>4, <1>6 DEF Has
    <3> QED
      BY <1>3, <1>9, <2>2, <3>1 DEF BrokerInv, FileInv
  <2> QED
    BY <2>1, <2>2
<1>14. InfoInv'
  <2>1. ASSUME NEW m \in infos', NEW t \in m.txs
        PROVE  /\ t.kind = "sigma1" => done'[t.id].debit = 1
               /\ t.kind = "sigma2" => done'[t.id].credit = 1
    <3>1. CASE m \in infos
      <4>1. t.id \in TxId /\ (t.kind = "sigma1" => done[t.id].debit = 1)
            /\ (t.kind = "sigma2" => done[t.id].credit = 1)
        BY <2>1, <3>1 DEF BrokerInv, FileTypes, InfoInv, Tx
      <4>2. CASE Has(T, t.id)
        <5>1. PICK u \in T : u.id = t.id
          BY <4>2 DEF Has
        <5> QED
          BY <1>3, <1>4, <4>1, <5>1 DEF Expected
      <4> QED
        BY <1>3, <4>1, <4>2
    <3>2. CASE m.txs = T
      BY <1>3, <2>1, <3>2
    <3> QED
      BY <1>10, <3>1, <3>2
  <2> QED
    BY <2>1 DEF InfoInv
<1>15. StopInv'
  BY <1>2 DEF BrokerInv, StopInv, TxId
<1> QED
  BY <1>9, <1>11, <1>12, <1>13, <1>14, <1>15 DEF BrokerInv

\* The supervisor takes an info: a confirmed first half brings the payment on the
\* list of the second halves, a confirmed second half takes it off the file.
LEMMA ConfirmStep ==
  ASSUME BrokerInv, NEW m \in infos, HandleBlockInfo(m)
  PROVE  BrokerInv'
<1> DEFINE C1 == Confirmed(m, "sigma1")
           C2 == Confirmed(m, "sigma2")
<1>1. /\ UNCHANGED <<read, via, stopped, pool, txMsgs, done>>
      /\ ~stopped
      /\ infos' = infos \ {m}
      /\ ready2' = ready2 \cup C1
      /\ stage' = [i \in TxId |-> CASE i \in C1 -> "wait2"
                                    [] i \in C2 -> "none"
                                    [] OTHER -> stage[i]]
  BY DEF HandleBlockInfo
<1>2. /\ C1 \subseteq TxId /\ C2 \subseteq TxId
      /\ \A i \in C1 : stage[i] = "wait1" /\ done[i].debit = 1 /\ done[i].credit = 0
      /\ \A i \in C2 : stage[i] = "wait2" /\ done[i].credit = 1
  <2>1. \A t \in m.txs : t.id \in TxId
    BY DEF BrokerInv, FileTypes, Tx
  <2>2. /\ C1 \subseteq TxId /\ C2 \subseteq TxId
        /\ \A i \in C1 : stage[i] = "wait1" /\ done[i].debit = 1
        /\ \A i \in C2 : stage[i] = "wait2" /\ done[i].credit = 1
    BY <2>1 DEF Confirmed, BrokerInv, InfoInv
  <2> QED
    BY <2>2 DEF BrokerInv, FileInv
<1> HIDE DEF C1, C2
<1>3. \A i \in TxId : stage'[i] = IF i \in C1 THEN "wait2"
                                  ELSE IF i \in C2 THEN "none" ELSE stage[i]
  BY <1>1, <1>2
<1>4. \A t \in Tx : Expected(t) => t.id \notin C1 /\ t.id \notin C2
  BY <1>2 DEF Expected, OnFile, Second, Tx
<1>5. FileTypes'
  BY <1>1, <1>2 DEF BrokerInv, FileTypes, TxId, Tx
<1>6. \A i \in TxId : (InMsgs(i)' <=> InMsgs(i)) /\ (InPool(i)' <=> InPool(i))
  BY <1>1 DEF InMsgs, InPool, Has
<1>7. Located'
  BY <1>1, <1>6 DEF BrokerInv, Located, Unique, Has, TxLoc, SrcShard, DstShard, TxId
<1>8. ExpectedInv'
  <2>1. ASSUME NEW t \in Tx, Expected(t) PROVE Expected(t)'
    BY <1>1, <1>3, <1>4, <2>1 DEF Expected, OnFile, ByBroker, Second, Tx
  <2> QED
    BY <1>1, <2>1 DEF BrokerInv, FileTypes, ExpectedInv
<1>9. \A i \in C1 : ~InMsgs(i) /\ ~InPool(i)
  BY <1>4 DEF BrokerInv, FileTypes, ExpectedInv, InMsgs, InPool, Has
<1>10. FileInv'
  <2> SUFFICES ASSUME NEW i \in TxId
               PROVE  /\ i > read => via[i] = {} /\ stage'[i] = "none" /\ done[i].debit = 0
                      /\ done[i].credit <= done[i].debit
                      /\ via[i] # {} => Cross(i)
                      /\ via[i] # {} /\ stage'[i] = "none" => done[i].credit = 1
                      /\ stage'[i] # "none" => via[i] # {}
                      /\ stage'[i] = "wait1" => done[i].credit = 0
                      /\ i \in ready2' => /\ stage'[i] = "wait2" /\ done[i].debit = 1
                                          /\ done[i].credit = 0 /\ ~InMsgs(i) /\ ~InPool(i)
    BY <1>1, <1>6 DEF FileInv, Cross, SrcShard, DstShard, TxId
  <2>1. CASE i \in C1
    BY <1>1, <1>2, <1>3, <1>9, <2>1 DEF BrokerInv, FileInv
  <2>2. CASE i \in C2
    BY <1>1, <1>2, <1>3, <2>2 DEF BrokerInv, FileInv
  <2>3. CASE i \notin C1 /\ i \notin C2
    BY <1>1, <1>3, <2>3 DEF BrokerInv, FileInv
  <2> QED
    BY <2>1, <2>2, <2>3
<1>11. InfoInv' /\ StopInv'
  BY <1>1 DEF BrokerInv, InfoInv, StopInv
<1> QED
  BY <1>5, <1>7, <1>8, <1>10, <1>11 DEF BrokerInv

\* Transactions of payments S of a kind.
Txs(S, kind) == {[id |-> i, kind |-> kind] : i \in S}

\* The transactions of a tick that takes these payments from the source.
Made(new, cross, brokered) ==
  Txs(new \ cross, "inner") \cup Txs(cross \ brokered, "relay1")
  \cup Txs(brokered, "sigma1") \cup Txs(ready2, "sigma2")

\* The next payments of the source.
LEMMA NewPayments ==
  ASSUME FileTypes
  PROVE  LET size == Min({TxInjectionSpeed, Len(Pay) - read})
         IN  /\ size \in Nat /\ read + size \in 0 .. Len(Pay)
             /\ read + 1 .. read + size \in SUBSET TxId
<1> DEFINE size == Min({TxInjectionSpeed, Len(Pay) - read})
<1>1. read \in 0 .. Len(Pay) /\ Len(Pay) \in Nat /\ TxId = 1 .. Len(Pay) /\ TxInjectionSpeed \in Nat
  BY SourceFacts, BrokerAssumption DEF FileTypes
<1>2. Len(Pay) - read \in Nat
  BY <1>1
<1>3. size = IF TxInjectionSpeed <= Len(Pay) - read THEN TxInjectionSpeed ELSE Len(Pay) - read
  BY <1>1, <1>2, MinOfTwo
<1> HIDE DEF size
<1>4. /\ size \in Nat /\ read + size \in 0 .. Len(Pay)
      /\ read + 1 .. read + size \in SUBSET TxId
  BY <1>1, <1>2, <1>3
<1> QED
  BY <1>4 DEF size

\* A tick of the supervisor, in short: it takes new payments from the source,
\* gives some of the cross-shard ones to brokers, and sends a transaction for
\* each of them and for each payment of its list.
LEMMA TickFacts ==
  ASSUME BrokerInv, SupTick
  PROVE  \E size \in Nat : \E new \in SUBSET TxId : \E cross \in SUBSET new :
           \E brokered \in SUBSET cross :
             /\ new = read + 1 .. read + size
             /\ read' = read + size /\ read' \in 0 .. Len(Pay)
             /\ \A i \in cross : Cross(i)
             /\ via' \in [TxId -> SUBSET Broker]
             /\ \A i \in TxId : IF i \in brokered THEN via'[i] # {} ELSE via'[i] = via[i]
             /\ stage' = [i \in TxId |-> IF i \in brokered THEN "wait1" ELSE stage[i]]
             /\ txMsgs' = txMsgs \cup TxMsgsFor(Made(new, cross, brokered))
<1> DEFINE size  == Min({TxInjectionSpeed, Len(Pay) - read})
           new   == read + 1 .. read + size
           cross == {i \in new : Cross(i)}
<1>1. /\ size \in Nat /\ read + size \in 0 .. Len(Pay)
      /\ new \in SUBSET TxId
  BY NewPayments DEF BrokerInv
<1>2. PICK f \in Assignments(cross) :
        LET brokered == {i \in cross : f[i] # {}}
            txs == {[id |-> i, kind |-> "inner"] : i \in new \ cross}
                   \cup {[id |-> i, kind |-> "relay1"] : i \in cross \ brokered}
                   \cup {[id |-> i, kind |-> "sigma1"] : i \in brokered}
                   \cup {[id |-> i, kind |-> "sigma2"] :
                             i \in {j \in ready2 : stage[j] = "wait2"}}
        IN  /\ read' = read + size
            /\ via' = [i \in TxId |-> IF i \in brokered THEN f[i] ELSE via[i]]
            /\ stage' = [i \in TxId |-> IF i \in brokered THEN "wait1" ELSE stage[i]]
            /\ txMsgs' = txMsgs \cup TxMsgsFor(txs)
  BY DEF SupTick
<1> DEFINE brokered == {i \in cross : f[i] # {}}
<1>3. {j \in ready2 : stage[j] = "wait2"} = ready2
  BY DEF BrokerInv, FileTypes, FileInv
<1>4. /\ read' = read + size
      /\ via' = [i \in TxId |-> IF i \in brokered THEN f[i] ELSE via[i]]
      /\ stage' = [i \in TxId |-> IF i \in brokered THEN "wait1" ELSE stage[i]]
      /\ txMsgs' = txMsgs \cup TxMsgsFor(Made(new, cross, brokered))
  BY <1>2, <1>3 DEF Made, Txs
<1>5. \A i \in cross : f[i] \in SUBSET Broker
  BY DEF Assignments
<1>6. /\ cross \in SUBSET new /\ brokered \in SUBSET cross
      /\ \A i \in cross : Cross(i)
      /\ \A i \in brokered : f[i] # {}
  OBVIOUS
<1> HIDE DEF size, new, cross, brokered
<1>7. via' \in [TxId -> SUBSET Broker]
  BY <1>4, <1>5, <1>6 DEF BrokerInv, FileTypes
<1>8. \A i \in TxId : IF i \in brokered THEN via'[i] # {} ELSE via'[i] = via[i]
  BY <1>4, <1>6
<1>9. new = read + 1 .. read + size /\ read' \in 0 .. Len(Pay)
  BY <1>1, <1>4 DEF new
<1> QED
  BY <1>1, <1>4, <1>6, <1>7, <1>8, <1>9

\* The transactions of a tick: one for each payment, none of them under way yet.
LEMMA TickTxs ==
  ASSUME BrokerInv, NEW new \in SUBSET TxId, NEW cross \in SUBSET new,
         NEW brokered \in SUBSET cross, \A i \in new : i > read
  PROVE  LET F == Made(new, cross, brokered) IN
         /\ F \in SUBSET Tx /\ Unique(F)
         /\ \A f \in F : \/ f.kind \in {"inner", "relay1"} /\ f.id \in new \ brokered
                         \/ f.kind = "sigma1" /\ f.id \in brokered
                         \/ f.kind = "sigma2" /\ f.id \in ready2
         /\ \A f \in F : ~InMsgs(f.id) /\ ~InPool(f.id)
<1> DEFINE F == Made(new, cross, brokered)
<1>1. \A f \in F : /\ f = [id |-> f.id, kind |-> f.kind]
                   /\ \/ f.kind = "inner" /\ f.id \in new \ cross
                      \/ f.kind = "relay1" /\ f.id \in cross \ brokered
                      \/ f.kind = "sigma1" /\ f.id \in brokered
                      \/ f.kind = "sigma2" /\ f.id \in ready2
  BY DEF Made, Txs
<1> HIDE DEF F
<1>2. \A i \in new : i \notin ready2
  BY DEF BrokerInv, FileInv
<1>3. \A i \in new : ~InMsgs(i) /\ ~InPool(i)
  <2>1. \A i \in new : ~(i <= read)
    <3>1. TxId = 1 .. Len(Pay) /\ read \in 0 .. Len(Pay) /\ Len(Pay) \in Nat
      BY SourceFacts DEF BrokerInv, FileTypes
    <3> QED
      BY <3>1
  <2> QED
    BY <2>1 DEF BrokerInv, ExpectedInv, Expected, InMsgs, InPool, Has
<1>4. \A i \in ready2 : i \in TxId /\ ~InMsgs(i) /\ ~InPool(i)
  BY DEF BrokerInv, FileTypes, FileInv
<1>5. F \in SUBSET Tx
  <2>1. ASSUME NEW f \in F PROVE f \in Tx
    <3>1. f.id \in TxId /\ f.kind \in {"inner", "sigma1", "sigma2", "relay1", "relay2"}
      BY <1>1, <1>4
    <3>2. \A i \in TxId : \A k \in {"inner", "sigma1", "sigma2", "relay1", "relay2"} :
            [id |-> i, kind |-> k] \in Tx
      BY DEF Tx
    <3> QED
      BY <1>1, <3>1, <3>2
  <2> QED
    BY <2>1
<1>6. Unique(F)
  <2>1. ASSUME NEW f \in F, NEW g \in F, f.id = g.id PROVE f = g
    <3>1. f.kind = g.kind
      BY <1>1, <1>2, <2>1
    <3> QED
      BY <1>1, <2>1, <3>1
  <2> QED
    BY <2>1 DEF Unique
<1>7. \A f \in F : ~InMsgs(f.id) /\ ~InPool(f.id)
  BY <1>1, <1>3, <1>4
<1> QED
  BY <1>1, <1>5, <1>6, <1>7 DEF F

\* A tick of the supervisor.
LEMMA TickStep ==
  ASSUME BrokerInv, SupTick
  PROVE  BrokerInv'
<1>1. /\ ~stopped /\ ready2' = {} /\ UNCHANGED <<pool, infos, done>>
      /\ stopped' = ShouldStop(stage')
  BY DEF SupTick, Ready2Left
<1>2. PICK size \in Nat : \E new \in SUBSET TxId : \E cross \in SUBSET new :
           \E brokered \in SUBSET cross :
             /\ new = read + 1 .. read + size
             /\ read' = read + size /\ read' \in 0 .. Len(Pay)
             /\ \A i \in cross : Cross(i)
             /\ via' \in [TxId -> SUBSET Broker]
             /\ \A i \in TxId : IF i \in brokered THEN via'[i] # {} ELSE via'[i] = via[i]
             /\ stage' = [i \in TxId |-> IF i \in brokered THEN "wait1" ELSE stage[i]]
             /\ txMsgs' = txMsgs \cup TxMsgsFor(Made(new, cross, brokered))
  BY TickFacts
<1>3. PICK new \in SUBSET TxId : \E cross \in SUBSET new : \E brokered \in SUBSET cross :
             /\ new = read + 1 .. read + size
             /\ read' = read + size /\ read' \in 0 .. Len(Pay)
             /\ \A i \in cross : Cross(i)
             /\ via' \in [TxId -> SUBSET Broker]
             /\ \A i \in TxId : IF i \in brokered THEN via'[i] # {} ELSE via'[i] = via[i]
             /\ stage' = [i \in TxId |-> IF i \in brokered THEN "wait1" ELSE stage[i]]
             /\ txMsgs' = txMsgs \cup TxMsgsFor(Made(new, cross, brokered))
  BY <1>2
<1>4a. PICK cross \in SUBSET new : \E brokered \in SUBSET cross :
             /\ new = read + 1 .. read + size
             /\ read' = read + size /\ read' \in 0 .. Len(Pay)
             /\ \A i \in cross : Cross(i)
             /\ via' \in [TxId -> SUBSET Broker]
             /\ \A i \in TxId : IF i \in brokered THEN via'[i] # {} ELSE via'[i] = via[i]
             /\ stage' = [i \in TxId |-> IF i \in brokered THEN "wait1" ELSE stage[i]]
             /\ txMsgs' = txMsgs \cup TxMsgsFor(Made(new, cross, brokered))
  BY <1>3
<1>4. PICK brokered \in SUBSET cross :
             /\ new = read + 1 .. read + size
             /\ read' = read + size /\ read' \in 0 .. Len(Pay)
             /\ \A i \in cross : Cross(i)
             /\ via' \in [TxId -> SUBSET Broker]
             /\ \A i \in TxId : IF i \in brokered THEN via'[i] # {} ELSE via'[i] = via[i]
             /\ stage' = [i \in TxId |-> IF i \in brokered THEN "wait1" ELSE stage[i]]
             /\ txMsgs' = txMsgs \cup TxMsgsFor(Made(new, cross, brokered))
  BY <1>4a
<1>5. /\ \A i \in new : i > read /\ i <= read'
      /\ \A i \in TxId : i > read' => i > read /\ i \notin new
      /\ \A i \in TxId : i <= read => i <= read'
      /\ \A i \in TxId : ~(i > read /\ i <= read)
  <2>1. TxId = 1 .. Len(Pay) /\ read \in 0 .. Len(Pay) /\ Len(Pay) \in Nat
    BY SourceFacts DEF BrokerInv, FileTypes
  <2> QED
    BY <1>4, <2>1
<1> DEFINE F == Made(new, cross, brokered)
<1>6. /\ F \in SUBSET Tx /\ Unique(F)
      /\ \A f \in F : \/ f.kind \in {"inner", "relay1"} /\ f.id \in new \ brokered
                      \/ f.kind = "sigma1" /\ f.id \in brokered
                      \/ f.kind = "sigma2" /\ f.id \in ready2
      /\ \A f \in F : ~InMsgs(f.id) /\ ~InPool(f.id)
  <2>1. new \in SUBSET TxId /\ \A i \in new : i > read
    BY <1>4, <1>5
  <2> QED
    BY <2>1, TickTxs
<1>7. txMsgs' = txMsgs \cup TxMsgsFor(F)
  BY <1>4
<1> HIDE DEF F
<1>8. PICK s : s \in Shard
  BY BrokerAssumption
<1>9. pool' = [pool EXCEPT ![s] = @ \ {}] /\ {} \in SUBSET pool[s]
  BY <1>1 DEF BrokerInv, FileTypes
<1>10. /\ Located'
       /\ \A m \in txMsgs' : m.txs \subseteq Tx /\ \A t \in m.txs : t \in F \/ \E k \in txMsgs : t \in k.txs
  BY <1>6, <1>7, <1>8, <1>9, LocatedSend DEF BrokerInv
<1>11. FileTypes'
  BY <1>1, <1>4, <1>10 DEF BrokerInv, FileTypes, TxId, Tx
<1>12. /\ \A i \in brokered : i \in TxId /\ i > read /\ i <= read' /\ Cross(i) /\ stage'[i] = "wait1"
       /\ \A i \in TxId : i \notin brokered => stage'[i] = stage[i] /\ via'[i] = via[i]
  BY <1>4, <1>5
<1>13. ExpectedInv'
  <2>1. ASSUME NEW t \in Tx, Expected(t) PROVE Expected(t)'
    <3>1. t.id \in TxId /\ t.id <= read
      BY <2>1 DEF Tx, Expected
    <3>2. t.id \notin brokered
      BY <1>5, <1>12, <3>1
    <3> QED
      BY <1>1, <1>5, <1>12, <2>1, <3>1, <3>2 DEF Expected, OnFile, ByBroker, Second
  <2>2. ASSUME NEW f \in F PROVE Expected(f)'
    <3>1. CASE f.kind \in {"inner", "relay1"} /\ f.id \in new \ brokered
      <4>1. f.id \in TxId /\ f.id > read /\ f.id <= read'
        BY <1>4, <1>5, <3>1
      <4>2. via[f.id] = {} /\ stage[f.id] = "none" /\ done[f.id].debit = 0 /\ done[f.id].credit = 0
        BY <4>1 DEF BrokerInv, FileTypes, FileInv
      <4> QED
        BY <1>1, <1>12, <3>1, <4>1, <4>2 DEF Expected, OnFile, ByBroker, Second
    <3>2. CASE f.kind = "sigma1" /\ f.id \in brokered
      <4>1. f.id \in TxId /\ f.id > read /\ f.id <= read' /\ stage'[f.id] = "wait1" /\ via'[f.id] # {}
        BY <1>4, <1>12, <3>2
      <4>2. done[f.id].debit = 0 /\ done[f.id].credit = 0
        BY <4>1 DEF BrokerInv, FileTypes, FileInv
      <4> QED
        BY <1>1, <3>2, <4>1, <4>2 DEF Expected, OnFile, ByBroker, Second
    <3>3. CASE f.kind = "sigma2" /\ f.id \in ready2
      <4>1. /\ f.id \in TxId /\ stage[f.id] = "wait2" /\ done[f.id].debit = 1
            /\ done[f.id].credit = 0 /\ via[f.id] # {}
        BY <3>3 DEF BrokerInv, FileTypes, FileInv
      <4>2. ~(f.id > read)
        BY <4>1 DEF BrokerInv, FileInv
      <4>3. f.id <= read'
        <5>1. TxId = 1 .. Len(Pay) /\ read \in 0 .. Len(Pay) /\ Len(Pay) \in Nat
          BY SourceFacts DEF BrokerInv, FileTypes
        <5> QED
          BY <1>5, <4>1, <4>2, <5>1
      <4>4. f.id \notin brokered
        BY <1>12, <4>2
      <4> QED
        BY <1>1, <1>12, <3>3, <4>1, <4>3, <4>4 DEF Expected, OnFile, ByBroker, Second
    <3> QED
      BY <1>6, <3>1, <3>2, <3>3
  <2>3. ASSUME NEW m \in txMsgs', NEW t \in m.txs PROVE Expected(t)'
    <3>1. CASE t \notin F
      <4>1. PICK k \in txMsgs : t \in k.txs
        BY <1>10, <3>1
      <4>2. t \in Tx /\ Expected(t)
        BY <4>1 DEF BrokerInv, FileTypes, ExpectedInv
      <4> QED
        BY <2>1, <4>2
    <3> QED
      BY <2>2, <3>1
  <2>4. ASSUME NEW r \in Shard, NEW t \in pool'[r] PROVE Expected(t)'
    BY <1>1, <2>1 DEF BrokerInv, FileTypes, ExpectedInv
  <2> QED
    BY <2>3, <2>4 DEF ExpectedInv
<1>14. FileInv'
  <2> SUFFICES ASSUME NEW i \in TxId
               PROVE  /\ i > read' => via'[i] = {} /\ stage'[i] = "none" /\ done[i].debit = 0
                      /\ done[i].credit <= done[i].debit
                      /\ via'[i] # {} => Cross(i)
                      /\ via'[i] # {} /\ stage'[i] = "none" => done[i].credit = 1
                      /\ stage'[i] # "none" => via'[i] # {}
                      /\ stage'[i] = "wait1" => done[i].credit = 0
    BY <1>1 DEF FileInv, Cross, SrcShard, DstShard, TxId
  <2>1. CASE i \in brokered
    <3>1. ~(i > read') /\ stage'[i] = "wait1" /\ via'[i] # {} /\ Cross(i) /\ i > read
      BY <1>4, <1>5, <1>12, <2>1
    <3> QED
      BY <3>1 DEF BrokerInv, FileTypes, FileInv
  <2>2. CASE i \notin brokered
    BY <1>5, <1>12, <2>2 DEF BrokerInv, FileInv
  <2> QED
    BY <2>1, <2>2
<1>15. InfoInv'
  BY <1>1 DEF BrokerInv, InfoInv
<1>16. StopInv'
  BY <1>1 DEF ShouldStop, IsFinished, StopInv, TxId
<1> QED
  BY <1>10, <1>11, <1>13, <1>14, <1>15, <1>16 DEF BrokerInv

\* Every step keeps the invariant.
LEMMA NextInv == BrokerInv /\ [Next]_vars => BrokerInv'
<1> SUFFICES ASSUME BrokerInv, [Next]_vars PROVE BrokerInv'
  OBVIOUS
<1>1. CASE SupTick
  BY <1>1, TickStep
<1>2. CASE HandleEmptyInfo
  BY <1>2, LessUnderWay DEF HandleEmptyInfo
<1>3. ASSUME NEW m \in infos, HandleBlockInfo(m) PROVE BrokerInv'
  BY <1>3, ConfirmStep
<1>4. ASSUME NEW m \in infos, LoseInfo(m) PROVE BrokerInv'
  BY <1>4, LessUnderWay DEF LoseInfo, supVars
<1>5. ASSUME NEW s \in Shard, CommitBlock(s) PROVE BrokerInv'
  BY <1>5, CommitStep
<1>6. ASSUME NEW s \in Shard, NEW m \in txMsgs, HandleReceiveTxs(s, m) PROVE BrokerInv'
  BY <1>6, ReceiveStep
<1>7. ASSUME NEW m \in txMsgs, LoseTxs(m) PROVE BrokerInv'
  BY <1>7, LessUnderWay DEF LoseTxs, supVars
<1>8. CASE UNCHANGED vars
  BY <1>8, LessUnderWay DEF vars, supVars
<1> QED
  BY <1>1, <1>2, <1>3, <1>4, <1>5, <1>6, <1>7, <1>8 DEF Next

-----------------------------------------------------------------------------
(* The theorems. *)

\* The inductive invariant: what is under way, what the chains have done and
\* what the supervisor has on file fit together, whatever is lost.
THEOREM Invariance == Spec => []BrokerInv
  BY InitInv, NextInv, PTL DEF Spec

\* A payment is debited and credited at most once, never credited first
\* (HandleMsg, ConfirmBrokerTx, CreateBrokerTxs and the executing shards).
THEOREM PaymentsMadeOnce == Spec => []PaidOnce
<1>1. BrokerInv => PaidOnce
  BY DEF BrokerInv, FileTypes, FileInv, PaidOnce
<1> QED
  BY <1>1, Invariance, PTL

\* ShouldStop is not true while a payment is with a broker: when the supervisor
\* has stopped, all of them are debited and credited.
THEOREM StopWaitsForBrokers == Spec => []StopAfterBrokers
<1>1. BrokerInv => StopAfterBrokers
  <2> SUFFICES ASSUME BrokerInv, stopped, NEW i \in TxId, via[i] # {}
               PROVE  done[i].debit = 1 /\ done[i].credit = 1
    BY DEF StopAfterBrokers
  <2>1. stage[i] = "none"
    BY DEF BrokerInv, StopInv
  <2>2. done[i].credit = 1 /\ done[i].credit <= done[i].debit
    BY <2>1 DEF BrokerInv, FileInv
  <2> QED
    BY <2>2 DEF BrokerInv, FileTypes
<1> QED
  BY <1>1, Invariance, PTL

-----------------------------------------------------------------------------
(* The money of the brokers: the invariant. *)

\* A payment has one broker or none, and an info is of the shard of its halves.
BookTypes ==
  /\ books \in [Broker -> [Shard -> Int]]
  /\ pending \in [Broker -> [Shard -> Nat]]
  /\ balance \in [Shard -> [Holder -> Int]]
  /\ \A i \in TxId : via[i] = {} \/ \E b \in Broker : via[i] = {b}
  /\ \A m \in infos : m.shard \in Shard /\ \A t \in m.txs : TxLoc(t) = m.shard

\* The promises of b in s that are not known to be paid.
Promised(b, s) == {i \in TxId : via[i] = {b} /\ stage[i] # "none" /\ DstShard(i) = s}

\* No broker promises more than the books show.
Solvent == \A b \in Broker, s \in Shard : pending[b][s] <= books[b][s]

PromiseInv == BookTypes /\ PendingIsPromised /\ Solvent

\* What broker b has got, and has paid, in s and the supervisor does not know of.
Got(b, s)  == {i \in TxId : via[i] = {b} /\ stage[i] = "wait1" /\ done[i].debit = 1
                            /\ SrcShard(i) = s}
Gave(b, s) == {i \in TxId : via[i] = {b} /\ stage[i] = "wait2" /\ done[i].credit = 1
                            /\ DstShard(i) = s}

\* The books and the state tries differ by that, and by the initial balances a
\* broker got again.
Extra(b, s) ==
  BrokerInit + balance[s][b] - Total(Got(b, s)) + Total(Gave(b, s)) - books[b][s]
TrieInv == \A b \in Broker, s \in Shard : \E k \in Nat : Extra(b, s) = k * BrokerInit

\* An info of a half is the only one, and the supervisor waits for it; when no
\* info is lost there is one for each half that is done.
ReportInv ==
  /\ lost \in Nat
  /\ \A m \in infos : \A t \in m.txs : t.kind \in ByBroker => stage[t.id] = OnFile[t.kind]
  /\ \A m, k \in infos : \A t \in m.txs : t \in k.txs /\ t.kind \in ByBroker => m = k
  /\ lost = 0 => \A i \in TxId :
       /\ stage[i] = "wait1" /\ done[i].debit = 1 =>
            \E m \in infos : [id |-> i, kind |-> "sigma1"] \in m.txs
       /\ stage[i] = "wait2" /\ done[i].credit = 1 =>
            \E m \in infos : [id |-> i, kind |-> "sigma2"] \in m.txs

-----------------------------------------------------------------------------
(* Sums of payments. *)

Values == [i \in TxId |-> Value(i)]

\* Values are natural numbers, and the payments are finitely many.
LEMMA ValueFacts ==
  /\ IsFiniteSet(TxId)
  /\ \A i \in TxId : Value(i) \in Nat /\ Values[i] = Value(i)
<1>1. \A i \in TxId : Value(i) \in Nat
  <2> DEFINE P == [from : Account \cup Broker, to : Account \cup Broker, value : Nat]
  <2>0. Pay \in Seq(P) /\ TxId = 1 .. Len(Pay)
    BY SourceFacts, BrokerAssumption
  <2> HIDE DEF P
  <2>1. \A i \in TxId : Pay[i] \in P
    BY <2>0
  <2> USE DEF P
  <2> QED
    BY <2>1 DEF Value
<1>2. IsFiniteSet(TxId)
  <2>1. TxId = 1 .. Len(Pay) /\ Len(Pay) \in Int /\ 1 \in Int
    BY SourceFacts
  <2> QED
    BY <2>1, FS_Interval
<1> QED
  BY <1>1, <1>2 DEF Values

\* The total of a set of payments is the sum of their values.
LEMMA TotalIsSum ==
  ASSUME NEW S \in SUBSET TxId
  PROVE  Total(S) = SumOf(Values, S)
<1> DEFINE IsTotal(g) == g = [s \in SUBSET S |->
                                IF s = {} THEN 0 ELSE Value(Elt(s)) + g[s \ {Elt(s)}]]
           total == CHOOSE g : IsTotal(g)
<1>1. IsFiniteSet(S)
  BY ValueFacts, FS_Subset
<1>2. \A s \in SUBSET S : s # {} => Value(Elt(s)) = Values[Elt(s)]
  BY EltIn, ValueFacts
<1>3. \A g : IsTotal(g) <=> IsSum(g, Values, S)
  BY <1>2 DEF IsSum
<1>4. PICK g : IsSum(g, Values, S)
  BY <1>1, SumExists
<1>5. IsSum(total, Values, S)
  <2>1. IsTotal(g)
    BY <1>3, <1>4
  <2> HIDE DEF IsTotal
  <2>2. IsTotal(total)
    BY <2>1
  <2> QED
    BY <1>3, <2>2
<1>6. PICK h : IsSum(h, Values, S) /\ SumOf(Values, S) = h[S]
  BY <1>4, SumIs
<1>7. Total(S) = total[S]
  BY DEF Total, MapThenSumSet, MapThenFoldSet, Elt
<1>8. total[S] = h[S]
  BY <1>1, <1>5, <1>6, SumUnique
<1> QED
  BY <1>6, <1>7, <1>8

\* Totals of payments that are put together or taken away.
LEMMA TotalFacts ==
  /\ \A S \in SUBSET TxId : Total(S) \in Nat
  /\ Total({}) = 0
  /\ \A i \in TxId : Total({i}) = Value(i)
  /\ \A S, T \in SUBSET TxId : S \cap T = {} => Total(S \cup T) = Total(S) + Total(T)
  /\ \A S, T \in SUBSET TxId : T \subseteq S => Total(S \ T) = Total(S) - Total(T)
<1>1. \A S \in SUBSET TxId : IsFiniteSet(S) /\ \A i \in S : Values[i] \in Nat
  BY ValueFacts, FS_Subset
<1>2. \A S \in SUBSET TxId : Total(S) \in Nat
  BY <1>1, SumType, TotalIsSum
<1>3. Total({}) = 0
  BY <1>1, SumRec, TotalIsSum
<1>4. ASSUME NEW S \in SUBSET TxId, NEW T \in SUBSET TxId, S \cap T = {}
      PROVE  Total(S \cup T) = Total(S) + Total(T)
  <2>1. IsFiniteSet(S) /\ IsFiniteSet(T) /\ \A i \in S \cup T : Values[i] \in Int
    BY <1>1
  <2>2. SumOf(Values, S \cup T) = SumOf(Values, S) + SumOf(Values, T)
    BY <1>4, <2>1, SumUnion
  <2> QED
    BY <2>2, TotalIsSum
<1>5. ASSUME NEW i \in TxId PROVE Total({i}) = Value(i)
  <2>1. SumOf(Values, {i}) = Values[i] + SumOf(Values, {i} \ {i})
    <3>1. IsFiniteSet({i}) /\ (\A x \in {i} : Values[x] \in Int) /\ i \in {i}
      BY <1>1
    <3> QED
      BY <3>1, SumRemove
  <2>2. {i} \ {i} = {} /\ SumOf(Values, {}) = 0
    BY <1>3, TotalIsSum
  <2> QED
    BY <2>1, <2>2, ValueFacts, TotalIsSum
<1>6. ASSUME NEW S \in SUBSET TxId, NEW T \in SUBSET TxId, T \subseteq S
      PROVE  Total(S \ T) = Total(S) - Total(T)
  <2>1. (S \ T) \cup T = S /\ (S \ T) \cap T = {} /\ S \ T \in SUBSET TxId
    BY <1>6
  <2>2. Total(S) = Total(S \ T) + Total(T)
    BY <1>4, <2>1
  <2> QED
    BY <1>2, <2>1, <2>2
<1> QED
  BY <1>2, <1>3, <1>4, <1>5, <1>6

\* Payments have a last one.
LEMMA LastPayment ==
  ASSUME NEW S \in SUBSET TxId, S # {}
  PROVE  \E i \in S : \A j \in S : j <= i
<1> DEFINE Q == {A \in SUBSET S : A # {} /\ ~ \E i \in A : \A j \in A : j <= i}
<1>1. SUFFICES ASSUME Q # {} PROVE FALSE
  OBVIOUS
<1>2. PICK A \in Q : \A B \in Q : B \subseteq A => B = A
  <2>1. Q \in SUBSET (SUBSET S) /\ IsFiniteSet(S)
    BY ValueFacts, FS_Subset
  <2> HIDE DEF Q
  <2> QED
    BY <1>1, <2>1, MinimalSubset
<1>3. PICK i \in A : TRUE
  BY <1>2
<1>4. \A j \in A : j \in Int
  BY SourceFacts
<1>5. A \ {i} # {}
  BY <1>2, <1>4
<1>6. PICK k \in A \ {i} : \A j \in A \ {i} : j <= k
  <2>1. A \ {i} \in SUBSET S /\ A \ {i} \subseteq A /\ A \ {i} # A
    BY <1>3
  <2>2. A \ {i} \notin Q
    BY <1>2, <2>1
  <2> QED
    BY <1>5, <2>1, <2>2
<1> QED
  BY <1>2, <1>4, <1>6

-----------------------------------------------------------------------------
(* The money of the brokers: the steps. *)

\* The greater one of a number and 0.
LEMMA NotBelowZero ==
  ASSUME NEW x \in Int, x >= 0
  PROVE  Max({0, x}) = x
<1>1. x \in {0, x} /\ \A z \in {0, x} : x >= z
  OBVIOUS
<1>2. \A n \in {0, x} : (\A z \in {0, x} : n >= z) => n = x
  OBVIOUS
<1> QED
  BY <1>1, <1>2 DEF Max

\* A tick of the supervisor, as far as the brokers go.
LEMMA TickBooks ==
  ASSUME BrokerInv, SupTick
  PROVE  \E cross \in SUBSET TxId : \E f \in [cross -> {{}} \cup {{b} : b \in Broker}] :
           /\ \A i \in cross : i > read
           /\ \A i \in cross : \A b \in Broker : f[i] = {b} => Available(f, b, i) >= Value(i)
           /\ via' = [i \in TxId |-> IF i \in cross /\ f[i] # {} THEN f[i] ELSE via[i]]
           /\ stage' = [i \in TxId |-> IF i \in cross /\ f[i] # {} THEN "wait1" ELSE stage[i]]
           /\ pending' = [b \in Broker |-> [s \in Shard |-> pending[b][s] +
                Total({i \in cross : f[i] = {b} /\ DstShard(i) = s})]]
<1> DEFINE size  == Min({TxInjectionSpeed, Len(Pay) - read})
           new   == read + 1 .. read + size
           cross == {i \in new : Cross(i)}
<1>1. size \in Nat /\ new \in SUBSET TxId
  BY NewPayments DEF BrokerInv
<1>2. PICK f \in Assignments(cross) :
        LET brokered == {i \in cross : f[i] # {}}
        IN  /\ via' = [i \in TxId |-> IF i \in brokered THEN f[i] ELSE via[i]]
            /\ stage' = [i \in TxId |-> IF i \in brokered THEN "wait1" ELSE stage[i]]
            /\ pending' = [b \in Broker |-> [s \in Shard |-> pending[b][s] +
                 Total({i \in brokered : f[i] = {b} /\ DstShard(i) = s})]]
  BY DEF SupTick
<1>3. \A i \in cross : i > read
  BY <1>1 DEF BrokerInv, FileTypes
<1>4. cross \in SUBSET TxId
  BY <1>1
<1> HIDE DEF cross
<1>5. /\ f \in [cross -> {{}} \cup {{b} : b \in Broker}]
      /\ \A i \in cross : \A b \in Broker : f[i] = {b} => Available(f, b, i) >= Value(i)
  BY DEF Assignments
<1> DEFINE brokered == {i \in cross : f[i] # {}}
<1>6. \A b \in Broker, s \in Shard :
        {i \in brokered : f[i] = {b} /\ DstShard(i) = s}
        = {i \in cross : f[i] = {b} /\ DstShard(i) = s}
  OBVIOUS
<1>7. \A i : i \in brokered <=> i \in cross /\ f[i] # {}
  OBVIOUS
<1>8. /\ via' = [i \in TxId |-> IF i \in brokered THEN f[i] ELSE via[i]]
      /\ stage' = [i \in TxId |-> IF i \in brokered THEN "wait1" ELSE stage[i]]
      /\ pending' = [b \in Broker |-> [s \in Shard |-> pending[b][s] +
           Total({i \in brokered : f[i] = {b} /\ DstShard(i) = s})]]
  BY <1>2
<1> HIDE DEF brokered
<1>9. /\ via' = [i \in TxId |-> IF i \in cross /\ f[i] # {} THEN f[i] ELSE via[i]]
      /\ stage' = [i \in TxId |-> IF i \in cross /\ f[i] # {} THEN "wait1" ELSE stage[i]]
      /\ pending' = [b \in Broker |-> [s \in Shard |-> pending[b][s] +
           Total({i \in cross : f[i] = {b} /\ DstShard(i) = s})]]
  BY <1>6, <1>7, <1>8
<1> QED
  BY <1>3, <1>4, <1>5, <1>9

\* A tick: what is promised is promised on the books.
LEMMA TickPromises ==
  ASSUME BrokerInv, PromiseInv, SupTick
  PROVE  PromiseInv'
<1>1. PICK cross \in SUBSET TxId : \E f \in [cross -> {{}} \cup {{b} : b \in Broker}] :
           /\ \A i \in cross : i > read
           /\ \A i \in cross : \A b \in Broker : f[i] = {b} => Available(f, b, i) >= Value(i)
           /\ via' = [i \in TxId |-> IF i \in cross /\ f[i] # {} THEN f[i] ELSE via[i]]
           /\ stage' = [i \in TxId |-> IF i \in cross /\ f[i] # {} THEN "wait1" ELSE stage[i]]
           /\ pending' = [b \in Broker |-> [s \in Shard |-> pending[b][s] +
                Total({i \in cross : f[i] = {b} /\ DstShard(i) = s})]]
  BY TickBooks
<1>2. PICK f \in [cross -> {{}} \cup {{b} : b \in Broker}] :
           /\ \A i \in cross : i > read
           /\ \A i \in cross : \A b \in Broker : f[i] = {b} => Available(f, b, i) >= Value(i)
           /\ via' = [i \in TxId |-> IF i \in cross /\ f[i] # {} THEN f[i] ELSE via[i]]
           /\ stage' = [i \in TxId |-> IF i \in cross /\ f[i] # {} THEN "wait1" ELSE stage[i]]
           /\ pending' = [b \in Broker |-> [s \in Shard |-> pending[b][s] +
                Total({i \in cross : f[i] = {b} /\ DstShard(i) = s})]]
  BY <1>1
<1>3. UNCHANGED <<books, balance, infos>>
  BY DEF SupTick
<1> DEFINE G(b, s) == {i \in cross : f[i] = {b} /\ DstShard(i) = s}
<1>4. \A b \in Broker, s \in Shard :
        /\ G(b, s) \in SUBSET TxId /\ Total(G(b, s)) \in Nat
        /\ pending'[b][s] = pending[b][s] + Total(G(b, s))
  BY <1>2, TotalFacts
<1>5. \A i \in cross : via[i] = {} /\ stage[i] = "none"
  BY <1>2 DEF BrokerInv, FileInv
<1>6. pending' \in [Broker -> [Shard -> Nat]]
  <2>1. ASSUME NEW b \in Broker, NEW s \in Shard PROVE pending[b][s] + Total(G(b, s)) \in Nat
    <3>1. Total(G(b, s)) \in Nat /\ pending[b][s] \in Nat
      BY <1>4 DEF PromiseInv, BookTypes
    <3> HIDE DEF G
    <3> QED
      BY <3>1
  <2> QED
    BY <1>2, <2>1
<1>7. ASSUME NEW i \in TxId PROVE via'[i] = {} \/ \E b \in Broker : via'[i] = {b}
  <2>1. via'[i] = IF i \in cross /\ f[i] # {} THEN f[i] ELSE via[i]
    BY <1>2
  <2>2. i \in cross => f[i] = {} \/ \E b \in Broker : f[i] = {b}
    OBVIOUS
  <2>3. via[i] = {} \/ \E b \in Broker : via[i] = {b}
    BY DEF PromiseInv, BookTypes
  <2> QED
    BY <2>1, <2>2, <2>3
<1>8. BookTypes'
  BY <1>3, <1>6, <1>7 DEF PromiseInv, BookTypes, TxLoc, SrcShard, DstShard, TxId
<1>9. ASSUME NEW b \in Broker, NEW s \in Shard
      PROVE  /\ pending'[b][s] = Total(Promised(b, s)')
             /\ pending'[b][s] <= books'[b][s]
  <2>1. Promised(b, s)' = Promised(b, s) \cup G(b, s)
    <3>1. \A i \in TxId : /\ via'[i] = IF i \in cross /\ f[i] # {} THEN f[i] ELSE via[i]
                          /\ stage'[i] = IF i \in cross /\ f[i] # {} THEN "wait1" ELSE stage[i]
      BY <1>2
    <3>2. \A i \in TxId : via'[i] = {b} /\ stage'[i] # "none"
                          <=> \/ via[i] = {b} /\ stage[i] # "none"
                              \/ i \in cross /\ f[i] = {b}
      BY <1>5, <3>1
    <3> QED
      BY <3>2 DEF Promised, DstShard, TxId
  <2>2. Promised(b, s) \cap G(b, s) = {} /\ Promised(b, s) \in SUBSET TxId
    BY <1>5 DEF Promised
  <2>3. Total(Promised(b, s) \cup G(b, s)) = Total(Promised(b, s)) + Total(G(b, s))
    BY <1>4, <2>2, TotalFacts
  <2>4. pending[b][s] = Total(Promised(b, s)) /\ pending[b][s] <= books[b][s]
        /\ pending[b][s] \in Nat /\ books[b][s] \in Int
    BY DEF PromiseInv, BookTypes, PendingIsPromised, Solvent, Promised
  <2>5. pending'[b][s] = Total(Promised(b, s)')
    BY <1>4, <2>1, <2>3, <2>4
  <2>6. CASE G(b, s) = {}
    <3>1. pending'[b][s] = pending[b][s] + 0
      BY <1>4, <2>6, TotalFacts
    <3> QED
      BY <1>3, <2>4, <2>5, <3>1
  <2>7. CASE G(b, s) # {}
    <3> HIDE DEF G
    <3>1. PICK i \in G(b, s) : \A j \in G(b, s) : j <= i
      BY <1>4, <2>7, LastPayment
    <3> USE DEF G
    <3>2. i \in TxId /\ f[i] = {b} /\ DstShard(i) = s /\ i \in cross
      BY <3>1
    <3>3. Given(f, b, i) = G(b, s) \ {i}
      <4>1. \A j \in cross : j \in Int
        BY SourceFacts
      <4> QED
        BY <3>1, <3>2, <4>1 DEF Given
    <3>4. books[b][s] - pending[b][s] - Total(G(b, s) \ {i}) >= Value(i)
      BY <1>2, <3>2, <3>3 DEF Available
    <3>5. Total(G(b, s) \ {i}) = Total(G(b, s)) - Value(i)
      <4>1. {i} \in SUBSET TxId /\ {i} \subseteq G(b, s) /\ Total({i}) = Value(i)
        BY <3>2, TotalFacts
      <4> QED
        BY <1>4, <4>1, TotalFacts
    <3>6. Value(i) \in Nat
      BY <3>2, ValueFacts
    <3> HIDE DEF G
    <3>7. Total(G(b, s)) \in Nat /\ pending'[b][s] = pending[b][s] + Total(G(b, s))
      BY <1>4
    <3> QED
      BY <1>3, <2>4, <2>5, <3>4, <3>5, <3>6, <3>7
  <2> QED
    BY <2>5, <2>6, <2>7
<1>10. PendingIsPromised' /\ Solvent'
  BY <1>9 DEF PendingIsPromised, Solvent, Promised
<1> QED
  BY <1>8, <1>10 DEF PromiseInv

\* The payments an info confirms for broker b.
Conf(m, kind, b) == {i \in Confirmed(m, kind) : via[i] = {b}}

\* What an info does to the books and to the promises.
LEMMA ConfirmBooks ==
  ASSUME BrokerInv, PromiseInv, NEW m \in infos, HandleBlockInfo(m)
  PROVE  /\ Confirmed(m, "sigma1") \in SUBSET TxId /\ Confirmed(m, "sigma2") \in SUBSET TxId
         /\ \A i \in Confirmed(m, "sigma1") :
              stage[i] = "wait1" /\ done[i].debit = 1 /\ SrcShard(i) = m.shard
         /\ \A i \in Confirmed(m, "sigma2") :
              stage[i] = "wait2" /\ done[i].credit = 1 /\ DstShard(i) = m.shard
         /\ \A i \in TxId : stage'[i] = IF i \in Confirmed(m, "sigma1") THEN "wait2"
                              ELSE IF i \in Confirmed(m, "sigma2") THEN "none" ELSE stage[i]
         /\ books' \in [Broker -> [Shard -> Int]] /\ pending' \in [Broker -> [Shard -> Nat]]
         /\ \A b \in Broker, s \in Shard :
              IF s = m.shard
              THEN /\ books'[b][s] = books[b][s] + Total(Conf(m, "sigma1", b))
                                     - Total(Conf(m, "sigma2", b))
                   /\ pending'[b][s] = pending[b][s] - Total(Conf(m, "sigma2", b))
              ELSE books'[b][s] = books[b][s] /\ pending'[b][s] = pending[b][s]
<1> DEFINE C1 == Confirmed(m, "sigma1")
           C2 == Confirmed(m, "sigma2")
<1>1. /\ stage' = [i \in TxId |-> CASE i \in C1 -> "wait2"
                                    [] i \in C2 -> "none"
                                    [] OTHER -> stage[i]]
      /\ books' = [b \in Broker |-> [books[b] EXCEPT ![m.shard] = @ + Paid(m, b)]]
      /\ pending' = [b \in Broker |-> [pending[b] EXCEPT ![m.shard] = Cleared(m, b)]]
  BY DEF HandleBlockInfo
<1>2. m.shard \in Shard /\ \A t \in m.txs : t \in Tx /\ t.id \in TxId /\ TxLoc(t) = m.shard
  BY DEF BrokerInv, FileTypes, PromiseInv, BookTypes, Tx
<1>3. /\ C1 \in SUBSET TxId /\ C2 \in SUBSET TxId
      /\ \A i \in C1 : stage[i] = "wait1" /\ done[i].debit = 1 /\ SrcShard(i) = m.shard
      /\ \A i \in C2 : stage[i] = "wait2" /\ done[i].credit = 1 /\ DstShard(i) = m.shard
  BY <1>2 DEF Confirmed, BrokerInv, InfoInv, TxLoc
<1>4. \A b \in Broker : /\ Of(m, "sigma1", b) \cap C1 = Conf(m, "sigma1", b)
                        /\ Of(m, "sigma2", b) \cap C2 = Conf(m, "sigma2", b)
  <2>1. ASSUME NEW b \in Broker, NEW kind \in {"sigma1", "sigma2"}
        PROVE  Of(m, kind, b) \cap Confirmed(m, kind) = Conf(m, kind, b)
    BY DEF Of, Confirmed, Conf
  <2> QED
    BY <2>1
<1>5. \A b \in Broker : /\ Conf(m, "sigma1", b) \in SUBSET TxId
                        /\ Conf(m, "sigma2", b) \in SUBSET Promised(b, m.shard)
                        /\ Promised(b, m.shard) \in SUBSET TxId
  BY <1>3 DEF Conf, Promised
<1>6. \A i \in TxId : stage'[i] = IF i \in C1 THEN "wait2"
                                  ELSE IF i \in C2 THEN "none" ELSE stage[i]
  BY <1>1, <1>3
<1> HIDE DEF C1, C2
<1>7. ASSUME NEW b \in Broker
      PROVE  /\ Paid(m, b) = Total(Conf(m, "sigma1", b)) - Total(Conf(m, "sigma2", b))
             /\ Paid(m, b) \in Int
             /\ Cleared(m, b) = pending[b][m.shard] - Total(Conf(m, "sigma2", b))
             /\ Cleared(m, b) \in Nat
  <2>1. Total(Conf(m, "sigma1", b)) \in Nat /\ Total(Conf(m, "sigma2", b)) \in Nat
    BY <1>5, TotalFacts
  <2>2. Total(Promised(b, m.shard) \ Conf(m, "sigma2", b))
        = Total(Promised(b, m.shard)) - Total(Conf(m, "sigma2", b))
    BY <1>5, TotalFacts
  <2>3. Total(Promised(b, m.shard) \ Conf(m, "sigma2", b)) \in Nat
    BY <1>5, TotalFacts
  <2>4. pending[b][m.shard] = Total(Promised(b, m.shard))
    BY <1>2 DEF PromiseInv, PendingIsPromised, Promised
  <2>5. pending[b][m.shard] - Total(Conf(m, "sigma2", b)) \in Nat
    BY <2>2, <2>3, <2>4
  <2>6. Cleared(m, b) = pending[b][m.shard] - Total(Conf(m, "sigma2", b))
    <3>1. Cleared(m, b) = Max({0, pending[b][m.shard] - Total(Conf(m, "sigma2", b))})
      BY <1>4 DEF Cleared, C2
    <3> QED
      BY <2>5, <3>1, NotBelowZero
  <2>7. Paid(m, b) = Total(Conf(m, "sigma1", b)) - Total(Conf(m, "sigma2", b))
    BY <1>4 DEF Paid, C1, C2
  <2>8. Paid(m, b) \in Int
    BY <2>1, <2>7
  <2> QED
    BY <2>5, <2>6, <2>7, <2>8
<1>8. books' \in [Broker -> [Shard -> Int]] /\ pending' \in [Broker -> [Shard -> Nat]]
  <2>1. \A b \in Broker : [books[b] EXCEPT ![m.shard] = @ + Paid(m, b)] \in [Shard -> Int]
    BY <1>7 DEF PromiseInv, BookTypes
  <2>2. \A b \in Broker : [pending[b] EXCEPT ![m.shard] = Cleared(m, b)] \in [Shard -> Nat]
    BY <1>7 DEF PromiseInv, BookTypes
  <2> QED
    BY <1>1, <2>1, <2>2
<1>9. ASSUME NEW b \in Broker, NEW s \in Shard
      PROVE  IF s = m.shard
             THEN /\ books'[b][s] = books[b][s] + Total(Conf(m, "sigma1", b))
                                    - Total(Conf(m, "sigma2", b))
                  /\ pending'[b][s] = pending[b][s] - Total(Conf(m, "sigma2", b))
             ELSE books'[b][s] = books[b][s] /\ pending'[b][s] = pending[b][s]
  <2>1. books[b] \in [Shard -> Int] /\ pending[b] \in [Shard -> Nat]
    BY DEF PromiseInv, BookTypes
  <2>2. /\ books'[b][s] = IF s = m.shard THEN books[b][s] + Paid(m, b) ELSE books[b][s]
        /\ pending'[b][s] = IF s = m.shard THEN Cleared(m, b) ELSE pending[b][s]
    BY <1>1, <2>1
  <2>3. Total(Conf(m, "sigma1", b)) \in Nat /\ Total(Conf(m, "sigma2", b)) \in Nat
    BY <1>5, TotalFacts
  <2> QED
    BY <1>7, <2>1, <2>2, <2>3
<1> QED
  BY <1>3, <1>6, <1>8, <1>9 DEF C1, C2

\* An info clears the promises it confirms.
LEMMA ConfirmPromises ==
  ASSUME BrokerInv, PromiseInv, NEW m \in infos, HandleBlockInfo(m)
  PROVE  PromiseInv'
<1>1. UNCHANGED <<via, balance>> /\ infos' = infos \ {m}
  BY DEF HandleBlockInfo
<1>2. BookTypes'
  BY <1>1, ConfirmBooks DEF PromiseInv, BookTypes, TxLoc, SrcShard, DstShard, TxId
<1>3. ASSUME NEW b \in Broker, NEW s \in Shard
      PROVE  /\ pending'[b][s] = Total(Promised(b, s)')
             /\ pending'[b][s] <= books'[b][s]
  <2>1. Promised(b, s)' = Promised(b, s) \ (IF s = m.shard THEN Conf(m, "sigma2", b) ELSE {})
    <3>1. \A i \in TxId : stage'[i] # "none"
                          <=> stage[i] # "none" /\ i \notin Confirmed(m, "sigma2")
      BY ConfirmBooks
    <3>2. \A i \in Confirmed(m, "sigma2") : DstShard(i) = m.shard
      BY ConfirmBooks
    <3> QED
      BY <1>1, <3>1, <3>2 DEF Promised, Conf, DstShard, TxId
  <2>2. Promised(b, s) \in SUBSET TxId
    BY DEF Promised
  <2>3. s = m.shard => Conf(m, "sigma2", b) \in SUBSET Promised(b, s)
    BY ConfirmBooks DEF Promised, Conf
  <2>4. Total(Conf(m, "sigma1", b)) \in Nat /\ Total(Conf(m, "sigma2", b)) \in Nat
    <3>1. Conf(m, "sigma1", b) \in SUBSET TxId /\ Conf(m, "sigma2", b) \in SUBSET TxId
      BY ConfirmBooks DEF Conf
    <3> QED
      BY <3>1, TotalFacts
  <2>5. pending[b][s] = Total(Promised(b, s)) /\ pending[b][s] <= books[b][s]
        /\ pending[b][s] \in Nat /\ books[b][s] \in Int
    BY DEF PromiseInv, BookTypes, PendingIsPromised, Solvent, Promised
  <2>6. CASE s = m.shard
    <3>1. Total(Promised(b, s) \ Conf(m, "sigma2", b))
          = Total(Promised(b, s)) - Total(Conf(m, "sigma2", b))
      <4>1. Conf(m, "sigma2", b) \in SUBSET TxId
        BY <2>2, <2>3, <2>6
      <4> QED
        BY <2>2, <2>3, <2>6, <4>1, TotalFacts
    <3>2. /\ books'[b][s] = books[b][s] + Total(Conf(m, "sigma1", b))
                            - Total(Conf(m, "sigma2", b))
          /\ pending'[b][s] = pending[b][s] - Total(Conf(m, "sigma2", b))
      BY <2>6, ConfirmBooks
    <3>3. pending'[b][s] <= books'[b][s]
      BY <2>4, <2>5, <3>2
    <3> QED
      BY <2>1, <2>5, <2>6, <3>1, <3>2, <3>3
  <2>7. CASE s # m.shard
    <3>1. books'[b][s] = books[b][s] /\ pending'[b][s] = pending[b][s]
      BY <2>7, ConfirmBooks
    <3>2. Promised(b, s)' = Promised(b, s)
      BY <2>1, <2>7
    <3> QED
      BY <2>5, <3>1, <3>2
  <2> QED
    BY <2>6, <2>7
<1>4. PendingIsPromised' /\ Solvent'
  BY <1>3 DEF PendingIsPromised, Solvent, Promised
<1> QED
  BY <1>2, <1>4 DEF PromiseInv

\* A step that leaves the promises, the books and the stages alone.
LEMMA PromisesUnchanged ==
  ASSUME PromiseInv, UNCHANGED <<books, pending, via, stage>>,
         balance' \in [Shard -> [Holder -> Int]],
         \A m \in infos' : m.shard \in Shard /\ \A t \in m.txs : TxLoc(t) = m.shard
  PROVE  PromiseInv'
<1>1. BookTypes'
  BY DEF PromiseInv, BookTypes, TxLoc, SrcShard, DstShard, TxId
<1>2. PendingIsPromised' /\ Solvent'
  BY DEF PromiseInv, PendingIsPromised, Solvent, DstShard, TxId
<1> QED
  BY <1>1, <1>2 DEF PromiseInv

\* A block keeps the promises.
LEMMA CommitPromises ==
  ASSUME BrokerInv, PromiseInv, NEW s \in Shard, CommitBlock(s)
  PROVE  PromiseInv'
<1>1. PICK T \in SUBSET pool[s] :
        /\ balance' = [balance EXCEPT ![s] =
             [x \in Holder |-> AfterCommit(x, @[x] + Change(s, x, T))]]
        /\ infos' = infos \cup {[shard |-> s, txs |-> T]} \/ infos' = infos
        /\ UNCHANGED supVars
  BY DEF CommitBlock
<1>2. UNCHANGED <<books, pending, via, stage>>
  BY <1>1 DEF supVars
<1>3. \A x \in Holder : Change(s, x, T) \in Int
  <2>1. \A t \in T : t.id \in TxId
    BY DEF BrokerInv, FileTypes, Tx
  <2>2. ASSUME NEW x \in Holder PROVE Change(s, x, T) \in Int
    <3> DEFINE R == {t.id : t \in {u \in T : x \in Receivers(s, u)}}
               P == {t.id : t \in {u \in T : x \in Payers(s, u)}}
    <3>1. R \in SUBSET TxId /\ P \in SUBSET TxId
      BY <2>1
    <3>2. Change(s, x, T) = Total(R) - Total(P)
      BY DEF Change
    <3> HIDE DEF R, P
    <3>3. Total(R) \in Nat /\ Total(P) \in Nat
      BY <3>1, TotalFacts
    <3> QED
      BY <3>2, <3>3
  <2> QED
    BY <2>2
<1>4. balance' \in [Shard -> [Holder -> Int]]
  <2>1. \A x \in Holder : \A v \in Int : AfterCommit(x, v) \in Int
    BY DEF AfterCommit
  <2>2. \A x \in Holder : balance[s][x] + Change(s, x, T) \in Int
    BY <1>3 DEF PromiseInv, BookTypes
  <2>3. [x \in Holder |-> AfterCommit(x, balance[s][x] + Change(s, x, T))] \in [Holder -> Int]
    BY <2>1, <2>2
  <2> QED
    BY <1>1, <2>3 DEF PromiseInv, BookTypes
<1>5. \A t \in T : TxLoc(t) = s
  BY DEF BrokerInv, Located
<1>6. \A m \in infos' : m.shard \in Shard /\ \A t \in m.txs : TxLoc(t) = m.shard
  BY <1>1, <1>5 DEF PromiseInv, BookTypes
<1> QED
  BY <1>2, <1>4, <1>6, PromisesUnchanged

\* Every step keeps the promises.
LEMMA NextPromises == BrokerInv /\ PromiseInv /\ [Next]_vars => PromiseInv'
<1> SUFFICES ASSUME BrokerInv, PromiseInv, [Next]_vars PROVE PromiseInv'
  OBVIOUS
<1>1. CASE SupTick
  BY <1>1, TickPromises
<1>2. CASE UNCHANGED <<books, pending, via, stage, balance>> /\ infos' \subseteq infos
  BY <1>2, PromisesUnchanged DEF PromiseInv, BookTypes
<1>3. CASE HandleEmptyInfo
  BY <1>2, <1>3 DEF HandleEmptyInfo
<1>4. ASSUME NEW m \in infos, HandleBlockInfo(m) PROVE PromiseInv'
  BY <1>4, ConfirmPromises
<1>5. ASSUME NEW m \in infos, LoseInfo(m) PROVE PromiseInv'
  BY <1>2, <1>5 DEF LoseInfo, supVars
<1>6. ASSUME NEW s \in Shard, CommitBlock(s) PROVE PromiseInv'
  BY <1>6, CommitPromises
<1>7. ASSUME NEW s \in Shard, NEW m \in txMsgs, HandleReceiveTxs(s, m) PROVE PromiseInv'
  BY <1>2, <1>7 DEF HandleReceiveTxs, supVars
<1>8. ASSUME NEW m \in txMsgs, LoseTxs(m) PROVE PromiseInv'
  BY <1>2, <1>8 DEF LoseTxs, supVars
<1>9. CASE UNCHANGED vars
  BY <1>2, <1>9 DEF vars, supVars
<1> QED
  BY <1>1, <1>3, <1>4, <1>5, <1>6, <1>7, <1>8, <1>9 DEF Next

\* At the start nothing is promised.
LEMMA InitPromises == Init => PromiseInv
<1> SUFFICES ASSUME Init PROVE PromiseInv
  OBVIOUS
<1>1. BrokerInit \in Nat
  BY BrokerAssumption
<1>2. BookTypes
  BY <1>1 DEF Init, BookTypes
<1>3. \A b \in Broker, s \in Shard : Promised(b, s) = {} /\ pending[b][s] = 0 /\ books[b][s] = BrokerInit
  BY DEF Init, Promised
<1>4. PendingIsPromised
  BY <1>3, TotalFacts DEF PendingIsPromised, Promised
<1>5. Solvent
  BY <1>1, <1>3 DEF Solvent
<1> QED
  BY <1>2, <1>4, <1>5 DEF PromiseInv

\* The pending deductions of staticbroker.go are the promises not known to be
\* paid, and never more than the books show, whatever is lost.
THEOREM PromisesKept == Spec => [](PendingIsPromised /\ Solvent)
<1>1. PromiseInv => PendingIsPromised /\ Solvent
  BY DEF PromiseInv
<1>2. BrokerInv /\ PromiseInv /\ [Next]_vars => (BrokerInv /\ PromiseInv)'
  BY NextInv, NextPromises
<1> QED
  BY <1>1, <1>2, InitInv, InitPromises, PTL DEF Spec

-----------------------------------------------------------------------------
(* The books and the state tries. *)

\* No broker is the sender or recipient of a payment of the source.
OrdinarySource == \A i \in TxId : {Pay[i].from, Pay[i].to} \cap Broker = {}

\* The payments broker b takes part in with the transactions of this kind.
Part(T, kind, b) == {i \in TxId : [id |-> i, kind |-> kind] \in T /\ via[i] = {b}}

\* The transactions a broker receives from, or pays with, in a block.
LEMMA BrokerChange ==
  ASSUME OrdinarySource, BrokerInv, PromiseInv, NEW s \in Shard, NEW T \in SUBSET pool[s],
         NEW b \in Broker
  PROVE  Change(s, b, T) = Total(Part(T, "sigma1", b)) - Total(Part(T, "sigma2", b))
<1>1. \A t \in T : t \in Tx /\ t.id \in TxId /\ TxLoc(t) = s
  BY DEF BrokerInv, FileTypes, Located, Tx
<1>2. \A t \in Tx : t = [id |-> t.id, kind |-> t.kind]
  BY DEF Tx
<1>3. \A i \in TxId : b # Pay[i].from /\ b # Pay[i].to
  BY DEF OrdinarySource
<1>4. \A i \in TxId : b \in via[i] <=> via[i] = {b}
  BY DEF PromiseInv, BookTypes
<1>5. ASSUME NEW t \in T
      PROVE  /\ b \in Receivers(s, t) <=> t.kind = "sigma1" /\ via[t.id] = {b}
             /\ b \in Payers(s, t) <=> t.kind = "sigma2" /\ via[t.id] = {b}
  <2>1. /\ t.id \in TxId /\ t.kind \in {"inner", "sigma1", "sigma2", "relay1", "relay2"}
        /\ b # Pay[t.id].from /\ b # Pay[t.id].to
        /\ b \in via[t.id] <=> via[t.id] = {b}
        /\ t.kind = "sigma1" => SrcShard(t.id) = s
        /\ t.kind = "sigma2" => DstShard(t.id) = s
    BY <1>1, <1>3, <1>4 DEF Tx, TxLoc
  <2> QED
    BY <2>1 DEF Receivers, Payers
<1>6. {t.id : t \in {u \in T : b \in Receivers(s, u)}} = Part(T, "sigma1", b)
  BY <1>1, <1>2, <1>5 DEF Part
<1>7. {t.id : t \in {u \in T : b \in Payers(s, u)}} = Part(T, "sigma2", b)
  BY <1>1, <1>2, <1>5 DEF Part
<1> QED
  BY <1>6, <1>7 DEF Change

\* A block: what a broker gets and pays is not reported yet.
LEMMA CommitTries ==
  ASSUME OrdinarySource, BrokerInv, PromiseInv, TrieInv, NEW s \in Shard, CommitBlock(s)
  PROVE  TrieInv'
<1>1. PICK T \in SUBSET pool[s] :
        /\ balance' = [balance EXCEPT ![s] =
             [x \in Holder |-> AfterCommit(x, @[x] + Change(s, x, T))]]
        /\ done' = [i \in TxId |->
             LET debits  == {t \in T : t.id = i /\ Pay[i].from \in Payers(s, t)}
                 credits == {t \in T : t.id = i /\ Pay[i].to \in Receivers(s, t)}
             IN  [debit  |-> done[i].debit + Cardinality(debits),
                  credit |-> done[i].credit + Cardinality(credits)]]
        /\ UNCHANGED supVars
  BY DEF CommitBlock
<1>2. UNCHANGED <<books, via, stage>>
  BY <1>1 DEF supVars
<1>3. /\ \A i \in TxId : ~Has(T, i) => done'[i] = done[i]
      /\ \A t \in T : /\ t.id \in TxId
                      /\ done'[t.id].debit = 1
                      /\ done'[t.id].credit = IF t.kind \in {"sigma1", "relay1"} THEN 0 ELSE 1
  BY <1>1, DoneFacts
<1>4. \A t \in T : t = [id |-> t.id, kind |-> t.kind] /\ Expected(t) /\ TxLoc(t) = s
  BY DEF BrokerInv, FileTypes, ExpectedInv, Located, Tx
<1>5. ASSUME NEW b \in Broker, NEW r \in Shard
      PROVE  /\ Got(b, r)' = Got(b, r) \cup (IF r = s THEN Part(T, "sigma1", b) ELSE {})
             /\ Gave(b, r)' = Gave(b, r) \cup (IF r = s THEN Part(T, "sigma2", b) ELSE {})
             /\ Got(b, r) \cap Part(T, "sigma1", b) = {}
             /\ Gave(b, r) \cap Part(T, "sigma2", b) = {}
  <2>1. ASSUME NEW i \in TxId, via[i] = {b}
        PROVE  /\ stage[i] = "wait1" /\ done'[i].debit = 1
                  <=> \/ stage[i] = "wait1" /\ done[i].debit = 1
                      \/ [id |-> i, kind |-> "sigma1"] \in T
               /\ stage[i] = "wait2" /\ done'[i].credit = 1
                  <=> \/ stage[i] = "wait2" /\ done[i].credit = 1
                      \/ [id |-> i, kind |-> "sigma2"] \in T
               /\ [id |-> i, kind |-> "sigma1"] \in T => done[i].debit = 0 /\ SrcShard(i) = s
               /\ [id |-> i, kind |-> "sigma2"] \in T => done[i].credit = 0 /\ DstShard(i) = s
    <3>1. CASE Has(T, i)
      <4>1. PICK t \in T : t.id = i
        BY <3>1 DEF Has
      <4>2. \A u \in T : u.id = i => u = t
        BY <4>1 DEF BrokerInv, Located, Unique
      <4>3. t.kind \in ByBroker /\ stage[i] = OnFile[t.kind] /\ done[i].credit = 0
            /\ done[i].debit = IF t.kind \in Second THEN 1 ELSE 0
        BY <1>4, <2>1, <4>1 DEF Expected
      <4>4. \A k : [id |-> i, kind |-> k] \in T <=> t.kind = k
        BY <1>4, <4>1, <4>2
      <4>5. /\ t.kind = "sigma1" => SrcShard(i) = s
            /\ t.kind = "sigma2" => DstShard(i) = s
        BY <1>4, <4>1 DEF TxLoc
      <4>6. /\ done'[i].debit = 1
            /\ done'[i].credit = IF t.kind \in {"sigma1", "relay1"} THEN 0 ELSE 1
        BY <1>3, <4>1
      <4>7. CASE t.kind = "sigma1"
        BY <4>3, <4>4, <4>5, <4>6, <4>7 DEF OnFile, Second
      <4>8. CASE t.kind = "sigma2"
        BY <4>3, <4>4, <4>5, <4>6, <4>8 DEF OnFile, Second
      <4> QED
        BY <4>3, <4>7, <4>8 DEF ByBroker
    <3>2. CASE ~Has(T, i)
      <4>1. \A k : [id |-> i, kind |-> k] \notin T
        BY <3>2 DEF Has
      <4> QED
        BY <1>3, <3>2, <4>1
    <3> QED
      BY <3>1, <3>2
  <2>2. /\ Got(b, r)' = {i \in TxId : via[i] = {b} /\ stage[i] = "wait1" /\ done'[i].debit = 1
                                     /\ SrcShard(i) = r}
        /\ Gave(b, r)' = {i \in TxId : via[i] = {b} /\ stage[i] = "wait2" /\ done'[i].credit = 1
                                      /\ DstShard(i) = r}
    BY <1>2 DEF Got, Gave, SrcShard, DstShard, TxId
  <2>3. ASSUME NEW i \in TxId
        PROVE  /\ i \in Got(b, r)' <=> (i \in Got(b, r) \/ (r = s /\ i \in Part(T, "sigma1", b)))
               /\ i \in Gave(b, r)' <=> (i \in Gave(b, r) \/ (r = s /\ i \in Part(T, "sigma2", b)))
               /\ ~(i \in Got(b, r) /\ i \in Part(T, "sigma1", b))
               /\ ~(i \in Gave(b, r) /\ i \in Part(T, "sigma2", b))
    <3>1. CASE via[i] = {b}
      <4>1. /\ i \in Got(b, r) <=> (stage[i] = "wait1" /\ done[i].debit = 1 /\ SrcShard(i) = r)
            /\ i \in Gave(b, r) <=> (stage[i] = "wait2" /\ done[i].credit = 1 /\ DstShard(i) = r)
            /\ i \in Part(T, "sigma1", b) <=> [id |-> i, kind |-> "sigma1"] \in T
            /\ i \in Part(T, "sigma2", b) <=> [id |-> i, kind |-> "sigma2"] \in T
        BY <3>1 DEF Got, Gave, Part
      <4>2. /\ i \in Got(b, r)' <=> (stage[i] = "wait1" /\ done'[i].debit = 1 /\ SrcShard(i) = r)
            /\ i \in Gave(b, r)' <=> (stage[i] = "wait2" /\ done'[i].credit = 1 /\ DstShard(i) = r)
        BY <2>2, <3>1
      <4> QED
        BY <2>1, <3>1, <4>1, <4>2
    <3>2. CASE via[i] # {b}
      BY <2>2, <3>2 DEF Got, Gave, Part
    <3> QED
      BY <3>1, <3>2
  <2>5. /\ Got(b, r) \in SUBSET TxId /\ Gave(b, r) \in SUBSET TxId
        /\ Got(b, r)' \in SUBSET TxId /\ Gave(b, r)' \in SUBSET TxId
        /\ Part(T, "sigma1", b) \in SUBSET TxId /\ Part(T, "sigma2", b) \in SUBSET TxId
    BY <2>2 DEF Got, Gave, Part
  <2> QED
    BY <2>3, <2>5
<1>6. ASSUME NEW b \in Broker, NEW r \in Shard
      PROVE  \E k \in Nat : Extra(b, r)' = k * BrokerInit
  <2>1. PICK k \in Nat : Extra(b, r) = k * BrokerInit
    BY DEF TrieInv
  <2>2. /\ Got(b, r) \in SUBSET TxId /\ Gave(b, r) \in SUBSET TxId
        /\ Part(T, "sigma1", b) \in SUBSET TxId /\ Part(T, "sigma2", b) \in SUBSET TxId
    BY DEF Got, Gave, Part
  <2> DEFINE g == Total(Got(b, r))
             v == Total(Gave(b, r))
             p == Total(Part(T, "sigma1", b))
             q == Total(Part(T, "sigma2", b))
  <2>3. g \in Nat /\ v \in Nat /\ p \in Nat /\ q \in Nat
    BY <2>2, TotalFacts
  <2>4. BrokerInit \in Nat /\ books[b][r] \in Int /\ balance[r][b] \in Int
    BY BrokerAssumption DEF PromiseInv, BookTypes, Holder
  <2>5. Extra(b, r)' = BrokerInit + balance'[r][b] - Total(Got(b, r)') + Total(Gave(b, r)')
                       - books[b][r]
    BY <1>2 DEF Extra
  <2>6. Extra(b, r) = BrokerInit + balance[r][b] - g + v - books[b][r]
    BY DEF Extra
  <2>7. CASE r # s
    <3>1. Got(b, r)' = Got(b, r) \cup {} /\ Gave(b, r)' = Gave(b, r) \cup {}
      BY <1>5, <2>7
    <3>2. balance'[r][b] = balance[r][b]
      BY <1>1, <2>7 DEF PromiseInv, BookTypes
    <3> QED
      BY <2>1, <2>5, <2>6, <3>1, <3>2
  <2>8. CASE r = s
    <3>1. Total(Got(b, r)') = g + p /\ Total(Gave(b, r)') = v + q
      <4>1. /\ Total(Got(b, r) \cup Part(T, "sigma1", b)) = g + p
            /\ Total(Gave(b, r) \cup Part(T, "sigma2", b)) = v + q
        BY <1>5, <2>2, TotalFacts
      <4>2. /\ Got(b, r)' = Got(b, r) \cup Part(T, "sigma1", b)
            /\ Gave(b, r)' = Gave(b, r) \cup Part(T, "sigma2", b)
        BY <1>5, <2>8
      <4> QED
        BY <4>1, <4>2
    <3>2. balance'[r][b] = AfterCommit(b, balance[r][b] + (p - q))
      <4>1. Change(s, b, T) = p - q
        BY BrokerChange
      <4>2. balance'[s][b] = AfterCommit(b, balance[s][b] + Change(s, b, T))
        BY <1>1 DEF PromiseInv, BookTypes, Holder
      <4> QED
        BY <2>8, <4>1, <4>2
    <3> HIDE DEF g, v, p, q
    <3>3. CASE balance[r][b] + (p - q) = 0 - BrokerInit
      <4>1. balance'[r][b] = 0
        BY <3>2, <3>3 DEF AfterCommit
      <4>2. Extra(b, r)' = Extra(b, r) + BrokerInit
        <5>1. Extra(b, r)' = BrokerInit + 0 - (g + p) + (v + q) - books[b][r]
          BY <2>5, <3>1, <4>1
        <5> QED
          BY <2>3, <2>4, <2>6, <3>3, <5>1
      <4>3. (k + 1) * BrokerInit = k * BrokerInit + BrokerInit
        BY <2>4
      <4> QED
        BY <2>1, <4>2, <4>3
    <3>4. CASE balance[r][b] + (p - q) # 0 - BrokerInit
      <4>1. balance'[r][b] = balance[r][b] + (p - q)
        BY <3>2, <3>4 DEF AfterCommit
      <4>2. Extra(b, r)' = Extra(b, r)
        <5>1. Extra(b, r)' = BrokerInit + (balance[r][b] + (p - q)) - (g + p) + (v + q) - books[b][r]
          BY <2>5, <3>1, <4>1
        <5> QED
          BY <2>3, <2>4, <2>6, <5>1
      <4> QED
        BY <2>1, <4>2
    <3> QED
      BY <3>3, <3>4
  <2> QED
    BY <2>7, <2>8
<1> QED
  BY <1>6 DEF TrieInv

\* Steps in which brokers neither get nor pay.
LEMMA TriesUnchanged ==
  ASSUME TrieInv, UNCHANGED <<books, balance>>,
         \A b \in Broker, s \in Shard : Got(b, s)' = Got(b, s) /\ Gave(b, s)' = Gave(b, s)
  PROVE  TrieInv'
<1>1. \A b \in Broker, s \in Shard : Extra(b, s)' = Extra(b, s)
  BY DEF Extra
<1> QED
  BY <1>1 DEF TrieInv

\* A tick gives brokers only payments that no shard has touched.
LEMMA TickTries ==
  ASSUME BrokerInv, PromiseInv, TrieInv, SupTick
  PROVE  TrieInv'
<1>1. PICK cross \in SUBSET TxId : \E f \in [cross -> {{}} \cup {{b} : b \in Broker}] :
           /\ \A i \in cross : i > read
           /\ via' = [i \in TxId |-> IF i \in cross /\ f[i] # {} THEN f[i] ELSE via[i]]
           /\ stage' = [i \in TxId |-> IF i \in cross /\ f[i] # {} THEN "wait1" ELSE stage[i]]
  BY TickBooks
<1>2. UNCHANGED <<books, balance, done>>
  BY DEF SupTick
<1>3. /\ \A i \in TxId : i \notin cross => stage'[i] = stage[i] /\ via'[i] = via[i]
      /\ \A i \in TxId : i \in cross => /\ stage'[i] = stage[i] \/ stage'[i] = "wait1"
                                        /\ stage[i] = "none" /\ done[i].debit = 0
  BY <1>1 DEF BrokerInv, FileInv
<1>4. ASSUME NEW b \in Broker, NEW s \in Shard
      PROVE  Got(b, s)' = Got(b, s) /\ Gave(b, s)' = Gave(b, s)
  <2>1. \A i \in TxId : /\ via'[i] = {b} /\ stage'[i] = "wait1" /\ done[i].debit = 1
                           <=> via[i] = {b} /\ stage[i] = "wait1" /\ done[i].debit = 1
                        /\ via'[i] = {b} /\ stage'[i] = "wait2" /\ done[i].credit = 1
                           <=> via[i] = {b} /\ stage[i] = "wait2" /\ done[i].credit = 1
    BY <1>3
  <2> QED
    BY <1>2, <2>1 DEF Got, Gave, SrcShard, DstShard, TxId
<1> QED
  BY <1>2, <1>4, TriesUnchanged

\* An info: what is reported goes into the books.
LEMMA ConfirmTries ==
  ASSUME BrokerInv, PromiseInv, TrieInv, NEW m \in infos, HandleBlockInfo(m)
  PROVE  TrieInv'
<1>1. UNCHANGED <<via, balance, done>>
  BY DEF HandleBlockInfo
<1>2. ASSUME NEW b \in Broker, NEW s \in Shard
      PROVE  /\ Got(b, s)' = Got(b, s) \ (IF s = m.shard THEN Conf(m, "sigma1", b) ELSE {})
             /\ Gave(b, s)' = Gave(b, s) \ (IF s = m.shard THEN Conf(m, "sigma2", b) ELSE {})
             /\ s = m.shard => /\ Conf(m, "sigma1", b) \in SUBSET Got(b, s)
                               /\ Conf(m, "sigma2", b) \in SUBSET Gave(b, s)
  <2>1. ASSUME NEW i \in TxId
        PROVE  /\ stage'[i] = "wait1" <=> (stage[i] = "wait1" /\ i \notin Confirmed(m, "sigma1"))
               /\ (stage'[i] = "wait2" /\ done[i].credit = 1)
                  <=> (stage[i] = "wait2" /\ done[i].credit = 1 /\ i \notin Confirmed(m, "sigma2"))
    <3>1. i \in Confirmed(m, "sigma1") => stage[i] = "wait1" /\ done[i].credit = 0
      BY ConfirmBooks DEF BrokerInv, FileInv
    <3>2. i \in Confirmed(m, "sigma2") => stage[i] = "wait2"
      BY ConfirmBooks
    <3>3. stage'[i] = IF i \in Confirmed(m, "sigma1") THEN "wait2"
                      ELSE IF i \in Confirmed(m, "sigma2") THEN "none" ELSE stage[i]
      BY ConfirmBooks
    <3> QED
      BY <3>1, <3>2, <3>3
  <2>2. /\ \A i \in Confirmed(m, "sigma1") : SrcShard(i) = m.shard
        /\ \A i \in Confirmed(m, "sigma2") : DstShard(i) = m.shard
    BY ConfirmBooks
  <2>3. /\ Got(b, s)' = {i \in TxId : via[i] = {b} /\ stage'[i] = "wait1" /\ done[i].debit = 1
                                     /\ SrcShard(i) = s}
        /\ Gave(b, s)' = {i \in TxId : via[i] = {b} /\ stage'[i] = "wait2" /\ done[i].credit = 1
                                      /\ DstShard(i) = s}
    BY <1>1 DEF Got, Gave, SrcShard, DstShard, TxId
  <2>4. Got(b, s)' = Got(b, s) \ (IF s = m.shard THEN Conf(m, "sigma1", b) ELSE {})
    BY <2>1, <2>2, <2>3 DEF Got, Conf
  <2>5. Gave(b, s)' = Gave(b, s) \ (IF s = m.shard THEN Conf(m, "sigma2", b) ELSE {})
    BY <2>1, <2>2, <2>3 DEF Gave, Conf
  <2>6. s = m.shard => /\ Conf(m, "sigma1", b) \in SUBSET Got(b, s)
                       /\ Conf(m, "sigma2", b) \in SUBSET Gave(b, s)
    BY ConfirmBooks DEF Got, Gave, Conf
  <2> QED
    BY <2>4, <2>5, <2>6
<1>3. ASSUME NEW b \in Broker, NEW s \in Shard
      PROVE  Extra(b, s)' = Extra(b, s)
  <2>1. Extra(b, s)' = BrokerInit + balance[s][b] - Total(Got(b, s)') + Total(Gave(b, s)')
                       - books'[b][s]
    BY <1>1 DEF Extra
  <2>2. Got(b, s) \in SUBSET TxId /\ Gave(b, s) \in SUBSET TxId
    BY DEF Got, Gave
  <2>3. CASE s # m.shard
    <3>1. Got(b, s)' = Got(b, s) \ {} /\ Gave(b, s)' = Gave(b, s) \ {}
      BY <1>2, <2>3
    <3>2. books'[b][s] = books[b][s]
      BY <2>3, ConfirmBooks
    <3> QED
      BY <2>1, <3>1, <3>2 DEF Extra
  <2>4. CASE s = m.shard
    <3> DEFINE g == Total(Got(b, s))
               v == Total(Gave(b, s))
               p == Total(Conf(m, "sigma1", b))
               q == Total(Conf(m, "sigma2", b))
    <3>1. /\ Conf(m, "sigma1", b) \in SUBSET Got(b, s) /\ Conf(m, "sigma1", b) \in SUBSET TxId
          /\ Conf(m, "sigma2", b) \in SUBSET Gave(b, s) /\ Conf(m, "sigma2", b) \in SUBSET TxId
      BY <1>2, <2>2, <2>4
    <3>2. g \in Nat /\ v \in Nat /\ p \in Nat /\ q \in Nat
      BY <2>2, <3>1, TotalFacts
    <3>3. /\ Total(Got(b, s) \ Conf(m, "sigma1", b)) = g - p
          /\ Total(Gave(b, s) \ Conf(m, "sigma2", b)) = v - q
      BY <2>2, <3>1, TotalFacts
    <3>4. /\ Got(b, s)' = Got(b, s) \ Conf(m, "sigma1", b)
          /\ Gave(b, s)' = Gave(b, s) \ Conf(m, "sigma2", b)
      BY <1>2, <2>4
    <3>5. books'[b][s] = books[b][s] + p - q
      BY <2>4, ConfirmBooks
    <3>6. BrokerInit \in Nat /\ books[b][s] \in Int /\ balance[s][b] \in Int
      BY BrokerAssumption DEF PromiseInv, BookTypes, Holder
    <3>7. Extra(b, s)' = BrokerInit + balance[s][b] - (g - p) + (v - q) - (books[b][s] + p - q)
      BY <2>1, <3>3, <3>4, <3>5
    <3>8. Extra(b, s) = BrokerInit + balance[s][b] - g + v - books[b][s]
      BY DEF Extra
    <3> HIDE DEF g, v, p, q
    <3> QED
      BY <3>2, <3>6, <3>7, <3>8
  <2> QED
    BY <2>3, <2>4
<1> QED
  BY <1>3 DEF TrieInv

\* Steps that keep the infos, or lose one.
LEMMA ReportsUnchanged ==
  ASSUME ReportInv, UNCHANGED <<stage, done>>, infos' \subseteq infos,
         lost' \in Nat, lost' = 0 => lost = 0 /\ infos' = infos
  PROVE  ReportInv'
  BY DEF ReportInv, OnFile, ByBroker, TxId

\* A tick waits for no info that is under way already.
LEMMA TickReports ==
  ASSUME BrokerInv, ReportInv, SupTick
  PROVE  ReportInv'
<1>1. PICK cross \in SUBSET TxId : \E f \in [cross -> {{}} \cup {{b} : b \in Broker}] :
           /\ \A i \in cross : i > read
           /\ via' = [i \in TxId |-> IF i \in cross /\ f[i] # {} THEN f[i] ELSE via[i]]
           /\ stage' = [i \in TxId |-> IF i \in cross /\ f[i] # {} THEN "wait1" ELSE stage[i]]
  BY TickBooks
<1>2. UNCHANGED <<infos, lost, done>>
  BY DEF SupTick
<1>3. /\ \A i \in TxId : stage[i] # "none" => stage'[i] = stage[i]
      /\ \A i \in TxId : stage'[i] # stage[i] => stage'[i] = "wait1" /\ done[i].debit = 0
  BY <1>1 DEF BrokerInv, FileInv
<1>4. \A m \in infos : \A t \in m.txs : t.id \in TxId
  BY DEF BrokerInv, FileTypes, Tx
<1>5. \A m \in infos : \A t \in m.txs : t.kind \in ByBroker => stage'[t.id] = OnFile[t.kind]
  BY <1>3, <1>4 DEF ReportInv, OnFile, ByBroker
<1>6. ASSUME NEW i \in TxId
      PROVE  /\ stage'[i] = "wait1" /\ done[i].debit = 1 => stage[i] = "wait1"
             /\ stage'[i] = "wait2" => stage[i] = "wait2"
  BY <1>3
<1> QED
  BY <1>2, <1>5, <1>6 DEF ReportInv, OnFile, ByBroker, TxId

\* An info that is handled was the only one of its halves.
LEMMA ConfirmReports ==
  ASSUME BrokerInv, PromiseInv, ReportInv, NEW m \in infos, HandleBlockInfo(m)
  PROVE  ReportInv'
<1>1. UNCHANGED <<via, done, lost>> /\ infos' = infos \ {m}
  BY DEF HandleBlockInfo
<1>2. \A k \in infos : \A t \in k.txs : t \in Tx /\ t.id \in TxId /\ t = [id |-> t.id, kind |-> t.kind]
  BY DEF BrokerInv, FileTypes, Tx
<1>3. /\ \A i \in Confirmed(m, "sigma1") : /\ [id |-> i, kind |-> "sigma1"] \in m.txs
                                           /\ stage[i] = "wait1" /\ done[i].credit = 0
      /\ \A i \in Confirmed(m, "sigma2") : /\ [id |-> i, kind |-> "sigma2"] \in m.txs
                                           /\ stage[i] = "wait2"
  <2>1. \A i \in Confirmed(m, "sigma1") : i \in TxId /\ [id |-> i, kind |-> "sigma1"] \in m.txs
                                          /\ stage[i] = "wait1"
    BY <1>2 DEF Confirmed
  <2>2. \A i \in Confirmed(m, "sigma2") : [id |-> i, kind |-> "sigma2"] \in m.txs /\ stage[i] = "wait2"
    BY <1>2 DEF Confirmed
  <2> QED
    BY <2>1, <2>2 DEF BrokerInv, FileInv
<1>4. \A i \in TxId : stage'[i] = IF i \in Confirmed(m, "sigma1") THEN "wait2"
                                  ELSE IF i \in Confirmed(m, "sigma2") THEN "none" ELSE stage[i]
  BY ConfirmBooks
<1>5. ASSUME NEW k \in infos', NEW t \in k.txs, t.kind \in ByBroker
      PROVE  stage'[t.id] = OnFile[t.kind]
  <2>1. k \in infos /\ k # m /\ t.id \in TxId /\ t = [id |-> t.id, kind |-> t.kind]
    BY <1>1, <1>2
  <2>2. stage[t.id] = OnFile[t.kind] /\ t \notin m.txs
    BY <1>5, <2>1 DEF ReportInv
  <2>3. t.id \notin Confirmed(m, "sigma1") /\ t.id \notin Confirmed(m, "sigma2")
    <3>1. \/ t.kind = "sigma1" /\ stage[t.id] = "wait1"
          \/ t.kind = "sigma2" /\ stage[t.id] = "wait2"
      BY <1>5, <2>2 DEF ByBroker, OnFile
    <3> QED
      BY <1>3, <2>1, <2>2, <3>1
  <2> QED
    BY <1>4, <2>1, <2>2, <2>3
<1>6. \A k, l \in infos' : \A t \in k.txs : t \in l.txs /\ t.kind \in ByBroker => k = l
  BY <1>1 DEF ReportInv
<1>7. ASSUME lost = 0, NEW i \in TxId
      PROVE  /\ stage'[i] = "wait1" /\ done[i].debit = 1 =>
                  \E k \in infos' : [id |-> i, kind |-> "sigma1"] \in k.txs
             /\ stage'[i] = "wait2" /\ done[i].credit = 1 =>
                  \E k \in infos' : [id |-> i, kind |-> "sigma2"] \in k.txs
  <2>1. ASSUME stage'[i] = "wait1", done[i].debit = 1
        PROVE  \E k \in infos' : [id |-> i, kind |-> "sigma1"] \in k.txs
    <3>1. stage[i] = "wait1" /\ i \notin Confirmed(m, "sigma1")
      BY <1>4, <2>1
    <3>2. PICK k \in infos : [id |-> i, kind |-> "sigma1"] \in k.txs
      BY <1>7, <2>1, <3>1 DEF ReportInv
    <3>3. k # m
      BY <3>1, <3>2 DEF Confirmed
    <3> QED
      BY <1>1, <3>2, <3>3
  <2>2. ASSUME stage'[i] = "wait2", done[i].credit = 1
        PROVE  \E k \in infos' : [id |-> i, kind |-> "sigma2"] \in k.txs
    <3>1. stage[i] = "wait2" /\ i \notin Confirmed(m, "sigma2")
      <4>1. i \notin Confirmed(m, "sigma1")
        <5>1. i \in Confirmed(m, "sigma1") => done[i].credit = 0
          BY <1>3
        <5> QED
          BY <2>2, <5>1
      <4> QED
        BY <1>4, <2>2, <4>1
    <3>2. PICK k \in infos : [id |-> i, kind |-> "sigma2"] \in k.txs
      BY <1>7, <2>2, <3>1 DEF ReportInv
    <3>3. k # m
      BY <3>1, <3>2 DEF Confirmed
    <3> QED
      BY <1>1, <3>2, <3>3
  <2> QED
    BY <2>1, <2>2
<1> QED
  BY <1>1, <1>5, <1>6, <1>7 DEF ReportInv, OnFile, ByBroker, TxId

\* A block with transactions is reported.
LEMMA CommitReports ==
  ASSUME BrokerInv, ReportInv, NEW s \in Shard, CommitBlock(s)
  PROVE  ReportInv'
<1>1. PICK T \in SUBSET pool[s] :
        /\ \/ T # {} /\ infos' = infos \cup {[shard |-> s, txs |-> T]}
           \/ T = {} /\ infos' = infos
        /\ done' = [i \in TxId |->
             LET debits  == {t \in T : t.id = i /\ Pay[i].from \in Payers(s, t)}
                 credits == {t \in T : t.id = i /\ Pay[i].to \in Receivers(s, t)}
             IN  [debit  |-> done[i].debit + Cardinality(debits),
                  credit |-> done[i].credit + Cardinality(credits)]]
        /\ UNCHANGED <<supVars, lost>>
  BY DEF CommitBlock
<1>2. UNCHANGED <<stage, lost>>
  BY <1>1 DEF supVars
<1>3. \A i \in TxId : ~Has(T, i) => done'[i] = done[i]
  BY <1>1, DoneFacts
<1>4. \A t \in T : t = [id |-> t.id, kind |-> t.kind] /\ t.id \in TxId /\ Expected(t)
                   /\ t.kind \in {"inner", "sigma1", "sigma2", "relay1", "relay2"}
  BY DEF BrokerInv, FileTypes, ExpectedInv, Tx
<1>5. \A k \in infos' : k \in infos \/ (k = [shard |-> s, txs |-> T] /\ k.txs = T)
  BY <1>1
<1>6. \A k \in infos' : \A t \in k.txs : t.kind \in ByBroker => stage[t.id] = OnFile[t.kind]
  BY <1>4, <1>5 DEF ReportInv, Expected
<1>7. \A k \in infos : \A t \in k.txs : t.kind \in ByBroker => t \notin T
  <2>1. ASSUME NEW k \in infos, NEW t \in k.txs, t.kind \in ByBroker, t \in T PROVE FALSE
    <3>1. /\ t.kind = "sigma1" => done[t.id].debit = 1
          /\ t.kind = "sigma2" => done[t.id].credit = 1
      BY <2>1 DEF BrokerInv, InfoInv
    <3>2. done[t.id].credit = 0 /\ done[t.id].debit = IF t.kind \in Second THEN 1 ELSE 0
      BY <1>4, <2>1 DEF Expected
    <3> QED
      BY <2>1, <3>1, <3>2 DEF ByBroker, Second
  <2> QED
    BY <2>1
<1>8. \A k, l \in infos' : \A t \in k.txs : t \in l.txs /\ t.kind \in ByBroker => k = l
  BY <1>5, <1>7 DEF ReportInv
<1>9. ASSUME lost = 0, NEW i \in TxId
      PROVE  /\ stage[i] = "wait1" /\ done'[i].debit = 1 =>
                  \E k \in infos' : [id |-> i, kind |-> "sigma1"] \in k.txs
             /\ stage[i] = "wait2" /\ done'[i].credit = 1 =>
                  \E k \in infos' : [id |-> i, kind |-> "sigma2"] \in k.txs
  <2>1. CASE Has(T, i)
    <3>1. PICK t \in T : t.id = i
      BY <2>1 DEF Has
    <3>2. [shard |-> s, txs |-> T] \in infos'
      BY <1>1, <3>1
    <3>3. \E k \in infos' : t \in k.txs
      BY <3>1, <3>2
    <3>4. /\ stage[i] = "wait1" => t = [id |-> i, kind |-> "sigma1"]
          /\ stage[i] = "wait2" => t = [id |-> i, kind |-> "sigma2"]
      BY <1>4, <3>1 DEF Expected, OnFile
    <3> QED
      BY <3>3, <3>4
  <2>2. CASE ~Has(T, i)
    <3>1. done'[i] = done[i] /\ infos \subseteq infos'
      BY <1>1, <1>3, <2>2
    <3> QED
      BY <1>9, <3>1 DEF ReportInv
  <2> QED
    BY <2>1, <2>2
<1> QED
  BY <1>2, <1>6, <1>8, <1>9 DEF ReportInv, OnFile, ByBroker, TxId

\* Every step keeps the books and the tries together.
LEMMA NextBooks ==
  ASSUME OrdinarySource
  PROVE  BrokerInv /\ PromiseInv /\ TrieInv /\ ReportInv /\ [Next]_vars => TrieInv' /\ ReportInv'
<1> SUFFICES ASSUME BrokerInv, PromiseInv, TrieInv, ReportInv, [Next]_vars
             PROVE  TrieInv' /\ ReportInv'
  OBVIOUS
<1>1. CASE SupTick
  BY <1>1, TickTries, TickReports
<1>2. ASSUME UNCHANGED <<books, via, stage, balance, done>>, infos' \subseteq infos,
             lost' \in Nat, lost' = 0 => lost = 0 /\ infos' = infos
      PROVE  TrieInv' /\ ReportInv'
  <2>1. \A b \in Broker, s \in Shard : Got(b, s)' = Got(b, s) /\ Gave(b, s)' = Gave(b, s)
    BY <1>2 DEF Got, Gave, SrcShard, DstShard, TxId
  <2> QED
    BY <1>2, <2>1, TriesUnchanged, ReportsUnchanged
<1>3. lost \in Nat /\ lost + 1 \in Nat /\ lost + 1 # 0
  BY DEF ReportInv
<1>4. CASE HandleEmptyInfo
  BY <1>2, <1>3, <1>4 DEF HandleEmptyInfo
<1>5. ASSUME NEW m \in infos, HandleBlockInfo(m) PROVE TrieInv' /\ ReportInv'
  BY <1>5, ConfirmTries, ConfirmReports
<1>6. ASSUME NEW m \in infos, LoseInfo(m) PROVE TrieInv' /\ ReportInv'
  BY <1>2, <1>3, <1>6 DEF LoseInfo, supVars
<1>7. ASSUME NEW s \in Shard, CommitBlock(s) PROVE TrieInv' /\ ReportInv'
  BY <1>7, CommitTries, CommitReports
<1>8. ASSUME NEW s \in Shard, NEW m \in txMsgs, HandleReceiveTxs(s, m)
      PROVE  TrieInv' /\ ReportInv'
  BY <1>2, <1>3, <1>8 DEF HandleReceiveTxs, supVars
<1>9. ASSUME NEW m \in txMsgs, LoseTxs(m) PROVE TrieInv' /\ ReportInv'
  BY <1>2, <1>3, <1>9 DEF LoseTxs, supVars
<1>10. CASE UNCHANGED vars
  BY <1>2, <1>3, <1>10 DEF vars, supVars
<1> QED
  BY <1>1, <1>4, <1>5, <1>6, <1>7, <1>8, <1>9, <1>10 DEF Next

\* At the start the books are the initial balances.
LEMMA InitBooks == Init => TrieInv /\ ReportInv
<1> SUFFICES ASSUME Init PROVE TrieInv /\ ReportInv
  OBVIOUS
<1>1. ReportInv
  BY DEF Init, ReportInv
<1>2. ASSUME NEW b \in Broker, NEW s \in Shard PROVE Extra(b, s) = 0 * BrokerInit
  <2>1. Got(b, s) = {} /\ Gave(b, s) = {}
    BY DEF Init, Got, Gave
  <2>2. balance[s][b] = 0 /\ books[b][s] = BrokerInit
    BY DEF Init, Holder
  <2>3. Extra(b, s) = BrokerInit + 0 - 0 + 0 - BrokerInit
    BY <2>1, <2>2, TotalFacts DEF Extra
  <2>4. BrokerInit \in Nat
    BY BrokerAssumption
  <2> QED
    BY <2>3, <2>4
<1>3. TrieInv
  BY <1>2 DEF TrieInv
<1> QED
  BY <1>1, <1>3

\* The invariant about money holds, when the source has no payment of a broker.
LEMMA BooksInvariance ==
  ASSUME OrdinarySource
  PROVE  Spec => [](BrokerInv /\ PromiseInv /\ TrieInv /\ ReportInv)
<1>1. Init => BrokerInv /\ PromiseInv /\ TrieInv /\ ReportInv
  BY InitInv, InitPromises, InitBooks
<1>2. BrokerInv /\ PromiseInv /\ TrieInv /\ ReportInv /\ [Next]_vars
      => (BrokerInv /\ PromiseInv /\ TrieInv /\ ReportInv)'
  BY NextInv, NextPromises, NextBooks
<1> QED
  BY <1>1, <1>2, PTL DEF Spec

\* The books of the supervisor follow the state tries of the shards when no
\* message is lost and no broker is in the source (HandleMsg of staticbroker.go,
\* brokerTxExecute, and the deletion of empty accounts).
THEOREM BooksFollowTries ==
  ASSUME OrdinarySource
  PROVE  Spec => []BooksAgree
<1>1. BrokerInv /\ PromiseInv /\ TrieInv /\ ReportInv => BooksAgree
  <2> SUFFICES ASSUME BrokerInv, PromiseInv, TrieInv, ReportInv, lost = 0,
                      NEW b \in Broker, NEW s \in Shard
               PROVE  Surplus(b, s) >= 0 /\ Surplus(b, s) % BrokerInit = 0
    BY DEF BooksAgree
  <2>1. \A m \in infos : \A t \in m.txs :
          /\ t = [id |-> t.id, kind |-> t.kind] /\ t.id \in TxId
          /\ t.kind = "sigma1" => SrcShard(t.id) = m.shard
          /\ t.kind = "sigma2" => DstShard(t.id) = m.shard
    BY DEF BrokerInv, FileTypes, PromiseInv, BookTypes, Tx, TxLoc
  <2>2. \A kind, i : i \in InInfos(kind, b, s) <=>
                       \E m \in infos : /\ m.shard = s
                                        /\ \E t \in m.txs : t.id = i /\ t.kind = kind /\ via[i] = {b}
    BY DEF InInfos, Of
  <2>3. ASSUME NEW i PROVE i \in InInfos("sigma1", b, s) <=> i \in Got(b, s)
    <3>1. ASSUME i \in InInfos("sigma1", b, s) PROVE i \in Got(b, s)
      <4>1. PICK m \in infos : m.shard = s /\ \E t \in m.txs : t.id = i /\ t.kind = "sigma1" /\ via[i] = {b}
        BY <2>2, <3>1
      <4>2. PICK t \in m.txs : t.id = i /\ t.kind = "sigma1" /\ via[i] = {b}
        BY <4>1
      <4>3. stage[i] = "wait1" /\ done[i].debit = 1
        BY <4>2 DEF ReportInv, ByBroker, OnFile, BrokerInv, InfoInv
      <4> QED
        BY <2>1, <4>1, <4>2, <4>3 DEF Got
    <3>2. ASSUME i \in Got(b, s) PROVE i \in InInfos("sigma1", b, s)
      <4>1. i \in TxId /\ via[i] = {b} /\ stage[i] = "wait1" /\ done[i].debit = 1 /\ SrcShard(i) = s
        BY <3>2 DEF Got
      <4>2. PICK m \in infos : [id |-> i, kind |-> "sigma1"] \in m.txs
        BY <4>1 DEF ReportInv
      <4>3. m.shard = s
        BY <2>1, <4>1, <4>2
      <4> QED
        BY <2>2, <4>1, <4>2, <4>3
    <3> QED
      BY <3>1, <3>2
  <2>4. ASSUME NEW i PROVE i \in InInfos("sigma2", b, s) <=> i \in Gave(b, s)
    <3>1. ASSUME i \in InInfos("sigma2", b, s) PROVE i \in Gave(b, s)
      <4>1. PICK m \in infos : m.shard = s /\ \E t \in m.txs : t.id = i /\ t.kind = "sigma2" /\ via[i] = {b}
        BY <2>2, <3>1
      <4>2. PICK t \in m.txs : t.id = i /\ t.kind = "sigma2" /\ via[i] = {b}
        BY <4>1
      <4>3. stage[i] = "wait2" /\ done[i].credit = 1
        BY <4>2 DEF ReportInv, ByBroker, OnFile, BrokerInv, InfoInv
      <4> QED
        BY <2>1, <4>1, <4>2, <4>3 DEF Gave
    <3>2. ASSUME i \in Gave(b, s) PROVE i \in InInfos("sigma2", b, s)
      <4>1. i \in TxId /\ via[i] = {b} /\ stage[i] = "wait2" /\ done[i].credit = 1 /\ DstShard(i) = s
        BY <3>2 DEF Gave
      <4>2. PICK m \in infos : [id |-> i, kind |-> "sigma2"] \in m.txs
        BY <4>1 DEF ReportInv
      <4>3. m.shard = s
        BY <2>1, <4>1, <4>2
      <4> QED
        BY <2>2, <4>1, <4>2, <4>3
    <3> QED
      BY <3>1, <3>2
  <2>5. InInfos("sigma1", b, s) = Got(b, s) /\ InInfos("sigma2", b, s) = Gave(b, s)
    BY <2>3, <2>4
  <2> DEFINE g == Total(Got(b, s))
             v == Total(Gave(b, s))
  <2>6. g \in Nat /\ v \in Nat
    <3>1. Got(b, s) \in SUBSET TxId /\ Gave(b, s) \in SUBSET TxId
      BY DEF Got, Gave
    <3> QED
      BY <3>1, TotalFacts
  <2>7. /\ BrokerInit \in Nat \ {0} /\ books[b][s] \in Int /\ balance[s][b] \in Int
    BY BrokerAssumption DEF PromiseInv, BookTypes, Holder
  <2>8. Surplus(b, s) = BrokerInit + balance[s][b] - books[b][s] - (g - v)
    BY <2>5 DEF Surplus, Unreported
  <2>9. PICK k \in Nat : Extra(b, s) = k * BrokerInit
    BY DEF TrieInv
  <2>10. Extra(b, s) = BrokerInit + balance[s][b] - g + v - books[b][s]
    BY DEF Extra
  <2> HIDE DEF g, v
  <2>11. Surplus(b, s) = k * BrokerInit
    BY <2>6, <2>7, <2>8, <2>9, <2>10
  <2>12. k * BrokerInit >= 0 /\ (k * BrokerInit) % BrokerInit = 0
    BY <2>7
  <2> QED
    BY <2>11, <2>12
<1> QED
  BY <1>1, BooksInvariance, PTL

\* brokerTxExecute never takes more from a broker than it has in the shard,
\* whatever is lost: the unsigned balance does not wrap around.
THEOREM BrokersCanPay ==
  ASSUME OrdinarySource
  PROVE  Spec => []BrokerCanPay
<1>1. BrokerInv /\ PromiseInv /\ TrieInv /\ ReportInv => BrokerCanPay
  <2> SUFFICES ASSUME BrokerInv, PromiseInv, TrieInv, NEW b \in Broker, NEW s \in Shard
               PROVE  BrokerInit + balance[s][b] >= 0
    BY DEF BrokerCanPay
  <2>1. /\ Got(b, s) \in SUBSET TxId /\ Gave(b, s) \in SUBSET TxId
        /\ Promised(b, s) \in SUBSET TxId /\ Gave(b, s) \subseteq Promised(b, s)
    BY DEF Got, Gave, Promised
  <2> DEFINE g == Total(Got(b, s))
             v == Total(Gave(b, s))
             p == Total(Promised(b, s))
  <2>2. g \in Nat /\ v \in Nat /\ p \in Nat
    BY <2>1, TotalFacts
  <2>3. v <= p
    <3>1. Total(Promised(b, s) \ Gave(b, s)) = p - v /\ Promised(b, s) \ Gave(b, s) \in SUBSET TxId
      BY <2>1, TotalFacts
    <3>2. Total(Promised(b, s) \ Gave(b, s)) \in Nat
      BY <3>1, TotalFacts
    <3> HIDE DEF v, p
    <3> QED
      BY <2>2, <3>1, <3>2
  <2>4. BrokerInit \in Nat /\ books[b][s] \in Int /\ balance[s][b] \in Int
    BY BrokerAssumption DEF PromiseInv, BookTypes, Holder
  <2>5. p <= books[b][s]
    BY DEF PromiseInv, PendingIsPromised, Solvent, Promised
  <2>6. PICK k \in Nat : Extra(b, s) = k * BrokerInit
    BY DEF TrieInv
  <2>7. Extra(b, s) = BrokerInit + balance[s][b] - g + v - books[b][s]
    BY DEF Extra
  <2>8. k * BrokerInit \in Nat
    BY <2>4
  <2> HIDE DEF g, v, p
  <2> QED
    BY <2>2, <2>3, <2>4, <2>5, <2>6, <2>7, <2>8
<1> QED
  BY <1>1, BooksInvariance, PTL

-----------------------------------------------------------------------------
(* The measurement. *)

\* The transactions that end a payment no broker makes.
Direct == {"inner", "relay2"}

\* A transaction the measurement counts is reported in one info. One that ends a
\* payment is credited, and the payment has no line yet.
CountedOnce ==
  /\ \A m, k \in infos : \A t \in m.txs, u \in k.txs :
       t.id = u.id /\ t.kind # "relay1" /\ u.kind # "relay1" => m = k /\ t = u
  /\ \A m \in infos : \A t \in m.txs :
       t.kind \in Direct => /\ done[t.id].credit = 1 /\ via[t.id] = {}
                            /\ written[t.id]["InnerShard"] = 0
                            /\ written[t.id]["FallbackToRelay"] = 0

\* The records of a payment follow the manager of the brokers: the first half is
\* on file while the second is awaited, and the line comes with the second. A
\* payment without a broker has one line at most, and only when it is credited.
RecordOf(i) ==
  /\ txLifecycles[i] = IF stage[i] = "wait2" THEN {"sigma1"} ELSE {}
  /\ written[i]["Broker"] = IF via[i] # {} /\ stage[i] = "none" THEN 1 ELSE 0
  /\ \/ written[i]["InnerShard"] = 0 /\ written[i]["FallbackToRelay"] = 0
     \/ /\ via[i] = {} /\ done[i].credit = 1
        /\ \/ written[i]["InnerShard"] = 1 /\ written[i]["FallbackToRelay"] = 0
           \/ written[i]["InnerShard"] = 0 /\ written[i]["FallbackToRelay"] = 1

RecordsInv ==
  /\ written \in [TxId -> [Mechanism -> Nat]]
  /\ \A i \in TxId : RecordOf(i)

\* The lines of one mechanism, and the first halves that were confirmed.
LinesBy(x) == [i \in TxId |-> written[i][x]]
FirstDone  == [i \in TxId |-> IF via[i] # {} /\ stage[i] # "wait1" THEN 1 ELSE 0]

TotalsInv ==
  /\ txNum["inner"]  = SumOf(LinesBy("InnerShard"), TxId)
  /\ txNum["relay2"] = SumOf(LinesBy("FallbackToRelay"), TxId)
  /\ txNum["sigma2"] = SumOf(LinesBy("Broker"), TxId)
  /\ txNum["sigma1"] = SumOf(FirstDone, TxId)

ResultsInv == CountedOnce /\ RecordsInv /\ TotalsInv

\* Nothing is measured at the start.
LEMMA ResultsStart == StatsInit => ResultsInv
<1> SUFFICES ASSUME StatsInit PROVE ResultsInv
  OBVIOUS
<1>1. /\ infos = {} /\ via = [i \in TxId |-> {}] /\ stage = [i \in TxId |-> "none"]
      /\ txLifecycles = [i \in TxId |-> {}]
      /\ written = [i \in TxId |-> [x \in Mechanism |-> 0]]
      /\ txNum = [k \in Counted |-> 0]
  BY DEF StatsInit, Init
<1>2. CountedOnce
  BY <1>1 DEF CountedOnce
<1>3. RecordsInv
  BY <1>1 DEF RecordsInv, RecordOf, Mechanism
<1>4. \A x \in Mechanism : \A i \in TxId : LinesBy(x)[i] = 0
  BY <1>1 DEF LinesBy, Mechanism
<1>5. \A i \in TxId : FirstDone[i] = 0
  BY <1>1 DEF FirstDone
<1>6. ASSUME NEW v, \A i \in TxId : v[i] = 0 PROVE SumOf(v, TxId) = 0
  <2>1. IsFiniteSet(TxId) /\ 0 \in Int
    BY ValueFacts
  <2>2. SumOf(v, TxId) = Cardinality(TxId) * 0
    BY <1>6, <2>1, SumConst
  <2>3. Cardinality(TxId) \in Nat
    BY <2>1, FS_CardinalityType
  <2> QED
    BY <2>2, <2>3
<1>7. TotalsInv
  <2>1. \A x \in Mechanism : SumOf(LinesBy(x), TxId) = 0
    BY <1>4, <1>6
  <2>2. SumOf(FirstDone, TxId) = 0
    BY <1>5, <1>6
  <2> QED
    BY <1>1, <2>1, <2>2 DEF TotalsInv, Counted, Mechanism
<1> QED
  BY <1>2, <1>3, <1>7 DEF ResultsInv

\* The records and counters stay, and so does the progress of every payment.
LEMMA TotalsKept ==
  ASSUME TotalsInv, UNCHANGED statVars,
         \A i \in TxId : FirstDone'[i] = FirstDone[i]
  PROVE  TotalsInv'
<1>1. UNCHANGED <<written, txNum>>
  BY DEF statVars
<1>2. \A x : LinesBy(x)' = LinesBy(x)
  BY <1>1 DEF LinesBy, TxId
<1>3. SumOf(FirstDone', TxId) = SumOf(FirstDone, TxId)
  BY ValueFacts, SumSame
<1>4. TotalsInv' <=> /\ txNum'["inner"]  = SumOf(LinesBy("InnerShard")', TxId)
                     /\ txNum'["relay2"] = SumOf(LinesBy("FallbackToRelay")', TxId)
                     /\ txNum'["sigma2"] = SumOf(LinesBy("Broker")', TxId)
                     /\ txNum'["sigma1"] = SumOf(FirstDone', TxId)
  BY DEF TotalsInv, TxId
<1> QED
  BY <1>1, <1>2, <1>3, <1>4 DEF TotalsInv

\* Steps that confirm nothing and commit nothing.
LEMMA ResultsUnchanged ==
  ASSUME ResultsInv, UNCHANGED <<via, stage, done, statVars>>, infos' \subseteq infos
  PROVE  ResultsInv'
<1>1. UNCHANGED <<txLifecycles, written, txNum>>
  BY DEF statVars
<1>2. CountedOnce'
  BY <1>1 DEF ResultsInv, CountedOnce, Direct
<1>3. RecordsInv'
  BY <1>1 DEF ResultsInv, RecordsInv, RecordOf, Mechanism, TxId
<1>4. TotalsInv'
  <2>1. FirstDone' = FirstDone
    BY DEF FirstDone, TxId
  <2> QED
    BY <2>1, TotalsKept DEF ResultsInv
<1> QED
  BY <1>2, <1>3, <1>4 DEF ResultsInv

\* A tick gives brokers to payments of which nothing is reported yet.
LEMMA ResultsTick ==
  ASSUME BrokerInv, ResultsInv, SupTick, UNCHANGED statVars
  PROVE  ResultsInv'
<1>1. PICK cross \in SUBSET TxId : \E f \in [cross -> {{}} \cup {{b} : b \in Broker}] :
           /\ \A i \in cross : i > read
           /\ via' = [i \in TxId |-> IF i \in cross /\ f[i] # {} THEN f[i] ELSE via[i]]
           /\ stage' = [i \in TxId |-> IF i \in cross /\ f[i] # {} THEN "wait1" ELSE stage[i]]
  BY TickBooks
<1>2. UNCHANGED <<infos, done, txLifecycles, written, txNum>>
  BY DEF SupTick, statVars
<1>3. ASSUME NEW i \in TxId
      PROVE  \/ via'[i] = via[i] /\ stage'[i] = stage[i]
             \/ /\ via[i] = {} /\ stage[i] = "none" /\ done[i].credit # 1
                /\ via'[i] # {} /\ stage'[i] = "wait1"
  <2>1. i > read => via[i] = {} /\ stage[i] = "none" /\ done[i].credit # 1
    BY DEF BrokerInv, FileInv, FileTypes
  <2> QED
    BY <1>1, <2>1
<1>4. \A m \in infos : \A t \in m.txs : t.id \in TxId
  BY DEF BrokerInv, FileTypes, Tx
<1>5. CountedOnce'
  BY <1>2, <1>3, <1>4 DEF ResultsInv, CountedOnce, Direct
<1>6. RecordsInv'
  <2>1. ASSUME NEW i \in TxId PROVE RecordOf(i)'
    <3>1. RecordOf(i)
      BY DEF ResultsInv, RecordsInv
    <3> QED
      BY <1>2, <1>3, <3>1 DEF RecordOf
  <2> QED
    BY <1>2, <2>1 DEF ResultsInv, RecordsInv, Mechanism, TxId
<1>7. TotalsInv'
  <2>1. \A i \in TxId : FirstDone'[i] = FirstDone[i]
    BY <1>3 DEF FirstDone, TxId
  <2> QED
    BY <2>1, TotalsKept DEF ResultsInv
<1> QED
  BY <1>5, <1>6, <1>7 DEF ResultsInv

\* A block reports what was neither credited nor reported before.
LEMMA ResultsCommit ==
  ASSUME BrokerInv, ReportInv, ResultsInv, NEW s \in Shard, CommitBlock(s), UNCHANGED statVars
  PROVE  ResultsInv'
<1>1. PICK T \in SUBSET pool[s] :
        /\ \/ T # {} /\ infos' = infos \cup {[shard |-> s, txs |-> T]}
           \/ T = {} /\ infos' = infos
        /\ done' = [i \in TxId |->
             LET debits  == {t \in T : t.id = i /\ Pay[i].from \in Payers(s, t)}
                 credits == {t \in T : t.id = i /\ Pay[i].to \in Receivers(s, t)}
             IN  [debit  |-> done[i].debit + Cardinality(debits),
                  credit |-> done[i].credit + Cardinality(credits)]]
        /\ UNCHANGED <<supVars, lost>>
  BY DEF CommitBlock
<1>2. UNCHANGED <<via, stage, txLifecycles, written, txNum>>
  BY <1>1 DEF supVars, statVars
<1>3. /\ \A i \in TxId : ~Has(T, i) => done'[i] = done[i]
      /\ \A t \in T : done'[t.id].credit = IF t.kind \in {"sigma1", "relay1"} THEN 0 ELSE 1
  BY <1>1, DoneFacts
<1>4. \A t \in T : t.id \in TxId /\ Expected(t) /\ t \in Tx
  BY DEF BrokerInv, FileTypes, ExpectedInv, Tx
<1>5. \A i \in TxId : done[i].credit = 1 => done'[i].credit = 1
  BY <1>3, <1>4 DEF Has, Expected
<1>6. \A k \in infos' : k \in infos \/ (k = [shard |-> s, txs |-> T] /\ k.txs = T)
  BY <1>1
<1>7. \A k \in infos : \A t \in k.txs : t \in Tx /\ t.id \in TxId
  BY DEF BrokerInv, FileTypes, Tx
<1>8. ASSUME NEW k \in infos, NEW t \in k.txs, NEW u \in T,
             t.id = u.id, t.kind # "relay1", u.kind # "relay1"
      PROVE  FALSE
  <2>1. done[t.id].credit = 0 /\ done[t.id].debit = (IF u.kind \in Second THEN 1 ELSE 0)
        /\ stage[t.id] = OnFile[u.kind]
    BY <1>4, <1>8 DEF Expected
  <2>2. t.kind \notin Direct
    BY <2>1 DEF ResultsInv, CountedOnce
  <2>3. t.kind # "sigma2"
    BY <2>1 DEF BrokerInv, InfoInv
  <2>4. t.kind = "sigma1"
    BY <1>7, <1>8, <2>2, <2>3 DEF Direct, Tx
  <2>5. stage[t.id] = "wait1" /\ done[t.id].debit = 1
    BY <2>4 DEF ReportInv, ByBroker, OnFile, BrokerInv, InfoInv
  <2>6. u.kind = "sigma1"
    BY <1>4, <2>1, <2>5 DEF OnFile, Tx
  <2> QED
    BY <2>1, <2>5, <2>6 DEF Second
<1>9. \A t, u \in T : t.id = u.id => t = u
  BY DEF BrokerInv, Located, Unique
<1>10. \A m, k \in infos' : \A t \in m.txs, u \in k.txs :
         t.id = u.id /\ t.kind # "relay1" /\ u.kind # "relay1" => m = k /\ t = u
  <2> SUFFICES ASSUME NEW m \in infos', NEW k \in infos', NEW t \in m.txs, NEW u \in k.txs,
                      t.id = u.id, t.kind # "relay1", u.kind # "relay1"
               PROVE  m = k /\ t = u
    OBVIOUS
  <2>1. CASE m \in infos /\ k \in infos
    BY <2>1 DEF ResultsInv, CountedOnce
  <2>2. CASE m \notin infos /\ k \notin infos
    BY <1>6, <1>9, <2>2
  <2>3. CASE m \in infos /\ k \notin infos
    BY <1>6, <1>8, <2>3
  <2>4. CASE m \notin infos /\ k \in infos
    BY <1>6, <1>8, <2>4
  <2> QED
    BY <2>1, <2>2, <2>3, <2>4
<1>11. ASSUME NEW m \in infos', NEW t \in m.txs, t.kind \in Direct
       PROVE  /\ done'[t.id].credit = 1 /\ via[t.id] = {}
              /\ written[t.id]["InnerShard"] = 0 /\ written[t.id]["FallbackToRelay"] = 0
  <2>1. CASE m \in infos
    BY <1>5, <1>7, <1>11, <2>1 DEF ResultsInv, CountedOnce
  <2>2. CASE m \notin infos
    <3>1. t \in T
      BY <1>6, <2>2
    <3>2. t.id \in TxId /\ done[t.id].credit = 0 /\ (via[t.id] # {} <=> t.kind \in ByBroker)
      BY <1>4, <3>1 DEF Expected
    <3>3. via[t.id] = {} /\ done'[t.id].credit = 1
      BY <1>3, <1>11, <3>1, <3>2 DEF ByBroker, Direct
    <3>4. RecordOf(t.id)
      BY <3>2 DEF ResultsInv, RecordsInv
    <3> QED
      BY <3>2, <3>3, <3>4 DEF RecordOf
  <2> QED
    BY <2>1, <2>2
<1>12. CountedOnce'
  BY <1>2, <1>10, <1>11 DEF CountedOnce, Direct
<1>13. RecordsInv'
  <2>1. ASSUME NEW i \in TxId PROVE RecordOf(i)'
    <3>1. RecordOf(i)
      BY DEF ResultsInv, RecordsInv
    <3> QED
      BY <1>2, <1>5, <3>1 DEF RecordOf
  <2> QED
    BY <1>2, <2>1 DEF ResultsInv, RecordsInv, Mechanism, TxId
<1>14. TotalsInv'
  <2>1. FirstDone' = FirstDone
    BY <1>2 DEF FirstDone, TxId
  <2> QED
    BY <2>1, TotalsKept DEF ResultsInv
<1> QED
  BY <1>12, <1>13, <1>14 DEF ResultsInv

\* What a measured info says of each payment: a first half comes when it is awaited
\* and a second half when the first is on file, and a line is a new one.
LEMMA MeasureFacts ==
  ASSUME BrokerInv, PromiseInv, ReportInv, ResultsInv, NEW m \in infos, HandleBlockInfo(m),
         NEW i \in TxId
  PROVE  /\ i \in InfoTxs(m, "sigma1") =>
              /\ via[i] # {} /\ stage[i] = "wait1" /\ stage'[i] = "wait2"
              /\ Halves(m, i) = {"sigma1"}
         /\ i \in InfoTxs(m, "sigma2") =>
              /\ via[i] # {} /\ stage[i] = "wait2" /\ stage'[i] = "none"
              /\ Halves(m, i) = {"sigma2"}
         /\ i \notin InfoTxs(m, "sigma1") /\ i \notin InfoTxs(m, "sigma2") =>
              stage'[i] = stage[i] /\ Halves(m, i) = {}
         /\ i \in InfoTxs(m, "inner") \/ i \in InfoTxs(m, "relay2") =>
              /\ done[i].credit = 1 /\ via[i] = {}
              /\ written[i]["InnerShard"] = 0 /\ written[i]["FallbackToRelay"] = 0
         /\ ~(i \in InfoTxs(m, "inner") /\ i \in InfoTxs(m, "relay2"))
<1>1. \A k : i \in InfoTxs(m, k) <=> \E t \in m.txs : t.id = i /\ t.kind = k
  BY DEF InfoTxs
<1>2. \A j \in TxId : stage'[j] = IF j \in Confirmed(m, "sigma1") THEN "wait2"
                                  ELSE IF j \in Confirmed(m, "sigma2") THEN "none" ELSE stage[j]
  BY ConfirmBooks
<1>3. /\ i \in InfoTxs(m, "sigma1") => stage[i] = "wait1"
      /\ i \in InfoTxs(m, "sigma2") => stage[i] = "wait2"
  BY <1>1 DEF ReportInv, ByBroker, OnFile
<1>4. /\ i \in Confirmed(m, "sigma1") <=> i \in InfoTxs(m, "sigma1")
      /\ i \in Confirmed(m, "sigma2") <=> i \in InfoTxs(m, "sigma2")
  BY <1>3 DEF Confirmed, InfoTxs
<1>5. stage[i] # "none" => via[i] # {}
  BY DEF BrokerInv, FileInv
<1>6. \A k \in {"sigma1", "sigma2"} : k \in Halves(m, i) <=> i \in InfoTxs(m, k)
  BY DEF Halves
<1>7. Halves(m, i) \subseteq {"sigma1", "sigma2"}
  BY DEF Halves
<1>8. i \in InfoTxs(m, "inner") \/ i \in InfoTxs(m, "relay2") =>
        /\ done[i].credit = 1 /\ via[i] = {}
        /\ written[i]["InnerShard"] = 0 /\ written[i]["FallbackToRelay"] = 0
  BY <1>1 DEF ResultsInv, CountedOnce, Direct
<1>9. ~(i \in InfoTxs(m, "inner") /\ i \in InfoTxs(m, "relay2"))
  BY <1>1 DEF ResultsInv, CountedOnce
<1>10. /\ i \in InfoTxs(m, "sigma1") => stage'[i] = "wait2" /\ Halves(m, i) = {"sigma1"}
       /\ i \in InfoTxs(m, "sigma2") => stage'[i] = "none" /\ Halves(m, i) = {"sigma2"}
       /\ i \notin InfoTxs(m, "sigma1") /\ i \notin InfoTxs(m, "sigma2") =>
            stage'[i] = stage[i] /\ Halves(m, i) = {}
  BY <1>2, <1>3, <1>4, <1>6, <1>7
<1> QED
  BY <1>3, <1>5, <1>8, <1>9, <1>10

\* The broker payments an info gives their line are those of its second halves.
LEMMA FilledFacts ==
  ASSUME BrokerInv, PromiseInv, ReportInv, ResultsInv, NEW m \in infos, HandleBlockInfo(m)
  PROVE  Filled(m) = InfoTxs(m, "sigma2") /\ \A k : InfoTxs(m, k) \in SUBSET TxId
<1>1. \A k : InfoTxs(m, k) \in SUBSET TxId
  BY DEF InfoTxs, BrokerInv, FileTypes, Tx
<1>2. ASSUME NEW i \in TxId PROVE i \in Filled(m) <=> i \in InfoTxs(m, "sigma2")
  <2>1. txLifecycles[i] = IF stage[i] = "wait2" THEN {"sigma1"} ELSE {}
    BY DEF ResultsInv, RecordsInv, RecordOf
  <2>2. i \in Filled(m) <=> /\ Halves(m, i) # {}
                            /\ txLifecycles[i] # {} \/ Halves(m, i) = {"sigma1", "sigma2"}
    BY DEF Filled
  <2>3. CASE i \in InfoTxs(m, "sigma1")
    <3>1. stage[i] = "wait1" /\ Halves(m, i) = {"sigma1"}
      BY <2>3, MeasureFacts
    <3>2. i \notin InfoTxs(m, "sigma2")
      BY <3>1, MeasureFacts
    <3> QED
      BY <2>1, <2>2, <3>1, <3>2
  <2>4. CASE i \in InfoTxs(m, "sigma2")
    <3>1. stage[i] = "wait2" /\ Halves(m, i) = {"sigma2"}
      BY <2>4, MeasureFacts
    <3> QED
      BY <2>1, <2>2, <2>4, <3>1
  <2>5. CASE i \notin InfoTxs(m, "sigma1") /\ i \notin InfoTxs(m, "sigma2")
    <3>1. Halves(m, i) = {}
      BY <2>5, MeasureFacts
    <3> QED
      BY <2>2, <2>5, <3>1
  <2> QED
    BY <2>3, <2>4, <2>5
<1>3. Filled(m) \in SUBSET TxId
  BY DEF Filled
<1> QED
  BY <1>1, <1>2, <1>3

\* Measuring and handling an info moves the records and the manager together.
LEMMA MeasureRecords ==
  ASSUME BrokerInv, PromiseInv, ReportInv, ResultsInv, NEW m \in infos, MeasureAndHandle(m)
  PROVE  CountedOnce' /\ RecordsInv'
<1>1. /\ HandleBlockInfo(m) /\ UNCHANGED <<via, done>> /\ infos' = infos \ {m}
      /\ txLifecycles' = [i \in TxId |->
           IF i \in Filled(m) THEN {} ELSE txLifecycles[i] \cup Halves(m, i)]
      /\ written' = [i \in TxId |-> [x \in Mechanism |->
           written[i][x] + IF i \in Lines(m, x) THEN 1 ELSE 0]]
  BY DEF MeasureAndHandle, HandleBlockInfo, UpdateMeasureRecord
<1>2. Filled(m) = InfoTxs(m, "sigma2")
  BY <1>1, FilledFacts
<1>3. ASSUME NEW i \in TxId
      PROVE  /\ written[i]["InnerShard"] \in Nat /\ written[i]["FallbackToRelay"] \in Nat
             /\ written[i]["Broker"] \in Nat
             /\ written'[i]["InnerShard"] =
                  written[i]["InnerShard"] + (IF i \in InfoTxs(m, "inner") THEN 1 ELSE 0)
             /\ written'[i]["FallbackToRelay"] =
                  written[i]["FallbackToRelay"] + (IF i \in InfoTxs(m, "relay2") THEN 1 ELSE 0)
             /\ written'[i]["Broker"] =
                  written[i]["Broker"] + (IF i \in InfoTxs(m, "sigma2") THEN 1 ELSE 0)
  BY <1>1, <1>2 DEF ResultsInv, RecordsInv, Mechanism, Lines
<1>4. written' \in [TxId -> [Mechanism -> Nat]]
  <2>1. ASSUME NEW i \in TxId, NEW x \in Mechanism
        PROVE  written[i][x] + (IF i \in Lines(m, x) THEN 1 ELSE 0) \in Nat
    BY DEF ResultsInv, RecordsInv
  <2> QED
    BY <1>1, <2>1
<1>5. ASSUME NEW i \in TxId PROVE RecordOf(i)'
  <2>1. RecordOf(i)
    BY DEF ResultsInv, RecordsInv
  <2>2. txLifecycles'[i] = IF i \in InfoTxs(m, "sigma2") THEN {} ELSE txLifecycles[i] \cup Halves(m, i)
    BY <1>1, <1>2
  <2>3. /\ txLifecycles'[i] = IF stage'[i] = "wait2" THEN {"sigma1"} ELSE {}
        /\ written'[i]["Broker"] = IF via[i] # {} /\ stage'[i] = "none" THEN 1 ELSE 0
    <3>1. /\ txLifecycles[i] = IF stage[i] = "wait2" THEN {"sigma1"} ELSE {}
          /\ written[i]["Broker"] = IF via[i] # {} /\ stage[i] = "none" THEN 1 ELSE 0
      BY <2>1 DEF RecordOf
    <3>2. CASE i \in InfoTxs(m, "sigma1")
      <4>1. stage[i] = "wait1" /\ stage'[i] = "wait2" /\ Halves(m, i) = {"sigma1"}
        BY <1>1, <3>2, MeasureFacts
      <4>2. i \notin InfoTxs(m, "sigma2")
        BY <1>1, <4>1, MeasureFacts
      <4> QED
        BY <1>3, <2>2, <3>1, <4>1, <4>2
    <3>3. CASE i \in InfoTxs(m, "sigma2")
      <4>1. via[i] # {} /\ stage[i] = "wait2" /\ stage'[i] = "none"
        BY <1>1, <3>3, MeasureFacts
      <4> QED
        BY <1>3, <2>2, <3>1, <3>3, <4>1
    <3>4. CASE i \notin InfoTxs(m, "sigma1") /\ i \notin InfoTxs(m, "sigma2")
      <4>1. stage'[i] = stage[i] /\ Halves(m, i) = {}
        BY <1>1, <3>4, MeasureFacts
      <4>2. txLifecycles'[i] = txLifecycles[i]
        BY <2>2, <3>4, <4>1
      <4>3. written'[i]["Broker"] = written[i]["Broker"]
        BY <1>3, <3>4
      <4> QED
        BY <3>1, <4>1, <4>2, <4>3
    <3> QED
      BY <3>2, <3>3, <3>4
  <2>4. \/ written'[i]["InnerShard"] = 0 /\ written'[i]["FallbackToRelay"] = 0
        \/ /\ via[i] = {} /\ done[i].credit = 1
           /\ \/ written'[i]["InnerShard"] = 1 /\ written'[i]["FallbackToRelay"] = 0
              \/ written'[i]["InnerShard"] = 0 /\ written'[i]["FallbackToRelay"] = 1
    <3>1. CASE i \in InfoTxs(m, "inner") \/ i \in InfoTxs(m, "relay2")
      <4>1. /\ done[i].credit = 1 /\ via[i] = {}
            /\ written[i]["InnerShard"] = 0 /\ written[i]["FallbackToRelay"] = 0
            /\ ~(i \in InfoTxs(m, "inner") /\ i \in InfoTxs(m, "relay2"))
        BY <1>1, <3>1, MeasureFacts
      <4> QED
        BY <1>3, <3>1, <4>1
    <3>2. CASE i \notin InfoTxs(m, "inner") /\ i \notin InfoTxs(m, "relay2")
      <4>1. /\ written'[i]["InnerShard"] = written[i]["InnerShard"]
            /\ written'[i]["FallbackToRelay"] = written[i]["FallbackToRelay"]
        BY <1>3, <3>2
      <4> QED
        BY <2>1, <4>1 DEF RecordOf
    <3> QED
      BY <3>1, <3>2
  <2> QED
    BY <1>1, <2>3, <2>4 DEF RecordOf
<1>6. CountedOnce'
  <2>1. \A k, l \in infos' : \A t \in k.txs, u \in l.txs :
          t.id = u.id /\ t.kind # "relay1" /\ u.kind # "relay1" => k = l /\ t = u
    BY <1>1 DEF ResultsInv, CountedOnce
  <2>2. ASSUME NEW k \in infos', NEW t \in k.txs, t.kind \in Direct
        PROVE  /\ done[t.id].credit = 1 /\ via[t.id] = {}
               /\ written'[t.id]["InnerShard"] = 0 /\ written'[t.id]["FallbackToRelay"] = 0
    <3>1. k \in infos /\ k # m /\ t.id \in TxId
      BY <1>1 DEF BrokerInv, FileTypes, Tx
    <3>2. /\ done[t.id].credit = 1 /\ via[t.id] = {}
          /\ written[t.id]["InnerShard"] = 0 /\ written[t.id]["FallbackToRelay"] = 0
      BY <2>2, <3>1 DEF ResultsInv, CountedOnce
    <3>3. t.id \notin InfoTxs(m, "inner") /\ t.id \notin InfoTxs(m, "relay2")
      BY <2>2, <3>1 DEF ResultsInv, CountedOnce, InfoTxs, Direct
    <3> QED
      BY <1>3, <3>1, <3>2, <3>3
  <2> QED
    BY <1>1, <2>1, <2>2 DEF CountedOnce, Direct
<1> QED
  BY <1>4, <1>5, <1>6 DEF RecordsInv, Mechanism, TxId

\* A measured info adds the same numbers to the counters and to the records.
LEMMA MeasureTotals ==
  ASSUME BrokerInv, PromiseInv, ReportInv, ResultsInv, NEW m \in infos, MeasureAndHandle(m)
  PROVE  TotalsInv'
<1>1. /\ HandleBlockInfo(m) /\ UNCHANGED via
      /\ txNum' = [k \in Counted |-> txNum[k] + Cardinality(InfoTxs(m, k))]
      /\ written' = [i \in TxId |-> [x \in Mechanism |->
           written[i][x] + IF i \in Lines(m, x) THEN 1 ELSE 0]]
  BY DEF MeasureAndHandle, HandleBlockInfo, UpdateMeasureRecord
<1>2. Filled(m) = InfoTxs(m, "sigma2") /\ \A k : InfoTxs(m, k) \in SUBSET TxId
  BY <1>1, FilledFacts
<1>3. IsFiniteSet(TxId)
  BY ValueFacts
<1>4. ASSUME NEW x \in Mechanism, NEW A \in SUBSET TxId, A = Lines(m, x)
      PROVE  SumOf(LinesBy(x)', TxId) = SumOf(LinesBy(x), TxId) + Cardinality(A)
  <2>1. PICK v, w : v = LinesBy(x) /\ w = LinesBy(x)'
    OBVIOUS
  <2>2. \A i \in TxId : v[i] \in Int /\ w[i] = v[i] + (IF i \in A THEN 1 ELSE 0)
    BY <1>1, <1>4, <2>1 DEF LinesBy, ResultsInv, RecordsInv, TxId
  <2>3. SumOf(w, TxId) = SumOf(v, TxId) + Cardinality(A)
    BY <1>3, <2>2, SumCount
  <2> QED
    BY <2>1, <2>3
<1>5. SumOf(LinesBy("InnerShard")', TxId)
      = SumOf(LinesBy("InnerShard"), TxId) + Cardinality(InfoTxs(m, "inner"))
  BY <1>2, <1>4 DEF Mechanism, Lines
<1>6. SumOf(LinesBy("FallbackToRelay")', TxId)
      = SumOf(LinesBy("FallbackToRelay"), TxId) + Cardinality(InfoTxs(m, "relay2"))
  BY <1>2, <1>4 DEF Mechanism, Lines
<1>7. SumOf(LinesBy("Broker")', TxId)
      = SumOf(LinesBy("Broker"), TxId) + Cardinality(InfoTxs(m, "sigma2"))
  BY <1>2, <1>4 DEF Mechanism, Lines
<1>8. SumOf(FirstDone', TxId) = SumOf(FirstDone, TxId) + Cardinality(InfoTxs(m, "sigma1"))
  <2>1. PICK v, w, A : v = FirstDone /\ w = FirstDone' /\ A = InfoTxs(m, "sigma1")
    OBVIOUS
  <2>2. ASSUME NEW i \in TxId PROVE v[i] \in Int /\ w[i] = v[i] + (IF i \in A THEN 1 ELSE 0)
    <3>1. /\ v[i] = IF via[i] # {} /\ stage[i] # "wait1" THEN 1 ELSE 0
          /\ w[i] = IF via[i] # {} /\ stage'[i] # "wait1" THEN 1 ELSE 0
      BY <1>1, <2>1 DEF FirstDone, TxId
    <3>2. i \in A => via[i] # {} /\ stage[i] = "wait1" /\ stage'[i] = "wait2"
      BY <1>1, <2>1, MeasureFacts
    <3>3. i \notin A => stage'[i] = stage[i] \/ (stage[i] = "wait2" /\ stage'[i] = "none")
      BY <1>1, <2>1, MeasureFacts
    <3> QED
      BY <3>1, <3>2, <3>3
  <2>3. A \in SUBSET TxId
    BY <1>2, <2>1
  <2>4. SumOf(w, TxId) = SumOf(v, TxId) + Cardinality(A)
    BY <1>3, <2>2, <2>3, SumCount
  <2> QED
    BY <2>1, <2>4
<1>9. /\ txNum'["inner"]  = txNum["inner"]  + Cardinality(InfoTxs(m, "inner"))
      /\ txNum'["relay2"] = txNum["relay2"] + Cardinality(InfoTxs(m, "relay2"))
      /\ txNum'["sigma1"] = txNum["sigma1"] + Cardinality(InfoTxs(m, "sigma1"))
      /\ txNum'["sigma2"] = txNum["sigma2"] + Cardinality(InfoTxs(m, "sigma2"))
  BY <1>1 DEF Counted
<1>10. TotalsInv' <=> /\ txNum'["inner"]  = SumOf(LinesBy("InnerShard")', TxId)
                      /\ txNum'["relay2"] = SumOf(LinesBy("FallbackToRelay")', TxId)
                      /\ txNum'["sigma2"] = SumOf(LinesBy("Broker")', TxId)
                      /\ txNum'["sigma1"] = SumOf(FirstDone', TxId)
  BY DEF TotalsInv, TxId
<1> QED
  BY <1>5, <1>6, <1>7, <1>8, <1>9, <1>10 DEF ResultsInv, TotalsInv

\* Every step of the measured system is a step of the system, and keeps the records.
LEMMA NextResults ==
  BrokerInv /\ PromiseInv /\ ReportInv /\ ResultsInv /\ [StatsNext]_measuredVars
  => [Next]_vars /\ ReportInv' /\ ResultsInv'
<1> SUFFICES ASSUME BrokerInv, PromiseInv, ReportInv, ResultsInv, [StatsNext]_measuredVars
             PROVE  [Next]_vars /\ ReportInv' /\ ResultsInv'
  OBVIOUS
<1>1. [Next]_vars
  BY DEF StatsNext, measuredVars, Unmeasured, MeasureAndHandle, Next
<1>2. lost \in Nat /\ lost + 1 \in Nat /\ lost + 1 # 0
  BY DEF ReportInv
<1>3. ASSUME UNCHANGED <<via, stage, done, statVars>>, infos' \subseteq infos,
             lost' \in Nat, lost' = 0 => lost = 0 /\ infos' = infos
      PROVE  ReportInv' /\ ResultsInv'
  BY <1>3, ReportsUnchanged, ResultsUnchanged
<1>4. ASSUME NEW m \in infos, MeasureAndHandle(m) PROVE ReportInv' /\ ResultsInv'
  <2>1. HandleBlockInfo(m)
    BY <1>4 DEF MeasureAndHandle
  <2> QED
    BY <1>4, <2>1, ConfirmReports, MeasureRecords, MeasureTotals DEF ResultsInv
<1>5. CASE SupTick /\ UNCHANGED statVars
  BY <1>1, <1>5, TickReports, ResultsTick
<1>6. CASE HandleEmptyInfo /\ UNCHANGED statVars
  BY <1>1, <1>2, <1>3, <1>6 DEF HandleEmptyInfo
<1>7. ASSUME NEW m \in infos, LoseInfo(m), UNCHANGED statVars PROVE ReportInv' /\ ResultsInv'
  BY <1>2, <1>3, <1>7 DEF LoseInfo, supVars
<1>8. ASSUME NEW s \in Shard, CommitBlock(s), UNCHANGED statVars PROVE ReportInv' /\ ResultsInv'
  BY <1>8, CommitReports, ResultsCommit
<1>9. ASSUME NEW s \in Shard, NEW m \in txMsgs, HandleReceiveTxs(s, m), UNCHANGED statVars
      PROVE  ReportInv' /\ ResultsInv'
  BY <1>2, <1>3, <1>9 DEF HandleReceiveTxs, supVars
<1>10. ASSUME NEW m \in txMsgs, LoseTxs(m), UNCHANGED statVars PROVE ReportInv' /\ ResultsInv'
  BY <1>2, <1>3, <1>10 DEF LoseTxs, supVars
<1>11. CASE UNCHANGED measuredVars
  BY <1>1, <1>2, <1>3, <1>11 DEF measuredVars, vars, supVars
<1> QED
  BY <1>1, <1>4, <1>5, <1>6, <1>7, <1>8, <1>9, <1>10, <1>11 DEF StatsNext, Unmeasured

\* The lines of a payment, by mechanism.
LEMMA LinesOfIs ==
  ASSUME RecordsInv, NEW i \in TxId
  PROVE  LinesOf(i) = written[i]["InnerShard"] + written[i]["FallbackToRelay"] + written[i]["Broker"]
<1>1. PICK w : w = written[i]
  OBVIOUS
<1>2. w \in [Mechanism -> Nat]
  BY <1>1 DEF RecordsInv
<1>3. w["InnerShard"] \in Nat /\ w["FallbackToRelay"] \in Nat /\ w["Broker"] \in Nat
  BY <1>2 DEF Mechanism
<1>4. LinesOf(i) = SumOf(w, Mechanism)
  BY <1>1, <1>2, SumFunctionIs DEF LinesOf
<1>5. PICK A, B : A = {"InnerShard"} /\ B = A \cup {"FallbackToRelay"}
  OBVIOUS
<1>6. IsFiniteSet({}) /\ IsFiniteSet(A) /\ IsFiniteSet(B)
  BY <1>5, FS_EmptySet, FS_Singleton, FS_AddElement
<1>7. Mechanism = B \cup {"Broker"} /\ A = {} \cup {"InnerShard"}
  BY <1>5 DEF Mechanism
<1>8. SumOf(w, {} \cup {"InnerShard"}) = w["InnerShard"] + SumOf(w, {})
  BY <1>3, <1>6, SumAdd
<1>9. SumOf(w, A) = w["InnerShard"]
  BY <1>3, <1>7, <1>8, SumEmpty
<1>10. SumOf(w, A \cup {"FallbackToRelay"}) = w["FallbackToRelay"] + SumOf(w, A)
  <2>1. "FallbackToRelay" \notin A /\ \A x \in A : w[x] \in Int
    BY <1>3, <1>5
  <2> QED
    BY <1>3, <1>6, <2>1, SumAdd
<1>11. SumOf(w, B \cup {"Broker"}) = w["Broker"] + SumOf(w, B)
  <2>1. "Broker" \notin B /\ \A x \in B : w[x] \in Int
    BY <1>3, <1>5
  <2> QED
    BY <1>3, <1>6, <2>1, SumAdd
<1> QED
  BY <1>1, <1>3, <1>4, <1>5, <1>7, <1>9, <1>10, <1>11

\* When the manager waits for nothing the records are the results.
LEMMA ResultsWhenIdle ==
  ASSUME ResultsInv, \A i \in TxId : stage[i] = "none"
  PROVE  /\ \A i \in TxId : /\ txLifecycles[i] = {}
                            /\ via[i] # {} => written[i]["Broker"] = 1
                            /\ LinesOf(i) <= 1
         /\ TwiceTotal = 2 * SumFunction([i \in TxId |-> LinesOf(i)])
<1>1. RecordsInv /\ TotalsInv /\ IsFiniteSet(TxId)
  BY ValueFacts DEF ResultsInv
<1>2. \A i \in TxId : RecordOf(i)
  BY <1>1 DEF RecordsInv
<1>3. \A i \in TxId : txLifecycles[i] = {} /\ (via[i] # {} => written[i]["Broker"] = 1)
  BY <1>2 DEF RecordOf
<1>4. ASSUME NEW i \in TxId PROVE LinesOf(i) <= 1
  <2>1. LinesOf(i) = written[i]["InnerShard"] + written[i]["FallbackToRelay"] + written[i]["Broker"]
    BY <1>1, LinesOfIs
  <2>2. written[i]["Broker"] = IF via[i] # {} THEN 1 ELSE 0
    BY <1>2 DEF RecordOf
  <2>3. \/ written[i]["InnerShard"] = 0 /\ written[i]["FallbackToRelay"] = 0
        \/ /\ via[i] = {}
           /\ \/ written[i]["InnerShard"] = 1 /\ written[i]["FallbackToRelay"] = 0
              \/ written[i]["InnerShard"] = 0 /\ written[i]["FallbackToRelay"] = 1
    BY <1>2 DEF RecordOf
  <2> QED
    BY <2>1, <2>2, <2>3
<1>5. PICK n, r, b, f, l : /\ n = LinesBy("InnerShard") /\ r = LinesBy("FallbackToRelay")
                           /\ b = LinesBy("Broker") /\ f = FirstDone
                           /\ l = [i \in TxId |-> LinesOf(i)]
  OBVIOUS
<1>6. PICK nr : nr = [i \in TxId |-> n[i] + r[i]]
  OBVIOUS
<1>7. ASSUME NEW i \in TxId
      PROVE  /\ n[i] \in Nat /\ r[i] \in Nat /\ b[i] \in Nat
             /\ nr[i] = n[i] + r[i] /\ l[i] = nr[i] + b[i] /\ f[i] = b[i]
  <2>1. n[i] = written[i]["InnerShard"] /\ r[i] = written[i]["FallbackToRelay"] /\ b[i] = written[i]["Broker"]
    BY <1>5 DEF LinesBy
  <2>2. n[i] \in Nat /\ r[i] \in Nat /\ b[i] \in Nat
    BY <1>1, <2>1 DEF RecordsInv, Mechanism
  <2>3. l[i] = n[i] + r[i] + b[i]
    BY <1>1, <1>5, <2>1, LinesOfIs
  <2>4. f[i] = b[i]
    BY <1>2, <1>5, <2>1 DEF FirstDone, RecordOf
  <2> QED
    BY <1>6, <2>2, <2>3, <2>4
<1>8. SumOf(n, TxId) \in Nat /\ SumOf(r, TxId) \in Nat /\ SumOf(b, TxId) \in Nat
  BY <1>1, <1>7, SumType
<1>9. SumOf(nr, TxId) = SumOf(n, TxId) + SumOf(r, TxId)
  BY <1>1, <1>7, SumPlus
<1>10. SumOf(l, TxId) = SumOf(nr, TxId) + SumOf(b, TxId)
  <2>1. \A i \in TxId : nr[i] \in Int /\ b[i] \in Int /\ l[i] = nr[i] + b[i]
    BY <1>7
  <2> QED
    BY <1>1, <2>1, SumPlus
<1>11. SumOf(f, TxId) = SumOf(b, TxId)
  BY <1>1, <1>7, SumSame
<1>12. SumFunction(l) = SumOf(l, TxId)
  <2>1. DOMAIN l = TxId
    BY <1>5
  <2> QED
    BY <2>1, SumFunctionIs
<1>13. /\ txNum["inner"] = SumOf(n, TxId) /\ txNum["relay2"] = SumOf(r, TxId)
       /\ txNum["sigma2"] = SumOf(b, TxId) /\ txNum["sigma1"] = SumOf(f, TxId)
  BY <1>1, <1>5 DEF TotalsInv
<1>14. TwiceTotal = 2 * SumFunction(l)
  BY <1>8, <1>9, <1>10, <1>11, <1>12, <1>13 DEF TwiceTotal
<1> QED
  BY <1>3, <1>4, <1>5, <1>14

\* The results the supervisor writes when it has stopped are complete, whatever was
\* lost before and in whichever order the infos of the halves came (UpdateMeasureRecord
\* of brokerstats.go beside the stop logic of staticbroker.go).
THEOREM ResultsAreComplete == StatsSpec => []ResultsComplete
<1>1. StatsInit => BrokerInv /\ PromiseInv /\ ReportInv /\ ResultsInv
  BY InitInv, InitPromises, InitBooks, ResultsStart DEF StatsInit
<1>2. BrokerInv /\ PromiseInv /\ ReportInv /\ ResultsInv /\ [StatsNext]_measuredVars
      => (BrokerInv /\ PromiseInv /\ ReportInv /\ ResultsInv)'
  BY NextResults, NextInv, NextPromises
<1>3. BrokerInv /\ PromiseInv /\ ReportInv /\ ResultsInv => ResultsComplete
  <2> SUFFICES ASSUME BrokerInv, ResultsInv, stopped PROVE ResultsComplete
    BY DEF ResultsComplete
  <2>1. \A i \in TxId : stage[i] = "none"
    BY DEF BrokerInv, StopInv
  <2> QED
    BY <2>1, ResultsWhenIdle DEF ResultsComplete
<1> QED
  BY <1>1, <1>2, <1>3, PTL DEF StatsSpec
=============================================================================
