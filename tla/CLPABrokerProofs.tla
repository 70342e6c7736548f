-------------------------- MODULE CLPABrokerProofs --------------------------
(* Theorems about CLPABroker, for any shards, accounts, transactions, epochs   *)
(* and lost states. RepartitionProofs has what both modes share.               *)
EXTENDS CLPABroker, RepartitionProofs

-----------------------------------------------------------------------------
(* Where a payment is, and what the brokers have on file for it.             *)

\* Payment i goes back to the supervisor; an info confirms its first half.
InAgain(i) == \E m \in againMsgs : i \in m
Confirms(m, i) == [id |-> i, stage |-> "sigma1"] \in m.txs
InConfirm(i) == \E m \in infoMsgs : Confirms(m, i)

\* What the brokers have on file and the chains have executed of a payment that
\* is not complete.
Stands(i, stage, debit) ==
  confirmStage[i] = stage /\ done[i].debit = debit /\ done[i].credit = 0

\* A transaction under way has the stage the brokers expect.
OnFile == [normal |-> "none", sigma1 |-> "wait1", sigma2 |-> "wait2"]
Expected(t) == t.stage \in DOMAIN OnFile /\ confirmStage[t.id] = OnFile[t.stage]

ManagerTypes ==
  /\ confirmStage \in [TxId -> {"none", "wait1", "wait2"}]
  /\ againMsgs \subseteq SUBSET TxId /\ ready1 \subseteq TxId /\ ready2 \subseteq TxId

\* The payments the brokers have, or will get.
ManagerInv ==
  /\ \A i \in unsent : confirmStage[i] = "none"
  /\ \A i \in TxId : /\ InAgain(i) => Stands(i, "none", 0)
                     /\ i \in ready1 => Stands(i, "wait1", 0)
                     /\ i \in ready2 => Stands(i, "wait2", 1)
                     /\ InConfirm(i) => Stands(i, "wait1", 1)
  /\ \A m \in infoMsgs : \A t \in m.txs :
       t.stage \in DOMAIN OnFile /\ (t.stage = "sigma2" => done[t.id].credit = 1)

\* The transactions on the network and with the shards.
ExpectedInv ==
  /\ \A m \in txMsgs : \A t \in m.txs : Expected(t)
  /\ \A s \in Shard : \A t \in pool[s] : Expected(t)
  /\ \A s \in Shard : \A t \in BlockTxs(s) : Expected(t)

\* What is with the brokers is nowhere else.
ManagerApart ==
  /\ \A m, k \in againMsgs : \A i \in TxId : i \in m /\ i \in k => m = k
  /\ \A m, k \in infoMsgs : \A i \in TxId : Confirms(m, i) /\ Confirms(k, i) => m = k
  /\ \A i \in TxId : InAgain(i) \/ i \in ready1 \/ i \in ready2 =>
       i \notin unsent /\ ~InMsgs(i) /\ ~InPool(i) /\ ~InBlock(i)

\* No payment that is not complete is forgotten.
Present ==
  \A i \in TxId : done[i].credit = 0 =>
    \/ i \in unsent \/ InAgain(i) \/ i \in ready1 \/ i \in ready2
    \/ InMsgs(i) \/ InPool(i) \/ InBlock(i) \/ InConfirm(i)

BrokerInv == ManagerTypes /\ ManagerInv /\ ExpectedInv /\ ManagerApart /\ Present

-----------------------------------------------------------------------------
(* One place. *)

\* Before anything is sent every payment is with the source.
LEMMA BrokerInit == Init => BrokerInv
<1> SUFFICES ASSUME Init PROVE BrokerInv
  OBVIOUS
<1>1. \A s \in Shard : BlockTxs(s) = {}
  BY DEF Init, SharedInit, BlockTxs
<1>2. ManagerTypes /\ ExpectedInv /\ ManagerApart /\ Present
  BY <1>1 DEF Init, SharedInit, ManagerTypes, ExpectedInv, ManagerApart, InAgain, Present
<1>3. ManagerInv
  BY DEF Init, SharedInit, ManagerInv, InAgain, InConfirm
<1> QED
  BY <1>2, <1>3 DEF BrokerInv

\* What the brokers have on file tells the places that are theirs apart.
LEMMA Exclusive ==
  ASSUME OnceInv, BrokerInv, NEW i \in TxId
  PROVE  /\ i \in unsent => ~InAgain(i) /\ i \notin ready1 /\ i \notin ready2
         /\ InMsgs(i) \/ InPool(i) \/ InBlock(i) \/ i \in unsent => ~InConfirm(i)
         /\ InAgain(i) => i \notin ready1 /\ i \notin ready2 /\ ~InConfirm(i)
         /\ i \in ready1 => i \notin ready2 /\ ~InConfirm(i)
         /\ i \in ready2 => ~InConfirm(i)
<1>1. ASSUME InConfirm(i) PROVE ~InMsgs(i) /\ ~InPool(i) /\ ~InBlock(i) /\ i \notin unsent
  BY <1>1 DEF BrokerInv, ManagerInv, ExpectedInv, Expected, OnFile, Stands, OnceInv, DoneInv,
     TokenOK, SecondHalf, InMsgs, InPool, InBlock, Has
<1> QED
  BY <1>1 DEF BrokerInv, ManagerApart, ManagerInv, Stands

\* A payment that is not complete is in exactly one place.
LEMMA OnePlace == OnceInv /\ BrokerInv => InOnePlace
<1> SUFFICES ASSUME OnceInv, BrokerInv, NEW i \in TxId
             PROVE  Cardinality(Places(i)) = 1 - done[i].credit
  BY DEF InOnePlace
<1> DEFINE
      Source(p)  == p = <<"source", i>> /\ i \in unsent
      Again(p)   == \E m \in againMsgs : i \in m /\ p = <<"again", m>>
      First(p)   == p = <<"ready1", i>> /\ i \in ready1
      Second(p)  == p = <<"ready2", i>> /\ i \in ready2
      Net(p)     == \E m \in txMsgs : \E t \in m.txs : t.id = i /\ p = <<"sent", m, t>>
      Pool(p)    == \E s \in Shard : \E t \in pool[s] : t.id = i /\ p = <<"pool", s, t>>
      Block(p)   == \E s \in Shard : \E t \in BlockTxs(s) : t.id = i /\ p = <<"block", s, t>>
      Confirm(p) == \E m \in infoMsgs : Confirms(m, i) /\ p = <<"confirm", m>>
<1>1. \A p : p \in Places(i) <=>
        \/ Source(p) \/ Again(p) \/ First(p) \/ Second(p)
        \/ Net(p) \/ Pool(p) \/ Block(p) \/ Confirm(p)
  <2>1. \A p : p \in NetPlaces(i) <=> Net(p)
    BY DEF NetPlaces
  <2>2. \A p : p \in PoolPlaces(i) <=> Pool(p)
    BY DEF PoolPlaces
  <2>3. \A p : p \in BlockPlaces(i) <=> Block(p)
    BY DEF BlockPlaces, BlockTxs
  <2> HIDE DEF Net, Pool, Block
  <2> QED
    BY <2>1, <2>2, <2>3 DEF Places, Confirms
<1>2. /\ \A p : Source(p) => i \in unsent
      /\ \A p : Again(p) => InAgain(i)
      /\ \A p : First(p) => i \in ready1
      /\ \A p : Second(p) => i \in ready2
      /\ \A p : Net(p) => InMsgs(i)
      /\ \A p : Pool(p) => InPool(i)
      /\ \A p : Block(p) => InBlock(i)
      /\ \A p : Confirm(p) => InConfirm(i)
  BY DEF InAgain, InMsgs, InPool, InBlock, Has, InConfirm
<1>3. /\ i \in unsent => \E p : Source(p)
      /\ InAgain(i) => \E p : Again(p)
      /\ i \in ready1 => \E p : First(p)
      /\ i \in ready2 => \E p : Second(p)
      /\ InMsgs(i) => \E p : Net(p)
      /\ InPool(i) => \E p : Pool(p)
      /\ InBlock(i) => \E p : Block(p)
      /\ InConfirm(i) => \E p : Confirm(p)
  BY DEF InAgain, InMsgs, InPool, InBlock, Has, InConfirm
<1>4. /\ \A p, q : Source(p) /\ Source(q) => p = q
      /\ \A p, q : Again(p) /\ Again(q) => p = q
      /\ \A p, q : First(p) /\ First(q) => p = q
      /\ \A p, q : Second(p) /\ Second(q) => p = q
      /\ \A p, q : Net(p) /\ Net(q) => p = q
      /\ \A p, q : Pool(p) /\ Pool(q) => p = q
      /\ \A p, q : Block(p) /\ Block(q) => p = q
      /\ \A p, q : Confirm(p) /\ Confirm(q) => p = q
  <2>1. \A p, q : Net(p) /\ Net(q) => p = q
    BY DEF OnceInv, MsgsInv, Unique, Has
  <2>2. \A p, q : Pool(p) /\ Pool(q) => p = q
    BY DEF OnceInv, PoolsInv, Unique, Has
  <2>3. \A p, q : Block(p) /\ Block(q) => p = q
    BY DEF OnceInv, BlocksInv, Unique, Has
  <2>4. /\ \A p, q : Again(p) /\ Again(q) => p = q
        /\ \A p, q : Confirm(p) /\ Confirm(q) => p = q
    BY DEF BrokerInv, ManagerApart
  <2> QED
    BY <2>1, <2>2, <2>3, <2>4
<1> HIDE DEF Source, Again, First, Second, Net, Pool, Block, Confirm
<1>5. /\ i \in unsent => ~InAgain(i) /\ i \notin ready1 /\ i \notin ready2
      /\ InMsgs(i) \/ InPool(i) \/ InBlock(i) \/ i \in unsent => ~InConfirm(i)
      /\ InAgain(i) => i \notin ready1 /\ i \notin ready2 /\ ~InConfirm(i)
      /\ i \in ready1 => i \notin ready2 /\ ~InConfirm(i)
      /\ i \in ready2 => ~InConfirm(i)
  BY Exclusive
<1>6. \A p, q \in Places(i) : p = q
  BY <1>1, <1>2, <1>4, <1>5 DEF BrokerInv, ManagerApart, OnceInv, Apart
<1>7. Places(i) # {} <=> done[i].credit = 0
  <2>1. ASSUME i \in unsent \/ InAgain(i) \/ i \in ready1 \/ i \in ready2 \/ InMsgs(i)
               \/ InPool(i) \/ InBlock(i) \/ InConfirm(i)
        PROVE  done[i].credit = 0
    BY <2>1 DEF BrokerInv, ManagerInv, Stands, OnceInv, DoneInv, TokenOK, InMsgs, InPool, InBlock,
       Has
  <2> QED
    BY <1>1, <1>2, <1>3, <2>1 DEF BrokerInv, Present
<1>8. done[i].credit \in {0, 1}
  BY DEF OnceInv, DoneInv
<1>9. CASE Places(i) = {}
  BY <1>7, <1>8, <1>9, FS_EmptySet
<1>10. CASE Places(i) # {}
  <2>1. PICK p : Places(i) = {p}
    BY <1>6, <1>10
  <2> QED
    BY <1>7, <1>10, <2>1, FS_Singleton
<1> QED
  BY <1>9, <1>10

-----------------------------------------------------------------------------
(* The steps. *)

\* Steps that leave the payments where they are.
LEMMA BrokerUnchanged ==
  ASSUME BrokerInv, \A s \in Shard : BlockTxs(s)' = BlockTxs(s),
         UNCHANGED <<unsent, pool, txMsgs, infoMsgs, done, managerVars, againMsgs>>
  PROVE  BrokerInv'
<1>1. UNCHANGED <<confirmStage, ready1, ready2>>
  BY DEF managerVars
<1>2. ManagerTypes' /\ ExpectedInv'
  BY <1>1 DEF BrokerInv, ManagerTypes, ExpectedInv, Expected, OnFile, TxId
<1>3. \A i \in TxId : /\ InAgain(i)' <=> InAgain(i)
                      /\ InConfirm(i)' <=> InConfirm(i)
                      /\ InMsgs(i)' <=> InMsgs(i)
                      /\ InPool(i)' <=> InPool(i)
                      /\ InBlock(i)' <=> InBlock(i)
  BY DEF InAgain, InConfirm, Confirms, InMsgs, InPool, InBlock, Has
<1>4. ManagerInv' /\ Present'
  BY <1>1, <1>3 DEF BrokerInv, ManagerInv, Stands, OnFile, Present, TxId
<1>5. ManagerApart'
  BY <1>1, <1>3 DEF BrokerInv, ManagerApart, Confirms, TxId
<1> QED
  BY <1>2, <1>4, <1>5 DEF BrokerInv

\* A message goes into the pool of its shard.
LEMMA BrokerReceive ==
  ASSUME OnceInv, BrokerInv, NEW s \in Shard, NEW m \in txMsgs, HandleReceiveTxs(s, m),
         UNCHANGED brokerVars
  PROVE  BrokerInv'
<1>1. /\ UNCHANGED <<unsent, done, proposal, infoMsgs, confirmStage, ready1, ready2, againMsgs>>
      /\ txMsgs' = txMsgs \ {m}
      /\ pool' = [pool EXCEPT ![s] = @ \cup m.txs]
  BY DEF HandleReceiveTxs, supVars, histVars, brokerVars, managerVars
<1>2. \A r \in Shard : BlockTxs(r)' = BlockTxs(r)
  BY <1>1 DEF BlockTxs, Tx, TxId
<1>3. \A r \in Shard : pool'[r] = IF r = s THEN pool[r] \cup m.txs ELSE pool[r]
  BY <1>1 DEF OnceInv, TxTypes
<1>4. \A i \in TxId : /\ InAgain(i)' <=> InAgain(i)
                      /\ InConfirm(i)' <=> InConfirm(i)
                      /\ InBlock(i)' <=> InBlock(i)
  BY <1>1, <1>2 DEF InAgain, InConfirm, Confirms, InBlock, Has
<1>5. \A i \in TxId : InMsgs(i)' \/ InPool(i)' <=> InMsgs(i) \/ InPool(i)
  BY <1>1, <1>3 DEF InMsgs, InPool, Has
<1>6. ManagerTypes' /\ ManagerInv' /\ Present'
  BY <1>1, <1>4, <1>5 DEF BrokerInv, ManagerTypes, ManagerInv, Stands, OnFile, Present, TxId
<1>7. ManagerApart'
  BY <1>1, <1>4, <1>5 DEF BrokerInv, ManagerApart, Confirms, TxId
<1>8. ExpectedInv'
  BY <1>1, <1>2, <1>3 DEF BrokerInv, ExpectedInv, Expected, OnFile
<1> QED
  BY <1>6, <1>7, <1>8 DEF BrokerInv

\* A leader takes transactions T out of its pool, sends F of them on and G back
\* to the supervisor, and packs the others.
LEMMA BrokerRepack ==
  ASSUME OnceInv, BrokerInv, NEW s \in Shard, NEW T \in SUBSET pool[s],
         NEW F \in SUBSET T, NEW G \in SUBSET (T \ F), NEW at,
         \A t \in F : at[KeyAcc(t)] \in Shard,
         \A t \in G : t.stage = "normal",
         UNCHANGED <<unsent, done, infoMsgs, managerVars>>,
         pool' = [pool EXCEPT ![s] = @ \ T],
         txMsgs' = txMsgs \cup TxMsgsFor(F, at),
         againMsgs' = SentAgain(G),
         \A r \in Shard \ {s} : BlockTxs(r)' = BlockTxs(r),
         BlockTxs(s)' = BlockTxs(s) \cup (T \ (F \cup G))
  PROVE  BrokerInv'
<1> DEFINE P == T \ (F \cup G)
           again == {t.id : t \in G}
<1>1. UNCHANGED <<confirmStage, ready1, ready2>>
  BY DEF managerVars
<1>2. /\ T \subseteq Tx
      /\ \A t \in T : /\ t.id \in TxId /\ Expected(t) /\ TokenOK(t)
                      /\ InPool(t.id) /\ t.id \notin unsent /\ ~InMsgs(t.id) /\ ~InBlock(t.id)
                      /\ ~InAgain(t.id) /\ t.id \notin ready1 /\ t.id \notin ready2
                      /\ ~InConfirm(t.id)
  <2>1. T \subseteq Tx /\ \A t \in T : Expected(t) /\ TokenOK(t)
    BY DEF OnceInv, TxTypes, DoneInv, BrokerInv, ExpectedInv
  <2>2. \A t \in T : t.id \in TxId /\ InPool(t.id)
    BY <2>1 DEF Tx, InPool, Has
  <2> QED
    BY <2>1, <2>2, Exclusive DEF OnceInv, Apart, BrokerInv, ManagerApart
<1>3. Unique(T)
  BY DEF OnceInv, PoolsInv, Unique
<1>4. \A r \in Shard : pool'[r] = IF r = s THEN pool[r] \ T ELSE pool[r]
  BY DEF OnceInv, TxTypes
<1>5. \A i \in TxId : InAgain(i)' <=> InAgain(i) \/ Has(G, i)
  <2>1. \A i : i \in again <=> Has(G, i)
    BY DEF Has
  <2>2. \A m : m \in againMsgs' <=> m \in againMsgs \/ (m = again /\ again # {})
    BY DEF SentAgain
  <2> HIDE DEF again
  <2> QED
    BY <2>1, <2>2 DEF InAgain
<1>6. \A i \in TxId : InMsgs(i)' <=> InMsgs(i) \/ Has(F, i)
  <2>1. \A i \in TxId : InMsgs(i) \/ Has(F, i) => InMsgs(i)'
    BY MsgsArrive
  <2>2. \A m \in txMsgs' : m \in txMsgs \/ m.txs \subseteq F
    BY MsgsFor
  <2>3. \A i \in TxId : InMsgs(i)' => InMsgs(i) \/ Has(F, i)
    BY <2>2 DEF InMsgs, Has
  <2> QED
    BY <2>1, <2>3
<1>7. \A i \in TxId : /\ InPool(i)' => InPool(i) /\ ~Has(T, i)
                      /\ InPool(i) => InPool(i)' \/ Has(T, i)
  <2>1. ASSUME NEW i \in TxId, InPool(i)' PROVE InPool(i) /\ ~Has(T, i)
    <3>1. PICK r \in Shard : \E t \in pool'[r] : t.id = i
      BY <2>1 DEF InPool, Has
    <3>2. PICK t \in pool[r] : t.id = i /\ (r = s => t \notin T)
      BY <1>4, <3>1
    <3>3. ASSUME NEW u \in T, u.id = i PROVE FALSE
      BY <3>1, <3>2, <3>3 DEF OnceInv, PoolsInv, Unique, Has
    <3> QED
      BY <3>1, <3>2, <3>3 DEF InPool, Has
  <2>2. ASSUME NEW i \in TxId, InPool(i) PROVE InPool(i)' \/ Has(T, i)
    BY <1>4, <2>2 DEF InPool, Has
  <2> QED
    BY <2>1, <2>2
<1>8. \A i \in TxId : InBlock(i)' <=> InBlock(i) \/ Has(P, i)
  BY DEF InBlock, Has
<1>9. \A i \in TxId : /\ InConfirm(i)' <=> InConfirm(i)
                      /\ Has(T, i) <=> Has(F, i) \/ Has(G, i) \/ Has(P, i)
                      /\ Has(G, i) => ~Has(F, i) /\ ~Has(P, i)
  BY <1>3 DEF InConfirm, Confirms, Has, Unique
<1>10. ManagerTypes'
  BY <1>1, <1>2 DEF BrokerInv, ManagerTypes, SentAgain, TxId
<1>11. ManagerInv'
  <2>1. \A i \in TxId : Has(G, i) => Stands(i, "none", 0)
    BY <1>2 DEF Has, Stands, Expected, OnFile, TokenOK, SecondHalf
  <2>2. \A i, stage, debit : Stands(i, stage, debit)' <=> Stands(i, stage, debit)
    BY <1>1 DEF Stands
  <2>3. \A i \in TxId : /\ InAgain(i)' => Stands(i, "none", 0)'
                        /\ i \in ready1' => Stands(i, "wait1", 0)'
                        /\ i \in ready2' => Stands(i, "wait2", 1)'
                        /\ InConfirm(i)' => Stands(i, "wait1", 1)'
    BY <1>1, <1>5, <1>9, <2>1, <2>2 DEF BrokerInv, ManagerInv
  <2> QED
    BY <1>1, <2>3 DEF BrokerInv, ManagerInv, OnFile, TxId
<1>12. ExpectedInv'
  <2>1. \A t : Expected(t)' <=> Expected(t)
    BY <1>1 DEF Expected, OnFile
  <2>2. \A m \in txMsgs' : m \in txMsgs \/ m.txs \subseteq F
    BY MsgsFor
  <2> QED
    BY <1>2, <1>4, <2>1, <2>2 DEF BrokerInv, ExpectedInv
<1>13. ManagerApart'
  <2>1. \A m, k \in againMsgs' : \A i \in TxId : i \in m /\ i \in k => m = k
    <3>1. againMsgs' \subseteq againMsgs \cup {again}
      BY DEF SentAgain
    <3>2. \A i \in again : ~InAgain(i)
      BY <1>2
    <3> QED
      <4> HIDE DEF again
      <4> QED
        BY <3>1, <3>2 DEF BrokerInv, ManagerApart, InAgain
  <2>2. \A i \in TxId : InAgain(i)' \/ i \in ready1' \/ i \in ready2' =>
          i \notin unsent' /\ ~InMsgs(i)' /\ ~InPool(i)' /\ ~InBlock(i)'
    <3>1. ASSUME NEW i \in TxId, Has(G, i)
          PROVE  i \notin unsent' /\ ~InMsgs(i)' /\ ~InPool(i)' /\ ~InBlock(i)'
      BY <1>2, <1>6, <1>7, <1>8, <1>9, <3>1 DEF Has
    <3>2. ASSUME NEW i \in TxId, InAgain(i) \/ i \in ready1 \/ i \in ready2
          PROVE  i \notin unsent' /\ ~InMsgs(i)' /\ ~InPool(i)' /\ ~InBlock(i)'
      <4>1. ~Has(T, i)
        BY <1>2, <3>2 DEF Has
      <4> QED
        BY <1>6, <1>7, <1>8, <1>9, <3>2, <4>1 DEF BrokerInv, ManagerApart
    <3> QED
      BY <1>1, <1>5, <3>1, <3>2
  <2> QED
    BY <2>1, <2>2 DEF BrokerInv, ManagerApart, Confirms, TxId
<1>14. Present'
  BY <1>1, <1>5, <1>6, <1>7, <1>8, <1>9 DEF BrokerInv, Present, TxId
<1> QED
  BY <1>10, <1>11, <1>12, <1>13, <1>14 DEF BrokerInv

\* A block of transactions is executed: its first halves wait for their
\* confirmation, the other payments are complete.
LEMMA BrokerExecute ==
  ASSUME MigInv, OnceInv, BrokerInv, NEW s \in Shard, CommitTxBlock(s)
  PROVE  BrokerInv' /\ OnceInv'
<1>1. PICK b \in proposal[s] : b.type = "tx" /\ AddTxBlock(s, b.txs)
  BY DEF CommitTxBlock
<1>2. /\ UNCHANGED <<unsent, pool, txMsgs, confirmStage, ready1, ready2, againMsgs>>
      /\ infoMsgs' = infoMsgs \cup {[shard |-> s, epoch |-> chainEpoch[s], txs |-> b.txs]}
      /\ proposal' = [proposal EXCEPT ![s] = {}]
  BY <1>1 DEF CommitTxBlock, AddTxBlock, supVars, brokerVars, managerVars
<1>3. /\ BlockTxs(s) = b.txs
      /\ done' \in [TxId -> [debit : {0, 1}, credit : {0, 1}]]
      /\ \A i \in TxId : ~Has(b.txs, i) => done'[i] = done[i]
      /\ \A t \in b.txs : /\ t.id \in TxId
                          /\ done'[t.id].debit = 1
                          /\ done'[t.id].credit = IF t.stage \in FirstHalf THEN 0 ELSE 1
  BY <1>1, DoneFacts
<1>4. OnceInv'
  <2>1. txMsgs' = txMsgs \cup TxMsgsFor({}, loc[s])
    BY <1>2 DEF TxMsgsFor
  <2>2. {} \in SUBSET Tx /\ Unique({})
    BY DEF Unique
  <2> QED
    BY <1>1, <2>1, <2>2, OnceExecute
<1>5. \A r \in Shard : BlockTxs(r)' = IF r = s THEN {} ELSE BlockTxs(r)
  BY <1>2 DEF BlockTxs, MigInv, StateTypes, Tx, TxId
<1>6. \A i \in TxId : Has(b.txs, i) =>
        /\ i \notin unsent /\ ~InMsgs(i) /\ ~InPool(i)
        /\ ~InAgain(i) /\ i \notin ready1 /\ i \notin ready2 /\ ~InConfirm(i)
  <2>1. \A i \in TxId : Has(b.txs, i) => InBlock(i)
    BY <1>3 DEF InBlock
  <2> QED
    BY <2>1, Exclusive DEF OnceInv, Apart, BrokerInv, ManagerApart
<1>7. \A t \in b.txs : t \in Tx /\ Expected(t) /\ TokenOK(t)
  BY <1>3 DEF BlockTxs, BrokerInv, ExpectedInv, OnceInv, DoneInv
<1>8. \A i \in TxId : /\ InAgain(i)' <=> InAgain(i)
                      /\ InMsgs(i)' <=> InMsgs(i)
                      /\ InPool(i)' <=> InPool(i)
                      /\ InBlock(i)' => InBlock(i)
                      /\ InBlock(i) => InBlock(i)' \/ Has(b.txs, i)
  BY <1>2, <1>3, <1>5 DEF InAgain, InMsgs, InPool, InBlock, Has
<1>9. \A i \in TxId : InConfirm(i)' <=>
        InConfirm(i) \/ [id |-> i, stage |-> "sigma1"] \in b.txs
  <2> DEFINE info == [shard |-> s, epoch |-> chainEpoch[s], txs |-> b.txs]
  <2>1. \A m : m \in infoMsgs' <=> m \in infoMsgs \/ m = info
    BY <1>2
  <2>2. info.txs = b.txs
    OBVIOUS
  <2> HIDE DEF info
  <2>3. \A i \in TxId : InConfirm(i)' <=> InConfirm(i) \/ Confirms(info, i)
    BY <2>1, Zenon DEF InConfirm, Confirms
  <2> QED
    BY <2>2, <2>3 DEF Confirms
<1>10. ManagerTypes' /\ ExpectedInv'
  BY <1>2, <1>5 DEF BrokerInv, ManagerTypes, ExpectedInv, Expected, OnFile, TxId
<1>11. ManagerInv'
  <2>1. ASSUME NEW i \in TxId, NEW stage, NEW debit, Stands(i, stage, debit),
               InAgain(i) \/ i \in ready1 \/ i \in ready2 \/ InConfirm(i)
        PROVE  Stands(i, stage, debit)'
    BY <1>2, <1>3, <1>6, <2>1 DEF Stands
  <2>2. ASSUME NEW i \in TxId, [id |-> i, stage |-> "sigma1"] \in b.txs
        PROVE  Stands(i, "wait1", 1)'
    BY <1>2, <1>3, <1>7, <2>2 DEF Stands, Expected, OnFile, FirstHalf
  <2>3. \A i \in TxId : /\ InAgain(i)' => Stands(i, "none", 0)'
                        /\ i \in ready1' => Stands(i, "wait1", 0)'
                        /\ i \in ready2' => Stands(i, "wait2", 1)'
                        /\ InConfirm(i)' => Stands(i, "wait1", 1)'
    BY <1>2, <1>8, <1>9, <2>1, <2>2 DEF BrokerInv, ManagerInv
  <2>4. ASSUME NEW m \in infoMsgs', NEW t \in m.txs
        PROVE  t.stage \in DOMAIN OnFile /\ (t.stage = "sigma2" => done'[t.id].credit = 1)
    <3>1. CASE m \in infoMsgs
      <4>1. t.id \in TxId /\ t.stage \in DOMAIN OnFile /\ (t.stage = "sigma2" => done[t.id].credit = 1)
        BY <3>1, <2>4 DEF BrokerInv, ManagerInv, MigInv, EpochTypes, Tx
      <4>2. Has(b.txs, t.id) => done[t.id].credit = 0
        BY <1>7 DEF TokenOK, Has
      <4> QED
        BY <1>3, <4>1, <4>2
    <3>2. CASE m \notin infoMsgs
      BY <1>2, <1>3, <1>7, <2>4, <3>2 DEF Expected, FirstHalf
    <3> QED
      BY <3>1, <3>2
  <2> QED
    BY <1>2, <2>3, <2>4 DEF BrokerInv, ManagerInv, OnFile, TxId
<1>12. ManagerApart'
  <2>1. ASSUME NEW m \in infoMsgs', NEW k \in infoMsgs', NEW i \in TxId, Confirms(m, i), Confirms(k, i)
        PROVE  m = k
    BY <1>2, <1>6, <2>1 DEF BrokerInv, ManagerApart, Confirms, InConfirm, Has
  <2> QED
    BY <1>2, <1>8, <2>1 DEF BrokerInv, ManagerApart, Confirms, TxId
<1>13. Present'
  <2>1. ASSUME NEW i \in TxId, done'[i].credit = 0, Has(b.txs, i) PROVE InConfirm(i)'
    <3>1. PICK t \in b.txs : t.id = i
      BY <2>1 DEF Has
    <3>2. t.stage = "sigma1"
      BY <1>3, <1>7, <2>1, <3>1 DEF Expected, OnFile, FirstHalf
    <3>3. t = [id |-> i, stage |-> "sigma1"]
      BY <1>7, <3>1, <3>2 DEF Tx
    <3> QED
      BY <1>9, <3>3
  <2> QED
    BY <1>2, <1>3, <1>8, <1>9, <2>1 DEF BrokerInv, Present, TxId
<1> QED
  BY <1>4, <1>10, <1>11, <1>12, <1>13 DEF BrokerInv

\* Where no transaction moves, the ones under way are still expected if the file
\* of their payment has not changed.
LEMMA ExpectedKept ==
  ASSUME OnceInv, BrokerInv, UNCHANGED <<txMsgs, pool>>,
         \A s \in Shard : BlockTxs(s)' = BlockTxs(s),
         \A i \in TxId : done[i].credit = 0 /\ (InMsgs(i) \/ InPool(i) \/ InBlock(i)) =>
           confirmStage'[i] = confirmStage[i]
  PROVE  ExpectedInv'
<1>1. ASSUME NEW m \in txMsgs, NEW t \in m.txs PROVE Expected(t)'
  <2>1. t.id \in TxId /\ Expected(t) /\ TokenOK(t) /\ InMsgs(t.id)
    BY DEF OnceInv, TxTypes, Tx, DoneInv, BrokerInv, ExpectedInv, InMsgs, Has
  <2> QED
    BY <2>1 DEF Expected, OnFile, TokenOK
<1>2. ASSUME NEW s \in Shard, NEW t \in pool[s] PROVE Expected(t)'
  <2>1. t.id \in TxId /\ Expected(t) /\ TokenOK(t) /\ InPool(t.id)
    BY DEF OnceInv, TxTypes, Tx, DoneInv, BrokerInv, ExpectedInv, InPool, Has
  <2> QED
    BY <2>1 DEF Expected, OnFile, TokenOK
<1>3. ASSUME NEW s \in Shard, NEW t \in BlockTxs(s) PROVE Expected(t)'
  <2>1. t \in Tx
    BY DEF BlockTxs
  <2>2. t.id \in TxId /\ Expected(t) /\ TokenOK(t) /\ InBlock(t.id)
    BY <2>1 DEF Tx, OnceInv, DoneInv, BrokerInv, ExpectedInv, InBlock, Has
  <2> QED
    BY <2>2 DEF Expected, OnFile, TokenOK
<1> QED
  BY <1>1, <1>2, <1>3 DEF ExpectedInv

\* The supervisor takes an info: the payments whose first half it confirms move
\* to the list of the second halves, and those whose second half it confirms
\* leave the file.
LEMMA BrokerConfirm ==
  ASSUME MigInv, OnceInv, BrokerInv, NEW m \in infoMsgs, HandleBlockInfo(m)
  PROVE  BrokerInv'
<1> DEFINE C1 == Confirmed(m, "sigma1")
           C2 == Confirmed(m, "sigma2")
<1>1. /\ UNCHANGED <<unsent, pool, proposal, txMsgs, done, ready1, againMsgs>>
      /\ infoMsgs' = infoMsgs \ {m}
      /\ ready2' = ready2 \cup C1
      /\ confirmStage' = [i \in TxId |-> CASE i \in C1 -> "wait2"
                                           [] i \in C2 -> "none"
                                           [] OTHER -> confirmStage[i]]
  BY DEF HandleBlockInfo, NoteEpoch, histVars
<1>2. \A t \in m.txs : t \in Tx /\ t.id \in TxId
  BY DEF MigInv, EpochTypes, Tx
<1>3. /\ C1 \subseteq TxId /\ C2 \subseteq TxId
      /\ \A i \in TxId : i \in C1 <=> Confirms(m, i)
      /\ \A i \in C2 : done[i].credit = 1
      /\ \A i \in C1 : i \notin C2
  <2>1. \A i \in TxId : (\E t \in m.txs : t.stage = "sigma1" /\ t.id = i) <=> Confirms(m, i)
    BY <1>2 DEF Confirms, Tx
  <2>2. \A i \in TxId : Confirms(m, i) => confirmStage[i] = "wait1"
    BY DEF BrokerInv, ManagerInv, InConfirm, Stands
  <2>3. C1 \subseteq TxId /\ \A i \in TxId : i \in C1 <=> Confirms(m, i)
    BY <1>2, <2>1, <2>2 DEF Confirmed
  <2>4. C2 \subseteq TxId /\ \A i \in C2 : done[i].credit = 1
    BY <1>2 DEF Confirmed, BrokerInv, ManagerInv
  <2>5. \A i \in C1 : i \notin C2
    BY DEF Confirmed
  <2> QED
    BY <2>3, <2>4, <2>5
<1> HIDE DEF C1, C2
<1>4. \A i \in TxId : confirmStage'[i] = IF i \in C1 THEN "wait2"
                                         ELSE IF i \in C2 THEN "none" ELSE confirmStage[i]
  BY <1>1, <1>3
<1>5. \A i \in C1 : /\ InConfirm(i) /\ Stands(i, "wait1", 1) /\ i \notin unsent
                    /\ ~InMsgs(i) /\ ~InPool(i) /\ ~InBlock(i)
                    /\ ~InAgain(i) /\ i \notin ready1 /\ i \notin ready2
  <2>1. \A i \in C1 : i \in TxId /\ InConfirm(i)
    BY <1>3 DEF InConfirm
  <2> QED
    BY <2>1, Exclusive DEF BrokerInv, ManagerInv
<1>6. \A s \in Shard : BlockTxs(s)' = BlockTxs(s)
  BY <1>1 DEF BlockTxs, Tx, TxId
<1>7. \A i \in TxId : /\ InAgain(i)' <=> InAgain(i)
                      /\ InMsgs(i)' <=> InMsgs(i)
                      /\ InPool(i)' <=> InPool(i)
                      /\ InBlock(i)' <=> InBlock(i)
  BY <1>1, <1>6 DEF InAgain, InMsgs, InPool, InBlock, Has
<1>8. \A i \in TxId : InConfirm(i)' <=> InConfirm(i) /\ i \notin C1
  <2>1. ASSUME NEW i \in TxId, InConfirm(i)' PROVE InConfirm(i) /\ i \notin C1
    BY <1>1, <1>3, <2>1 DEF InConfirm, Confirms, BrokerInv, ManagerApart
  <2>2. ASSUME NEW i \in TxId, InConfirm(i), i \notin C1 PROVE InConfirm(i)'
    BY <1>1, <1>3, <2>2 DEF InConfirm, Confirms
  <2> QED
    BY <2>1, <2>2
<1>9. ManagerTypes'
  BY <1>1, <1>3 DEF BrokerInv, ManagerTypes, TxId
<1>10. ASSUME NEW i \in TxId, done[i].credit = 0, i \notin C1 PROVE confirmStage'[i] = confirmStage[i]
  BY <1>3, <1>4, <1>10
<1>11. ManagerInv'
  <2>1. ASSUME NEW i \in TxId, NEW stage, NEW debit, Stands(i, stage, debit), i \notin C1
        PROVE  Stands(i, stage, debit)'
    BY <1>1, <1>10, <2>1 DEF Stands
  <2>2. \A i \in C1 : Stands(i, "wait2", 1)'
    BY <1>1, <1>3, <1>4, <1>5 DEF Stands
  <2>3. \A i \in TxId : /\ InAgain(i)' => Stands(i, "none", 0)'
                        /\ i \in ready1' => Stands(i, "wait1", 0)'
                        /\ i \in ready2' => Stands(i, "wait2", 1)'
                        /\ InConfirm(i)' => Stands(i, "wait1", 1)'
    BY <1>1, <1>5, <1>7, <1>8, <2>1, <2>2 DEF BrokerInv, ManagerInv
  <2>4. \A i \in unsent' : confirmStage'[i] = "none"
    BY <1>1, <1>5, <1>10 DEF BrokerInv, ManagerInv, OnceInv, DoneInv, TxTypes
  <2> QED
    BY <1>1, <2>3, <2>4 DEF BrokerInv, ManagerInv, OnFile, TxId
<1>12. ExpectedInv'
  BY <1>1, <1>5, <1>6, <1>10, ExpectedKept
<1>13. ManagerApart'
  <2>1. \A i \in TxId : InAgain(i)' \/ i \in ready1' \/ i \in ready2' =>
          i \notin unsent' /\ ~InMsgs(i)' /\ ~InPool(i)' /\ ~InBlock(i)'
    BY <1>1, <1>5, <1>7 DEF BrokerInv, ManagerApart
  <2> QED
    BY <1>1, <2>1 DEF BrokerInv, ManagerApart, Confirms, TxId
<1>14. Present'
  BY <1>1, <1>7, <1>8 DEF BrokerInv, Present, TxId
<1> QED
  BY <1>9, <1>11, <1>12, <1>13, <1>14 DEF BrokerInv

\* The supervisor takes payments that come back: all of them are new to the
\* brokers, which record them and put them on the list of the first halves.
LEMMA BrokerSendAgain ==
  ASSUME OnceInv, BrokerInv, NEW m \in againMsgs, HandleSendAgain(m)
  PROVE  BrokerInv'
<1>1. m \subseteq TxId /\ \A i \in m : InAgain(i) /\ Stands(i, "none", 0)
  <2>1. m \subseteq TxId /\ \A i \in m : InAgain(i)
    BY DEF BrokerInv, ManagerTypes, InAgain
  <2> QED
    BY <2>1 DEF BrokerInv, ManagerInv
<1>2. Recorded(m) = {m}
  BY <1>1 DEF Recorded, Stands
<1>3. /\ UNCHANGED <<unsent, pool, proposal, txMsgs, infoMsgs, done, ready2>>
      /\ againMsgs' = againMsgs \ {m}
      /\ ready1' = ready1 \cup m
      /\ confirmStage' = [i \in TxId |-> IF i \in m THEN "wait1" ELSE confirmStage[i]]
  BY <1>2 DEF HandleSendAgain, sharedVars, supVars, netVars, histVars
<1>4. \A s \in Shard : BlockTxs(s)' = BlockTxs(s)
  BY <1>3 DEF BlockTxs, Tx, TxId
<1>5. \A i \in TxId : /\ InConfirm(i)' <=> InConfirm(i)
                      /\ InMsgs(i)' <=> InMsgs(i)
                      /\ InPool(i)' <=> InPool(i)
                      /\ InBlock(i)' <=> InBlock(i)
  BY <1>3, <1>4 DEF InConfirm, Confirms, InMsgs, InPool, InBlock, Has
<1>6. \A i \in TxId : InAgain(i)' <=> InAgain(i) /\ i \notin m
  BY <1>3 DEF InAgain, BrokerInv, ManagerApart
<1>7. \A i \in m : /\ i \notin unsent /\ ~InMsgs(i) /\ ~InPool(i) /\ ~InBlock(i)
                   /\ i \notin ready1 /\ i \notin ready2 /\ ~InConfirm(i)
  BY <1>1, Exclusive DEF BrokerInv, ManagerApart
<1>8. ManagerTypes'
  BY <1>1, <1>3 DEF BrokerInv, ManagerTypes, TxId
<1>9. ManagerInv'
  <2>1. ASSUME NEW i \in TxId, NEW stage, NEW debit, Stands(i, stage, debit), i \notin m
        PROVE  Stands(i, stage, debit)'
    BY <1>3, <2>1 DEF Stands
  <2>2. \A i \in m : Stands(i, "wait1", 0)'
    BY <1>1, <1>3 DEF Stands
  <2>3. \A i \in TxId : /\ InAgain(i)' => Stands(i, "none", 0)'
                        /\ i \in ready1' => Stands(i, "wait1", 0)'
                        /\ i \in ready2' => Stands(i, "wait2", 1)'
                        /\ InConfirm(i)' => Stands(i, "wait1", 1)'
    BY <1>3, <1>5, <1>6, <1>7, <2>1, <2>2 DEF BrokerInv, ManagerInv
  <2>4. \A i \in unsent' : confirmStage'[i] = "none"
    BY <1>3, <1>7 DEF BrokerInv, ManagerInv, OnceInv, TxTypes
  <2> QED
    BY <1>3, <2>3, <2>4 DEF BrokerInv, ManagerInv, OnFile, TxId
<1>10. ExpectedInv'
  BY <1>3, <1>4, <1>7, ExpectedKept
<1>11. ManagerApart'
  <2>1. \A i \in TxId : InAgain(i)' \/ i \in ready1' \/ i \in ready2' =>
          i \notin unsent' /\ ~InMsgs(i)' /\ ~InPool(i)' /\ ~InBlock(i)'
    BY <1>3, <1>5, <1>6, <1>7 DEF BrokerInv, ManagerApart
  <2> QED
    BY <1>3, <2>1 DEF BrokerInv, ManagerApart, Confirms, TxId
<1>12. Present'
  BY <1>3, <1>5, <1>6 DEF BrokerInv, Present, TxId
<1> QED
  BY <1>8, <1>9, <1>10, <1>11, <1>12 DEF BrokerInv

\* Transactions of payments S in a stage.
Txs(S, stage) == {[id |-> i, stage |-> stage] : i \in S}

\* What the supervisor sends when it takes payments T from the source, cross of
\* them between shards.
Outgoing(T, cross) ==
  Txs(T \ cross, "normal") \cup Txs(ready1 \cup cross, "sigma1") \cup Txs(ready2, "sigma2")

\* The supervisor records all the payments between shards it takes from the
\* source, and sends every payment of its lists.
LEMMA SendFacts ==
  ASSUME OnceInv, BrokerInv, SupSendTxs
  PROVE  \E T \in SUBSET unsent : \E cross \in SUBSET T :
           /\ unsent' = unsent \ T
           /\ confirmStage' = [i \in TxId |-> IF i \in cross THEN "wait1" ELSE confirmStage[i]]
           /\ txMsgs' = txMsgs \cup TxMsgsFor(Outgoing(T, cross), vertexLoc)
<1>1. PICK T \in SUBSET unsent :
        LET cross == {i \in T : vertexLoc[Pay[i].from] # vertexLoc[Pay[i].to]}
        IN  /\ unsent' = unsent \ T
            /\ \E S \in Recorded(cross) :
                 /\ confirmStage' =
                      [i \in TxId |-> IF i \in S THEN "wait1" ELSE confirmStage[i]]
                 /\ txMsgs' = txMsgs \cup TxMsgsFor(
                      {[id |-> i, stage |-> "normal"] : i \in T \ cross}
                      \cup {[id |-> i, stage |-> "sigma1"] :
                              i \in {j \in ready1 \cup S : confirmStage'[j] = "wait1"}}
                      \cup {[id |-> i, stage |-> "sigma2"] :
                              i \in {j \in ready2 : confirmStage'[j] = "wait2"}}, vertexLoc)
  BY DEF SupSendTxs
<1> DEFINE cross == {i \in T : vertexLoc[Pay[i].from] # vertexLoc[Pay[i].to]}
<1>2. cross \in SUBSET T
  OBVIOUS
<1>3. Recorded(cross) = {cross}
  <2>1. \A i \in cross : confirmStage[i] = "none"
    BY DEF BrokerInv, ManagerInv
  <2> HIDE DEF cross
  <2> QED
    BY <2>1 DEF Recorded
<1>4. /\ confirmStage' = [i \in TxId |-> IF i \in cross THEN "wait1" ELSE confirmStage[i]]
      /\ txMsgs' = txMsgs \cup TxMsgsFor(
           {[id |-> i, stage |-> "normal"] : i \in T \ cross}
           \cup {[id |-> i, stage |-> "sigma1"] :
                   i \in {j \in ready1 \cup cross : confirmStage'[j] = "wait1"}}
           \cup {[id |-> i, stage |-> "sigma2"] :
                   i \in {j \in ready2 : confirmStage'[j] = "wait2"}}, vertexLoc)
  BY <1>1, <1>3
<1> HIDE DEF cross
<1>5. {j \in ready1 \cup cross : confirmStage'[j] = "wait1"} = ready1 \cup cross
  BY <1>2, <1>4 DEF BrokerInv, ManagerTypes, ManagerInv, Stands, OnceInv, TxTypes
<1>6. {j \in ready2 : confirmStage'[j] = "wait2"} = ready2
  <2>1. \A j \in ready2 : j \in TxId /\ j \notin unsent /\ confirmStage[j] = "wait2"
    BY DEF BrokerInv, ManagerTypes, ManagerInv, ManagerApart, Stands
  <2> QED
    BY <1>2, <1>4, <2>1
<1>7. txMsgs' = txMsgs \cup TxMsgsFor(Outgoing(T, cross), vertexLoc)
  BY <1>4, <1>5, <1>6 DEF Outgoing, Txs
<1> QED
  BY <1>1, <1>2, <1>4, <1>7

\* The supervisor sends: every payment it takes from the source or from a list
\* is under way, once.
LEMMA BrokerSend ==
  ASSUME MigInv, OnceInv, BrokerInv, SupSendTxs
  PROVE  OnceInv' /\ BrokerInv'
<1>1. PICK T \in SUBSET unsent : \E cross \in SUBSET T :
        /\ unsent' = unsent \ T
        /\ confirmStage' = [i \in TxId |-> IF i \in cross THEN "wait1" ELSE confirmStage[i]]
        /\ txMsgs' = txMsgs \cup TxMsgsFor(Outgoing(T, cross), vertexLoc)
  BY SendFacts
<1>2. PICK cross \in SUBSET T :
        /\ unsent' = unsent \ T
        /\ confirmStage' = [i \in TxId |-> IF i \in cross THEN "wait1" ELSE confirmStage[i]]
        /\ txMsgs' = txMsgs \cup TxMsgsFor(Outgoing(T, cross), vertexLoc)
  BY <1>1
<1> DEFINE F == Outgoing(T, cross)
<1>3. /\ UNCHANGED <<pool, proposal, loc, infoMsgs, done, againMsgs>>
      /\ ready1' = {} /\ ready2' = {}
  BY DEF SupSendTxs, Ready2Left, chainVars, histVars
<1>4. \A f \in F : \/ f.id \in T \ cross /\ f.stage = "normal"
                   \/ f.id \in ready1 \cup cross /\ f.stage = "sigma1"
                   \/ f.id \in ready2 /\ f.stage = "sigma2"
  BY DEF Outgoing, Txs
<1>5. \A i : Has(F, i) <=> i \in T \cup ready1 \cup ready2
  <2>1. /\ \A i \in T \ cross : [id |-> i, stage |-> "normal"] \in F
        /\ \A i \in ready1 \cup cross : [id |-> i, stage |-> "sigma1"] \in F
        /\ \A i \in ready2 : [id |-> i, stage |-> "sigma2"] \in F
    BY DEF Outgoing, Txs
  <2> HIDE DEF F
  <2>2. ASSUME NEW i, i \in T \cup ready1 \cup ready2 PROVE Has(F, i)
    <3>1. PICK stage : [id |-> i, stage |-> stage] \in F
      BY <2>1, <2>2
    <3>2. [id |-> i, stage |-> stage].id = i
      OBVIOUS
    <3> QED
      BY <3>1, <3>2, Zenon DEF Has
  <2>3. ASSUME NEW i, Has(F, i) PROVE i \in T \cup ready1 \cup ready2
    BY <1>4, <2>3 DEF Has
  <2> QED
    BY <2>2, <2>3
<1>6. /\ \A i \in T : /\ i \in TxId /\ Stands(i, "none", 0) /\ ~InMsgs(i) /\ ~InPool(i)
                      /\ ~InBlock(i) /\ ~InAgain(i) /\ i \notin ready1 /\ i \notin ready2
                      /\ ~InConfirm(i)
      /\ \A i \in ready1 : /\ i \in TxId /\ Stands(i, "wait1", 0) /\ i \notin unsent
                           /\ ~InMsgs(i) /\ ~InPool(i) /\ ~InBlock(i) /\ ~InAgain(i)
                           /\ i \notin ready2
      /\ \A i \in ready2 : /\ i \in TxId /\ Stands(i, "wait2", 1) /\ i \notin unsent
                           /\ ~InMsgs(i) /\ ~InPool(i) /\ ~InBlock(i) /\ ~InAgain(i)
  <2>1. T \subseteq TxId /\ ready1 \subseteq TxId /\ ready2 \subseteq TxId
    BY DEF OnceInv, TxTypes, BrokerInv, ManagerTypes
  <2>2. \A i \in T : Stands(i, "none", 0) /\ ~InMsgs(i) /\ ~InPool(i) /\ ~InBlock(i)
    BY <2>1 DEF OnceInv, Apart, DoneInv, BrokerInv, ManagerInv, Stands
  <2>3. /\ \A i \in ready1 : Stands(i, "wait1", 0)
        /\ \A i \in ready2 : Stands(i, "wait2", 1)
        /\ \A i \in ready1 \cup ready2 : i \notin unsent /\ ~InMsgs(i) /\ ~InPool(i) /\ ~InBlock(i)
    BY <2>1 DEF BrokerInv, ManagerInv, ManagerApart
  <2> QED
    BY <2>1, <2>2, <2>3, Exclusive
<1>7. F \in SUBSET Tx
  BY <1>6 DEF Outgoing, Txs, Tx, FirstHalf, SecondHalf
<1> HIDE DEF F
<1>8. Unique(F)
  <2>1. ASSUME NEW f \in F, NEW g \in F, f.id = g.id PROVE f.stage = g.stage
    BY <1>4, <1>6, <2>1
  <2> QED
    BY <1>7, <2>1 DEF Unique, Tx
<1>9. \A f \in F : /\ TokenOK(f) /\ f.id \notin unsent'
                   /\ ~InMsgs(f.id) /\ ~InPool(f.id) /\ ~InBlock(f.id)
  BY <1>2, <1>4, <1>6 DEF TokenOK, Stands, SecondHalf
<1>10. txMsgs' = txMsgs \cup TxMsgsFor(F, vertexLoc)
  BY <1>2 DEF F
<1>11. OnceInv'
  BY <1>2, <1>3, <1>7, <1>8, <1>9, <1>10, OnceSend
<1>12. \A i \in TxId : InMsgs(i)' <=> InMsgs(i) \/ Has(F, i)
  <2>1. \A f \in F : vertexLoc[KeyAcc(f)] \in Shard
    BY <1>7, RepartitionAssumption DEF MigInv, StateTypes, KeyAcc, From, To, Tx, TxId
  <2>2. \A i \in TxId : InMsgs(i) \/ Has(F, i) => InMsgs(i)'
    BY <1>10, <2>1, MsgsArrive
  <2>3. \A i \in TxId : InMsgs(i)' => InMsgs(i) \/ Has(F, i)
    BY <1>7, <1>8, <1>9, <1>10, MsgsAdded
  <2> QED
    BY <2>2, <2>3
<1>13. \A s \in Shard : BlockTxs(s)' = BlockTxs(s)
  BY <1>3 DEF BlockTxs, Tx, TxId
<1>14. \A i \in TxId : /\ InAgain(i)' <=> InAgain(i)
                       /\ InConfirm(i)' <=> InConfirm(i)
                       /\ InPool(i)' <=> InPool(i)
                       /\ InBlock(i)' <=> InBlock(i)
  BY <1>3, <1>13 DEF InAgain, InConfirm, Confirms, InPool, InBlock, Has
<1>15. \A i \in TxId : confirmStage'[i] = IF i \in cross THEN "wait1" ELSE confirmStage[i]
  BY <1>2
<1>16. ManagerTypes'
  BY <1>2, <1>3 DEF BrokerInv, ManagerTypes, TxId
<1>17. ManagerInv'
  <2>1. \A i \in unsent' : confirmStage'[i] = "none"
    BY <1>2, <1>15 DEF OnceInv, TxTypes, BrokerInv, ManagerInv
  <2>2. ASSUME NEW i \in TxId, NEW stage, NEW debit, Stands(i, stage, debit), i \notin cross
        PROVE  Stands(i, stage, debit)'
    BY <1>3, <1>15, <2>2 DEF Stands
  <2>3. \A i \in TxId : /\ InAgain(i)' => Stands(i, "none", 0)'
                        /\ InConfirm(i)' => Stands(i, "wait1", 1)'
    BY <1>6, <1>14, <2>2 DEF BrokerInv, ManagerInv
  <2> QED
    BY <1>3, <2>1, <2>3 DEF BrokerInv, ManagerInv, OnFile, TxId
<1>18. ExpectedInv'
  <2>1. ASSUME NEW t, t.id \in TxId, Expected(t), t.id \notin cross PROVE Expected(t)'
    BY <1>15, <2>1 DEF Expected, OnFile
  <2>2. \A f \in F : Expected(f)'
    BY <1>4, <1>6, <1>15 DEF Expected, OnFile, Stands
  <2>3. ASSUME NEW m \in txMsgs', NEW t \in m.txs PROVE Expected(t)'
    <3>1. CASE t \in F
      BY <2>2, <3>1
    <3>2. CASE t \notin F
      <4>1. PICK k \in txMsgs : t \in k.txs
        BY <1>7, <1>8, <1>9, <1>10, <3>2, MsgsAdded
      <4>2. t.id \in TxId /\ Expected(t) /\ InMsgs(t.id)
        BY <4>1 DEF OnceInv, TxTypes, Tx, BrokerInv, ExpectedInv, InMsgs, Has
      <4> QED
        BY <1>6, <2>1, <4>2
    <3> QED
      BY <3>1, <3>2
  <2>4. ASSUME NEW s \in Shard, NEW t \in pool[s] PROVE Expected(t)'
    <3>1. t.id \in TxId /\ Expected(t) /\ InPool(t.id)
      BY DEF OnceInv, TxTypes, Tx, BrokerInv, ExpectedInv, InPool, Has
    <3> QED
      BY <1>6, <2>1, <3>1
  <2>5. ASSUME NEW s \in Shard, NEW t \in BlockTxs(s) PROVE Expected(t)'
    <3>1. t \in Tx
      BY DEF BlockTxs
    <3>2. t.id \in TxId /\ Expected(t) /\ InBlock(t.id)
      BY <3>1 DEF Tx, BrokerInv, ExpectedInv, InBlock, Has
    <3> QED
      BY <1>6, <2>1, <3>2
  <2> QED
    BY <1>3, <1>13, <2>3, <2>4, <2>5 DEF ExpectedInv
<1>19. ManagerApart'
  <2>1. \A i \in TxId : InAgain(i) => ~Has(F, i)
    BY <1>5, <1>6
  <2>2. \A i \in TxId : InAgain(i)' \/ i \in ready1' \/ i \in ready2' =>
          i \notin unsent' /\ ~InMsgs(i)' /\ ~InPool(i)' /\ ~InBlock(i)'
    BY <1>2, <1>3, <1>12, <1>14, <2>1 DEF BrokerInv, ManagerApart
  <2> QED
    BY <1>3, <2>2 DEF BrokerInv, ManagerApart, Confirms, TxId
<1>20. Present'
  BY <1>2, <1>3, <1>5, <1>12, <1>14 DEF BrokerInv, Present, TxId
<1> QED
  BY <1>11, <1>16, <1>17, <1>18, <1>19, <1>20 DEF BrokerInv

\* What a leader packs belongs to its shard.
LEMMA PackedHere ==
  ASSUME NEW s \in Shard, NEW T \in SUBSET Tx
  PROVE  \A t \in {x \in T \ Separated(T, loc[s]) : loc[s][KeyAcc(x)] = s} :
           t.stage = "normal" => loc[s][From(t)] = s /\ loc[s][To(t)] = s
BY DEF Separated, KeyAcc, SecondHalf

\* A leader builds a block.
LEMMA BuildStep ==
  ASSUME MigInv, OnceInv, BrokerInv, NEW s \in Shard, BuildTxBlock(s)
  PROVE  (\E txs : Propose(s, txs)) /\ OnceInv' /\ BrokerInv'
<1>1. PICK T \in SUBSET pool[s] :
        LET again == Separated(T, loc[s])
            here  == {t \in T \ again : loc[s][KeyAcc(t)] = s}
        IN  /\ pool' = [pool EXCEPT ![s] = Unpacked(s, T)]
            /\ txMsgs' = txMsgs \cup TxMsgsFor(T \ (again \cup here), loc[s])
            /\ againMsgs' = SentAgain(again)
            /\ proposal' = [proposal EXCEPT ![s] = {TxBlock(here)}]
  BY DEF BuildTxBlock
<1> DEFINE again == Separated(T, loc[s])
           here  == {t \in T \ again : loc[s][KeyAcc(t)] = s}
           F     == T \ (again \cup here)
<1>2. /\ pool' = [pool EXCEPT ![s] = @ \ T]
      /\ txMsgs' = txMsgs \cup TxMsgsFor(F, loc[s])
      /\ againMsgs' = SentAgain(again)
      /\ proposal' = [proposal EXCEPT ![s] = {TxBlock(here)}]
  BY <1>1 DEF Unpacked
<1>3. /\ MayBuildTxBlock(s)
      /\ UNCHANGED <<supEpoch, epochSynced, shardEpoch, vertexLoc, unsent, metaVars, chainVars,
                     startMsgs, stateMsgs, infoMsgs, lost, ledger, done, managerVars>>
      /\ UNCHANGED loc
  BY DEF BuildTxBlock, supVars, chainVars, histVars
<1>4. T \in SUBSET Tx /\ Unique(T)
  BY DEF OnceInv, TxTypes, PoolsInv, Unique
<1>5. /\ here \in SUBSET Tx /\ Unique(here)
      /\ \A t \in here : /\ loc[s][KeyAcc(t)] = s
                         /\ t.stage = "normal" => loc[s][From(t)] = s /\ loc[s][To(t)] = s
  BY <1>4, PackedHere DEF Unique
<1>6. /\ again \in SUBSET (T \ F) /\ F \in SUBSET T
      /\ here = T \ (F \cup again)
      /\ \A t \in again : t.stage = "normal"
  BY DEF Separated
<1>7. \A t \in F : loc[s][KeyAcc(t)] \in Shard
  <2>1. \A t \in Tx : KeyAcc(t) \in Account
    BY RepartitionAssumption DEF KeyAcc, From, To, Tx, TxId
  <2>2. \A t \in F : KeyAcc(t) \in Account
    BY <1>4, <2>1
  <2> QED
    BY <2>2 DEF MigInv, StateTypes
<1> HIDE DEF again, here, F
<1>8. Propose(s, here)
  BY <1>2, <1>3, <1>5 DEF Propose
<1>9. /\ BlockTxs(s) = {}
      /\ BlockTxs(s)' = here /\ \A r \in Shard \ {s} : BlockTxs(r)' = BlockTxs(r)
  BY <1>2, <1>3, <1>5, ProposedTxs DEF MigInv, MayBuildTxBlock, BlockTxs
<1>10. OnceInv'
  <2>1. Unique(BlockTxs(s)')
    BY <1>5, <1>9
  <2>2. \A t \in BlockTxs(s)' :
          \/ t \in BlockTxs(s)
          \/ /\ \E u \in T \ F : u.id = t.id /\ (u.stage \in SecondHalf <=> t.stage \in SecondHalf)
             /\ loc[s][KeyAcc(t)] = s /\ (t.stage = "normal" => loc[s][To(t)] = s)
    BY <1>5, <1>6, <1>9
  <2>3. \A r \in Shard \ {s} : BlockTxs(r)' = BlockTxs(r)
    BY <1>9
  <2> QED
    BY <1>2, <1>3, <1>6, <2>1, <2>2, <2>3, OnceRepack
<1>11. BrokerInv'
  <2>1. BlockTxs(s)' = BlockTxs(s) \cup (T \ (F \cup again))
    BY <1>6, <1>9
  <2>2. UNCHANGED <<unsent, done, infoMsgs, managerVars>>
    BY <1>3
  <2> QED
    BY <1>2, <1>6, <1>7, <1>9, <2>1, <2>2, BrokerRepack
<1> QED
  BY <1>8, <1>10, <1>11

\* A leader sends its states and clears its pool of what moves.
LEMMA MigrateStep ==
  ASSUME MigInv, OnceInv, BrokerInv, NEW s \in Shard, MigrateAccountsAndTxs(s)
  PROVE  OnceInv' /\ BrokerInv'
<1> DEFINE at    == MigratedLoc(s)
           again == Separated(pool[s], at)
           moved == {t \in pool[s] \ again : at[KeyAcc(t)] # s}
           T     == again \cup moved
<1>1. /\ pool' = [pool EXCEPT ![s] = @ \ T]
      /\ txMsgs' = txMsgs \cup TxMsgsFor(moved, at)
      /\ againMsgs' = SentAgain(again)
      /\ UNCHANGED <<unsent, done, loc, proposal, infoMsgs, managerVars>>
  BY DEF MigrateAccountsAndTxs, MigrateAccounts, Unpacked, supVars, chainVars, histVars
<1>2. \A a \in Account : at[a] \in Shard
  <2>1. modified[s] \in Moves
    BY DEF MigInv, StateTypes
  <2> QED
    BY <2>1 DEF MigratedLoc, Moves
<1>3. /\ T \in SUBSET pool[s] /\ moved \in SUBSET T /\ again \in SUBSET (T \ moved)
      /\ T \ (moved \cup again) = {}
      /\ \A t \in again : t.stage = "normal"
  BY DEF Separated
<1>4. \A t \in moved : at[KeyAcc(t)] \in Shard
  <2>1. \A t \in moved : KeyAcc(t) \in Account
    BY RepartitionAssumption DEF OnceInv, TxTypes, KeyAcc, From, To, Tx, TxId
  <2> QED
    BY <1>2, <2>1
<1> HIDE DEF at, again, moved, T
<1>5. \A r \in Shard : BlockTxs(r)' = BlockTxs(r)
  BY <1>1 DEF BlockTxs, Tx, TxId
<1>6. OnceInv'
  <2>1. Unique(BlockTxs(s)')
    BY <1>5 DEF OnceInv, BlocksInv
  <2> QED
    BY <1>1, <1>3, <1>5, <2>1, OnceRepack
<1>7. BrokerInv'
  <2>1. BlockTxs(s)' = BlockTxs(s) \cup (T \ (moved \cup again))
    BY <1>3, <1>5
  <2> QED
    BY <1>1, <1>3, <1>4, <1>5, <2>1, BrokerRepack
<1> QED
  BY <1>6, <1>7

\* The steps of the migration leave the payments where they are.
LEMMA MigrationStep ==
  ASSUME MigInv, OnceInv, BrokerInv,
         \/ SupRepartition
         \/ \E m \in stateMsgs : LoseStates(m)
         \/ \E s \in Shard : \/ \E m \in startMsgs : HandleRepartitionStart(s, m)
                             \/ \E m \in stateMsgs : HandleAccountMigration(s, m)
                             \/ BuildMigrationProposal(s)
                             \/ CommitMigrationBlock(s),
         UNCHANGED <<managerVars, againMsgs>>
  PROVE  OnceInv' /\ BrokerInv'
<1>1. OnceInv'
  BY OnceMigration
<1>2. UNCHANGED <<unsent, pool, txMsgs, infoMsgs, done>>
  BY DEF SupRepartition, LoseStates, HandleRepartitionStart, HandleAccountMigration,
     BuildMigrationProposal, CommitMigrationBlock, supVars, netVars, histVars
<1>3. \A s \in Shard : BlockTxs(s)' = BlockTxs(s)
  <2>1. CASE UNCHANGED proposal
    BY <2>1 DEF BlockTxs, Tx, TxId
  <2>2. ASSUME NEW s \in Shard, BuildMigrationProposal(s) PROVE \A r \in Shard : BlockTxs(r)' = BlockTxs(r)
    <3>1. PICK st : proposal' = [proposal EXCEPT ![s] = {MigrationBlock(st)}]
      BY <2>2 DEF BuildMigrationProposal
    <3>2. proposal[s] = {} /\ MigrationBlock(st).type # "tx"
      BY <2>2 DEF BuildMigrationProposal, MigrationBlock
    <3>3. \A r \in Shard : proposal'[r] = IF r = s THEN {MigrationBlock(st)} ELSE proposal[r]
      BY <3>1 DEF MigInv, StateTypes
    <3> QED
      BY <3>2, <3>3 DEF BlockTxs, Tx, TxId
  <2>3. ASSUME NEW s \in Shard, CommitMigrationBlock(s) PROVE \A r \in Shard : BlockTxs(r)' = BlockTxs(r)
    <3>1. \A r \in Shard : proposal'[r] = IF r = s THEN {} ELSE proposal[r]
      BY <2>3 DEF CommitMigrationBlock, MigInv, StateTypes
    <3>2. \A b \in proposal[s] : b.type = "migration"
      BY <2>3 DEF CommitMigrationBlock, MigInv, StateTypes, AtMostOne
    <3> QED
      BY <3>1, <3>2 DEF BlockTxs, Tx, TxId
  <2> QED
    BY <2>1, <2>2, <2>3 DEF SupRepartition, LoseStates, HandleRepartitionStart,
       HandleAccountMigration
<1> QED
  BY <1>1, <1>2, <1>3, BrokerUnchanged

\* Every step is one of the steps of the migration, for its variables.
LEMMA NextMig ==
  ASSUME MigInv, OnceInv, BrokerInv, [Next]_vars
  PROVE  MigStep
<1>1. CASE UNCHANGED sharedVars
  BY <1>1 DEF sharedVars, supVars, netVars, histVars, migVars, MigStep
<1>2. CASE Supervisor
  <2>1. CASE SupSendTxs
    BY <2>1 DEF SupSendTxs, MigStep, SendTxs, histVars
  <2> QED
    BY <1>1, <1>2, <2>1 DEF Supervisor, HandleBlockInfo, HandleSendAgain, SupWait,
       SupRepartitionAndReset, MigStep
<1>3. ASSUME NEW s \in Shard, BuildTxBlock(s) \/ MigrateAccountsAndTxs(s) \/ CommitTxBlock(s)
      PROVE  MigStep
  BY <1>3, BuildStep DEF MigrateAccountsAndTxs, CommitTxBlock, MigStep, ShardStep
<1>4. ASSUME NEW s \in Shard, Migrate(s) PROVE MigStep
  <2>1. ASSUME NEW m \in txMsgs, HandleReceiveTxs(s, m) PROVE MigStep
    BY <2>1 DEF HandleReceiveTxs, MigStep, migVars, supVars, histVars
  <2> QED
    BY <1>4, <2>1 DEF Migrate, MigStep, ShardStep
<1> QED
  BY <1>1, <1>2, <1>3, <1>4 DEF Next, MigStep, vars

\* Every step keeps every payment that is not complete in one place.
LEMMA NextBroker ==
  ASSUME MigInv, OnceInv, BrokerInv, [Next]_vars
  PROVE  OnceInv' /\ BrokerInv'
<1>1. ASSUME UNCHANGED sharedVars PROVE OnceInv' /\ \A s \in Shard : BlockTxs(s)' = BlockTxs(s)
  BY <1>1, OnceUnchanged DEF sharedVars, supVars, chainVars, netVars, histVars, BlockTxs, Tx, TxId
<1>2. ASSUME UNCHANGED <<sharedVars, managerVars, againMsgs>> PROVE OnceInv' /\ BrokerInv'
  <2>1. UNCHANGED <<unsent, pool, txMsgs, infoMsgs, done, managerVars, againMsgs>>
    BY <1>2 DEF sharedVars, supVars, netVars, histVars
  <2> QED
    BY <1>1, <1>2, <2>1, BrokerUnchanged
<1>3. CASE Supervisor
  <2>1. ASSUME NEW m \in infoMsgs, HandleBlockInfo(m) PROVE OnceInv' /\ BrokerInv'
    BY <2>1, BrokerConfirm, OnceMigration DEF HandleBlockInfo
  <2>2. ASSUME NEW m \in againMsgs, HandleSendAgain(m) PROVE OnceInv' /\ BrokerInv'
    BY <1>1, <2>2, BrokerSendAgain DEF HandleSendAgain
  <2>3. CASE SupWait
    BY <1>2, <2>3 DEF SupWait
  <2>4. CASE SupRepartitionAndReset
    BY <2>4, MigrationStep DEF SupRepartitionAndReset
  <2> QED
    BY <1>3, <2>1, <2>2, <2>3, <2>4, BrokerSend DEF Supervisor
<1>4. ASSUME NEW s \in Shard, Migrate(s), UNCHANGED brokerVars PROVE OnceInv' /\ BrokerInv'
  <2>1. UNCHANGED <<managerVars, againMsgs>>
    BY <1>4 DEF brokerVars
  <2>2. ASSUME NEW m \in txMsgs, HandleReceiveTxs(s, m) PROVE OnceInv' /\ BrokerInv'
    BY <1>4, <2>2, OnceReceive, BrokerReceive
  <2> QED
    BY <1>4, <2>1, <2>2, MigrationStep DEF Migrate
<1>5. CASE \E m \in stateMsgs : LoseStates(m) /\ UNCHANGED brokerVars
  BY <1>5, MigrationStep DEF brokerVars
<1>6. CASE UNCHANGED vars
  BY <1>2, <1>6 DEF vars, brokerVars
<1> QED
  BY <1>3, <1>4, <1>5, <1>6, BuildStep, MigrateStep, BrokerExecute DEF Next

-----------------------------------------------------------------------------
(* The theorems. *)

\* Every behaviour keeps the three inductive invariants: of the migration, of
\* the transactions and of the payments of the brokers.
THEOREM Invariance == Spec => [](MigInv /\ OnceInv /\ BrokerInv)
<1>1. Init => MigInv /\ OnceInv /\ BrokerInv
  BY MigInit, OnceInit, BrokerInit DEF Init
<1>2. MigInv /\ OnceInv /\ BrokerInv /\ [Next]_vars => (MigInv /\ OnceInv /\ BrokerInv)'
  BY NextMig, NextBroker, MigPreserved
<1> QED
  BY <1>1, <1>2, PTL DEF Spec

\* No payment is lost and none is under way twice, however often the shards that
\* disagree where its accounts are send it on or back to the supervisor, and
\* whatever states are lost.
THEOREM NoPaymentLostOrDoubled == Spec => []InOnePlace
<1>1. OnceInv /\ BrokerInv => InOnePlace
  BY OnePlace
<1> QED
  BY <1>1, Invariance, PTL

\* No payment debits or credits twice, or credits first.
THEOREM NoDoubleExecution == Spec => []ExecutedOnce
<1>1. OnceInv => ExecutedOnce
  BY OnceMeansExecutedOnce
<1> QED
  BY <1>1, Invariance, PTL

\* As long as no state message is lost, one shard serves an account, and it has
\* what all the blocks of all shards have done to it.
THEOREM StateMovesAlong == Spec => [](lost = 0 => SingleOwner /\ OwnerHasLedger)
<1>1. MigInv => (lost = 0 => SingleOwner /\ OwnerHasLedger)
  BY OneOwner, OwnerIsCurrent
<1> QED
  BY <1>1, Invariance, PTL
=============================================================================
