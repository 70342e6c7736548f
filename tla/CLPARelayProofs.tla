--------------------------- MODULE CLPARelayProofs ---------------------------
(* Theorems about CLPARelay and its measurement RelayStats, for any shards,    *)
(* accounts, transactions, epochs and lost states. RepartitionProofs has the   *)
(* inductive invariant.                                                        *)
EXTENDS RelayStats, RepartitionProofs, SetSums

-----------------------------------------------------------------------------

\* The transactions a shard packs are of the block it proposes, and a transaction
\* to another shard is marked as the first half of a relay.
LEMMA MarkedFacts ==
  ASSUME NEW s \in Shard, NEW here \in SUBSET Tx
  PROVE  /\ Marked(s, here) \subseteq Tx
         /\ \A t \in Marked(s, here) :
              /\ \E u \in here : /\ u.id = t.id /\ KeyAcc(u) = KeyAcc(t)
                                 /\ u.stage \in SecondHalf <=> t.stage \in SecondHalf
              /\ t.stage = "normal" => loc[s][To(t)] = s
         /\ Unique(here) => Unique(Marked(s, here))
<1> DEFINE mark(u) == IF u.stage = "normal" /\ loc[s][To(u)] # s
                      THEN [u EXCEPT !.stage = "relay1"] ELSE u
<1>1. Marked(s, here) = {mark(u) : u \in here}
  BY DEF Marked
<1>2. ASSUME NEW u \in here
      PROVE  /\ mark(u) \in Tx
             /\ u.id = mark(u).id /\ KeyAcc(u) = KeyAcc(mark(u))
             /\ u.stage \in SecondHalf <=> mark(u).stage \in SecondHalf
             /\ mark(u).stage = "normal" => loc[s][To(mark(u))] = s
  BY DEF Tx, FirstHalf, SecondHalf, KeyAcc, From, To
<1> HIDE DEF mark
<1> QED
  BY <1>1, <1>2 DEF Unique

\* Every step is one of the steps of the migration, for its variables.
LEMMA NextMig ==
  ASSUME MigInv, OnceInv, [Next]_vars
  PROVE  MigStep
<1>1. CASE UNCHANGED vars
  BY <1>1 DEF vars, sharedVars, supVars, netVars, histVars, migVars, MigStep
<1>2. CASE Supervisor
  <2>1. CASE SupSendTxs
    BY <2>1 DEF SupSendTxs, MigStep, SendTxs, histVars
  <2> QED
    BY <1>2, <2>1 DEF Supervisor, HandleBlockInfo, MigStep
<1>3. ASSUME NEW s \in Shard, Receive(s) \/ Commit(s) PROVE MigStep
  <2>1. ASSUME NEW m \in txMsgs, HandleReceiveTxs(s, m) PROVE MigStep
    BY <2>1 DEF HandleReceiveTxs, MigStep, migVars, supVars, histVars
  <2>2. ASSUME CommitTxBlock(s) PROVE MigStep
    BY <2>2 DEF CommitTxBlock, MigStep, ShardStep
  <2> QED
    BY <1>3, <2>1, <2>2 DEF Receive, Commit, MigStep, ShardStep
<1>4. ASSUME NEW s \in Shard, BuildTxBlock(s) PROVE MigStep
  <2>1. PICK T \in SUBSET pool[s] :
          proposal' = [proposal EXCEPT ![s] = {TxBlock(Marked(s, T \ ForeignTxs(s, T)))}]
    BY <1>4 DEF BuildTxBlock
  <2> DEFINE here == T \ ForeignTxs(s, T)
  <2>2. here \in SUBSET Tx /\ \A t \in here : loc[s][KeyAcc(t)] = s
    BY DEF OnceInv, TxTypes, ForeignTxs
  <2>3. /\ Marked(s, here) \subseteq Tx
        /\ \A t \in Marked(s, here) : t.stage = "normal" =>
             loc[s][From(t)] = s /\ loc[s][To(t)] = s
    BY <2>2, MarkedFacts DEF KeyAcc, SecondHalf
  <2>4. Propose(s, Marked(s, here))
    BY <1>4, <2>1, <2>3 DEF BuildTxBlock, Propose, supVars, histVars
  <2> QED
    BY <2>4 DEF MigStep, ShardStep
<1>5. ASSUME NEW s \in Shard, Build(s) PROVE MigStep
  BY <1>4, <1>5 DEF Build, MigrateAccountsAndTxs, MigStep, ShardStep
<1> QED
  BY <1>1, <1>2, <1>3, <1>5 DEF Next, MigStep

\* Every step keeps a transaction in one place, in a stage that says what it has
\* done.
LEMMA NextOnce ==
  ASSUME MigInv, OnceInv, [Next]_vars
  PROVE  OnceInv'
<1>1. CASE UNCHANGED vars
  BY <1>1, OnceUnchanged DEF vars, sharedVars, supVars, chainVars, netVars, histVars, BlockTxs,
     Tx, TxId
<1>2. CASE SupSendTxs
  <2>1. PICK T \in SUBSET unsent :
          /\ unsent' = unsent \ T
          /\ txMsgs' = txMsgs \cup
               TxMsgsFor({[id |-> i, stage |-> "normal"] : i \in T}, vertexLoc)
    BY <1>2 DEF SupSendTxs
  <2> DEFINE F == {[id |-> i, stage |-> "normal"] : i \in T}
  <2>2. F \in SUBSET Tx /\ Unique(F)
    BY DEF OnceInv, TxTypes, Tx, Unique
  <2>3. \A f \in F : /\ TokenOK(f) /\ f.id \notin unsent'
                     /\ ~InMsgs(f.id) /\ ~InPool(f.id) /\ ~InBlock(f.id)
    BY <2>1 DEF OnceInv, TxTypes, Apart, DoneInv, TokenOK, SecondHalf
  <2>4. UNCHANGED <<pool, done, loc, proposal>> /\ unsent' \subseteq unsent
    BY <1>2, <2>1 DEF SupSendTxs, chainVars, histVars
  <2> HIDE DEF F
  <2> QED
    BY <2>1, <2>2, <2>3, <2>4, OnceSend DEF F
<1>3. ASSUME NEW s \in Shard, BuildTxBlock(s) PROVE OnceInv'
  <2>1. PICK T \in SUBSET pool[s] :
          /\ pool' = [pool EXCEPT ![s] = Unpacked(s, T)]
          /\ txMsgs' = txMsgs \cup TxMsgsFor(ForeignTxs(s, T), loc[s])
          /\ proposal' = [proposal EXCEPT ![s] = {TxBlock(Marked(s, T \ ForeignTxs(s, T)))}]
    BY <1>3 DEF BuildTxBlock
  <2> DEFINE here == T \ ForeignTxs(s, T)
  <2>2. here \in SUBSET Tx /\ \A t \in here : loc[s][KeyAcc(t)] = s
    BY DEF OnceInv, TxTypes, ForeignTxs
  <2>3. Unique(here) /\ ForeignTxs(s, T) \in SUBSET T
    BY DEF OnceInv, PoolsInv, Unique, ForeignTxs
  <2>4. /\ Marked(s, here) \subseteq Tx /\ Unique(Marked(s, here))
        /\ \A t \in Marked(s, here) :
             /\ \E u \in T \ ForeignTxs(s, T) :
                  u.id = t.id /\ (u.stage \in SecondHalf <=> t.stage \in SecondHalf)
             /\ loc[s][KeyAcc(t)] = s /\ (t.stage = "normal" => loc[s][To(t)] = s)
    BY <2>2, <2>3, MarkedFacts
  <2>5. UNCHANGED <<unsent, done, loc>>
    BY <1>3 DEF BuildTxBlock, supVars, chainVars, histVars
  <2>6. BlockTxs(s)' = Marked(s, here) /\ \A r \in Shard \ {s} : BlockTxs(r)' = BlockTxs(r)
    BY <2>1, <2>4, ProposedTxs DEF MigInv
  <2>7. pool' = [pool EXCEPT ![s] = @ \ T]
    BY <2>1 DEF Unpacked
  <2>8. Unique(BlockTxs(s)')
    BY <2>4, <2>6
  <2>9. \A t \in BlockTxs(s)' :
          \/ t \in BlockTxs(s)
          \/ /\ \E u \in T \ ForeignTxs(s, T) :
                  u.id = t.id /\ (u.stage \in SecondHalf <=> t.stage \in SecondHalf)
             /\ loc[s][KeyAcc(t)] = s /\ (t.stage = "normal" => loc[s][To(t)] = s)
    BY <2>4, <2>6
  <2>10. \A r \in Shard \ {s} : BlockTxs(r)' = BlockTxs(r)
    BY <2>6
  <2>11. txMsgs' = txMsgs \cup TxMsgsFor(ForeignTxs(s, T), loc[s])
    BY <2>1
  <2> QED
    BY <2>3, <2>5, <2>7, <2>8, <2>9, <2>10, <2>11, OnceRepack
<1>4. ASSUME NEW s \in Shard, MigrateAccountsAndTxs(s) PROVE OnceInv'
  <2> DEFINE moved == {t \in pool[s] : KeyAcc(t) \in DOMAIN modified[s]}
  <2>1. /\ pool' = [pool EXCEPT ![s] = @ \ moved]
        /\ txMsgs' = txMsgs \cup TxMsgsFor(moved, modified[s])
        /\ UNCHANGED <<unsent, done, loc, proposal>>
    BY <1>4 DEF MigrateAccountsAndTxs, MigrateAccounts, Unpacked, supVars, chainVars, histVars
  <2>2. \A r \in Shard : BlockTxs(r)' = BlockTxs(r)
    BY <2>1 DEF BlockTxs, Tx, TxId
  <2>3. Unique(BlockTxs(s)')
    BY <2>2 DEF OnceInv, BlocksInv
  <2>4. moved \in SUBSET pool[s] /\ moved \in SUBSET moved
    OBVIOUS
  <2> HIDE DEF moved
  <2> QED
    BY <2>1, <2>2, <2>3, <2>4, OnceRepack
<1>5. ASSUME NEW s \in Shard, CommitTxBlock(s) PROVE OnceInv'
  <2>1. PICK b \in proposal[s] :
          /\ b.type = "tx" /\ AddTxBlock(s, b.txs)
          /\ txMsgs' = txMsgs \cup
               TxMsgsFor({[t EXCEPT !.stage = "relay2"] :
                            t \in {r \in b.txs : r.stage = "relay1"}}, loc[s])
    BY <1>5 DEF CommitTxBlock
  <2> DEFINE F == {[t EXCEPT !.stage = "relay2"] : t \in {r \in b.txs : r.stage = "relay1"}}
  <2>2. b.txs \subseteq Tx /\ Unique(b.txs)
    BY <2>1, DoneFacts DEF OnceInv, BlocksInv, BlockTxs
  <2>3. F \in SUBSET Tx
    BY <2>2 DEF Tx, SecondHalf
  <2>4. \A f \in F : f.stage \in SecondHalf
                     /\ \E t \in b.txs : t.id = f.id /\ t.stage \in FirstHalf
    BY <2>2 DEF Tx, FirstHalf, SecondHalf
  <2>5. Unique(F)
    BY <2>2 DEF Unique, Tx
  <2> HIDE DEF F
  <2> QED
    BY <2>1, <2>3, <2>4, <2>5, OnceExecute DEF F
<1> QED
  BY <1>1, <1>2, <1>3, <1>4, <1>5, OnceReceive, OnceMigration
     DEF Next, Supervisor, HandleBlockInfo, Receive, Build, Commit

-----------------------------------------------------------------------------
(* The theorems. *)

\* Every behaviour keeps the two inductive invariants: the migration's, which
\* speaks of epochs, locations and states, and that of the transactions.
THEOREM Invariance == Spec => [](MigInv /\ OnceInv)
<1>1. Init => MigInv /\ OnceInv
  BY MigInit, OnceInit DEF Init
<1>2. MigInv /\ OnceInv /\ [Next]_vars => (MigInv /\ OnceInv)'
  BY NextMig, NextOnce, MigPreserved
<1> QED
  BY <1>1, <1>2, PTL DEF Spec

\* Every variable keeps its type.
THEOREM TypeCorrect == Spec => []TypeOK
<1>1. MigInv /\ OnceInv => TypeOK
  BY TypesHold DEF OnceInv
<1> QED
  BY <1>1, Invariance, PTL

\* The supervisor is never more than one epoch ahead of a chain and a leader is
\* ahead of its chain exactly during its migration, whatever is lost.
THEOREM EpochsAgree == Spec => []EpochsInStep
<1>1. MigInv => EpochsInStep
  BY DEF MigInv, EpochInv
<1> QED
  BY <1>1, Invariance, PTL

\* No transaction debits or credits twice, or credits first, however often it is
\* sent on between shards and whatever states are lost.
THEOREM NoDoubleExecution == Spec => []ExecutedOnce
<1>1. OnceInv => ExecutedOnce
  BY OnceMeansExecutedOnce
<1> QED
  BY <1>1, Invariance, PTL

\* As long as no state message is lost, two shards never serve one account.
THEOREM OneShardServes == Spec => [](lost = 0 => SingleOwner)
<1>1. MigInv => (lost = 0 => SingleOwner)
  BY OneOwner
<1> QED
  BY <1>1, Invariance, PTL

\* As long as no state message is lost, a shard that serves an account has what
\* all the blocks of all shards have done to it.
THEOREM StateMovesAlong == Spec => [](lost = 0 => OwnerHasLedger)
<1>1. MigInv => (lost = 0 => OwnerHasLedger)
  BY OwnerIsCurrent
<1> QED
  BY <1>1, Invariance, PTL

\* As long as no state message is lost, a migration block has the current state
\* of every account it brings to its shard.
THEOREM MigratedStatesCurrent == Spec => [](lost = 0 => MigrationBlockCurrent)
<1>1. MigInv => (lost = 0 => MigrationBlockCurrent)
  BY DEF MigInv, ExchangeInv
<1> QED
  BY <1>1, Invariance, PTL

-----------------------------------------------------------------------------
(* The measurement: what is on file of a transaction, and what is under way,   *)
(* make up what it has done.                                                   *)

\* No broker takes part in a relay.
StagesInv ==
  /\ \A m \in txMsgs : \A t \in m.txs : t.stage \in Kind
  /\ \A s \in Shard : \A t \in pool[s] : t.stage \in Kind
  /\ \A s \in Shard : \A b \in proposal[s] : b.type = "tx" => \A t \in b.txs : t.stage \in Kind

\* A block info under way reports transaction i in stage k.
Pend(i, k) == \E m \in infoMsgs : i \in InfoTxs(m, k)

\* A half of a transaction is in one block info, once.
InfosInv ==
  /\ \A m \in infoMsgs : Unique(m.txs)
  /\ \A m, n \in infoMsgs : \A t \in m.txs : t \in n.txs => m = n

\* What transaction i has done (d debits and c credits), whether its infos are under way,
\* the halves on file and the lines written go together.
Record(d, c, whole, first, second, file, lines) ==
  \/ d = 0 /\ c = 0 /\ ~whole /\ ~first /\ ~second /\ file = {} /\ lines = 0
  \/ d = 1 /\ c = 0 /\ ~whole /\ first /\ ~second /\ file = {} /\ lines = 0
  \/ d = 1 /\ c = 0 /\ ~whole /\ ~first /\ ~second /\ file = {"relay1"} /\ lines = 0
  \/ d = 1 /\ c = 1 /\ whole /\ ~first /\ ~second /\ file = {} /\ lines = 0
  \/ d = 1 /\ c = 1 /\ ~whole /\ first /\ second /\ file = {} /\ lines = 0
  \/ d = 1 /\ c = 1 /\ ~whole /\ ~first /\ second /\ file = {"relay1"} /\ lines = 0
  \/ d = 1 /\ c = 1 /\ ~whole /\ first /\ ~second /\ file = {"relay2"} /\ lines = 0
  \/ d = 1 /\ c = 1 /\ ~whole /\ ~first /\ ~second /\ file = {} /\ lines = 1

\* This for transaction i, and for every one.
RecordOf(i) ==
  Record(done[i].debit, done[i].credit, Pend(i, "normal"), Pend(i, "relay1"), Pend(i, "relay2"),
         txLifecycles[i], written[i])

RecordsInv == \A i \in TxId : RecordOf(i)

\* The debits and credits the supervisor has been told of.
ToldDebit  == [i \in TxId |->
  IF done[i].debit = 1 /\ ~Pend(i, "normal") /\ ~Pend(i, "relay1") THEN 1 ELSE 0]
ToldCredit == [i \in TxId |->
  IF done[i].credit = 1 /\ ~Pend(i, "normal") /\ ~Pend(i, "relay2") THEN 1 ELSE 0]

\* The counters of the measurement have numbers.
CounterTypes ==
  /\ DOMAIN txNum = Kind /\ \A k \in Kind : txNum[k] \in [Epoch -> Nat]
  /\ tclSum \in [Epoch -> Nat]
  /\ DOMAIN txLifecycles = TxId /\ DOMAIN written = TxId

\* Every counter is the number of what was told.
TotalsInv ==
  /\ SumOf(txNum["normal"], Epoch) + SumOf(txNum["relay1"], Epoch) = SumOf(ToldDebit, TxId)
  /\ SumOf(txNum["normal"], Epoch) + SumOf(txNum["relay2"], Epoch) = SumOf(ToldCredit, TxId)
  /\ SumOf(txNum["normal"], Epoch) + SumOf(tclSum, Epoch) = SumOf(written, TxId)

\* The inductive invariant of the measurement, on top of MigInv and OnceInv.
StatsInv == StagesInv /\ InfosInv /\ RecordsInv /\ CounterTypes /\ TotalsInv

\* Before anything is measured.
LEMMA StatsStart == StatsInit => StatsInv
<1> SUFFICES ASSUME StatsInit PROVE StatsInv
  OBVIOUS
<1>1. Init
  BY DEF StatsInit
<1>2. /\ txMsgs = {} /\ infoMsgs = {} /\ pool = [s \in Shard |-> {}]
      /\ proposal = [s \in Shard |-> {}]
      /\ done = [i \in TxId |-> [debit |-> 0, credit |-> 0]]
  BY <1>1 DEF Init, SharedInit
<1>3. /\ txLifecycles = [i \in TxId |-> {}] /\ written = [i \in TxId |-> 0]
      /\ txNum = [k \in Kind |-> [e \in Epoch |-> 0]] /\ tclSum = [e \in Epoch |-> 0]
  BY DEF StatsInit
<1>4. StagesInv /\ InfosInv
  BY <1>2 DEF StagesInv, InfosInv
<1>5. \A i, k : ~Pend(i, k)
  BY <1>2 DEF Pend
<1>6. RecordsInv
  BY <1>2, <1>3, <1>5 DEF RecordsInv, RecordOf, Record
<1>7. CounterTypes
  BY <1>3 DEF CounterTypes
<1>8. TotalsInv
  <2>1. IsFiniteSet(Epoch) /\ IsFiniteSet(TxId)
    BY FS_Interval, RepartitionAssumption DEF Epoch, TxId
  <2>2. ASSUME NEW v, NEW S, IsFiniteSet(S), \A x \in S : v[x] = 0 PROVE SumOf(v, S) = 0
    <3>1. SumOf(v, S) = Cardinality(S) * 0 /\ Cardinality(S) \in Nat
      BY <2>2, SumConst, FS_CardinalityType
    <3>2. \A n \in Nat : n * 0 = 0
      OBVIOUS
    <3> QED
      BY <3>1, <3>2
  <2>3. \A i \in TxId : ToldDebit[i] = 0 /\ ToldCredit[i] = 0 /\ written[i] = 0
    BY <1>2, <1>3 DEF ToldDebit, ToldCredit
  <2>4. \A e \in Epoch : txNum["normal"][e] = 0 /\ txNum["relay1"][e] = 0
                         /\ txNum["relay2"][e] = 0 /\ tclSum[e] = 0
    BY <1>3 DEF Kind
  <2>5. /\ SumOf(ToldDebit, TxId) = 0 /\ SumOf(ToldCredit, TxId) = 0 /\ SumOf(written, TxId) = 0
    BY <2>1, <2>2, <2>3
  <2>6. /\ SumOf(txNum["normal"], Epoch) = 0 /\ SumOf(txNum["relay1"], Epoch) = 0
        /\ SumOf(txNum["relay2"], Epoch) = 0 /\ SumOf(tclSum, Epoch) = 0
    BY <2>1, <2>2, <2>4
  <2> QED
    BY <2>5, <2>6 DEF TotalsInv
<1> QED
  BY <1>4, <1>6, <1>7, <1>8 DEF StatsInv

\* The transactions of the messages are those that are sent.
LEMMA MsgsOfStage ==
  ASSUME NEW F, NEW at, \A t \in F : t.stage \in Kind
  PROVE  \A m \in TxMsgsFor(F, at) : \A t \in m.txs : t.stage \in Kind
BY DEF TxMsgsFor

\* Every step keeps the stages.
LEMMA StagesStep ==
  ASSUME OnceInv, MigInv, StagesInv, [Next]_vars
  PROVE  StagesInv'
<1>1. CASE UNCHANGED <<txMsgs, pool, proposal>>
  BY <1>1 DEF StagesInv, Kind
<1>2. CASE SupSendTxs
  <2>1. PICK T \in SUBSET unsent :
          /\ txMsgs' = txMsgs \cup
               TxMsgsFor({[id |-> i, stage |-> "normal"] : i \in T}, vertexLoc)
    BY <1>2 DEF SupSendTxs
  <2>2. \A t \in {[id |-> i, stage |-> "normal"] : i \in T} : t.stage \in Kind
    BY DEF Kind
  <2>3. \A m \in txMsgs' : \A t \in m.txs : t.stage \in Kind
    BY <2>1, <2>2, MsgsOfStage DEF StagesInv
  <2> QED
    BY <1>2, <2>3 DEF SupSendTxs, StagesInv, Kind
<1>3. ASSUME NEW s \in Shard, NEW m \in txMsgs, HandleReceiveTxs(s, m) PROVE StagesInv'
  <2>1. /\ \A k \in txMsgs' : k \in txMsgs
        /\ \A r \in Shard : \A t \in pool'[r] : t \in pool[r] \/ t \in m.txs
        /\ UNCHANGED proposal
    BY <1>3 DEF HandleReceiveTxs, OnceInv, TxTypes
  <2> QED
    BY <2>1 DEF StagesInv, Kind
<1>4. ASSUME NEW s \in Shard, BuildTxBlock(s) PROVE StagesInv'
  <2>1. PICK T \in SUBSET pool[s] :
          /\ pool' = [pool EXCEPT ![s] = Unpacked(s, T)]
          /\ txMsgs' = txMsgs \cup TxMsgsFor(ForeignTxs(s, T), loc[s])
          /\ proposal' = [proposal EXCEPT ![s] = {TxBlock(Marked(s, T \ ForeignTxs(s, T)))}]
    BY <1>4 DEF BuildTxBlock
  <2>2. \A t \in ForeignTxs(s, T) : t.stage \in Kind
    BY DEF ForeignTxs, StagesInv
  <2>3. \A m \in txMsgs' : \A t \in m.txs : t.stage \in Kind
    BY <2>1, <2>2, MsgsOfStage DEF StagesInv
  <2>4. \A r \in Shard : \A t \in pool'[r] : t \in pool[r]
    BY <2>1 DEF Unpacked, OnceInv, TxTypes
  <2>5. \A t \in Marked(s, T \ ForeignTxs(s, T)) : t.stage \in Kind
    <3>1. \A u \in T : u \in Tx /\ u.stage \in Kind
      BY DEF StagesInv, OnceInv, TxTypes
    <3>2. \A u \in T : [u EXCEPT !.stage = "relay1"].stage \in Kind
      BY <3>1 DEF Tx, Kind
    <3> SUFFICES ASSUME NEW u \in T \ ForeignTxs(s, T), NEW t,
                        t = IF u.stage = "normal" /\ loc[s][To(u)] # s
                            THEN [u EXCEPT !.stage = "relay1"] ELSE u
                 PROVE  t.stage \in Kind
      BY DEF Marked
    <3> QED
      BY <3>1, <3>2
  <2>6. \A r \in Shard : \A b \in proposal'[r] : b.type = "tx" => \A t \in b.txs : t.stage \in Kind
    <3>1. PICK X : X = Marked(s, T \ ForeignTxs(s, T))
      OBVIOUS
    <3>2. /\ proposal'[s] = {TxBlock(X)} /\ TxBlock(X).txs = X
          /\ \A r \in Shard : r # s => proposal'[r] = proposal[r]
      BY <2>1, <3>1 DEF TxBlock, MigInv, StateTypes
    <3>3. \A t \in X : t.stage \in Kind
      BY <2>5, <3>1
    <3> QED
      BY <3>2, <3>3 DEF StagesInv
  <2> QED
    BY <2>3, <2>4, <2>6 DEF StagesInv, Kind
<1>5. ASSUME NEW s \in Shard, MigrateAccountsAndTxs(s) PROVE StagesInv'
  <2> DEFINE moved == {t \in pool[s] : KeyAcc(t) \in DOMAIN modified[s]}
  <2>1. /\ pool' = [pool EXCEPT ![s] = @ \ moved] /\ UNCHANGED proposal
        /\ txMsgs' = txMsgs \cup TxMsgsFor(moved, modified[s])
    BY <1>5 DEF MigrateAccountsAndTxs, MigrateAccounts, Unpacked
  <2>2. \A t \in moved : t.stage \in Kind
    BY DEF StagesInv
  <2>3. \A m \in txMsgs' : \A t \in m.txs : t.stage \in Kind
    BY <2>1, <2>2, MsgsOfStage DEF StagesInv
  <2>4. \A r \in Shard : \A t \in pool'[r] : t \in pool[r]
    BY <2>1 DEF OnceInv, TxTypes
  <2> QED
    BY <2>1, <2>3, <2>4 DEF StagesInv, Kind
<1>6. ASSUME NEW s \in Shard, CommitTxBlock(s) PROVE StagesInv'
  <2>1. PICK b \in proposal[s] :
          /\ b.type = "tx" /\ AddTxBlock(s, b.txs)
          /\ txMsgs' = txMsgs \cup
               TxMsgsFor({[t EXCEPT !.stage = "relay2"] :
                            t \in {r \in b.txs : r.stage = "relay1"}}, loc[s])
    BY <1>6 DEF CommitTxBlock
  <2> DEFINE F == {[t EXCEPT !.stage = "relay2"] : t \in {r \in b.txs : r.stage = "relay1"}}
  <2>2. \A t \in F : t.stage \in Kind
    <3>1. b.txs \subseteq Tx
      BY <2>1 DEF MigInv, StateTypes, BlockOK
    <3>2. \A t \in b.txs : [t EXCEPT !.stage = "relay2"].stage = "relay2"
      BY <3>1 DEF Tx
    <3> QED
      BY <3>2 DEF Kind
  <2> HIDE DEF F
  <2>3. \A m \in txMsgs' : \A t \in m.txs : t.stage \in Kind
    BY <2>1, <2>2, MsgsOfStage DEF StagesInv, F
  <2>4. UNCHANGED pool /\ \A r \in Shard : \A c \in proposal'[r] : c \in proposal[r]
    BY <2>1 DEF AddTxBlock, MigInv, StateTypes
  <2> QED
    BY <2>3, <2>4 DEF StagesInv, Kind
<1>7. ASSUME NEW s \in Shard, CommitMigrationBlock(s) PROVE StagesInv'
  <2>1. UNCHANGED <<txMsgs, pool>> /\ \A r \in Shard : \A c \in proposal'[r] : c \in proposal[r]
    BY <1>7 DEF CommitMigrationBlock, netVars, MigInv, StateTypes
  <2> QED
    BY <2>1 DEF StagesInv, Kind
<1>8. ASSUME NEW s \in Shard, BuildMigrationProposal(s) PROVE StagesInv'
  <2>1. PICK st : proposal' = [proposal EXCEPT ![s] = {MigrationBlock(st)}]
    BY <1>8 DEF BuildMigrationProposal
  <2>2. MigrationBlock(st).type # "tx"
    BY DEF MigrationBlock
  <2>3. \A r \in Shard : \A b \in proposal'[r] : b.type = "tx" => b \in proposal[r]
    BY <2>1, <2>2 DEF MigInv, StateTypes
  <2>4. UNCHANGED <<txMsgs, pool>>
    BY <1>8 DEF BuildMigrationProposal, netVars
  <2> QED
    BY <2>3, <2>4 DEF StagesInv, Kind
<1>9. UNCHANGED vars => UNCHANGED <<txMsgs, pool, proposal>>
  BY DEF vars, sharedVars, netVars
<1>10. \A m \in infoMsgs : HandleBlockInfo(m) => UNCHANGED <<txMsgs, pool, proposal>>
  BY DEF HandleBlockInfo, NoteEpoch
<1>11. SupRepartition => UNCHANGED <<txMsgs, pool, proposal>>
  BY DEF SupRepartition
<1>12. \A s \in Shard : /\ \A m \in startMsgs : HandleRepartitionStart(s, m)
                                               => UNCHANGED <<txMsgs, pool, proposal>>
                        /\ \A m \in stateMsgs : HandleAccountMigration(s, m)
                                               => UNCHANGED <<txMsgs, pool, proposal>>
  BY DEF HandleRepartitionStart, HandleAccountMigration
<1>13. \A m \in stateMsgs : LoseStates(m) => UNCHANGED <<txMsgs, pool, proposal>>
  BY DEF LoseStates
<1> QED
  BY <1>1, <1>2, <1>3, <1>4, <1>5, <1>6, <1>7, <1>8, <1>9, <1>10, <1>11, <1>12, <1>13
     DEF Next, Supervisor, Receive, Build, Commit


-----------------------------------------------------------------------------
(* A commit: what is done is under way. *)

\* A block that is committed reports every half of it for the first time.
LEMMA CommitReports ==
  ASSUME MigInv, OnceInv, StagesInv, InfosInv, RecordsInv, NEW s \in Shard, CommitTxBlock(s)
  PROVE  /\ InfosInv'
         /\ \A i \in TxId :
              \/ /\ done'[i] = done[i]
                 /\ \A k \in Kind : Pend(i, k)' <=> Pend(i, k)
              \/ \E k \in Kind :
                   /\ done[i].debit = IF k = "relay2" THEN 1 ELSE 0
                   /\ done[i].credit = 0
                   /\ done'[i].debit = 1
                   /\ done'[i].credit = IF k = "relay1" THEN 0 ELSE 1
                   /\ Pend(i, k)' /\ \A l \in Kind : l # k => (Pend(i, l)' <=> Pend(i, l))
<1>1. PICK b \in proposal[s] : b.type = "tx" /\ AddTxBlock(s, b.txs)
  BY DEF CommitTxBlock
<1>2. PICK n : n = [shard |-> s, epoch |-> chainEpoch[s], txs |-> b.txs]
  OBVIOUS
<1>3. infoMsgs' = infoMsgs \cup {n} /\ n.txs = b.txs
  BY <1>1, <1>2 DEF AddTxBlock
<1>4. /\ b.txs \subseteq Tx /\ Unique(b.txs)
      /\ \A t \in b.txs : t.id \in TxId /\ t.stage \in Kind /\ TokenOK(t)
      /\ \A i \in TxId : ~Has(b.txs, i) => done'[i] = done[i]
      /\ \A t \in b.txs : /\ done'[t.id].debit = 1
                          /\ done'[t.id].credit = IF t.stage \in FirstHalf THEN 0 ELSE 1
  <2>1. /\ BlockTxs(s) = b.txs
        /\ \A i \in TxId : ~Has(b.txs, i) => done'[i] = done[i]
        /\ \A t \in b.txs : /\ t.id \in TxId
                            /\ done'[t.id].debit = 1
                            /\ done'[t.id].credit = IF t.stage \in FirstHalf THEN 0 ELSE 1
    BY <1>1, DoneFacts
  <2>2. b.txs \subseteq Tx /\ Unique(b.txs) /\ \A t \in b.txs : TokenOK(t)
    BY <2>1 DEF OnceInv, BlocksInv, DoneInv, BlockTxs
  <2>3. \A t \in b.txs : t.stage \in Kind
    BY <1>1 DEF StagesInv
  <2> QED
    BY <2>1, <2>2, <2>3
<1>5. \A i, k : i \in InfoTxs(n, k) <=> \E t \in b.txs : t.id = i /\ t.stage = k
  BY <1>3 DEF InfoTxs
<1>6. \A i, k : Pend(i, k)' <=> Pend(i, k) \/ i \in InfoTxs(n, k)
  BY <1>3 DEF Pend, InfoTxs
<1>7. \A m \in infoMsgs : \A t \in m.txs : Pend(t.id, t.stage)
  BY DEF Pend, InfoTxs
<1>8. \A t \in b.txs : ~Pend(t.id, t.stage)
  <2> SUFFICES ASSUME NEW t \in b.txs PROVE ~Pend(t.id, t.stage)
    OBVIOUS
  <2>1. t.id \in TxId /\ t.stage \in {"normal", "relay1", "relay2"} /\ RecordOf(t.id)
    BY <1>4 DEF RecordsInv, Kind
  <2>2. /\ done[t.id].debit = IF t.stage = "relay2" THEN 1 ELSE 0
        /\ done[t.id].credit = 0
    BY <1>4, <2>1 DEF TokenOK, SecondHalf
  <2> QED
    BY <2>1, <2>2 DEF RecordOf, Record
<1>9. InfosInv'
  <2>1. \A m \in infoMsgs \cup {n} : Unique(m.txs)
    BY <1>3, <1>4 DEF InfosInv
  <2>2. \A m \in infoMsgs : \A t \in m.txs : t \notin n.txs
    BY <1>3, <1>7, <1>8
  <2>3. \A m, l \in infoMsgs \cup {n} : \A t \in m.txs : t \in l.txs => m = l
    BY <2>2 DEF InfosInv
  <2> QED
    BY <1>3, <2>1, <2>3 DEF InfosInv, Unique
<1>10. ASSUME NEW i \in TxId, ~Has(b.txs, i)
       PROVE  done'[i] = done[i] /\ \A k \in Kind : Pend(i, k)' <=> Pend(i, k)
  <2>1. \A k : i \notin InfoTxs(n, k)
    BY <1>5, <1>10 DEF Has
  <2> QED
    BY <1>4, <1>6, <1>10, <2>1
<1>11. ASSUME NEW i \in TxId, Has(b.txs, i)
       PROVE  \E k \in Kind :
                /\ done[i].debit = IF k = "relay2" THEN 1 ELSE 0
                /\ done[i].credit = 0
                /\ done'[i].debit = 1
                /\ done'[i].credit = IF k = "relay1" THEN 0 ELSE 1
                /\ Pend(i, k)' /\ \A l \in Kind : l # k => (Pend(i, l)' <=> Pend(i, l))
  <2>1. PICK t \in b.txs : t.id = i
    BY <1>11 DEF Has
  <2>2. t.stage \in {"normal", "relay1", "relay2"}
    BY <1>4 DEF Kind
  <2>3. /\ done[i].debit = IF t.stage = "relay2" THEN 1 ELSE 0
        /\ done[i].credit = 0
    BY <1>4, <2>1, <2>2 DEF TokenOK, SecondHalf
  <2>4. done'[i].debit = 1 /\ done'[i].credit = IF t.stage = "relay1" THEN 0 ELSE 1
    BY <1>4, <2>1, <2>2 DEF FirstHalf
  <2>5. \A k : i \in InfoTxs(n, k) <=> k = t.stage
    BY <1>4, <1>5, <2>1 DEF Unique
  <2>6. Pend(i, t.stage)' /\ \A l \in Kind : l # t.stage => (Pend(i, l)' <=> Pend(i, l))
    BY <1>6, <2>5
  <2>7. PICK k \in Kind : k = t.stage
    BY <1>4, <2>1
  <2>8. /\ done[i].debit = IF k = "relay2" THEN 1 ELSE 0
        /\ done[i].credit = 0
        /\ done'[i].debit = 1
        /\ done'[i].credit = IF k = "relay1" THEN 0 ELSE 1
        /\ Pend(i, k)' /\ \A l \in Kind : l # k => (Pend(i, l)' <=> Pend(i, l))
    BY <2>3, <2>4, <2>6, <2>7
  <2> QED
    BY <2>8
<1> QED
  BY <1>9, <1>10, <1>11

\* A commit changes neither the file nor what the supervisor was told.
LEMMA CommitRecords ==
  ASSUME MigInv, OnceInv, StagesInv, InfosInv, RecordsInv, NEW s \in Shard, CommitTxBlock(s),
         UNCHANGED statVars
  PROVE  /\ RecordsInv'
         /\ \A i \in TxId : ToldDebit'[i] = ToldDebit[i] /\ ToldCredit'[i] = ToldCredit[i]
<1> SUFFICES ASSUME NEW i \in TxId
             PROVE  /\ RecordOf(i)'
                    /\ ToldDebit'[i] = ToldDebit[i] /\ ToldCredit'[i] = ToldCredit[i]
  BY DEF RecordsInv, TxId
<1>1. RecordOf(i) /\ UNCHANGED <<txLifecycles, written>>
  BY DEF RecordsInv, statVars
<1>2. /\ ToldDebit[i] =
           (IF done[i].debit = 1 /\ ~Pend(i, "normal") /\ ~Pend(i, "relay1") THEN 1 ELSE 0)
      /\ ToldCredit[i] =
           (IF done[i].credit = 1 /\ ~Pend(i, "normal") /\ ~Pend(i, "relay2") THEN 1 ELSE 0)
      /\ ToldDebit'[i] =
           (IF done'[i].debit = 1 /\ ~Pend(i, "normal")' /\ ~Pend(i, "relay1")' THEN 1 ELSE 0)
      /\ ToldCredit'[i] =
           (IF done'[i].credit = 1 /\ ~Pend(i, "normal")' /\ ~Pend(i, "relay2")' THEN 1 ELSE 0)
  BY DEF ToldDebit, ToldCredit, TxId
<1>3. CASE done'[i] = done[i] /\ \A k \in Kind : Pend(i, k)' <=> Pend(i, k)
  BY <1>1, <1>2, <1>3 DEF RecordOf, Record, Kind
<1>4. ASSUME NEW k \in Kind,
             /\ done[i].debit = IF k = "relay2" THEN 1 ELSE 0
             /\ done[i].credit = 0
             /\ done'[i].debit = 1
             /\ done'[i].credit = IF k = "relay1" THEN 0 ELSE 1
             /\ Pend(i, k)' /\ \A l \in Kind : l # k => (Pend(i, l)' <=> Pend(i, l))
      PROVE  /\ RecordOf(i)'
             /\ ToldDebit'[i] = ToldDebit[i] /\ ToldCredit'[i] = ToldCredit[i]
  <2>1. CASE k = "normal"
    BY <1>1, <1>2, <1>4, <2>1 DEF RecordOf, Record, Kind
  <2>2. CASE k = "relay1"
    BY <1>1, <1>2, <1>4, <2>2 DEF RecordOf, Record, Kind
  <2>3. CASE k = "relay2"
    BY <1>1, <1>2, <1>4, <2>3 DEF RecordOf, Record, Kind
  <2> QED
    BY <2>1, <2>2, <2>3 DEF Kind
<1> QED
  BY <1>3, <1>4, CommitReports

-----------------------------------------------------------------------------
(* A measured info: what is no longer under way is on file. *)

\* A block info has one half of a transaction at most, and no other info has it.
LEMMA InfoOnce ==
  ASSUME MigInv, InfosInv, NEW m \in infoMsgs, infoMsgs' = infoMsgs \ {m}
  PROVE  /\ InfosInv'
         /\ \A i \in TxId :
              \/ \A k \in Kind : i \notin InfoTxs(m, k) /\ (Pend(i, k)' <=> Pend(i, k))
              \/ \E k \in Kind :
                   /\ i \in InfoTxs(m, k) /\ Pend(i, k) /\ ~Pend(i, k)'
                   /\ \A l \in Kind : l # k => i \notin InfoTxs(m, l) /\ (Pend(i, l)' <=> Pend(i, l))
<1>1. InfosInv'
  BY DEF InfosInv, Unique
<1>2. \A n \in infoMsgs : n.txs \subseteq Tx
  BY DEF MigInv, EpochTypes
<1>3. \A n \in infoMsgs : \A i, k : i \in InfoTxs(n, k) <=> \E t \in n.txs : t.id = i /\ t.stage = k
  BY DEF InfoTxs
<1>4. \A i, k : Pend(i, k)' <=> \E n \in infoMsgs \ {m} : i \in InfoTxs(n, k)
  BY DEF Pend, InfoTxs
<1>5. \A i, k : i \notin InfoTxs(m, k) => (Pend(i, k)' <=> Pend(i, k))
  BY <1>4 DEF Pend
<1>6. ASSUME NEW i \in TxId, NEW k \in Kind, i \in InfoTxs(m, k)
      PROVE  /\ Pend(i, k) /\ ~Pend(i, k)'
             /\ \A l \in Kind : l # k => i \notin InfoTxs(m, l)
  <2>1. PICK t \in m.txs : t.id = i /\ t.stage = k
    BY <1>3, <1>6
  <2>2. Pend(i, k)
    BY <1>6 DEF Pend
  <2>3. ASSUME NEW n \in infoMsgs \ {m}, i \in InfoTxs(n, k) PROVE FALSE
    <3>1. PICK u \in n.txs : u.id = i /\ u.stage = k
      BY <1>3, <2>3
    <3>2. u = t
      BY <1>2, <2>1, <3>1 DEF Tx
    <3> QED
      BY <3>2, <2>1 DEF InfosInv
  <2>4. \A l \in Kind : l # k => i \notin InfoTxs(m, l)
    BY <1>3, <2>1 DEF InfosInv, Unique
  <2> QED
    BY <1>4, <2>2, <2>3, <2>4
<1> QED
  BY <1>1, <1>5, <1>6

\* What a measured info does to the records of a transaction.
LEMMA MeasureRecord ==
  ASSUME MigInv, OnceInv, InfosInv, RecordsInv, NEW m \in infoMsgs, MeasureAndHandle(m),
         NEW i \in TxId
  PROVE  /\ RecordOf(i)'
         /\ ToldDebit[i] \in Int /\ ToldCredit[i] \in Int /\ written[i] \in Int
         /\ ToldDebit'[i] = ToldDebit[i] +
              (IF i \in InfoTxs(m, "normal") \cup InfoTxs(m, "relay1") THEN 1 ELSE 0)
         /\ ToldCredit'[i] = ToldCredit[i] +
              (IF i \in InfoTxs(m, "normal") \cup InfoTxs(m, "relay2") THEN 1 ELSE 0)
         /\ written'[i] = written[i] + (IF i \in InfoTxs(m, "normal") \cup Filled(m) THEN 1 ELSE 0)
         /\ i \in Filled(m) => i \notin InfoTxs(m, "normal")
<1>1. RecordOf(i) /\ infoMsgs' = infoMsgs \ {m} /\ done' = done
  BY DEF RecordsInv, MeasureAndHandle, HandleBlockInfo, NoteEpoch, histVars
<1>2. /\ ToldDebit[i] =
           (IF done[i].debit = 1 /\ ~Pend(i, "normal") /\ ~Pend(i, "relay1") THEN 1 ELSE 0)
      /\ ToldCredit[i] =
           (IF done[i].credit = 1 /\ ~Pend(i, "normal") /\ ~Pend(i, "relay2") THEN 1 ELSE 0)
      /\ ToldDebit'[i] =
           (IF done[i].debit = 1 /\ ~Pend(i, "normal")' /\ ~Pend(i, "relay1")' THEN 1 ELSE 0)
      /\ ToldCredit'[i] =
           (IF done[i].credit = 1 /\ ~Pend(i, "normal")' /\ ~Pend(i, "relay2")' THEN 1 ELSE 0)
  BY <1>1 DEF ToldDebit, ToldCredit, TxId
<1>3. /\ txLifecycles'[i] = IF i \in Filled(m) THEN {} ELSE txLifecycles[i] \cup Halves(m, i)
      /\ written'[i] = IF i \in InfoTxs(m, "normal") \cup Filled(m) THEN written[i] + 1 ELSE written[i]
  BY DEF MeasureAndHandle, UpdateMeasureRecord, Kept
<1>4. i \in Filled(m) <=> /\ Halves(m, i) # {}
                          /\ txLifecycles[i] # {} \/ Halves(m, i) = {"relay1", "relay2"}
  BY DEF Filled
<1>5. written[i] \in Int
  BY <1>1 DEF RecordOf, Record
<1>6. CASE \A k \in Kind : i \notin InfoTxs(m, k) /\ (Pend(i, k)' <=> Pend(i, k))
  <2>1. /\ i \notin InfoTxs(m, "normal") /\ i \notin InfoTxs(m, "relay1") /\ i \notin InfoTxs(m, "relay2")
        /\ Pend(i, "normal")' <=> Pend(i, "normal")
        /\ Pend(i, "relay1")' <=> Pend(i, "relay1")
        /\ Pend(i, "relay2")' <=> Pend(i, "relay2")
    BY <1>6 DEF Kind
  <2>2. Halves(m, i) = {}
    BY <2>1 DEF Halves
  <2>3. i \notin Filled(m) /\ txLifecycles'[i] = txLifecycles[i] /\ written'[i] = written[i]
    BY <1>3, <1>4, <2>1, <2>2
  <2>4. RecordOf(i)'
    BY <1>1, <2>1, <2>3 DEF RecordOf, Record
  <2> QED
    BY <1>2, <1>5, <2>1, <2>3, <2>4
<1>7. ASSUME NEW k \in Kind,
             /\ i \in InfoTxs(m, k) /\ Pend(i, k) /\ ~Pend(i, k)'
             /\ \A l \in Kind : l # k => i \notin InfoTxs(m, l) /\ (Pend(i, l)' <=> Pend(i, l))
      PROVE  /\ RecordOf(i)'
             /\ ToldDebit[i] \in Int /\ ToldCredit[i] \in Int
             /\ ToldDebit'[i] = ToldDebit[i] +
                  (IF i \in InfoTxs(m, "normal") \cup InfoTxs(m, "relay1") THEN 1 ELSE 0)
             /\ ToldCredit'[i] = ToldCredit[i] +
                  (IF i \in InfoTxs(m, "normal") \cup InfoTxs(m, "relay2") THEN 1 ELSE 0)
             /\ written'[i] = written[i] +
                  (IF i \in InfoTxs(m, "normal") \cup Filled(m) THEN 1 ELSE 0)
             /\ i \in Filled(m) => i \notin InfoTxs(m, "normal")
  <2>1. CASE k = "normal"
    <3>1. /\ i \in InfoTxs(m, "normal") /\ i \notin InfoTxs(m, "relay1") /\ i \notin InfoTxs(m, "relay2")
          /\ Pend(i, "normal") /\ ~Pend(i, "normal")'
          /\ Pend(i, "relay1")' <=> Pend(i, "relay1")
          /\ Pend(i, "relay2")' <=> Pend(i, "relay2")
      BY <1>7, <2>1 DEF Kind
    <3>2. Halves(m, i) = {}
      BY <3>1 DEF Halves
    <3>3. i \notin Filled(m) /\ txLifecycles'[i] = txLifecycles[i] /\ written'[i] = written[i] + 1
      BY <1>3, <1>4, <3>1, <3>2
    <3>4. RecordOf(i)'
      BY <1>1, <3>1, <3>3 DEF RecordOf, Record
    <3>5. done[i].debit = 1 /\ done[i].credit = 1 /\ ~Pend(i, "relay1") /\ ~Pend(i, "relay2")
      BY <1>1, <3>1 DEF RecordOf, Record
    <3> QED
      BY <1>2, <3>1, <3>3, <3>4, <3>5
  <2>2. CASE k = "relay1"
    <3>1. /\ i \in InfoTxs(m, "relay1") /\ i \notin InfoTxs(m, "normal") /\ i \notin InfoTxs(m, "relay2")
          /\ Pend(i, "relay1") /\ ~Pend(i, "relay1")'
          /\ Pend(i, "normal")' <=> Pend(i, "normal")
          /\ Pend(i, "relay2")' <=> Pend(i, "relay2")
      BY <1>7, <2>2 DEF Kind
    <3>2. Halves(m, i) = {"relay1"}
      BY <3>1 DEF Halves
    <3>3. i \in Filled(m) <=> txLifecycles[i] # {}
      BY <1>4, <3>2
    <3>4. done[i].debit = 1 /\ ~Pend(i, "normal") /\ (txLifecycles[i] = {} \/ txLifecycles[i] = {"relay2"})
      BY <1>1, <3>1 DEF RecordOf, Record
    <3>5. RecordOf(i)'
      <4>1. CASE txLifecycles[i] = {}
        <5>1. txLifecycles'[i] = {"relay1"} /\ written'[i] = written[i]
          BY <1>3, <3>1, <3>2, <3>3, <4>1
        <5> QED
          BY <1>1, <3>1, <4>1, <5>1 DEF RecordOf, Record
      <4>2. CASE txLifecycles[i] = {"relay2"}
        <5>1. txLifecycles'[i] = {} /\ written'[i] = written[i] + 1
          BY <1>3, <3>1, <3>2, <3>3, <4>2
        <5> QED
          BY <1>1, <3>1, <4>2, <5>1 DEF RecordOf, Record
      <4> QED
        BY <3>4, <4>1, <4>2
    <3> QED
      BY <1>2, <1>3, <1>5, <3>1, <3>4, <3>5
  <2>3. CASE k = "relay2"
    <3>1. /\ i \in InfoTxs(m, "relay2") /\ i \notin InfoTxs(m, "normal") /\ i \notin InfoTxs(m, "relay1")
          /\ Pend(i, "relay2") /\ ~Pend(i, "relay2")'
          /\ Pend(i, "normal")' <=> Pend(i, "normal")
          /\ Pend(i, "relay1")' <=> Pend(i, "relay1")
      BY <1>7, <2>3 DEF Kind
    <3>2. Halves(m, i) = {"relay2"}
      BY <3>1 DEF Halves
    <3>3. i \in Filled(m) <=> txLifecycles[i] # {}
      BY <1>4, <3>2
    <3>4. done[i].credit = 1 /\ ~Pend(i, "normal") /\ (txLifecycles[i] = {} \/ txLifecycles[i] = {"relay1"})
      BY <1>1, <3>1 DEF RecordOf, Record
    <3>5. RecordOf(i)'
      <4>1. CASE txLifecycles[i] = {}
        <5>1. txLifecycles'[i] = {"relay2"} /\ written'[i] = written[i]
          BY <1>3, <3>1, <3>2, <3>3, <4>1
        <5> QED
          BY <1>1, <3>1, <4>1, <5>1 DEF RecordOf, Record
      <4>2. CASE txLifecycles[i] = {"relay1"}
        <5>1. txLifecycles'[i] = {} /\ written'[i] = written[i] + 1
          BY <1>3, <3>1, <3>2, <3>3, <4>2
        <5> QED
          BY <1>1, <3>1, <4>2, <5>1 DEF RecordOf, Record
      <4> QED
        BY <3>4, <4>1, <4>2
    <3> QED
      BY <1>2, <1>3, <1>5, <3>1, <3>4, <3>5
  <2> QED
    BY <2>1, <2>2, <2>3 DEF Kind
<1> QED
  BY <1>1, <1>5, <1>6, <1>7, InfoOnce

\* A measured info adds the same numbers to the counters of its epoch and to the records.
LEMMA MeasureTotals ==
  ASSUME MigInv, OnceInv, InfosInv, RecordsInv, CounterTypes, TotalsInv,
         NEW m \in infoMsgs, MeasureAndHandle(m)
  PROVE  CounterTypes' /\ TotalsInv'
<1>1. PICK N, F, G, L : /\ N = InfoTxs(m, "normal") /\ F = InfoTxs(m, "relay1")
                        /\ G = InfoTxs(m, "relay2") /\ L = Filled(m)
  OBVIOUS
<1>2. m.epoch \in Epoch /\ m.txs \subseteq Tx /\ IsFiniteSet(Epoch) /\ IsFiniteSet(TxId)
  BY FS_Interval, RepartitionAssumption DEF MigInv, EpochTypes, Epoch, TxId
<1>3. N \in SUBSET TxId /\ F \in SUBSET TxId /\ G \in SUBSET TxId /\ L \in SUBSET TxId
  BY <1>1, <1>2 DEF InfoTxs, Filled, Tx
<1>4. IsFiniteSet(N) /\ IsFiniteSet(F) /\ IsFiniteSet(G) /\ IsFiniteSet(L)
  BY <1>2, <1>3, FS_Subset
<1>5. /\ Cardinality(N) \in Nat /\ Cardinality(F) \in Nat /\ Cardinality(G) \in Nat
      /\ Cardinality(L) \in Nat
  BY <1>4, FS_CardinalityType
<1>6. PICK n, f, g, l : n = txNum["normal"] /\ f = txNum["relay1"] /\ g = txNum["relay2"] /\ l = tclSum
  OBVIOUS
<1>7. PICK n2, f2, g2, l2 : /\ n2 = txNum'["normal"] /\ f2 = txNum'["relay1"]
                            /\ g2 = txNum'["relay2"] /\ l2 = tclSum'
  OBVIOUS
<1>8. /\ n \in [Epoch -> Nat] /\ f \in [Epoch -> Nat] /\ g \in [Epoch -> Nat] /\ l \in [Epoch -> Nat]
  BY <1>6 DEF CounterTypes, Kind
<1>9. /\ n2 = [n EXCEPT ![m.epoch] = @ + Cardinality(N)]
      /\ f2 = [f EXCEPT ![m.epoch] = @ + Cardinality(F)]
      /\ g2 = [g EXCEPT ![m.epoch] = @ + Cardinality(G)]
      /\ l2 = [l EXCEPT ![m.epoch] = @ + Cardinality(L)]
  BY <1>1, <1>6, <1>7 DEF MeasureAndHandle, UpdateMeasureRecord, Kind
<1>10. ASSUME NEW x \in [Epoch -> Nat], NEW y, NEW c \in Nat,
              y \in [Epoch -> Nat], y[m.epoch] = x[m.epoch] + c,
              \A e \in Epoch : e # m.epoch => x[e] = y[e]
       PROVE  SumOf(x, Epoch) \in Int /\ SumOf(y, Epoch) = SumOf(x, Epoch) + c
  <2>1. y[m.epoch] = x[m.epoch] + c /\ x[m.epoch] \in Nat
    BY <1>2, <1>10
  <2>2. \A e \in Epoch : x[e] \in Int /\ y[e] \in Int
    BY <1>10
  <2>3. \A e \in Epoch : e # m.epoch => x[e] = y[e]
    BY <1>10
  <2>4. SumOf(y, Epoch) = SumOf(x, Epoch) - x[m.epoch] + y[m.epoch]
    BY <1>2, <2>2, <2>3, SumChange
  <2>5. SumOf(x, Epoch) \in Int
    BY <1>2, <2>2, SumType
  <2> QED
    BY <2>1, <2>4, <2>5
<1>11. /\ n2 \in [Epoch -> Nat]
       /\ SumOf(n, Epoch) \in Int /\ SumOf(n2, Epoch) = SumOf(n, Epoch) + Cardinality(N)
  <2>1. /\ n2 \in [Epoch -> Nat] /\ n2[m.epoch] = n[m.epoch] + Cardinality(N)
        /\ \A e \in Epoch : e # m.epoch => n[e] = n2[e]
    BY <1>2, <1>5, <1>8, <1>9
  <2>2. n \in [Epoch -> Nat] /\ Cardinality(N) \in Nat
    BY <1>5, <1>8
  <2> QED
    BY <1>10, <2>1, <2>2
<1>12. /\ f2 \in [Epoch -> Nat]
       /\ SumOf(f, Epoch) \in Int /\ SumOf(f2, Epoch) = SumOf(f, Epoch) + Cardinality(F)
  <2>1. /\ f2 \in [Epoch -> Nat] /\ f2[m.epoch] = f[m.epoch] + Cardinality(F)
        /\ \A e \in Epoch : e # m.epoch => f[e] = f2[e]
    BY <1>2, <1>5, <1>8, <1>9
  <2>2. f \in [Epoch -> Nat] /\ Cardinality(F) \in Nat
    BY <1>5, <1>8
  <2> QED
    BY <1>10, <2>1, <2>2
<1>13. /\ g2 \in [Epoch -> Nat]
       /\ SumOf(g, Epoch) \in Int /\ SumOf(g2, Epoch) = SumOf(g, Epoch) + Cardinality(G)
  <2>1. /\ g2 \in [Epoch -> Nat] /\ g2[m.epoch] = g[m.epoch] + Cardinality(G)
        /\ \A e \in Epoch : e # m.epoch => g[e] = g2[e]
    BY <1>2, <1>5, <1>8, <1>9
  <2>2. g \in [Epoch -> Nat] /\ Cardinality(G) \in Nat
    BY <1>5, <1>8
  <2> QED
    BY <1>10, <2>1, <2>2
<1>14. /\ l2 \in [Epoch -> Nat]
       /\ SumOf(l, Epoch) \in Int /\ SumOf(l2, Epoch) = SumOf(l, Epoch) + Cardinality(L)
  <2>1. /\ l2 \in [Epoch -> Nat] /\ l2[m.epoch] = l[m.epoch] + Cardinality(L)
        /\ \A e \in Epoch : e # m.epoch => l[e] = l2[e]
    BY <1>2, <1>5, <1>8, <1>9
  <2>2. l \in [Epoch -> Nat] /\ Cardinality(L) \in Nat
    BY <1>5, <1>8
  <2> QED
    BY <1>10, <2>1, <2>2
<1>15. CounterTypes'
  <2>1. DOMAIN txNum' = Kind /\ DOMAIN txLifecycles' = TxId /\ DOMAIN written' = TxId
    BY DEF MeasureAndHandle, UpdateMeasureRecord
  <2>2. \A k \in Kind : txNum'[k] \in [Epoch -> Nat]
    BY <1>7, <1>11, <1>12, <1>13 DEF Kind
  <2> QED
    <3>1. tclSum' \in [Epoch -> Nat]
      BY <1>7, <1>14
    <3> QED
      BY <2>1, <2>2, <3>1, Zenon DEF CounterTypes, Kind, Epoch, TxId
<1>16. N \cap F = {} /\ N \cap G = {} /\ N \cap L = {}
  <2>1. N \cap L = {}
    BY <1>1, <1>3, MeasureRecord
  <2>2. \A i \in N : i \notin F /\ i \notin G
    <3>1. Unique(m.txs)
      BY DEF InfosInv
    <3> QED
      BY <1>1, <3>1 DEF InfoTxs, Unique
  <2> QED
    BY <2>1, <2>2
<1>17. ASSUME NEW X \in SUBSET TxId, NEW Y \in SUBSET TxId, X \cap Y = {}
       PROVE  Cardinality(X \cup Y) = Cardinality(X) + Cardinality(Y)
  <2>1. IsFiniteSet(X) /\ IsFiniteSet(Y)
    BY <1>2, FS_Subset
  <2>2. Cardinality(X \cup Y) = Cardinality(X) + Cardinality(Y) - Cardinality(X \cap Y)
    BY <2>1, FS_Union
  <2>3. Cardinality(X \cap Y) = 0
    BY <1>17, FS_EmptySet
  <2>4. Cardinality(X) \in Nat /\ Cardinality(Y) \in Nat
    BY <2>1, FS_CardinalityType
  <2> QED
    BY <2>2, <2>3, <2>4
<1>18. PICK d, c, w : d = ToldDebit /\ c = ToldCredit /\ w = written
  OBVIOUS
<1>19. PICK d2, c2, w2 : d2 = ToldDebit' /\ c2 = ToldCredit' /\ w2 = written'
  OBVIOUS
<1>20. \A i \in TxId :
         /\ d[i] \in Int /\ d2[i] = d[i] + (IF i \in N \cup F THEN 1 ELSE 0)
         /\ c[i] \in Int /\ c2[i] = c[i] + (IF i \in N \cup G THEN 1 ELSE 0)
         /\ w[i] \in Int /\ w2[i] = w[i] + (IF i \in N \cup L THEN 1 ELSE 0)
  BY <1>1, <1>18, <1>19, MeasureRecord
<1>21. N \cup F \in SUBSET TxId /\ N \cup G \in SUBSET TxId /\ N \cup L \in SUBSET TxId
  BY <1>3
<1>22. SumOf(d2, TxId) = SumOf(d, TxId) + Cardinality(N \cup F)
  BY <1>2, <1>20, <1>21, SumCount
<1>23. SumOf(c2, TxId) = SumOf(c, TxId) + Cardinality(N \cup G)
  BY <1>2, <1>20, <1>21, SumCount
<1>24. SumOf(w2, TxId) = SumOf(w, TxId) + Cardinality(N \cup L)
  BY <1>2, <1>20, <1>21, SumCount
<1>25. /\ SumOf(n, Epoch) + SumOf(f, Epoch) = SumOf(d, TxId)
       /\ SumOf(n, Epoch) + SumOf(g, Epoch) = SumOf(c, TxId)
       /\ SumOf(n, Epoch) + SumOf(l, Epoch) = SumOf(w, TxId)
  BY <1>6, <1>18 DEF TotalsInv
<1>26. /\ Cardinality(N \cup F) = Cardinality(N) + Cardinality(F)
       /\ Cardinality(N \cup G) = Cardinality(N) + Cardinality(G)
       /\ Cardinality(N \cup L) = Cardinality(N) + Cardinality(L)
  BY <1>3, <1>16, <1>17
<1>27. /\ SumOf(n2, Epoch) + SumOf(f2, Epoch) = SumOf(d2, TxId)
       /\ SumOf(n2, Epoch) + SumOf(g2, Epoch) = SumOf(c2, TxId)
       /\ SumOf(n2, Epoch) + SumOf(l2, Epoch) = SumOf(w2, TxId)
  BY <1>5, <1>11, <1>12, <1>13, <1>14, <1>22, <1>23, <1>24, <1>25, <1>26
<1>28. TotalsInv'
  <2>1. TotalsInv' <=>
          /\ SumOf(txNum'["normal"], Epoch) + SumOf(txNum'["relay1"], Epoch) = SumOf(ToldDebit', TxId)
          /\ SumOf(txNum'["normal"], Epoch) + SumOf(txNum'["relay2"], Epoch) = SumOf(ToldCredit', TxId)
          /\ SumOf(txNum'["normal"], Epoch) + SumOf(tclSum', Epoch) = SumOf(written', TxId)
    BY DEF TotalsInv, Epoch, TxId
  <2> QED
    BY <1>7, <1>19, <1>27, <2>1
<1> QED
  BY <1>15, <1>28

-----------------------------------------------------------------------------
(* The measurement agrees with the chains. *)

\* A step that commits no block of transactions and measures nothing.
LEMMA StatsUnchanged ==
  ASSUME StatsInv, UNCHANGED <<infoMsgs, done, statVars>>
  PROVE  InfosInv' /\ RecordsInv' /\ CounterTypes' /\ TotalsInv'
<1>1. UNCHANGED <<infoMsgs, done, txLifecycles, written, txNum, tclSum>>
  BY DEF statVars
<1>2. \A i, k : Pend(i, k)' <=> Pend(i, k)
  BY <1>1 DEF Pend, InfoTxs
<1>3. InfosInv'
  BY <1>1 DEF StatsInv, InfosInv, Unique
<1>4. RecordsInv'
  BY <1>1, <1>2 DEF StatsInv, RecordsInv, RecordOf, Record, TxId
<1>5. CounterTypes'
  BY <1>1, Zenon DEF StatsInv, CounterTypes, Kind, Epoch, TxId
<1>6. TotalsInv'
  <2>1. ToldDebit' = ToldDebit /\ ToldCredit' = ToldCredit
    BY <1>1, <1>2 DEF ToldDebit, ToldCredit, TxId
  <2> QED
    BY <1>1, <2>1, Zenon DEF StatsInv, TotalsInv, Epoch, TxId
<1> QED
  BY <1>3, <1>4, <1>5, <1>6

\* A commit reports what it does.
LEMMA StatsCommit ==
  ASSUME MigInv, OnceInv, StatsInv, NEW s \in Shard, CommitTxBlock(s), UNCHANGED statVars
  PROVE  InfosInv' /\ RecordsInv' /\ CounterTypes' /\ TotalsInv'
<1>1. /\ StagesInv /\ InfosInv /\ RecordsInv /\ CounterTypes /\ TotalsInv
      /\ UNCHANGED <<txLifecycles, written, txNum, tclSum>>
  BY DEF StatsInv, statVars
<1>2. /\ RecordsInv'
      /\ \A i \in TxId : ToldDebit'[i] = ToldDebit[i] /\ ToldCredit'[i] = ToldCredit[i]
  BY <1>1, CommitRecords
<1>3. InfosInv'
  BY <1>1, CommitReports
<1>4. CounterTypes'
  BY <1>1, Zenon DEF CounterTypes, Kind, Epoch, TxId
<1>5. TotalsInv'
  <2>1. IsFiniteSet(TxId)
    BY RepartitionAssumption DEF TxId
  <2>2. SumOf(ToldDebit', TxId) = SumOf(ToldDebit, TxId) /\ SumOf(ToldCredit', TxId) = SumOf(ToldCredit, TxId)
    BY <1>2, <2>1, SumSame
  <2> QED
    BY <1>1, <2>2 DEF TotalsInv, Epoch, TxId
<1> QED
  BY <1>2, <1>3, <1>4, <1>5

\* Every step of the measured system is a step of the system.
LEMMA MeasuredStep ==
  ASSUME [StatsNext]_measuredVars
  PROVE  [Next]_vars
BY DEF StatsNext, measuredVars, Unmeasured, MeasureAndHandle, Next, Supervisor

\* A step that is not measured, by what it does to the chains.
LEMMA UnmeasuredStep ==
  ASSUME Unmeasured
  PROVE  \/ \E s \in Shard : CommitTxBlock(s)
         \/ UNCHANGED <<infoMsgs, done>>
<1>1. SupRepartition \/ SupSendTxs => UNCHANGED <<infoMsgs, done>>
  BY DEF SupRepartition, SupSendTxs, histVars
<1>2. \A s \in Shard : Receive(s) => UNCHANGED <<infoMsgs, done>>
  BY DEF Receive, HandleReceiveTxs, HandleRepartitionStart, HandleAccountMigration, histVars
<1>3. \A s \in Shard : Build(s) => UNCHANGED <<infoMsgs, done>>
  BY DEF Build, BuildTxBlock, MigrateAccountsAndTxs, MigrateAccounts, BuildMigrationProposal,
         netVars, histVars
<1>4. \A s \in Shard : CommitMigrationBlock(s) => UNCHANGED <<infoMsgs, done>>
  BY DEF CommitMigrationBlock, netVars, histVars
<1>5. \A m \in stateMsgs : LoseStates(m) => UNCHANGED <<infoMsgs, done>>
  BY DEF LoseStates, histVars
<1> QED
  BY <1>1, <1>2, <1>3, <1>4, <1>5 DEF Unmeasured, Commit

\* The records of the measurement and the infos under way add up in every state.
LEMMA StatsInvariance == StatsSpec => [](MigInv /\ OnceInv /\ StatsInv)
<1>1. StatsInit => MigInv /\ OnceInv /\ StatsInv
  BY MigInit, OnceInit, StatsStart DEF StatsInit, Init
<1>2. MigInv /\ OnceInv /\ StatsInv /\ [StatsNext]_measuredVars => (MigInv /\ OnceInv /\ StatsInv)'
  <2> SUFFICES ASSUME MigInv, OnceInv, StatsInv, [StatsNext]_measuredVars
               PROVE  MigInv' /\ OnceInv' /\ StatsInv'
    OBVIOUS
  <2>1. [Next]_vars
    BY MeasuredStep
  <2>2. MigInv' /\ OnceInv'
    BY <2>1, NextMig, NextOnce, MigPreserved
  <2>3. StagesInv'
    BY <2>1, StagesStep DEF StatsInv
  <2>4. CASE UNCHANGED measuredVars
    <3>1. UNCHANGED <<infoMsgs, done, statVars>>
      BY <2>4 DEF measuredVars, vars, sharedVars, netVars, histVars
    <3> QED
      BY <2>2, <2>3, <3>1, StatsUnchanged DEF StatsInv
  <2>5. ASSUME NEW m \in infoMsgs, MeasureAndHandle(m) PROVE StatsInv'
    <3>1. InfosInv /\ RecordsInv /\ CounterTypes /\ TotalsInv /\ infoMsgs' = infoMsgs \ {m}
      BY <2>5 DEF StatsInv, MeasureAndHandle, HandleBlockInfo, NoteEpoch
    <3>2. CounterTypes' /\ TotalsInv'
      BY <2>5, <3>1, MeasureTotals
    <3>3. \A i \in TxId : RecordOf(i)'
      BY <2>5, <3>1, MeasureRecord
    <3>4. RecordsInv'
      BY <3>3 DEF RecordsInv, TxId
    <3>5. InfosInv'
      BY <3>1, InfoOnce
    <3> QED
      BY <2>3, <3>2, <3>4, <3>5 DEF StatsInv
  <2>6. CASE Unmeasured /\ UNCHANGED statVars
    <3>1. ASSUME NEW s \in Shard, CommitTxBlock(s) PROVE StatsInv'
      BY <2>3, <2>6, <3>1, StatsCommit DEF StatsInv
    <3>2. CASE UNCHANGED <<infoMsgs, done>>
      BY <2>2, <2>3, <2>6, <3>2, StatsUnchanged DEF StatsInv
    <3> QED
      BY <2>2, <2>6, <3>1, <3>2, UnmeasuredStep
  <2> QED
    BY <2>2, <2>4, <2>5, <2>6 DEF StatsNext
<1> QED
  BY <1>1, <1>2, PTL DEF StatsSpec

\* In whichever order and from whichever epochs the infos of the two shards of a relay
\* come: when none is under way the lines, the open life cycles and the totals of the
\* measurement are those of the chains.
THEOREM StatsAgree == StatsSpec => []StatsMatchChains
<1>1. OnceInv /\ StatsInv => StatsMatchChains
  <2> SUFFICES ASSUME OnceInv, StatsInv PROVE StatsMatchChains
    OBVIOUS
  <2>1. RecordsInv /\ CounterTypes /\ TotalsInv
    BY DEF StatsInv
  <2>2. \A i \in TxId : Reported(i) => \A k : ~Pend(i, k)
    BY DEF Reported, Pend, InfoTxs
  <2>3. RecordsMatch
    <3> SUFFICES ASSUME NEW i \in TxId, Reported(i)
                 PROVE  /\ written[i] = done[i].credit
                        /\ txLifecycles[i] # {} <=> done[i].debit > done[i].credit
      BY DEF RecordsMatch
    <3>1. RecordOf(i) /\ ~Pend(i, "normal") /\ ~Pend(i, "relay1") /\ ~Pend(i, "relay2")
      BY <2>1, <2>2 DEF RecordsInv
    <3> QED
      BY <3>1 DEF RecordOf, Record
  <2>4. ASSUME \A i \in TxId : Reported(i)
        PROVE  /\ SumFunction(txNum["normal"]) + SumFunction(txNum["relay1"])
                  = SumFunction([i \in TxId |-> done[i].debit])
               /\ SumFunction(txNum["normal"]) + SumFunction(txNum["relay2"])
                  = SumFunction([i \in TxId |-> done[i].credit])
               /\ SumFunction(txNum["normal"]) + SumFunction(tclSum) = SumFunction(written)
    <3>1. PICK d, c : /\ d = [i \in TxId |-> done[i].debit] /\ c = [i \in TxId |-> done[i].credit]
      OBVIOUS
    <3>2. \A i \in TxId : /\ done[i].debit \in {0, 1} /\ done[i].credit \in {0, 1}
                          /\ \A k : ~Pend(i, k)
      BY <2>2, <2>4 DEF OnceInv, DoneInv
    <3>3. \A i \in TxId : ToldDebit[i] = d[i] /\ ToldCredit[i] = c[i]
      BY <3>1, <3>2 DEF ToldDebit, ToldCredit
    <3>4. IsFiniteSet(TxId) /\ DOMAIN d = TxId /\ DOMAIN c = TxId /\ DOMAIN written = TxId
      BY <2>1, <3>1, RepartitionAssumption DEF CounterTypes, TxId
    <3>5. SumOf(ToldDebit, TxId) = SumOf(d, TxId) /\ SumOf(ToldCredit, TxId) = SumOf(c, TxId)
      BY <3>3, <3>4, SumSame
    <3>6. /\ DOMAIN txNum["normal"] = Epoch /\ DOMAIN txNum["relay1"] = Epoch
          /\ DOMAIN txNum["relay2"] = Epoch /\ DOMAIN tclSum = Epoch
      BY <2>1 DEF CounterTypes, Kind
    <3>7. /\ SumFunction(d) = SumOf(d, TxId) /\ SumFunction(c) = SumOf(c, TxId)
          /\ SumFunction(written) = SumOf(written, TxId)
      BY <3>4, SumFunctionIs
    <3>8. /\ SumFunction(txNum["normal"]) = SumOf(txNum["normal"], Epoch)
          /\ SumFunction(txNum["relay1"]) = SumOf(txNum["relay1"], Epoch)
          /\ SumFunction(txNum["relay2"]) = SumOf(txNum["relay2"], Epoch)
          /\ SumFunction(tclSum) = SumOf(tclSum, Epoch)
      BY <3>6, SumFunctionIs
    <3> QED
      BY <2>1, <3>1, <3>5, <3>7, <3>8 DEF TotalsInv
  <2>5. TotalsMatch
    BY <2>4, Zenon DEF TotalsMatch
  <2> QED
    BY <2>3, <2>5 DEF StatsMatchChains
<1> QED
  BY StatsInvariance, <1>1, PTL

=============================================================================
