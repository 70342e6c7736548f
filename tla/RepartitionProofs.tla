-------------------------- MODULE RepartitionProofs --------------------------
(***************************************************************************)
(* What the steps of Repartition preserve, in both modes: CLPARelayProofs  *)
(* and CLPABrokerProofs draw the theorems from it.                         *)
(***************************************************************************)
EXTENDS Repartition, FiniteSetTheorems, TLAPS

-----------------------------------------------------------------------------
(* Types. *)

\* States of some accounts.
States == UNION {[S -> Int] : S \in SUBSET Account}

AnyStateMsg == [src : Shard, dest : Shard, epoch : 0 .. MaxEpoch, states : States]

\* There is at most one: an open round, or states of one shard.
AtMostOne(S) == \A x, y \in S : x = y

BlockOK(b) ==
  \/ b.type = "tx" /\ b = TxBlock(b.txs) /\ b.txs \subseteq Tx
  \/ b.type = "migration" /\ b = MigrationBlock(b.states) /\ b.states \in States

\* The supervisor and the epochs of the shards.
EpochTypes ==
  /\ supEpoch \in 0 .. MaxEpoch /\ epochSynced \in BOOLEAN
  /\ shardEpoch \in [Shard -> 0 .. MaxEpoch]
  /\ epoch \in [Shard -> 0 .. MaxEpoch] /\ chainEpoch \in [Shard -> 0 .. MaxEpoch]
  /\ ready \in [Shard -> BOOLEAN]
  /\ \A m \in infoMsgs : m.shard \in Shard /\ m.epoch \in 0 .. MaxEpoch /\ m.txs \subseteq Tx
  /\ startMsgs \subseteq [to : Shard, epoch : 0 .. MaxEpoch, moves : Moves]

\* What the shards hold and exchange.
StateTypes ==
  /\ vertexLoc \in [Account -> Shard]
  /\ modified \in [Shard -> Moves]
  /\ collected \in [Shard -> [Shard -> SUBSET States]]
  /\ \A s, r \in Shard : AtMostOne(collected[s][r])
  /\ unhandled \in [Shard -> SUBSET AnyStateMsg]
  /\ \A s \in Shard : \A m \in unhandled[s] : m.dest = s /\ m.epoch > epoch[s]
  /\ stateMsgs \subseteq AnyStateMsg
  /\ loc \in [Shard -> [Account -> Shard]]
  /\ balance \in [Shard -> [Account -> Int]] /\ ledger \in [Account -> Int]
  /\ DOMAIN proposal = Shard
  /\ \A s \in Shard : AtMostOne(proposal[s]) /\ \A b \in proposal[s] : BlockOK(b)
  /\ lost \in 0 .. MaxLost

\* The transactions under way.
TxTypes ==
  /\ unsent \subseteq TxId
  /\ pool \in [Shard -> SUBSET Tx]
  /\ \A m \in txMsgs : m.to \in Shard /\ m.txs \subseteq Tx

-----------------------------------------------------------------------------
(* The epochs. *)

\* The shard is in the epoch of the supervisor: it has no migration of that
\* epoch before it.
Migrated(s) == chainEpoch[s] = supEpoch

\* Beside EpochsInStep: what the supervisor has heard of a shard is not ahead of
\* its chain, so it only starts an epoch when all chains are in the last one; a
\* start message under way is of this epoch and its shard has not entered it.
EpochInv ==
  /\ EpochsInStep
  /\ \A s \in Shard : epoch[s] <= supEpoch /\ shardEpoch[s] <= chainEpoch[s]
  /\ \A m \in infoMsgs : m.epoch <= chainEpoch[m.shard]
  /\ epochSynced => \A s \in Shard : Migrated(s)
  /\ \A m \in startMsgs : m.epoch = supEpoch /\ epoch[m.to] = supEpoch - 1
  /\ \A m, k \in startMsgs : m.to = k.to => m = k

-----------------------------------------------------------------------------
(* The locations. *)

\* These moves bring the locations shard s has to those of the supervisor.
MovesFor(s, mv) ==
  /\ DOMAIN mv = {a \in Account : vertexLoc[a] # loc[s][a]}
  /\ \A a \in DOMAIN mv : mv[a] = vertexLoc[a]

\* The shards that have migrated agree with the supervisor, the others with
\* each other; blocks fit the locations of their shard.
LocInv ==
  /\ \A s \in Shard : Migrated(s) => loc[s] = vertexLoc
  /\ \A s, r \in Shard : ~Migrated(s) /\ ~Migrated(r) => loc[s] = loc[r]
  /\ \A m \in startMsgs : MovesFor(m.to, m.moves)
  /\ \A s \in Shard : ready[s] => MovesFor(s, modified[s])
  /\ \A s \in Shard : \A b \in proposal[s] :
       /\ b.type = "migration" => ready[s] /\ DOMAIN b.states = DOMAIN modified[s]
       /\ b.type = "tx" => \A t \in b.txs : t.stage = "normal" =>
            loc[s][From(t)] = s /\ loc[s][To(t)] = s

-----------------------------------------------------------------------------
(* The exchange of the states, as long as none is lost. *)

\* The shard has sent its states of this epoch: its own message is under way,
\* has been collected, or has served its purpose.
Sent(s) ==
  \/ Migrated(s)
  \/ ready[s] /\ (collected[s][s] # {} \/ \E m \in stateMsgs : m.src = s /\ m.dest = s)

\* These are the states of all the accounts that move from shard r to shard s,
\* and they are still current.
StatesFor(r, s, st) ==
  /\ DOMAIN st = {a \in Account : loc[s][a] = r /\ vertexLoc[a] = s /\ r # s}
  /\ \A a \in DOMAIN st : st[a] = ledger[a]

\* A message with states is of this epoch, from a shard that has sent, to one that
\* has not migrated and has nothing of that shard yet.
MsgInv(m) ==
  /\ m.epoch = supEpoch
  /\ ~Migrated(m.dest) /\ Sent(m.src)
  /\ collected[m.dest][m.src] = {}
  /\ StatesFor(m.src, m.dest, m.states)

\* Every shard sends once, and the messages to a shard are of different shards.
SendOnce ==
  /\ \A m, k \in stateMsgs : m.src = k.src /\ m.dest = k.dest => m = k
  /\ \A s \in Shard : \A m, k \in unhandled[s] : m.src = k.src => m = k
  /\ \A m \in stateMsgs : \A k \in unhandled[m.dest] : m.src # k.src

\* A shard that has sent does not touch its accounts before it has migrated, and
\* none migrates before all have sent.
Barrier ==
  /\ \A s, r \in Shard : Migrated(s) => Sent(r)
  /\ \A s \in Shard : ready[s] /\ Sent(s) => \A b \in proposal[s] : b.type # "tx"
  /\ \A s \in Shard : \A b \in proposal[s] : b.type = "migration" => AllCollected(s)

CollectInv ==
  /\ \A m \in stateMsgs : MsgInv(m)
  /\ \A s \in Shard : \A m \in unhandled[s] : MsgInv(m)
  /\ \A s, r \in Shard : collected[s][r] # {} => ready[s] /\ Sent(r)
  /\ \A s, r \in Shard : \A st \in collected[s][r] : StatesFor(r, s, st)

\* The balance of an account is what all blocks have done to it, at the shard
\* that has it before the shard it goes to has taken it, and from then on there.
OwnerInv ==
  \A s \in Shard, a \in Account :
    loc[s][a] = s /\ (Migrated(s) \/ ~Migrated(vertexLoc[a])) => balance[s][a] = ledger[a]

ExchangeInv == SendOnce /\ Barrier /\ CollectInv /\ OwnerInv /\ MigrationBlockCurrent

MigInv ==
  /\ EpochTypes /\ StateTypes
  /\ EpochInv /\ LocInv
  /\ lost = 0 => ExchangeInv

-----------------------------------------------------------------------------
(* The steps. *)

migVars == <<supEpoch, epochSynced, shardEpoch, vertexLoc, metaVars, chainVars, proposal,
             startMsgs, stateMsgs, infoMsgs, lost, ledger>>

\* The part of readTxsAndSend both modes share.
SendTxs ==
  /\ EpochSync /\ epochSynced' = TRUE
  /\ UNCHANGED <<supEpoch, shardEpoch, vertexLoc, metaVars, chainVars, proposal, startMsgs,
                 stateMsgs, infoMsgs, lost, ledger>>

\* Both modes propose transactions that belong to the shard.
Propose(s, txs) ==
  /\ MayBuildTxBlock(s)
  /\ txs \subseteq Tx
  /\ \A t \in txs : t.stage = "normal" => loc[s][From(t)] = s /\ loc[s][To(t)] = s
  /\ proposal' = [proposal EXCEPT ![s] = {TxBlock(txs)}]
  /\ UNCHANGED <<supEpoch, epochSynced, shardEpoch, vertexLoc, metaVars, chainVars, startMsgs,
                 stateMsgs, infoMsgs, lost, ledger>>

ShardStep(s) ==
  \/ \E m \in startMsgs : HandleRepartitionStart(s, m)
  \/ \E m \in stateMsgs : HandleAccountMigration(s, m)
  \/ MigrateAccounts(s)
  \/ \E txs : Propose(s, txs)
  \/ BuildMigrationProposal(s)
  \/ \E b \in proposal[s] : b.type = "tx" /\ AddTxBlock(s, b.txs)
  \/ CommitMigrationBlock(s)

\* What either mode does to the variables of the migration.
MigStep ==
  \/ UNCHANGED migVars
  \/ \E m \in infoMsgs : NoteEpoch(m)
  \/ SupRepartition
  \/ SendTxs
  \/ \E s \in Shard : ShardStep(s)
  \/ \E m \in stateMsgs : LoseStates(m)

-----------------------------------------------------------------------------
(* Facts about single operators. *)

\* NoteEpoch keeps the later one of two epochs.
LEMMA MaxOfTwo ==
  ASSUME NEW x \in Nat, NEW y \in Nat
  PROVE  Max({x, y}) = IF x >= y THEN x ELSE y
<1> DEFINE m == IF x >= y THEN x ELSE y
<1>1. m \in {x, y} /\ \A z \in {x, y} : m >= z
  OBVIOUS
<1>2. \A n \in {x, y} : (\A z \in {x, y} : n >= z) => n = m
  OBVIOUS
<1> QED
  BY <1>1, <1>2 DEF Max

\* When the supervisor sends transactions or starts an epoch all shards have
\* migrated, and no shard is in a migration or about to be.
LEMMA SyncMeansMigrated ==
  ASSUME EpochTypes, EpochInv, EpochSync
  PROVE  /\ \A s \in Shard : Migrated(s) /\ ~ready[s] /\ epoch[s] = supEpoch
         /\ startMsgs = {}
<1>1. ASSUME NEW s \in Shard PROVE chainEpoch[s] = supEpoch
  BY DEF EpochTypes, EpochInv, EpochsInStep, EpochSync, Migrated
<1>2. ASSUME NEW s \in Shard PROVE ~ready[s] /\ epoch[s] = supEpoch
  BY <1>1 DEF EpochTypes, EpochInv, EpochsInStep
<1>3. ASSUME NEW m \in startMsgs PROVE FALSE
  BY <1>2 DEF EpochTypes, EpochInv
<1> QED
  BY <1>1, <1>2, <1>3 DEF Migrated

-----------------------------------------------------------------------------
(* The epochs. *)

\* Every step keeps the epochs in step, whatever is lost.
LEMMA EpochStep ==
  ASSUME EpochTypes, StateTypes, EpochInv, MigStep
  PROVE  EpochTypes' /\ EpochInv'
<1>0. MaxEpoch \in Nat
  BY RepartitionAssumption
<1> USE DEF EpochTypes, EpochInv, EpochsInStep, Migrated
<1>1. CASE UNCHANGED migVars
  BY <1>1 DEF migVars, metaVars, chainVars
<1>2. ASSUME NEW m \in infoMsgs, NoteEpoch(m)
      PROVE  EpochTypes' /\ EpochInv'
  <2>1. Max({shardEpoch[m.shard], m.epoch}) \in {shardEpoch[m.shard], m.epoch}
    <3>1. shardEpoch[m.shard] \in Nat /\ m.epoch \in Nat
      BY <1>0
    <3> QED
      BY <3>1, MaxOfTwo
  <2>2. PICK e \in {shardEpoch[m.shard], m.epoch} :
          shardEpoch' = [shardEpoch EXCEPT ![m.shard] = e]
    BY <1>2, <2>1 DEF NoteEpoch
  <2>3. infoMsgs' \subseteq infoMsgs
        /\ UNCHANGED <<supEpoch, epochSynced, epoch, chainEpoch, ready, startMsgs>>
    BY <1>2 DEF NoteEpoch, metaVars, chainVars
  <2> QED
    BY <1>0, <2>2, <2>3
<1>3. CASE SupRepartition
  <2>1. PICK mv \in Moves :
          startMsgs' = startMsgs \cup
            {[to |-> s, epoch |-> supEpoch + 1, moves |-> mv] : s \in Shard}
    BY <1>3 DEF SupRepartition
  <2>2. startMsgs = {} /\ \A s \in Shard : chainEpoch[s] = supEpoch /\ epoch[s] = supEpoch /\ ~ready[s]
    BY <1>3, SyncMeansMigrated DEF SupRepartition
  <2>3. supEpoch' \in 0 .. MaxEpoch /\ supEpoch' = supEpoch + 1 /\ epochSynced' = FALSE
    BY <1>0, <1>3 DEF SupRepartition
  <2>4. UNCHANGED <<shardEpoch, epoch, chainEpoch, ready, infoMsgs>>
    BY <1>3 DEF SupRepartition, metaVars, chainVars
  <2>5. startMsgs' \subseteq [to : Shard, epoch : 0 .. MaxEpoch, moves : Moves]'
    BY <2>1, <2>2, <2>3 DEF Moves
  <2>6. /\ \A m \in startMsgs' : m.epoch = supEpoch'
        /\ \A m, k \in startMsgs' : m.to = k.to => m = k
        /\ \A m \in startMsgs' : m.to \in Shard
    BY <2>1, <2>2, <2>3
  <2>7. EpochTypes'
    BY <2>3, <2>4, <2>5
  <2> QED
    BY <1>0, <2>2, <2>3, <2>4, <2>6, <2>7
<1>4. CASE SendTxs
  BY <1>4, SyncMeansMigrated DEF SendTxs, metaVars, chainVars
<1>5. ASSUME NEW s \in Shard, NEW m \in startMsgs, HandleRepartitionStart(s, m)
      PROVE  EpochTypes' /\ EpochInv'
  <2>1. m.epoch = epoch[s] + 1 /\ m.epoch = supEpoch /\ ~ready[s]
    BY <1>5 DEF HandleRepartitionStart
  <2>2. epoch' = [epoch EXCEPT ![s] = m.epoch] /\ ready' = [ready EXCEPT ![s] = TRUE]
    BY <1>5, <2>1 DEF HandleRepartitionStart
  <2>3. startMsgs' \subseteq startMsgs /\ \A k \in startMsgs' : k.to # s
    BY <1>5 DEF HandleRepartitionStart
  <2> QED
    BY <1>5, <2>1, <2>2, <2>3 DEF HandleRepartitionStart, supVars, chainVars
<1>6. ASSUME NEW s \in Shard,
             \/ \E m \in stateMsgs : HandleAccountMigration(s, m)
             \/ MigrateAccounts(s)
             \/ \E txs : Propose(s, txs)
             \/ BuildMigrationProposal(s)
      PROVE  EpochTypes' /\ EpochInv'
  <2>1. UNCHANGED <<supEpoch, epochSynced, shardEpoch, epoch, chainEpoch, ready, infoMsgs, startMsgs>>
    BY <1>6 DEF HandleAccountMigration, MigrateAccounts, Propose, BuildMigrationProposal,
       supVars, metaVars, chainVars, netVars
  <2> QED
    BY <2>1
<1>7. ASSUME NEW s \in Shard, NEW b \in proposal[s], b.type = "tx", AddTxBlock(s, b.txs)
      PROVE  EpochTypes' /\ EpochInv'
  <2>1. b.txs \subseteq Tx
    BY <1>7 DEF StateTypes, BlockOK
  <2>2. infoMsgs' = infoMsgs \cup {[shard |-> s, epoch |-> chainEpoch[s], txs |-> b.txs]}
        /\ UNCHANGED <<supEpoch, epochSynced, shardEpoch, epoch, chainEpoch, ready, startMsgs>>
    BY <1>7 DEF AddTxBlock, supVars, metaVars
  <2> QED
    BY <1>0, <2>1, <2>2
<1>8. ASSUME NEW s \in Shard, CommitMigrationBlock(s)
      PROVE  EpochTypes' /\ EpochInv'
  BY <1>8 DEF CommitMigrationBlock, supVars, netVars
<1>9. CASE \E m \in stateMsgs : LoseStates(m)
  BY <1>9 DEF LoseStates, supVars, metaVars, chainVars
<1> QED
  BY <1>1, <1>2, <1>3, <1>4, <1>5, <1>6, <1>7, <1>8, <1>9 DEF MigStep, ShardStep

-----------------------------------------------------------------------------
(* Balances and states. *)

\* There are finitely many transactions, so that blocks can be counted.
LEMMA TxFinite == IsFiniteSet(Tx)
<1> DEFINE stages == {"normal"} \cup FirstHalf \cup SecondHalf
           f == [t \in Tx |-> <<t.id, t.stage>>]
<1>1. IsFiniteSet(stages)
  <2>1. stages = {"normal"} \cup {"relay1"} \cup {"sigma1"} \cup {"relay2"} \cup {"sigma2"}
    BY DEF FirstHalf, SecondHalf
  <2>2. /\ IsFiniteSet({"normal"}) /\ IsFiniteSet({"relay1"}) /\ IsFiniteSet({"sigma1"})
        /\ IsFiniteSet({"relay2"}) /\ IsFiniteSet({"sigma2"})
    BY FS_Singleton
  <2>3. IsFiniteSet({"normal"} \cup {"relay1"} \cup {"sigma1"})
    BY <2>2, FS_Union
  <2>4. IsFiniteSet({"normal"} \cup {"relay1"} \cup {"sigma1"} \cup {"relay2"} \cup {"sigma2"})
    BY <2>2, <2>3, FS_Union
  <2> QED
    BY <2>1, <2>4
<1>2. IsFiniteSet(TxId \X stages)
  BY <1>1, FS_Product, RepartitionAssumption DEF TxId
<1>3. f \in Injection(Tx, TxId \X stages)
  <2>1. f \in [Tx -> TxId \X stages]
    BY DEF Tx
  <2>2. \A t, u \in Tx : f[t] = f[u] => t = u
    BY DEF Tx
  <2> QED
    BY <2>1, <2>2 DEF Injection, IsInjective
<1> QED
  BY <1>2, <1>3, FS_Injection

\* What a block does to an account is a number, and nothing where the account
\* is not at home.
LEMMA ChangeFacts ==
  ASSUME NEW s, NEW a, NEW txs \in SUBSET Tx
  PROVE  /\ Change(s, a, txs) \in Int
         /\ (/\ loc[s][a] # s
             /\ \A t \in txs : t.stage = "normal" => loc[s][From(t)] = s /\ loc[s][To(t)] = s)
            => Change(s, a, txs) = 0
<1>1. IsFiniteSet(txs)
  BY TxFinite, FS_Subset
<1>2. Credited(s, a, txs) \in SUBSET txs /\ Debited(s, a, txs) \in SUBSET txs
  BY DEF Credited, Debited
<1>3. Cardinality(Credited(s, a, txs)) \in Nat /\ Cardinality(Debited(s, a, txs)) \in Nat
  BY <1>1, <1>2, FS_Subset, FS_CardinalityType
<1>4. ASSUME loc[s][a] # s,
             \A t \in txs : t.stage = "normal" => loc[s][From(t)] = s /\ loc[s][To(t)] = s
      PROVE  Change(s, a, txs) = 0
  <2>1. Credited(s, a, txs) = {} /\ Debited(s, a, txs) = {}
    BY <1>4 DEF Credited, Debited
  <2> QED
    BY <2>1, FS_EmptySet DEF Change
<1> QED
  BY <1>3, <1>4 DEF Change

\* The states of an account that were collected, or a new one, are balances.
LEMMA MigratedStateType ==
  ASSUME StateTypes, NEW s \in Shard, NEW a
  PROVE  MigratedState(s, a) \subseteq Int
<1>1. ASSUME NEW st \in UNION {collected[s][r] : r \in Shard}, a \in DOMAIN st
      PROVE  st[a] \in Int
  <2>1. st \in States
    BY <1>1 DEF StateTypes
  <2> QED
    BY <1>1, <2>1 DEF States
<1> QED
  BY <1>1 DEF MigratedState

\* The states that move from one shard to another are states of accounts.
LEMMA MovedStatesType ==
  ASSUME StateTypes, NEW s \in Shard, NEW d \in Shard
  PROVE  MovedStates(s, d) \in States
<1> DEFINE S == {x \in DOMAIN modified[s] : loc[s][x] = s /\ modified[s][x] = d}
<1>1. S \subseteq Account
  BY DEF StateTypes, Moves
<1>2. MovedStates(s, d) \in [S -> Int]
  BY <1>1 DEF MovedStates, StateTypes
<1> QED
  BY <1>1, <1>2 DEF States

\* Every step keeps the types of what the shards hold and exchange.
LEMMA StateStep ==
  ASSUME EpochTypes, StateTypes, EpochInv, LocInv, MigStep
  PROVE  StateTypes'
<1>0. MaxEpoch \in Nat /\ MaxLost \in Nat
  BY RepartitionAssumption
<1>1. CASE \/ UNCHANGED migVars
           \/ \E m \in infoMsgs : NoteEpoch(m)
           \/ SendTxs
  <2>1. UNCHANGED <<vertexLoc, modified, collected, unhandled, epoch, stateMsgs, loc, balance,
                    ledger, proposal, lost>>
    BY <1>1 DEF migVars, NoteEpoch, SendTxs, metaVars, chainVars, histVars
  <2> QED
    BY <2>1 DEF StateTypes, AtMostOne, BlockOK, TxBlock, MigrationBlock, AnyStateMsg, States,
        Moves, Tx, TxId
<1>2. CASE SupRepartition
  <2>1. UNCHANGED <<modified, collected, unhandled, epoch, stateMsgs, loc, balance,
                    ledger, proposal, lost>>
    BY <1>2 DEF SupRepartition, metaVars, chainVars, histVars
  <2>2. vertexLoc' \in [Account -> Shard]
    BY <1>2 DEF SupRepartition, StateTypes, Moves
  <2> QED
    BY <2>1, <2>2 DEF StateTypes, AtMostOne, BlockOK, TxBlock, MigrationBlock, AnyStateMsg, States,
        Moves, Tx, TxId
<1>3. ASSUME NEW s \in Shard, NEW m \in startMsgs, HandleRepartitionStart(s, m)
      PROVE  StateTypes'
  <2>1. UNCHANGED <<vertexLoc, stateMsgs, loc, balance, ledger, proposal, lost>>
    BY <1>3 DEF HandleRepartitionStart, supVars, chainVars, histVars
  <2>2. m.epoch = epoch[s] + 1 /\ m.moves \in Moves
    BY <1>3 DEF HandleRepartitionStart, EpochInv, EpochTypes
  <2>3. /\ epoch' = [epoch EXCEPT ![s] = m.epoch]
        /\ modified' = [modified EXCEPT ![s] = m.moves]
        /\ unhandled' = [unhandled EXCEPT ![s] = Later(s, m.epoch)]
    BY <1>3, <2>2 DEF HandleRepartitionStart
  <2>4. modified' \in [Shard -> Moves]
    BY <2>2, <2>3 DEF StateTypes
  <2>5. /\ unhandled' \in [Shard -> SUBSET AnyStateMsg]
        /\ \A r \in Shard : \A k \in unhandled'[r] : k.dest = r /\ k.epoch > epoch'[r]
    BY <1>0, <2>2, <2>3 DEF StateTypes, Later, AnyStateMsg, EpochTypes
  <2>6. /\ collected' \in [Shard -> [Shard -> SUBSET States]]
        /\ \A q, r \in Shard : AtMostOne(collected'[q][r])
    <3> DEFINE early == Early(s, unhandled[s])
               st(r) == (CHOOSE e \in early : e.src = r).states
    <3>1. \A r \in Shard : (\E e \in early : e.src = r) => st(r) \in States
      BY DEF Early, StateTypes, AnyStateMsg
    <3>2. collected' = [collected EXCEPT ![s] =
            [r \in Shard |-> IF \E e \in early : e.src = r THEN {st(r)} ELSE @[r]]]
      BY <1>3, <2>2 DEF HandleRepartitionStart
    <3> DEFINE row == [r \in Shard |->
                 IF \E e \in early : e.src = r THEN {st(r)} ELSE collected[s][r]]
    <3>3. row \in [Shard -> SUBSET States] /\ \A r \in Shard : AtMostOne(row[r])
      <4> HIDE DEF early, st
      <4> QED
        BY <3>1 DEF StateTypes, AtMostOne
    <3>4. collected' = [collected EXCEPT ![s] = row]
      BY <3>2
    <3> HIDE DEF row
    <3> QED
      BY <3>3, <3>4 DEF StateTypes
  <2> QED
    BY <2>1, <2>4, <2>5, <2>6 DEF StateTypes, AtMostOne, BlockOK, TxBlock, MigrationBlock,
       AnyStateMsg, States, Moves, Tx, TxId
<1>4. ASSUME NEW s \in Shard, NEW m \in stateMsgs, HandleAccountMigration(s, m)
      PROVE  StateTypes'
  <2>1. /\ UNCHANGED <<vertexLoc, modified, epoch, loc, balance, ledger, proposal, lost>>
        /\ stateMsgs' \subseteq stateMsgs
    BY <1>4 DEF HandleAccountMigration, supVars, chainVars, histVars
  <2>2. m \in AnyStateMsg /\ m.dest = s
    BY <1>4 DEF HandleAccountMigration, StateTypes
  <2>3. /\ collected' \in [Shard -> [Shard -> SUBSET States]]
        /\ \A q, r \in Shard : AtMostOne(collected'[q][r])
    <3>1. CASE UNCHANGED collected
      BY <3>1 DEF StateTypes
    <3>2. CASE collected' = [collected EXCEPT ![s][m.src] = {m.states}]
      <4> DEFINE row == [collected[s] EXCEPT ![m.src] = {m.states}]
      <4>1. row \in [Shard -> SUBSET States] /\ \A r \in Shard : AtMostOne(row[r])
        BY <2>2 DEF StateTypes, AnyStateMsg, AtMostOne
      <4>2. collected' = [collected EXCEPT ![s] = row]
        BY <3>2
      <4> HIDE DEF row
      <4> QED
        BY <4>1, <4>2 DEF StateTypes
    <3> QED
      BY <1>4, <3>1, <3>2 DEF HandleAccountMigration
  <2>4. /\ unhandled' \in [Shard -> SUBSET AnyStateMsg]
        /\ \A r \in Shard : \A k \in unhandled'[r] : k.dest = r /\ k.epoch > epoch'[r]
    <3>1. CASE UNCHANGED unhandled
      BY <2>1, <3>1 DEF StateTypes
    <3>2. CASE m.epoch > epoch[s] /\ unhandled' = [unhandled EXCEPT ![s] = @ \cup {m}]
      BY <2>1, <2>2, <3>2 DEF StateTypes
    <3> QED
      BY <1>4, <3>1, <3>2 DEF HandleAccountMigration
  <2> QED
    BY <2>1, <2>3, <2>4 DEF StateTypes, AtMostOne, BlockOK, TxBlock, MigrationBlock, AnyStateMsg,
       States, Moves, Tx, TxId
<1>5. ASSUME NEW s \in Shard, MigrateAccounts(s)
      PROVE  StateTypes'
  <2>1. UNCHANGED <<vertexLoc, modified, collected, unhandled, epoch, loc, balance, ledger,
                    proposal, lost>>
    BY <1>5 DEF MigrateAccounts, supVars, metaVars, chainVars, histVars
  <2>2. \A d \in Shard : StateMsg(s, d, epoch[s], MovedStates(s, d)) \in AnyStateMsg
    BY MovedStatesType DEF StateMsg, AnyStateMsg, EpochTypes
  <2>3. stateMsgs' \subseteq AnyStateMsg
    BY <1>5, <2>2 DEF MigrateAccounts, StateTypes
  <2> QED
    BY <2>1, <2>3 DEF StateTypes, AtMostOne, BlockOK, TxBlock, MigrationBlock, AnyStateMsg,
       States, Moves, Tx, TxId
<1>6. ASSUME NEW s \in Shard, NEW b, BlockOK(b), proposal' = [proposal EXCEPT ![s] = {b}],
             UNCHANGED <<vertexLoc, modified, collected, unhandled, epoch, stateMsgs, loc,
                         balance, ledger, lost>>
      PROVE  StateTypes'
  <2>1. DOMAIN proposal' = Shard
        /\ \A r \in Shard : AtMostOne(proposal'[r]) /\ \A c \in proposal'[r] : BlockOK(c)
    BY <1>6 DEF StateTypes, AtMostOne
  <2> QED
    BY <1>6, <2>1 DEF StateTypes, AtMostOne, BlockOK, TxBlock, MigrationBlock, AnyStateMsg,
       States, Moves, Tx, TxId
<1>7. ASSUME NEW s \in Shard, NEW txs, Propose(s, txs)
      PROVE  StateTypes'
  <2>1. BlockOK(TxBlock(txs))
    BY <1>7 DEF Propose, BlockOK, TxBlock
  <2> QED
    BY <1>6, <1>7, <2>1 DEF Propose, metaVars, chainVars
<1>8. ASSUME NEW s \in Shard, BuildMigrationProposal(s)
      PROVE  StateTypes'
  <2>1. PICK st \in [DOMAIN modified[s] -> UNION {MigratedState(s, a) : a \in Account}] :
          proposal' = [proposal EXCEPT ![s] = {MigrationBlock(st)}]
    BY <1>8 DEF BuildMigrationProposal
  <2>2. DOMAIN modified[s] \subseteq Account
    BY DEF StateTypes, Moves
  <2>3. st \in [DOMAIN modified[s] -> Int]
    BY <2>1, MigratedStateType
  <2>4. BlockOK(MigrationBlock(st))
    BY <2>2, <2>3 DEF BlockOK, MigrationBlock, States
  <2> QED
    BY <1>6, <1>8, <2>1, <2>4 DEF BuildMigrationProposal, supVars, metaVars, chainVars, netVars, histVars
<1>9. ASSUME NEW s \in Shard, NEW b \in proposal[s], b.type = "tx", AddTxBlock(s, b.txs)
      PROVE  StateTypes'
  <2>1. UNCHANGED <<vertexLoc, modified, collected, unhandled, epoch, stateMsgs, loc, lost>>
    BY <1>9 DEF AddTxBlock, supVars, metaVars
  <2>2. \A a \in Account : Change(s, a, b.txs) \in Int
    <3>1. b.txs \in SUBSET Tx
      BY <1>9 DEF StateTypes, BlockOK
    <3> QED
      BY <3>1, ChangeFacts
  <2>3. balance' \in [Shard -> [Account -> Int]] /\ ledger' \in [Account -> Int]
    BY <1>9, <2>2 DEF AddTxBlock, StateTypes
  <2>4. DOMAIN proposal' = Shard
        /\ \A r \in Shard : AtMostOne(proposal'[r]) /\ \A c \in proposal'[r] : BlockOK(c)
    BY <1>9 DEF AddTxBlock, StateTypes, AtMostOne
  <2> QED
    BY <2>1, <2>3, <2>4 DEF StateTypes, AtMostOne, BlockOK, TxBlock, MigrationBlock, AnyStateMsg,
       States, Moves, Tx, TxId
<1>10. ASSUME NEW s \in Shard, CommitMigrationBlock(s)
       PROVE  StateTypes'
  <2>1. /\ UNCHANGED <<vertexLoc, epoch, stateMsgs, ledger, lost>>
        /\ unhandled' = [unhandled EXCEPT ![s] = Later(s, epoch[s])]
        /\ collected' = [collected EXCEPT ![s] = [r \in Shard |-> {}]]
        /\ proposal' = [proposal EXCEPT ![s] = {}]
        /\ modified' = [modified EXCEPT ![s] = Nothing]
    BY <1>10 DEF CommitMigrationBlock, supVars, netVars, histVars
  <2>2. PICK b \in proposal[s] :
       /\ b.type = "migration"
       /\ balance' = [balance EXCEPT ![s] = [a \in Account |->
            IF a \in DOMAIN b.states /\ modified[s][a] = s THEN b.states[a] ELSE @[a]]]
       /\ loc' = [loc EXCEPT ![s] = [a \in Account |->
            IF a \in DOMAIN b.states THEN modified[s][a] ELSE @[a]]]
    BY <1>10 DEF CommitMigrationBlock
  <2>3. DOMAIN b.states = DOMAIN modified[s]
        /\ \A a \in DOMAIN b.states : b.states[a] \in Int /\ modified[s][a] \in Shard
    BY <2>2 DEF LocInv, StateTypes, BlockOK, States, Moves
  <2>4. balance' \in [Shard -> [Account -> Int]] /\ loc' \in [Shard -> [Account -> Shard]]
    BY <2>2, <2>3 DEF StateTypes
  <2>5. modified' \in [Shard -> Moves]
    <3>1. Nothing \in Moves
      BY DEF Nothing, Moves
    <3> QED
      BY <2>1, <3>1 DEF StateTypes
  <2>6. /\ collected' \in [Shard -> [Shard -> SUBSET States]]
        /\ \A q, r \in Shard : AtMostOne(collected'[q][r])
        /\ unhandled' \in [Shard -> SUBSET AnyStateMsg]
        /\ \A r \in Shard : \A k \in unhandled'[r] : k.dest = r /\ k.epoch > epoch'[r]
    BY <2>1 DEF StateTypes, AtMostOne, Later
  <2>7. DOMAIN proposal' = Shard
        /\ \A r \in Shard : AtMostOne(proposal'[r]) /\ \A c \in proposal'[r] : BlockOK(c)
    BY <2>1 DEF StateTypes, AtMostOne
  <2> QED
    BY <2>1, <2>4, <2>5, <2>6, <2>7 DEF StateTypes, AtMostOne, BlockOK, TxBlock, MigrationBlock,
       AnyStateMsg, States, Moves, Tx, TxId
<1>11. CASE \E m \in stateMsgs : LoseStates(m)
  <2>1. /\ UNCHANGED <<vertexLoc, modified, collected, unhandled, epoch, loc, balance, ledger,
                       proposal>>
        /\ stateMsgs' \subseteq stateMsgs
        /\ lost' \in 0 .. MaxLost
    BY <1>0, <1>11 DEF LoseStates, supVars, metaVars, chainVars, histVars, StateTypes
  <2> QED
    BY <2>1 DEF StateTypes, AtMostOne, BlockOK, TxBlock, MigrationBlock, AnyStateMsg, States,
       Moves, Tx, TxId
<1> QED
  BY <1>1, <1>2, <1>3, <1>4, <1>5, <1>7, <1>8, <1>9, <1>10, <1>11 DEF MigStep, ShardStep

-----------------------------------------------------------------------------
(* The locations. *)

\* A shard in a migration is in the epoch of the supervisor, and its chain is
\* in the one before.
LEMMA ReadyEpoch ==
  ASSUME EpochTypes, EpochInv, NEW s \in Shard, ready[s]
  PROVE  epoch[s] = supEpoch /\ ~Migrated(s)
BY DEF EpochTypes, EpochInv, EpochsInStep, Migrated

\* The migration block brings the locations of its shard to those of the
\* supervisor.
LEMMA CommitLoc ==
  ASSUME EpochTypes, StateTypes, EpochInv, LocInv, NEW s \in Shard, CommitMigrationBlock(s)
  PROVE  /\ ready[s] /\ epoch[s] = supEpoch /\ ~Migrated(s)
         /\ chainEpoch' = [chainEpoch EXCEPT ![s] = supEpoch]
         /\ loc' = [loc EXCEPT ![s] = vertexLoc]
<1>1. PICK b \in proposal[s] :
       /\ b.type = "migration"
       /\ loc' = [loc EXCEPT ![s] = [a \in Account |->
            IF a \in DOMAIN b.states THEN modified[s][a] ELSE @[a]]]
  BY DEF CommitMigrationBlock
<1>2. ready[s] /\ DOMAIN b.states = DOMAIN modified[s] /\ MovesFor(s, modified[s])
  BY <1>1 DEF LocInv
<1>3. [a \in Account |-> IF a \in DOMAIN b.states THEN modified[s][a] ELSE loc[s][a]] = vertexLoc
  BY <1>2 DEF MovesFor, StateTypes
<1>4. loc' = [loc EXCEPT ![s] = vertexLoc]
  BY <1>1, <1>3 DEF StateTypes
<1>5. epoch[s] = supEpoch /\ ~Migrated(s)
  BY <1>2, ReadyEpoch
<1> QED
  BY <1>2, <1>4, <1>5 DEF CommitMigrationBlock

\* Every step keeps the locations of the shards together.
LEMMA LocStep ==
  ASSUME EpochTypes, StateTypes, EpochInv, LocInv, MigStep
  PROVE  LocInv'
<1>1. ASSUME UNCHANGED <<supEpoch, vertexLoc, modified, ready, chainEpoch, loc, proposal, startMsgs>>
      PROVE  LocInv'
  BY <1>1 DEF LocInv, Migrated, MovesFor, From, To
<1>2. CASE \/ UNCHANGED migVars
           \/ \E m \in infoMsgs : NoteEpoch(m)
           \/ SendTxs
           \/ \E s \in Shard : \E m \in stateMsgs : HandleAccountMigration(s, m)
           \/ \E s \in Shard : MigrateAccounts(s)
           \/ \E m \in stateMsgs : LoseStates(m)
  BY <1>1, <1>2 DEF migVars, NoteEpoch, SendTxs, HandleAccountMigration, MigrateAccounts,
     LoseStates, supVars, metaVars, chainVars
<1>3. CASE SupRepartition
  <2>1. PICK mv \in Moves :
          /\ \A a \in DOMAIN mv : mv[a] # vertexLoc[a]
          /\ vertexLoc' = [a \in Account |-> IF a \in DOMAIN mv THEN mv[a] ELSE vertexLoc[a]]
          /\ startMsgs' = startMsgs \cup
               {[to |-> s, epoch |-> supEpoch + 1, moves |-> mv] : s \in Shard}
    BY <1>3 DEF SupRepartition
  <2>2. UNCHANGED <<modified, ready, chainEpoch, loc, proposal>> /\ supEpoch' = supEpoch + 1
    BY <1>3 DEF SupRepartition, metaVars, chainVars
  <2>3. startMsgs = {} /\ \A s \in Shard : Migrated(s) /\ ~ready[s]
    BY <1>3, SyncMeansMigrated DEF SupRepartition
  <2>4. \A s \in Shard : ~Migrated(s)'
    BY <2>2, <2>3 DEF Migrated, EpochTypes
  <2>5. \A s \in Shard : loc[s] = vertexLoc
    BY <2>3 DEF LocInv
  <2>6. \A m \in startMsgs' : m.to \in Shard /\ m.moves = mv
    BY <2>1, <2>3
  <2>7. \A s \in Shard : MovesFor(s, mv)'
    <3>1. DOMAIN mv \subseteq Account
      BY DEF Moves
    <3>2. \A a \in Account : vertexLoc'[a] = IF a \in DOMAIN mv THEN mv[a] ELSE vertexLoc[a]
      BY <2>1
    <3>3. DOMAIN mv = {a \in Account : vertexLoc'[a] # vertexLoc[a]}
      BY <2>1, <3>1, <3>2
    <3>4. \A s \in Shard : loc'[s] = vertexLoc
      BY <2>2, <2>5
    <3> QED
      BY <3>1, <3>2, <3>3, <3>4 DEF MovesFor
  <2>8. \A m \in startMsgs' : MovesFor(m.to, m.moves)'
    BY <2>6, <2>7
  <2> QED
    BY <2>2, <2>3, <2>4, <2>5, <2>8 DEF LocInv, From, To
<1>4. ASSUME NEW s \in Shard, NEW m \in startMsgs, HandleRepartitionStart(s, m)
      PROVE  LocInv'
  <2>1. m.epoch = epoch[s] + 1 /\ m.to = s
    BY <1>4 DEF HandleRepartitionStart, EpochInv, EpochTypes
  <2>2. /\ UNCHANGED <<supEpoch, vertexLoc, chainEpoch, loc, proposal>>
        /\ startMsgs' \subseteq startMsgs
        /\ modified' = [modified EXCEPT ![s] = m.moves]
        /\ ready' = [ready EXCEPT ![s] = TRUE]
    BY <1>4, <2>1 DEF HandleRepartitionStart, supVars, chainVars
  <2>3. MovesFor(s, m.moves)
    BY <2>1 DEF LocInv
  <2>4. ~ready[s]
    BY <2>1 DEF EpochInv, EpochTypes, EpochsInStep
  <2> QED
    BY <2>2, <2>3, <2>4 DEF LocInv, Migrated, MovesFor, From, To, StateTypes, EpochTypes
<1>5. ASSUME NEW s \in Shard, NEW b, proposal' = [proposal EXCEPT ![s] = {b}],
             b.type = "migration" => ready[s] /\ DOMAIN b.states = DOMAIN modified[s],
             b.type = "tx" => \A t \in b.txs : t.stage = "normal" =>
                                loc[s][From(t)] = s /\ loc[s][To(t)] = s,
             UNCHANGED <<supEpoch, vertexLoc, modified, ready, chainEpoch, loc, startMsgs>>
      PROVE  LocInv'
  <2>1. /\ \A r \in Shard : Migrated(r)' <=> Migrated(r)
        /\ \A r, mv : MovesFor(r, mv)' <=> MovesFor(r, mv)
    BY <1>5 DEF Migrated, MovesFor
  <2>2. \A r \in Shard : \A c \in proposal'[r] : c \in proposal[r] \/ (r = s /\ c = b)
    BY <1>5 DEF StateTypes
  <2>3. \A r \in Shard : \A c \in proposal'[r] :
       /\ c.type = "migration" => ready[r] /\ DOMAIN c.states = DOMAIN modified[r]
       /\ c.type = "tx" => \A t \in c.txs : t.stage = "normal" =>
            loc[r][From(t)] = r /\ loc[r][To(t)] = r
    BY <1>5, <2>2 DEF LocInv
  <2> QED
    BY <1>5, <2>1, <2>3 DEF LocInv, From, To, MovesFor
<1>6. ASSUME NEW s \in Shard, NEW txs, Propose(s, txs)
      PROVE  LocInv'
  <2>1. TxBlock(txs).type = "tx" /\ TxBlock(txs).txs = txs
    BY DEF TxBlock
  <2> QED
    BY <1>5, <1>6, <2>1 DEF Propose, metaVars, chainVars
<1>7. ASSUME NEW s \in Shard, BuildMigrationProposal(s)
      PROVE  LocInv'
  <2>1. PICK st \in [DOMAIN modified[s] -> UNION {MigratedState(s, a) : a \in Account}] :
          proposal' = [proposal EXCEPT ![s] = {MigrationBlock(st)}]
    BY <1>7 DEF BuildMigrationProposal
  <2>2. MigrationBlock(st).type = "migration" /\ MigrationBlock(st).states = st
    BY DEF MigrationBlock
  <2> QED
    BY <1>5, <1>7, <2>1, <2>2 DEF BuildMigrationProposal, supVars, metaVars, chainVars, netVars
<1>8. ASSUME NEW s \in Shard, NEW b \in proposal[s], b.type = "tx", AddTxBlock(s, b.txs)
      PROVE  LocInv'
  <2>1. /\ UNCHANGED <<supEpoch, vertexLoc, modified, ready, chainEpoch, loc, startMsgs>>
        /\ proposal' = [proposal EXCEPT ![s] = {}]
    BY <1>8 DEF AddTxBlock, supVars, metaVars
  <2> QED
    BY <2>1 DEF LocInv, Migrated, MovesFor, From, To, StateTypes
<1>9. ASSUME NEW s \in Shard, CommitMigrationBlock(s)
      PROVE  LocInv'
  <2>1. /\ ready[s] /\ epoch[s] = supEpoch /\ ~Migrated(s)
        /\ chainEpoch' = [chainEpoch EXCEPT ![s] = supEpoch]
        /\ loc' = [loc EXCEPT ![s] = vertexLoc]
    BY <1>9, CommitLoc
  <2>2. /\ UNCHANGED <<supEpoch, vertexLoc, startMsgs>>
        /\ proposal' = [proposal EXCEPT ![s] = {}]
        /\ modified' = [modified EXCEPT ![s] = Nothing]
        /\ ready' = [ready EXCEPT ![s] = FALSE]
    BY <1>9 DEF CommitMigrationBlock, supVars, netVars
  <2>3. \A r \in Shard : Migrated(r)' <=> r = s \/ Migrated(r)
    BY <2>1, <2>2 DEF Migrated, EpochTypes
  <2>4. \A m \in startMsgs : m.to \in Shard /\ m.to # s
    BY <2>1 DEF EpochInv, EpochTypes
  <2>5. ASSUME NEW m \in startMsgs' PROVE MovesFor(m.to, m.moves)'
    <3>1. m \in startMsgs /\ m.to \in Shard /\ loc'[m.to] = loc[m.to]
      BY <2>1, <2>2, <2>4 DEF StateTypes
    <3> QED
      BY <2>2, <3>1 DEF LocInv, MovesFor
  <2>6. \A r \in Shard : ready'[r] => MovesFor(r, modified[r])'
    BY <2>1, <2>2 DEF LocInv, MovesFor, StateTypes, EpochTypes
  <2>7. \A r \in Shard : \A b \in proposal'[r] :
           r # s /\ b \in proposal[r] /\ loc'[r] = loc[r] /\ ready'[r] = ready[r]
           /\ modified'[r] = modified[r]
    BY <2>1, <2>2 DEF StateTypes, EpochTypes
  <2>8. \A r \in Shard : Migrated(r)' => loc'[r] = vertexLoc'
    BY <2>1, <2>2, <2>3 DEF LocInv, StateTypes
  <2>9. \A q, r \in Shard : ~Migrated(q)' /\ ~Migrated(r)' => loc'[q] = loc'[r]
    BY <2>1, <2>2, <2>3 DEF LocInv, StateTypes
  <2>10. \A r \in Shard : \A b \in proposal'[r] :
       /\ b.type = "migration" => ready'[r] /\ DOMAIN b.states = DOMAIN modified'[r]
       /\ b.type = "tx" => \A t \in b.txs : t.stage = "normal" =>
            loc'[r][From(t)] = r /\ loc'[r][To(t)] = r
    BY <2>7 DEF LocInv
  <2> QED
    BY <2>5, <2>6, <2>8, <2>9, <2>10 DEF LocInv, From, To
<1> QED
  BY <1>2, <1>3, <1>4, <1>6, <1>7, <1>8, <1>9 DEF MigStep, ShardStep

-----------------------------------------------------------------------------
(* The exchange of the states. *)

\* Steps that do not concern the exchange.
LEMMA ExchangeUnchanged ==
  ASSUME ExchangeInv,
         UNCHANGED <<supEpoch, vertexLoc, modified, ready, collected, unhandled, chainEpoch,
                     loc, balance, proposal, stateMsgs, ledger>>
  PROVE  ExchangeInv'
<1>1. /\ \A s \in Shard : Migrated(s)' <=> Migrated(s)
      /\ \A s \in Shard : Sent(s)' <=> Sent(s)
      /\ \A s \in Shard : AllCollected(s)' <=> AllCollected(s)
      /\ \A r, s, st : StatesFor(r, s, st)' <=> StatesFor(r, s, st)
      /\ \A m : MsgInv(m)' <=> MsgInv(m)
  BY DEF Migrated, Sent, AllCollected, StatesFor, MsgInv
<1>2. SendOnce'
  BY DEF ExchangeInv, SendOnce
<1>3. Barrier'
  BY <1>1 DEF ExchangeInv, Barrier
<1>4. CollectInv'
  BY <1>1 DEF ExchangeInv, CollectInv
<1>5. OwnerInv'
  BY DEF ExchangeInv, OwnerInv, Migrated
<1>6. MigrationBlockCurrent'
  BY DEF ExchangeInv, MigrationBlockCurrent
<1> QED
  BY <1>2, <1>3, <1>4, <1>5, <1>6 DEF ExchangeInv

\* When the supervisor starts an epoch nothing of the last one is under way.
LEMMA ExchangeRepartition ==
  ASSUME MigInv, ExchangeInv, SupRepartition
  PROVE  ExchangeInv'
<1>1. /\ UNCHANGED <<modified, ready, collected, unhandled, chainEpoch, loc, balance, proposal,
                     stateMsgs, ledger>>
      /\ supEpoch' = supEpoch + 1
  BY DEF SupRepartition, metaVars, chainVars, histVars
<1>2. \A s \in Shard : Migrated(s) /\ ~ready[s]
  BY SyncMeansMigrated DEF MigInv, SupRepartition
<1>3. stateMsgs = {}
  BY <1>2 DEF ExchangeInv, CollectInv, MsgInv, MigInv, StateTypes, AnyStateMsg
<1>4. \A s \in Shard : unhandled[s] = {}
  BY <1>2 DEF ExchangeInv, CollectInv, MsgInv, MigInv, StateTypes, AnyStateMsg
<1>5. \A s, r \in Shard : collected[s][r] = {}
  BY <1>2 DEF ExchangeInv, CollectInv
<1>6. \A s \in Shard : \A b \in proposal[s] : b.type # "migration"
  BY <1>2 DEF MigInv, LocInv
<1>7. \A s \in Shard : ~Migrated(s)'
  BY <1>1, <1>2 DEF MigInv, EpochTypes, Migrated
<1>8. SendOnce'
  BY <1>1, <1>3, <1>4 DEF SendOnce
<1>9. Barrier'
  BY <1>1, <1>2, <1>6, <1>7 DEF Barrier
<1>10. CollectInv'
  BY <1>1, <1>3, <1>4, <1>5 DEF CollectInv
<1>11. OwnerInv'
  BY <1>1, <1>2 DEF OwnerInv, ExchangeInv
<1>12. MigrationBlockCurrent'
  BY <1>1, <1>6 DEF MigrationBlockCurrent
<1> QED
  BY <1>8, <1>9, <1>10, <1>11, <1>12 DEF ExchangeInv

\* A block of transactions is proposed by a shard that does not migrate.
LEMMA ExchangePropose ==
  ASSUME MigInv, ExchangeInv, NEW s \in Shard, NEW txs, Propose(s, txs)
  PROVE  ExchangeInv'
<1>1. /\ UNCHANGED <<supEpoch, vertexLoc, modified, ready, collected, unhandled, chainEpoch,
                     loc, balance, stateMsgs, ledger>>
      /\ ~ready[s]
      /\ proposal' = [proposal EXCEPT ![s] = {TxBlock(txs)}]
  BY DEF Propose, MayBuildTxBlock, metaVars, chainVars
<1>2. \A r \in Shard : \A b \in proposal'[r] :
         (r # s /\ b \in proposal[r]) \/ (r = s /\ b.type = "tx")
  BY <1>1 DEF MigInv, StateTypes, TxBlock
<1>3. /\ \A r \in Shard : Migrated(r)' <=> Migrated(r)
      /\ \A r \in Shard : Sent(r)' <=> Sent(r)
      /\ \A r \in Shard : AllCollected(r)' <=> AllCollected(r)
      /\ \A q, r, st : StatesFor(q, r, st)' <=> StatesFor(q, r, st)
      /\ \A m : MsgInv(m)' <=> MsgInv(m)
  BY <1>1 DEF Migrated, Sent, AllCollected, StatesFor, MsgInv
<1>4. SendOnce'
  BY <1>1 DEF ExchangeInv, SendOnce
<1>5. Barrier'
  BY <1>1, <1>2, <1>3 DEF ExchangeInv, Barrier
<1>6. CollectInv'
  BY <1>1, <1>3 DEF ExchangeInv, CollectInv
<1>7. OwnerInv'
  BY <1>1 DEF ExchangeInv, OwnerInv, Migrated
<1>8. MigrationBlockCurrent'
  BY <1>1, <1>2 DEF ExchangeInv, MigrationBlockCurrent
<1> QED
  BY <1>4, <1>5, <1>6, <1>7, <1>8 DEF ExchangeInv

\* A shard enters the epoch: it has not sent, and takes what came early.
LEMMA ExchangeStart ==
  ASSUME MigInv, ExchangeInv, NEW s \in Shard, NEW m \in startMsgs, HandleRepartitionStart(s, m)
  PROVE  ExchangeInv'
<1> DEFINE early == Early(s, unhandled[s])
           st(r) == (CHOOSE e \in early : e.src = r).states
<1>1. /\ m.epoch = epoch[s] + 1 /\ m.epoch = supEpoch
      /\ ~ready[s] /\ ~Migrated(s)
  BY DEF HandleRepartitionStart, MigInv, EpochInv, EpochTypes, EpochsInStep, Migrated
<1>2. /\ UNCHANGED <<supEpoch, vertexLoc, chainEpoch, loc, balance, proposal, stateMsgs, ledger>>
      /\ modified' = [modified EXCEPT ![s] = m.moves]
      /\ ready' = [ready EXCEPT ![s] = TRUE]
      /\ unhandled' = [unhandled EXCEPT ![s] = Later(s, m.epoch)]
      /\ collected' = [collected EXCEPT ![s] =
            [r \in Shard |-> IF \E e \in early : e.src = r THEN {st(r)} ELSE @[r]]]
  BY <1>1 DEF HandleRepartitionStart, supVars, chainVars, histVars
<1>3. \A k \in unhandled[s] : MsgInv(k) /\ k \in AnyStateMsg /\ k.dest = s
  BY DEF ExchangeInv, CollectInv, MigInv, StateTypes
<1>4. early = unhandled[s] /\ Later(s, m.epoch) = {}
  BY <1>1, <1>3 DEF Early, Later, MsgInv
<1>5. ~Sent(s) /\ \A r \in Shard : collected[s][r] = {}
  BY <1>1 DEF Sent, ExchangeInv, CollectInv
<1>6. /\ \A k \in stateMsgs : k.src # s /\ k \in AnyStateMsg /\ MsgInv(k)
      /\ \A k \in unhandled[s] : k.src # s
  BY <1>3, <1>5 DEF ExchangeInv, CollectInv, MsgInv, MigInv, StateTypes
<1>7. \A q \in Shard \ {s} :
         /\ modified'[q] = modified[q] /\ ready'[q] = ready[q] /\ unhandled'[q] = unhandled[q]
         /\ collected'[q] = collected[q]
  BY <1>2 DEF MigInv, StateTypes, EpochTypes
<1>8. \A r \in Shard : \A x \in collected'[s][r] :
         \E e \in unhandled[s] : e.src = r /\ x = e.states
  <2> HIDE DEF early
  <2>1. \A r \in Shard : collected'[s][r] =
          IF \E e \in early : e.src = r THEN {st(r)} ELSE {}
    BY <1>2, <1>5 DEF MigInv, StateTypes
  <2>2. \A r \in Shard : (\E e \in early : e.src = r) =>
          \E e \in early : e.src = r /\ st(r) = e.states
    OBVIOUS
  <2>3. ASSUME NEW r \in Shard, NEW x \in collected'[s][r]
        PROVE  \E e \in unhandled[s] : e.src = r /\ x = e.states
    <3>1. x = st(r) /\ \E e \in early : e.src = r
      <4> DEFINE found == \E e \in early : e.src = r
                 c == collected'[s][r]
                 v == st(r)
      <4>1. x \in c /\ c = IF found THEN {v} ELSE {}
        BY <2>1, <2>3
      <4> HIDE DEF found, c, v
      <4>2. found /\ x = v
        BY <4>1
      <4> QED
        BY <4>2 DEF found, v
    <3>2. PICK e \in early : e.src = r /\ st(r) = e.states
      BY <2>2, <3>1
    <3> QED
      BY <1>4, <3>1, <3>2
  <2> QED
    BY <2>3
<1>9. /\ \A r \in Shard : Migrated(r)' <=> Migrated(r)
      /\ \A q, r, x : StatesFor(q, r, x)' <=> StatesFor(q, r, x)
  BY <1>2 DEF Migrated, StatesFor
<1>10. \A r \in Shard : Sent(r)' <=> Sent(r)
  <2>1. ~Sent(s)'
    BY <1>1, <1>2, <1>6, <1>8, <1>9 DEF Sent
  <2>2. ASSUME NEW r \in Shard \ {s} PROVE Sent(r)' <=> Sent(r)
    BY <1>2, <1>7, <1>9 DEF Sent
  <2> QED
    BY <1>5, <2>1, <2>2
<1>11. unhandled'[s] = {} /\ \A q \in Shard : unhandled'[q] \subseteq unhandled[q]
  BY <1>2, <1>4 DEF MigInv, StateTypes
<1>12. SendOnce'
  BY <1>2, <1>6, <1>11 DEF ExchangeInv, SendOnce, AnyStateMsg
<1>13. Barrier'
  <2>1. \A b \in proposal[s] : b.type # "migration"
    BY <1>1 DEF MigInv, LocInv
  <2>2. \A r \in Shard : \A b \in proposal[r] : b.type = "migration" => AllCollected(r)'
    BY <1>7, <2>1 DEF ExchangeInv, Barrier, AllCollected
  <2> QED
    BY <1>2, <1>5, <1>7, <1>9, <1>10, <2>2 DEF ExchangeInv, Barrier
<1>14. CollectInv'
  <2>1. ASSUME NEW k \in stateMsgs PROVE MsgInv(k)'
    <3>1. collected'[k.dest][k.src] = {}
      <4>1. CASE k.dest = s
        BY <1>6, <1>8, <4>1 DEF ExchangeInv, SendOnce, AnyStateMsg
      <4>2. CASE k.dest # s
        BY <1>6, <1>7, <4>2 DEF MsgInv, AnyStateMsg
      <4> QED
        BY <4>1, <4>2
    <3> QED
      BY <1>2, <1>6, <1>9, <1>10, <3>1 DEF MsgInv, AnyStateMsg
  <2>2. ASSUME NEW q \in Shard, NEW k \in unhandled'[q] PROVE MsgInv(k)'
    <3>1. q # s /\ k \in unhandled[q]
      BY <1>11
    <3>2. MsgInv(k) /\ k \in AnyStateMsg /\ k.dest = q
      BY <3>1 DEF ExchangeInv, CollectInv, MigInv, StateTypes
    <3> QED
      BY <1>2, <1>7, <1>9, <1>10, <3>1, <3>2 DEF MsgInv, AnyStateMsg
  <2>3. ASSUME NEW q \in Shard, NEW r \in Shard, NEW x \in collected'[q][r]
        PROVE  ready'[q] /\ Sent(r)' /\ StatesFor(r, q, x)'
    <3>1. CASE q = s
      <4>1. PICK e \in unhandled[s] : e.src = r /\ x = e.states
        BY <1>8, <3>1
      <4>2. ready'[s]
        BY <1>2 DEF MigInv, EpochTypes
      <4> QED
        BY <1>3, <1>9, <1>10, <3>1, <4>1, <4>2 DEF MsgInv
    <3>2. CASE q # s
      BY <1>7, <1>9, <1>10, <3>2 DEF ExchangeInv, CollectInv
    <3> QED
      BY <3>1, <3>2
  <2> QED
    BY <1>2, <2>1, <2>2, <2>3 DEF CollectInv
<1>15. OwnerInv'
  BY <1>2 DEF ExchangeInv, OwnerInv, Migrated
<1>16. MigrationBlockCurrent'
  BY <1>1, <1>2, <1>7 DEF ExchangeInv, MigrationBlockCurrent, MigInv, LocInv
<1> QED
  BY <1>12, <1>13, <1>14, <1>15, <1>16 DEF ExchangeInv

\* A shard gets states: it collects them, or keeps them for the epoch it has not
\* entered yet. It never gets an old message.
LEMMA ExchangeCollect ==
  ASSUME MigInv, ExchangeInv, NEW s \in Shard, NEW m \in stateMsgs, HandleAccountMigration(s, m)
  PROVE  ExchangeInv'
<1>1. /\ m \in AnyStateMsg /\ MsgInv(m) /\ m.dest = s /\ ~Migrated(s) /\ m.epoch = supEpoch
      /\ Sent(m.src)
  BY DEF HandleAccountMigration, ExchangeInv, CollectInv, MsgInv, MigInv, StateTypes
<1>2. /\ UNCHANGED <<supEpoch, vertexLoc, modified, ready, chainEpoch, loc, balance, proposal,
                     ledger>>
      /\ stateMsgs' = stateMsgs \ {m}
  BY DEF HandleAccountMigration, supVars, chainVars, histVars
<1>3. /\ \A r \in Shard : Migrated(r)' <=> Migrated(r)
      /\ \A q, r, x : StatesFor(q, r, x)' <=> StatesFor(q, r, x)
  BY <1>2 DEF Migrated, StatesFor
<1>4. /\ \A k \in stateMsgs : k \in AnyStateMsg /\ MsgInv(k)
      /\ \A q \in Shard : \A k \in unhandled[q] : k \in AnyStateMsg /\ MsgInv(k) /\ k.dest = q
  BY DEF ExchangeInv, CollectInv, MigInv, StateTypes
<1>5. OwnerInv' /\ MigrationBlockCurrent'
  BY <1>2 DEF ExchangeInv, OwnerInv, MigrationBlockCurrent, Migrated
<1>6. CASE /\ m.epoch = epoch[s]
           /\ collected' = [collected EXCEPT ![s][m.src] = {m.states}]
           /\ UNCHANGED unhandled
  <2>1. ready[s]
    BY <1>1, <1>6 DEF MigInv, EpochInv, EpochsInStep, EpochTypes, Migrated
  <2>2. \A q, r \in Shard : collected'[q][r] =
          IF q = s /\ r = m.src THEN {m.states} ELSE collected[q][r]
    BY <1>1, <1>6 DEF MigInv, StateTypes
  <2>3. \A r \in Shard : Sent(r)' <=> Sent(r)
    <3>1. ASSUME NEW r \in Shard \ {s} PROVE Sent(r)' <=> Sent(r)
      BY <1>1, <1>2, <1>3, <2>2 DEF Sent
    <3>2. CASE m.src = s
      BY <1>1, <1>2, <1>3, <2>1, <2>2, <3>2 DEF Sent
    <3>3. CASE m.src # s
      BY <1>1, <1>2, <1>3, <2>1, <2>2, <3>3 DEF Sent
    <3> QED
      <4>1. Sent(s)' <=> Sent(s)
        BY <1>1, <3>2, <3>3
      <4> QED
        BY <3>1, <4>1
  <2>4. SendOnce'
    BY <1>2, <1>6 DEF ExchangeInv, SendOnce
  <2>5. Barrier'
    <3>1. \A r \in Shard : AllCollected(r) => AllCollected(r)'
      BY <2>2 DEF AllCollected
    <3> QED
      BY <1>2, <1>3, <2>3, <3>1 DEF ExchangeInv, Barrier
  <2>6. CollectInv'
    <3>1. ASSUME NEW k \in stateMsgs' PROVE MsgInv(k)'
      <4>1. k \in stateMsgs /\ ~(k.src = m.src /\ k.dest = s)
        BY <1>1, <1>2 DEF ExchangeInv, SendOnce
      <4> QED
        BY <1>2, <1>3, <1>4, <2>2, <2>3, <4>1 DEF MsgInv, AnyStateMsg
    <3>2. ASSUME NEW q \in Shard, NEW k \in unhandled'[q] PROVE MsgInv(k)'
      <4>1. k \in unhandled[q] /\ ~(k.src = m.src /\ k.dest = s)
        BY <1>1, <1>4, <1>6 DEF ExchangeInv, SendOnce
      <4> QED
        BY <1>2, <1>3, <1>4, <2>2, <2>3, <4>1 DEF MsgInv, AnyStateMsg
    <3>3. ASSUME NEW q \in Shard, NEW r \in Shard, NEW x \in collected'[q][r]
          PROVE  ready'[q] /\ Sent(r)' /\ StatesFor(r, q, x)'
      BY <1>1, <1>2, <1>3, <2>1, <2>2, <2>3 DEF ExchangeInv, CollectInv, MsgInv
    <3> QED
      BY <3>1, <3>2, <3>3 DEF CollectInv
  <2> QED
    BY <1>5, <2>4, <2>5, <2>6 DEF ExchangeInv
<1>7. CASE /\ m.epoch > epoch[s]
           /\ unhandled' = [unhandled EXCEPT ![s] = @ \cup {m}]
           /\ UNCHANGED collected
  <2>1. ~ready[s]
    <3> SUFFICES ASSUME ready[s] PROVE FALSE
      OBVIOUS
    <3>1. epoch[s] = supEpoch
      BY ReadyEpoch DEF MigInv
    <3> QED
      BY <1>1, <1>7, <3>1 DEF MigInv, EpochTypes
  <2>2. m.src # s
    BY <1>1, <2>1 DEF Sent
  <2>3. \A r \in Shard : Sent(r)' <=> Sent(r)
    BY <1>1, <1>2, <1>3, <1>7, <2>2 DEF Sent
  <2>4. \A q \in Shard : \A k \in unhandled'[q] : k \in unhandled[q] \/ (q = s /\ k = m)
    BY <1>7 DEF MigInv, StateTypes
  <2>5. SendOnce'
    BY <1>1, <1>2, <2>4, <1>4 DEF ExchangeInv, SendOnce, AnyStateMsg
  <2>6. Barrier'
    BY <1>2, <1>3, <1>7, <2>3 DEF ExchangeInv, Barrier, AllCollected
  <2>7. CollectInv'
    <3>1. \A k : k \in AnyStateMsg /\ MsgInv(k) => MsgInv(k)'
      BY <1>2, <1>3, <1>7, <2>3 DEF MsgInv, AnyStateMsg
    <3> QED
      BY <1>1, <1>2, <1>3, <1>4, <1>7, <2>3, <2>4, <3>1 DEF ExchangeInv, CollectInv
  <2> QED
    BY <1>5, <2>5, <2>6, <2>7 DEF ExchangeInv
<1>8. ~(m.epoch < epoch[s])
  BY <1>1 DEF MigInv, EpochInv, EpochTypes
<1> QED
  BY <1>6, <1>7, <1>8 DEF HandleAccountMigration

\* A shard sends its states to all shards. It has not sent before, so that nobody
\* has migrated, and what it sends is current.
LEMMA ExchangeSend ==
  ASSUME MigInv, ExchangeInv, NEW s \in Shard, MigrateAccounts(s)
  PROVE  ExchangeInv'
<1>1. /\ UNCHANGED <<supEpoch, vertexLoc, modified, ready, collected, unhandled, chainEpoch,
                     loc, balance, proposal, ledger>>
      /\ stateMsgs' = stateMsgs \cup
           {StateMsg(s, d, epoch[s], MovedStates(s, d)) : d \in Shard}
      /\ ready[s] /\ proposal[s] = {}
  BY DEF MigrateAccounts, supVars, metaVars, chainVars, histVars
<1>2. epoch[s] = supEpoch /\ ~Migrated(s)
  BY <1>1, ReadyEpoch DEF MigInv
<1>3. ~Sent(s)
  BY <1>2 DEF Sent, MigrateAccounts
<1>4. /\ \A d \in Shard : ~Migrated(d) /\ collected[d][s] = {}
      /\ \A k \in stateMsgs : k.src # s /\ k \in AnyStateMsg /\ MsgInv(k)
      /\ \A d \in Shard : \A k \in unhandled[d] : k.src # s /\ k \in AnyStateMsg /\ MsgInv(k)
  <2>1. \A k \in stateMsgs : k \in AnyStateMsg /\ MsgInv(k)
    BY DEF ExchangeInv, CollectInv, MigInv, StateTypes
  <2>2. \A d \in Shard : \A k \in unhandled[d] : k \in AnyStateMsg /\ MsgInv(k)
    BY DEF ExchangeInv, CollectInv, MigInv, StateTypes
  <2>3. \A k : MsgInv(k) => k.src # s
    BY <1>3 DEF MsgInv
  <2>4. \A d \in Shard : ~Migrated(d) /\ collected[d][s] = {}
    BY <1>3 DEF ExchangeInv, Barrier, CollectInv
  <2> QED
    BY <2>1, <2>2, <2>3, <2>4
<1>5. /\ \A r \in Shard : Migrated(r)' <=> Migrated(r)
      /\ \A q, r, x : StatesFor(q, r, x)' <=> StatesFor(q, r, x)
      /\ \A r \in Shard : Sent(r) => Sent(r)'
  BY <1>1 DEF Migrated, StatesFor, Sent
<1>6. ASSUME NEW k \in stateMsgs', k \notin stateMsgs
      PROVE  /\ k.src = s /\ k.dest \in Shard /\ k.epoch = supEpoch
             /\ k.states = MovedStates(s, k.dest)
             /\ k = StateMsg(s, k.dest, epoch[s], MovedStates(s, k.dest))
  BY <1>1, <1>2, <1>6 DEF StateMsg
<1>7. Sent(s)'
  <2> DEFINE own == StateMsg(s, s, epoch[s], MovedStates(s, s))
  <2>1. own \in stateMsgs' /\ own.src = s /\ own.dest = s
    BY <1>1 DEF StateMsg
  <2> QED
    BY <1>1, <2>1 DEF Sent
<1>8. ASSUME NEW d \in Shard PROVE StatesFor(s, d, MovedStates(s, d))
  <2>1. loc[d] = loc[s] /\ MovesFor(s, modified[s])
    BY <1>1, <1>4 DEF MigInv, LocInv
  <2>2. DOMAIN MovedStates(s, d) = {x \in DOMAIN modified[s] : loc[s][x] = s /\ modified[s][x] = d}
    BY DEF MovedStates
  <2>3. DOMAIN MovedStates(s, d) = {a \in Account : loc[d][a] = s /\ vertexLoc[a] = d /\ s # d}
    BY <2>1, <2>2 DEF MovesFor
  <2>4. \A a \in DOMAIN MovedStates(s, d) : MovedStates(s, d)[a] = balance[s][a]
    BY DEF MovedStates
  <2>5. \A a \in DOMAIN MovedStates(s, d) : balance[s][a] = ledger[a]
    BY <1>4, <2>1, <2>3 DEF ExchangeInv, OwnerInv
  <2> QED
    BY <2>3, <2>4, <2>5 DEF StatesFor
<1>9. SendOnce'
  <2>1. ASSUME NEW k \in stateMsgs', NEW l \in stateMsgs', k.src = l.src, k.dest = l.dest
        PROVE  k = l
    BY <1>4, <1>6, <2>1 DEF ExchangeInv, SendOnce
  <2>2. ASSUME NEW k \in stateMsgs', NEW l \in unhandled'[k.dest]
        PROVE  k.src # l.src
    BY <1>1, <1>4, <1>6 DEF ExchangeInv, SendOnce, AnyStateMsg
  <2> QED
    BY <1>1, <2>1, <2>2 DEF ExchangeInv, SendOnce
<1>10. Barrier'
  <2>1. \A r \in Shard \ {s} : Sent(r)' => Sent(r)
    BY <1>1, <1>5, <1>6 DEF Sent
  <2>2. \A r \in Shard : AllCollected(r)' <=> AllCollected(r)
    BY <1>1 DEF AllCollected
  <2> QED
    BY <1>1, <1>4, <1>5, <2>1, <2>2 DEF ExchangeInv, Barrier
<1>11. CollectInv'
  <2>1. \A k : k \in AnyStateMsg /\ MsgInv(k) => MsgInv(k)'
    BY <1>1, <1>5 DEF MsgInv, AnyStateMsg
  <2>2. ASSUME NEW k \in stateMsgs', k \notin stateMsgs PROVE MsgInv(k)'
    BY <1>1, <1>4, <1>5, <1>6, <1>7, <1>8, <2>2 DEF MsgInv
  <2> QED
    BY <1>1, <1>4, <1>5, <2>1, <2>2 DEF ExchangeInv, CollectInv
<1>12. OwnerInv' /\ MigrationBlockCurrent'
  BY <1>1 DEF ExchangeInv, OwnerInv, MigrationBlockCurrent, Migrated
<1> QED
  BY <1>9, <1>10, <1>11, <1>12 DEF ExchangeInv

\* A migration block is built from the states of all the shards: every account
\* it brings was sent by the shard that had it.
LEMMA ExchangeBuild ==
  ASSUME MigInv, ExchangeInv, NEW s \in Shard, BuildMigrationProposal(s)
  PROVE  ExchangeInv'
<1>1. /\ UNCHANGED <<supEpoch, vertexLoc, modified, ready, collected, unhandled, chainEpoch,
                     loc, balance, stateMsgs, ledger>>
      /\ ready[s] /\ AllCollected(s)
  BY DEF BuildMigrationProposal, supVars, metaVars, chainVars, netVars, histVars
<1>2. PICK st \in [DOMAIN modified[s] -> UNION {MigratedState(s, a) : a \in Account}] :
        /\ \A a \in DOMAIN st : st[a] \in MigratedState(s, a)
        /\ proposal' = [proposal EXCEPT ![s] = {MigrationBlock(st)}]
  BY DEF BuildMigrationProposal
<1>3. \A r \in Shard : \A b \in proposal'[r] :
         (r # s /\ b \in proposal[r]) \/ (r = s /\ b.type = "migration" /\ b.states = st)
  BY <1>2 DEF MigInv, StateTypes, MigrationBlock
<1>4. /\ \A r \in Shard : Migrated(r)' <=> Migrated(r)
      /\ \A r \in Shard : Sent(r)' <=> Sent(r)
      /\ \A r \in Shard : AllCollected(r)' <=> AllCollected(r)
      /\ \A q, r, x : StatesFor(q, r, x)' <=> StatesFor(q, r, x)
      /\ \A m : MsgInv(m)' <=> MsgInv(m)
  BY <1>1 DEF Migrated, Sent, AllCollected, StatesFor, MsgInv
<1>5. ASSUME NEW a \in DOMAIN st, modified[s][a] = s
      PROVE  st[a] = ledger[a]
  <2>1. MovesFor(s, modified[s])
    BY <1>1 DEF MigInv, LocInv
  <2>2. a \in Account /\ vertexLoc[a] = s /\ loc[s][a] \in Shard /\ loc[s][a] # s
    <3>1. a \in DOMAIN modified[s]
      BY <1>2, <1>5
    <3>2. a \in Account /\ vertexLoc[a] = s /\ loc[s][a] # s
      BY <1>5, <2>1, <3>1 DEF MovesFor
    <3> QED
      BY <3>2 DEF MigInv, StateTypes
  <2>3. PICK x \in collected[s][loc[s][a]] : TRUE
    BY <1>1, <2>2 DEF AllCollected
  <2>4. a \in DOMAIN x
    <3>1. StatesFor(loc[s][a], s, x)
      BY <2>2, <2>3 DEF ExchangeInv, CollectInv
    <3> QED
      BY <2>2, <3>1 DEF StatesFor
  <2> DEFINE found == {y \in UNION {collected[s][r] : r \in Shard} : a \in DOMAIN y}
  <2>5. x \in found /\ \A y \in found : y[a] = ledger[a]
    <3>1. \A r \in Shard : \A y \in collected[s][r] : StatesFor(r, s, y)
      BY DEF ExchangeInv, CollectInv
    <3>2. \A r \in Shard : \A y \in collected[s][r] : a \in DOMAIN y => y[a] = ledger[a]
      BY <3>1 DEF StatesFor
    <3> QED
      BY <2>2, <2>3, <2>4, <3>2
  <2>6. MigratedState(s, a) = {y[a] : y \in found}
    BY <2>5 DEF MigratedState
  <2> QED
    BY <1>2, <2>5, <2>6
<1>6. SendOnce'
  BY <1>1 DEF ExchangeInv, SendOnce
<1>7. Barrier'
  BY <1>1, <1>3, <1>4 DEF ExchangeInv, Barrier
<1>8. CollectInv'
  BY <1>1, <1>4 DEF ExchangeInv, CollectInv
<1>9. OwnerInv'
  BY <1>1 DEF ExchangeInv, OwnerInv, Migrated
<1>10. MigrationBlockCurrent'
  BY <1>1, <1>3, <1>5 DEF ExchangeInv, MigrationBlockCurrent
<1> QED
  BY <1>6, <1>7, <1>8, <1>9, <1>10 DEF ExchangeInv

\* A block of transactions changes accounts its shard has, and it is the only
\* one that may: states under way, collected and proposed stay current.
LEMMA ExchangeExecute ==
  ASSUME MigInv, ExchangeInv, NEW s \in Shard, NEW b \in proposal[s], b.type = "tx",
         AddTxBlock(s, b.txs)
  PROVE  ExchangeInv'
<1>1. /\ UNCHANGED <<supEpoch, vertexLoc, modified, ready, collected, unhandled, chainEpoch,
                     loc, stateMsgs>>
      /\ proposal' = [proposal EXCEPT ![s] = {}]
      /\ balance' = [balance EXCEPT ![s] = [a \in Account |-> @[a] + Change(s, a, b.txs)]]
      /\ ledger' = [a \in Account |-> ledger[a] + Change(s, a, b.txs)]
  BY DEF AddTxBlock, supVars, metaVars
<1>2. ASSUME NEW a \in Account, loc[s][a] # s PROVE ledger'[a] = ledger[a]
  <2>1. b.txs \in SUBSET Tx
    BY DEF MigInv, StateTypes, BlockOK
  <2>2. \A t \in b.txs : t.stage = "normal" => loc[s][From(t)] = s /\ loc[s][To(t)] = s
    BY DEF MigInv, LocInv
  <2>3. Change(s, a, b.txs) = 0
    BY <1>2, <2>1, <2>2, ChangeFacts
  <2> QED
    BY <1>1, <2>3 DEF MigInv, StateTypes
<1>3. Migrated(s) \/ ~Sent(s)
  BY DEF ExchangeInv, Barrier, Sent
<1>4. ASSUME NEW d \in Shard, NEW a \in Account, ~Migrated(d), vertexLoc[a] = d, loc[s][a] = s
      PROVE  ~Sent(s) /\ loc[d][a] = s /\ \A r \in Shard : ~Migrated(r)
  BY <1>3, <1>4 DEF MigInv, LocInv, ExchangeInv, Barrier
<1>5. /\ \A r \in Shard : Migrated(r)' <=> Migrated(r)
      /\ \A r \in Shard : Sent(r)' <=> Sent(r)
      /\ \A r \in Shard : AllCollected(r)' <=> AllCollected(r)
  BY <1>1 DEF Migrated, Sent, AllCollected
<1>6. ASSUME NEW r \in Shard, NEW d \in Shard, NEW st, StatesFor(r, d, st), Sent(r), ~Migrated(d)
      PROVE  StatesFor(r, d, st)'
  <2>1. \A a \in DOMAIN st : ledger'[a] = ledger[a]
    BY <1>2, <1>4, <1>6 DEF StatesFor
  <2> QED
    BY <1>1, <1>6, <2>1 DEF StatesFor
<1>7. \A r \in Shard : \A c \in proposal'[r] : r # s /\ c \in proposal[r]
  BY <1>1 DEF MigInv, StateTypes
<1>8. SendOnce'
  BY <1>1 DEF ExchangeInv, SendOnce
<1>9. Barrier'
  BY <1>1, <1>5, <1>7 DEF ExchangeInv, Barrier
<1>10. CollectInv'
  <2>1. ASSUME NEW m \in AnyStateMsg, MsgInv(m) PROVE MsgInv(m)'
    BY <1>1, <1>5, <1>6, <2>1 DEF MsgInv, AnyStateMsg
  <2>2. ASSUME NEW d \in Shard, NEW r \in Shard, NEW st \in collected'[d][r]
        PROVE  ready'[d] /\ Sent(r)' /\ StatesFor(r, d, st)'
    <3>1. ready[d] /\ Sent(r) /\ StatesFor(r, d, st)
      BY <1>1, <2>2 DEF ExchangeInv, CollectInv
    <3>2. ~Migrated(d)
      BY <3>1, ReadyEpoch DEF MigInv
    <3> QED
      BY <1>1, <1>5, <1>6, <3>1, <3>2
  <2>3. /\ \A m \in stateMsgs : m \in AnyStateMsg /\ MsgInv(m)
        /\ \A d \in Shard : \A m \in unhandled[d] : m \in AnyStateMsg /\ MsgInv(m)
    BY DEF ExchangeInv, CollectInv, MigInv, StateTypes
  <2> QED
    BY <1>1, <2>1, <2>2, <2>3 DEF CollectInv
<1>11. OwnerInv'
  <2> SUFFICES ASSUME NEW r \in Shard, NEW a \in Account, loc[r][a] = r,
                      Migrated(r) \/ ~Migrated(vertexLoc[a])
               PROVE  balance'[r][a] = ledger'[a]
    BY <1>1, <1>5 DEF OwnerInv, MigInv, StateTypes
  <2>1. balance[r][a] = ledger[a]
    BY DEF ExchangeInv, OwnerInv
  <2>2. CASE r = s
    BY <1>1, <2>1, <2>2 DEF MigInv, StateTypes
  <2>3. CASE r # s
    <3>1. loc[s][a] # s
      <4> SUFFICES ASSUME loc[s][a] = s PROVE FALSE
        OBVIOUS
      <4>1. CASE Migrated(s)
        BY <2>3, <4>1 DEF MigInv, LocInv
      <4>2. CASE ~Migrated(s)
        BY <1>3, <2>3, <4>2 DEF MigInv, LocInv, ExchangeInv, Barrier
      <4> QED
        BY <4>1, <4>2
    <3>2. balance'[r][a] = balance[r][a]
      BY <1>1, <2>3 DEF MigInv, StateTypes
    <3> QED
      BY <1>2, <2>1, <3>1, <3>2
  <2> QED
    BY <2>2, <2>3
<1>12. MigrationBlockCurrent'
  <2> SUFFICES ASSUME NEW r \in Shard, NEW c \in proposal[r], c.type = "migration",
                      NEW a \in DOMAIN c.states, modified[r][a] = r
               PROVE  c.states[a] = ledger'[a]
    BY <1>1, <1>7 DEF MigrationBlockCurrent
  <2>1. ready[r] /\ DOMAIN c.states = DOMAIN modified[r] /\ MovesFor(r, modified[r])
    BY DEF MigInv, LocInv
  <2>2. a \in Account /\ vertexLoc[a] = r /\ ~Migrated(r)
    BY <2>1, ReadyEpoch DEF MovesFor, MigInv
  <2>3. Sent(s)
    BY DEF ExchangeInv, Barrier, AllCollected, CollectInv
  <2>4. loc[s][a] # s
    BY <1>4, <2>2, <2>3
  <2> QED
    BY <1>2, <2>2, <2>4 DEF ExchangeInv, MigrationBlockCurrent
<1> QED
  BY <1>8, <1>9, <1>10, <1>11, <1>12 DEF ExchangeInv

\* A shard migrates: all shards have sent, nothing is under way to it any more,
\* and it takes over the accounts that move to it with their current states.
LEMMA ExchangeCommit ==
  ASSUME MigInv, ExchangeInv, NEW s \in Shard, CommitMigrationBlock(s)
  PROVE  ExchangeInv'
<1>1. /\ ready[s] /\ epoch[s] = supEpoch /\ ~Migrated(s)
      /\ chainEpoch' = [chainEpoch EXCEPT ![s] = supEpoch]
      /\ loc' = [loc EXCEPT ![s] = vertexLoc]
  BY CommitLoc DEF MigInv
<1>2. /\ UNCHANGED <<supEpoch, vertexLoc, stateMsgs, ledger>>
      /\ modified' = [modified EXCEPT ![s] = Nothing]
      /\ ready' = [ready EXCEPT ![s] = FALSE]
      /\ collected' = [collected EXCEPT ![s] = [r \in Shard |-> {}]]
      /\ unhandled' = [unhandled EXCEPT ![s] = Later(s, epoch[s])]
      /\ proposal' = [proposal EXCEPT ![s] = {}]
  BY DEF CommitMigrationBlock, supVars, netVars, histVars
<1>3. PICK b \in proposal[s] :
       /\ b.type = "migration"
       /\ balance' = [balance EXCEPT ![s] = [a \in Account |->
            IF a \in DOMAIN b.states /\ modified[s][a] = s THEN b.states[a] ELSE @[a]]]
  BY DEF CommitMigrationBlock
<1>4. AllCollected(s) /\ \A r \in Shard : Sent(r)
  BY <1>3 DEF ExchangeInv, Barrier, CollectInv, AllCollected
<1>5. /\ \A m \in stateMsgs : m \in AnyStateMsg /\ MsgInv(m) /\ m.dest # s
      /\ \A d \in Shard : \A m \in unhandled[d] :
           m \in AnyStateMsg /\ MsgInv(m) /\ m.dest = d /\ m.dest # s
  <2>1. /\ \A m \in stateMsgs : m \in AnyStateMsg /\ MsgInv(m)
        /\ \A d \in Shard : \A m \in unhandled[d] : m \in AnyStateMsg /\ MsgInv(m) /\ m.dest = d
    BY DEF ExchangeInv, CollectInv, MigInv, StateTypes
  <2>2. \A m \in AnyStateMsg : MsgInv(m) => m.dest # s
    BY <1>4 DEF MsgInv, AllCollected, AnyStateMsg
  <2> QED
    BY <2>1, <2>2
<1>6. \A q \in Shard \ {s} :
         /\ modified'[q] = modified[q] /\ ready'[q] = ready[q] /\ unhandled'[q] = unhandled[q]
         /\ collected'[q] = collected[q] /\ proposal'[q] = proposal[q] /\ loc'[q] = loc[q]
         /\ balance'[q] = balance[q]
  BY <1>1, <1>2, <1>3 DEF MigInv, StateTypes, EpochTypes
<1>7. /\ ~ready'[s] /\ proposal'[s] = {} /\ unhandled'[s] = {}
      /\ \A r \in Shard : collected'[s][r] = {}
  <2>1. unhandled[s] = {}
    BY <1>5
  <2> QED
    BY <1>2, <2>1 DEF MigInv, StateTypes, EpochTypes, Later
<1>8. \A r \in Shard : Migrated(r)' <=> r = s \/ Migrated(r)
  BY <1>1, <1>2 DEF MigInv, EpochTypes, Migrated
<1>9. \A r \in Shard : Sent(r)'
  <2>1. Sent(s)'
    BY <1>8 DEF Sent
  <2>2. ASSUME NEW r \in Shard \ {s} PROVE Sent(r)'
    BY <1>2, <1>4, <1>6, <1>8 DEF Sent
  <2> QED
    BY <2>1, <2>2
<1>10. \A d \in Shard \ {s} : \A r, x : StatesFor(r, d, x) => StatesFor(r, d, x)'
  BY <1>2, <1>6 DEF StatesFor
<1>11. SendOnce'
  BY <1>2, <1>5, <1>6, <1>7 DEF ExchangeInv, SendOnce, AnyStateMsg
<1>12. Barrier'
  <2>1. \A r \in Shard \ {s} : AllCollected(r) => AllCollected(r)'
    BY <1>6 DEF AllCollected
  <2>2. \A r \in Shard \ {s} : ready[r] /\ Sent(r) => \A c \in proposal[r] : c.type # "tx"
    BY DEF ExchangeInv, Barrier
  <2>3. \A r \in Shard \ {s} : \A c \in proposal[r] : c.type = "migration" => AllCollected(r)
    BY DEF ExchangeInv, Barrier
  <2> QED
    BY <1>4, <1>6, <1>7, <1>9, <2>1, <2>2, <2>3 DEF Barrier
<1>13. CollectInv'
  <2>1. ASSUME NEW m \in AnyStateMsg, MsgInv(m), m.dest # s PROVE MsgInv(m)'
    BY <1>2, <1>6, <1>8, <1>9, <1>10, <2>1 DEF MsgInv, AnyStateMsg
  <2>2. ASSUME NEW d \in Shard, NEW r \in Shard, NEW x \in collected'[d][r]
        PROVE  ready'[d] /\ Sent(r)' /\ StatesFor(r, d, x)'
    BY <1>6, <1>7, <1>9, <1>10 DEF ExchangeInv, CollectInv
  <2> QED
    BY <1>2, <1>5, <1>6, <1>7, <2>1, <2>2 DEF CollectInv
<1>14. OwnerInv'
  <2>1. ASSUME NEW r \in Shard \ {s}, NEW a \in Account, loc[r][a] = r,
               Migrated(r)' \/ ~Migrated(vertexLoc[a])'
        PROVE  balance[r][a] = ledger[a]
    <3>1. Migrated(r) \/ ~Migrated(vertexLoc[a])
      BY <1>2, <1>8, <2>1 DEF MigInv, StateTypes
    <3> QED
      BY <2>1, <3>1 DEF ExchangeInv, OwnerInv
  <2>2. ASSUME NEW a \in Account, vertexLoc[a] = s
        PROVE  balance'[s][a] = ledger[a]
    <3>1. DOMAIN b.states = DOMAIN modified[s] /\ MovesFor(s, modified[s])
      BY <1>1, <1>3 DEF MigInv, LocInv
    <3>2. balance'[s][a] =
            IF a \in DOMAIN b.states /\ modified[s][a] = s THEN b.states[a] ELSE balance[s][a]
      BY <1>3 DEF MigInv, StateTypes
    <3>3. CASE a \in DOMAIN b.states
      BY <1>3, <2>2, <3>1, <3>2, <3>3 DEF MovesFor, ExchangeInv, MigrationBlockCurrent
    <3>4. CASE a \notin DOMAIN b.states
      <4>1. loc[s][a] = s
        BY <2>2, <3>1, <3>4 DEF MovesFor
      <4> QED
        BY <1>1, <2>2, <3>2, <3>4, <4>1 DEF ExchangeInv, OwnerInv
    <3> QED
      BY <3>3, <3>4
  <2>3. loc'[s] = vertexLoc
    BY <1>1 DEF MigInv, StateTypes
  <2> QED
    BY <1>2, <1>6, <2>1, <2>2, <2>3 DEF OwnerInv
<1>15. MigrationBlockCurrent'
  BY <1>2, <1>6, <1>7 DEF ExchangeInv, MigrationBlockCurrent
<1> QED
  BY <1>11, <1>12, <1>13, <1>14, <1>15 DEF ExchangeInv

-----------------------------------------------------------------------------
(* Together. *)

\* The initial state of both modes has the invariant.
LEMMA MigInit == SharedInit => MigInv
<1> SUFFICES ASSUME SharedInit PROVE MigInv
  OBVIOUS
<1>1. EpochTypes /\ EpochInv
  <2>1. 0 \in 0 .. MaxEpoch
    BY RepartitionAssumption
  <2>2. epochSynced \in BOOLEAN /\ ready \in [Shard -> BOOLEAN]
    BY Zenon DEF SharedInit
  <2>3. EpochTypes
    BY <2>1, <2>2 DEF SharedInit, EpochTypes
  <2> QED
    BY <2>3 DEF SharedInit, EpochInv, EpochsInStep, Migrated
<1>2. StateTypes
  <2>1. Nothing \in Moves
    BY DEF Nothing, Moves
  <2> QED
    BY <2>1, RepartitionAssumption DEF SharedInit, StateTypes, AtMostOne
<1>3. LocInv
  BY DEF SharedInit, LocInv, Migrated
<1>4. ExchangeInv
  BY DEF SharedInit, ExchangeInv, SendOnce, Barrier, CollectInv, OwnerInv,
     MigrationBlockCurrent, Sent, Migrated
<1> QED
  BY <1>1, <1>2, <1>3, <1>4 DEF MigInv

\* Every step of both modes keeps the invariant.
LEMMA MigPreserved ==
  ASSUME MigInv, MigStep
  PROVE  MigInv'
<1>1. EpochTypes' /\ EpochInv' /\ StateTypes' /\ LocInv'
  BY EpochStep, StateStep, LocStep DEF MigInv
<1>2. ASSUME lost' = 0 PROVE ExchangeInv'
  <2>1. CASE \E m \in stateMsgs : LoseStates(m)
    BY <1>2, <2>1 DEF LoseStates, MigInv, StateTypes
  <2>2. CASE ~\E m \in stateMsgs : LoseStates(m)
    <3>1. lost' = lost
      BY <2>2 DEF MigStep, ShardStep, migVars, NoteEpoch, SupRepartition, SendTxs,
         HandleRepartitionStart, HandleAccountMigration, MigrateAccounts, Propose,
         BuildMigrationProposal, AddTxBlock, CommitMigrationBlock, netVars
    <3>2. ExchangeInv
      BY <1>2, <3>1 DEF MigInv
    <3>3. CASE UNCHANGED migVars \/ (\E m \in infoMsgs : NoteEpoch(m)) \/ SendTxs
      BY <3>2, <3>3, ExchangeUnchanged DEF migVars, NoteEpoch, SendTxs, metaVars, chainVars, histVars
    <3>4. ASSUME NEW s \in Shard, ShardStep(s) PROVE ExchangeInv'
      BY <3>2, <3>4, ExchangeStart, ExchangeCollect, ExchangeSend, ExchangePropose, ExchangeBuild,
         ExchangeExecute, ExchangeCommit DEF ShardStep
    <3> QED
      BY <2>2, <3>2, <3>3, <3>4, ExchangeRepartition DEF MigStep
  <2> QED
    BY <2>1, <2>2
<1> QED
  BY <1>1, <1>2 DEF MigInv

-----------------------------------------------------------------------------
(* What the invariant says. *)

\* Two shards that serve one account are one shard: both have migrated, or
\* neither has, or the one that has not sent keeps the other from migrating.
LEMMA OneOwner == MigInv /\ lost = 0 => SingleOwner
<1> SUFFICES ASSUME MigInv, lost = 0, NEW a \in Account, NEW s \in Shard, NEW r \in Shard,
                    Serves(s, a), Serves(r, a)
             PROVE  s = r
  BY DEF SingleOwner
<1>1. ASSUME NEW q \in Shard, Serves(q, a) PROVE Migrated(q) \/ ~Sent(q)
  BY <1>1 DEF Serves, Sent, MigInv, ExchangeInv, Barrier
<1>2. Migrated(s) <=> Migrated(r)
  BY <1>1 DEF MigInv, ExchangeInv, Barrier
<1>3. loc[s] = loc[r]
  BY <1>2 DEF MigInv, LocInv
<1> QED
  BY <1>3 DEF Serves

\* A shard that serves an account has not given it away: its balance is current.
LEMMA OwnerIsCurrent == MigInv /\ lost = 0 => OwnerHasLedger
<1> SUFFICES ASSUME MigInv, lost = 0, NEW s \in Shard, NEW a \in Account, Serves(s, a)
             PROVE  balance[s][a] = ledger[a]
  BY DEF OwnerHasLedger
<1>1. Migrated(s) \/ ~Sent(s)
  BY DEF Serves, Sent, MigInv, ExchangeInv, Barrier
<1>2. Migrated(s) \/ ~Migrated(vertexLoc[a])
  BY <1>1 DEF MigInv, ExchangeInv, Barrier, StateTypes
<1> QED
  BY <1>2 DEF Serves, MigInv, ExchangeInv, OwnerInv

\* The types of the runs follow from those of the invariant.
LEMMA TypesHold == MigInv /\ TxTypes => TypeOK
<1> SUFFICES ASSUME MigInv, TxTypes PROVE TypeOK
  OBVIOUS
<1>1. ASSUME NEW S, AtMostOne(S) PROVE Cardinality(S) <= 1
  <2>1. CASE S = {}
    BY <2>1, FS_EmptySet
  <2>2. ASSUME NEW x \in S PROVE Cardinality(S) <= 1
    <3>1. S = {x}
      BY <1>1, <2>2 DEF AtMostOne
    <3> QED
      BY <3>1, FS_Singleton
  <2> QED
    BY <2>1, <2>2
<1>2. \A s, r \in Shard : Cardinality(collected[s][r]) <= 1
  BY <1>1 DEF MigInv, StateTypes
<1>3. \A s \in Shard : Cardinality(proposal[s]) <= 1
  BY <1>1 DEF MigInv, StateTypes
<1>4. DOMAIN balance = Shard /\ \A s \in Shard : DOMAIN balance[s] = Account
  BY DEF MigInv, StateTypes
<1> QED
  BY <1>2, <1>3, <1>4 DEF MigInv, EpochTypes, StateTypes, TxTypes, TypeOK

-----------------------------------------------------------------------------
(* The transactions: every one is in one place, and its stage says what it   *)
(* has done.                                                                 *)

\* Whether transaction i is among these, in any stage.
Has(S, i) == \E t \in S : t.id = i

\* Every transaction is among these in one stage at most.
Unique(S) == \A t, u \in S : t.id = u.id => t = u

\* The transactions of the open round of a shard.
BlockTxs(s) == {t \in Tx : \E b \in proposal[s] : b.type = "tx" /\ t \in b.txs}

InMsgs(i)  == \E m \in txMsgs : Has(m.txs, i)
InPool(i)  == \E s \in Shard : Has(pool[s], i)
InBlock(i) == \E s \in Shard : Has(BlockTxs(s), i)

MsgsInv ==
  /\ \A m \in txMsgs : Unique(m.txs)
  /\ \A m, k \in txMsgs : \A i \in TxId : Has(m.txs, i) /\ Has(k.txs, i) => m = k

PoolsInv ==
  /\ \A s \in Shard : Unique(pool[s])
  /\ \A s, r \in Shard : \A i \in TxId : Has(pool[s], i) /\ Has(pool[r], i) => s = r

\* The blocks also fit the locations of their shard.
BlocksInv ==
  /\ \A s \in Shard : Unique(BlockTxs(s))
  /\ \A s, r \in Shard : \A i \in TxId : Has(BlockTxs(s), i) /\ Has(BlockTxs(r), i) => s = r
  /\ \A s \in Shard : \A t \in BlockTxs(s) :
       loc[s][KeyAcc(t)] = s /\ (t.stage = "normal" => loc[s][To(t)] = s)

Apart ==
  \A i \in TxId :
    /\ i \in unsent => ~InMsgs(i) /\ ~InPool(i) /\ ~InBlock(i)
    /\ InMsgs(i) => ~InPool(i) /\ ~InBlock(i)
    /\ InPool(i) => ~InBlock(i)

\* What a transaction that is under way in this stage has done.
TokenOK(t) ==
  /\ done[t.id].debit = IF t.stage \in SecondHalf THEN 1 ELSE 0
  /\ done[t.id].credit = 0

DoneInv ==
  /\ done \in [TxId -> [debit : {0, 1}, credit : {0, 1}]]
  /\ \A i \in TxId : done[i].credit <= done[i].debit
  /\ \A i \in unsent : done[i].debit = 0 /\ done[i].credit = 0
  /\ \A m \in txMsgs : \A t \in m.txs : TokenOK(t)
  /\ \A s \in Shard : \A t \in pool[s] : TokenOK(t)
  /\ \A s \in Shard : \A t \in BlockTxs(s) : TokenOK(t)

OnceInv == TxTypes /\ MsgsInv /\ PoolsInv /\ BlocksInv /\ Apart /\ DoneInv

\* The source and the network before anything is sent.
LEMMA OnceInit == SharedInit => OnceInv
<1> SUFFICES ASSUME SharedInit PROVE OnceInv
  OBVIOUS
<1>1. \A s \in Shard : BlockTxs(s) = {}
  BY DEF SharedInit, BlockTxs
<1>2. TxTypes /\ MsgsInv /\ PoolsInv /\ BlocksInv
  BY <1>1 DEF SharedInit, TxTypes, MsgsInv, PoolsInv, BlocksInv, Unique, Has
<1>3. Apart
  BY <1>1 DEF SharedInit, Apart, InMsgs, InPool, InBlock, Has
<1>4. DoneInv
  BY <1>1 DEF SharedInit, DoneInv
<1> QED
  BY <1>2, <1>3, <1>4 DEF OnceInv

\* SendWrappedTxs2Shards puts a transaction into one message at most.
LEMMA MsgsFor ==
  ASSUME NEW F, NEW at
  PROVE  /\ \A m \in TxMsgsFor(F, at) : m.to \in Shard /\ m.txs \subseteq F
         /\ \A m, k \in TxMsgsFor(F, at) : \A t : t \in m.txs /\ t \in k.txs => m = k
         /\ \A t \in F : at[KeyAcc(t)] \in Shard => \E m \in TxMsgsFor(F, at) : t \in m.txs
<1>1. ASSUME NEW m \in TxMsgsFor(F, at)
      PROVE  /\ m.to \in Shard /\ m.txs = {t \in F : at[KeyAcc(t)] = m.to}
             /\ m = [to |-> m.to, txs |-> m.txs]
  BY DEF TxMsgsFor
<1>2. ASSUME NEW t \in F, at[KeyAcc(t)] \in Shard
      PROVE  \E m \in TxMsgsFor(F, at) : t \in m.txs
  <2> DEFINE m == [to |-> at[KeyAcc(t)], txs |-> {u \in F : at[KeyAcc(u)] = at[KeyAcc(t)]}]
  <2>1. t \in m.txs
    OBVIOUS
  <2>2. m \in TxMsgsFor(F, at)
    BY <1>2, <2>1 DEF TxMsgsFor
  <2> QED
    BY <2>1, <2>2
<1>3. ASSUME NEW m \in TxMsgsFor(F, at), NEW k \in TxMsgsFor(F, at), NEW t,
             t \in m.txs, t \in k.txs
      PROVE  m = k
  <2>1. m.to = at[KeyAcc(t)] /\ k.to = at[KeyAcc(t)]
    BY <1>1, <1>3
  <2>2. m.txs = k.txs
    BY <1>1, <2>1
  <2> QED
    BY <1>1, <2>1, <2>2
<1> QED
  BY <1>1, <1>2, <1>3

\* Transactions that are not under way are sent.
LEMMA MsgsAdded ==
  ASSUME OnceInv, NEW F \in SUBSET Tx, NEW at, Unique(F),
         \A t \in F : ~InMsgs(t.id),
         txMsgs' = txMsgs \cup TxMsgsFor(F, at)
  PROVE  /\ \A m \in txMsgs' : m.to \in Shard /\ m.txs \subseteq Tx
         /\ MsgsInv'
         /\ \A m \in txMsgs' : \A t \in m.txs : t \in F \/ \E k \in txMsgs : t \in k.txs
         /\ \A i \in TxId : InMsgs(i)' => InMsgs(i) \/ Has(F, i)
<1>1. \A m \in txMsgs' : m \in txMsgs \/ (m \in TxMsgsFor(F, at) /\ m.to \in Shard /\ m.txs \subseteq F)
  BY MsgsFor
<1>2. \A m \in txMsgs' : m.to \in Shard /\ m.txs \subseteq Tx
  BY <1>1 DEF OnceInv, TxTypes
<1>3. \A m \in txMsgs' : Unique(m.txs)
  BY <1>1 DEF OnceInv, MsgsInv, Unique
<1>4. ASSUME NEW m \in txMsgs', NEW k \in txMsgs', NEW i \in TxId, Has(m.txs, i), Has(k.txs, i)
      PROVE  m = k
  <2>1. CASE m \in txMsgs /\ k \in txMsgs
    BY <1>4, <2>1 DEF OnceInv, MsgsInv
  <2>2. CASE m \in txMsgs /\ k \notin txMsgs
    BY <1>1, <1>4, <2>2 DEF Has, InMsgs
  <2>3. CASE m \notin txMsgs /\ k \in txMsgs
    BY <1>1, <1>4, <2>3 DEF Has, InMsgs
  <2>4. CASE m \notin txMsgs /\ k \notin txMsgs
    <3>1. PICK t \in m.txs : t.id = i
      BY <1>4 DEF Has
    <3>2. PICK u \in k.txs : u.id = i
      BY <1>4 DEF Has
    <3>3. t = u
      BY <1>1, <2>4, <3>1, <3>2 DEF Unique
    <3> QED
      BY <1>1, <2>4, <3>3, MsgsFor
  <2> QED
    BY <2>1, <2>2, <2>3, <2>4
<1>5. \A m \in txMsgs' : \A t \in m.txs : t \in F \/ \E k \in txMsgs : t \in k.txs
  BY <1>1
<1>6. \A i \in TxId : InMsgs(i)' => InMsgs(i) \/ Has(F, i)
  BY <1>1 DEF InMsgs, Has
<1>7. MsgsInv'
  BY <1>3, <1>4 DEF MsgsInv, TxId, Unique, Has
<1> QED
  BY <1>2, <1>5, <1>6, <1>7

\* What is sent to a shard is under way.
LEMMA MsgsArrive ==
  ASSUME NEW F, NEW at, \A t \in F : at[KeyAcc(t)] \in Shard,
         txMsgs' = txMsgs \cup TxMsgsFor(F, at)
  PROVE  \A i \in TxId : InMsgs(i) \/ Has(F, i) => InMsgs(i)'
<1>1. \A t \in F : \E m \in txMsgs' : t \in m.txs
  BY MsgsFor
<1>2. txMsgs \subseteq txMsgs'
  OBVIOUS
<1> QED
  BY <1>1, <1>2 DEF InMsgs, Has

\* The transactions of the rounds after a block of them is proposed.
LEMMA ProposedTxs ==
  ASSUME StateTypes, NEW s \in Shard, NEW txs \in SUBSET Tx,
         proposal' = [proposal EXCEPT ![s] = {TxBlock(txs)}]
  PROVE  BlockTxs(s)' = txs /\ \A r \in Shard \ {s} : BlockTxs(r)' = BlockTxs(r)
<1>1. \A r \in Shard : proposal'[r] = IF r = s THEN {TxBlock(txs)} ELSE proposal[r]
  BY DEF StateTypes
<1>2. TxBlock(txs).type = "tx" /\ TxBlock(txs).txs = txs
  BY DEF TxBlock
<1>3. \A t : (\E c \in proposal'[s] : c.type = "tx" /\ t \in c.txs) <=> t \in txs
  BY <1>1, <1>2
<1>4. BlockTxs(s)' = txs
  BY <1>3 DEF BlockTxs, Tx, TxId
<1> QED
  BY <1>1, <1>4 DEF BlockTxs, Tx, TxId

\* Steps that leave the transactions where they are.
LEMMA OnceUnchanged ==
  ASSUME OnceInv, UNCHANGED <<unsent, pool, txMsgs, done>>,
         \A s \in Shard : BlockTxs(s)' \subseteq BlockTxs(s)
                          /\ (BlockTxs(s)' # {} => loc'[s] = loc[s])
  PROVE  OnceInv'
<1>1. TxTypes' /\ MsgsInv' /\ PoolsInv'
  BY DEF OnceInv, TxTypes, MsgsInv, PoolsInv, Unique, Has, Tx, TxId
<1>2. BlocksInv'
  BY DEF OnceInv, BlocksInv, Unique, Has, TxId, KeyAcc, From, To
<1>3. \A i \in TxId : /\ InMsgs(i)' <=> InMsgs(i)
                      /\ InPool(i)' <=> InPool(i)
                      /\ InBlock(i)' => InBlock(i)
  BY DEF InMsgs, InPool, InBlock, Has
<1>4. Apart'
  BY <1>3 DEF OnceInv, Apart, TxId
<1>5. DoneInv'
  BY DEF OnceInv, DoneInv, TokenOK, TxId
<1> QED
  BY <1>1, <1>2, <1>4, <1>5 DEF OnceInv

\* A message goes into the pool of its shard.
LEMMA OnceReceive ==
  ASSUME OnceInv, NEW s \in Shard, NEW m \in txMsgs, HandleReceiveTxs(s, m)
  PROVE  OnceInv'
<1>1. /\ UNCHANGED <<unsent, done, loc, proposal>>
      /\ txMsgs' = txMsgs \ {m}
      /\ pool' = [pool EXCEPT ![s] = @ \cup m.txs]
  BY DEF HandleReceiveTxs, supVars, chainVars, histVars
<1>2. m.txs \subseteq Tx /\ \A t \in m.txs : t.id \in TxId /\ InMsgs(t.id)
  BY DEF OnceInv, TxTypes, InMsgs, Has, Tx
<1>3. \A r \in Shard : pool'[r] = IF r = s THEN pool[r] \cup m.txs ELSE pool[r]
  BY <1>1 DEF OnceInv, TxTypes
<1>4. TxTypes'
  BY <1>1, <1>2 DEF OnceInv, TxTypes, Tx, TxId
<1>5. MsgsInv'
  BY <1>1 DEF OnceInv, MsgsInv, Unique, Has, TxId
<1>6. \A i \in TxId : /\ InMsgs(i)' => InMsgs(i) /\ ~Has(m.txs, i)
                      /\ InPool(i)' => InPool(i) \/ Has(m.txs, i)
                      /\ InBlock(i)' <=> InBlock(i)
                      /\ Has(m.txs, i) => InMsgs(i)
  <2>1. ASSUME NEW i \in TxId, InMsgs(i)' PROVE InMsgs(i) /\ ~Has(m.txs, i)
    BY <1>1, <2>1 DEF InMsgs, OnceInv, MsgsInv, Has
  <2>2. \A i \in TxId : InPool(i)' => InPool(i) \/ Has(m.txs, i)
    BY <1>3 DEF InPool, Has
  <2>3. \A i \in TxId : InBlock(i)' <=> InBlock(i)
    BY <1>1 DEF InBlock, BlockTxs, Has
  <2> QED
    BY <2>1, <2>2, <2>3 DEF InMsgs
<1>7. Apart'
  BY <1>1, <1>6 DEF OnceInv, Apart, TxId
<1>8. PoolsInv'
  <2>1. \A r \in Shard : \A t \in pool[r] : t.id \in TxId /\ InPool(t.id)
    BY DEF OnceInv, TxTypes, InPool, Has, Tx
  <2>2. \A i \in TxId : ~(InMsgs(i) /\ InPool(i))
    BY DEF OnceInv, Apart
  <2>3. \A r \in Shard : \A t \in pool[r], u \in m.txs : t.id # u.id
    BY <1>2, <2>1, <2>2
  <2>4. Unique(m.txs) /\ \A r \in Shard : Unique(pool[r])
    BY DEF OnceInv, MsgsInv, PoolsInv
  <2>5. ASSUME NEW r \in Shard PROVE Unique(pool'[r])
    BY <1>3, <2>3, <2>4 DEF Unique
  <2>6. \A q, r \in Shard : \A i \in TxId : Has(pool'[q], i) /\ Has(pool'[r], i) => q = r
    <3>1. ASSUME NEW q \in Shard, NEW r \in Shard, NEW t \in pool'[q], NEW u \in pool'[r],
                 t.id = u.id, q # r
          PROVE  FALSE
      <4>1. t \in pool[q] /\ u \in pool[r]
        BY <1>3, <2>3, <3>1
      <4>2. t.id \in TxId
        BY <2>1, <4>1
      <4> QED
        BY <3>1, <4>1, <4>2 DEF OnceInv, PoolsInv, Has
    <3> QED
      BY <3>1 DEF Has
  <2> QED
    BY <2>5, <2>6 DEF PoolsInv, Unique, Has, TxId
<1>9. BlocksInv'
  BY <1>1 DEF OnceInv, BlocksInv, BlockTxs, Unique, Has, TxId, Tx, KeyAcc, From, To
<1>10. DoneInv'
  <2>1. \A t \in m.txs : TokenOK(t)
    BY DEF OnceInv, DoneInv
  <2>2. \A r \in Shard : \A t \in pool'[r] : TokenOK(t)
    BY <1>3, <2>1 DEF OnceInv, DoneInv
  <2> QED
    BY <1>1, <2>2 DEF OnceInv, DoneInv, TokenOK, BlockTxs, TxId, Tx
<1> QED
  BY <1>4, <1>5, <1>7, <1>8, <1>9, <1>10 DEF OnceInv

\* A leader takes transactions T out of its pool, sends F of them on and packs
\* others: they may change their stage, but not what they have done.
LEMMA OnceRepack ==
  ASSUME OnceInv, NEW s \in Shard, NEW T \in SUBSET pool[s], NEW F \in SUBSET T, NEW at,
         UNCHANGED <<unsent, done, loc>>,
         pool' = [pool EXCEPT ![s] = @ \ T],
         txMsgs' = txMsgs \cup TxMsgsFor(F, at),
         \A r \in Shard \ {s} : BlockTxs(r)' = BlockTxs(r),
         Unique(BlockTxs(s)'),
         \A t \in BlockTxs(s)' :
           \/ t \in BlockTxs(s)
           \/ /\ \E u \in T \ F : u.id = t.id /\ (u.stage \in SecondHalf <=> t.stage \in SecondHalf)
              /\ loc[s][KeyAcc(t)] = s /\ (t.stage = "normal" => loc[s][To(t)] = s)
  PROVE  OnceInv'
<1>1. \A r \in Shard : pool'[r] = IF r = s THEN pool[r] \ T ELSE pool[r]
  BY DEF OnceInv, TxTypes
<1>2. /\ T \subseteq Tx /\ F \in SUBSET Tx
      /\ \A t \in T : t.id \in TxId /\ InPool(t.id) /\ ~InMsgs(t.id) /\ ~InBlock(t.id) /\ t.id \notin unsent
  <2>1. T \subseteq Tx
    BY DEF OnceInv, TxTypes
  <2>2. \A t \in T : t.id \in TxId /\ InPool(t.id)
    BY <2>1 DEF Tx, InPool, Has
  <2> QED
    BY <2>1, <2>2 DEF OnceInv, Apart
<1>3. Unique(T) /\ Unique(F)
  BY DEF OnceInv, PoolsInv, Unique
<1>4. /\ \A m \in txMsgs' : m.to \in Shard /\ m.txs \subseteq Tx
      /\ MsgsInv'
      /\ \A m \in txMsgs' : \A t \in m.txs : t \in F \/ \E k \in txMsgs : t \in k.txs
      /\ \A i \in TxId : InMsgs(i)' => InMsgs(i) \/ Has(F, i)
  BY <1>2, <1>3, MsgsAdded
<1>5. TxTypes'
  BY <1>4 DEF OnceInv, TxTypes, Tx, TxId
<1>6. PoolsInv'
  BY <1>1 DEF OnceInv, PoolsInv, Unique, Has, TxId
<1>7. \A t \in BlockTxs(s)' : t \in BlockTxs(s) \/ \E u \in T \ F : u.id = t.id
  OBVIOUS
<1>8. BlocksInv'
  <2>1. \A r \in Shard : Unique(BlockTxs(r)')
    BY DEF OnceInv, BlocksInv
  <2>2. ASSUME NEW q \in Shard, NEW r \in Shard, NEW i \in TxId,
               Has(BlockTxs(q)', i), Has(BlockTxs(r)', i)
        PROVE  q = r
    <3>1. ASSUME NEW p \in Shard, Has(BlockTxs(p)', i)
          PROVE  Has(BlockTxs(p), i) \/ (p = s /\ ~InBlock(i))
      BY <1>2, <1>7, <3>1 DEF Has
    <3> QED
      BY <2>2, <3>1 DEF OnceInv, BlocksInv, InBlock
  <2>3. ASSUME NEW r \in Shard, NEW t \in BlockTxs(r)'
        PROVE  loc[r][KeyAcc(t)] = r /\ (t.stage = "normal" => loc[r][To(t)] = r)
    BY DEF OnceInv, BlocksInv
  <2> QED
    BY <2>1, <2>2, <2>3 DEF BlocksInv, Unique, Has, TxId, KeyAcc, From, To
<1>9. Apart'
  <2>1. ASSUME NEW i \in TxId, InPool(i)' PROVE InPool(i) /\ ~Has(T, i)
    <3>1. PICK r \in Shard : Has(pool'[r], i)
      BY <2>1 DEF InPool, Has
    <3>2. PICK t \in pool'[r] : t.id = i
      BY <3>1 DEF Has
    <3>3. Has(pool[r], i) /\ t \in pool[r] /\ (r = s => t \notin T)
      BY <1>1, <3>2 DEF Has
    <3>4. ASSUME NEW u \in T, u.id = i PROVE FALSE
      BY <3>2, <3>3, <3>4 DEF OnceInv, PoolsInv, Unique, Has
    <3> QED
      BY <3>3, <3>4 DEF InPool, Has
  <2>2. \A i \in TxId : InBlock(i)' => InBlock(i) \/ (Has(T, i) /\ ~Has(F, i))
    <3>1. ASSUME NEW i \in TxId, InBlock(i)', ~InBlock(i) PROVE Has(T, i) /\ ~Has(F, i)
      <4>1. PICK t \in BlockTxs(s)' : t.id = i /\ t \notin BlockTxs(s)
        BY <3>1 DEF InBlock, Has
      <4>2. PICK u \in T \ F : u.id = i
        BY <1>7, <4>1
      <4> QED
        BY <1>3, <4>2 DEF Has, Unique
    <3> QED
      BY <3>1
  <2>3. \A i \in TxId : /\ Has(F, i) => Has(T, i)
                        /\ Has(T, i) => InPool(i) /\ ~InMsgs(i) /\ ~InBlock(i) /\ i \notin unsent
    BY <1>2 DEF Has
  <2> QED
    BY <1>4, <2>1, <2>2, <2>3 DEF OnceInv, Apart, TxId
<1>10. DoneInv'
  <2>1. \A t \in T : TokenOK(t)
    BY DEF OnceInv, DoneInv
  <2>2. \A m \in txMsgs' : \A t \in m.txs : TokenOK(t)
    BY <1>4, <2>1 DEF OnceInv, DoneInv
  <2>3. \A r \in Shard : \A t \in pool'[r] : TokenOK(t)
    BY <1>1 DEF OnceInv, DoneInv
  <2>4. \A r \in Shard : \A t \in BlockTxs(r)' : TokenOK(t)
    <3>1. ASSUME NEW t \in BlockTxs(s)' PROVE TokenOK(t)
      <4>1. CASE t \in BlockTxs(s)
        BY <4>1 DEF OnceInv, DoneInv
      <4>2. CASE \E u \in T \ F : u.id = t.id /\ (u.stage \in SecondHalf <=> t.stage \in SecondHalf)
        BY <2>1, <4>2 DEF TokenOK
      <4> QED
        BY <4>1, <4>2
    <3> QED
      BY <3>1 DEF OnceInv, DoneInv
  <2> QED
    BY <2>2, <2>3, <2>4 DEF OnceInv, DoneInv, TokenOK, TxId
<1> QED
  BY <1>4, <1>5, <1>6, <1>8, <1>9, <1>10 DEF OnceInv

\* What a block of transactions has done: a transaction of it that is whole or
\* the second half is complete, a first half has debited.
LEMMA DoneFacts ==
  ASSUME MigInv, OnceInv, NEW s \in Shard, NEW b \in proposal[s], b.type = "tx",
         AddTxBlock(s, b.txs)
  PROVE  /\ BlockTxs(s) = b.txs
         /\ done' \in [TxId -> [debit : {0, 1}, credit : {0, 1}]]
         /\ \A i \in TxId : ~Has(b.txs, i) => done'[i] = done[i]
         /\ \A t \in b.txs : /\ t.id \in TxId
                             /\ done'[t.id].debit = 1
                             /\ done'[t.id].credit = IF t.stage \in FirstHalf THEN 0 ELSE 1
<1> DEFINE txs == b.txs
           D(i) == {t \in Debited(s, Pay[i].from, txs) : t.id = i}
           C(i) == {t \in Credited(s, Pay[i].to, txs) : t.id = i}
<1>1. txs \subseteq Tx
  BY DEF MigInv, StateTypes, BlockOK
<1>2. BlockTxs(s) = txs
  BY <1>1 DEF MigInv, StateTypes, AtMostOne, BlockTxs
<1>3. done' = [i \in TxId |-> [debit  |-> done[i].debit + Cardinality(D(i)),
                               credit |-> done[i].credit + Cardinality(C(i))]]
  BY DEF AddTxBlock
<1>4. ASSUME NEW i \in TxId
      PROVE  done[i].debit \in {0, 1} /\ done[i].credit \in {0, 1}
             /\ done[i] = [debit |-> done[i].debit, credit |-> done[i].credit]
  BY DEF OnceInv, DoneInv
<1>5. ASSUME NEW i \in TxId, ~Has(txs, i)
      PROVE  done'[i] = done[i]
  <2>1. D(i) = {} /\ C(i) = {}
    BY <1>5 DEF Has, Debited, Credited
  <2>2. Cardinality(D(i)) = 0 /\ Cardinality(C(i)) = 0
    BY <2>1, FS_EmptySet
  <2> HIDE DEF D, C
  <2>3. done'[i] = [debit |-> done[i].debit + 0, credit |-> done[i].credit + 0]
    BY <1>3, <2>2
  <2>4. done[i].debit + 0 = done[i].debit /\ done[i].credit + 0 = done[i].credit
    <3> DEFINE d == done[i].debit
               c == done[i].credit
    <3>1. d \in {0, 1} /\ c \in {0, 1}
      BY <1>4
    <3> HIDE DEF d, c
    <3>2. d + 0 = d /\ c + 0 = c
      BY <3>1
    <3> QED
      BY <3>2 DEF d, c
  <2> QED
    BY <1>4, <2>3, <2>4
<1>6. ASSUME NEW t \in txs
      PROVE  /\ t.id \in TxId
             /\ done'[t.id].debit = 1
             /\ done'[t.id].credit = IF t.stage \in FirstHalf THEN 0 ELSE 1
             /\ done'[t.id] \in [debit : {0, 1}, credit : {0, 1}]
  <2>1. t.id \in TxId /\ t.stage \in {"normal"} \cup FirstHalf \cup SecondHalf
    BY <1>1 DEF Tx
  <2>2. \A u \in txs : u.id = t.id => u = t
    BY <1>2 DEF OnceInv, BlocksInv, Unique
  <2>3. loc[s][KeyAcc(t)] = s /\ TokenOK(t)
    BY <1>2 DEF OnceInv, BlocksInv, DoneInv
  <2>4. D(t.id) = IF t.stage \in SecondHalf THEN {} ELSE {t}
    BY <2>1, <2>2, <2>3 DEF Debited, From, KeyAcc, FirstHalf, SecondHalf
  <2>5. C(t.id) = IF t.stage \in FirstHalf THEN {} ELSE {t}
    BY <2>1, <2>2, <2>3 DEF Credited, To, KeyAcc, FirstHalf, SecondHalf
  <2>6. Cardinality(D(t.id)) = IF t.stage \in SecondHalf THEN 0 ELSE 1
    BY <2>4, FS_EmptySet, FS_Singleton
  <2>7. Cardinality(C(t.id)) = IF t.stage \in FirstHalf THEN 0 ELSE 1
    BY <2>5, FS_EmptySet, FS_Singleton
  <2> HIDE DEF D, C
  <2> QED
    BY <1>3, <2>1, <2>3, <2>6, <2>7 DEF TokenOK
<1>7. \A i \in TxId : done'[i] \in [debit : {0, 1}, credit : {0, 1}]
  <2>1. ASSUME NEW i \in TxId, Has(txs, i) PROVE done'[i] \in [debit : {0, 1}, credit : {0, 1}]
    BY <1>6, <2>1 DEF Has
  <2>2. ASSUME NEW i \in TxId, ~Has(txs, i) PROVE done'[i] \in [debit : {0, 1}, credit : {0, 1}]
    BY <1>5, <2>2 DEF OnceInv, DoneInv
  <2> QED
    BY <2>1, <2>2
<1>8. done' \in [TxId -> [debit : {0, 1}, credit : {0, 1}]]
  BY <1>3, <1>7
<1> QED
  BY <1>2, <1>5, <1>6, <1>8

\* A block of transactions is executed; some of its first halves, or none, go on
\* as second halves F.
LEMMA OnceExecute ==
  ASSUME MigInv, OnceInv, NEW s \in Shard, NEW b \in proposal[s], b.type = "tx",
         AddTxBlock(s, b.txs),
         NEW F \in SUBSET Tx, NEW at, Unique(F),
         \A f \in F : f.stage \in SecondHalf
                      /\ \E t \in b.txs : t.id = f.id /\ t.stage \in FirstHalf,
         txMsgs' = txMsgs \cup TxMsgsFor(F, at)
  PROVE  OnceInv'
<1>1. /\ UNCHANGED <<unsent, pool, loc>>
      /\ proposal' = [proposal EXCEPT ![s] = {}]
  BY DEF AddTxBlock, supVars
<1>2. /\ BlockTxs(s) = b.txs
      /\ done' \in [TxId -> [debit : {0, 1}, credit : {0, 1}]]
      /\ \A i \in TxId : ~Has(b.txs, i) => done'[i] = done[i]
      /\ \A t \in b.txs : /\ t.id \in TxId
                          /\ done'[t.id].debit = 1
                          /\ done'[t.id].credit = IF t.stage \in FirstHalf THEN 0 ELSE 1
  BY DoneFacts
<1>3. \A r \in Shard : BlockTxs(r)' = IF r = s THEN {} ELSE BlockTxs(r)
  BY <1>1 DEF BlockTxs, MigInv, StateTypes, Tx, TxId
<1>4. \A i \in TxId : Has(b.txs, i) => InBlock(i) /\ ~InMsgs(i) /\ ~InPool(i) /\ i \notin unsent
  BY <1>2 DEF OnceInv, Apart, InBlock
<1>5. \A f \in F : f.id \in TxId /\ Has(b.txs, f.id) /\ ~InMsgs(f.id)
  BY <1>4 DEF Tx, Has
<1>6. /\ \A m \in txMsgs' : m.to \in Shard /\ m.txs \subseteq Tx
      /\ MsgsInv'
      /\ \A m \in txMsgs' : \A t \in m.txs : t \in F \/ \E k \in txMsgs : t \in k.txs
      /\ \A i \in TxId : InMsgs(i)' => InMsgs(i) \/ Has(F, i)
  BY <1>5, MsgsAdded
<1>7. TxTypes' /\ PoolsInv'
  BY <1>1, <1>6 DEF OnceInv, TxTypes, PoolsInv, Unique, Has, Tx, TxId
<1>8. BlocksInv'
  BY <1>1, <1>3 DEF OnceInv, BlocksInv, Unique, Has, TxId, KeyAcc, From, To
<1>9. \A i \in TxId : InBlock(i)' => InBlock(i) /\ ~Has(b.txs, i)
  <2>1. ASSUME NEW i \in TxId, InBlock(i)' PROVE InBlock(i) /\ ~Has(b.txs, i)
    <3>1. PICK r \in Shard : Has(BlockTxs(r)', i)
      BY <2>1 DEF InBlock, Has
    <3>2. r # s /\ Has(BlockTxs(r), i)
      BY <1>3, <3>1 DEF Has
    <3> QED
      BY <1>2, <3>2 DEF InBlock, OnceInv, BlocksInv
  <2> QED
    BY <2>1
<1>10. Apart'
  <2>1. \A i \in TxId : Has(F, i) => Has(b.txs, i)
    BY <1>5 DEF Has
  <2>2. \A i \in TxId : InPool(i)' <=> InPool(i)
    BY <1>1 DEF InPool
  <2> QED
    BY <1>1, <1>4, <1>6, <1>9, <2>1, <2>2 DEF OnceInv, Apart, TxId
<1>11. DoneInv'
  <2>1. ASSUME NEW i \in TxId PROVE done'[i].credit <= done'[i].debit
    <3>1. CASE Has(b.txs, i)
      BY <1>2, <3>1 DEF Has
    <3>2. CASE ~Has(b.txs, i)
      BY <1>2, <3>2 DEF OnceInv, DoneInv
    <3> QED
      BY <3>1, <3>2
  <2>2. \A i \in unsent : done'[i].debit = 0 /\ done'[i].credit = 0
    BY <1>2, <1>4 DEF OnceInv, TxTypes, DoneInv
  <2>3. ASSUME NEW t \in Tx, TokenOK(t), ~Has(b.txs, t.id) PROVE TokenOK(t)'
    BY <1>2, <2>3 DEF TokenOK, Tx
  <2>4. \A m \in txMsgs' : \A t \in m.txs : TokenOK(t)'
    <3>1. ASSUME NEW f \in F PROVE TokenOK(f)'
      BY <1>2 DEF TokenOK
    <3>2. ASSUME NEW k \in txMsgs, NEW t \in k.txs PROVE TokenOK(t)'
      <4>1. t \in Tx /\ InMsgs(t.id) /\ TokenOK(t)
        BY DEF OnceInv, TxTypes, InMsgs, Has, DoneInv
      <4> QED
        BY <1>4, <2>3, <4>1 DEF Tx
    <3> QED
      BY <1>6, <3>1, <3>2
  <2>5. \A r \in Shard : \A t \in pool[r] : TokenOK(t)'
    <3>1. ASSUME NEW r \in Shard, NEW t \in pool[r] PROVE TokenOK(t)'
      <4>1. t \in Tx /\ InPool(t.id) /\ TokenOK(t)
        BY DEF OnceInv, TxTypes, InPool, Has, DoneInv
      <4> QED
        BY <1>4, <2>3, <4>1 DEF Tx
    <3> QED
      BY <3>1
  <2>6. \A r \in Shard : \A t \in BlockTxs(r)' : TokenOK(t)'
    <3>1. ASSUME NEW r \in Shard, NEW t \in BlockTxs(r)' PROVE TokenOK(t)'
      <4>1. t \in Tx /\ r # s /\ t \in BlockTxs(r) /\ TokenOK(t)
        BY <1>3 DEF BlockTxs, OnceInv, DoneInv
      <4>2. ~Has(b.txs, t.id)
        BY <1>2, <4>1 DEF OnceInv, BlocksInv, Has, Tx
      <4> QED
        BY <2>3, <4>1, <4>2
    <3> QED
      BY <3>1
  <2> QED
    BY <1>1, <1>2, <2>1, <2>2, <2>4, <2>5, <2>6 DEF DoneInv, TxId
<1> QED
  BY <1>6, <1>7, <1>8, <1>10, <1>11 DEF OnceInv

\* The supervisor sends transactions F that are in no other place from now on.
LEMMA OnceSend ==
  ASSUME OnceInv, NEW F \in SUBSET Tx, NEW at, Unique(F),
         UNCHANGED <<pool, done, loc, proposal>>,
         unsent' \subseteq unsent,
         \A f \in F : /\ TokenOK(f) /\ f.id \notin unsent'
                      /\ ~InMsgs(f.id) /\ ~InPool(f.id) /\ ~InBlock(f.id),
         txMsgs' = txMsgs \cup TxMsgsFor(F, at)
  PROVE  OnceInv'
<1>1. /\ \A m \in txMsgs' : m.to \in Shard /\ m.txs \subseteq Tx
      /\ MsgsInv'
      /\ \A m \in txMsgs' : \A t \in m.txs : t \in F \/ \E k \in txMsgs : t \in k.txs
      /\ \A i \in TxId : InMsgs(i)' => InMsgs(i) \/ Has(F, i)
  BY MsgsAdded
<1>2. \A s \in Shard : BlockTxs(s)' = BlockTxs(s)
  BY DEF BlockTxs, Tx, TxId
<1>3. TxTypes' /\ PoolsInv' /\ BlocksInv'
  BY <1>1, <1>2 DEF OnceInv, TxTypes, PoolsInv, BlocksInv, Unique, Has, Tx, TxId, KeyAcc, From, To
<1>4. \A i \in TxId : /\ InPool(i)' <=> InPool(i)
                      /\ InBlock(i)' <=> InBlock(i)
                      /\ Has(F, i) => i \notin unsent' /\ ~InPool(i) /\ ~InBlock(i)
  BY <1>2 DEF InPool, InBlock, Has
<1>5. Apart'
  BY <1>1, <1>4 DEF OnceInv, Apart, TxId
<1>6. DoneInv'
  BY <1>1, <1>2 DEF OnceInv, DoneInv, TokenOK, TxId
<1> QED
  BY <1>1, <1>3, <1>5, <1>6 DEF OnceInv

\* The steps of the migration and of the supervisor leave the transactions where
\* they are.
LEMMA OnceMigration ==
  ASSUME MigInv, OnceInv,
         \/ \E m \in infoMsgs : NoteEpoch(m)
         \/ SupRepartition
         \/ \E m \in stateMsgs : LoseStates(m)
         \/ \E s \in Shard : \/ \E m \in startMsgs : HandleRepartitionStart(s, m)
                             \/ \E m \in stateMsgs : HandleAccountMigration(s, m)
                             \/ BuildMigrationProposal(s)
                             \/ CommitMigrationBlock(s)
  PROVE  OnceInv'
<1>1. UNCHANGED <<unsent, pool, txMsgs, done>>
  BY DEF NoteEpoch, SupRepartition, LoseStates, HandleRepartitionStart, HandleAccountMigration,
     BuildMigrationProposal, CommitMigrationBlock, supVars, netVars, histVars
<1>2. CASE UNCHANGED <<loc, proposal>>
  BY <1>1, <1>2, OnceUnchanged DEF BlockTxs, Tx, TxId
<1>3. ASSUME NEW s \in Shard, BuildMigrationProposal(s) PROVE OnceInv'
  <2>1. UNCHANGED loc
    BY <1>3 DEF BuildMigrationProposal, chainVars
  <2>2. PICK st : proposal' = [proposal EXCEPT ![s] = {MigrationBlock(st)}]
    BY <1>3 DEF BuildMigrationProposal
  <2>3. \A r \in Shard : BlockTxs(r)' \subseteq BlockTxs(r)
    BY <2>2 DEF BlockTxs, MigrationBlock, MigInv, StateTypes, Tx, TxId
  <2> QED
    BY <1>1, <2>1, <2>3, OnceUnchanged
<1>4. ASSUME NEW s \in Shard, CommitMigrationBlock(s) PROVE OnceInv'
  <2>1. proposal' = [proposal EXCEPT ![s] = {}] /\ \A r \in Shard \ {s} : loc'[r] = loc[r]
    BY <1>4 DEF CommitMigrationBlock, MigInv, StateTypes
  <2>2. \A r \in Shard : BlockTxs(r)' = IF r = s THEN {} ELSE BlockTxs(r)
    BY <2>1 DEF BlockTxs, MigInv, StateTypes, Tx, TxId
  <2> QED
    BY <1>1, <2>1, <2>2, OnceUnchanged
<1> QED
  BY <1>2, <1>3, <1>4 DEF NoteEpoch, SupRepartition, LoseStates, HandleRepartitionStart,
     HandleAccountMigration, chainVars

\* No transaction debits or credits twice, or credits first.
LEMMA OnceMeansExecutedOnce == OnceInv => ExecutedOnce
BY DEF OnceInv, DoneInv, ExecutedOnce
=============================================================================
