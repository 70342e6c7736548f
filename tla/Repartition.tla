----------------------------- MODULE Repartition -----------------------------
(***************************************************************************)
(* Dynamic sharding, the part both modes share: the supervisor moves       *)
(* accounts between shards (committee/partitionrunner.go), the leaders     *)
(* exchange the states of those accounts (migration/migration.go,          *)
(* migrationblockop.go) and execute the halves of transactions (pkg/chain).*)
(* CLPARelay adds the relays and CLPABroker the brokers.                   *)
(*                                                                         *)
(* A shard is its leader, as in RelayShards.  A balance is the difference  *)
(* to the initial balance, so that an account that does not exist has 0;   *)
(* every transaction moves 1 and every sender can pay, so that no block    *)
(* fails when it is built.  Only messages with account states get lost.    *)
(***************************************************************************)
EXTENDS Integers, FiniteSets, FiniteSetsExt, Functions

CONSTANTS
  Shard,             \* shard IDs
  Account,           \* accounts
  DefaultLoc,        \* DefaultAccountLoc: the first shard of an account
  Pay,               \* Pay[i]: transaction i of the source, [from, to]
  TxInjectionSpeed,  \* tx_injection_speed
  BlockSizeLimit,    \* block_size_limit
  MaxEpoch,          \* bound: repartitions
  MaxLost            \* bound: account-migration messages lost

ASSUME RepartitionAssumption ==
  /\ IsFiniteSet(Shard) /\ IsFiniteSet(Account)
  /\ DefaultLoc \in [Account -> Shard]
  /\ IsFiniteSet(DOMAIN Pay)
  /\ \A i \in DOMAIN Pay : Pay[i].from \in Account /\ Pay[i].to \in Account
  /\ TxInjectionSpeed \in Nat \ {0} /\ BlockSizeLimit \in Nat \ {0}
  /\ MaxEpoch \in Nat /\ MaxLost \in Nat

VARIABLES
  supEpoch,    \* supervisorEpoch
  epochSynced, \* epochSynced
  shardEpoch,  \* shardEpoch
  vertexLoc,   \* the locations of the CLPA state
  unsent,      \* transactions of the source not injected yet
  epoch,       \* Epoch of the migration metadata of a leader
  modified,    \* CurModifiedMap: a function on the moved accounts
  ready,       \* MigrationReady
  collected,   \* MigratedAccountStates: {} or {states} for every source shard
  unhandled,   \* unhandledStateMsg
  chainEpoch,  \* epochID of the chain
  loc,         \* location trie: loc[s][a], the shard of a in the eyes of s
  balance,     \* state trie: balance[s][a]
  pool,        \* transaction pool of a leader
  proposal,    \* block of the round: {} or one block
  txMsgs,      \* ReceiveTxsMsg under way
  startMsgs,   \* CLPARepartitionStartMsg under way
  stateMsgs,   \* AccountMigrationMsg under way
  infoMsgs,    \* block infos for the supervisor under way
  lost,        \* number of AccountMigrationMsg lost
  ledger,      \* history: what all blocks have done to an account
  done         \* history: how often a transaction debited and credited

supVars   == <<supEpoch, epochSynced, shardEpoch, vertexLoc, unsent>>
metaVars  == <<epoch, modified, ready, collected, unhandled>>
chainVars == <<chainEpoch, loc, balance>>
netVars   == <<txMsgs, startMsgs, stateMsgs, infoMsgs, lost>>
histVars  == <<ledger, done>>
sharedVars == <<supVars, metaVars, chainVars, pool, proposal, netVars, histVars>>

-----------------------------------------------------------------------------

TxId == DOMAIN Pay

\* The stages of the half of a cross-shard transaction that debits, and of the
\* half that credits.
FirstHalf  == {"relay1", "sigma1"}
SecondHalf == {"relay2", "sigma2"}

\* A transaction as it travels, with its stage.
Tx == [id : TxId, stage : {"normal"} \cup FirstHalf \cup SecondHalf]

From(t) == Pay[t.id].from
To(t)   == Pay[t.id].to

\* Maps of some accounts.
Moves  == UNION {[S -> Shard] : S \in SUBSET Account}
Nothing == [a \in {} |-> 0]

StateMsg(src, dest, e, st) == [src |-> src, dest |-> dest, epoch |-> e, states |-> st]

TxBlock(txs) == [type |-> "tx", txs |-> txs]
MigrationBlock(st) == [type |-> "migration", states |-> st]

TypeOK ==
  /\ supEpoch \in 0 .. MaxEpoch /\ epochSynced \in BOOLEAN
  /\ shardEpoch \in [Shard -> 0 .. MaxEpoch]
  /\ vertexLoc \in [Account -> Shard]
  /\ unsent \subseteq TxId
  /\ epoch \in [Shard -> 0 .. MaxEpoch] /\ chainEpoch \in [Shard -> 0 .. MaxEpoch]
  /\ modified \in [Shard -> Moves] /\ ready \in [Shard -> BOOLEAN]
  /\ \A s, r \in Shard : Cardinality(collected[s][r]) <= 1
  /\ \A s \in Shard : \A m \in unhandled[s] : m.dest = s /\ m.epoch > epoch[s]
  /\ loc \in [Shard -> [Account -> Shard]]
  /\ DOMAIN balance = Shard /\ \A s \in Shard : DOMAIN balance[s] = Account
  /\ pool \in [Shard -> SUBSET Tx]
  /\ \A s \in Shard : Cardinality(proposal[s]) <= 1
  /\ \A m \in txMsgs : m.to \in Shard /\ m.txs \subseteq Tx
  /\ \A m \in infoMsgs : m.shard \in Shard /\ m.txs \subseteq Tx
  /\ lost \in 0 .. MaxLost

SharedInit ==
  /\ supEpoch = 0 /\ epochSynced = FALSE
  /\ shardEpoch = [s \in Shard |-> 0]
  /\ vertexLoc = DefaultLoc
  /\ unsent = TxId
  /\ epoch = [s \in Shard |-> 0]
  /\ modified = [s \in Shard |-> Nothing]
  /\ ready = [s \in Shard |-> FALSE]
  /\ collected = [s \in Shard |-> [r \in Shard |-> {}]]
  /\ unhandled = [s \in Shard |-> {}]
  /\ chainEpoch = [s \in Shard |-> 0]
  /\ loc = [s \in Shard |-> DefaultLoc]
  /\ balance = [s \in Shard |-> [a \in Account |-> 0]]
  /\ pool = [s \in Shard |-> {}]
  /\ proposal = [s \in Shard |-> {}]
  /\ txMsgs = {} /\ startMsgs = {} /\ stateMsgs = {} /\ infoMsgs = {}
  /\ lost = 0
  /\ ledger = [a \in Account |-> 0]
  /\ done = [i \in TxId |-> [debit |-> 0, credit |-> 0]]

\* The account that decides where a transaction belongs.
KeyAcc(t) == IF t.stage \in SecondHalf THEN To(t) ELSE From(t)

\* SendWrappedTxs2Shards: one message to every shard that gets transactions, for
\* accounts that are at these locations.
TxMsgsFor(txs, at) ==
  {m \in {[to |-> s, txs |-> {t \in txs : at[KeyAcc(t)] = s}] : s \in Shard} : m.txs # {}}

-----------------------------------------------------------------------------
(* The supervisor.                                                           *)

\* A mutated EpochSync: one shard in the epoch is enough.
EpochSync_some == epochSynced \/ \E s \in Shard : shardEpoch[s] = supEpoch

\* CheckEpochSyncAndMark
EpochSync == epochSynced \/ \A s \in Shard : shardEpoch[s] = supEpoch

\* A block info: the latest epoch of its shard is kept. The edges it adds to the
\* graph only matter for what CLPAPartition returns.
NoteEpoch(m) ==
  /\ infoMsgs' = infoMsgs \ {m}
  /\ shardEpoch' = [shardEpoch EXCEPT ![m.shard] = Max({@, m.epoch})]
  /\ UNCHANGED <<supEpoch, epochSynced, vertexLoc, unsent, metaVars, chainVars, pool,
                 proposal, txMsgs, startMsgs, stateMsgs, lost, histVars>>

\* repartition, some time after the last one. CLPAPartition may move any
\* accounts to other shards.
SupRepartition ==
  /\ EpochSync
  /\ supEpoch < MaxEpoch
  /\ supEpoch' = supEpoch + 1
  /\ epochSynced' = FALSE
  /\ \E mv \in Moves :
       /\ \A a \in DOMAIN mv : mv[a] # vertexLoc[a]
       /\ vertexLoc' = [a \in Account |-> IF a \in DOMAIN mv THEN mv[a] ELSE vertexLoc[a]]
       /\ startMsgs' = startMsgs \cup
            {[to |-> s, epoch |-> supEpoch + 1, moves |-> mv] : s \in Shard}
  /\ UNCHANGED <<shardEpoch, unsent, metaVars, chainVars, pool, proposal, txMsgs,
                 stateMsgs, infoMsgs, lost, histVars>>

-----------------------------------------------------------------------------
(* Messages to a leader: HandleMsgOutsideShard of CLPALocOutsideOp.          *)

HandleReceiveTxs(s, m) ==
  /\ m.to = s
  /\ txMsgs' = txMsgs \ {m}
  /\ pool' = [pool EXCEPT ![s] = @ \cup m.txs]
  /\ UNCHANGED <<supVars, metaVars, chainVars, proposal, startMsgs, stateMsgs, infoMsgs,
                 lost, histVars>>

\* A mutated Early: a state message of a later epoch is not kept.
Early_none(s, msgs) == {}

\* The messages unhandledStateMsg has for the epoch that starts.
Early(s, msgs) == {m \in msgs : m.epoch = epoch[s] + 1}

\* A mutated Later: handled messages are not cleared.
Later_keep(s, e) == unhandled[s]

\* What is left in unhandledStateMsg when epoch e starts.
Later(s, e) == {m \in unhandled[s] : m.epoch # e}

\* UpdateByRepartitionStartMsg: a message of a wrong epoch is an error.
HandleRepartitionStart(s, m) ==
  /\ m.to = s
  /\ startMsgs' = startMsgs \ {m}
  /\ \/ /\ m.epoch = epoch[s] + 1
        /\ epoch' = [epoch EXCEPT ![s] = m.epoch]
        /\ modified' = [modified EXCEPT ![s] = m.moves]
        /\ ready' = [ready EXCEPT ![s] = TRUE]
        /\ LET early == Early(s, unhandled[s])
           IN  collected' = [collected EXCEPT ![s] = [r \in Shard |->
                 IF \E e \in early : e.src = r
                 THEN {(CHOOSE e \in early : e.src = r).states} ELSE @[r]]]
        /\ unhandled' = [unhandled EXCEPT ![s] = Later(s, m.epoch)]
     \/ m.epoch # epoch[s] + 1 /\ UNCHANGED metaVars
  /\ UNCHANGED <<supVars, chainVars, pool, proposal, txMsgs, stateMsgs, infoMsgs, lost,
                 histVars>>

\* CollectStatesByMsg: an old message is an error, a newer one is kept.
HandleAccountMigration(s, m) ==
  /\ m.dest = s
  /\ stateMsgs' = stateMsgs \ {m}
  /\ \/ /\ m.epoch = epoch[s]
        /\ collected' = [collected EXCEPT ![s][m.src] = {m.states}]
        /\ UNCHANGED unhandled
     \/ /\ m.epoch > epoch[s]
        /\ unhandled' = [unhandled EXCEPT ![s] = @ \cup {m}]
        /\ UNCHANGED collected
     \/ m.epoch < epoch[s] /\ UNCHANGED <<collected, unhandled>>
  /\ UNCHANGED <<supVars, epoch, modified, ready, chainVars, pool, proposal, txMsgs,
                 startMsgs, infoMsgs, lost, histVars>>

-----------------------------------------------------------------------------
(* The migration of a leader.                                                *)

\* A mutated MayBuildTxBlock: MigrationReady is not looked at.
MayBuildTxBlock_always(s) == proposal[s] = {}

\* BuildProposal of DynamicShardOp: MigrationReady is not set, and no round is
\* open.
MayBuildTxBlock(s) == proposal[s] = {} /\ ~ready[s]

\* A mutated Unpacked: what is packed stays in the pool.
Unpacked_keep(s, T) == pool[s]

\* The pool without the packed transactions.
Unpacked(s, T) == pool[s] \ T

\* The states of the accounts that move from shard s to shard d.
MovedStates(s, d) ==
  [a \in {x \in DOMAIN modified[s] : loc[s][x] = s /\ modified[s][x] = d} |-> balance[s][a]]

\* buildPartitionProposal before the message of the shard to itself has come
\* back: MigrateAccounts, before the transactions of the pool are migrated. That
\* message is in the buffer the next tick drains, unless the buffer was full.
MigrateAccounts(s) ==
  /\ proposal[s] = {} /\ ready[s]
  /\ collected[s][s] = {}
  /\ \A m \in stateMsgs : ~(m.src = s /\ m.dest = s)
  /\ stateMsgs' = stateMsgs \cup {StateMsg(s, d, epoch[s], MovedStates(s, d)) : d \in Shard}
  /\ UNCHANGED <<supVars, metaVars, chainVars, proposal, startMsgs, infoMsgs, lost, histVars>>

\* A mutated AllCollected: the shard's own states are enough.
AllCollected_own(s) == collected[s][s] # {}

\* BuildMigrationProposal waits for the states of every shard.
AllCollected(s) == \A r \in Shard : collected[s][r] # {}

\* GetMigratedAddrStates: the collected states, merged; an account nobody has
\* sent gets a new state.
MigratedState(s, a) ==
  LET found == {st \in UNION {collected[s][r] : r \in Shard} : a \in DOMAIN st}
  IN  IF found = {} THEN {0} ELSE {st[a] : st \in found}

\* BuildMigrationProposal. Where two shards have sent one account either of
\* the states may win: the merge goes through a Go map.
BuildMigrationProposal(s) ==
  /\ proposal[s] = {} /\ ready[s]
  /\ collected[s][s] # {}
  /\ AllCollected(s)
  /\ \E st \in [DOMAIN modified[s] -> UNION {MigratedState(s, a) : a \in Account}] :
       /\ \A a \in DOMAIN st : st[a] \in MigratedState(s, a)
       /\ proposal' = [proposal EXCEPT ![s] = {MigrationBlock(st)}]
  /\ UNCHANGED <<supVars, metaVars, chainVars, pool, netVars, histVars>>

-----------------------------------------------------------------------------
(* The end of a round: ProposalCommitAndDeliver of DynamicShardOp.           *)

\* normalTxExecute, relayTxExecute and brokerTxExecute of a block on shard s: a
\* half of a transaction is skipped where its account is not at home. What a
\* broker gets and gives decides nothing here.
Debited(s, a, txs) ==
  {t \in txs : /\ From(t) = a
               /\ t.stage = "normal" \/ (t.stage \in FirstHalf /\ loc[s][a] = s)}
Credited(s, a, txs) ==
  {t \in txs : /\ To(t) = a
               /\ t.stage = "normal" \/ (t.stage \in SecondHalf /\ loc[s][a] = s)}

Change(s, a, txs) == Cardinality(Credited(s, a, txs)) - Cardinality(Debited(s, a, txs))

\* BlockCommitAndDeliver up to the block info: AddBlock of transactions txs, and
\* the info with the epoch of the chain.
AddTxBlock(s, txs) ==
  /\ proposal[s] = {TxBlock(txs)}
  /\ balance' = [balance EXCEPT ![s] = [a \in Account |-> @[a] + Change(s, a, txs)]]
  /\ ledger' = [a \in Account |-> ledger[a] + Change(s, a, txs)]
  /\ done' = [i \in TxId |->
       LET Of(S) == Cardinality({t \in S : t.id = i})
       IN  [debit  |-> done[i].debit + Of(Debited(s, Pay[i].from, txs)),
            credit |-> done[i].credit + Of(Credited(s, Pay[i].to, txs))]]
  /\ infoMsgs' = infoMsgs \cup {[shard |-> s, epoch |-> chainEpoch[s], txs |-> txs]}
  /\ proposal' = [proposal EXCEPT ![s] = {}]
  /\ UNCHANGED <<supVars, metaVars, chainEpoch, loc, pool, startMsgs, stateMsgs, lost>>

\* MigrationBlockCommit: AddBlock (calcStateModification writes the states of
\* the accounts that come here and every location), UpdateEpoch and
\* MigrationStatusReset.
CommitMigrationBlock(s) ==
  /\ \E b \in proposal[s] :
       /\ b.type = "migration"
       /\ balance' = [balance EXCEPT ![s] = [a \in Account |->
            IF a \in DOMAIN b.states /\ modified[s][a] = s THEN b.states[a] ELSE @[a]]]
       /\ loc' = [loc EXCEPT ![s] = [a \in Account |->
            IF a \in DOMAIN b.states THEN modified[s][a] ELSE @[a]]]
  /\ chainEpoch' = [chainEpoch EXCEPT ![s] = epoch[s]]
  /\ modified' = [modified EXCEPT ![s] = Nothing]
  /\ ready' = [ready EXCEPT ![s] = FALSE]
  /\ collected' = [collected EXCEPT ![s] = [r \in Shard |-> {}]]
  /\ unhandled' = [unhandled EXCEPT ![s] = Later(s, epoch[s])]
  /\ proposal' = [proposal EXCEPT ![s] = {}]
  /\ UNCHANGED <<supVars, epoch, pool, netVars, histVars>>

-----------------------------------------------------------------------------

\* A failed send is only logged, and a full buffer refuses a message.
LoseStates(m) ==
  /\ lost < MaxLost
  /\ lost' = lost + 1
  /\ stateMsgs' = stateMsgs \ {m}
  /\ UNCHANGED <<supVars, metaVars, chainVars, pool, proposal, txMsgs, startMsgs, infoMsgs,
                 histVars>>

-----------------------------------------------------------------------------
(* Properties of both modes. *)

\* Shard s may still change account a: it has the account, and it may propose
\* a block of transactions or has one in an open round.
Serves(s, a) == loc[s][a] = s /\ (~ready[s] \/ \E b \in proposal[s] : b.type = "tx")

\* Two shards never serve one account, although they commit the migration
\* blocks of an epoch at different times.
SingleOwner ==
  \A a \in Account : \A s, r \in Shard : Serves(s, a) /\ Serves(r, a) => s = r

\* The state moves with the account: a shard that serves an account has what
\* all the blocks of all the shards have done to it, however often it moved.
OwnerHasLedger ==
  \A s \in Shard, a \in Account : Serves(s, a) => balance[s][a] = ledger[a]

\* A migration block has the current state of every account it brings to its
\* shard: none is missing and none is of an earlier epoch (migration.go:
\* "returns the migrated accounts and states if all MigratedAccountStates are
\* collected").
MigrationBlockCurrent ==
  \A s \in Shard : \A b \in proposal[s] : b.type = "migration" =>
    \A a \in DOMAIN b.states : modified[s][a] = s => b.states[a] = ledger[a]

\* The supervisor is never more than one epoch ahead of a chain, and a leader
\* is in a new epoch exactly while its migration is under way.
EpochsInStep ==
  \A s \in Shard :
    /\ chainEpoch[s] \in {supEpoch - 1, supEpoch}
    /\ epoch[s] = IF ready[s] THEN chainEpoch[s] + 1 ELSE chainEpoch[s]

\* No transaction debits or credits twice, or credits first, although it may
\* be sent on several times between shards that disagree where accounts are.
ExecutedOnce ==
  \A i \in TxId : done[i].credit <= done[i].debit /\ done[i].debit <= 1
=============================================================================
