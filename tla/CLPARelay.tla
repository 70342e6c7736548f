------------------------------ MODULE CLPARelay ------------------------------
(***************************************************************************)
(* Dynamic relay sharding: Repartition with the relays of CLPARelayConsensus*)
(* (committee/clparelay.go, insideop/dynamicshardop.go,                    *)
(* txblockop/relaytxblockop.go).  The injected transactions are not the    *)
(* last ones (unsentTxNum stays positive), so the stop logic of the        *)
(* supervisor does not move.                                               *)
(***************************************************************************)
EXTENDS Repartition

vars == sharedVars

Init == SharedInit

-----------------------------------------------------------------------------

\* HandleMsg of CLPARelayCommittee.
HandleBlockInfo(m) == NoteEpoch(m)

\* readTxsAndSend: to the shards the CLPA state names for the senders.
SupSendTxs ==
  /\ EpochSync
  /\ unsent # {}
  /\ epochSynced' = TRUE
  /\ \E T \in SUBSET unsent :
       /\ Cardinality(T) = Min({TxInjectionSpeed, Cardinality(unsent)})
       /\ unsent' = unsent \ T
       /\ txMsgs' = txMsgs \cup
            TxMsgsFor({[id |-> i, stage |-> "normal"] : i \in T}, vertexLoc)
  /\ UNCHANGED <<supEpoch, shardEpoch, vertexLoc, metaVars, chainVars, pool, proposal,
                 startMsgs, stateMsgs, infoMsgs, lost, histVars>>

-----------------------------------------------------------------------------

\* modifyTxRelayOpt: a transaction to another shard becomes a relay1.
Marked(s, txs) ==
  {IF t.stage = "normal" /\ loc[s][To(t)] # s THEN [t EXCEPT !.stage = "relay1"]
   ELSE t : t \in txs}

\* The packed transactions that belong to another shard.
ForeignTxs(s, txs) == {t \in txs : loc[s][KeyAcc(t)] # s}

\* buildBlockProposal: packValidTxsInRelay takes transactions T out of the pool
\* until BlockSizeLimit of them belong here or the pool is empty, and sends the
\* others to their shards. The order of the pool is left open.
BuildTxBlock(s) ==
  /\ MayBuildTxBlock(s)
  /\ \E T \in SUBSET pool[s] :
       LET here == T \ ForeignTxs(s, T)
       IN  /\ Cardinality(here) <= BlockSizeLimit
           /\ T = pool[s] \/ Cardinality(here) = BlockSizeLimit
           /\ pool' = [pool EXCEPT ![s] = Unpacked(s, T)]
           /\ txMsgs' = txMsgs \cup TxMsgsFor(ForeignTxs(s, T), loc[s])
           /\ proposal' = [proposal EXCEPT ![s] = {TxBlock(Marked(s, here))}]
  /\ UNCHANGED <<supVars, metaVars, chainVars, startMsgs, stateMsgs, infoMsgs, lost,
                 histVars>>

\* buildPartitionProposal: MigrateAccounts, then migrateTxsInRelay, which empties
\* the pool and adds back what stays.
MigrateAccountsAndTxs(s) ==
  LET moved == {t \in pool[s] : KeyAcc(t) \in DOMAIN modified[s]}
  IN  /\ MigrateAccounts(s)
      /\ pool' = [pool EXCEPT ![s] = Unpacked(s, moved)]
      /\ txMsgs' = txMsgs \cup TxMsgsFor(moved, modified[s])

\* BlockCommitAndDeliver: AddBlock, the block info, and sendRelayedTxs to where
\* this shard sees the recipients.
CommitTxBlock(s) ==
  \E b \in proposal[s] :
    /\ b.type = "tx"
    /\ AddTxBlock(s, b.txs)
    /\ txMsgs' = txMsgs \cup
         TxMsgsFor({[t EXCEPT !.stage = "relay2"] :
                      t \in {r \in b.txs : r.stage = "relay1"}}, loc[s])

-----------------------------------------------------------------------------

Supervisor ==
  \/ \E m \in infoMsgs : HandleBlockInfo(m)
  \/ SupRepartition \/ SupSendTxs

Receive(s) ==
  \/ \E m \in txMsgs : HandleReceiveTxs(s, m)
  \/ \E m \in startMsgs : HandleRepartitionStart(s, m)
  \/ \E m \in stateMsgs : HandleAccountMigration(s, m)

Build(s) == BuildTxBlock(s) \/ MigrateAccountsAndTxs(s) \/ BuildMigrationProposal(s)

Commit(s) == CommitTxBlock(s) \/ CommitMigrationBlock(s)

Next ==
  \/ Supervisor
  \/ \E s \in Shard : Receive(s) \/ Build(s) \/ Commit(s)
  \/ \E m \in stateMsgs : LoseStates(m)

Spec == Init /\ [][Next]_vars
=============================================================================
