----------------------------- MODULE CLPABroker -----------------------------
(***************************************************************************)
(* Dynamic broker sharding: Repartition with the brokers of                *)
(* CLPABrokerConsensus (committee/clpabroker.go, pkg/broker,               *)
(* insideop/dynamicshardop.go, txblockop/brokertxblockop.go).  A transfer  *)
(* whose accounts a repartition has separated goes back to the supervisor, *)
(* which gives it to a broker.                                             *)
(*                                                                         *)
(* The broker of a payment is chosen at random and no books are kept, so   *)
(* who it is decides nothing.  No broker is the sender or recipient of a   *)
(* transaction of the source.  The shards are not stopped.                 *)
(***************************************************************************)
EXTENDS Repartition

CONSTANTS
  StopThreshold, \* stopThreshold
  MayStop        \* bound: FALSE leaves out the end of the supervisor's loop

ASSUME StopAssumption == StopThreshold \in Nat \ {0} /\ MayStop \in BOOLEAN

VARIABLES
  confirmStage, \* confirmStage of a recorded payment; "none" when not recorded
  ready1,       \* readyBroker1TxHashes
  ready2,       \* readyBroker2TxHashes
  stopCnt,      \* sl.stopCnt
  stopped,      \* the loop of the supervisor has ended
  againMsgs     \* BrokerCLPATxSendAgainMsg under way: sets of transactions

managerVars == <<confirmStage, ready1, ready2>>
brokerVars == <<managerVars, stopCnt, stopped, againMsgs>>
vars == <<sharedVars, brokerVars>>

Init ==
  /\ SharedInit
  /\ confirmStage = [i \in TxId |-> "none"]
  /\ ready1 = {} /\ ready2 = {}
  /\ stopCnt = 0 /\ stopped = FALSE
  /\ againMsgs = {}

-----------------------------------------------------------------------------
(* The supervisor: HandleMsg of CLPABrokerCommittee.                         *)

\* ConfirmBrokerTx succeeds for the payments that wait for this confirmation.
Confirmed(m, kind) ==
  {i \in {t.id : t \in {x \in m.txs : x.stage = kind}} :
     confirmStage[i] = IF kind = "sigma1" THEN "wait1" ELSE "wait2"}

\* The stop logic once everything is injected. stopCnt counts up to
\* StopThreshold: beyond it only the comparison matters.
CountStop(m) ==
  IF m.txs = {} /\ MayStop THEN Min({StopThreshold, stopCnt + 1}) ELSE 0

\* handleBlockInfoMsg: the epoch, the stop counter, and the confirmations of the
\* brokers. The info of an empty block has none.
HandleBlockInfo(m) ==
  /\ ~stopped
  /\ NoteEpoch(m)
  /\ stopCnt' = IF unsent = {} THEN CountStop(m) ELSE stopCnt
  /\ confirmStage' = [i \in TxId |-> CASE i \in Confirmed(m, "sigma1") -> "wait2"
                                       [] i \in Confirmed(m, "sigma2") -> "none"
                                       [] OTHER -> confirmStage[i]]
  /\ ready2' = ready2 \cup Confirmed(m, "sigma1")
  /\ UNCHANGED <<ready1, stopped, againMsgs>>

\* The payments CreateRawTxsRandomBroker may record of a list: all of them, but
\* a payment that is recorded already is an error that ends the loop.
Recorded(S) ==
  LET new == {i \in S : confirmStage[i] = "none"}
  IN  IF new = S THEN {S} ELSE SUBSET new

\* handleTxSendAgainMsg: the payments wait for the next tick.
HandleSendAgain(m) ==
  /\ ~stopped
  /\ againMsgs' = againMsgs \ {m}
  /\ \E S \in Recorded(m) :
       /\ confirmStage' = [i \in TxId |-> IF i \in S THEN "wait1" ELSE confirmStage[i]]
       /\ ready1' = ready1 \cup S
  /\ UNCHANGED <<sharedVars, ready2, stopCnt, stopped>>

-----------------------------------------------------------------------------
(* The supervisor: SendTxsAndConsensus, and the stop check with which the    *)
(* next tick starts.                                                         *)

ShouldStop == stopCnt >= StopThreshold

\* Not every shard is in the epoch of the supervisor.
SupWait ==
  /\ ~stopped /\ ~EpochSync
  /\ UNCHANGED <<sharedVars, managerVars, stopCnt, againMsgs>>
  /\ stopped' = ShouldStop

\* repartition also resets the stop counter.
SupRepartitionAndReset ==
  /\ ~stopped
  /\ SupRepartition
  /\ stopCnt' = 0
  /\ UNCHANGED <<managerVars, stopped, againMsgs>>

\* A mutated Ready2Left: the list is not cleared.
Ready2Left_keep == ready2

\* CreateBrokerTxs clears the lists.
Ready2Left == {}

\* readTxsAndSend: classifyTxs by the locations of the CLPA state, broker1
\* transactions for the new payments and those that were sent again, broker2
\* transactions for the confirmed ones.
SupSendTxs ==
  /\ ~stopped
  /\ EpochSync
  /\ epochSynced' = TRUE
  /\ \E T \in SUBSET unsent :
       LET cross == {i \in T : vertexLoc[Pay[i].from] # vertexLoc[Pay[i].to]}
       IN  /\ Cardinality(T) = Min({TxInjectionSpeed, Cardinality(unsent)})
           /\ unsent' = unsent \ T
           /\ \E S \in Recorded(cross) :
                /\ confirmStage' =
                     [i \in TxId |-> IF i \in S THEN "wait1" ELSE confirmStage[i]]
                /\ txMsgs' = txMsgs \cup TxMsgsFor(
                     {[id |-> i, stage |-> "normal"] : i \in T \ cross}
                     \cup {[id |-> i, stage |-> "sigma1"] :
                             i \in {j \in ready1 \cup S : confirmStage'[j] = "wait1"}}
                     \cup {[id |-> i, stage |-> "sigma2"] :
                             i \in {j \in ready2 : confirmStage'[j] = "wait2"}}, vertexLoc)
  /\ ready1' = {} /\ ready2' = Ready2Left
  /\ stopped' = ShouldStop
  /\ UNCHANGED <<supEpoch, shardEpoch, vertexLoc, metaVars, chainVars, pool, proposal,
                 startMsgs, stateMsgs, infoMsgs, lost, histVars, stopCnt, againMsgs>>

-----------------------------------------------------------------------------
(* A leader: DynamicShardOp in broker mode.                                  *)

\* The transfers that have become cross-shard ones for accounts at these
\* locations, and go back to the supervisor.
Separated(txs, at) == {t \in txs : t.stage = "normal" /\ at[From(t)] # at[To(t)]}

\* A mutated SentAgain: what goes back to the supervisor is dropped.
SentAgain_drop(txs) == againMsgs

\* brokerCLPATxSendAgain, for transactions if there are any.
SentAgain(txs) == againMsgs \cup ({{t.id : t \in txs}} \ {{}})

\* packValidTxsInBroker takes transactions T out of the pool until
\* BlockSizeLimit of them belong here or the pool is empty
\* (getTxDestLocByAccountState). The order of the pool is left open.
BuildTxBlock(s) ==
  /\ MayBuildTxBlock(s)
  /\ \E T \in SUBSET pool[s] :
       LET again == Separated(T, loc[s])
           here  == {t \in T \ again : loc[s][KeyAcc(t)] = s}
       IN  /\ Cardinality(here) <= BlockSizeLimit
           /\ T = pool[s] \/ Cardinality(here) = BlockSizeLimit
           /\ pool' = [pool EXCEPT ![s] = Unpacked(s, T)]
           /\ txMsgs' = txMsgs \cup TxMsgsFor(T \ (again \cup here), loc[s])
           /\ againMsgs' = SentAgain(again)
           /\ proposal' = [proposal EXCEPT ![s] = {TxBlock(here)}]
  /\ UNCHANGED <<supVars, metaVars, chainVars, startMsgs, stateMsgs, infoMsgs, lost,
                 histVars, managerVars, stopCnt, stopped>>

\* getMigratedTxDestLocInBroker: an account that does not move counts as one of
\* this shard.
MigratedLoc(s) ==
  [a \in Account |-> IF a \in DOMAIN modified[s] THEN modified[s][a] ELSE s]

\* buildPartitionProposal: MigrateAccounts, then migrateTxsInBroker, which
\* empties the pool and adds back what stays.
MigrateAccountsAndTxs(s) ==
  LET at    == MigratedLoc(s)
      again == Separated(pool[s], at)
      moved == {t \in pool[s] \ again : at[KeyAcc(t)] # s}
  IN  /\ MigrateAccounts(s)
      /\ pool' = [pool EXCEPT ![s] = Unpacked(s, again \cup moved)]
      /\ txMsgs' = txMsgs \cup TxMsgsFor(moved, at)
      /\ againMsgs' = SentAgain(again)
      /\ UNCHANGED <<managerVars, stopCnt, stopped>>

\* BlockCommitAndDeliver: AddBlock and the block info.
CommitTxBlock(s) ==
  \E b \in proposal[s] : b.type = "tx" /\ AddTxBlock(s, b.txs) /\ UNCHANGED <<txMsgs, brokerVars>>

-----------------------------------------------------------------------------

Supervisor ==
  \/ \E m \in infoMsgs : HandleBlockInfo(m)
  \/ \E m \in againMsgs : HandleSendAgain(m)
  \/ SupWait \/ SupRepartitionAndReset \/ SupSendTxs

\* What a leader does with a message, and the end of its migration.
Migrate(s) ==
  \/ \E m \in txMsgs : HandleReceiveTxs(s, m)
  \/ \E m \in startMsgs : HandleRepartitionStart(s, m)
  \/ \E m \in stateMsgs : HandleAccountMigration(s, m)
  \/ BuildMigrationProposal(s)
  \/ CommitMigrationBlock(s)

Next ==
  \/ Supervisor
  \/ \E s \in Shard : BuildTxBlock(s) \/ MigrateAccountsAndTxs(s) \/ CommitTxBlock(s)
  \/ \E s \in Shard : Migrate(s) /\ UNCHANGED brokerVars
  \/ \E m \in stateMsgs : LoseStates(m) /\ UNCHANGED brokerVars

Spec == Init /\ [][Next]_vars

\* Everybody keeps ticking and handles every message it gets, and rounds end
\* (module PBFT). Nothing makes the supervisor repartition.
Fairness ==
  /\ \A s \in Shard :
       /\ WF_vars((\E m \in startMsgs : HandleRepartitionStart(s, m)) /\ UNCHANGED brokerVars)
       /\ WF_vars((\E m \in stateMsgs : HandleAccountMigration(s, m)) /\ UNCHANGED brokerVars)
       /\ WF_vars((\E m \in txMsgs : HandleReceiveTxs(s, m)) /\ UNCHANGED brokerVars)
       /\ WF_vars(\/ BuildTxBlock(s) \/ MigrateAccountsAndTxs(s)
                  \/ BuildMigrationProposal(s) /\ UNCHANGED brokerVars)
       /\ WF_vars(CommitTxBlock(s) \/ (CommitMigrationBlock(s) /\ UNCHANGED brokerVars))
  /\ \A s \in Shard, e \in 0 .. MaxEpoch, empty \in BOOLEAN :
       WF_vars(\E m \in infoMsgs : /\ m.shard = s /\ m.epoch = e /\ (m.txs = {}) = empty
                                  /\ HandleBlockInfo(m))
  /\ WF_vars(\E m \in againMsgs : HandleSendAgain(m))
  /\ WF_vars(SupSendTxs)

FairSpec == Spec /\ Fairness

-----------------------------------------------------------------------------
(* Properties. *)

\* Payment i under way, in a pool, or in a block.
NetPlaces(i) ==
  UNION {{<<"sent", m, t>> : t \in {x \in m.txs : x.id = i}} : m \in txMsgs}
PoolPlaces(i) ==
  UNION {{<<"pool", s, t>> : t \in {x \in pool[s] : x.id = i}} : s \in Shard}
BlockPlaces(i) ==
  UNION {{<<"block", s, t>> :
            t \in {x \in Tx : x.id = i /\ \E b \in proposal[s] : b.type = "tx" /\ x \in b.txs}} :
           s \in Shard}

\* Where payment i is: with the source, with a shard, on its way back to the
\* supervisor, on a list of the brokers, or in the info that confirms its
\* broker1 transaction.
Places(i) ==
  {<<"source", j>> : j \in {i} \cap unsent}
  \cup {<<"again", m>> : m \in {x \in againMsgs : i \in x}}
  \cup {<<"ready1", j>> : j \in {i} \cap ready1}
  \cup {<<"ready2", j>> : j \in {i} \cap ready2}
  \cup NetPlaces(i) \cup PoolPlaces(i) \cup BlockPlaces(i)
  \cup {<<"confirm", m>> : m \in {x \in infoMsgs : [id |-> i, stage |-> "sigma1"] \in x.txs}}

\* A payment that is not complete is in exactly one place, however often the
\* shards that disagree where its accounts are send it on, back to the
\* supervisor and out again as a broker transaction: none is lost, and none is
\* under way twice, so CreateRawTx never meets a recorded payment.
InOnePlace ==
  \A i \in TxId : Cardinality(Places(i)) = 1 - done[i].credit

\* Every repartition ends when no state is lost, in whichever order states and
\* start messages arrive, and the supervisor hears of it.
RepartitionEnds ==
  \A e \in 1 .. MaxEpoch :
    supEpoch = e ~> lost > 0 \/ \A s \in Shard : shardEpoch[s] = e

\* Every payment is made in the end when no state is lost and the supervisor
\* goes on, wherever its accounts move: one that a migration separates comes
\* back to the supervisor and is made by a broker.
EveryTxExecuted == <>(lost > 0 \/ \A i \in TxId : done[i].credit = 1)

\* committee.go: "ShouldStop shows that all messages are sent or not".
StopWhenSent == stopped => ready1 = {} /\ ready2 = {}
=============================================================================
