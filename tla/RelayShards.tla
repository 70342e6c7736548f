----------------------------- MODULE RelayShards -----------------------------
(***************************************************************************)
(* Static relay sharding: the path of a transaction from the supervisor    *)
(* (supervisor.go, committee/staticrelay.go) through the pools and blocks  *)
(* of the shards (insideop/staticshardop.go, txblockop/relaytxblockop.go)  *)
(* and the states of accounts it changes (pkg/chain/txexecute.go).         *)
(*                                                                         *)
(* A shard is its leader: the nodes of a shard agree on the blocks (module *)
(* PBFT), and only the leader packs, delivers and relays.  One block per   *)
(* shard is under way: propose waits for the round to end.                 *)
(***************************************************************************)
EXTENDS Integers, Sequences, FiniteSets, SequencesExt, FiniteSetsExt, TxPool

CONSTANTS
  Shard,             \* shard IDs
  Account,           \* accounts
  Home,              \* DefaultAccountLoc: the shard of an account
  Source,            \* the transaction source, a sequence of [id, from, to, value];
                     \* the id stands for the transaction, whatever its contents
  TxNumbers,         \* the values tx_number may have
  TxInjectionSpeed,  \* tx_injection_speed
  BlockSizeLimit,    \* block_size_limit
  NormalInitBalance, \* normalInitBalance
  StopThreshold,     \* stopThreshold
  MaxInfo,           \* bound: block infos under way
  MaxLost            \* bound: messages the network may lose

ASSUME RelayAssumption ==
  /\ IsFiniteSet(Shard) /\ IsFiniteSet(Account) /\ Home \in [Account -> Shard]
  /\ Source \in Seq([id : {Source[i].id : i \in DOMAIN Source},
                     from : Account, to : Account, value : Nat])
  /\ \A i, j \in DOMAIN Source : Source[i].id = Source[j].id => i = j
  /\ TxNumbers \subseteq Nat /\ TxInjectionSpeed \in Nat \ {0}
  /\ BlockSizeLimit \in Nat \ {0} /\ NormalInitBalance \in Nat \ {0}
  /\ StopThreshold \in Nat \ {0} /\ MaxInfo \in Nat \ {0} /\ MaxLost \in Nat

VARIABLES
  unsent,    \* unsentTxNum
  read,      \* transactions read from the source
  stopCnt,   \* sl.stopCnt
  supPc,     \* loop of Start: "check", "drain", "send", "stopped"
  pool,      \* queue of the pool of a shard
  proposal,  \* block of the round: {}, or the transactions of one block
  balance,   \* state trie of a shard: balance[s][a], or Absent
  txMsgs,    \* ReceiveTxsMsg under way: [to, txs]
  infos,     \* RelayBlockInfoMsg under way, by kind
  closed,    \* the run loop of the leader has ended
  lost,      \* number of messages lost
  executed,  \* history: how often a transaction debited and credited
  dropped    \* history: transactions gone with a message or a failed block

supVars == <<unsent, read, stopCnt, supPc>>
vars == <<supVars, pool, proposal, balance, txMsgs, infos, closed, lost, executed, dropped>>

-----------------------------------------------------------------------------

Stage == {"undetermined", "relay1", "relay2"}

TxId == {Source[i].id : i \in DOMAIN Source}

\* A transaction as it travels: with its relay stage.
Tx == [id : TxId, from : Account, to : Account, value : Nat, stage : Stage]

\* An account that is not in the state trie.
Absent == -1

\* A RelayBlockInfoMsg: with transactions, or none.
InfoKind == {"txs", "empty"}

TypeOK ==
  /\ unsent \in Int /\ read \in 0 .. Len(Source)
  /\ stopCnt \in Nat
  /\ supPc \in {"check", "drain", "send", "stopped"}
  /\ pool \in [Shard -> Seq(Tx)]
  /\ \A s \in Shard : \A txs \in proposal[s] : txs \in Seq(Tx)
  /\ balance \in [Shard -> [Account -> Nat \cup {Absent}]]
  /\ \A m \in txMsgs : m.to \in Shard /\ m.txs \in Seq(Tx) /\ m.txs # <<>>
  /\ infos \in [InfoKind -> 0 .. MaxInfo]
  /\ closed \in [Shard -> BOOLEAN]
  /\ lost \in 0 .. MaxLost
  /\ executed \in [TxId -> [debit : Nat, credit : Nat]]
  /\ dropped \subseteq Tx

Init ==
  /\ unsent \in TxNumbers /\ read = 0 /\ stopCnt = 0 /\ supPc = "check"
  /\ pool = [s \in Shard |-> <<>>]
  /\ proposal = [s \in Shard |-> {}]
  /\ balance = [s \in Shard |-> [a \in Account |-> Absent]]
  /\ txMsgs = {}
  /\ infos = [k \in InfoKind |-> 0]
  /\ closed = [s \in Shard |-> FALSE]
  /\ lost = 0
  /\ executed = [t \in TxId |-> [debit |-> 0, credit |-> 0]]
  /\ dropped = {}

-----------------------------------------------------------------------------
(* The supervisor. *)

\* The transactions of a list at the indices I, in their order.
Selected(txs, I) ==
  LET kept[i \in 0 .. Len(txs)] ==
        IF i = 0 THEN <<>>
        ELSE IF i \in I THEN Append(kept[i - 1], txs[i]) ELSE kept[i - 1]
  IN  kept[Len(txs)]

\* SendWrappedTxs2Shards: one message per shard that gets transactions. dest is
\* the shard of each transaction.
TxMsgsFor(txs, dest) ==
  LET part(s) == Selected(txs, {i \in DOMAIN txs : dest[txs[i]] = s})
  IN  {m \in {[to |-> s, txs |-> part(s)] : s \in Shard} : m.txs # <<>>}

\* The stop check at the start of a tick.
SupCheck ==
  /\ supPc = "check"
  /\ supPc' = IF stopCnt >= StopThreshold THEN "stopped" ELSE "drain"
  /\ UNCHANGED <<unsent, read, stopCnt, pool, proposal, balance, txMsgs, infos, closed,
                 lost, executed, dropped>>

\* A mutated CountStop: it counts only with less than no transaction left.
CountStop_negative(kind) ==
  CASE unsent >= 0 -> stopCnt
    [] unsent < 0 /\ kind = "empty" -> stopCnt + 1
    [] unsent < 0 /\ kind = "txs" -> 0

\* The stop logic of HandleMsg. It counts once every transaction was injected.
CountStop(kind) ==
  CASE unsent > 0 -> stopCnt
    [] unsent <= 0 /\ kind = "empty" -> stopCnt + 1
    [] unsent <= 0 /\ kind = "txs" -> 0

\* HandleMsg of a block info. stopCnt counts up to StopThreshold here: beyond
\* it only the comparison matters.
HandleBlockInfo(kind) ==
  /\ supPc = "drain" /\ infos[kind] > 0
  /\ infos' = [infos EXCEPT ![kind] = @ - 1]
  /\ stopCnt' = IF CountStop(kind) > StopThreshold THEN StopThreshold ELSE CountStop(kind)
  /\ UNCHANGED <<unsent, read, supPc, pool, proposal, balance, txMsgs, closed,
                 lost, executed, dropped>>

DrainEnd ==
  /\ supPc = "drain"
  /\ supPc' = "send"
  /\ UNCHANGED <<unsent, read, stopCnt, pool, proposal, balance, txMsgs, infos, closed,
                 lost, executed, dropped>>

\* readTxsAndSend: at most TxInjectionSpeed transactions, to the shards of
\* their senders. A source that has ended returns fewer than asked for.
ReadTxsAndSend ==
  LET want == Min({TxInjectionSpeed, unsent})
      size == Min({want, Len(Source) - read})
      txs  == [i \in 1 .. size |->
                 [id |-> Source[read + i].id, from |-> Source[read + i].from,
                  to |-> Source[read + i].to, value |-> Source[read + i].value,
                  stage |-> "undetermined"]]
  IN  /\ supPc = "send"
      /\ txMsgs' = txMsgs \cup TxMsgsFor(txs, [t \in ToSet(txs) |-> Home[t.from]])
      /\ unsent' = unsent - size
      /\ read' = read + size
      /\ supPc' = "check"
      /\ UNCHANGED <<stopCnt, pool, proposal, balance, infos, closed, lost, executed, dropped>>

-----------------------------------------------------------------------------
(* Execution: the state is a record [ok, balance] of one shard. *)

\* setInitBalanceIfNotExist
WithInit(bal, a) == IF bal[a] = Absent THEN [bal EXCEPT ![a] = NormalInitBalance] ELSE bal

\* A mutated Debit: the balance is not checked.
Debit_unchecked(st, a, v) ==
  LET bal == WithInit(st.balance, a)
  IN  [ok |-> st.ok, balance |-> [bal EXCEPT ![a] = @ - v]]

\* SubBalance, after the CanTransfer check.
Debit(st, a, v) ==
  LET bal == WithInit(st.balance, a)
  IN  IF bal[a] < v THEN [ok |-> FALSE, balance |-> bal]
      ELSE [ok |-> st.ok, balance |-> [bal EXCEPT ![a] = @ - v]]

Credit(st, a, v) ==
  LET bal == WithInit(st.balance, a)
  IN  [st EXCEPT !.balance = [bal EXCEPT ![a] = @ + v]]

\* txExecute: normalTxExecute and relayTxExecute.
TxExecute(s, st, t) ==
  CASE t.stage = "undetermined" ->
         Credit(Debit([st EXCEPT !.balance = WithInit(@, t.to)], t.from, t.value),
                t.to, t.value)
    [] t.stage = "relay1" -> IF Home[t.from] = s THEN Debit(st, t.from, t.value) ELSE st
    [] t.stage = "relay2" -> IF Home[t.to] = s THEN Credit(st, t.to, t.value) ELSE st

\* calcStateModification: all transactions of a block, the first failure fails
\* the block.
Execute(s, txs) ==
  LET state[i \in 0 .. Len(txs)] ==
        IF i = 0 THEN [ok |-> TRUE, balance |-> balance[s]]
        ELSE LET before == state[i - 1]
             IN  IF before.ok THEN TxExecute(s, before, txs[i]) ELSE before
  IN  state[Len(txs)]

\* Committing the state deletes empty accounts.
DeleteEmpty(bal) == [a \in Account |-> IF bal[a] = 0 THEN Absent ELSE bal[a]]

-----------------------------------------------------------------------------
(* A shard. *)

\* HandleMsgOutsideShard: AddTxs.
HandleReceiveTxs(s, m) ==
  /\ ~closed[s] /\ m.to = s
  /\ txMsgs' = txMsgs \ {m}
  /\ pool' = [pool EXCEPT ![s] = AddTxs(@, m.txs)]
  /\ UNCHANGED <<supVars, proposal, balance, infos, closed, lost, executed, dropped>>

\* modifyTxRelayOpt: transactions of another shard's sender are dropped, and
\* cross-shard transactions become relay1 transactions.
ModifyTxRelayOpt(s, txs) ==
  LET here   == {i \in DOMAIN txs : txs[i].stage # "undetermined" \/ Home[txs[i].from] = s}
      marked == [i \in DOMAIN txs |->
                   IF txs[i].stage = "undetermined" /\ Home[txs[i].to] # s
                   THEN [txs[i] EXCEPT !.stage = "relay1"] ELSE txs[i]]
  IN  Selected(marked, here)

\* GenerateBlock fails when the block cannot be executed on the current state.
Preview(s, txs) == Execute(s, txs).ok

\* propose with BuildProposal: PackTxs, and a block of what was packed. When it
\* cannot be generated the packed transactions are gone.
BuildProposal(s) ==
  LET n == PackEnd(pool[s], BlockSizeLimit)
  IN  /\ ~closed[s]
      /\ proposal[s] = {}
      /\ pool' = [pool EXCEPT ![s] = Rest(@, n)]
      /\ \E txs \in {ModifyTxRelayOpt(s, SubSeq(pool[s], 1, n))} :
           \/ /\ Preview(s, txs)
              /\ proposal' = [proposal EXCEPT ![s] = {txs}]
              /\ UNCHANGED dropped
           \/ /\ ~Preview(s, txs)
              /\ dropped' = dropped \cup ToSet(txs)
              /\ UNCHANGED proposal
      /\ UNCHANGED <<supVars, balance, txMsgs, infos, closed, lost, executed>>

\* Whether a block of s debits the sender, or credits the recipient, of t.
DebitedBy(s, t) == t.stage = "undetermined" \/ (t.stage = "relay1" /\ Home[t.from] = s)
CreditedBy(s, t) == t.stage = "undetermined" \/ (t.stage = "relay2" /\ Home[t.to] = s)

\* How often the transactions of a block with this id pass the test.
Count(txs, id, Test(_)) == Cardinality({i \in DOMAIN txs : txs[i].id = id /\ Test(txs[i])})

\* A mutated RelayDest: the relayed transaction goes to the sender's shard.
RelayDest_sender(t) == Home[t.from]

\* The shard sendRelayedTxs sends a relay1 transaction to.
RelayDest(t) == Home[t.to]

\* sendRelayedTxs: the relay1 transactions go on as relay2 transactions.
RelayedTxs(txs) ==
  LET relayed == [i \in DOMAIN txs |-> [txs[i] EXCEPT !.stage = "relay2"]]
  IN  Selected(relayed, {i \in DOMAIN txs : txs[i].stage = "relay1"})

\* BlockCommitAndDeliver of the leader: AddBlock, the block info, the relays.
BlockCommitAndDeliver(s) ==
  /\ ~closed[s]
  /\ \E txs \in proposal[s] :
       LET kind == IF txs = <<>> THEN "empty" ELSE "txs"
       IN  /\ infos[kind] < MaxInfo
           /\ Execute(s, txs).ok
           /\ balance' = [balance EXCEPT ![s] = DeleteEmpty(Execute(s, txs).balance)]
           /\ infos' = [infos EXCEPT ![kind] = @ + 1]
           /\ txMsgs' = txMsgs \cup
                TxMsgsFor(RelayedTxs(txs), [t \in ToSet(RelayedTxs(txs)) |-> RelayDest(t)])
           /\ executed' = [t \in TxId |->
                [debit  |-> executed[t].debit + Count(txs, t, LAMBDA x : DebitedBy(s, x)),
                 credit |-> executed[t].credit + Count(txs, t, LAMBDA x : CreditedBy(s, x))]]
  /\ proposal' = [proposal EXCEPT ![s] = {}]
  /\ UNCHANGED <<supVars, pool, closed, lost, dropped>>

\* The stop message has reached the leader, and its run loop ends after the
\* tick that handled it.
HandleStop(s) ==
  /\ supPc = "stopped" /\ ~closed[s]
  /\ closed' = [closed EXCEPT ![s] = TRUE]
  /\ UNCHANGED <<supVars, pool, proposal, balance, txMsgs, infos, lost, executed, dropped>>

\* The network loses a message: a failed send is only logged.
LoseTxs(m) ==
  /\ lost < MaxLost
  /\ lost' = lost + 1
  /\ txMsgs' = txMsgs \ {m}
  /\ dropped' = dropped \cup ToSet(m.txs)
  /\ UNCHANGED <<supVars, pool, proposal, balance, infos, closed, executed>>

Supervisor ==
  \/ SupCheck \/ DrainEnd \/ ReadTxsAndSend
  \/ \E k \in InfoKind : HandleBlockInfo(k)

ShardStep(s) ==
  \/ \E m \in txMsgs : HandleReceiveTxs(s, m)
  \/ BuildProposal(s)
  \/ BlockCommitAndDeliver(s)
  \/ HandleStop(s)

Next ==
  \/ Supervisor
  \/ \E s \in Shard : ShardStep(s)
  \/ \E m \in txMsgs : LoseTxs(m)

Spec == Init /\ [][Next]_vars

\* The supervisor and every leader keep ticking, every leader handles what it
\* receives, proposes again after every block interval and, with module PBFT,
\* ends every round.
Fairness ==
  /\ WF_vars(SupCheck) /\ WF_vars(DrainEnd) /\ WF_vars(ReadTxsAndSend)
  /\ \A k \in InfoKind : SF_vars(HandleBlockInfo(k))
  /\ \A s \in Shard : /\ WF_vars(\E m \in txMsgs : HandleReceiveTxs(s, m))
                      /\ WF_vars(BuildProposal(s))
                      /\ SF_vars(BlockCommitAndDeliver(s))
                      /\ WF_vars(HandleStop(s))

FairSpec == Spec /\ Fairness

-----------------------------------------------------------------------------
(* Properties. *)

\* What an account is worth at home: an account that does not exist yet has
\* its initial balance.
Worth(a) ==
  IF balance[Home[a]][a] = Absent THEN NormalInitBalance ELSE balance[Home[a]][a]

\* The value of the relay2 transactions of a list.
Relayed(txs) ==
  SumFunction([i \in {j \in DOMAIN txs : txs[j].stage = "relay2"} |-> txs[i].value])

\* All the money of the system: on the accounts, and in the relay2 transactions
\* that travel, wait in a pool or are in an uncommitted block.
Money ==
  SumFunction([a \in Account |-> Worth(a)])
  + SumFunction([m \in txMsgs |-> Relayed(m.txs)])
  + SumFunction([s \in Shard |-> Relayed(pool[s])])
  + SumFunction([s \in Shard |-> SumFunction([b \in proposal[s] |-> Relayed(b)])])

\* The money of the relay2 transactions that are gone for good.
Burnt == SumFunction([t \in {d \in dropped : d.stage = "relay2"} |-> t.value])

\* A relay debits in one shard and credits in another, many steps later: at
\* every moment in between the money is in exactly one relay2 transaction. Only
\* what a lost message or a failed block takes with it disappears, and nothing
\* creates money.
MoneyConserved == Money + Burnt = Cardinality(Account) * NormalInitBalance

\* The value the committed transactions have taken from, or given to, account a.
Spent(a) ==
  SumFunction([i \in {j \in DOMAIN Source : Source[j].from = a} |->
           executed[Source[i].id].debit * Source[i].value])
Received(a) ==
  SumFunction([i \in {j \in DOMAIN Source : Source[j].to = a} |->
           executed[Source[i].id].credit * Source[i].value])

\* Nobody spends more than the initial balance and what was received: a
\* transfer without the balance fails (txexecute.go, CanTransfer), and an
\* account is initialised once.
NoOverdraft ==
  \A a \in Account : Spent(a) <= NormalInitBalance + Received(a)

\* A transaction debits at most once and credits at most once, and never
\* before it has debited, in whichever order messages arrive.
CreditAfterDebit ==
  \A t \in TxId : executed[t].credit <= executed[t].debit /\ executed[t].debit <= 1

\* A proposed block keeps to the limit it was packed with (txpool.go: "The size
\* of transactions will be limited by the given parameter 'limit'").
LimitRespected ==
  \A s \in Shard : \A txs \in proposal[s] : TxListSize(PoolType, txs) <= BlockSizeLimit

\* Every transaction of the source is injected, relayed and credited unless it
\* was dropped, or the supervisor has stopped the system: relays may then still
\* be under way. With a source shorter than tx_number it never stops.
EveryTxCompletes ==
  <>(\/ supPc = "stopped"
     \/ \A t \in TxId : executed[t].credit = 1 \/ \E d \in dropped : d.id = t)

\* The supervisor stops once tx_number transactions are injected and only empty
\* blocks come, and then every leader does.
StopsEventually ==
  unsent + read <= Len(Source) ~> \A s \in Shard : closed[s]
=============================================================================
