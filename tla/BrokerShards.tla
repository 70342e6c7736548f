---------------------------- MODULE BrokerShards ----------------------------
(***************************************************************************)
(* Static broker sharding: the supervisor splits a cross-shard payment     *)
(* into two inner-shard ones through a broker that has money in both       *)
(* shards (committee/staticbroker.go, pkg/broker/broker.go), keeps books   *)
(* of what the brokers have, and falls back to a relay when no broker can  *)
(* pay; the shards execute (txblockop/brokertxblockop.go, txexecute.go).   *)
(*                                                                         *)
(* A shard is its leader.  Its state changes only when a block commits, so *)
(* building and committing a block is one step.  Ordinary senders can pay, *)
(* so that no block fails when it is built; a balance is the difference to *)
(* the initial balance.  The shards are not stopped: what they do after    *)
(* the supervisor's loop has ended is allowed.                             *)
(***************************************************************************)
EXTENDS Integers, Sequences, FiniteSets, FiniteSetsExt

CONSTANTS
  Shard,             \* shard IDs
  Account,           \* ordinary accounts
  Broker,            \* broker accounts
  Home,              \* DefaultAccountLoc of accounts and brokers
  Pay,               \* the transaction source: a sequence of [from, to, value]
  TxInjectionSpeed,  \* tx_injection_speed
  BlockSizeLimit,    \* block_size_limit
  BrokerInit,        \* brokerInitBalance, in every shard
  StopThreshold,     \* stopThreshold
  MaxInfo,           \* bound: infos of empty blocks under way
  MaxLost            \* bound: messages lost

ASSUME BrokerAssumption ==
  /\ IsFiniteSet(Broker) /\ IsFiniteSet(Shard) /\ Shard # {}
  /\ Home \in [Account \cup Broker -> Shard]
  /\ Pay \in Seq([from : Account \cup Broker, to : Account \cup Broker, value : Nat])
  /\ TxInjectionSpeed \in Nat \ {0} /\ BlockSizeLimit \in Nat \ {0}
  /\ BrokerInit \in Nat \ {0} /\ StopThreshold \in Nat \ {0}
  /\ MaxInfo \in Nat \ {0} /\ MaxLost \in Nat

VARIABLES
  read,     \* transactions read from the source
  books,    \* brokerBalances[b][s]
  pending,  \* pendingDeductions[b][s]
  via,      \* the broker of a payment: {} or {b}
  stage,    \* confirmStage of a recorded payment; "none" when not recorded
  ready2,   \* readyBroker2TxHashes
  stopCnt,  \* sl.stopCnt
  stopped,  \* the loop of the supervisor has ended
  pool,     \* pool of a leader
  balance,  \* state trie of a shard, balance[s][x]
  txMsgs,   \* ReceiveTxsMsg under way
  infos,    \* BrokerBlockInfoMsg of blocks with transactions under way
  empties,  \* number of those of empty blocks
  lost,     \* number of messages lost
  done      \* history: how often a payment debited and credited

supVars == <<read, books, pending, via, stage, ready2, stopCnt, stopped>>
vars == <<supVars, pool, balance, txMsgs, infos, empties, lost, done>>

-----------------------------------------------------------------------------

TxId == DOMAIN Pay
Holder == Account \cup Broker

\* A transaction under way. The broker it carries is the one in via.
Tx == [id : TxId, kind : {"inner", "sigma1", "sigma2", "relay1", "relay2"}]

Value(i)    == Pay[i].value
SrcShard(i) == Home[Pay[i].from]
DstShard(i) == Home[Pay[i].to]

\* The value of all payments of a set.
Total(S) == MapThenSumSet(Value, S)

TypeOK ==
  /\ read \in 0 .. Len(Pay)
  /\ DOMAIN books = Broker
  /\ pending \in [Broker -> [Shard -> Nat]]
  /\ via \in [TxId -> SUBSET Broker]
  /\ stage \in [TxId -> {"none", "wait1", "wait2"}]
  /\ ready2 \subseteq TxId
  /\ stopCnt \in 0 .. StopThreshold /\ stopped \in BOOLEAN
  /\ pool \in [Shard -> SUBSET Tx]
  /\ \A m \in txMsgs : m.to \in Shard /\ m.txs \subseteq Tx
  /\ \A m \in infos : m.shard \in Shard /\ m.txs \subseteq Tx
  /\ empties \in 0 .. MaxInfo /\ lost \in 0 .. MaxLost

Init ==
  /\ read = 0
  /\ books = [b \in Broker |-> [s \in Shard |-> BrokerInit]]
  /\ pending = [b \in Broker |-> [s \in Shard |-> 0]]
  /\ via = [i \in TxId |-> {}]
  /\ stage = [i \in TxId |-> "none"]
  /\ ready2 = {}
  /\ stopCnt = 0 /\ stopped = FALSE
  /\ pool = [s \in Shard |-> {}]
  /\ balance = [s \in Shard |-> [x \in Holder |-> 0]]
  /\ txMsgs = {} /\ infos = {} /\ empties = 0 /\ lost = 0
  /\ done = [i \in TxId |-> [debit |-> 0, credit |-> 0]]

-----------------------------------------------------------------------------
(* The supervisor: readTxsAndSend. *)

\* classifyTxs: a payment that needs a broker.
Cross(i) == SrcShard(i) # DstShard(i) /\ {Pay[i].from, Pay[i].to} \cap Broker = {}

\* The payments of this tick that broker b has been given before payment i.
Given(f, b, i) == {j \in DOMAIN f : j < i /\ f[j] = {b} /\ DstShard(j) = DstShard(i)}

\* A mutated Available: what was promised and not paid yet is left out.
Available_noPending(f, b, i) == books[b][DstShard(i)] - Total(Given(f, b, i))

\* What broker b can still promise in the shard of the recipient.
Available(f, b, i) ==
  books[b][DstShard(i)] - pending[b][DstShard(i)] - Total(Given(f, b, i))

\* The ways to give brokers to the cross-shard payments S, in their order: any
\* broker that has enough (the list is shuffled), or none when none has.
Assignments(S) ==
  {f \in [S -> {{}} \cup {{b} : b \in Broker}] :
     \A i \in S : IF f[i] = {} THEN \A b \in Broker : Available(f, b, i) < Value(i)
                  ELSE \A b \in f[i] : Available(f, b, i) >= Value(i)}

\* A mutated TxLoc: every transaction goes to the sender's shard.
TxLoc_sender(t) == SrcShard(t.id)

\* getTxLoc
TxLoc(t) == IF t.kind \in {"sigma2", "relay2"} THEN DstShard(t.id) ELSE SrcShard(t.id)

\* SendWrappedTxs2Shards: one message to every shard that gets transactions.
TxMsgsFor(txs) ==
  {m \in {[to |-> s, txs |-> {t \in txs : TxLoc(t) = s}] : s \in Shard} : m.txs # {}}

\* IsFinished of the manager, after the tick's CreateBrokerTxs.
IsFinished(st) == \A i \in TxId : st[i] = "none"

\* A mutated ShouldStop: the brokers are not asked.
ShouldStop_counter(st) == stopCnt >= StopThreshold

ShouldStop(st) == stopCnt >= StopThreshold /\ IsFinished(st)

\* A mutated Ready2Left: the list is not cleared.
Ready2Left_keep == ready2

\* CreateBrokerTxs clears the list of confirmed payments.
Ready2Left == {}

\* SendTxsAndConsensus, and the stop check the next tick starts with. CreateRawTx
\* records a payment, and CreateBrokerTxs makes its broker1 transaction in the
\* same call; broker2 transactions are made for the confirmed ones.
SupTick ==
  /\ ~stopped
  /\ LET size  == Min({TxInjectionSpeed, Len(Pay) - read})
         new   == read + 1 .. read + size
         cross == {i \in new : Cross(i)}
     IN  \E f \in Assignments(cross) :
           LET brokered == {i \in cross : f[i] # {}}
               txs == {[id |-> i, kind |-> "inner"] : i \in new \ cross}
                      \cup {[id |-> i, kind |-> "relay1"] : i \in cross \ brokered}
                      \cup {[id |-> i, kind |-> "sigma1"] : i \in brokered}
                      \cup {[id |-> i, kind |-> "sigma2"] :
                                i \in {j \in ready2 : stage[j] = "wait2"}}
           IN  /\ read' = read + size
               /\ via' = [i \in TxId |-> IF i \in brokered THEN f[i] ELSE via[i]]
               /\ stage' = [i \in TxId |-> IF i \in brokered THEN "wait1" ELSE stage[i]]
               /\ pending' = [b \in Broker |-> [s \in Shard |-> pending[b][s] +
                    Total({i \in brokered : f[i] = {b} /\ DstShard(i) = s})]]
               /\ txMsgs' = txMsgs \cup TxMsgsFor(txs)
  /\ ready2' = Ready2Left
  /\ stopped' = ShouldStop(stage')
  /\ UNCHANGED <<books, stopCnt, pool, balance, infos, empties, lost, done>>

-----------------------------------------------------------------------------
(* The supervisor: HandleMsg. *)

\* The payments of this kind and broker in a block info.
Of(m, kind, b) == {t.id : t \in {x \in m.txs : x.kind = kind /\ via[x.id] = {b}}}

\* ConfirmBrokerTx succeeds for the payments that wait for this confirmation.
Confirmed(m, kind) ==
  {i \in {t.id : t \in {x \in m.txs : x.kind = kind}} :
     stage[i] = IF kind = "sigma1" THEN "wait1" ELSE "wait2"}

\* A mutated Paid: the money a broker receives is forgotten.
Paid_noCredit(m, b) == - Total(Of(m, "sigma2", b) \cap Confirmed(m, "sigma2"))

\* What a block has done to broker b, for the books.
Paid(m, b) == Total(Of(m, "sigma1", b) \cap Confirmed(m, "sigma1"))
              - Total(Of(m, "sigma2", b) \cap Confirmed(m, "sigma2"))

\* A mutated Cleared: the promise stays.
Cleared_never(m, b) == pending[b][m.shard]

\* The pending deduction after a block, not below 0.
Cleared(m, b) ==
  Max({0, pending[b][m.shard] - Total(Of(m, "sigma2", b) \cap Confirmed(m, "sigma2"))})

\* The info of a block with transactions.
HandleBlockInfo(m) ==
  /\ ~stopped
  /\ infos' = infos \ {m}
  /\ stopCnt' = IF read = Len(Pay) THEN 0 ELSE stopCnt
  /\ books' = [b \in Broker |-> [books[b] EXCEPT ![m.shard] = @ + Paid(m, b)]]
  /\ pending' = [b \in Broker |-> [pending[b] EXCEPT ![m.shard] = Cleared(m, b)]]
  /\ stage' = [i \in TxId |-> CASE i \in Confirmed(m, "sigma1") -> "wait2"
                                [] i \in Confirmed(m, "sigma2") -> "none"
                                [] OTHER -> stage[i]]
  /\ ready2' = ready2 \cup Confirmed(m, "sigma1")
  /\ UNCHANGED <<read, via, stopped, pool, balance, txMsgs, empties, lost, done>>

\* The info of an empty block. stopCnt counts up to StopThreshold.
HandleEmptyInfo ==
  /\ ~stopped
  /\ empties > 0
  /\ empties' = empties - 1
  /\ stopCnt' = IF read = Len(Pay) THEN Min({StopThreshold, stopCnt + 1}) ELSE stopCnt
  /\ UNCHANGED <<read, books, pending, via, stage, ready2, stopped, pool, balance, txMsgs,
                 infos, lost, done>>

-----------------------------------------------------------------------------
(* A shard. *)

HandleReceiveTxs(s, m) ==
  /\ m.to = s
  /\ txMsgs' = txMsgs \ {m}
  /\ pool' = [pool EXCEPT ![s] = @ \cup m.txs]
  /\ UNCHANGED <<supVars, balance, infos, empties, lost, done>>

\* Who transaction t takes the money from, and who it gives it to, in the state
\* of shard s: normalTxExecute, relayTxExecute and brokerTxExecute. The last two
\* skip a transaction of another shard.
Payers(s, t) ==
  CASE t.kind = "inner" -> {Pay[t.id].from}
    [] t.kind \in {"sigma1", "relay1"} -> IF SrcShard(t.id) = s THEN {Pay[t.id].from} ELSE {}
    [] t.kind = "sigma2" -> IF DstShard(t.id) = s THEN via[t.id] ELSE {}
    [] t.kind = "relay2" -> {}
Receivers(s, t) ==
  CASE t.kind = "inner" -> {Pay[t.id].to}
    [] t.kind \in {"sigma2", "relay2"} -> IF DstShard(t.id) = s THEN {Pay[t.id].to} ELSE {}
    [] t.kind = "sigma1" -> IF SrcShard(t.id) = s THEN via[t.id] ELSE {}
    [] t.kind = "relay1" -> {}

\* What the transactions of a block of s do to the balance of x.
Change(s, x, txs) ==
  Total({t.id : t \in {u \in txs : x \in Receivers(s, u)}})
  - Total({t.id : t \in {u \in txs : x \in Payers(s, u)}})

\* Committing deletes an empty account, and its next use initialises it again.
AfterCommit(x, v) == IF x \in Broker /\ v = 0 - BrokerInit THEN 0 ELSE v

\* BuildTxBlockProposal and BlockCommitAndDeliver for transactions of the pool.
\* Without transactions only the info of an empty block is sent.
CommitBlock(s) ==
  \E T \in SUBSET pool[s] :
    /\ Cardinality(T) = Min({BlockSizeLimit, Cardinality(pool[s])})
    /\ pool' = [pool EXCEPT ![s] = @ \ T]
    /\ balance' = [balance EXCEPT ![s] =
         [x \in Holder |-> AfterCommit(x, @[x] + Change(s, x, T))]]
    /\ \/ T # {} /\ infos' = infos \cup {[shard |-> s, txs |-> T]} /\ UNCHANGED empties
       \/ T = {} /\ empties < MaxInfo /\ empties' = empties + 1 /\ UNCHANGED infos
    /\ txMsgs' = txMsgs \cup
         TxMsgsFor({[id |-> t.id, kind |-> "relay2"] : t \in {u \in T : u.kind = "relay1"}})
    /\ done' = [i \in TxId |->
         LET debits  == {t \in T : t.id = i /\ Pay[i].from \in Payers(s, t)}
             credits == {t \in T : t.id = i /\ Pay[i].to \in Receivers(s, t)}
         IN  [debit  |-> done[i].debit + Cardinality(debits),
              credit |-> done[i].credit + Cardinality(credits)]]
    /\ UNCHANGED <<supVars, lost>>

\* A failed send is only logged.
LoseTxs(m) ==
  /\ lost < MaxLost
  /\ lost' = lost + 1
  /\ txMsgs' = txMsgs \ {m}
  /\ UNCHANGED <<supVars, pool, balance, infos, empties, done>>

LoseInfo(m) ==
  /\ lost < MaxLost
  /\ lost' = lost + 1
  /\ infos' = infos \ {m}
  /\ UNCHANGED <<supVars, pool, balance, txMsgs, empties, done>>

Next ==
  \/ SupTick \/ HandleEmptyInfo
  \/ \E m \in infos : HandleBlockInfo(m) \/ LoseInfo(m)
  \/ \E s \in Shard : CommitBlock(s) \/ \E m \in txMsgs : HandleReceiveTxs(s, m)
  \/ \E m \in txMsgs : LoseTxs(m)

Spec == Init /\ [][Next]_vars

\* Everybody keeps ticking and handles what it gets, and rounds end (PBFT).
\* The pool is a queue, so a transaction in it is packed in the end.
Fairness ==
  /\ WF_vars(SupTick) /\ SF_vars(HandleEmptyInfo)
  /\ WF_vars(\E m \in infos : HandleBlockInfo(m))
  /\ \A s \in Shard : /\ WF_vars(\E m \in txMsgs : HandleReceiveTxs(s, m))
                      /\ SF_vars(CommitBlock(s))

FairSpec == Spec /\ Fairness

-----------------------------------------------------------------------------
(* Properties. *)

\* The payments of this kind and broker in the block infos of s under way.
InInfos(kind, b, s) == UNION {Of(m, kind, b) : m \in {x \in infos : x.shard = s}}

\* What these infos will add to the books.
Unreported(b, s) == Total(InInfos("sigma1", b, s)) - Total(InInfos("sigma2", b, s))

\* What broker b has in shard s beyond the books, the infos under way included.
Surplus(b, s) == BrokerInit + balance[s][b] - books[b][s] - Unreported(b, s)

\* When no info is lost the books follow the state tries (staticbroker.go:
\* "brokerBalances records the balances of brokers in each shard"): they never
\* show more than a broker has, and less only by the initial balances a broker
\* got again after it was left with nothing in a shard (AfterCommit). This needs
\* that no broker is the sender or recipient of a payment of the source.
BooksAgree ==
  lost = 0 => \A b \in Broker, s \in Shard :
                Surplus(b, s) >= 0 /\ Surplus(b, s) % BrokerInit = 0

\* A broker can always pay what was promised: brokerTxExecute subtracts from
\* the unsigned balance of the broker without a check.
BrokerCanPay == \A b \in Broker, s \in Shard : BrokerInit + balance[s][b] >= 0

\* The pending deductions are the promises not known to be paid: none leaks,
\* and none is cleared twice.
PendingIsPromised ==
  \A b \in Broker, s \in Shard :
    pending[b][s] = Total({i \in TxId : via[i] = {b} /\ stage[i] # "none" /\ DstShard(i) = s})

\* A payment is debited at most once and credited at most once, and never
\* before the debit, through a broker as through a relay.
PaidOnce == \A i \in TxId : done[i].credit <= done[i].debit /\ done[i].debit <= 1

\* The supervisor does not stop while a payment is with a broker, although it
\* only counts empty blocks and block infos overtake each other.
StopAfterBrokers ==
  stopped => \A i \in TxId : via[i] # {} => done[i].debit = 1 /\ done[i].credit = 1

\* When nothing is lost the supervisor stops, and every payment it gave to a
\* broker has been debited and credited.
PaymentsComplete ==
  <>(\/ lost > 0
     \/ /\ stopped
        /\ \A i \in TxId : via[i] # {} => done[i] = [debit |-> 1, credit |-> 1])
=============================================================================
