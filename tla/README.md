# TLA+ models of BlockEmulator-X

BlockEmulator-X runs a sharded blockchain: one *supervisor* injects transactions and
decides when to stop or to move accounts; every shard is a group of *consensus nodes* that
agree on blocks with PBFT, execute them and pass cross-shard payments on. This directory
models that protocol in TLA+, checks it with TLC and proves the safety of its parts with TLAPS.

- [1. The system](#1-the-system)
- [2. Modules and how they follow the code](#2-modules-and-how-they-follow-the-code)
- [3. Runs](#3-runs)
- [4. Proofs](#4-proofs)
- [5. What the models found](#5-what-the-models-found)
- [6. What is not modelled, and what is left to prove](#6-what-is-not-modelled-and-what-is-left-to-prove)

## 1. The system

### Components, state and operations

| Component | State | Operations |
| --- | --- | --- |
| PBFT of a shard (`consensus/pbft/node.go`, `pbftmeta.go`, `basicstructs`) | stage, view and sequence number, current proposal, two vote sets, message pool, latest proposal seen, catch-up flag, closed flag | one tick: drain the buffer through the handlers, `curateMsg`, `step2NextStage`, then `propose` (leader) or `catchUpStart` (follower) |
| Chain of a node (`pkg/chain`) | current header, block storage, location trie, state trie, epoch | `GenerateBlock`, `AddBlock`, `ValidateBlock`, `GetBlocksAfterHeight`, `UpdateEpoch` |
| Transaction pool (`pkg/core/txpool/queue`) | a queue behind a mutex | `AddTxs`, `PackTxs` by number or by bytes |
| Relay blocks (`txblockop/relaytxblockop.go`, `insideop/staticshardop.go`) | - | build a block (mark relay1 transactions), commit it, report it, send relay2 transactions |
| Broker blocks (`txblockop/brokertxblockop.go`) | - | the same for broker1 / broker2 and relay transactions |
| Migration (`migration/migration.go`, `migrationblockop.go`, `insideop/dynamicshardop.go`, `outsideop/clpaloc.go`) | epoch, moved accounts, collected states, early state messages, ready flag | start of an epoch, collect states, send states and transactions away, migration block, reset |
| Supervisor (`supervisor/supervisor.go`) | - | one tick: stop check, drain through `HandleMsg`, `SendTxsAndConsensus`; at the end the stop broadcast |
| Committees (`supervisor/committee`) | transactions left, stop counter; CLPA: epochs of the shards; broker: books and promises | `HandleMsg`, `ShouldStop`, `readTxsAndSend`, `repartition` |
| Broker manager (`pkg/broker`) | unconfirmed payments with their stage, two ready lists | `CreateRawTx`, `CreateBrokerTxs`, `ConfirmBrokerTx`, `IsFinished` |
| CLPA (`pkg/partition`) | graph of accounts | `AddEdge`, `CLPAPartition` |
| Measurement (`supervisor/measure`) | open life cycles of transactions, counters and latencies per epoch, the detail file | `UpdateMeasureRecord` for every block info, in a goroutine of its own; the output when the supervisor has stopped |
| Network (`pkg/network`) | a bounded buffer per process | send (a failure is only logged), broadcast in parallel, drain |
| Bootstrap (`connlibp2p/bootstrap.go`, `nodetopo/topogetter.go`) | the map from nodes to peer IDs, the topology, a flag for news | a goroutine per registration; a throttled broadcast of the map |
| Storage, VM, contracts, sources, commands | - | see section 6 |

### How they interact

Every process is one goroutine that ticks; messages wait in a buffer between ticks. The
supervisor sends `ReceiveTxsMsg` to the leaders, the leaders send block infos back; leaders
send relay2 transactions, foreign transactions and the states of moved accounts to each
other, and in broker mode transfers that a move has separated back to the supervisor; the
supervisor sends `CLPARepartitionStartMsg` and, at the end, the stop message. Before all that
the nodes of a libp2p network register with the supervisor, which tells them of each other. In
a shard the leader is node 0 for ever: there is no view change.

### What is hard

- *Order and loss*: sends run in parallel, libp2p reads every message in a goroutine of its
  own, a failed send is logged and forgotten, a full buffer refuses messages.
- *Catch-up*: a lagging node goes on voting while it waits for blocks from the leader.
- *Two-step payments*: debit and credit are in different shards and blocks.
- *Epoch change*: shards change the location of accounts at different times.
- *Stopping*: by counting empty blocks of shards that know nothing of each other.
- *Measuring*: the halves of a payment are reported by two shards, in either order and from
  different epochs.
- *Registering*: goroutines that share a map, partly without its mutex.

`PROJECT.json` lists these hazards one by one, each at its line, with the properties that
would catch it going wrong.

### What makes each component correct

- Consensus: all nodes store the same chain, every block has its quorum, nobody votes
  twice, chain and sequence number move together, rounds end, a lagging node catches up.
- Pool: first in, first out; a block keeps to the limit.
- Relay: money is in one place at every moment, each half is executed once and in its shard.
- Migration: one shard serves an account, with all that has happened to it; a transaction
  is in one place and is executed once however often it is sent on; a repartition ends, and
  every payment is made.
- Brokers: the books follow the chain, promises are covered, payments happen once, the
  supervisor waits for the brokers.
- Measurement: the records agree with the chains, and the results are complete when written.
- Bootstrap: no registration is forgotten, the topology follows the map, the maps converge.

## 2. Modules and how they follow the code

```
ReplicatedChain <--(implements)-- PBFT <-- MCPBFT
       (each shard is one leader: justified by PBFT)

  TxPool           BrokerShards           Repartition              Bootstrap
    |                   |                 /         \                  |
  RelayShards      BrokerStats      CLPARelay    CLPABroker        MCBootstrap
    |                   |               |             |
  MCRelayShards    MCBrokerShards   RelayStats   MCCLPABroker
                                        |
                                   MCCLPARelay
```

Lines are EXTENDS, downwards. The `MC*` modules only define values for constants (accounts,
sources, sizes). The theorems about a module `X` are in `XProofs` (PBFT, Bootstrap,
RelayShards, Repartition, CLPARelay with RelayStats, CLPABroker, BrokerShards with BrokerStats);
`SetSums` has the lemmas about sums that the proofs about money and about the measurements
share. `PROJECT.json` maps every definition to the lines it stands for. Operators named `X_word`
just before `X` are mutated forms of `X`, used to see that a property can fail; nothing
else refers to them.

### PBFT

One tick of `run` is split into phases (`pc`): *drain* (handlers), *step* (`curateMsg`
enters it, then one action per stage), *act* (`propose` or `catchUpStart`). The order inside a tick is
the code's; nodes interleave between the phases.

- The three vote handlers commute, so a drain takes all votes that are certainly in the
  buffer in one step (`Batches`), and each delayed one in a step of its own. A message that
  arrives while the drain runs may be taken by this tick or the next; the buffer snapshot
  of `DrainMsgBuffer` is one of these choices.
- `Delayed` names the message types that a later message can overtake. The code justifies
  all of them; smaller sets make longer runs checkable. The proofs are for any set.
- A block's hash stands for the block, and `Payload` tells apart two blocks of a height.
  The genesis block has number 1, so round `seq` decides the block of height `seq + 2`.
- `ValidateBlock` recomputes roots from the body only, so it accepts every block an honest
  leader builds and is no guard here.
- The `NodeID` of a preprepare is never set by the code. It is 0, the leader's ID.
- `AddBlock` checks neither parent nor number. It executes a block on the state of the
  current header. The next block succeeds; a block the node has executed before may fail,
  because a sender in it may not be able to pay twice, and the model allows both outcomes
  (`CatchupMayFail`). The blocks of a response follow each other, so only the first can fail.
  With `ReplayMayFail = FALSE` none does, which is the case when all senders have enough.
- `GetBlocksAfterHeight` follows the parent hashes down from the header. In a storage without
  holes and with one block per height (both proved) it finds the blocks by height.
- A tick that changes nothing is a stuttering step (`TickUseful`).
- Byzantine nodes are not modelled: the code verifies no signatures. Nodes in `Down` never run.

`ReplicatedChain` is the promise: a set of decided blocks, at most one per height and never
taken back, and heads that only move along it. The refinement maps the union of all storages to the
decided blocks and the current headers to the heads.

### TxPool

Operators on the queue of a leader: where `PackTxs` cuts it and how `GetTxListSize` measures.
`ByteEnd` follows the loop of `packTxsByGivenBytes` as it is. `RelayShards` uses them, with
`PoolType` as the configuration chooses.

### RelayShards

The supervisor loop with the static relay committee, and the leaders. Balances are real
numbers of coins: an absent account is `Absent`, `WithInit` initialises it at its first use,
a failing transaction fails its block (`Execute`), and `DeleteEmpty` is the commit of the
state that removes empty accounts. `BuildProposal` packs, marks and previews in one step:
when the preview fails the packed transactions are gone. Building and committing are
separate steps, as a round of consensus is between them. After the stop message a leader may
finish the tick it is in; `closed` is set at its end.

### Repartition, CLPARelay and CLPABroker

`Repartition` is what both dynamic modes share: the epochs of the supervisor, the migration
metadata of the leaders and the exchange of states. A balance is the difference to the
initial balance and each payment moves 1, which is enough to see a state that is lost, stale
or duplicated: `ledger` is what all blocks have done to an account. `CLPAPartition` may move
any set of accounts. The order of the pool is left open (any subset that
`packValidTxsInRelay` could take in some order), which includes the queue's.

`CLPARelay` adds injection, relays and the migration of pooled transactions in relay mode.
Injected transactions are not the last ones, so the stop logic does not move here.

`CLPABroker` adds the broker manager (`confirmStage` and the two ready lists), the transfers
that a migration separates (`Separated`, by the location trie when a block is packed and by
`CurModifiedMap` when the pool is migrated) with their way back to the supervisor
(`againMsgs`), and the stop logic. Which broker makes a payment decides nothing: this
committee keeps no books. `Recorded` is `CreateRawTxsRandomBroker`, whose loop ends at a
payment that is recorded already. `MayStop = FALSE` leaves out the end of the supervisor's
loop, for the properties about what happens while it goes on.

### RelayStats and BrokerStats

The measurements beside the systems they measure. The supervisor puts each message into a
channel before its committee handles it, and waits for the measure routine before it writes
the results. Nothing else reads the records, so measuring and handling a message are one
step (`MeasureAndHandle`). A life cycle is the set of halves on file; times are left out, and
a sum of latencies is the number of latencies in it.

### BrokerShards

The static broker committee, the broker manager and the leaders. A shard changes its state
only at a commit, so building and committing a block are one step. `via` and `stage` are the
manager's `unconfirmedTxInfo`; broker1 transactions are made in the tick that records the
payment, broker2 transactions in the tick after the confirmation. `Assignments` gives the
payments of a tick to brokers in their order, to any broker with enough (the list is
shuffled), and to a relay when none has enough. The stop check of a tick is at the end of
the previous one: nothing of the supervisor changes in between.

### Bootstrap

The nodes in `initLibP2PConnect` (`client`), one handler per attempt to register
(`handler`, a program counter through `handleRegisterStream`) and `throttledSender` with its
broadcast (`sender`). A map is the set of the nodes in it. `Store` holds the mutex of the
map; `SetTopoGetter`, `printRegisteredNodes` and the encoding of the broadcast read the map
without it. Such a read has a start and an end: a node stored in between may or may not be
read (`MayHaveRead`), or the Go runtime ends the process (`crashed`). The channel to the sender
has no buffer, so a handler waits while the sender broadcasts. A broadcast is refused by a
node that has connected but not set its stream handler. Faults are an attempt to register that
fails before or after the bootstrap has the message, a failed send, and a broadcast that a
later one overtakes.

## 3. Runs

Every run finishes within four minutes on two cores. "States" are distinct states.

| Run | Instance | States | Checks |
| --- | --- | --- | --- |
| pbft_chain | 2 nodes, 3 rounds, 2 payloads, threshold 1, fetch limit 2, any one message lost | 1.5M | TypeOK, Agreement, NoEquivocation, HeadTracksSeq, LeaderNotBehind, RoundHasProposal, NoGap, ImplementsChain |
| pbft_quorum | 4 nodes, 1 down, 2 rounds, late proposals | 290k | QuorumCertified, EveryRoundCompletes |
| pbft_progress | 2 nodes, 4 rounds, one proposal lost, executing a block again does not fail, stop in the first two rounds of the leader | 228k | BehindCatchesUp, StopCloses |
| relay_payments | 2 shards, 3 accounts, 3 payments, a sender who cannot always pay, one loss, tx_number 3 or 4 | 73k | MoneyConserved, NoOverdraft, CreditAfterDebit, LimitRespected, EveryTxCompletes, StopsEventually |
| repartition_epochs | relays: 2 shards, 2 accounts, 1 payment, 2 epochs, with the measurement | 1.6M | TypeOK, SingleOwner, OwnerHasLedger, MigrationBlockCurrent, EpochsInStep, ExecutedOnce, StatsMatchChains |
| clpabroker_separated | brokers: 2 shards, 2 accounts of one shard, 1 transfer, 1 epoch, one state message lost | 135k | OwnerHasLedger, ExecutedOnce, InOnePlace, RepartitionEnds, EveryTxExecuted |
| broker_payments | 2 shards, 2 brokers with 2 coins in each, 3 payments, one loss, with the measurement | 40k | BooksAgree, BrokerCanPay, PendingIsPromised, PaidOnce, StopAfterBrokers, ResultsComplete, PaymentsComplete |
| bootstrap_register | 2 nodes, 2 attempts each, two faults | 201k | TopoComplete, NoUpdateForgotten, MapsConverge |

The runs that expect a violation are in section 5.

What they show beyond the names of the properties:

- *pbft_chain*: whatever is lost, and wherever in a round a response comes, the storages
  agree and have no hole, the round and the height move together, and all of it is a
  behaviour of `ReplicatedChain`.
- *pbft_quorum*: with three of three nodes needed and a threshold of 5 nobody gets far enough
  behind to catch up, so this run is about rounds alone. That blocks from a catch-up have their
  quorum too is the theorem `QuorumCertifiedHolds`.
- *pbft_progress*: a follower that lost a proposal can never finish that round itself; it gets
  past it with the blocks of the leader. Four rounds are enough for a response that is stale,
  because the follower has finished a round since it asked, and for a lost proposal after that.
  The result has two conditions, and each is necessary: no message of the catch-up is lost
  (run pbft_catchup_lost), and no block fails when it is executed a second time
  (`ReplayMayFail = FALSE`; with TRUE the property fails, see section 5). Otherwise
  `catchupStarted` stays set and the node behind. The fetch limit 100 is never reached: a
  refused request is a third way to stay behind. A stop message closes a node wherever in a
  round or a catch-up it is, also when its peer is gone.
- *relay_payments*: every coin is on an account, in a relay2 transaction, or in a
  transaction known to be gone with a lost message or a failed block (`dropped`). A payment
  is credited or dropped unless the supervisor has stopped the system, which it may do while
  relays are still under way: it only counts empty blocks. With tx_number 4 and 3
  transactions in the source it never stops, and then every payment is credited or dropped.
- *repartition_epochs*: accounts, their states and the transactions that touch them move
  together although the shards change epoch at different times; and whatever the order in
  which the infos of the two shards of a relay come, the measurement has one line for each
  credited payment, no life cycle left over, and counts each debit and credit once.
- *clpabroker_separated*: the leaders decide by different maps where a transfer belongs, and
  send it to each other, back to the supervisor and out again as two broker transactions; it
  is in exactly one place until it is credited (`InOnePlace`), and it is credited. A lost
  state message may stop the migration for ever, never with wrong states.
- *broker_payments*: a payment of 2 leaves a broker with nothing, and one of 3 can be taken
  on only by a broker that has received the payment back, or goes by relay. When the
  supervisor stops, every payment given to a broker has its line in the results, also when
  a message was lost: the stop logic waits for the broker manager.
- *bootstrap_register*: a registration that comes while the map is read or broadcast is in
  the next broadcast, since its handler can only notify when the sender listens again; a
  node that registers twice does no harm; the mutex of the topology is what keeps a handler with
  an older view of the map from setting the topology back.

**Bounds.** `MaxSeq`, `MaxEpoch` and `MaxInfo` end runs that would go on for ever; `StopRounds` is when the
consensus may be stopped; `MaxLost`
counts losses (in PBFT of the types in `Lossy`), `MaxFault` the faults of `Bootstrap` and
`Attempts` (2 instead of 30) the registrations of a node. Two nodes have quorum 1 (f = 0), the
case in which nodes drift apart most and catch-ups happen at once; with threshold 1 instead
of 5 a catch-up starts after one missed round, and three rounds suffice for a response that
is stale by one and by two blocks, a fourth one for a proposal that is missing after it. The fetch limit 2 makes refused requests happen. Four
nodes with one down are the smallest case with f = 1. Messages of all types overtake each
other only in the proofs: agreement, votes and quorums are proved for every size and every
set `Delayed` in section 4. Two shards and two accounts have every kind of move (in, out,
swap); two epochs are needed for a state to be stale by one epoch. One transfer can meet every
pair of stages of the migration in its two shards. Two nodes are enough for two handlers
beside each other and a handler beside the sender (three with one attempt give the same).

**Instances that exclude a known defect.** Some of the defects in section 5 would break
other properties too, so the passing runs use inputs that avoid them: in `relay_payments` no
account ends a block with exactly nothing, in `broker_payments` no broker is a payer of the
source, in `pbft_progress` no message of a catch-up is lost and no block fails when it is
executed a second time, `repartition_epochs` loses no state message, and in `clpabroker_separated` the supervisor does not stop.

**Deadlock** is checked except where the system really stops: after a stop message, after
the end of the supervisor, when all nodes are registered, or when a lost vote stops a round for good (votes are not sent again).

**Fairness.** A running process ticks for ever and each tick drains all of its buffer:
weak fairness of `Tick`, strong fairness of `HandleMessage` (a tick in between disables
it). The block interval passes again and again: strong fairness of `Propose`. In the shard
modules a round of consensus ends, which is `EveryRoundCompletes` of PBFT; a commit is
strongly fair because the bound on block infos under way disables it now and then, which the
code does not. In `BrokerShards` the strong fairness of a commit also stands for the queue
order of the pool. In `CLPABroker` each kind of block info is handled (by shard, epoch and
whether it is empty), because every drain handles the whole buffer. In `Bootstrap` goroutines are
scheduled, the ticker ticks and a stream that does not fail is handled. Nothing forces the supervisor to repartition, or the network to lose or
not to lose. The liveness properties of the shard modules except what a loss takes away, because
the code does not retry.

## 4. Proofs

Every theorem is for all values of the constants: any shards, accounts, nodes, sources and
bounds, and any number of lost messages unless the statement says otherwise. In the modules of
the migration (CLPARelay, CLPABroker) only messages with account states can be lost. `Spec` is
`Init /\ [][Next]_vars`; a run may check a specification with fairness or with the variables
of a measurement added, which only has fewer or longer behaviours.

| Module | Theorem | Statement |
| --- | --- | --- |
| PBFTProofs | `TypeCorrect` | `Spec => []TypeOK` |
| | `AgreementHolds` | `Spec => []Agreement` |
| | `NoEquivocationHolds` | `Spec => []NoEquivocation` |
| | `QuorumCertifiedHolds` | `Spec => []QuorumCertified` |
| | `HeadTracksSeqHolds` | `Spec => []HeadTracksSeq` |
| | `LeaderNotBehindHolds` | `Spec => []LeaderNotBehind` |
| | `RoundHasProposalHolds` | `Spec => []RoundHasProposal` |
| | `NoGapHolds` | `Spec => []NoGap` |
| | `Refinement` | `Spec => ImplementsChain` |
| BootstrapProofs | `TopologyComplete` | `Spec => []TopoComplete` |
| | `UpdatesKept` | `Spec => []NoUpdateForgotten` |
| RelayShardsProofs | `NoDoubleExecution` | `Spec => []CreditAfterDebit` |
| | `NobodyOverdraws` | `Spec /\ []NoneEmptied => []NoOverdraft` |
| | `MoneyUnderWay` | `Spec => []PathInv` |
| | `MoneyAccountedFor` | `Spec /\ []NoneEmptied => []MoneyConserved` |
| | `NumPoolKeepsLimit` | `Spec => []LimitRespected`, for `PoolType = "num"` |
| CLPARelayProofs | `TypeCorrect` | `Spec => []TypeOK` |
| | `EpochsAgree` | `Spec => []EpochsInStep` |
| | `NoDoubleExecution` | `Spec => []ExecutedOnce` |
| | `OneShardServes` | `Spec => [](lost = 0 => SingleOwner)` |
| | `StateMovesAlong` | `Spec => [](lost = 0 => OwnerHasLedger)` |
| | `MigratedStatesCurrent` | `Spec => [](lost = 0 => MigrationBlockCurrent)` |
| | `StatsAgree` | `StatsSpec => []StatsMatchChains` (of `RelayStats`) |
| CLPABrokerProofs | `NoPaymentLostOrDoubled` | `Spec => []InOnePlace` |
| | `NoDoubleExecution` | `Spec => []ExecutedOnce` |
| | `StateMovesAlong` | `Spec => [](lost = 0 => SingleOwner /\ OwnerHasLedger)` |
| BrokerShardsProofs | `PaymentsMadeOnce` | `Spec => []PaidOnce` |
| | `StopWaitsForBrokers` | `Spec => []StopAfterBrokers` |
| | `PromisesKept` | `Spec => [](PendingIsPromised /\ Solvent)` |
| | `BooksFollowTries` | `Spec => []BooksAgree`, for `OrdinarySource` |
| | `BrokersCanPay` | `Spec => []BrokerCanPay`, for `OrdinarySource` |
| | `ResultsAreComplete` | `StatsSpec => []ResultsComplete` (of `BrokerStats`) |

The conditions some of them have are conditions of the code:

- `lost = 0`: a leader whose own state message is refused sends all states again, and a late
  copy counts in the next epoch (section 5). Without a lost state message it does not happen;
- `OrdinarySource`: no broker is a party of a payment of the source, since `classifyTxs` takes
  such payments for inner-shard ones and the books do not follow them (section 5);
- `[]NoneEmptied`: no proposed block leaves an account of its shard with exactly nothing, since
  such an account is initialised again (run relay_remint). It holds in `relay_payments`;
- `PoolType = "num"`: a pool that counts bytes exceeds the limit (run txpool_byte).

### Assumptions

`NodeAssumption` (a finite set of nodes, the leader is a node and runs) and `BoundAssumption`
(the threshold is positive, there is a payload, the bounds are numbers) for PBFT;
`RelayAssumption`, with unique transaction ids and finitely many shards and accounts, for the
relays; a finite set of payments for
the brokers; at least one shard for the migration. The other assumptions are types. PBFT
needs no relation between the fetch limit, the threshold and the quorum. TLC evaluates all of
them in the runs.

### The inductive invariants

None of the properties is inductive by itself. What is added, and why:

**PBFT** (`IInv`):

- `ProposalInv`: the leader proposes once per round, and the round fixes the height. This
  is where the `proposed` flag and `HeadTracksSeq` meet: a proposal is built on the header,
  and only the equality of height and round makes two proposals of one height impossible;
- `FlowInv`: votes under way and in pools were sent (the network creates none);
- `RoundInv`: every vote is for a proposal of its round, and a node past the first stage
  holds one;
- `CountInv`: counted nodes have voted for the proposal held, so that a quorum in a vote
  set is a quorum of votes sent;
- `ChainInv`: stored blocks are proposals, and the storage of the leader has no hole;
- `CatchupInv`: a request asks for blocks the leader has, and a response consists of blocks
  of the leader and names the round after its last block. This is inductive only together
  with `LeaderNotBehind`: a follower asks only if it has seen a proposal of a later round,
  so the leader is past the follower's height when it answers, and `BlockAt` finds every block;
- `GapInv`: a follower has all blocks up to the first one it has asked for (`ReqCovered`), and
  up to the first one a response brings (`RespCovered`). This is what keeps its storage without
  holes although it may have finished rounds between request and response.

The proof of a step has one lemma per part (`TypeStep`, `ProposalStep`, ... `QuorumStep`),
each split by action; `CatchupStep` is the largest. `Refinement` shows that a delivery maps
to `Decide` or `Learn`, a catch-up to `Transfer`, and all else to a stutter.

**Bootstrap** (`IInv`): a handler that reads the map for the topology, or the sender that
encodes it, has missed at most nodes whose own handlers have still to set the topology
(`TopoReadInv`) or to notify the sender (`MarshalInv`). `TopoLock` says that one handler reads
for the topology at a time, which is what the first needs; the second needs that a handler
cannot notify while the sender does not listen.

**Repartition** (`MigInv`, shared by both modes; `RepartitionProofs` shows that every step of
the migration keeps it, `CLPARelayProofs` and `CLPABrokerProofs` that their steps are such
steps):

- `EpochInv`: what the supervisor has heard of a shard is not ahead of its chain, so that it
  starts an epoch only when all chains are in the last one;
- `LocInv`: shards that have migrated agree with the supervisor on the locations, the others
  with each other, and blocks fit the locations of their shard;
- `lost = 0 => ExchangeInv`: every shard sends its states once per epoch (`SendOnce`); one that
  has sent proposes no transactions before it has migrated, and none migrates before all have
  sent (`Barrier`); so what is collected is complete and still current (`CollectInv`), and the
  balance of an account is all that has happened to it, at its old shard until the new one has
  taken it and there from then on (`OwnerInv`). `SingleOwner` alone says nothing of the
  messages between, and is lost in one step without them.
- `OnceInv`: a transaction is in one message, pool or block (`MsgsInv`, `PoolsInv`,
  `BlocksInv`, `Apart`), and its stage says what has been executed of it (`DoneInv`), so that no half is executed twice.
- `BrokerInv` of `CLPABrokerProofs` adds the manager: each transaction under way has the stage
  the file of the brokers expects (`ExpectedInv`), what is with the brokers is nowhere else
  (`ManagerApart`), and what is not credited is somewhere (`Present`): also in an info
  that confirms its first half.

**BrokerShards**: `BrokerInv` says where a payment is (`Located`), what is done of it
(`ExpectedInv`) and on file (`FileInv`), and that an info of a half means it is done
(`InfoInv`). `PromiseInv` adds that a promise is the sum of what a broker has still to pay out,
and is covered. `BooksFollowTries` needs `TrieInv`, which compares trie and book by the halves
that are done and not reported, and `ReportInv`: each half is reported at most once, and each half
that is done has its info under way unless one was lost. `BrokersCanPay` is then arithmetic: the
trie has at least what the book shows, and the book covers the promise.

**The measurements** read the same messages as the committee, so their records follow what the
infos under way do not yet say:

- `StatsInv` of `CLPARelayProofs`: relays have no transactions of brokers, which the measurement
  would not count (`StagesInv`), each half is in one info at most (`InfosInv`), and the open life
  cycle and the lines of a payment are those of the halves that are done and not under way in an
  info (`RecordsInv`). The counters, summed over the epochs, are the halves the measurement was
  told of (`TotalsInv`, with `ToldDebit` and `ToldCredit`): an info adds to both sides the number of
  its transactions, whatever epoch it names. When no info is under way what was told is what was done;
- `ResultsInv` of `BrokerShardsProofs`: a counted transaction is in one info (`CountedOnce`), and the
  records of a payment are in step with the manager of the brokers, not with the chains
  (`RecordsInv`): the first half is on file exactly while the second is awaited. This is why a lost
  info does no harm to the results: the manager then waits forever and `ShouldStop` stays false.
  Once the manager waits for nothing both halves of every payment with a broker are counted
  (`TotalsInv`, with `FirstDone`), so that two half payments make one.

**RelayShards**: `RelayInv` says that lists have each transaction once and at the shard of its
next half (`ListsInv`), that no two lists share a transaction (`ApartInv`), and what is executed
of it (`DoneOK`). For this the operators had to be understood: `Selected` and `Execute` are loops
over a list, and `SelectedPicks` and `ExecuteRuns` say what they return. `NobodyOverdraws` rests on
`BalancesExact`: an account is worth its initial balance and what the executed transactions have
moved (`BalanceInv`), because a block moves on the accounts what it counts (`CommitWorth`).
`MoneyAccountedFor` needs the other half, `PathInv`: a payment that has debited and not credited
is a relay2 transaction of some list or dropped (`HalfInv`), and what is dropped is in no list and
never executed again (`DropInv`). With it all the sums become sums over payments of the source:
the messages, pools, blocks and drops are worth the payments that are half done (`UnderWay`), each
in one of the four places (`PlacesOfHalf`), and the accounts lack exactly their value
(`TakenNotGiven`, `AccountsWorth`).

Sums over sets and loops over lists are defined by recursion, and the provers have no
induction. The proofs take a minimal counterexample instead: a least number (`LeastNat`) or a
smallest subset of a finite set (`SetSums`) for which the claim fails, and show that a smaller one
fails too.

### Only model-checked

- every liveness property: fairness and ENABLED are out of the prover's reach;
- what the conditions above leave out. `SingleOwner`, `OwnerHasLedger` and `MigrationBlockCurrent`
  are proved for behaviours without a lost state message; with one the last two fail (section 5).

## 5. What the models found

| Run | Property | What happens |
| --- | --- | --- |
| pbft_catchup_lost | BehindCatchesUp | a lost request or response leaves `catchupStarted` set; the node never asks again |
| txpool_byte | LimitRespected | the comparison in `packTxsByGivenBytes` is the wrong way round |
| relay_remint | NoOverdraft | an account that spends exactly everything is deleted and initialised again |
| clpabroker_stop | StopWhenSent | the CLPA broker committee stops with payments on the lists of the brokers: it does not ask `IsFinished` |

`PROJECT.json` quotes the comment or document each of them contradicts. These observations
have no run of their own:

- a follower that finishes rounds while its catch-up request is under way adds the blocks
  it has stored in the meantime once more (`handleCatchupResp` does not compare the first
  block with the header). This does not endanger agreement (proved): the same blocks are
  stored again, and the header ends at or behind the leader's. But executing a block a second
  time fails when a sender in it cannot pay twice; the handler then returns before
  `catchupOverAndReset` (`node.go:364`), `catchupStarted` stays set, and the node never asks
  again although no message of its catch-up was lost. `pbft_progress` with
  `ReplayMayFail = TRUE` finds it: `BehindCatchesUp` fails. The leader is in round 3, the
  proposal of round 2 is lost; the follower asks from height 3 and finishes round 1, so the
  response with blocks 3 and 4 begins with a block it has, fails, and the follower stays in
  round 2. (`pbftmeta.go:27` says that such a node "will use Catch-Up".);
- a payment of the source whose sender is a broker changes its balance and not the books of
  the supervisor, so `BooksAgree` is for sources without such payments;
- a leader whose own state message is refused by its full buffer sends all states again. A
  second copy that arrives after `MigrationStatusReset` still has the epoch of the leader, is
  stored and counts as collected in the next epoch. `repartition_epochs` with `MaxLost = 1`
  instead of 0 finds it: `MigrationBlockCurrent` and `OwnerHasLedger` fail
  (`migration.go:99`; the comment at `migration.go:38` says that the reset is for "when a new
  epoch starts");
- both latencies of a relay are added to the epoch of the info that comes last, the number
  of relay1 transactions to the epoch of its own info (`relaystats.go:197`), so an average
  per epoch can divide sums and counts of different transactions. Over all epochs they agree;
- the bootstrap reads its map without the mutex (`bootstrap.go:154`, `173`, `222`, and in every
  send of the supervisor `libp2pconn.go:356`), which the
  Go runtime answers with a fatal error when a write comes in between;
- a broadcast that fails or is overtaken leaves a node with an old map until somebody else
  registers; `registerNodeInfo` takes any answer for an ACK, also the error one; and
  `SetTopoGetter` appends the supervisor to a list that has it already;
- `AddBlock` is not atomic (its TODO says so): after a failed write the leader proposes the
  same height again, and the tries may be ahead of the header.

## 6. What is not modelled, and what is left to prove

Not modelled:

- *blocks that fail in the dynamic and the broker modes*: `Repartition`, `CLPARelay`, `CLPABroker`
  and `BrokerShards` assume that ordinary senders can pay. In the code a sender who cannot makes
  `GenerateBlock` fail after the batch has left the pool (`txexecute.go:58`, `129`), and the
  batch is gone. `RelayShards` models that path (`dropped`); where the assumption holds,
  `InOnePlace`, `EveryTxExecuted` and `PaymentsComplete` say that nothing else is dropped;
- *lost messages other than account states in the dynamic modes*: a lost transaction or block
  info is a payment or a count that is gone, as in `RelayShards` and `BrokerShards`;
- *contract execution*: the EVM of go-ethereum, called as a library;
- *the CLPA algorithm*: its scores are floating-point numbers. `Repartition` allows every
  move of accounts, so no property depends on what it computes;
- *encodings, roots, bloom filters, commands and configuration*: no state of the protocol;
- *times and averages of the measurement*, and its CSV format;
- *I/O failures of the storage*: the code neither detects nor repairs a partial `AddBlock`,
  so a model of it has nothing to show beyond the observation above. A restarted node begins with
  a new genesis block, so there is no recovery either;
- *the length of the network buffer*: a full buffer is a lost message;
- *the libp2p transport* (DHT, relays, hole punching): a library. What it delivers, in which order, is
  any of what the modules allow;
- *the stop logic of the CLPA relay committee*: the counter of the static one (`RelayShards`)
  with the reset at a repartition that `CLPABroker` has.

Every safety invariant of a passing run is proved, under the conditions of section 4. What is left
with TLC is liveness.
