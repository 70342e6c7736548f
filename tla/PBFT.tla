-------------------------------- MODULE PBFT --------------------------------
(***************************************************************************)
(* The consensus of one shard: consensus/pbft/node.go (the run loop, the   *)
(* message handlers, propose, catch-up) and pbftmeta.go (the metadata of a *)
(* round) over the message pool of basicstructs/pool.go.                   *)
(*                                                                         *)
(* A node is single threaded: every tick of its run loop drains the        *)
(* network buffer through the handlers (pc "drain"), curates the pool,     *)
(* steps through the PBFT stages ("step") and then proposes or starts a    *)
(* catch-up ("act").  The leader is node 0 for ever: there is no view      *)
(* change, the View of every message is 0, so a ViewSeq is its Seq.        *)
(*                                                                         *)
(* The network delivers messages of the types in Delayed in any order, and *)
(* every other message is in the buffer of its receiver when the sender    *)
(* goes on.  The code justifies to delay all of them: libp2p reads every   *)
(* message in a goroutine of its own, a gRPC broadcast sends to all        *)
(* receivers in parallel, and the catch-up response is sent in the         *)
(* background.  Smaller sets make longer runs checkable.                   *)
(***************************************************************************)
EXTENDS Integers, FiniteSets, Sequences

CONSTANTS
  Node,              \* the nodes of the shard
  Leader,            \* the node with ID initialLeader
  Down,              \* nodes whose process never runs
  Payload,           \* what tells two blocks of one height apart
  MaxSeq,            \* bound: sequence numbers 0 .. MaxSeq - 1 are proposed
  CatchUpThreshold,  \* catchUpThreshold
  BlocksFetchLimit,  \* blocksFetchLimit of chain.go
  Delayed,           \* types of the messages a later one can overtake
  Lossy,             \* types of the messages the network may lose
  MaxLost,           \* bound: messages the network may lose
  ReplayMayFail,     \* whether a block executed a second time may fail
  StopRounds         \* bound: rounds of the leader in which the supervisor stops

ASSUME NodeAssumption ==
  /\ IsFiniteSet(Node)
  /\ Leader \in Node
  /\ Down \subseteq Node \ {Leader}

ASSUME BoundAssumption ==
  /\ Payload # {}
  /\ MaxSeq \in Nat
  /\ CatchUpThreshold \in Nat \ {0}
  /\ BlocksFetchLimit \in Nat
  /\ MaxLost \in Nat
  /\ ReplayMayFail \in BOOLEAN
  /\ StopRounds \subseteq Nat

VARIABLES
  pc,              \* phase of the tick: "drain", "step", "act"; "closed"
  closed,          \* closed: the stop message was handled
  stage,           \* stage
  seq,             \* curViewSeq.Seq
  curPreprepare,   \* curPreprepare: {} (nil) or one preprepare message
  prepareSet,      \* prepareSet: nodes whose prepare was counted
  commitSet,       \* commitSet: nodes whose commit was counted
  proposed,        \* proposed
  msgPool,         \* msgPool: the three priority queues, as one set
  latestSeq,       \* latestViewSeq.Seq
  catchupStarted,  \* catchupStarted
  curHeader,       \* the chain's curHeader
  blocks,          \* the block storage of the chain
  inbox,           \* messages sent to a node and not handled yet
  lost,            \* number of messages the network has lost
  stopSent,        \* the supervisor has broadcast the stop message
  sent             \* history: every vote ever broadcast

metaVars  == <<stage, seq, curPreprepare, prepareSet, commitSet, proposed>>
chainVars == <<curHeader, blocks>>
vars == <<pc, closed, metaVars, msgPool, latestSeq, catchupStarted, chainVars,
          inbox, lost, stopSent, sent>>

-----------------------------------------------------------------------------
(* Blocks and messages. A block's hash stands for the block, so a digest is *)
(* the block itself.  Genesis has Number 1, as in initWithGenesisBlock.     *)

Block == [number : Nat, payload : Payload]

Genesis == [number |-> 1, payload |-> CHOOSE p \in Payload : TRUE]

VoteType == {"preprepare", "prepare", "commit"}

Vote == [type : VoteType, seq : Nat, node : Node, block : Block]

CatchupReq == [type : {"catchupReq"}, node : Node, start : Nat]

CatchupResp ==
  [type : {"catchupResp"}, node : Node, proposals : Seq(Block), next : Nat]

StopMsg == [type |-> "stop"]

Msg == Vote \cup CatchupReq \cup CatchupResp \cup {StopMsg}

N == Cardinality(Node)
F == (N - 1) \div 3

\* step2Next: a stage is left with 2f+1 votes of distinct nodes.
QuorumReached(S) == Cardinality(S) >= 2 * F + 1

TypeOK ==
  /\ pc \in [Node -> {"drain", "step", "act", "closed"}]
  /\ closed \in [Node -> BOOLEAN]
  /\ stage \in [Node -> VoteType]
  /\ seq \in [Node -> Nat]
  /\ curPreprepare \in [Node -> SUBSET Vote]
  /\ prepareSet \in [Node -> SUBSET Node]
  /\ commitSet \in [Node -> SUBSET Node]
  /\ proposed \in [Node -> BOOLEAN]
  /\ msgPool \in [Node -> SUBSET Vote]
  /\ latestSeq \in [Node -> Nat]
  /\ catchupStarted \in [Node -> BOOLEAN]
  /\ curHeader \in [Node -> Block]
  /\ blocks \in [Node -> SUBSET Block]
  /\ inbox \in [Node -> SUBSET Msg]
  /\ lost \in 0 .. MaxLost
  /\ stopSent \in BOOLEAN
  /\ sent \subseteq Vote

Init ==
  /\ pc = [n \in Node |-> "drain"]
  /\ closed = [n \in Node |-> FALSE]
  /\ stage = [n \in Node |-> "preprepare"]
  /\ seq = [n \in Node |-> 0]
  /\ curPreprepare = [n \in Node |-> {}]
  /\ prepareSet = [n \in Node |-> {}]
  /\ commitSet = [n \in Node |-> {}]
  /\ proposed = [n \in Node |-> FALSE]
  /\ msgPool = [n \in Node |-> {}]
  /\ latestSeq = [n \in Node |-> 0]
  /\ catchupStarted = [n \in Node |-> FALSE]
  /\ curHeader = [n \in Node |-> Genesis]
  /\ blocks = [n \in Node |-> {Genesis}]
  /\ inbox = [n \in Node |-> {}]
  /\ lost = 0
  /\ stopSent = FALSE
  /\ sent = {}

-----------------------------------------------------------------------------
(* The drain phase: handleMessage dispatches one message of the buffer.     *)

\* Message m to n is certainly in the buffer of n when a tick drains it: it is
\* of a type the transport does not delay, or a vote of n itself, which
\* sendMessage puts into the buffer without the network.
InBuffer(n, m) == (m.type \in VoteType /\ m.node = n) \/ m.type \notin Delayed

\* Message m is taken by its handler.
Receive(n, m) ==
  /\ pc[n] = "drain"
  /\ m \in inbox[n]
  /\ inbox' = [inbox EXCEPT ![n] = @ \ {m}]

\* A mutated OutOfDate: votes of the current round count as old too.
OutOfDate_current(n, m) == seq[n] >= m.seq

\* The handlers ignore a vote of a round before the current one.
OutOfDate(n, m) == seq[n] > m.seq

\* handlePreprepare, handlePrepare and handleCommit, for the votes S of the
\* buffer: each is pushed into the pool unless it is out of date, and the
\* proposals move latestViewSeq. The handlers of votes commute.
HandleVotes(n, S) ==
  LET fresh == {m \in S : ~OutOfDate(n, m)}
      seqs  == {m.seq : m \in {v \in fresh : v.type = "preprepare"}}
                 \cup {latestSeq[n]}
  IN  /\ pc[n] = "drain"
      /\ inbox' = [inbox EXCEPT ![n] = @ \ S]
      /\ msgPool' = [msgPool EXCEPT ![n] = @ \cup fresh]
      /\ \E s \in seqs : /\ \A t \in seqs : t <= s
                         /\ latestSeq' = [latestSeq EXCEPT ![n] = s]
      /\ UNCHANGED <<pc, closed, metaVars, catchupStarted, chainVars, lost,
                     stopSent, sent>>

\* The batches of votes a drain can handle: all those certainly in the buffer,
\* or one that the network delivers now.
Batches(n) ==
  LET votes == {m \in inbox[n] : m.type \in VoteType}
      ready == {m \in votes : InBuffer(n, m)}
  IN  (IF ready = {} THEN {} ELSE {ready}) \cup {{m} : m \in votes \ ready}

HandleStopConsensus(n, m) ==
  /\ m.type = "stop"
  /\ Receive(n, m)
  /\ closed' = [closed EXCEPT ![n] = TRUE]
  /\ UNCHANGED <<pc, metaVars, msgPool, latestSeq, catchupStarted, chainVars,
                 lost, stopSent, sent>>

\* The block of height h in the storage of n.
BlockAt(n, h) == CHOOSE b \in blocks[n] : b.number = h

\* The number of blocks from height start up to the current header of n.
FetchCount(n, start) ==
  IF curHeader[n].number >= start THEN curHeader[n].number - start + 1 ELSE 0

\* GetBlocksAfterHeight fails below the first height and with more than
\* BlocksFetchLimit blocks to return.
FetchRefused(n, start) == start <= 0 \/ FetchCount(n, start) > BlocksFetchLimit

\* GetBlocksAfterHeight: the blocks of heights start .. curHeader.number. The
\* code follows the parent hashes from the header; in a storage without holes
\* (NoGap) and with one block per height (Agreement) these are the same blocks.
GetBlocksAfterHeight(n, start) ==
  [i \in 1 .. FetchCount(n, start) |-> BlockAt(n, start + i - 1)]

\* A mutated NextSeq: the round after the one the leader is in.
NextSeq_plus1(n) == seq[n] + 1

\* The round a catch-up response of n tells the follower to resume at.
NextSeq(n) == seq[n]

\* handleCatchupReq: when the blocks cannot be fetched the handler fails, and
\* nothing is answered.
HandleCatchupReq(n, m) ==
  /\ m.type = "catchupReq"
  /\ pc[n] = "drain"
  /\ m \in inbox[n]
  /\ LET resp == [type |-> "catchupResp", node |-> n, next |-> NextSeq(n),
                  proposals |-> GetBlocksAfterHeight(n, m.start)]
         rest == [inbox EXCEPT ![n] = @ \ {m}]
     IN  inbox' = IF FetchRefused(n, m.start) THEN rest
                  ELSE [rest EXCEPT ![m.node] = @ \cup {resp}]
  /\ UNCHANGED <<pc, closed, metaVars, msgPool, latestSeq, catchupStarted,
                 chainVars, lost, stopSent, sent>>

\* A mutated CatchupReset: the stage is kept.
CatchupReset_keepStage(n) ==
  /\ curPreprepare' = [curPreprepare EXCEPT ![n] = {}]
  /\ prepareSet' = [prepareSet EXCEPT ![n] = {}]
  /\ commitSet' = [commitSet EXCEPT ![n] = {}]
  /\ proposed' = [proposed EXCEPT ![n] = FALSE]
  /\ UNCHANGED stage

\* The reset of a round in catchupOverAndReset.
CatchupReset(n) ==
  /\ stage' = [stage EXCEPT ![n] = "preprepare"]
  /\ curPreprepare' = [curPreprepare EXCEPT ![n] = {}]
  /\ prepareSet' = [prepareSet EXCEPT ![n] = {}]
  /\ commitSet' = [commitSet EXCEPT ![n] = {}]
  /\ proposed' = [proposed EXCEPT ![n] = FALSE]

\* A mutated ApplyCatchup: the node stays in its round.
ApplyCatchup_keepSeq(n, m) ==
  /\ blocks' = [blocks EXCEPT ![n] = @ \cup {m.proposals[i] : i \in DOMAIN m.proposals}]
  /\ curHeader' = IF m.proposals = <<>> THEN curHeader
                  ELSE [curHeader EXCEPT ![n] = m.proposals[Len(m.proposals)]]
  /\ catchupStarted' = [catchupStarted EXCEPT ![n] = FALSE]
  /\ CatchupReset(n)
  /\ UNCHANGED seq

\* AddBlock of every proposal, then catchupOverAndReset. AddBlock makes each
\* block the current header in turn, whatever the header was before.
ApplyCatchup(n, m) ==
  /\ blocks' = [blocks EXCEPT ![n] = @ \cup {m.proposals[i] : i \in DOMAIN m.proposals}]
  /\ curHeader' = IF m.proposals = <<>> THEN curHeader
                  ELSE [curHeader EXCEPT ![n] = m.proposals[Len(m.proposals)]]
  /\ catchupStarted' = [catchupStarted EXCEPT ![n] = FALSE]
  /\ seq' = [seq EXCEPT ![n] = m.next]
  /\ CatchupReset(n)

\* AddBlock executes a block on the state of the current header. It succeeds
\* on the successor of the header; a block that was executed before may fail,
\* as a sender in it may not be able to pay twice. The blocks of a response
\* follow each other, so only the first one can be such a block.
Extends(n, b) == b.number = curHeader[n].number + 1

CatchupMayFail(n, m) ==
  ReplayMayFail /\ m.proposals # <<>> /\ ~Extends(n, m.proposals[1])

\* handleCatchupResp. A response that is not the leader's, or not asked for,
\* is dropped; a failed AddBlock leaves the catch-up started.
HandleCatchupResp(n, m) ==
  /\ m.type = "catchupResp"
  /\ Receive(n, m)
  /\ \/ /\ m.node = Leader /\ catchupStarted[n]
        /\ ApplyCatchup(n, m)
     \/ /\ m.node = Leader /\ catchupStarted[n] => CatchupMayFail(n, m)
        /\ UNCHANGED <<metaVars, catchupStarted, chainVars>>
  /\ UNCHANGED <<pc, closed, msgPool, latestSeq, lost, stopSent, sent>>

-----------------------------------------------------------------------------
(* curateMsg and the steps of step2NextStage.                               *)

\* ReadXMsg(curViewSeq) pops the votes of one type up to the current round.
Readable(n, type) == {m \in msgPool[n] : m.type = type /\ m.seq <= seq[n]}

\* catchupReady
CatchupReady(n) ==
  ~catchupStarted[n] /\ latestSeq[n] >= seq[n] + CatchUpThreshold

\* A mutated MayPropose: the proposed flag is not looked at.
MayPropose_again(n) == n = Leader /\ stage[n] = "preprepare"

\* The condition of run for calling propose.
MayPropose(n) == n = Leader /\ stage[n] = "preprepare" /\ ~proposed[n]

\* A tick for which this is false changes nothing: a stuttering step.
TickUseful(n) ==
  \/ closed[n]
  \/ curPreprepare[n] = {} /\ Readable(n, "preprepare") # {}
  \/ curPreprepare[n] # {} /\ Readable(n, "prepare") \cup Readable(n, "commit") # {}
  \/ MayPropose(n)
  \/ n # Leader /\ CatchupReady(n)

\* The preprepares curateMsg may take as the one of this round.
Candidates(n) ==
  {m \in Readable(n, "preprepare") : m.seq = seq[n] /\ m.node = Leader}

\* The nodes whose popped votes of this type are counted for preprepare pp:
\* votes of this round and this digest. The others are dropped.
Counted(n, type, pp) ==
  {m.node : m \in {v \in Readable(n, type) : v.seq = seq[n] /\ v.block = pp.block}}

\* Votes are read only once the preprepare of the round is there.
CountVotes(n, pp, popped) ==
  /\ prepareSet' = [prepareSet EXCEPT ![n] = @ \cup Counted(n, "prepare", pp)]
  /\ commitSet' = [commitSet EXCEPT ![n] = @ \cup Counted(n, "commit", pp)]
  /\ msgPool' = [msgPool EXCEPT
       ![n] = ((@ \ popped) \ Readable(n, "prepare")) \ Readable(n, "commit")]

\* curateMsg, at the end of the drain of a tick.
CurateMsg(n) ==
  /\ pc[n] = "drain"
  /\ \A m \in inbox[n] : ~InBuffer(n, m)
  /\ TickUseful(n)
  /\ pc' = [pc EXCEPT ![n] = "step"]
  /\ \/ \E pp \in curPreprepare[n] :
          /\ CountVotes(n, pp, {})
          /\ UNCHANGED curPreprepare
     \/ /\ curPreprepare[n] = {}
        /\ \E pp \in Candidates(n) :
             /\ curPreprepare' = [curPreprepare EXCEPT ![n] = {pp}]
             /\ CountVotes(n, pp, Readable(n, "preprepare"))
     \/ /\ curPreprepare[n] = {} /\ Candidates(n) = {}
        /\ msgPool' = [msgPool EXCEPT ![n] = @ \ Readable(n, "preprepare")]
        /\ UNCHANGED <<curPreprepare, prepareSet, commitSet>>
  /\ UNCHANGED <<closed, stage, seq, proposed, latestSeq, catchupStarted,
                 chainVars, inbox, lost, stopSent, sent>>

\* broadcastMsgInnerShard: the sender is among the receivers.
Broadcast(m) ==
  /\ inbox' = [k \in Node |-> inbox[k] \cup {m}]
  /\ sent' = sent \cup {m}

\* The prepare or commit message of n for the preprepare pp.
VoteFor(n, type, pp) ==
  [type |-> type, seq |-> pp.seq, node |-> n, block |-> pp.block]

\* stagePreprepare to stagePrepare, then prepareBroadcast.
Step2Prepare(n) ==
  /\ pc[n] = "step" /\ stage[n] = "preprepare"
  /\ \E pp \in curPreprepare[n] : Broadcast(VoteFor(n, "prepare", pp))
  /\ stage' = [stage EXCEPT ![n] = "prepare"]
  /\ UNCHANGED <<pc, closed, seq, curPreprepare, prepareSet, commitSet, proposed,
                 msgPool, latestSeq, catchupStarted, chainVars, lost, stopSent>>

\* stagePrepare to stageCommit, then commitBroadcast.
Step2Commit(n) ==
  /\ pc[n] = "step" /\ stage[n] = "prepare"
  /\ QuorumReached(prepareSet[n])
  /\ \E pp \in curPreprepare[n] : Broadcast(VoteFor(n, "commit", pp))
  /\ stage' = [stage EXCEPT ![n] = "commit"]
  /\ UNCHANGED <<pc, closed, seq, curPreprepare, prepareSet, commitSet, proposed,
                 msgPool, latestSeq, catchupStarted, chainVars, lost, stopSent>>

\* A mutated ResetRound: the votes of the finished round are kept.
ResetRound_keepVotes(n) ==
  /\ curPreprepare' = [curPreprepare EXCEPT ![n] = {}]
  /\ proposed' = [proposed EXCEPT ![n] = FALSE]
  /\ UNCHANGED <<prepareSet, commitSet>>

\* The reset of step2Next at the end of a round.
ResetRound(n) ==
  /\ curPreprepare' = [curPreprepare EXCEPT ![n] = {}]
  /\ prepareSet' = [prepareSet EXCEPT ![n] = {}]
  /\ commitSet' = [commitSet EXCEPT ![n] = {}]
  /\ proposed' = [proposed EXCEPT ![n] = FALSE]

\* stageCommit to stagePreprepare, then ProposalCommitAndDeliver, which adds
\* the block to the chain: one round per tick.
Step2Deliver(n) ==
  /\ pc[n] = "step" /\ stage[n] = "commit"
  /\ QuorumReached(commitSet[n])
  /\ \E pp \in curPreprepare[n] :
       /\ curHeader' = [curHeader EXCEPT ![n] = pp.block]
       /\ blocks' = [blocks EXCEPT ![n] = @ \cup {pp.block}]
  /\ pc' = [pc EXCEPT ![n] = "act"]
  /\ stage' = [stage EXCEPT ![n] = "preprepare"]
  /\ seq' = [seq EXCEPT ![n] = @ + 1]
  /\ ResetRound(n)
  /\ UNCHANGED <<closed, msgPool, latestSeq, catchupStarted, inbox, lost, stopSent, sent>>

\* step2Next leaves the stage unchanged: step2NextStage returns.
StepWait(n) ==
  /\ pc[n] = "step"
  /\ CASE stage[n] = "preprepare" -> curPreprepare[n] = {}
       [] stage[n] = "prepare"    -> ~QuorumReached(prepareSet[n])
       [] stage[n] = "commit"     -> ~QuorumReached(commitSet[n])
  /\ pc' = [pc EXCEPT ![n] = "act"]
  /\ UNCHANGED <<closed, metaVars, msgPool, latestSeq, catchupStarted,
                 chainVars, inbox, lost, stopSent, sent>>

-----------------------------------------------------------------------------
(* The end of a tick.                                                       *)

\* A mutated EndTick: the closed flag is not looked at.
EndTick_open(n) == pc' = [pc EXCEPT ![n] = "drain"]

\* The next iteration of run: a closed node leaves the loop (closeAll).
EndTick(n) == pc' = [pc EXCEPT ![n] = IF closed[n] THEN "closed" ELSE "drain"]

\* propose: GenerateBlock on the current header, then the broadcast. The
\* NodeID of the message is never set; 0 is the ID of the leader.
Propose(n) ==
  /\ pc[n] = "act" /\ MayPropose(n)
  /\ seq[n] < MaxSeq
  /\ \E p \in Payload :
       Broadcast([type |-> "preprepare", seq |-> seq[n], node |-> Leader,
                  block |-> [number |-> curHeader[n].number + 1, payload |-> p]])
  /\ proposed' = [proposed EXCEPT ![n] = TRUE]
  /\ EndTick(n)
  /\ UNCHANGED <<closed, stage, seq, curPreprepare, prepareSet, commitSet, msgPool,
                 latestSeq, catchupStarted, chainVars, lost, stopSent>>

\* propose returns early (the block interval has not passed, there is no
\* proposal, or building it fails), or run has no reason to call it.
SkipPropose(n) ==
  /\ pc[n] = "act" /\ n = Leader
  /\ EndTick(n)
  /\ UNCHANGED <<closed, metaVars, msgPool, latestSeq, catchupStarted,
                 chainVars, inbox, lost, stopSent, sent>>

\* A mutated StartHeight: one block is left out.
StartHeight_skip(n) == curHeader[n].number + 2

\* A mutated StartHeight: a window of BlocksFetchLimit blocks that ends below
\* the header, without a lower bound.
StartHeight_window(n) == curHeader[n].number - (BlocksFetchLimit + 1)

\* StartBlockHeight of the catch-up request.
StartHeight(n) == curHeader[n].number + 1

\* catchUpStart: ask the leader for the blocks above the current header.
CatchUpStart(n) ==
  /\ pc[n] = "act" /\ n # Leader /\ CatchupReady(n)
  /\ inbox' = [inbox EXCEPT ![Leader] = @ \cup
        {[type |-> "catchupReq", node |-> n, start |-> StartHeight(n)]}]
  /\ catchupStarted' = [catchupStarted EXCEPT ![n] = TRUE]
  /\ EndTick(n)
  /\ UNCHANGED <<closed, metaVars, msgPool, latestSeq, chainVars, lost, stopSent, sent>>

NoCatchUp(n) ==
  /\ pc[n] = "act" /\ n # Leader /\ ~CatchupReady(n)
  /\ EndTick(n)
  /\ UNCHANGED <<closed, metaVars, msgPool, latestSeq, catchupStarted,
                 chainVars, inbox, lost, stopSent, sent>>

-----------------------------------------------------------------------------
(* The environment.                                                         *)

\* The supervisor broadcasts the stop message (supervisor.go, Start).
SendStop ==
  /\ seq[Leader] \in StopRounds /\ ~stopSent
  /\ stopSent' = TRUE
  /\ inbox' = [n \in Node |-> inbox[n] \cup {StopMsg}]
  /\ UNCHANGED <<pc, closed, metaVars, msgPool, latestSeq, catchupStarted,
                 chainVars, lost, sent>>

\* SendMsg2Dest only logs a failed send, and a full buffer refuses a message.
LoseMsg(n, m) ==
  /\ lost < MaxLost /\ m.type \in Lossy
  /\ m \in inbox[n]
  /\ inbox' = [inbox EXCEPT ![n] = @ \ {m}]
  /\ lost' = lost + 1
  /\ UNCHANGED <<pc, closed, metaVars, msgPool, latestSeq, catchupStarted,
                 chainVars, stopSent, sent>>

HandleMessage(n) ==
  \/ \E S \in Batches(n) : HandleVotes(n, S)
  \/ \E m \in inbox[n] : \/ HandleCatchupReq(n, m)
                         \/ HandleCatchupResp(n, m)
                         \/ HandleStopConsensus(n, m)

Tick(n) ==
  \/ CurateMsg(n)
  \/ Step2Prepare(n) \/ Step2Commit(n) \/ Step2Deliver(n) \/ StepWait(n)
  \/ Propose(n) \/ SkipPropose(n)
  \/ CatchUpStart(n) \/ NoCatchUp(n)

Next ==
  \/ \E n \in Node \ Down : HandleMessage(n) \/ Tick(n)
  \/ SendStop
  \/ \E n \in Node : \E m \in inbox[n] : LoseMsg(n, m)

Spec == Init /\ [][Next]_vars

\* Every running node keeps ticking, every tick drains all of the buffer, and
\* the block interval passes again and again.
Fairness ==
  /\ \A n \in Node \ Down : WF_vars(Tick(n)) /\ SF_vars(HandleMessage(n))
  /\ SF_vars(Propose(Leader))

FairSpec == Spec /\ Fairness

-----------------------------------------------------------------------------
(* Properties.                                                              *)

\* The nodes that have broadcast a vote of this type for block b.
Voters(type, b) ==
  {m.node : m \in {v \in sent : v.type = type /\ v.block = b}}

\* Two nodes never store different blocks of one height, whichever way the
\* block reached them: a round of their own or a catch-up response.
Agreement ==
  \A n, k \in Node : \A b \in blocks[n], c \in blocks[k] :
    b.number = c.number => b = c

\* A node votes at most once per stage and round: no second proposal of the
\* leader, no prepare or commit for another block, also after a catch-up has
\* moved the node back to a round it has already voted in.
NoEquivocation ==
  \A v, w \in sent :
    v.type = w.type /\ v.node = w.node /\ v.seq = w.seq => v = w

\* Every block a node stores was committed by 2f+1 nodes, and whoever
\* committed it had the prepares of 2f+1 nodes: step2Next never advances on
\* votes of another round or of another block.
QuorumCertified ==
  /\ \A n \in Node : \A b \in blocks[n] \ {Genesis} :
       Cardinality(Voters("commit", b)) >= 2 * F + 1
  /\ \A v \in sent : v.type = "commit" =>
       Cardinality(Voters("prepare", v.block)) >= 2 * F + 1

\* The sequence number of the consensus and the height of the chain move
\* together, in a round as in a catch-up: the round seq decides the block of
\* height seq + 2, so that a catch-up resumes at the round of its last block.
HeadTracksSeq == \A n \in Node : curHeader[n].number = seq[n] + 1

\* A follower is at most one round ahead of the leader, and only in a round
\* the leader has proposed: the leader stays a useful source for a catch-up,
\* and a catch-up never carries a follower past the leader's own round.
LeaderNotBehind ==
  \A n \in Node : seq[n] > seq[Leader] =>
    seq[n] = seq[Leader] + 1 /\ proposed[Leader]

\* Past the first stage a node holds the proposal of its round, and it is the
\* one of the round seq: prepareBroadcast, commitBroadcast and step2Next use
\* curPreprepare unchecked, and a catch-up resets it in mid-round.
RoundHasProposal ==
  \A n \in Node :
    /\ stage[n] # "preprepare" => curPreprepare[n] # {}
    /\ \A m \in curPreprepare[n] : m.seq = seq[n]

\* The storage of a node has no hole below its current header, also after a
\* catch-up whose blocks were fetched for an older header.
NoGap ==
  \A n \in Node : \A h \in 1 .. curHeader[n].number :
    \E b \in blocks[n] : b.number = h

\* The shard implements the replicated chain: the blocks of all nodes are the
\* decided ones, and the current headers the heads.
Chain == INSTANCE ReplicatedChain WITH
  decided <- UNION {blocks[n] : n \in Node},
  head <- curHeader

\* The detailed protocol (votes, the pool, catch-up) never shows a behaviour
\* the replicated chain does not have.
ImplementsChain == Chain!Spec

\* When no message is lost every running node completes every round: no
\* stage waits for a vote that was dropped as out of date or consumed early.
EveryRoundCompletes == <>[](\A n \in Node \ Down : seq[n] = MaxSeq)

\* A node that is CatchUpThreshold rounds behind the latest proposal does not
\* stay behind: it uses the catch-up (pbftmeta.go, catchUpThreshold), also when
\* what it misses is lost, unless it or the leader is stopped before.
BehindCatchesUp ==
  \A n \in Node \ (Down \cup {Leader}) :
    latestSeq[n] >= seq[n] + CatchUpThreshold
      ~> \/ latestSeq[n] < seq[n] + CatchUpThreshold
         \/ closed[n] \/ closed[Leader]

\* The stop message ends the run loop of every node, wherever in a round it
\* is when the message comes.
StopCloses == \A n \in Node \ Down : stopSent ~> pc[n] = "closed"

=============================================================================
