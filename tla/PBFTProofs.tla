----------------------------- MODULE PBFTProofs -----------------------------
(* Theorems about PBFT for every set of nodes and every value of its bounds. *)
EXTENDS PBFT, FiniteSetTheorems, TLAPS

-----------------------------------------------------------------------------
(* The inductive invariant. *)

\* The leader's proposals: one per round, none for a round it has not reached,
\* and the round decides the height of the block.
ProposalInv ==
  /\ \A m \in sent : m.type = "preprepare" =>
       /\ m.node = Leader
       /\ m.seq <= seq[Leader]
       /\ m.seq = seq[Leader] => proposed[Leader]
       /\ m.block.number = m.seq + 2
  /\ \A m, k \in sent :
       m.type = "preprepare" /\ k.type = "preprepare" /\ m.seq = k.seq => m = k

\* There is a proposal of this block in this round.
Proposed(s, b) ==
  \E p \in sent : p.type = "preprepare" /\ p.seq = s /\ p.block = b

\* The votes under way and in the pools were sent.
FlowInv ==
  \A n \in Node :
    /\ \A m \in inbox[n] : m.type \in VoteType => m \in sent
    /\ msgPool[n] \subseteq sent

\* Votes are for proposals, and a node holds the proposal of its round.
RoundInv ==
  /\ \A m \in sent : Proposed(m.seq, m.block)
  /\ \A n \in Node : \A m \in curPreprepare[n] : m \in sent /\ m.type = "preprepare"
  /\ RoundHasProposal

\* The votes a node has counted were sent for the proposal it holds.
CountInv ==
  \A n \in Node :
    /\ curPreprepare[n] = {} => prepareSet[n] = {} /\ commitSet[n] = {}
    /\ \A pp \in curPreprepare[n] :
         /\ prepareSet[n] \subseteq Voters("prepare", pp.block)
         /\ commitSet[n] \subseteq Voters("commit", pp.block)

\* Stored blocks are decided proposals, the header is one of them, and the
\* storage of the leader has no hole.
ChainInv ==
  /\ HeadTracksSeq
  /\ \A n \in Node : curHeader[n] \in blocks[n]
  /\ \A n \in Node : \A b \in blocks[n] :
       b = Genesis \/ \E m \in sent : m.type = "preprepare" /\ m.block = b
  /\ \A h \in 1 .. curHeader[Leader].number :
       \E b \in blocks[Leader] : b.number = h

\* A catch-up request is from a follower to the leader, for blocks it has.
ReqOK(n, m) ==
  /\ n = Leader /\ m.node # Leader
  /\ m.start >= 1 /\ m.start <= curHeader[Leader].number

\* A response holds blocks of the leader and ends with the block before the
\* round it names.
RespOK(m) ==
  /\ m.proposals # <<>>
  /\ \A i \in DOMAIN m.proposals : m.proposals[i] \in blocks[Leader]
  /\ m.proposals[Len(m.proposals)].number = m.next + 1
  /\ m.next <= seq[Leader]

CatchupInv ==
  /\ ~catchupStarted[Leader]
  /\ \A n \in Node : latestSeq[n] <= seq[Leader]
  /\ \A n \in Node : \A m \in inbox[n] : m.type = "catchupReq" => ReqOK(n, m)
  /\ \A n \in Node : \A m \in inbox[n] : m.type = "catchupResp" => RespOK(m)

IInv ==
  /\ TypeOK
  /\ ProposalInv
  /\ FlowInv
  /\ RoundInv
  /\ CountInv
  /\ ChainInv
  /\ CatchupInv
  /\ LeaderNotBehind
  /\ QuorumCertified

-----------------------------------------------------------------------------
(* Facts about single operators. *)

\* The genesis block is a block.
LEMMA GenesisType == Genesis \in Block
<1>1. PICK p \in Payload : TRUE
  BY BoundAssumption
<1>2. (CHOOSE q \in Payload : TRUE) \in Payload
  BY <1>1
<1> QED
  BY <1>2 DEF Genesis, Block

\* The blocks a catch-up response carries are a sequence of stored blocks when
\* the storage has a block of every height asked for.
LEMMA FetchedBlocks ==
  ASSUME NEW n \in Node, NEW start \in Nat,
         curHeader \in [Node -> Block], blocks \in [Node -> SUBSET Block],
         \A h \in start .. curHeader[n].number : \E b \in blocks[n] : b.number = h
  PROVE  /\ FetchCount(n, start) \in Nat
         /\ GetBlocksAfterHeight(n, start) \in Seq(blocks[n])
         /\ Len(GetBlocksAfterHeight(n, start)) = FetchCount(n, start)
         /\ \A i \in 1 .. FetchCount(n, start) :
              GetBlocksAfterHeight(n, start)[i].number = start + i - 1
<1>0. curHeader[n].number \in Nat
  BY DEF Block
<1>1. FetchCount(n, start) \in Nat
  BY <1>0 DEF FetchCount
<1>2. ASSUME NEW i \in 1 .. FetchCount(n, start)
      PROVE  BlockAt(n, start + i - 1) \in blocks[n]
             /\ BlockAt(n, start + i - 1).number = start + i - 1
  <2>1. start + i - 1 \in start .. curHeader[n].number
    BY <1>0 DEF FetchCount
  <2>2. PICK b \in blocks[n] : b.number = start + i - 1
    BY <2>1
  <2> QED
    BY <2>2 DEF BlockAt
<1> QED
  BY <1>1, <1>2 DEF GetBlocksAfterHeight

\* The types of the messages tell them apart.
LEMMA MsgKinds ==
  ASSUME NEW m \in Msg
  PROVE  /\ m.type \in VoteType => m \in Vote
         /\ m.type = "catchupReq" => m \in CatchupReq
         /\ m.type = "catchupResp" => m \in CatchupResp
         /\ m.type \in VoteType \cup {"catchupReq", "catchupResp", "stop"}
BY DEF Msg, Vote, VoteType, CatchupReq, CatchupResp, StopMsg

-----------------------------------------------------------------------------
(* The invariant holds initially. *)

\* The initial state of a shard, after initWithGenesisBlock and NewPBFTNode, has
\* the invariant.
LEMMA InitInv == Init => IInv
<1> SUFFICES ASSUME Init PROVE IInv
  OBVIOUS
<1>1. TypeOK
  <2>1. /\ closed \in [Node -> BOOLEAN] /\ proposed \in [Node -> BOOLEAN]
        /\ catchupStarted \in [Node -> BOOLEAN] /\ stopSent \in BOOLEAN
    BY Zenon DEF Init
  <2>2. curHeader \in [Node -> Block] /\ blocks \in [Node -> SUBSET Block]
    BY GenesisType DEF Init
  <2>3. lost \in 0 .. MaxLost
    BY BoundAssumption DEF Init
  <2> QED
    BY <2>1, <2>2, <2>3 DEF Init, TypeOK, VoteType
<1>2. ProposalInv /\ FlowInv /\ RoundInv /\ CountInv /\ QuorumCertified
  BY DEF Init, ProposalInv, FlowInv, RoundInv, RoundHasProposal, CountInv,
         QuorumCertified
<1>3. ChainInv
  BY NodeAssumption DEF Init, ChainInv, HeadTracksSeq, Genesis
<1>4. CatchupInv /\ LeaderNotBehind
  BY NodeAssumption DEF Init, CatchupInv, LeaderNotBehind
<1> QED
  BY <1>1, <1>2, <1>3, <1>4 DEF IInv

-----------------------------------------------------------------------------
(* Every step keeps the types. *)

\* Every handler and every part of a tick keeps the types.
LEMMA TypeStep ==
  ASSUME IInv, [Next]_vars
  PROVE  TypeOK'
<1> USE DEF IInv, TypeOK
<1>1. CASE UNCHANGED vars
  BY <1>1 DEF vars, metaVars, chainVars
<1>2. ASSUME NEW n \in Node, NEW S \in Batches(n), HandleVotes(n, S)
      PROVE  TypeOK'
  <2>1. S \subseteq inbox[n] /\ \A m \in S : m \in Vote
    BY <1>2, MsgKinds DEF Batches
  <2>2. {m \in S : ~OutOfDate(n, m)} \subseteq Vote
    BY <2>1
  <2>3. latestSeq' \in [Node -> Nat]
    BY <1>2, <2>1 DEF HandleVotes, Vote
  <2>4. msgPool' \in [Node -> SUBSET Vote]
    BY <1>2, <2>2 DEF HandleVotes
  <2>5. inbox' \in [Node -> SUBSET Msg]
    BY <1>2 DEF HandleVotes
  <2> QED
    BY <1>2, <2>3, <2>4, <2>5 DEF HandleVotes, metaVars, chainVars
<1>3. ASSUME NEW n \in Node, NEW m \in inbox[n], HandleCatchupReq(n, m)
      PROVE  TypeOK'
  <2>1. m \in CatchupReq
    BY <1>3, MsgKinds DEF HandleCatchupReq
  <2>2. n = Leader /\ m.start \in Nat /\ m.start >= 1 /\ m.node \in Node
    BY <1>3, <2>1 DEF HandleCatchupReq, CatchupInv, ReqOK, CatchupReq
  <2>3. GetBlocksAfterHeight(n, m.start) \in Seq(Block)
    <3>1. \A h \in m.start .. curHeader[n].number : \E b \in blocks[n] : b.number = h
      BY <2>2, NodeAssumption DEF ChainInv, Block
    <3>2. GetBlocksAfterHeight(n, m.start) \in Seq(blocks[n])
      BY <2>2, <3>1, FetchedBlocks
    <3> QED
      BY <3>2
  <2>4. [type |-> "catchupResp", node |-> n, next |-> NextSeq(n),
         proposals |-> GetBlocksAfterHeight(n, m.start)] \in Msg
    BY <2>3 DEF Msg, CatchupResp, NextSeq
  <2>5. inbox' \in [Node -> SUBSET Msg]
    BY <1>3, <2>2, <2>4 DEF HandleCatchupReq
  <2> QED
    BY <1>3, <2>5 DEF HandleCatchupReq, metaVars, chainVars
<1>4. ASSUME NEW n \in Node, NEW m \in inbox[n], HandleCatchupResp(n, m)
      PROVE  TypeOK'
  <2>1. m \in CatchupResp
    BY <1>4, MsgKinds DEF HandleCatchupResp
  <2>2. inbox' \in [Node -> SUBSET Msg]
    BY <1>4 DEF HandleCatchupResp, Receive
  <2>3. CASE ApplyCatchup(n, m)
    <3>1. /\ m.next \in Nat
          /\ \A i \in DOMAIN m.proposals : m.proposals[i] \in Block
          /\ m.proposals # <<>> => m.proposals[Len(m.proposals)] \in Block
      BY <2>1 DEF CatchupResp
    <3>2. blocks' \in [Node -> SUBSET Block] /\ curHeader' \in [Node -> Block]
      BY <2>3, <3>1 DEF ApplyCatchup
    <3>3. /\ seq' \in [Node -> Nat]
          /\ stage' \in [Node -> VoteType]
          /\ curPreprepare' \in [Node -> SUBSET Vote]
          /\ prepareSet' \in [Node -> SUBSET Node]
          /\ commitSet' \in [Node -> SUBSET Node]
          /\ proposed' \in [Node -> BOOLEAN]
          /\ catchupStarted' \in [Node -> BOOLEAN]
      BY <2>3, <3>1 DEF ApplyCatchup, CatchupReset, VoteType
    <3> QED
      BY <1>4, <2>2, <3>2, <3>3 DEF HandleCatchupResp
  <2>4. CASE UNCHANGED <<metaVars, catchupStarted, chainVars>>
    BY <1>4, <2>2, <2>4 DEF HandleCatchupResp, metaVars, chainVars
  <2> QED
    BY <1>4, <2>3, <2>4 DEF HandleCatchupResp
<1>5. ASSUME NEW n \in Node, NEW m \in inbox[n], HandleStopConsensus(n, m)
      PROVE  TypeOK'
  BY <1>5 DEF HandleStopConsensus, Receive, metaVars, chainVars
<1>6. ASSUME NEW n \in Node, CurateMsg(n)
      PROVE  TypeOK'
  <2>1. \A type : Readable(n, type) \subseteq Vote
    BY DEF Readable
  <2>2. \A type, pp : Counted(n, type, pp) \subseteq Node
    BY <2>1 DEF Counted, Vote
  <2>3. \A pp \in Candidates(n) : pp \in Vote
    BY <2>1 DEF Candidates
  <2>4. /\ prepareSet' \in [Node -> SUBSET Node]
        /\ commitSet' \in [Node -> SUBSET Node]
        /\ msgPool' \in [Node -> SUBSET Vote]
    BY <1>6, <2>2 DEF CurateMsg, CountVotes
  <2>5. curPreprepare' \in [Node -> SUBSET Vote]
    BY <1>6, <2>3 DEF CurateMsg
  <2> QED
    BY <1>6, <2>4, <2>5 DEF CurateMsg, chainVars
<1>7. ASSUME NEW n \in Node, Step2Prepare(n) \/ Step2Commit(n)
      PROVE  TypeOK'
  <2>1. \A type \in VoteType : \A pp \in curPreprepare[n] : VoteFor(n, type, pp) \in Vote
    BY DEF VoteFor, Vote
  <2>2. \A m \in Vote : Broadcast(m) => inbox' \in [Node -> SUBSET Msg] /\ sent' \subseteq Vote
    BY DEF Broadcast, Msg
  <2> QED
    BY <1>7, <2>1, <2>2 DEF Step2Prepare, Step2Commit, VoteType, chainVars
<1>8. ASSUME NEW n \in Node, Step2Deliver(n)
      PROVE  TypeOK'
  BY <1>8 DEF Step2Deliver, ResetRound, VoteType, Vote
<1>9. ASSUME NEW n \in Node, Propose(n)
      PROVE  TypeOK'
  <2>1. PICK p \in Payload :
          Broadcast([type |-> "preprepare", seq |-> seq[n], node |-> Leader,
                     block |-> [number |-> curHeader[n].number + 1, payload |-> p]])
    BY <1>9 DEF Propose
  <2>2. [type |-> "preprepare", seq |-> seq[n], node |-> Leader,
         block |-> [number |-> curHeader[n].number + 1, payload |-> p]] \in Vote
    BY NodeAssumption DEF Vote, VoteType, Block
  <2>3. inbox' \in [Node -> SUBSET Msg] /\ sent' \subseteq Vote
    BY <2>1, <2>2 DEF Broadcast, Msg
  <2>4. pc' \in [Node -> {"drain", "step", "act", "closed"}]
    BY <1>9 DEF Propose, EndTick
  <2> QED
    BY <1>9, <2>3, <2>4 DEF Propose, chainVars
<1>10. ASSUME NEW n \in Node, SkipPropose(n) \/ NoCatchUp(n) \/ StepWait(n)
       PROVE  TypeOK'
  BY <1>10 DEF SkipPropose, NoCatchUp, StepWait, EndTick, metaVars, chainVars
<1>11. ASSUME NEW n \in Node, CatchUpStart(n)
       PROVE  TypeOK'
  <2>1. [type |-> "catchupReq", node |-> n, start |-> StartHeight(n)] \in Msg
    BY DEF Msg, CatchupReq, StartHeight, Block
  <2> QED
    BY <1>11, <2>1, NodeAssumption DEF CatchUpStart, EndTick, metaVars, chainVars
<1>12. ASSUME SendStop
       PROVE  TypeOK'
  BY <1>12 DEF SendStop, Msg, metaVars, chainVars
<1>13. ASSUME NEW n \in Node, NEW m \in inbox[n], LoseMsg(n, m)
       PROVE  TypeOK'
  BY <1>13, BoundAssumption DEF LoseMsg, metaVars, chainVars
<1> QED
  BY <1>1, <1>2, <1>3, <1>4, <1>5, <1>6, <1>7, <1>8, <1>9, <1>10, <1>11, <1>12, <1>13
  DEF Next, HandleMessage, Tick

-----------------------------------------------------------------------------
(* The steps that change a round, a chain or the history of votes. *)

\* A catch-up response that is applied, by a follower.
Transfer(n, m) ==
  n # Leader /\ m \in inbox[n] /\ m.type = "catchupResp" /\ ApplyCatchup(n, m)
  /\ UNCHANGED <<msgPool, latestSeq, sent>> /\ Receive(n, m)

\* A step that changes the round, the chain or the votes sent is one of these.
LEMMA StepKinds ==
  ASSUME IInv, [Next]_vars
  PROVE  \/ UNCHANGED <<metaVars, chainVars, sent>>
         \/ \E n \in Node : CurateMsg(n)
         \/ \E n \in Node : Step2Prepare(n) \/ Step2Commit(n)
         \/ \E n \in Node : Step2Deliver(n)
         \/ Propose(Leader)
         \/ \E n \in Node : \E m \in inbox[n] : Transfer(n, m)
<1>1. CASE UNCHANGED vars
  BY <1>1 DEF vars, metaVars, chainVars
<1>2. ASSUME NEW n \in Node, HandleMessage(n)
      PROVE  \/ UNCHANGED <<metaVars, chainVars, sent>>
             \/ \E m \in inbox[n] : Transfer(n, m)
  <2>1. ASSUME NEW m \in inbox[n], HandleCatchupResp(n, m), ApplyCatchup(n, m),
               m.node = Leader, catchupStarted[n]
        PROVE  Transfer(n, m)
    BY <2>1 DEF IInv, CatchupInv, HandleCatchupResp, Transfer
  <2> QED
    BY <1>2, <2>1 DEF HandleMessage, HandleVotes, HandleCatchupReq,
       HandleCatchupResp, HandleStopConsensus
<1>3. ASSUME NEW n \in Node, Tick(n)
      PROVE  \/ UNCHANGED <<metaVars, chainVars, sent>>
             \/ CurateMsg(n) \/ Step2Prepare(n) \/ Step2Commit(n)
             \/ Step2Deliver(n) \/ Propose(Leader)
  BY <1>3 DEF Tick, StepWait, SkipPropose, CatchUpStart, NoCatchUp, Propose, MayPropose
<1>4. ASSUME SendStop \/ \E n \in Node : \E m \in inbox[n] : LoseMsg(n, m)
      PROVE  UNCHANGED <<metaVars, chainVars, sent>>
  BY <1>4 DEF SendStop, LoseMsg
<1> QED
  BY <1>1, <1>2, <1>3, <1>4 DEF Next

\* The leader proposes at most one block per round (propose, step2Next).
LEMMA ProposalStep ==
  ASSUME IInv, [Next]_vars
  PROVE  ProposalInv'
<1> USE NodeAssumption DEF IInv, ProposalInv
<1>1. CASE UNCHANGED <<metaVars, chainVars, sent>>
  BY <1>1 DEF metaVars
<1>2. ASSUME NEW n \in Node, CurateMsg(n)
      PROVE  ProposalInv'
  BY <1>2 DEF CurateMsg
<1>3. ASSUME NEW n \in Node, Step2Prepare(n) \/ Step2Commit(n)
      PROVE  ProposalInv'
  <2>1. PICK v : /\ sent' = sent \cup {v}
                 /\ v.type # "preprepare"
    BY <1>3 DEF Step2Prepare, Step2Commit, Broadcast, VoteFor
  <2> QED
    BY <1>3, <2>1 DEF Step2Prepare, Step2Commit
<1>4. ASSUME NEW n \in Node, Step2Deliver(n)
      PROVE  ProposalInv'
  <2>1. sent' = sent /\ seq' = [seq EXCEPT ![n] = @ + 1]
        /\ proposed' = [proposed EXCEPT ![n] = FALSE]
    BY <1>4 DEF Step2Deliver, ResetRound
  <2>2. \A m \in sent : m.type = "preprepare" => m.seq \in Nat
    BY DEF TypeOK, Vote
  <2> QED
    BY <2>1, <2>2 DEF TypeOK
<1>5. CASE Propose(Leader)
  <2>1. PICK p \in Payload :
          sent' = sent \cup {[type |-> "preprepare", seq |-> seq[Leader], node |-> Leader,
                     block |-> [number |-> curHeader[Leader].number + 1, payload |-> p]]}
    BY <1>5 DEF Propose, Broadcast
  <2>2. ~proposed[Leader] /\ seq' = seq /\ proposed' = [proposed EXCEPT ![Leader] = TRUE]
    BY <1>5 DEF Propose, MayPropose
  <2>3. curHeader[Leader].number = seq[Leader] + 1
    BY DEF ChainInv, HeadTracksSeq
  <2> QED
    BY <2>1, <2>2, <2>3 DEF TypeOK
<1>6. ASSUME NEW n \in Node, NEW m \in inbox[n], Transfer(n, m)
      PROVE  ProposalInv'
  BY <1>6 DEF Transfer, ApplyCatchup, CatchupReset, TypeOK
<1> QED
  BY <1>1, <1>2, <1>3, <1>4, <1>5, <1>6, StepKinds

\* Votes stay votes for proposals, and curPreprepare the proposal of the round.
LEMMA RoundStep ==
  ASSUME IInv, [Next]_vars
  PROVE  RoundInv'
<1> USE NodeAssumption DEF IInv, RoundInv, RoundHasProposal
<1>0. TypeOK' /\ sent \subseteq sent'
  <2>1. TypeOK'
    BY TypeStep
  <2>2. sent \subseteq sent'
    BY StepKinds DEF CurateMsg, Step2Prepare, Step2Commit, Step2Deliver, Propose,
       Transfer, Broadcast
  <2> QED
    BY <2>1, <2>2
<1>1. CASE UNCHANGED <<metaVars, chainVars, sent>>
  BY <1>1 DEF metaVars, Proposed
<1>2. ASSUME NEW n \in Node, CurateMsg(n)
      PROVE  RoundInv'
  <2>1. \A pp \in Candidates(n) : pp \in sent /\ pp.type = "preprepare" /\ pp.seq = seq[n]
    BY DEF Candidates, Readable, FlowInv
  <2>2. UNCHANGED <<stage, seq, sent>>
    BY <1>2 DEF CurateMsg
  <2>3. \/ UNCHANGED curPreprepare
        \/ \E pp \in Candidates(n) : curPreprepare' = [curPreprepare EXCEPT ![n] = {pp}]
    BY <1>2 DEF CurateMsg
  <2>4. \A m \in sent' : Proposed(m.seq, m.block)'
    BY <2>2 DEF Proposed
  <2>5. \A k \in Node : \A m \in curPreprepare'[k] :
          m \in sent' /\ m.type = "preprepare" /\ m.seq = seq'[k]
    <3>1. CASE UNCHANGED curPreprepare
      BY <2>2, <3>1
    <3>2. ASSUME NEW pp \in Candidates(n),
                 curPreprepare' = [curPreprepare EXCEPT ![n] = {pp}]
          PROVE  \A k \in Node : \A m \in curPreprepare'[k] :
                   m \in sent' /\ m.type = "preprepare" /\ m.seq = seq'[k]
      <4>1. \A k \in Node : curPreprepare'[k] = IF k = n THEN {pp} ELSE curPreprepare[k]
        BY <3>2 DEF TypeOK
      <4> QED
        BY <2>1, <2>2, <4>1
    <3> QED
      BY <2>3, <3>1, <3>2
  <2>6. \A k \in Node : stage'[k] # "preprepare" => curPreprepare'[k] # {}
    <3>1. \A k \in Node : curPreprepare[k] # {} => curPreprepare'[k] # {}
      <4>1. CASE UNCHANGED curPreprepare
        BY <4>1
      <4>2. ASSUME NEW pp, curPreprepare' = [curPreprepare EXCEPT ![n] = {pp}]
            PROVE  \A k \in Node : curPreprepare[k] # {} => curPreprepare'[k] # {}
        <5>1. \A k \in Node : curPreprepare'[k] = IF k = n THEN {pp} ELSE curPreprepare[k]
          BY <4>2 DEF TypeOK
        <5> QED
          BY <5>1
      <4> QED
        BY <2>3, <4>1, <4>2
    <3> QED
      BY <2>2, <3>1
  <2> QED
    BY <2>4, <2>5, <2>6
<1>3. ASSUME NEW n \in Node, Step2Prepare(n) \/ Step2Commit(n)
      PROVE  RoundInv'
  <2>1. PICK pp \in curPreprepare[n], type \in VoteType : sent' = sent \cup {VoteFor(n, type, pp)}
    BY <1>3 DEF Step2Prepare, Step2Commit, Broadcast, VoteType
  <2>2. \A m \in sent' : Proposed(m.seq, m.block)'
    BY <2>1, <1>0 DEF VoteFor, Proposed
  <2> QED
    BY <1>3, <2>1, <2>2 DEF Step2Prepare, Step2Commit, TypeOK
<1>4. ASSUME NEW n \in Node, Step2Deliver(n)
      PROVE  RoundInv'
  BY <1>4 DEF Step2Deliver, ResetRound, TypeOK, Proposed
<1>5. CASE Propose(Leader)
  <2>1. UNCHANGED <<curPreprepare, stage, seq>>
    BY <1>5 DEF Propose
  <2>2. PICK p \in Payload :
          sent' = sent \cup {[type |-> "preprepare", seq |-> seq[Leader], node |-> Leader,
                     block |-> [number |-> curHeader[Leader].number + 1, payload |-> p]]}
    BY <1>5 DEF Propose, Broadcast
  <2>3. \A m \in sent' : Proposed(m.seq, m.block)'
    BY <2>2 DEF Proposed
  <2> QED
    BY <2>1, <2>2, <2>3
<1>6. ASSUME NEW n \in Node, NEW m \in inbox[n], Transfer(n, m)
      PROVE  RoundInv'
  BY <1>6 DEF Transfer, ApplyCatchup, CatchupReset, TypeOK, Proposed
<1> QED
  BY <1>1, <1>2, <1>3, <1>4, <1>5, <1>6, StepKinds

\* The pools and the network hold only votes that were sent.
LEMMA FlowStep ==
  ASSUME IInv, [Next]_vars
  PROVE  FlowInv'
<1> USE DEF IInv, FlowInv
<1>0. inbox \in [Node -> SUBSET Msg] /\ msgPool \in [Node -> SUBSET Vote]
  BY DEF TypeOK
<1>1. CASE UNCHANGED vars
  BY <1>1 DEF vars
<1>2. ASSUME NEW n \in Node, NEW S \in Batches(n), HandleVotes(n, S)
      PROVE  FlowInv'
  <2>1. S \subseteq inbox[n] /\ \A m \in S : m.type \in VoteType
    BY DEF Batches
  <2>2. sent' = sent /\ inbox' = [inbox EXCEPT ![n] = @ \ S]
    BY <1>2 DEF HandleVotes
  <2>3. \A k \in Node : msgPool'[k] \subseteq msgPool[k] \cup (IF k = n THEN S ELSE {})
    BY <1>2, <1>0 DEF HandleVotes
  <2> QED
    BY <1>0, <2>1, <2>2, <2>3
<1>3. ASSUME NEW n \in Node, NEW m \in inbox[n], HandleCatchupReq(n, m)
      PROVE  FlowInv'
  <2>1. \A k \in Node : inbox'[k] \subseteq inbox[k] \cup
          {[type |-> "catchupResp", node |-> n, next |-> NextSeq(n),
            proposals |-> GetBlocksAfterHeight(n, m.start)]}
    BY <1>3, <1>0 DEF HandleCatchupReq
  <2> QED
    BY <1>3, <1>0, <2>1 DEF HandleCatchupReq, VoteType
<1>4. ASSUME NEW n \in Node, NEW m \in inbox[n],
             HandleCatchupResp(n, m) \/ HandleStopConsensus(n, m) \/ LoseMsg(n, m)
      PROVE  FlowInv'
  BY <1>4, <1>0 DEF HandleCatchupResp, HandleStopConsensus, LoseMsg, Receive
<1>5. ASSUME NEW n \in Node, CurateMsg(n)
      PROVE  FlowInv'
  <2>1. UNCHANGED <<inbox, sent>>
    BY <1>5 DEF CurateMsg
  <2>2. \A k \in Node : msgPool'[k] \subseteq msgPool[k]
    BY <1>5, <1>0 DEF CurateMsg, CountVotes
  <2> QED
    BY <2>1, <2>2
<1>6. ASSUME NEW v, Broadcast(v), UNCHANGED msgPool
      PROVE  FlowInv'
  BY <1>6, <1>0 DEF Broadcast
<1>7. ASSUME NEW n \in Node, Step2Prepare(n) \/ Step2Commit(n) \/ Propose(n)
      PROVE  FlowInv'
  BY <1>6, <1>7 DEF Step2Prepare, Step2Commit, Propose
<1>8. ASSUME NEW n \in Node,
             Step2Deliver(n) \/ StepWait(n) \/ SkipPropose(n) \/ NoCatchUp(n)
      PROVE  FlowInv'
  BY <1>8 DEF Step2Deliver, StepWait, SkipPropose, NoCatchUp
<1>9. ASSUME NEW n \in Node, CatchUpStart(n)
      PROVE  FlowInv'
  <2>1. \A k \in Node : inbox'[k] \subseteq inbox[k] \cup
          {[type |-> "catchupReq", node |-> n, start |-> StartHeight(n)]}
    BY <1>9, <1>0 DEF CatchUpStart
  <2> QED
    BY <1>9, <2>1 DEF CatchUpStart, VoteType
<1>10. CASE SendStop
  BY <1>10, <1>0 DEF SendStop, StopMsg, VoteType
<1> QED
  BY <1>1, <1>2, <1>3, <1>4, <1>5, <1>7, <1>8, <1>9, <1>10
  DEF Next, HandleMessage, Tick

\* The set of voters for a block only grows.
LEMMA VotersGrow ==
  ASSUME IInv, [Next]_vars, NEW type, NEW b
  PROVE  /\ sent \subseteq sent'
         /\ Voters(type, b) \subseteq Voters(type, b)'
<1>1. sent \subseteq sent'
  BY StepKinds DEF CurateMsg, Step2Prepare, Step2Commit, Step2Deliver, Propose,
     Transfer, Broadcast
<1> QED
  BY <1>1 DEF Voters

\* curateMsg counts only votes for the proposal held, and resets drop them.
LEMMA CountStep ==
  ASSUME IInv, [Next]_vars
  PROVE  CountInv'
<1> USE DEF IInv
<1>1. CASE UNCHANGED <<metaVars, chainVars, sent>>
  BY <1>1 DEF metaVars, CountInv, Voters
<1>2. ASSUME NEW n \in Node, CurateMsg(n)
      PROVE  CountInv'
  <2>1. UNCHANGED sent
    BY <1>2 DEF CurateMsg
  <2>2. \A type, pp : Counted(n, type, pp) \subseteq Voters(type, pp.block)
    BY DEF Counted, Readable, Voters, FlowInv
  <2>3. CASE \E pp \in curPreprepare[n] : CountVotes(n, pp, {}) /\ UNCHANGED curPreprepare
    <3>1. PICK pp \in curPreprepare[n] : CountVotes(n, pp, {}) /\ UNCHANGED curPreprepare
      BY <2>3
    <3>2. \A q \in curPreprepare[n] : q = pp
      BY DEF RoundInv, RoundHasProposal, ProposalInv
    <3> QED
      BY <2>1, <2>2, <3>1, <3>2 DEF CountVotes, CountInv, Voters, TypeOK
  <2>4. CASE curPreprepare[n] = {} /\ \E pp \in Candidates(n) :
               /\ curPreprepare' = [curPreprepare EXCEPT ![n] = {pp}]
               /\ CountVotes(n, pp, Readable(n, "preprepare"))
    BY <2>1, <2>2, <2>4 DEF CountVotes, CountInv, Voters, TypeOK
  <2>5. CASE UNCHANGED <<curPreprepare, prepareSet, commitSet>>
    BY <2>1, <2>5 DEF CountInv, Voters
  <2> QED
    BY <1>2, <2>3, <2>4, <2>5 DEF CurateMsg
<1>3. ASSUME UNCHANGED <<curPreprepare, prepareSet, commitSet>>
      PROVE  CountInv'
  BY <1>3, VotersGrow DEF CountInv
<1>4. ASSUME NEW n \in Node, Step2Prepare(n) \/ Step2Commit(n) \/ Propose(n)
      PROVE  CountInv'
  BY <1>3, <1>4 DEF Step2Prepare, Step2Commit, Propose
<1>5. ASSUME NEW n \in Node, Step2Deliver(n)
      PROVE  CountInv'
  BY <1>5 DEF Step2Deliver, ResetRound, CountInv, Voters, TypeOK
<1>6. ASSUME NEW n \in Node, NEW m \in inbox[n], Transfer(n, m)
      PROVE  CountInv'
  BY <1>6 DEF Transfer, ApplyCatchup, CatchupReset, CountInv, Voters, TypeOK
<1> QED
  BY <1>1, <1>2, <1>4, <1>5, <1>6, NodeAssumption, StepKinds

\* Round and height keep moving together (Step2Deliver, handleCatchupResp).
LEMMA ChainStep ==
  ASSUME IInv, [Next]_vars
  PROVE  ChainInv'
<1> USE NodeAssumption DEF IInv
<1>1. ASSUME UNCHANGED <<seq, chainVars>>
      PROVE  ChainInv'
  <2>1. sent \subseteq sent'
    BY VotersGrow
  <2> QED
    BY <1>1, <2>1 DEF ChainInv, HeadTracksSeq, chainVars
<1>2. ASSUME NEW n \in Node, Step2Deliver(n)
      PROVE  ChainInv'
  <2>1. PICK pp \in curPreprepare[n] :
          /\ curHeader' = [curHeader EXCEPT ![n] = pp.block]
          /\ blocks' = [blocks EXCEPT ![n] = @ \cup {pp.block}]
    BY <1>2 DEF Step2Deliver
  <2>2. pp \in sent /\ pp.type = "preprepare" /\ pp.seq = seq[n]
    BY DEF RoundInv, RoundHasProposal
  <2>3. pp.block.number = seq[n] + 2
    BY <2>2 DEF ProposalInv
  <2>4. seq' = [seq EXCEPT ![n] = @ + 1] /\ sent' = sent
    BY <1>2 DEF Step2Deliver
  <2>5. HeadTracksSeq'
    BY <2>1, <2>3, <2>4 DEF HeadTracksSeq, ChainInv, TypeOK
  <2>6. \A k \in Node : curHeader'[k] \in blocks'[k]
    BY <2>1 DEF ChainInv, TypeOK
  <2>7. \A k \in Node : \A b \in blocks'[k] :
          b = Genesis \/ \E m \in sent' : m.type = "preprepare" /\ m.block = b
    <3>1. \A k \in Node : \A b \in blocks'[k] : b \in blocks[k] \/ b = pp.block
      BY <2>1 DEF TypeOK
    <3> QED
      BY <2>2, <2>4, <3>1 DEF ChainInv
  <2>8. \A h \in 1 .. curHeader'[Leader].number : \E b \in blocks'[Leader] : b.number = h
    <3>1. CASE n = Leader
      <4>1. curHeader'[Leader].number = curHeader[Leader].number + 1
        BY <2>1, <2>3, <3>1 DEF ChainInv, HeadTracksSeq, TypeOK
      <4>2. blocks[Leader] \subseteq blocks'[Leader] /\ pp.block \in blocks'[Leader]
        BY <2>1, <3>1 DEF TypeOK
      <4>3. curHeader[Leader].number = seq[Leader] + 1 /\ seq[Leader] \in Nat
        BY DEF ChainInv, HeadTracksSeq, TypeOK
      <4>4. pp.block.number = curHeader[Leader].number + 1
        BY <2>3, <3>1, <4>3
      <4> QED
        BY <4>1, <4>2, <4>3, <4>4 DEF ChainInv
    <3>2. CASE n # Leader
      <4>1. curHeader'[Leader] = curHeader[Leader] /\ blocks'[Leader] = blocks[Leader]
        BY <2>1, <3>2 DEF TypeOK
      <4> QED
        BY <4>1 DEF ChainInv
    <3> QED
      BY <3>1, <3>2
  <2> QED
    BY <2>5, <2>6, <2>7, <2>8 DEF ChainInv
<1>3. ASSUME NEW n \in Node, NEW m \in inbox[n], Transfer(n, m)
      PROVE  ChainInv'
  <2>1. n # Leader /\ m.type = "catchupResp" /\ sent' = sent
    BY <1>3 DEF Transfer
  <2>2. m \in CatchupResp
    BY <2>1, MsgKinds DEF TypeOK
  <2>3. /\ m.proposals # <<>>
        /\ \A i \in DOMAIN m.proposals : m.proposals[i] \in blocks[Leader]
        /\ m.proposals[Len(m.proposals)].number = m.next + 1
    BY <2>1 DEF CatchupInv, RespOK
  <2>4. Len(m.proposals) \in DOMAIN m.proposals
    BY <2>2, <2>3 DEF CatchupResp
  <2>5. /\ blocks' = [blocks EXCEPT ![n] = @ \cup {m.proposals[i] : i \in DOMAIN m.proposals}]
        /\ curHeader' = [curHeader EXCEPT ![n] = m.proposals[Len(m.proposals)]]
        /\ seq' = [seq EXCEPT ![n] = m.next]
    BY <1>3, <2>3 DEF Transfer, ApplyCatchup
  <2>6. HeadTracksSeq'
    BY <2>3, <2>5 DEF HeadTracksSeq, ChainInv, TypeOK
  <2>7. \A k \in Node : curHeader'[k] \in blocks'[k]
    BY <2>4, <2>5 DEF ChainInv, TypeOK
  <2>8. \A k \in Node : \A b \in blocks'[k] : b \in blocks[k] \/ b \in blocks[Leader]
    BY <2>3, <2>5 DEF TypeOK
  <2>9. curHeader'[Leader] = curHeader[Leader] /\ blocks'[Leader] = blocks[Leader]
    BY <2>1, <2>5 DEF TypeOK
  <2> QED
    BY <2>1, <2>6, <2>7, <2>8, <2>9 DEF ChainInv
<1>4. ASSUME NEW n \in Node,
             CurateMsg(n) \/ Step2Prepare(n) \/ Step2Commit(n) \/ Propose(n)
      PROVE  UNCHANGED <<seq, chainVars>>
  BY <1>4 DEF CurateMsg, Step2Prepare, Step2Commit, Propose
<1>5. CASE UNCHANGED <<metaVars, chainVars, sent>>
  BY <1>1, <1>5 DEF metaVars
<1> QED
  BY <1>1, <1>2, <1>3, <1>4, <1>5, StepKinds

\* No follower overtakes the round the leader has proposed.
LEMMA LeaderStep ==
  ASSUME IInv, [Next]_vars
  PROVE  LeaderNotBehind'
<1> USE NodeAssumption DEF IInv
<1>1. ASSUME UNCHANGED <<seq, proposed>>
      PROVE  LeaderNotBehind'
  BY <1>1 DEF LeaderNotBehind
<1>2. ASSUME NEW n \in Node, Step2Deliver(n)
      PROVE  LeaderNotBehind'
  <2>1. PICK pp \in curPreprepare[n] : TRUE
    BY <1>2 DEF Step2Deliver
  <2>2. seq[n] <= seq[Leader] /\ (seq[n] = seq[Leader] => proposed[Leader])
    BY DEF RoundInv, RoundHasProposal, ProposalInv
  <2>3. /\ seq' = [seq EXCEPT ![n] = @ + 1]
        /\ proposed' = [proposed EXCEPT ![n] = FALSE]
    BY <1>2 DEF Step2Deliver, ResetRound
  <2>4. CASE n = Leader
    BY <2>3, <2>4 DEF LeaderNotBehind, TypeOK
  <2>5. CASE n # Leader
    BY <2>2, <2>3, <2>5 DEF LeaderNotBehind, TypeOK
  <2> QED
    BY <2>4, <2>5
<1>3. ASSUME NEW n \in Node, NEW m \in inbox[n], Transfer(n, m)
      PROVE  LeaderNotBehind'
  <2>1. n # Leader /\ m.next <= seq[Leader] /\ m \in CatchupResp
    BY <1>3, MsgKinds DEF Transfer, CatchupInv, RespOK, TypeOK
  <2>2. /\ seq' = [seq EXCEPT ![n] = m.next]
        /\ proposed' = [proposed EXCEPT ![n] = FALSE]
    BY <1>3 DEF Transfer, ApplyCatchup, CatchupReset
  <2>3. m.next \in Nat
    BY <2>1 DEF CatchupResp
  <2> QED
    BY <2>1, <2>2, <2>3 DEF LeaderNotBehind, TypeOK
<1>4. ASSUME NEW n \in Node, CurateMsg(n) \/ Step2Prepare(n) \/ Step2Commit(n)
      PROVE  UNCHANGED <<seq, proposed>>
  BY <1>4 DEF CurateMsg, Step2Prepare, Step2Commit
<1>5. CASE UNCHANGED <<metaVars, chainVars, sent>>
  BY <1>1, <1>5 DEF metaVars
<1>6. CASE Propose(Leader)
  BY <1>6 DEF Propose, LeaderNotBehind, TypeOK
<1> QED
  BY <1>1, <1>2, <1>3, <1>4, <1>5, <1>6, StepKinds

\* The chain and the round of the leader only grow.
LEMMA LeaderGrows ==
  ASSUME IInv, [Next]_vars
  PROVE  /\ seq'[Leader] >= seq[Leader]
         /\ curHeader'[Leader].number >= curHeader[Leader].number
         /\ blocks[Leader] \subseteq blocks'[Leader]
<1> USE NodeAssumption DEF IInv
<1>1. ASSUME NEW n \in Node, Step2Deliver(n)
      PROVE  seq'[Leader] >= seq[Leader] /\ blocks[Leader] \subseteq blocks'[Leader]
  BY <1>1 DEF Step2Deliver, TypeOK
<1>2. ASSUME NEW n \in Node, NEW m \in inbox[n], Transfer(n, m)
      PROVE  seq'[Leader] >= seq[Leader] /\ blocks[Leader] \subseteq blocks'[Leader]
  BY <1>2 DEF Transfer, ApplyCatchup, TypeOK
<1>3. ASSUME UNCHANGED <<seq, chainVars>>
      PROVE  seq'[Leader] >= seq[Leader] /\ blocks[Leader] \subseteq blocks'[Leader]
  BY <1>3 DEF chainVars, TypeOK
<1>4. seq'[Leader] >= seq[Leader] /\ blocks[Leader] \subseteq blocks'[Leader]
  BY <1>1, <1>2, <1>3, StepKinds DEF CurateMsg, Step2Prepare, Step2Commit, Propose, metaVars
<1>5. HeadTracksSeq /\ HeadTracksSeq' /\ TypeOK'
  BY ChainStep, TypeStep DEF ChainInv
<1> QED
  BY <1>4, <1>5 DEF HeadTracksSeq, TypeOK

\* Messages of a catch-up stay correct while the leader goes on.
LEMMA CatchupMsgKept ==
  ASSUME IInv, [Next]_vars
  PROVE  /\ \A n \in Node, m \in CatchupReq : ReqOK(n, m) => ReqOK(n, m)'
         /\ \A m \in CatchupResp : RespOK(m) => RespOK(m)'
<1>0. TypeOK /\ TypeOK'
  BY TypeStep DEF IInv
<1>1. ASSUME NEW n \in Node, NEW m \in CatchupReq, ReqOK(n, m)
      PROVE  ReqOK(n, m)'
  <2>1. /\ curHeader[Leader].number \in Nat /\ curHeader'[Leader].number \in Nat
        /\ m.start \in Nat
    BY <1>0, NodeAssumption DEF TypeOK, Block, CatchupReq
  <2> QED
    BY <1>1, <2>1, LeaderGrows DEF ReqOK
<1>2. ASSUME NEW m \in CatchupResp, RespOK(m)
      PROVE  RespOK(m)'
  <2>1. seq[Leader] \in Nat /\ seq'[Leader] \in Nat /\ m.next \in Nat
    BY <1>0, NodeAssumption DEF TypeOK, CatchupResp
  <2>2. \A i \in DOMAIN m.proposals : m.proposals[i] \in blocks'[Leader]
    BY <1>2, LeaderGrows DEF RespOK
  <2>3. m.next <= seq'[Leader]
    BY <1>2, <2>1, LeaderGrows DEF RespOK
  <2> QED
    BY <1>2, <2>2, <2>3 DEF RespOK
<1> QED
  BY <1>1, <1>2

\* Requests and responses of a catch-up stay within the chain of the leader.
LEMMA CatchupStep ==
  ASSUME IInv, [Next]_vars
  PROVE  CatchupInv'
<1> USE NodeAssumption DEF IInv
<1>0. /\ inbox \in [Node -> SUBSET Msg] /\ latestSeq \in [Node -> Nat]
      /\ seq \in [Node -> Nat] /\ seq' \in [Node -> Nat]
      /\ catchupStarted \in [Node -> BOOLEAN]
      /\ curHeader \in [Node -> Block] /\ curHeader' \in [Node -> Block]
  BY TypeStep DEF TypeOK
<1>1. ASSUME \A n \in Node : \A m \in inbox'[n] :
               \/ m \in inbox[n]
               \/ m.type \notin {"catchupReq", "catchupResp"}
               \/ m.type = "catchupReq" /\ ReqOK(n, m)'
               \/ m.type = "catchupResp" /\ RespOK(m)'
      PROVE  /\ \A n \in Node : \A m \in inbox'[n] : m.type = "catchupReq" => ReqOK(n, m)'
             /\ \A n \in Node : \A m \in inbox'[n] : m.type = "catchupResp" => RespOK(m)'
  <2>1. ASSUME NEW n \in Node, NEW m \in inbox[n], m.type = "catchupReq"
        PROVE  ReqOK(n, m)'
    BY <1>0, <2>1, MsgKinds, CatchupMsgKept DEF CatchupInv
  <2>2. ASSUME NEW n \in Node, NEW m \in inbox[n], m.type = "catchupResp"
        PROVE  RespOK(m)'
    BY <1>0, <2>2, MsgKinds, CatchupMsgKept DEF CatchupInv
  <2> QED
    BY <1>1, <2>1, <2>2
<1>2. ASSUME UNCHANGED latestSeq
      PROVE  \A n \in Node : latestSeq'[n] <= seq'[Leader]
  BY <1>0, <1>2, LeaderGrows DEF CatchupInv
<1>3. ASSUME UNCHANGED <<latestSeq, catchupStarted>>,
             \A n \in Node : \A m \in inbox'[n] :
               m \in inbox[n] \/ m.type \notin {"catchupReq", "catchupResp"}
      PROVE  CatchupInv'
  BY <1>1, <1>2, <1>3 DEF CatchupInv
<1>4. ASSUME NEW n \in Node, NEW S \in Batches(n), HandleVotes(n, S)
      PROVE  CatchupInv'
  <2>1. UNCHANGED <<catchupStarted, seq>> /\ \A k \in Node : inbox'[k] \subseteq inbox[k]
    BY <1>0, <1>4 DEF HandleVotes, metaVars
  <2>2. \A m \in S : m \in inbox[n] /\ m \in sent
    BY DEF Batches, FlowInv
  <2>3. \A m \in S : m.type = "preprepare" => m.seq <= seq[Leader]
    BY <2>2 DEF ProposalInv
  <2>4. \A k \in Node : latestSeq'[k] = latestSeq[k]
          \/ \E m \in S : m.type = "preprepare" /\ latestSeq'[k] = m.seq
    BY <1>0, <1>4 DEF HandleVotes
  <2>5. \A k \in Node : latestSeq'[k] <= seq'[Leader]
    BY <2>1, <2>3, <2>4 DEF CatchupInv
  <2> QED
    BY <1>1, <2>1, <2>5 DEF CatchupInv
<1>5. ASSUME NEW n \in Node, NEW m \in inbox[n], HandleCatchupReq(n, m)
      PROVE  CatchupInv'
  <2> DEFINE resp == [type |-> "catchupResp", node |-> n, next |-> NextSeq(n),
                      proposals |-> GetBlocksAfterHeight(n, m.start)]
  <2>1. m \in CatchupReq /\ ReqOK(n, m)
    BY <1>0, <1>5, MsgKinds DEF HandleCatchupReq, CatchupInv
  <2>2. n = Leader /\ m.start \in Nat /\ m.start >= 1 /\ m.start <= curHeader[Leader].number
    BY <2>1 DEF ReqOK, CatchupReq
  <2>3. /\ \A k \in Node : inbox'[k] \subseteq inbox[k] \cup {resp}
        /\ UNCHANGED <<latestSeq, catchupStarted, seq, blocks>>
    BY <1>0, <1>5 DEF HandleCatchupReq, metaVars, chainVars
  <2>4. curHeader[Leader].number = seq[Leader] + 1
    BY DEF ChainInv, HeadTracksSeq
  <2>5. FetchCount(n, m.start) = curHeader[Leader].number - m.start + 1
        /\ FetchCount(n, m.start) \in Nat \ {0}
    BY <1>0, <2>2, <2>4 DEF FetchCount
  <2>6. /\ GetBlocksAfterHeight(n, m.start) \in Seq(blocks[n])
        /\ Len(GetBlocksAfterHeight(n, m.start)) = FetchCount(n, m.start)
        /\ \A i \in 1 .. FetchCount(n, m.start) :
             GetBlocksAfterHeight(n, m.start)[i].number = m.start + i - 1
    <3>1. \A h \in m.start .. curHeader[n].number : \E b \in blocks[n] : b.number = h
      BY <1>0, <2>2, <2>4 DEF ChainInv
    <3> QED
      BY <2>2, <3>1, FetchedBlocks DEF TypeOK
  <2>7. RespOK(resp)
    <3> DEFINE q == GetBlocksAfterHeight(n, m.start)
    <3>1. q # <<>> /\ \A i \in DOMAIN q : q[i] \in blocks[Leader]
      BY <2>2, <2>5, <2>6
    <3>2. q[Len(q)].number = seq[Leader] + 1
      <4>1. q[Len(q)].number = m.start + FetchCount(n, m.start) - 1
        BY <2>5, <2>6
      <4> QED
        BY <4>1, <1>0, <2>2, <2>4, <2>5
    <3> QED
      BY <1>0, <2>2, <3>1, <3>2 DEF RespOK, NextSeq
  <2>8. RespOK(resp)'
    <3>1. resp \in CatchupResp
      <4>1. GetBlocksAfterHeight(n, m.start) \in Seq(Block)
        BY <2>6 DEF TypeOK
      <4> QED
        BY <1>0, <4>1 DEF CatchupResp, NextSeq
    <3>2. \A r \in CatchupResp : RespOK(r) => RespOK(r)'
      BY CatchupMsgKept
    <3>3. (resp)' = resp
      BY <1>5 DEF HandleCatchupReq, metaVars, chainVars, NextSeq, GetBlocksAfterHeight, FetchCount, BlockAt
    <3> HIDE DEF resp
    <3> QED
      BY <2>7, <3>1, <3>2, <3>3
  <2>9. \A k \in Node : \A r \in inbox'[k] : r \in inbox[k] \/
          (r.type = "catchupResp" /\ RespOK(r)')
    <3> resp.type = "catchupResp"
      OBVIOUS
    <3>1. (resp)' = resp
      BY <1>5 DEF HandleCatchupReq, metaVars, chainVars, NextSeq,
         GetBlocksAfterHeight, FetchCount, BlockAt
    <3> HIDE DEF resp
    <3>2. ASSUME NEW r, r = resp PROVE r.type = "catchupResp" /\ RespOK(r)'
      BY <2>8, <3>1, <3>2 DEF RespOK
    <3> QED
      BY <2>3, <3>2
  <2> QED
    BY <1>1, <1>2, <2>3, <2>9 DEF CatchupInv
<1>6. ASSUME NEW n \in Node, NEW m \in inbox[n], HandleCatchupResp(n, m)
      PROVE  CatchupInv'
  <2>1. (\A k \in Node : inbox'[k] \subseteq inbox[k]) /\ UNCHANGED latestSeq
    BY <1>0, <1>6 DEF HandleCatchupResp, Receive
  <2>2. ~catchupStarted'[Leader]
    BY <1>0, <1>6 DEF HandleCatchupResp, ApplyCatchup, CatchupInv
  <2> QED
    BY <1>1, <1>2, <2>1, <2>2 DEF CatchupInv
<1>7. ASSUME NEW n \in Node, NEW m \in inbox[n],
             HandleStopConsensus(n, m) \/ LoseMsg(n, m)
      PROVE  CatchupInv'
  <2>1. (\A k \in Node : inbox'[k] \subseteq inbox[k]) /\ UNCHANGED <<latestSeq, catchupStarted>>
    BY <1>0, <1>7 DEF HandleStopConsensus, LoseMsg, Receive
  <2> QED
    BY <1>3, <2>1
<1>8. ASSUME NEW n \in Node,
             CurateMsg(n) \/ Step2Deliver(n) \/ StepWait(n) \/ SkipPropose(n) \/ NoCatchUp(n)
      PROVE  CatchupInv'
  <2>1. UNCHANGED <<inbox, latestSeq, catchupStarted>>
    BY <1>8 DEF CurateMsg, Step2Deliver, StepWait, SkipPropose, NoCatchUp
  <2> QED
    BY <1>3, <2>1
<1>9. ASSUME NEW n \in Node, Step2Prepare(n) \/ Step2Commit(n) \/ Propose(n)
      PROVE  CatchupInv'
  <2>1. UNCHANGED <<latestSeq, catchupStarted>>
    BY <1>9 DEF Step2Prepare, Step2Commit, Propose
  <2>2. PICK v : Broadcast(v) /\ v.type \in VoteType
    <3>1. CASE Step2Prepare(n) \/ Step2Commit(n)
      <4>1. PICK pp \in curPreprepare[n], t \in VoteType : Broadcast(VoteFor(n, t, pp))
        BY <3>1 DEF Step2Prepare, Step2Commit, VoteType
      <4>2. VoteFor(n, t, pp).type = t
        BY DEF VoteFor
      <4> QED
        BY <4>1, <4>2
    <3>2. CASE Propose(n)
      <4>1. PICK p \in Payload :
              Broadcast([type |-> "preprepare", seq |-> seq[n], node |-> Leader,
                         block |-> [number |-> curHeader[n].number + 1, payload |-> p]])
        BY <3>2 DEF Propose
      <4> QED
        BY <4>1 DEF VoteType
    <3> QED
      BY <1>9, <3>1, <3>2
  <2> QED
    BY <1>3, <2>1, <2>2 DEF Broadcast, VoteType
<1>10. ASSUME NEW n \in Node, CatchUpStart(n)
       PROVE  CatchupInv'
  <2> DEFINE req == [type |-> "catchupReq", node |-> n, start |-> StartHeight(n)]
  <2>1. /\ n # Leader /\ latestSeq[n] >= seq[n] + CatchUpThreshold
        /\ UNCHANGED <<latestSeq, seq, curHeader>>
        /\ catchupStarted' = [catchupStarted EXCEPT ![n] = TRUE]
        /\ inbox' = [inbox EXCEPT ![Leader] = @ \cup {req}]
    BY <1>10 DEF CatchUpStart, CatchupReady, metaVars, chainVars
  <2>2. /\ latestSeq[n] <= seq[Leader]
        /\ curHeader[n].number = seq[n] + 1 /\ curHeader[Leader].number = seq[Leader] + 1
    BY DEF CatchupInv, ChainInv, HeadTracksSeq
  <2>3. StartHeight(n) >= 1 /\ StartHeight(n) <= curHeader'[Leader].number
    BY <1>0, <2>1, <2>2, BoundAssumption DEF StartHeight
  <2>4. \A k \in Node : \A r \in inbox'[k] :
          r \in inbox[k] \/ (r.type = "catchupReq" /\ ReqOK(k, r)')
    <3>1. \A k \in Node : \A r \in inbox'[k] : r \in inbox[k] \/ (k = Leader /\ r = req)
      BY <1>0, <2>1
    <3>2. \A r : r = req => r.type = "catchupReq" /\ ReqOK(Leader, r)'
      BY <2>1, <2>3 DEF ReqOK
    <3> QED
      BY <3>1, <3>2
  <2>5. ~catchupStarted'[Leader]
    BY <1>0, <2>1 DEF CatchupInv
  <2> QED
    BY <1>1, <1>2, <2>1, <2>4, <2>5 DEF CatchupInv
<1>11. CASE SendStop
  BY <1>0, <1>3, <1>11 DEF SendStop, StopMsg
<1>12. CASE UNCHANGED vars
  BY <1>3, <1>12 DEF vars
<1> QED
  BY <1>4, <1>5, <1>6, <1>7, <1>8, <1>9, <1>10, <1>11, <1>12
  DEF Next, HandleMessage, Tick

\* A superset of a quorum is a quorum.
LEMMA QuorumGrows ==
  ASSUME NEW T \in SUBSET Node, NEW S \in SUBSET T,
         Cardinality(S) >= 2 * F + 1
  PROVE  Cardinality(T) >= 2 * F + 1
<1>1. Cardinality(Node) \in Nat /\ IsFiniteSet(T)
  BY NodeAssumption, FS_CardinalityType, FS_Subset
<1>2. Cardinality(S) <= Cardinality(T) /\ IsFiniteSet(S)
  BY <1>1, FS_Subset
<1>3. Cardinality(S) \in Nat /\ Cardinality(T) \in Nat
  BY <1>1, <1>2, FS_CardinalityType
<1>4. F \in Int
  BY <1>1 DEF F, N
<1> HIDE DEF F
<1> QED
  BY <1>2, <1>3, <1>4

\* step2Next advances on quorums of votes for the block it then commits.
LEMMA QuorumStep ==
  ASSUME IInv, [Next]_vars
  PROVE  QuorumCertified'
<1> USE NodeAssumption DEF IInv
<1>1. ASSUME NEW type, NEW b, NEW S \in SUBSET Voters(type, b), Cardinality(S) >= 2 * F + 1
      PROVE  Cardinality(Voters(type, b)') >= 2 * F + 1
  <2>1. S \in SUBSET (Voters(type, b)')
    BY VotersGrow
  <2>2. Voters(type, b)' \in SUBSET Node
    <3>1. TypeOK'
      BY TypeStep
    <3> QED
      BY <3>1 DEF TypeOK, Voters, Vote
  <2> QED
    BY <1>1, <2>1, <2>2, QuorumGrows
<1>2. ASSUME NEW type, NEW b, Cardinality(Voters(type, b)) >= 2 * F + 1
      PROVE  Cardinality(Voters(type, b)') >= 2 * F + 1
  BY <1>1, <1>2
<1>3. \A v \in sent : v.type = "commit" =>
        Cardinality(Voters("prepare", v.block)') >= 2 * F + 1
  BY <1>2 DEF QuorumCertified
<1>4. \A n \in Node : \A b \in blocks[n] \ {Genesis} :
        Cardinality(Voters("commit", b)') >= 2 * F + 1
  BY <1>2 DEF QuorumCertified
<1>5. ASSUME \A v \in sent' : v \in sent \/ v.type # "commit"
      PROVE  \A v \in sent' : v.type = "commit" =>
               Cardinality(Voters("prepare", v.block)') >= 2 * F + 1
  BY <1>3, <1>5
<1>6. CASE UNCHANGED <<metaVars, chainVars, sent>>
  BY <1>3, <1>4, <1>6 DEF QuorumCertified, chainVars
<1>7. ASSUME NEW n \in Node, CurateMsg(n)
      PROVE  QuorumCertified'
  BY <1>3, <1>4, <1>7 DEF QuorumCertified, CurateMsg, chainVars
<1>8. ASSUME NEW n \in Node, Step2Prepare(n)
      PROVE  QuorumCertified'
  <2>1. PICK pp \in curPreprepare[n] : sent' = sent \cup {VoteFor(n, "prepare", pp)}
    BY <1>8 DEF Step2Prepare, Broadcast
  <2>2. VoteFor(n, "prepare", pp).type # "commit"
    BY DEF VoteFor
  <2>3. blocks' = blocks
    BY <1>8 DEF Step2Prepare, chainVars
  <2> QED
    BY <1>4, <1>5, <2>1, <2>2, <2>3 DEF QuorumCertified
<1>9. ASSUME NEW n \in Node, Step2Commit(n)
      PROVE  QuorumCertified'
  <2>1. PICK pp \in curPreprepare[n] : sent' = sent \cup {VoteFor(n, "commit", pp)}
    BY <1>9 DEF Step2Commit, Broadcast
  <2>2. VoteFor(n, "commit", pp).block = pp.block
    BY DEF VoteFor
  <2>3. prepareSet[n] \in SUBSET Voters("prepare", pp.block)
    BY DEF CountInv
  <2>4. Cardinality(prepareSet[n]) >= 2 * F + 1
    BY <1>9 DEF Step2Commit, QuorumReached
  <2>5. Cardinality(Voters("prepare", pp.block)') >= 2 * F + 1
    BY <1>1, <2>3, <2>4
  <2>6. blocks' = blocks
    BY <1>9 DEF Step2Commit, chainVars
  <2>7. \A v \in sent' : v.type = "commit" =>
          Cardinality(Voters("prepare", v.block)') >= 2 * F + 1
    BY <1>3, <2>1, <2>2, <2>5
  <2> QED
    BY <1>4, <2>6, <2>7 DEF QuorumCertified
<1>10. ASSUME NEW n \in Node, Step2Deliver(n)
       PROVE  QuorumCertified'
  <2>1. PICK pp \in curPreprepare[n] : blocks' = [blocks EXCEPT ![n] = @ \cup {pp.block}]
    BY <1>10 DEF Step2Deliver
  <2>2. commitSet[n] \in SUBSET Voters("commit", pp.block)
    BY DEF CountInv
  <2>3. Cardinality(commitSet[n]) >= 2 * F + 1 /\ sent' = sent
    BY <1>10 DEF Step2Deliver, QuorumReached
  <2>4. Cardinality(Voters("commit", pp.block)') >= 2 * F + 1
    BY <1>1, <2>2, <2>3
  <2>5. \A k \in Node : \A b \in blocks'[k] : b \in blocks[k] \/ b = pp.block
    BY <2>1 DEF TypeOK
  <2> QED
    BY <1>3, <1>4, <2>3, <2>4, <2>5 DEF QuorumCertified
<1>11. CASE Propose(Leader)
  <2>1. PICK p \in Payload :
          sent' = sent \cup {[type |-> "preprepare", seq |-> seq[Leader], node |-> Leader,
                     block |-> [number |-> curHeader[Leader].number + 1, payload |-> p]]}
    BY <1>11 DEF Propose, Broadcast
  <2>2. blocks' = blocks
    BY <1>11 DEF Propose, chainVars
  <2>3. \A v \in sent' : v \in sent \/ v.type # "commit"
    BY <2>1
  <2> QED
    BY <1>4, <1>5, <2>2, <2>3 DEF QuorumCertified
<1>12. ASSUME NEW n \in Node, NEW m \in inbox[n], Transfer(n, m)
       PROVE  QuorumCertified'
  <2>1. \A i \in DOMAIN m.proposals : m.proposals[i] \in blocks[Leader]
    BY <1>12 DEF Transfer, CatchupInv, RespOK
  <2>2. /\ blocks' = [blocks EXCEPT ![n] = @ \cup {m.proposals[i] : i \in DOMAIN m.proposals}]
        /\ sent' = sent
    BY <1>12 DEF Transfer, ApplyCatchup
  <2>3. \A k \in Node : \A b \in blocks'[k] : b \in blocks[k] \/ b \in blocks[Leader]
    BY <2>1, <2>2 DEF TypeOK
  <2> QED
    BY <1>3, <1>4, <2>2, <2>3 DEF QuorumCertified
<1> QED
  BY <1>6, <1>7, <1>8, <1>9, <1>10, <1>11, <1>12, StepKinds

\* The invariant implies agreement.
LEMMA AgreementInv ==
  ASSUME IInv
  PROVE  Agreement
<1>1. \A n \in Node : \A b \in blocks[n] : b = Genesis \/
        \E m \in sent : /\ m.type = "preprepare" /\ m.block = b
                        /\ b.number = m.seq + 2 /\ m.seq \in Nat
  BY DEF IInv, ChainInv, ProposalInv, TypeOK, Vote
<1>2. Genesis.number = 1
  BY DEF Genesis
<1> SUFFICES ASSUME NEW n \in Node, NEW k \in Node, NEW b \in blocks[n],
                    NEW c \in blocks[k], b.number = c.number
             PROVE  b = c
  BY DEF Agreement
<1>3. CASE b = Genesis \/ c = Genesis
  BY <1>1, <1>2, <1>3
<1>4. CASE b # Genesis /\ c # Genesis
  <2>1. PICK m \in sent : m.type = "preprepare" /\ m.block = b
                          /\ b.number = m.seq + 2 /\ m.seq \in Nat
    BY <1>1, <1>4
  <2>2. PICK w \in sent : w.type = "preprepare" /\ w.block = c
                          /\ c.number = w.seq + 2 /\ w.seq \in Nat
    BY <1>1, <1>4
  <2>3. m.seq = w.seq
    <3>1. m.seq + 2 = w.seq + 2
      BY <2>1, <2>2
    <3> QED
      BY <2>1, <2>2, <3>1
  <2> QED
    BY <2>1, <2>2, <2>3 DEF IInv, ProposalInv
<1> QED
  BY <1>3, <1>4

-----------------------------------------------------------------------------
(* The storages have no hole. *)

Stored(n, h) == \E b \in blocks[n] : b.number = h

\* The sender of request m has every block below the first one it asks for.
ReqCovered(m) == \A h \in 1 .. m.start - 1 : Stored(m.node, h)

\* Response m, added to the storage of n, leaves no hole up to its last block.
RespCovered(n, m) ==
  \A h \in 1 .. m.next + 1 :
    Stored(n, h) \/ \E i \in DOMAIN m.proposals : m.proposals[i].number = h

\* A catch-up asks for what is above the header of that moment and is answered
\* later: the hole it must not leave is below the first block of the response.
GapInv ==
  /\ NoGap
  /\ \A n \in Node : \A m \in inbox[n] : m.type = "catchupReq" => ReqCovered(m)
  /\ \A n \in Node : \A m \in inbox[n] : m.type = "catchupResp" => RespCovered(n, m)

\* No block is ever deleted, and the header moves by a delivery or a catch-up only.
LEMMA StorageGrows ==
  ASSUME IInv, [Next]_vars
  PROVE  /\ \A n \in Node : blocks[n] \subseteq blocks'[n]
         /\ \/ UNCHANGED chainVars
            \/ \E n \in Node : Step2Deliver(n)
            \/ \E n \in Node : \E m \in inbox[n] : Transfer(n, m)
<1>0. blocks \in [Node -> SUBSET Block]
  BY DEF IInv, TypeOK
<1>1. \/ UNCHANGED chainVars
      \/ \E n \in Node : Step2Deliver(n)
      \/ \E n \in Node : \E m \in inbox[n] : Transfer(n, m)
  BY StepKinds DEF CurateMsg, Step2Prepare, Step2Commit, Propose
<1>2. ASSUME NEW n \in Node, Step2Deliver(n)
      PROVE  \A k \in Node : blocks[k] \subseteq blocks'[k]
  BY <1>0, <1>2 DEF Step2Deliver
<1>3. ASSUME NEW n \in Node, NEW m \in inbox[n], Transfer(n, m)
      PROVE  \A k \in Node : blocks[k] \subseteq blocks'[k]
  BY <1>0, <1>3 DEF Transfer, ApplyCatchup
<1> QED
  BY <1>1, <1>2, <1>3 DEF chainVars

\* A delivery appends the block above the header, and a catch-up ends with the
\* block before the round it resumes at.
LEMMA NoGapStep ==
  ASSUME IInv, GapInv, [Next]_vars
  PROVE  NoGap'
<1> USE DEF IInv
<1>0. /\ blocks \in [Node -> SUBSET Block] /\ curHeader \in [Node -> Block]
      /\ seq \in [Node -> Nat]
      /\ \A k \in Node : curHeader[k].number = seq[k] + 1
  BY DEF TypeOK, ChainInv, HeadTracksSeq
<1>1. \A k \in Node : \A h \in 1 .. seq[k] + 1 : Stored(k, h)'
  BY <1>0, StorageGrows DEF GapInv, NoGap, Stored
<1>2. CASE UNCHANGED chainVars
  BY <1>2 DEF chainVars, NoGap, GapInv
<1>3. ASSUME NEW n \in Node, Step2Deliver(n)
      PROVE  NoGap'
  <2>1. PICK pp \in curPreprepare[n] :
          /\ curHeader' = [curHeader EXCEPT ![n] = pp.block]
          /\ blocks' = [blocks EXCEPT ![n] = @ \cup {pp.block}]
    BY <1>3 DEF Step2Deliver
  <2>2. pp \in sent /\ pp.type = "preprepare" /\ pp.seq = seq[n]
    BY DEF RoundInv, RoundHasProposal
  <2>3. pp.block.number = seq[n] + 2
    BY <2>2 DEF ProposalInv
  <2>4. \E b \in blocks'[n] : b.number = seq[n] + 2
    BY <1>0, <2>1, <2>3
  <2>5. \A h \in 1 .. seq[n] + 2 : Stored(n, h)'
    <3>1. seq[n] \in Nat
      BY <1>0
    <3>2. \A h \in 1 .. seq[n] + 2 : h \in 1 .. seq[n] + 1 \/ h = seq[n] + 2
      BY <3>1
    <3> QED
      BY <1>1, <2>4, <3>2 DEF Stored
  <2>6. curHeader'[n].number = seq[n] + 2
        /\ \A k \in Node \ {n} : curHeader'[k].number = seq[k] + 1
    BY <1>0, <2>1, <2>3
  <2> QED
    BY <1>1, <2>5, <2>6 DEF NoGap, Stored
<1>4. ASSUME NEW n \in Node, NEW m \in inbox[n], Transfer(n, m)
      PROVE  NoGap'
  <2>1. m.type = "catchupResp" /\ m \in CatchupResp /\ RespOK(m)
    BY <1>4, MsgKinds DEF Transfer, CatchupInv, TypeOK
  <2>2. /\ blocks' = [blocks EXCEPT ![n] = @ \cup {m.proposals[i] : i \in DOMAIN m.proposals}]
        /\ curHeader' = [curHeader EXCEPT ![n] = m.proposals[Len(m.proposals)]]
    BY <1>4, <2>1 DEF Transfer, ApplyCatchup, RespOK
  <2>3. curHeader'[n].number = m.next + 1
        /\ \A k \in Node \ {n} : curHeader'[k].number = seq[k] + 1
    BY <1>0, <2>1, <2>2 DEF RespOK
  <2>4. \A h \in 1 .. m.next + 1 : Stored(n, h)'
    <3>1. RespCovered(n, m)
      BY <2>1 DEF GapInv
    <3>2. \A i \in DOMAIN m.proposals : m.proposals[i] \in blocks'[n]
      BY <1>0, <2>2
    <3>3. blocks[n] \subseteq blocks'[n]
      BY StorageGrows
    <3> QED
      BY <3>1, <3>2, <3>3 DEF RespCovered, Stored
  <2> QED
    BY <1>1, <2>3, <2>4 DEF NoGap, Stored
<1> QED
  BY <1>2, <1>3, <1>4, StorageGrows

\* A request is made for the block above the header, and the leader answers it
\* with every block from there to its own header.
LEMMA CoveredStep ==
  ASSUME IInv, GapInv, [Next]_vars
  PROVE  \A k \in Node : \A r \in inbox'[k] :
           /\ r.type = "catchupReq" => ReqCovered(r)'
           /\ r.type = "catchupResp" => RespCovered(k, r)'
<1> USE NodeAssumption DEF IInv
<1>0. /\ inbox \in [Node -> SUBSET Msg] /\ seq \in [Node -> Nat]
      /\ curHeader \in [Node -> Block] /\ blocks \in [Node -> SUBSET Block]
      /\ \A k \in Node : curHeader[k].number = seq[k] + 1
  BY DEF TypeOK, ChainInv, HeadTracksSeq
<1>1. \A k \in Node, h \in Nat : Stored(k, h) => Stored(k, h)'
  BY StorageGrows DEF Stored
<1>2. ASSUME NEW k \in Node, NEW r \in inbox[k]
      PROVE  /\ r.type = "catchupReq" => ReqCovered(r)'
             /\ r.type = "catchupResp" => RespCovered(k, r)'
  <2>1. ASSUME r.type = "catchupReq" PROVE ReqCovered(r)'
    <3>1. r.node \in Node /\ r.start \in Nat
      BY <1>0, <2>1, MsgKinds DEF CatchupReq
    <3>2. \A h \in 1 .. r.start - 1 : Stored(r.node, h) /\ h \in Nat
      BY <2>1, <3>1 DEF GapInv, ReqCovered
    <3> QED
      BY <1>1, <3>1, <3>2 DEF ReqCovered
  <2>2. ASSUME r.type = "catchupResp" PROVE RespCovered(k, r)'
    <3>1. r.next \in Nat
      BY <1>0, <2>2, MsgKinds DEF CatchupResp
    <3>2. \A h \in 1 .. r.next + 1 : h \in Nat
      BY <3>1
    <3> QED
      BY <1>1, <2>2, <3>2 DEF GapInv, RespCovered
  <2> QED
    BY <2>1, <2>2
<1>3. ASSUME \A k \in Node : \A r \in inbox'[k] :
               r \in inbox[k] \/ r.type \notin {"catchupReq", "catchupResp"}
      PROVE  \A k \in Node : \A r \in inbox'[k] :
               /\ r.type = "catchupReq" => ReqCovered(r)'
               /\ r.type = "catchupResp" => RespCovered(k, r)'
  BY <1>2, <1>3
<1>4. ASSUME NEW n \in Node, NEW m \in inbox[n], HandleCatchupReq(n, m)
      PROVE  \A k \in Node : \A r \in inbox'[k] :
               /\ r.type = "catchupReq" => ReqCovered(r)'
               /\ r.type = "catchupResp" => RespCovered(k, r)'
  <2> DEFINE resp == [type |-> "catchupResp", node |-> n, next |-> NextSeq(n),
                      proposals |-> GetBlocksAfterHeight(n, m.start)]
  <2>1. m \in CatchupReq /\ ReqOK(n, m) /\ ReqCovered(m)
    BY <1>0, <1>4, MsgKinds DEF HandleCatchupReq, CatchupInv, GapInv
  <2>2. /\ n = Leader /\ m.start \in Nat /\ m.node \in Node /\ m.start >= 1
        /\ m.start <= seq[n] + 1 /\ seq[n] \in Nat
    BY <1>0, <2>1 DEF ReqOK, CatchupReq
  <2>3. \A k \in Node : \A r \in inbox'[k] : r \in inbox[k] \/ (k = m.node /\ r = resp)
    BY <1>0, <1>4 DEF HandleCatchupReq
  <2>4. FetchCount(n, m.start) = seq[n] + 2 - m.start
    BY <1>0, <2>2 DEF FetchCount
  <2>5. /\ Len(GetBlocksAfterHeight(n, m.start)) = FetchCount(n, m.start)
        /\ GetBlocksAfterHeight(n, m.start) \in Seq(blocks[n])
        /\ \A i \in 1 .. FetchCount(n, m.start) :
             GetBlocksAfterHeight(n, m.start)[i].number = m.start + i - 1
    <3>1. \A h \in m.start .. curHeader[n].number : \E b \in blocks[n] : b.number = h
      BY <1>0, <2>2 DEF ChainInv
    <3> QED
      BY <1>0, <2>2, <3>1, FetchedBlocks
  <2>6. ASSUME NEW h \in 1 .. seq[n] + 1
        PROVE  Stored(m.node, h) \/ \E i \in DOMAIN GetBlocksAfterHeight(n, m.start) :
                 GetBlocksAfterHeight(n, m.start)[i].number = h
    <3>1. CASE h < m.start
      <4>1. h \in 1 .. m.start - 1
        BY <2>2, <3>1
      <4> QED
        BY <2>1, <4>1 DEF ReqCovered
    <3>2. CASE h >= m.start
      <4> DEFINE i == h - m.start + 1
      <4>1. i \in 1 .. FetchCount(n, m.start) /\ m.start + i - 1 = h
        BY <2>2, <2>4, <3>2
      <4>2. DOMAIN GetBlocksAfterHeight(n, m.start) = 1 .. FetchCount(n, m.start)
        BY <2>5
      <4> HIDE DEF i
      <4> QED
        BY <2>5, <4>1, <4>2
    <3> QED
      BY <2>2, <3>1, <3>2
  <2>7. resp.type = "catchupResp" /\ resp.next = seq[n]
        /\ resp.proposals = GetBlocksAfterHeight(n, m.start)
    BY DEF NextSeq
  <2>8. ASSUME NEW r, r = resp
        PROVE  r.type = "catchupResp" /\ RespCovered(m.node, r)'
    <3> HIDE DEF resp
    <3>1. r.type = "catchupResp" /\ r.next = seq[n]
          /\ r.proposals = GetBlocksAfterHeight(n, m.start)
      BY <2>7, <2>8
    <3>2. \A h \in 1 .. r.next + 1 : h \in Nat /\
            (Stored(m.node, h) \/ \E i \in DOMAIN r.proposals : r.proposals[i].number = h)
      BY <2>6, <3>1
    <3> QED
      BY <1>1, <2>2, <3>1, <3>2 DEF RespCovered
  <2> HIDE DEF resp
  <2> QED
    BY <1>2, <2>3, <2>8
<1>5. ASSUME NEW n \in Node, CatchUpStart(n)
      PROVE  \A k \in Node : \A r \in inbox'[k] :
               /\ r.type = "catchupReq" => ReqCovered(r)'
               /\ r.type = "catchupResp" => RespCovered(k, r)'
  <2> DEFINE req == [type |-> "catchupReq", node |-> n, start |-> StartHeight(n)]
  <2>1. \A k \in Node : \A r \in inbox'[k] : r \in inbox[k] \/ r = req
    BY <1>0, <1>5 DEF CatchUpStart
  <2>2. \A h \in 1 .. seq[n] + 1 : Stored(n, h) /\ h \in Nat
    BY <1>0 DEF GapInv, NoGap, Stored
  <2>3. StartHeight(n) - 1 = seq[n] + 1
    BY <1>0 DEF StartHeight
  <2>4. ASSUME NEW r, r = req
        PROVE  r.type = "catchupReq" /\ ReqCovered(r)'
    <3>1. r.type = "catchupReq" /\ r.node = n /\ r.start - 1 = seq[n] + 1
      BY <2>3, <2>4
    <3> QED
      BY <1>1, <2>2, <3>1 DEF ReqCovered
  <2> HIDE DEF req
  <2> QED
    BY <1>2, <2>1, <2>4
<1>6. ASSUME NEW n \in Node, Step2Prepare(n) \/ Step2Commit(n) \/ Propose(n)
      PROVE  \A k \in Node : \A r \in inbox'[k] :
               r \in inbox[k] \/ r.type \notin {"catchupReq", "catchupResp"}
  <2>1. CASE Step2Prepare(n) \/ Step2Commit(n)
    <3>1. PICK pp \in curPreprepare[n], t \in VoteType : Broadcast(VoteFor(n, t, pp))
      BY <2>1 DEF Step2Prepare, Step2Commit, VoteType
    <3> QED
      BY <3>1 DEF Broadcast, VoteFor, VoteType
  <2>2. CASE Propose(n)
    BY <2>2 DEF Propose, Broadcast
  <2> QED
    BY <1>6, <2>1, <2>2
<1>7. ASSUME NEW n \in Node, HandleMessage(n) \/ Tick(n)
      PROVE  \/ \E m \in inbox[n] : HandleCatchupReq(n, m)
             \/ CatchUpStart(n) \/ Step2Prepare(n) \/ Step2Commit(n) \/ Propose(n)
             \/ \A k \in Node : inbox'[k] \subseteq inbox[k]
  BY <1>0, <1>7 DEF HandleMessage, Tick, HandleVotes, HandleCatchupResp, HandleStopConsensus,
     Receive, CurateMsg, Step2Deliver, StepWait, SkipPropose, NoCatchUp
<1>8. ASSUME SendStop \/ (\E n \in Node : \E m \in inbox[n] : LoseMsg(n, m)) \/ UNCHANGED vars
      PROVE  \A k \in Node : \A r \in inbox'[k] :
               r \in inbox[k] \/ r.type \notin {"catchupReq", "catchupResp"}
  BY <1>0, <1>8 DEF SendStop, StopMsg, LoseMsg, vars
<1> QED
  BY <1>3, <1>4, <1>5, <1>6, <1>7, <1>8 DEF Next

-----------------------------------------------------------------------------
(* The theorems. *)

\* Every step of the shard keeps the inductive invariant.
THEOREM Invariance == Spec => []IInv
<1>1. IInv /\ [Next]_vars => IInv'
  BY TypeStep, ProposalStep, FlowStep, RoundStep, CountStep, ChainStep, CatchupStep,
     LeaderStep, QuorumStep DEF IInv
<1> QED
  BY InitInv, <1>1, PTL DEF Spec

\* The state of every node, the messages under way and the history have their
\* types: no handler, step or catch-up of node.go leaves a malformed state.
THEOREM TypeCorrect == Spec => []TypeOK
<1>1. IInv => TypeOK
  BY DEF IInv
<1> QED
  BY Invariance, <1>1, PTL

\* Nodes never store different blocks of one height, whatever is delayed,
\* lost or reordered and however catch-ups interleave with rounds.
THEOREM AgreementHolds == Spec => []Agreement
<1> QED
  BY Invariance, AgreementInv, PTL

\* No node, the leader included, sends two different votes of one stage in one
\* round, although a late catch-up response can move a node back to a round in
\* which it has already voted.
THEOREM NoEquivocationHolds == Spec => []NoEquivocation
<1>1. ASSUME IInv PROVE NoEquivocation
  <2> SUFFICES ASSUME NEW v \in sent, NEW w \in sent,
                      v.type = w.type, v.node = w.node, v.seq = w.seq
               PROVE  v = w
    BY DEF NoEquivocation
  <2>1. Proposed(v.seq, v.block) /\ Proposed(w.seq, w.block)
    BY <1>1 DEF IInv, RoundInv
  <2>2. v.block = w.block
    BY <1>1, <2>1 DEF IInv, ProposalInv, Proposed
  <2>3. v \in Vote /\ w \in Vote
    BY <1>1 DEF IInv, TypeOK
  <2> QED
    BY <2>2, <2>3 DEF Vote
<1> QED
  BY Invariance, <1>1, PTL

\* Every stored block was committed by 2f+1 nodes, and every commit rests on
\* the prepares of 2f+1 nodes.
THEOREM QuorumCertifiedHolds == Spec => []QuorumCertified
<1>1. IInv => QuorumCertified
  BY DEF IInv
<1> QED
  BY Invariance, <1>1, PTL

\* The round and the height of the chain move together on every node.
THEOREM HeadTracksSeqHolds == Spec => []HeadTracksSeq
<1>1. IInv => HeadTracksSeq
  BY DEF IInv, ChainInv
<1> QED
  BY Invariance, <1>1, PTL

\* No follower is more than one round ahead of the leader.
THEOREM LeaderNotBehindHolds == Spec => []LeaderNotBehind
<1>1. IInv => LeaderNotBehind
  BY DEF IInv
<1> QED
  BY Invariance, <1>1, PTL

\* A node past the first stage holds the proposal of its round.
THEOREM RoundHasProposalHolds == Spec => []RoundHasProposal
<1>1. IInv => RoundHasProposal
  BY DEF IInv, RoundInv
<1> QED
  BY Invariance, <1>1, PTL

\* No node, however it got its blocks, has a hole in its storage below its header:
\* a catch-up answered after the follower has moved on leaves none either.
THEOREM NoGapHolds == Spec => []NoGap
<1>1. Init => GapInv
  BY NodeAssumption DEF Init, GapInv, NoGap, Genesis
<1>2. IInv /\ GapInv /\ [Next]_vars => GapInv'
  BY NoGapStep, CoveredStep DEF GapInv
<1>3. GapInv => NoGap
  BY DEF GapInv
<1> QED
  BY Invariance, <1>1, <1>2, <1>3, PTL DEF Spec

\* The consensus of a shard implements the replicated chain: Step2Deliver is a
\* Decide or a Learn, an applied catch-up response a Transfer, and every other
\* step a stutter.
THEOREM Refinement == Spec => ImplementsChain
<1> DEFINE D == UNION {blocks[n] : n \in Node}
<1>1. Init => Chain!Init
  BY NodeAssumption DEF Init, Chain!Init
<1>2. ASSUME IInv, IInv', Agreement', [Next]_vars
      PROVE  [Chain!Next]_<<D, curHeader>>
  <2>0. /\ blocks \in [Node -> SUBSET Block] /\ curHeader \in [Node -> Block]
        /\ curHeader' \in [Node -> Block] /\ seq \in [Node -> Nat]
    BY <1>2 DEF IInv, TypeOK
  <2>1. ASSUME UNCHANGED chainVars
        PROVE  UNCHANGED <<D, curHeader>>
    BY <2>1 DEF chainVars
  <2>2. ASSUME NEW n \in Node, Step2Deliver(n)
        PROVE  Chain!Decide(n) \/ Chain!Learn(n)
    <3>1. PICK pp \in curPreprepare[n] :
            /\ curHeader' = [curHeader EXCEPT ![n] = pp.block]
            /\ blocks' = [blocks EXCEPT ![n] = @ \cup {pp.block}]
      BY <2>2 DEF Step2Deliver
    <3>2. pp.block \in Block
      BY <1>2 DEF IInv, TypeOK, Vote
    <3>3. pp.block.number = curHeader[n].number + 1
      <4>1. pp \in sent /\ pp.type = "preprepare" /\ pp.seq = seq[n]
        BY <1>2 DEF IInv, RoundInv, RoundHasProposal
      <4>2. pp.block.number = seq[n] + 2 /\ curHeader[n].number = seq[n] + 1
        BY <1>2, <4>1 DEF IInv, ProposalInv, ChainInv, HeadTracksSeq
      <4> QED
        BY <2>0, <4>2
    <3>4. D' = D \cup {pp.block}
      BY <2>0, <3>1
    <3>5. CASE pp.block \in D
      BY <3>1, <3>3, <3>4, <3>5 DEF Chain!Learn
    <3>6. CASE pp.block \notin D
      <4>1. \A c \in D' : c.number = pp.block.number => c = pp.block
        <5>1. pp.block \in blocks'[n]
          BY <2>0, <3>1
        <5> QED
          BY <1>2, <5>1 DEF Agreement
      <4>2. \A c \in D : c.number # pp.block.number
        BY <3>4, <3>6, <4>1
      <4>3. pp.block = [number |-> curHeader[n].number + 1, payload |-> pp.block.payload]
            /\ pp.block.payload \in Payload
        BY <3>2, <3>3 DEF Block
      <4> QED
        BY <3>1, <3>3, <3>4, <4>2, <4>3 DEF Chain!Decide
    <3> QED
      BY <3>5, <3>6
  <2>3. ASSUME NEW n \in Node, NEW m \in inbox[n], Transfer(n, m)
        PROVE  Chain!Transfer(n)
    <3>1. m \in CatchupResp /\ RespOK(m) /\ n # Leader
      BY <1>2, <2>3, MsgKinds DEF IInv, Transfer, CatchupInv, TypeOK
    <3>2. Len(m.proposals) \in DOMAIN m.proposals
      BY <3>1 DEF CatchupResp, RespOK
    <3>3. /\ blocks' = [blocks EXCEPT ![n] = @ \cup {m.proposals[i] : i \in DOMAIN m.proposals}]
          /\ curHeader' = [curHeader EXCEPT ![n] = m.proposals[Len(m.proposals)]]
      BY <2>3, <3>1 DEF Transfer, ApplyCatchup, RespOK
    <3>4. \A i \in DOMAIN m.proposals : m.proposals[i] \in D
      BY <3>1, NodeAssumption DEF RespOK
    <3>5. D' = D
      BY <2>0, <3>3, <3>4
    <3> QED
      BY <3>1, <3>2, <3>3, <3>4, <3>5 DEF Chain!Transfer
  <2>4. ASSUME NEW n \in Node,
               CurateMsg(n) \/ Step2Prepare(n) \/ Step2Commit(n) \/ Propose(n)
        PROVE  UNCHANGED chainVars
    BY <2>4 DEF CurateMsg, Step2Prepare, Step2Commit, Propose
  <2>5. \/ UNCHANGED chainVars
        \/ \E n \in Node : Step2Deliver(n)
        \/ \E n \in Node : \E m \in inbox[n] : Transfer(n, m)
    BY <1>2, <2>4, StepKinds, NodeAssumption
  <2> QED
    BY <2>1, <2>2, <2>3, <2>5 DEF Chain!Next
<1> QED
  BY <1>1, <1>2, Invariance, AgreementHolds, PTL DEF Spec, ImplementsChain, Chain!Spec
=============================================================================
