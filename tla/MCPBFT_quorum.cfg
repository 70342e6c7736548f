\* Four nodes of which one is down (quorum 3 of 3), nothing lost: a proposal may
\* arrive after votes for it.
CONSTANTS
  Node = {n0, n1, n2, n3}
  Leader = n0
  Down = {n3}
  Payload = {pa}
  MaxSeq = 2
  CatchUpThreshold = 5
  BlocksFetchLimit = 100
  Delayed = {"preprepare"}
  Lossy = {}
  MaxLost = 0
  ReplayMayFail = TRUE
  StopRounds = {}
SPECIFICATION FairSpec
INVARIANTS QuorumCertified
PROPERTIES EveryRoundCompletes
