\* Two nodes, four rounds, and one proposal may be lost; a block that is executed
\* again does not fail: a lagging follower catches up. The supervisor may stop the
\* consensus at any point of the first two rounds of the leader.
CONSTANTS
  Node = {n0, n1}
  Leader = n0
  Down = {}
  Payload = {pa}
  MaxSeq = 4
  CatchUpThreshold = 1
  BlocksFetchLimit = 100
  Delayed = {"catchupResp"}
  Lossy = {"preprepare"}
  MaxLost = 1
  ReplayMayFail = FALSE
  StopRounds = {0, 1}
SPECIFICATION FairSpec
PROPERTIES BehindCatchesUp StopCloses
\* A closed node stops.
CHECK_DEADLOCK FALSE
