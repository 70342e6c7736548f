\* Two nodes, and two messages of the catch-up may be lost.
CONSTANTS
  Node = {n0, n1}
  Leader = n0
  Down = {}
  Payload = {pa}
  MaxSeq = 2
  CatchUpThreshold = 1
  BlocksFetchLimit = 100
  Delayed = {"catchupResp"}
  Lossy = {"preprepare", "prepare", "commit", "catchupReq", "catchupResp"}
  MaxLost = 2
  ReplayMayFail = FALSE
  StopRounds = {}
SPECIFICATION FairSpec
PROPERTIES BehindCatchesUp
\* A lost vote stops a round for good.
CHECK_DEADLOCK FALSE
