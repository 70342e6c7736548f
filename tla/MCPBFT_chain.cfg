\* Two nodes (quorum 1), and any one message may be lost: the follower lags and
\* catches up by at most two blocks per response.
CONSTANTS
  Node = {n0, n1}
  Leader = n0
  Down = {}
  Payload = {pa, pb}
  MaxSeq = 3
  CatchUpThreshold = 1
  BlocksFetchLimit = 2
  Delayed = {"catchupResp"}
  Lossy = {"preprepare", "prepare", "commit", "catchupReq", "catchupResp"}
  MaxLost = 1
  ReplayMayFail = TRUE
  StopRounds = {}
SPECIFICATION Spec
INVARIANTS TypeOK Agreement NoEquivocation HeadTracksSeq LeaderNotBehind RoundHasProposal NoGap
PROPERTIES ImplementsChain
\* A lost vote stops a round for good.
CHECK_DEADLOCK FALSE
