\* A payment whose accounts a repartition may separate, and a state message that
\* may be lost.
CONSTANTS
  s1 = s1
  s2 = s2
  a = a
  b = b
  Shard = {s1, s2}
  Account = {a, b}
  DefaultLoc <- MCLoc
  Pay <- OnePayment
  TxInjectionSpeed = 1
  BlockSizeLimit = 1
  StopThreshold = 1
  MayStop = FALSE
  MaxEpoch = 1
  MaxLost = 1
SPECIFICATION FairSpec
INVARIANTS OwnerHasLedger ExecutedOnce InOnePlace
PROPERTIES RepartitionEnds EveryTxExecuted
