\* A sender may be unable to pay, a message may be lost, and the source may be
\* shorter than tx_number.
CONSTANTS
  s1 = s1
  s2 = s2
  a = a
  b = b
  c = c
  Shard = {s1, s2}
  Account = {a, b, c}
  Home <- MCHome
  Size <- MCSize
  PoolType = "num"
  Source <- ShortSource
  TxNumbers = {3, 4}
  TxInjectionSpeed = 2
  BlockSizeLimit = 2
  NormalInitBalance = 5
  StopThreshold = 2
  MaxInfo = 1
  MaxLost = 1
SPECIFICATION FairSpec
INVARIANTS MoneyConserved NoOverdraft CreditAfterDebit LimitRespected
PROPERTIES EveryTxCompletes StopsEventually
\* The system ends when the supervisor stops it.
CHECK_DEADLOCK FALSE
