\* The pools count bytes.
CONSTANTS
  s1 = s1
  s2 = s2
  a = a
  b = b
  c = c
  Shard = {s1, s2}
  Account = {a, b, c}
  Home <- MCHome
  Size <- MCSize
  PoolType = "byte"
  Source <- ShortSource
  TxNumbers = {3, 4}
  TxInjectionSpeed = 2
  BlockSizeLimit = 2
  NormalInitBalance = 5
  StopThreshold = 2
  MaxInfo = 1
  MaxLost = 1
SPECIFICATION Spec
INVARIANT LimitRespected
\* The system ends when the supervisor stops it.
CHECK_DEADLOCK FALSE
