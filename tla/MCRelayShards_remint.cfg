\* A sender spends everything it has.
CONSTANTS
  s1 = s1
  s2 = s2
  a = a
  b = b
  c = c
  Shard = {s1, s2}
  Account = {a, b, c}
  Home <- MCHome
  Size <- MCSize
  PoolType = "num"
  Source <- SpendAllSource
  TxNumbers = {2}
  TxInjectionSpeed = 1
  BlockSizeLimit = 1
  NormalInitBalance = 4
  StopThreshold = 2
  MaxInfo = 1
  MaxLost = 0
SPECIFICATION Spec
INVARIANTS NoOverdraft
\* The system ends when the supervisor stops it.
CHECK_DEADLOCK FALSE
