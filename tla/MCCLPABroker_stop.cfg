\* The supervisor may stop: what it then has not sent.
CONSTANTS
  s1 = s1
  s2 = s2
  a = a
  b = b
  Shard = {s1, s2}
  Account = {a, b}
  DefaultLoc <- MCLoc
  Pay <- OnePayment
  TxInjectionSpeed = 1
  BlockSizeLimit = 1
  StopThreshold = 2
  MayStop = TRUE
  MaxEpoch = 1
  MaxLost = 0
SPECIFICATION Spec
INVARIANT StopWhenSent
