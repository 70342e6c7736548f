\* A payment while both accounts move twice.
CONSTANTS
  s1 = s1
  s2 = s2
  a = a
  b = b
  Shard = {s1, s2}
  Account = {a, b}
  DefaultLoc <- MCLoc
  Pay <- OnePayment
  TxInjectionSpeed = 1
  BlockSizeLimit = 1
  MaxEpoch = 2
  MaxLost = 0
SPECIFICATION StatsSpec
INVARIANTS TypeOK SingleOwner OwnerHasLedger MigrationBlockCurrent EpochsInStep ExecutedOnce StatsMatchChains
