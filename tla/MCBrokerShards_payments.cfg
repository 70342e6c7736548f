\* Two brokers cannot take on every payment, one payment takes all a broker has
\* in a shard, and a message may be lost.
CONSTANTS
  s1 = s1
  s2 = s2
  a = a
  c = c
  p = p
  q = q
  Shard = {s1, s2}
  Account = {a, c}
  Broker = {p, q}
  Home <- MCHome
  Pay <- MixedPayments
  TxInjectionSpeed = 2
  BlockSizeLimit = 2
  BrokerInit = 2
  StopThreshold = 1
  MaxInfo = 1
  MaxLost = 1
SPECIFICATION StatsSpec
INVARIANTS BooksAgree BrokerCanPay PendingIsPromised PaidOnce StopAfterBrokers ResultsComplete
PROPERTIES PaymentsComplete
\* Everything ends when the supervisor has stopped.
CHECK_DEADLOCK FALSE
