SPECIFICATION Spec
CONSTANTS
  t1 = t1
  t2 = t2
  t3 = t3
  Workers = {t1, t2, t3}
  Values = {1, 5, 9, 3, 17, 103}
  Class <- Modulo100
  Hash <- Identity
  Sizes <- SmallSizes
  MaxChain = 2
  Cluster = 4
  Program <- ThreeMovers
  NoValue = NoValue
  Empty = Empty
  Invalid = Invalid
INVARIANT ClaimedOnce
