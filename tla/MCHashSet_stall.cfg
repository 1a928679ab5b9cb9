SPECIFICATION FairSpec
CONSTANTS
  t1 = t1
  t2 = t2
  t3 = t3
  Workers = {t1, t2}
  Values = {0, 2, 6, 10, 18, 110}
  Class <- Modulo100
  Hash <- Identity
  Sizes <- SmallSizes
  MaxChain = 2
  Cluster = 4
  Program <- TwoGrowths
  NoValue = NoValue
  Empty = Empty
  Invalid = Invalid
PROPERTY AllReturn
