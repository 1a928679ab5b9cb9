SPECIFICATION FairSpec
CONSTANTS
  Workers = {w1, w2, w3, w4}
  ShortRange = 65536
  MaxRounds = 3
INVARIANTS BarrierHolds NoWrap
PROPERTIES ImplementsBarrier AllReturn
