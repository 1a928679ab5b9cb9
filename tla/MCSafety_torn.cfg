SPECIFICATION ReplaySpec
CONSTANTS
  Workers = {w1, w2}
  States = {1, 2, 3, 4, 5}
  Initial = 1
  NoState = NoState
  Graph <- TwoErrors
INVARIANT ErrorIsEdge
