SPECIFICATION ReplaySpec
CONSTANTS
  Workers = {w1, w2, w3}
  States = {1, 2, 3, 4, 5}
  Initial = 1
  NoState = NoState
  Graph <- OneError
INVARIANTS ParentsInPlace Verdict ErrorIsEdge
PROPERTY Replayed
