SPECIFICATION Spec
CONSTANTS
  States = {1, 2, 3}
  Initial = 1
  NoState = NoState
  MaxDegree = 2
  Graphs <- AllFaulty
INVARIANT NoErrorMissed
