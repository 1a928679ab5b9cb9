SPECIFICATION Spec
CONSTANTS
  Workers = {w1, w2}
  States <- ForkStates
  Succ <- ForkSucc
  Initials <- First
  ErrorEdges <- ForkErrors
  Ignored = {}
  Step = 3
  Checked = TRUE
  NoState = NoState
SYMMETRY WorkerSymmetry
INVARIANTS CounterExact OpenOnce NeverClamps DetectionWindow NothingLost WaitJoins
