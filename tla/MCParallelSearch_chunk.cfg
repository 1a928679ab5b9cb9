SPECIFICATION Spec
CONSTANTS
  Workers = {w1, w2}
  States <- ChunkStates
  Succ <- ChunkSucc
  Initials <- First
  ErrorEdges <- ChunkErrors
  Ignored = {}
  Step = 100
  Checked = TRUE
  NoState = NoState
SYMMETRY WorkerSymmetry
INVARIANTS Complete
