SPECIFICATION FairSpec
CONSTANTS
  Workers = {w1, w2}
  States <- WholeStates
  Succ <- WholeSucc
  Initials <- First
  ErrorEdges <- NoErrors
  Ignored = {7}
  Step = 2
  Checked = TRUE
  NoState = NoState
INVARIANTS Complete AssertHolds
PROPERTIES ImplementsSearch Terminates
