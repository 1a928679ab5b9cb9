SPECIFICATION FairSpec
CONSTANTS
  States = {1, 2, 3}
  Initial = 1
  NoState = NoState
  MaxDegree = 2
  Graphs <- ErrorsAtStates
INVARIANTS FlagMatchesStack StacksThreaded GenuineTrace NoCycleMissed NoErrorMissed
PROPERTY Terminates
