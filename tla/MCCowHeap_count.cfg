SPECIFICATION Spec
CONSTANTS
  Objects = {1, 2, 3, 4}
  Contents = {"a", "b"}
  Instances <- TwoOrSaturated
  MaxHeld = 2
  Object0 = 1
  Content0 = "a"
  None = None
INVARIANTS CountExact NoLeak Sequential
PROPERTY FreedUnused
CHECK_DEADLOCK FALSE
