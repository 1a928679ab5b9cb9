SPECIFICATION Spec
CONSTANTS
  Objects = {1, 2, 3, 4}
  Contents = {"a", "b"}
  Instances <- TwoAtLimit
  MaxHeld = 2
  Object0 = 1
  Content0 = "a"
  None = None
INVARIANTS CountExact
CHECK_DEADLOCK FALSE
