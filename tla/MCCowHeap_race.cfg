SPECIFICATION Spec
CONSTANTS
  Objects = {1, 2, 3, 4}
  Contents = {"a", "b"}
  Instances <- Two
  MaxHeld = 2
  Object0 = 1
  Content0 = "a"
  None = None
INVARIANTS NoDangling
CHECK_DEADLOCK FALSE
