SPECIFICATION Spec
CONSTANTS
  Threads = {1, 2, 3, 4}
  Addresses = {"x", "y"}
  Programs <- LitmusAndSmall
INVARIANTS Explained CommittedFirst
CHECK_DEADLOCK FALSE
