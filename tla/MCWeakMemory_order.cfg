SPECIFICATION Spec
CONSTANTS
  Threads = {1, 2}
  Addresses = {"x", "y"}
  Programs <- Overtaken
INVARIANTS Explained
CHECK_DEADLOCK FALSE
