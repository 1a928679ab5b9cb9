SPECIFICATION Spec
CONSTANTS
  t1 = t1
  t2 = t2
  t3 = t3
  m1 = m1
  m2 = m2
  c1 = c1
  b1 = b1
  Threads = {t1, t2, t3}
  Mutexes = {m1, m2}
  Conds = {c1}
  Barriers = {b1}
  Type <- TwoTypes
  NThreads <- Pairs
  MaxLocks = 2
  MaxRefs = 3
  MaxCancelled = 1
  MaxDetached = 1
  None = None
SYMMETRY ThreadSymmetry
INVARIANTS DeadlockReal EndlessOutside SleepersCounted RefsSuffice
CHECK_DEADLOCK FALSE
