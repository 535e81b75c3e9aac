SPECIFICATION Spec
CONSTANTS
  t1 = t1
  t2 = t2
  t3 = t3
  p1 = p1
  p2 = p2
  NoTask = NoTask
  Tasks <- ThreeTasks
  Procs <- TwoProcs
  Env = {"crash"}
SYMMETRY LockSymmetry
INVARIANTS
  TypeOK
  HolderKeepsLock
  OneTaskPerSession
