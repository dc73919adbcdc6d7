\* Two invoke() calls and one aclose().
SPECIFICATION LifecycleSpec
CONSTANTS
  AsyncOps = {}
  SyncOps = {s1, s2}
  Closers = {k1}
  Threads = {}
  MaxTasks = 2
INVARIANTS AdmittedEndsNaturally
CHECK_DEADLOCK FALSE
