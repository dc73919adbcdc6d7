SPECIFICATION PartSpec
CONSTANTS
  AsyncOps = {m1}
  SyncOps = {s1}
  Closers = {k1}
  Threads = {t1}
  MaxTasks = 3
  Callers = {c1, c2}
  Events = {e1, e2}
  MaxSubscribers = 3
  AsyncSubscribers = {1}
INVARIANTS
  CleanShutdown SpanEndsOnceAsAsked OfferedToAll
PROPERTIES
  CloseEnds EverySpanEnds
CHECK_DEADLOCK FALSE
