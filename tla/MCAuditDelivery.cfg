\* Two workflows of one process and two revisions of an execution.
SPECIFICATION FairSpec
CONSTANTS
  w1 = w1
  w2 = w2
  p1 = p1
  Executions = {e1}
  Processes = {p1}
  Workers = {w1, w2}
  Home <- OneProcess
  MaxRevision = 2
  MaxLimit = 1
INVARIANTS
  AckedIsWritten
PROPERTIES
  RefinesFeed EventuallyDelivered
CHECK_DEADLOCK FALSE
