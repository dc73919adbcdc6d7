SPECIFICATION GuardSpec
CONSTANTS
  Acquisitions = {a1, a2, a3, a4, a5}
  Closable = {a5}
  Capacity = 2
  Calls = {c1, c2, c3, c4, c5}
  FailureThreshold = 2
  Items = {i1, i2, i3}
  Workers = {w1, w2}
  Fragile = {w1}
  Stop = Stop
INVARIANTS
  PermitsConserved CircuitFollowsReports ProbeOverlapBounded
PROPERTIES
  FirstComeFirstServed EveryWaiterServed NothingIsStranded
CHECK_DEADLOCK FALSE
