SPECIFICATION FairWorkersSpec
CONSTANTS
  Records = {r1}
  Keys = {k1}
  Fingerprints = {f1}
  Attempts = {a1, a2}
  None = None
  w1 = w1
  w2 = w2
  p1 = p1
  p2 = p2
  Calls = {w1, w2}
  Processes = {p1, p2}
  Placements <- SomePlacements
  MaxFaults = 1
INVARIANTS ProbesAreExclusive OpenMeansUnknown
PROPERTY AttemptsAreClosed
CHECK_DEADLOCK FALSE
