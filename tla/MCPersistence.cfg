SPECIFICATION Spec
CONSTANTS
  MaxWrites = 7
  MaxCrashes = 2
  MaxBytes = 2
  BackupCount = 1
  Missing = Missing
  Traces = {t1, t2}
  MaxLines = 4
  MaxFailures = 2
  Numbers = {0, 2}
  NoFile = NoFile
  x1 = x1
  x2 = x2
  x3 = x3
  k1 = k1
  k2 = k2
  Keys = {k1, k2}
  Executions = {x1, x2, x3}
  KeyOf <- TwoKeys
  Parameters <- SameOrNot
  MaxCompleted = 1
  Nobody = Nobody
  a1 = a1
  Processes = {p1, p2}
  RowKeys = {k1}
  Actions = {a1}
  Backups <- SomeBackups
  Restorable <- SomeRestorable
  MaxRestores = 1
INVARIANTS
  CrashRecoverable AckedReadable SnapshotsSurvive InFlightIsKept
  ObligationsAreVisible
PROPERTIES
  MigrationIsExplicit BlocksSurvive
CHECK_DEADLOCK FALSE
