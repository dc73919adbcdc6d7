\* Two executions of one key with two reconciliation attempts each.
SPECIFICATION AuthoritySpec
CONSTANTS
    Records = {r1, r2}
    Keys = {k1}
    Fingerprints = {f1, f2}
    Attempts = {a1, a2}
    None = None
SYMMETRY Symmetry
INVARIANTS
  DispositionAgrees OutboxComplete
PROPERTIES
  ReuseNeedsConfirmation
CHECK_DEADLOCK FALSE
