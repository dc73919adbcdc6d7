\* Two executions of one key, one reconciliation attempt each, no retries.
SPECIFICATION Spec
CONSTANTS
    Records = {r1, r2}
    Keys = {k1}
    Fingerprints = {f1}
    Attempts = {a1}
    None = None
    MaxAttempts = 1
    MiddlewareMayRaise = FALSE
SYMMETRY Symmetry
INVARIANTS
  UncertainStaysBlocked OneEffectPerKey FailureIsDefinite
PROPERTIES
  RefinesAuthority
CHECK_DEADLOCK FALSE
