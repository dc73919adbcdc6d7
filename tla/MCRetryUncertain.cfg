\* RetryMiddleware with two attempts: the first body outlives its timeout.
SPECIFICATION Spec
CONSTANTS
    Records = {r1}
    Keys = {k1}
    Fingerprints = {f1}
    Attempts = {a1}
    None = None
    MaxAttempts = 2
    MiddlewareMayRaise = FALSE
INVARIANTS
    UncertainStaysBlocked
CHECK_DEADLOCK FALSE
