\* An execution middleware raises after the tool has returned.
SPECIFICATION Spec
CONSTANTS
    Records = {r1}
    Keys = {k1}
    Fingerprints = {f1}
    Attempts = {a1}
    None = None
    MaxAttempts = 1
    MiddlewareMayRaise = TRUE
INVARIANTS
    UncertainStaysBlocked
CHECK_DEADLOCK FALSE
