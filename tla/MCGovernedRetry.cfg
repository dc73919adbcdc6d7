\* RetryMiddleware with two attempts in front of the same tool.
SPECIFICATION FairSpec
CONSTANTS
    Records = {r1}
    Keys = {k1}
    Fingerprints = {f1}
    Attempts = {a1}
    None = None
    MaxAttempts = 2
    MiddlewareMayRaise = TRUE
INVARIANTS
    SuccessIsRecorded
PROPERTIES
    EventuallyAnswered
CHECK_DEADLOCK FALSE
