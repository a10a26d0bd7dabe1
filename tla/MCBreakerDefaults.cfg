CONSTANTS
    BreakerCalls = {p1, p2, p3}
    FailureThreshold = 5
    HalfOpenMaxCalls = 1
    SuccessThreshold = 2
    MaxAttempts = 3
    MaxFailures = 6
SPECIFICATION BreakerFairSpec
INVARIANT NeverStuck
CHECK_DEADLOCK FALSE
