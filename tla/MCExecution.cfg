\* Two workers and three calls through one bucket that Redis may lose once; then the rest.
CONSTANTS
    w1 = w1
    w2 = w2
    c1 = c1
    c2 = c2
    c3 = c3
    Workers <- TwoWorkers
    Calls <- ThreeCalls
    Home <- TwoAndOne
    Shared = TRUE
    Period = 2
    Burst = 1
    Ttl = 2
    MaxRetries = 1
    BaseDelay = 1
    MaxDelay = 2
    RetryAfter = {0, 3}
    MaxOutages = 1
SPECIFICATION SuiteSpec
INVARIANTS
    GrantsConform
    BackoffWithinLease
    ThreadsAreWhole
    TracesAreTrue
PROPERTIES
    SpansReachTheirTrace
    EverybodyEnds
CHECK_DEADLOCK FALSE
