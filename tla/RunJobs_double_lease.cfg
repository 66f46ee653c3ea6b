SPECIFICATION Spec
CONSTANTS
    Jobs = {j1}
    Workers = {w1, w2}
    Sweeper = Sweeper
    Api = Api
    None = None
    MaxAttempts = 2
    LeaseTicks = 1
    UseRedis = {TRUE}
    MaxCrashes = 0
    MaxCancels = 0
    MaxLeases = 1
    j1 = j1
    w1 = w1
    w2 = w2
INVARIANT OneRunnerPerJob
CHECK_DEADLOCK FALSE
