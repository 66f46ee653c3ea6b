SPECIFICATION FairSpec
CONSTANTS
    Jobs = {j1}
    Workers = {w1}
    Sweeper = Sweeper
    Api = Api
    None = None
    MaxAttempts = 2
    LeaseTicks = 1
    UseRedis = {TRUE}
    MaxCrashes = 0
    MaxCancels = 0
    MaxLeases = 3
    j1 = j1
    w1 = w1
PROPERTY RetryIsTaken
CHECK_DEADLOCK FALSE
