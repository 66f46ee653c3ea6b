SPECIFICATION FairSpec
CONSTANTS
    Jobs = {j1}
    Workers = {w1}
    Sweeper = Sweeper
    Api = Api
    None = None
    MaxAttempts = 1
    LeaseTicks = 1
    UseRedis = {TRUE, FALSE}
    MaxCrashes = 1
    MaxCancels = 1
    MaxLeases = 2
    j1 = j1
    w1 = w1
INVARIANT CancelWasRequested
PROPERTY QueuedIsPickedUp
PROPERTY InFlightEnds
CHECK_DEADLOCK FALSE
