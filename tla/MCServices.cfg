\* Three processes that open the storage, one of which may die; then the rest.
CONSTANTS
    Processes = {p1, p2, p3}
    Last = 3
    MaxDeaths = 1
    None = None
SPECIFICATION SuiteSpec
INVARIANTS
    UpIsMigrated
    LoopsDoNotLeak
    RoundsAreSound
    LeasesAreKept
    RedisViewersSeeTheRun
PROPERTIES
    ServicesSettle
    AnchorsHold
CHECK_DEADLOCK FALSE
