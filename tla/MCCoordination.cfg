\* Two viewers, so that one may be slow or leave while the other follows, and queues that are
\* shorter than the trace, so that they overflow; the same run through Redis; two processes that
\* share an iteration.
CONSTANTS
    Viewers = {v1, v2}
    MaxSpans = 3
    QueueMax = 2
    NoCase = NoCase
    NoReport = NoReport
    Open = Open
SPECIFICATION SuiteSpec
INVARIANTS
    NoSilentGap
    CompleteIsWhole
PROPERTIES
    WaitersAreReleased
CHECK_DEADLOCK FALSE
