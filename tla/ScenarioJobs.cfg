\* Two processes share two iterations of two cases, one case in a batch, with a retry and one
\* crash or storage error.
SPECIFICATION Spec
CONSTANTS
    Cases = {c1, c2}
    Coordinators = {k1, k2}
    MaxIterations = 2
    MaxAttempts = 2
    Batch = 1
    MaxFaults = 1
    NoCase = NoCase
    NoReport = NoReport
    Open = Open
SYMMETRY Interchangeable
INVARIANTS
    ClaimsAreExclusive
    AttemptsDecide
    SucceededHasOutcome
    OneHistory
    ReportsAgree
PROPERTIES
    ImplementsLedger
CHECK_DEADLOCK FALSE
