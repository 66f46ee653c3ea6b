SPECIFICATION FairSpec
CONSTANTS
    Experiments <- MCExperiments
    Values = {0, 1}
    Hypotheses = {1, 2}
    MaxRuns = 2
    None = None
INVARIANT GridCovered
INVARIANT KeptBeatsAll
INVARIANT StoredInOrder
PROPERTY HypothesesInTurn
PROPERTY RunEnds
CHECK_DEADLOCK FALSE
