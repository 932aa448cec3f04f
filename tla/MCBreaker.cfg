SPECIFICATION FairSpec
CONSTANTS
    Callers = {c1, c2, c3}
    WindowSize = 4
    ThresholdNum = 0
    ThresholdDen = 1
    MinimumCalls = 3
    OpenTimeout = 2
INVARIANTS
    TypeOK
    WindowExact
    ClosedMeansBelowThreshold
    ProbingHasProbe
PROPERTIES
    KeepsLastOutcomes
    Recovers
