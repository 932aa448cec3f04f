SPECIFICATION Spec
CONSTANTS
    Callers = {c1, c2, c3, c4}
    WindowSize = 2
    ThresholdNum = 0
    ThresholdDen = 1
    MinimumCalls = 0
    OpenTimeout = 2
SYMMETRY Symmetry
INVARIANT
    SingleProbe
