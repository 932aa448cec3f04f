SPECIFICATION LibrarySpec
CONSTANTS
    Ids = {a, b, c, d, e}
    Priorities = {0, 2}
    Times = {1, 2}
    Nodes = {1, 2, 3, 4}
    Values = {1, 2, 3}
    nil = nil
    Recorders = {g1, g2, g3}
    TenantIDs = {t1, t2}
    MaxSamples = 1
    Limit = 3
    Interval = 3
    RefillRate = 2
    Horizon = 9
SYMMETRY Symmetry
INVARIANTS
    NoRecordLost
    LimiterTypeOK
    NoIntervalExceeded
    RefusesOnlyWhenFull
    NumbersExact
    ScansExact
    SearchesExact
PROPERTIES
    PopsForemost
    ListIsSequence
    RefillsSteadily
CHECK_DEADLOCK FALSE
