CONSTANTS
    None = None
    MaxRing = 8
    Requests = {r1, r2}
    Arrivals <- MCArrivals
    Configs <- MCConfigs
    MaxGen = 3
    MaxAttempts = 2
    QueueDepth = 1
    BodyCap = 1
SPECIFICATION Spec
SYMMETRY Symmetry
CHECK_DEADLOCK FALSE
INVARIANT CountersExact TriedOnce BodiesKept
