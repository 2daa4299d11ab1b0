CONSTANTS
    p = p
    g = g
    a = a
    q = q
    Conns = {p, g, a, q}
    KindOf <- MCKindOf
    NLanes = 2
    HandoffDepth = 1
    MaxStreams = 2
    ProxyProtocol = TRUE
SPECIFICATION FairSpec
CHECK_DEADLOCK FALSE
INVARIANT ConnsAccounted HonestOutcome
PROPERTY DrainsEnd
