SPECIFICATION FairSpec
CONSTANTS
    Names = {n1}
    Certs = {c1, c2}
    BadCerts = {c2}
    NoCert = NoCert
    Operators = {o1, o2}
    Applier = applier
    Handshakes = {h1}
    NoOne = NoOne
    NoPin = NoPin
    Capacity = 2
    MaxGen = 3
    MaxTrail = 2
INVARIANT WireTrue PublishedFlagIsTrue TrailBalances
PROPERTY PinHoldsTheWire OnlySkewFails Progress ImplementsGate
CHECK_DEADLOCK FALSE
