CONSTANTS
    Ingresses = {web}
    Specs = {"a", "b"}
    Refused = {"b"}
    OtherKinds = {"EndpointSlice"}
    Versions = {1, 2}
    Addresses = {"lb"}
    Configured = None
    ServiceAddr = "lb"
    StatusOn = TRUE
    Neighbour = 9
    None = None
    MaxEdits = 2
    MaxFaults = 1
SPECIFICATION FairSpec
CHECK_DEADLOCK FALSE
INVARIANT RebuildsExact
PROPERTY Converges ReplicasSettle AddressFollowsOwnership
