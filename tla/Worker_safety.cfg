CONSTANTS
    Fds = {d1, d2, d3}
    NoFd = NoFd
    NEndpoints = 1
    MaxAttempts = 2
    MaxIdle = 1
    GenModulus = 16
    Dispatch = TRUE
    Requests = {"get", "post", "upgrade", "bad", "h2"}
    Responses = {"full", "fullMore", "part", "close", "switch", "garbage"}
    Lanes = {FALSE}
    Roles = {"Client"}
    MaxRequests = 2
    MaxOpens = 3
    MaxRefusals = 1
VIEW View
SYMMETRY FdSymmetry
SPECIFICATION Spec
CHECK_DEADLOCK FALSE
INVARIANT DeliveryExact DescriptorsAccounted AttemptsAccounted
