CONSTANTS
    Fds = {d1, d2}
    NoFd = NoFd
    NEndpoints = 2
    MaxAttempts = 2
    MaxIdle = 1
    GenModulus = 16
    Dispatch = FALSE
    Requests = {"get"}
    Responses = {"close"}
    Lanes = {TRUE}
    Roles = {"Client", "Admin"}
    MaxRequests = 1
    MaxOpens = 2
    MaxRefusals = 1
SPECIFICATION FairSpec
CHECK_DEADLOCK FALSE
PROPERTY DrainEnds RequestsEnd
