CONSTANTS
    None = None
    Garbage = Garbage
    Collation <- MCCollation
    ClassName = "ramjet"
    DefaultBackend = None
    DefaultSecret <- MCDefaultSecret
    BadPattern <- MCBadPattern
    Objects <- MCObjects
    Classes <- MCClasses
    Services <- MCServices
    Slices <- MCSlices
    Pods <- MCPods
    SecretNames <- MCSecrets
    Certs <- MCCerts
    ReqHosts <- MCReqHosts
    ReqPaths <- MCReqPaths
    MaxPending = 1
SPECIFICATION Spec
CHECK_DEADLOCK FALSE
INVARIANT TableWhole MatchIsMostSpecific TenancyKept
