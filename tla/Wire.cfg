CONSTANTS
    MaxHead = 21
    MaxHeaders = 4
    MaxDigits = 2
    MaxChunkLine = 4
    MaxTrailer = 3
    V1MaxLen = 6
    InetLen = 1
    Inet6Len = 2
    Nobody = "nobody"
    MaxRead = 5
    Streams <- MCStreams
    Headers <- MCHeaders
    Replies <- MCReplies
    Hellos = {"h1", "h2", "bad"}
SPECIFICATION Spec
CHECK_DEADLOCK FALSE
INVARIANT Bounded BytesKept  OneReading
