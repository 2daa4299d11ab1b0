SPECIFICATION Spec
CONSTANTS
    NCores = 2
    Socks = {s1, s2}
    NoteLen = 2
    PipeNotes = 1
    MaxTicks = 1
    Conns = {k1, k2}
    Platforms = {"reuseport", "acceptor"}
    MaxFailures = 1
    MaxLoad <- MCLoad
SYMMETRY Interchangeable
INVARIANT OneNotePerJob WakeNotLost ResultHonest
PROPERTY PolledIsTruthful
CHECK_DEADLOCK FALSE
