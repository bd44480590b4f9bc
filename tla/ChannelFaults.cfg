SPECIFICATION CrashFairSpec
CONSTANTS
    Requests = {1, 2}
    NSegments = 2
    ProxyThreads = 2
    CacheThreads = 1
    Backlog = 64
    DataCap = 1
    Paths <- MCPaths
    Wants <- MCWantsMiss
    Cached <- MCCached
    Size <- MCSize
    Faults = {"write", "header", "send", "stall", "setup", "dup", "pread"}
    MaxStops = 1
CHECK_DEADLOCK FALSE
INVARIANTS
    SegmentExclusive
    FirstUseIntegrity
PROPERTIES
    ImplementsOwnership
    EndsOrStranded
