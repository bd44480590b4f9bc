SPECIFICATION CrashFairSpec
CONSTANTS
    Requests = {1, 2}
    NSegments = 1
    ProxyThreads = 2
    CacheThreads = 2
    Backlog = 64
    DataCap = 1
    Paths <- MCPaths
    Wants <- MCWants
    Cached <- MCCached
    Size <- MCSize
    Faults = {"write", "header", "send", "stall", "setup"}
    MaxStops = 2
CHECK_DEADLOCK FALSE
INVARIANTS
    TokenOrLost
    SleeperExplained
PROPERTY
    EndsOrStranded
