SPECIFICATION Spec
CONSTANTS
    Requests = {1, 2}
    NSegments = 1
    ProxyThreads = 2
    CacheThreads = 3
    Backlog = 64
    DataCap = 1
    Paths <- MCPaths
    Wants <- MCWants
    Cached <- MCCached
    Size <- MCSize
    Faults = {}
INVARIANT
    HonestHeader
