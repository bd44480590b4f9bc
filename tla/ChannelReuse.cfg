SPECIFICATION CrashSpec
CONSTANTS
    Requests = {1, 2, 3}
    NSegments = 1
    ProxyThreads = 2
    CacheThreads = 3
    Backlog = 64
    DataCap = 1
    Paths <- MCPaths
    Wants <- MCWantsReuse
    Cached <- MCCached
    Size <- MCSize
    Faults = {"send"}
    MaxStops = 0
INVARIANTS
    OneToken
PROPERTY
    PacketStable
