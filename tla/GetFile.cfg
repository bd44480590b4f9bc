SPECIFICATION FairSpec
CONSTANTS
    Clients = {"c1", "c2"}
    Paths = {"file", "missing", "bad", "long"}
    HeaderLength = 2
    FileLength = 3
    HeaderBuffer = 3
    BodyBuffer = 1
    SocketBuffer = 3
INVARIANTS
    ResultTellsOutcome
    BodyInPlace
PROPERTY
    EveryPerformReturns
