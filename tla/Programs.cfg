SPECIFICATION FairSpec
CONSTANTS
    Clients = {"c1", "c2"}
    FileLength = 3
    BufSize = 2
    Faults = {"fopen", "fread", "send", "kill", "open", "write"}
    Speakers = {"empty", "short", "other", "long"}
    Limit = 2
    Mortal = {"short"}
    Requests = {"r1", "r2"}
    Threads = 1
    BodyLength = 2
INVARIANTS
    NoHole
    SuccessIsWhole
    EchoesOwnMessage
    AnswerIsHonest
PROPERTIES
    ExitExplained
    EveryTransferEnds
    EveryEchoEnds
    EveryRequestAnswered
