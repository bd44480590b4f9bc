SPECIFICATION FairSpec
CONSTANTS
    Workers = {"w1", "w2"}
    Jobs = {"j1", "j2", "j3"}
    Size <- MCSize
    BufferSize = 2
    MaxSignals = 2
    Faults = {"calloc", "dup", "fstat", "header", "send", "pread"}
INVARIANTS
    HonestAnswer
PROPERTIES
    ImplementsJobPool
    EveryJobAnswered
    SignalStops
