SPECIFICATION LifeSpec
CONSTANTS
    Workers = {w1, w2, w3, w4}
    NSegments = 2
    Pids = {1}
    MaxStarts = 2
INVARIANTS
    ExclusiveUse
    NoLostWakeup
    NamesExplained
PROPERTIES
    FreshPool
    NoStall
    ImplementsOwnership
