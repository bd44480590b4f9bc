SPECIFICATION FairSpecOne
CONSTANTS
    Keys = {1, 2, 3, 4}
    FileSizes = {0, 1, 3, 4}
    InitialCapacity = 2
    Threads = {t1}
    Items = {i1, i2}
    Addresses = {1, 2, 3, 4}
INVARIANTS
    WritesInside
    KeyInWindow
    GetIsExact
PROPERTIES
    LookupReturns
    ImplementsDeque
