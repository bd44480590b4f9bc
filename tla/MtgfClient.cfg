SPECIFICATION FairSpec
CONSTANTS
    Workers = {w1, w2}
    NRequests = 3
    Workload <- MCWorkload
    Outcomes = {"ok", "short", "invalid", "notfound"}
    OpenFails = TRUE
INVARIANTS
    FilesMatchOutcomes
PROPERTIES
    ImplementsJobPool
    MainReturns
