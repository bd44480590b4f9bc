SPECIFICATION DescSpec
CONSTANTS
    Workers = {w1, w2}
    Jobs = {j1, j2, j3}
    MaxFds = 5
INVARIANTS
    DescriptorsOwned
PROPERTIES
    EveryConnectionServed
