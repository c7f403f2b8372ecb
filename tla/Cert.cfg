CONSTANTS
    l1 = l1
    l2 = l2
    Leaves = {l1, l2}
    Byo = FALSE
    Slow = FALSE
    MaxCA = 2
    MaxFaults = 1
    MaxCrashes = 1
SPECIFICATION FairSpec
INVARIANT TypeOK
INVARIANT WatchedAtRest
PROPERTY EventuallyChained
