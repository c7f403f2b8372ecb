CONSTANTS
    c1 = c1
    c2 = c2
    dep = dep
    sts = sts
    ds = ds
    none = none
    Certs = {c1}
    NoCert = none
    Issued = {c1}
    Workloads = {ds}
    Kind <- MCKind
    Uses <- MCUses
    NoRestart = {}
    Timeout = 2
    Signing = 0
    Lifetime = 3
    MaxTime = 6
    MaxRenewals = 1
    MaxFaults = 0
    MaxCrashes = 1
SPECIFICATION FairSpec
PROPERTY EventuallyFresh
CHECK_DEADLOCK FALSE
