CONSTANTS
    c1 = c1
    c2 = c2
    dep = dep
    sts = sts
    ds = ds
    none = none
    Certs = {c1, c2}
    NoCert = none
    Issued = {c1}
    Workloads = {dep, sts, ds}
    Kind <- MCKind
    Uses <- MCUses
    NoRestart = {ds}
    Timeout = 2
    Signing = 4
    Lifetime = 1
    MaxTime = 4
    MaxRenewals = 2
    MaxFaults = 1
    MaxCrashes = 1
SPECIFICATION FairSpec
INVARIANT TypeOK
INVARIANT SkipSound
INVARIANT Stamped
PROPERTY NoDoubleRestart
PROPERTY EventuallyStamped
CHECK_DEADLOCK FALSE
