CONSTANTS
    n1 = n1
    n2 = n2
    idp = idp
    none = none
    NssCRs = {n1, n2}
    Owner = n1
    NoopOps = {idp}
    Absent = none
    Settings <- MCSettings
    MaxCSVs = 2
    MaxFaults = 1
SPECIFICATION FairSpec
INVARIANT TypeOK
INVARIANT ConfigMapSurvives
INVARIANT NoOrphanCSV
PROPERTY EventuallyScopeClean
PROPERTY EventuallyNoLeftovers
CHECK_DEADLOCK FALSE
