CONSTANTS
    cs = cs
    app = app
    sc1 = sc1
    sc2 = sc2
    none = none
    CRs = {cs, app}
    Master = cs
    StorageClasses = {sc1}
    NoSC = none
    MaxSize = 1
    AllNamespaces = FALSE
    CppWatched = TRUE
    MaxEdits = 0
    MaxFaults = 1
    MaxCrashes = 0
SPECIFICATION FairSpec
PROPERTY FailureRetried
CHECK_DEADLOCK FALSE
