CONSTANTS
    cs = cs
    app = app
    sc1 = sc1
    sc2 = sc2
    none = none
    CRs = {cs, app}
    Master = cs
    StorageClasses = {sc1}
    NoSC = none
    MaxSize = 1
    AllNamespaces = FALSE
    CppWatched = TRUE
    MaxEdits = 1
    MaxFaults = 1
    MaxCrashes = 1
SPECIFICATION FairSpec
INVARIANT QuiescentConverged
INVARIANT SettledPhase
PROPERTY EventuallyConverged
CHECK_DEADLOCK FALSE
