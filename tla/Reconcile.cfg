CONSTANTS
    cs = cs
    app = app
    sc1 = sc1
    sc2 = sc2
    none = none
    CRs = {cs, app}
    Master = cs
    StorageClasses = {sc1}
    NoSC = none
    MaxSize = 1
    AllNamespaces = TRUE
    CppWatched = TRUE
    MaxEdits = 2
    MaxFaults = 1
    MaxCrashes = 0
SPECIFICATION Spec
INVARIANT TypeOK
INVARIANT QuiescentConverged
INVARIANT SettledPhase
INVARIANT SucceededInstalled
PROPERTY CreatedComplete
CHECK_DEADLOCK FALSE
