CONSTANTS
    cs = cs
    app = app
    clone = clone
    none = none
    Master = cs
    Generals = {app}
    Clones = {clone}
    Absent = none
    MaxSize = 2
    OwnCounts = {3}
    Edited <- MCEdited
    MaxUpsets = 2
SPECIFICATION FairSpec
INVARIANT TypeOK
INVARIANT QuiescentSize
INVARIANT ClonesFollow
INVARIANT SettledPhase
PROPERTY EventuallyQuiet
CHECK_DEADLOCK FALSE
