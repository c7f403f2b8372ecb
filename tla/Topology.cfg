CONSTANTS
    op = op
    ms = ms
    foreign = foreign
    none = none
    Namespaces = {op, ms}
    Foreign = foreign
    OperatorNs = op
    MasterNs = ms
    Absent = none
    MaxEdits = 2
    MaxRequests = 1
    MaxFaults = 1
SPECIFICATION FairSpec
INVARIANT TypeOK
INVARIANT OneHome
PROPERTY RunningKept
PROPERTY Pinned
PROPERTY EventuallyHome
CHECK_DEADLOCK FALSE
