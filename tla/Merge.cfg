CONSTANTS
    Cases <- MCCases
    LaterCases <- MCLaterCases
SPECIFICATION Spec
INVARIANTS
    TypeOK
    LargestWins
    Schedulable
    ControllerOwnsSizes
    ReplicaHasNoInitdb
