CONSTANTS
    Key = {a, b}
    Big = {b}
    RingCapacity = 2
    MaxEdits = 4
    MaxVisits = 2
    MaxToggles = 2
    MaxQueue = 1
SPECIFICATION FairSpec
CHECK_DEADLOCK FALSE
INVARIANT ViewerShowsHistory
PROPERTIES ImplementsMirror CatchesUp
