SPECIFICATION FairSpec
CONSTANTS
    Plugin = {p1}
    QuarantineThreshold = 3
    MaxMissedPings = 3
    WithService = {p1}
    ServeOptIn = {p1}
CHECK_DEADLOCK FALSE
INVARIANTS NoOrphan QuarantineIsFinal HostFollowsProcess ShutdownArmsNothing StopAllWaits
PROPERTIES NoOverlap  StopTerminates BootFinishes
