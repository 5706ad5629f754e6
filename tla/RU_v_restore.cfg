CONSTANTS
    MaxVersion = 3
    Retention = 1
    MaxUpdates = 1
    MaxFaults = 2
    MaxCrashes = 0
SPECIFICATION UpdateSpec
CHECK_DEADLOCK FALSE
PROPERTY FailedRestoreIsUndone
