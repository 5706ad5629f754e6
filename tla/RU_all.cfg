CONSTANTS
    MaxVersion = 3
    Retention = 1
    MaxUpdates = 2
    MaxFaults = 2
    MaxCrashes = 2
SPECIFICATION UpdateSpec
CHECK_DEADLOCK FALSE
INVARIANTS DataSurvives OutcomeIsTrue
PROPERTY UndoneIfStashed
