SPECIFICATION FairSpec
CONSTANTS
    r1 = r1
    r2 = r2
    Request = {r1, r2}
    NoGate = NoGate
    Total = 3
    MaxRestarts = 1
CHECK_DEADLOCK FALSE
INVARIANTS OneInside AckedIsOnDisk UploadIsWhole
PROPERTY RequestsAreAnswered
