SPECIFICATION FairSpec
CONSTANTS
    a = a
    b = b
    Plugin = {a, b}
    QuarantineThreshold = 2
    MaxOps = 4
    MaxRotations = 1
INVARIANTS NoStraySidecar ServedIffClaimed
PROPERTIES OpsMoveOn
