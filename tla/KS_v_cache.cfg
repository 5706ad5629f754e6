CONSTANTS
    Pod = {c1, c2}
    Poll = {q1}
    MaxKey = 5
    MaxWrites = 1
    MaxTroubles = 1
    None = None
SPECIFICATION Spec
CHECK_DEADLOCK FALSE
INVARIANTS CacheHasSigner
