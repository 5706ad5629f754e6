CONSTANTS
    Pod = {c1, c2}
    Poll = {q1, q2}
    MaxKey = 3
    MaxWrites = 1
    MaxTroubles = 1
    None = None
SPECIFICATION Spec
CHECK_DEADLOCK FALSE
SYMMETRY Symmetry
INVARIANTS LiveTokensVerify NoNeedlessReauth
