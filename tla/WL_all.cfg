CONSTANTS
    Socket = {s1, s2}
    Token = {t1, t2, t3}
    None = None
    MaxTroubles = 2
SPECIFICATION Spec
CHECK_DEADLOCK FALSE
INVARIANTS OneLiveSocket BannedIsOut NothingIsForgotten
PROPERTY LinkSettles
