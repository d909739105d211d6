CONSTANTS
    Processes = {p1, p2}
    Tokens = {t1, t2}
    Calls = {c1, c2}
    Ttl = 2
    Ahead = 0
    Behind = 1
    MaxRestarts = 1
    MaxClock = 5
SPECIFICATION Spec
SYMMETRY Symmetry
INVARIANT AcceptedOnce
INVARIANT RecordsOutliveTokens
CHECK_DEADLOCK FALSE
