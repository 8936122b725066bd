CONSTANTS
    Context = {a, b, e}
    a = a
    b = b
    e = e
    Awaits <- Two
    Killed = {}
    MAX_WAITS = 3
    REF_SESSIONS_CACHE_MAX = 1
SYMMETRY Symmetry
SPECIFICATION Spec
INVARIANTS
    WokenByEnd
CONSTRAINT NoTimers
CHECK_DEADLOCK FALSE
