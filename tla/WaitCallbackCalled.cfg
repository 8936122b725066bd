CONSTANTS
    Context = {a, b}
    a = a
    b = b
    e = e
    Awaits <- One
    Killed = {}
    MAX_WAITS = 1
    REF_SESSIONS_CACHE_MAX = 1
SPECIFICATION FairSpec
PROPERTY
    CallbackCalled
CHECK_DEADLOCK FALSE
