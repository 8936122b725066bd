CONSTANTS
    Context = {a, b}
    a = a
    b = b
    e = e
    Awaits <- One
    Killed = {a}
    MAX_WAITS = 2
    REF_SESSIONS_CACHE_MAX = 1
    INT_MAX = 3
    Others = {2}
    Bases = {2}
    MAX_QUERIES = 2
SPECIFICATION CallsSpec
INVARIANTS
    SessionsExact
    WaitersExact
    RepliesMatch
PROPERTY
    CallsEnd
CHECK_DEADLOCK FALSE
