CONSTANTS
    Logger = logger
    Context = {logger, a, b}
    NULL = NULL
    UintRange = 32
    DEFAULT_CTX_SLOT_SIZE = 2
    HISTORY = 3
    NoData = NoData
    Ref = {r1, r2, r3}
    Byte = {1, 2}
    MAX_DATA = 4
    MAX_OPS = 5
    MAX_BUFFER_CAPACITY = 4
    MAX_BUFFER_PREALLOC = 2
    DEFAULT_BUFFER_CAPACITY = 1
    NB = 2
    SZINT = 2
    MAXINTSIZE = 4
    MAXALIGN = 2
    PREFIX = {0, 4}
    MAX_ARGS = 2
    MESSAGE_DATA = 5
    MAX_QUEUE = 2
    DEPTH_LIMIT = 2
    MAX_NESTED = 2
    MAX_ITEMS = 1
    MAX_CALLS = 3
    Coro = {c1, c2}
    NONE = NONE
    MAX_DEPTH = 2
SYMMETRY Symmetry
SPECIFICATION ContextsSpec
INVARIANTS
    SlotsAgree
    LookupExact
    CountExact
    HandlesSound
    DataExact
    DataReleased
    RoundTrip
    WaitsForAnswer
    CallersKept
PROPERTY
    BuffersPrivate
CHECK_DEADLOCK FALSE
