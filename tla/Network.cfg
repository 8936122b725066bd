CONSTANTS
    Message = {a, b}
    NoMessage = NoMessage
    DEFAULT_MQ_SIZE = 2
    UintRange = 16
    Worker = {w1, w2}
    Main = Main
    MAX_REQUESTS = 3
    PIPE_SIZE = 2
    m_cpu_count = 2
    MAX_PACKETS = 3
    MAX_READS = 2
    MAX_CONNECTIONS = 2
    MAX_ACCEPTS = 2
    MAX_CALLBACKS = 1
    MAX_ERRORS = 1
    MAX_WRITES = 2
    MAX_OPTIONS = 2
    TCP_WRITE_UV_REQUEST_CACHE_MAX = 1
    Handle = {t1, t2, s1, s2}
    Timer = {t1, t2}
    Ref = {1, 2}
    NIL = NIL
    REFNIL = NIL
    MAX_HANDLES = 2
    MAX_EVENTS = 1
    Use = {u1, u2}
    Session = {1, 2}
    MAX_FIRED = 2
    MAX_QUEUED = 1
    BASE = 4
    MAX_SENT = 2
    MAX_LENGTH = 5
    SHARED_READ_BUFFER_SIZE = 4
    LARGE_UNCOMPLETE_LIMIT = 3
    Maxes = {0, 3}
SPECIFICATION NetworkSpec
INVARIANTS
    RingConsistent
    RequestsHandled
    AcceptsExact
    ReadsExact
    WritesOver
    HandlesExact
    CallbacksExact
    PacketsIntact
PROPERTY
    FifoSpec
CHECK_DEADLOCK FALSE
