CONSTANTS
    UCHAR_MAX = 2
    MAXBEHIND = 2
    MAXRULES = 4
    USHRT_MAX = 10
    MAXOFF = 1
    MAXSTRCAPS = 4
    INITBACK = 2
    MAXSTACK = 6
    Message <- MCMessage
    Enum <- MCEnum
    Documents <- MCDocuments
    NULL = NULL
    CRASHED = CRASHED
    GROUP = 5
    WMESSAGE_SIZE = 24
    INNER_FIELD = 2
    PATTERN_CAP = 4
    MAX_ENTRIES = 4
    MAX_CALLS = 2
SPECIFICATION LibrariesSpec
INVARIANTS
    MatchExact
    TablesExact
    RegisterExact
    WithinBuffer
    DocumentsExact
PROPERTY
    MatchEnds
CHECK_DEADLOCK FALSE
