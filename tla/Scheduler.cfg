CONSTANTS
    c1 = c1
    c2 = c2
    c3 = c3
    Logger = logger
    Root = root
    Context = {logger, root, c1, c2, c3}
    NoContext = NoContext
    MAX_WORKER_NUM = 2
    NoWorker = NoWorker
    Main = main
    Net = net
    MAX_MESSAGE_PROC_NUM = 2
    WORKER_LOAD_THRESHOLD = 1
    INDEX_RANGE = 2
    MAX_SENT = 1
SPECIFICATION BothSpec
INVARIANTS
    SingleOwner
    NoStrandedMessage
    NoLostWakeup
    RefsExact
    NoUseAfterFree
    InitFirst
CONSTRAINT AllOrNone
CHECK_DEADLOCK FALSE
