CONSTANTS
    Logger = logger
    Root = root
    Context = {logger, root}
    NoContext = NoContext
    MAX_WORKER_NUM = 2
    NoWorker = NoWorker
    Main = main
    Net = net
    MAX_MESSAGE_PROC_NUM = 1
    WORKER_LOAD_THRESHOLD = 1
    INDEX_RANGE = 2
    MAX_SENT = 1
SPECIFICATION ShutdownSpec
INVARIANTS
    LeftoversDropped
CHECK_DEADLOCK FALSE
