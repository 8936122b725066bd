------------------------------ MODULE MCScheduler ------------------------------
(***************************************************************************)
(* Models of Scheduler: from the start of the process, with the two        *)
(* contexts it begins with, and from where stealing begins.  There Root    *)
(* has created three contexts with a single worker, all of them and the    *)
(* logger, with the line each of them logged, are in its queue, and the    *)
(* last check_load is about to start the second worker.                    *)
(***************************************************************************)
EXTENDS Scheduler

CONSTANTS c1, c2, c3

Waiting == <<Logger, c1, c2, c3>>

\* main is done with its part, and the worker, which has not slept since, has one token
\* for the push that found its queue empty.  Scheduler reaches this state with a larger
\* WORKER_LOAD_THRESHOLD than that of the run, with which the second worker would have
\* been started when Root created the first of the three.
StealInit ==
    /\ m_alloc = [c \in Context |-> "live"]
    /\ m_handle = [c \in Context |-> TRUE]
    /\ m_inited = [c \in Context |-> TRUE]
    /\ m_ref = [c \in Context |-> IF c = Logger THEN 3 ELSE 2]
    /\ m_processing = [c \in Context |-> TRUE]
    /\ m_message_queue = [c \in Context |->
                              CASE c = Root -> << >>
                                [] c = Logger -> <<"log", "log", "log">>
                                [] OTHER -> <<"init">>]
    /\ m_worker = [c \in Context |-> IF c = Root THEN 0 ELSE NoWorker]
    /\ queue = [w \in Worker |-> IF w = 0 THEN Waiting ELSE << >>]
    /\ sem = [w \in Worker |-> IF w = 0 THEN 1 ELSE 0]
    /\ m_worker_num = 1
    /\ m_worker_push_index = 0
    /\ m_exiting = FALSE
    /\ m_ctx_size = Cardinality(Context)
    /\ pc = [t \in Thread |-> CASE t = Main -> "join"
                                [] t = Net -> "idle"
                                [] t = 0 -> "check_load"
                                [] OTHER -> "unborn"]
    /\ running = [w \in Worker |-> IF w = 0 THEN Root ELSE NoContext]
    /\ message = [w \in Worker |-> IF w = 0 THEN "init" ELSE "data"]
    /\ handled = [w \in Worker |-> 0]
    /\ stolen = [w \in Worker |-> << >>]
    /\ dest = [t \in Thread |-> NoContext]
    /\ type = [t \in Thread |-> IF t \in {0, Main} THEN "init" ELSE "data"]
    /\ back = [t \in Thread |-> IF t \in {0, Main} THEN "check_load" ELSE "idle"]
    /\ created = [t \in Thread |-> NoContext]
    /\ target = [t \in Thread |-> 0]
    /\ scan = [t \in Thread |-> 0]
    /\ num = [t \in Thread |-> 0]
    /\ sent = MAX_SENT

\* From the start of the process, or from where stealing begins.
BothSpec == (Init \/ StealInit) /\ [][Next]_vars

\* Where the process starts no other context is created, which Create.cfg has; where
\* stealing begins all three exist.
AllOrNone == \A c \in {c1, c2, c3} : m_alloc[c] = "none" <=> m_alloc[c1] = "none"
=============================================================================
