------------------------------ MODULE Scheduler ------------------------------
(***************************************************************************)
(* How contexts are scheduled on worker threads: context_t (context.cpp),  *)
(* context_queue_t (context_queue.cpp), worker_mgr_t (worker_mgr.cpp) and  *)
(* the sending, creation and destruction of contexts (node_lua.h,          *)
(* node_lua.cpp).                                                          *)
(*                                                                         *)
(* A step is what one thread does between two points where another thread  *)
(* can interfere: a critical section, an atomic increment, or an unlocked  *)
(* read of shared state.  pc names the place a thread has reached, by the  *)
(* source function it is about to execute.                                 *)
(*                                                                         *)
(* Lua code is the environment: while it handles a message a Lua context   *)
(* sends, creates, destroys, logs, and finally stays active or does not.   *)
(* A context is never registered twice, so it stands for its own handle;   *)
(* ContextMgr models how handles are chosen and looked up.                 *)
(***************************************************************************)
EXTENDS Integers, Sequences, FiniteSets

CONSTANTS Context,                \* every context ever created
          Logger,                 \* the one of type context_log_t
          Root,                   \* the first Lua context, created by main
          NoContext,              \* the null context_t pointer
          MAX_WORKER_NUM,         \* m_max_worker_num
          NoWorker,               \* the null worker_t pointer
          Main, Net,              \* the main and the network thread
          MAX_MESSAGE_PROC_NUM,   \* messages handled before a context yields
          WORKER_LOAD_THRESHOLD,  \* contexts per worker before one is added
          INDEX_RANGE,            \* number of values of m_worker_push_index
          MAX_SENT                \* bound on the messages the environment sends

Worker == 0 .. MAX_WORKER_NUM - 1
Thread == Worker \cup {Main, Net}

ASSUME SchedulerAssumption ==
    /\ IsFiniteSet(Context)
    /\ Logger \in Context /\ Root \in Context /\ Logger # Root
    /\ NoContext \notin Context
    /\ MAX_WORKER_NUM \in Nat \ {0}
    /\ NoWorker \notin Worker
    /\ Main \notin Worker /\ Net \notin Worker /\ Main # Net
    /\ MAX_MESSAGE_PROC_NUM \in Nat \ {0}
    /\ WORKER_LOAD_THRESHOLD \in Nat
    /\ INDEX_RANGE \in Nat \ {0}
    /\ MAX_SENT \in Nat

\* LUA_CTX_INIT, SYSTEM_CTX_DESTROY, LOG_MESSAGE, and every other message.
Message == {"init", "destroy", "log", "data"}

VARIABLES
    \* one context_t per context
    m_alloc,       \* "none", "live" or "deleted"
    m_handle,      \* m_handle # 0: the context is registered
    m_inited, m_ref, m_processing,
    m_message_queue,
    m_worker,      \* the worker the context is attached to
    \* worker_mgr_t and the context_queue_t of each worker
    queue, sem, m_worker_num, m_worker_push_index, m_exiting,
    \* context_mgr_t
    m_ctx_size,
    \* the locals of the threads
    pc,
    running,       \* worker_process: the context being run
    message,       \* worker_process: the message being handled
    handled,       \* worker_process: i, as far as it is compared
    stolen,        \* worker_process: contexts stolen and not yet queued
    dest,          \* context_send: the receiver
    type,          \* context_send: the type of the message
    back,          \* context_send: where to return to
    created,       \* context_create: the context being initialised
    target,        \* push_one: the worker whose queue is pushed to
    scan,          \* loop index over the workers
    num,           \* repush_context: min_length; start_worker: ctx_num
    sent           \* messages the environment has sent (bounded by MAX_SENT)

ctxVars == <<m_alloc, m_handle, m_inited, m_ref, m_processing,
             m_message_queue, m_worker>>
mgrVars == <<queue, sem, m_worker_num, m_worker_push_index, m_exiting>>
sendVars == <<dest, type, back>>
loopVars == <<target, scan, num>>
runVars == <<running, message, handled, stolen>>
vars == <<ctxVars, mgrVars, m_ctx_size, pc, runVars, sendVars, loopVars,
          created, sent>>

IsValid(c) == m_inited[c] /\ m_handle[c]

\* The constructor of context_t gives every context these values.
Init ==
    /\ m_alloc = [c \in Context |-> "none"]
    /\ m_handle = [c \in Context |-> FALSE]
    /\ m_inited = [c \in Context |-> FALSE]
    /\ m_ref = [c \in Context |-> 0]
    /\ m_processing = [c \in Context |-> FALSE]
    /\ m_message_queue = [c \in Context |-> << >>]
    /\ m_worker = [c \in Context |-> NoWorker]
    /\ queue = [w \in Worker |-> << >>]
    /\ sem = [w \in Worker |-> 0]
    /\ m_worker_num = 1
    /\ m_worker_push_index = 0
    /\ m_exiting = FALSE
    /\ m_ctx_size = 0
    /\ pc = [t \in Thread |-> CASE t = Main -> "boot_logger"
                                [] t = Net -> "idle"
                                [] t = 0 -> "loop"
                                [] OTHER -> "unborn"]
    /\ running = [w \in Worker |-> NoContext]
    /\ message = [w \in Worker |-> "data"]
    /\ handled = [w \in Worker |-> 0]
    /\ stolen = [w \in Worker |-> << >>]
    /\ dest = [t \in Thread |-> NoContext]
    /\ type = [t \in Thread |-> "data"]
    /\ back = [t \in Thread |-> "idle"]
    /\ created = [t \in Thread |-> NoContext]
    /\ target = [t \in Thread |-> 0]
    /\ scan = [t \in Thread |-> 0]
    /\ num = [t \in Thread |-> 0]
    /\ sent = 0

Goto(t, label) == pc' = [pc EXCEPT ![t] = label]

-----------------------------------------------------------------------------
(* context_send: grab the context, check it, push the message, and queue    *)
(* the context if nobody is processing it.                                   *)

\* Thread t starts context_send(handle of c) and will go on at label b.
CallSend(t, c, m, b) ==
    /\ dest' = [dest EXCEPT ![t] = c]
    /\ type' = [type EXCEPT ![t] = m]
    /\ back' = [back EXCEPT ![t] = b]
    /\ Goto(t, "grab_context")

\* Thread t starts log_fmt: the logger is reached through the reference that
\* m_logger holds, it is neither looked up nor grabbed.
CallLog(t, b) ==
    /\ dest' = [dest EXCEPT ![t] = Logger]
    /\ type' = [type EXCEPT ![t] = "log"]
    /\ back' = [back EXCEPT ![t] = b]
    /\ Goto(t, "check_valid")

\* Leave context_send without releasing a reference.
Return(t) ==
    /\ dest' = [dest EXCEPT ![t] = NoContext]
    /\ Goto(t, back[t])
    /\ UNCHANGED <<type, back>>

\* The end of context_send: release what grab_context took, if it was called.
EndSend(t) ==
    IF type[t] = "log"
    THEN Return(t)
    ELSE /\ Goto(t, "release_dest")
         /\ UNCHANGED sendVars

grab_context(t) ==
    /\ pc[t] = "grab_context"
    /\ \/ /\ m_handle[dest[t]]
          /\ m_ref' = [m_ref EXCEPT ![dest[t]] = @ + 1]
          /\ Goto(t, "check_valid")
          /\ UNCHANGED sendVars
       \/ /\ ~m_handle[dest[t]]
          /\ Return(t)
          /\ UNCHANGED m_ref
    /\ UNCHANGED <<m_alloc, m_handle, m_inited, m_processing, m_message_queue,
                   m_worker, mgrVars, m_ctx_size, runVars, loopVars, created,
                   sent>>

\* The unlocked test of context_send.  (The second read of m_handle, compared
\* with the source, only matters for the message a context sends itself in
\* init.)
check_valid(t) ==
    /\ pc[t] = "check_valid"
    /\ \/ /\ IsValid(dest[t])
          /\ Goto(t, "push_message")
          /\ UNCHANGED sendVars
       \/ /\ ~IsValid(dest[t])
          /\ EndSend(t)
    /\ UNCHANGED <<ctxVars, mgrVars, m_ctx_size, runVars, loopVars, created,
                   sent>>

\* Mutated form of push_message: m_processing is read but not set.
push_message_keeps_flag(t) ==
    /\ pc[t] = "push_message"
    /\ m_message_queue' = [m_message_queue EXCEPT ![dest[t]] =
                               Append(@, type[t])]
    /\ IF m_processing[dest[t]]
       THEN EndSend(t)
       ELSE Goto(t, "push_context") /\ UNCHANGED sendVars
    /\ UNCHANGED <<m_alloc, m_handle, m_inited, m_ref, m_processing, m_worker,
                   mgrVars, m_ctx_size, runVars, loopVars, created, sent>>

push_message(t) ==
    /\ pc[t] = "push_message"
    /\ m_message_queue' = [m_message_queue EXCEPT ![dest[t]] =
                               Append(@, type[t])]
    /\ m_processing' = [m_processing EXCEPT ![dest[t]] = TRUE]
    /\ IF m_processing[dest[t]]
       THEN EndSend(t)
       ELSE Goto(t, "push_context") /\ UNCHANGED sendVars
    /\ UNCHANGED <<m_alloc, m_handle, m_inited, m_ref, m_worker, mgrVars,
                   m_ctx_size, runVars, loopVars, created, sent>>

\* Mutated form of push_context: the queue gets no reference of its own.
push_context_no_grab(t) ==
    /\ pc[t] = "push_context"
    /\ target' = [target EXCEPT ![t] = m_worker_push_index % m_worker_num]
    /\ m_worker_push_index' = (m_worker_push_index + 1) % INDEX_RANGE
    /\ Goto(t, "push_one")
    /\ UNCHANGED <<ctxVars, queue, sem, m_worker_num, m_exiting, m_ctx_size,
                   runVars, sendVars, scan, num, created, sent>>

\* Grab the context for the queue and choose the queue round-robin.
push_context(t) ==
    /\ pc[t] = "push_context"
    /\ m_ref' = [m_ref EXCEPT ![dest[t]] = @ + 1]
    /\ target' = [target EXCEPT ![t] = m_worker_push_index % m_worker_num]
    /\ m_worker_push_index' = (m_worker_push_index + 1) % INDEX_RANGE
    /\ Goto(t, "push_one")
    /\ UNCHANGED <<m_alloc, m_handle, m_inited, m_processing, m_message_queue,
                   m_worker, queue, sem, m_worker_num, m_exiting, m_ctx_size,
                   runVars, sendVars, scan, num, created, sent>>

\* What follows push_one: the rest of context_send or context_create, or the
\* end of a round of worker_process.
AfterPush(t) ==
    IF dest[t] # NoContext
    THEN EndSend(t)
    ELSE Goto(t, "loop") /\ UNCHANGED sendVars

\* Mutated form of push_one: it wakes the owner for the second context, not
\* for the first.
push_one_wakes_late(t) ==
    LET c == IF dest[t] # NoContext THEN dest[t] ELSE running[t]
    IN
    /\ pc[t] = "push_one"
    /\ queue' = [queue EXCEPT ![target[t]] = Append(@, c)]
    /\ IF dest[t] # NoContext
       THEN UNCHANGED running
       ELSE running' = [running EXCEPT ![t] = NoContext]
    /\ IF Len(queue[target[t]]) = 1
       THEN Goto(t, "sem_post") /\ UNCHANGED sendVars
       ELSE AfterPush(t)
    /\ UNCHANGED <<ctxVars, sem, m_worker_num, m_worker_push_index, m_exiting,
                   m_ctx_size, message, handled, stolen, loopVars, created,
                   sent>>

\* push_one under the lock of the target queue.  The pushed context is the
\* destination of a send, or the one a worker hands over in repush_context.
push_one(t) ==
    LET c == IF dest[t] # NoContext THEN dest[t] ELSE running[t]
    IN
    /\ pc[t] = "push_one"
    /\ queue' = [queue EXCEPT ![target[t]] = Append(@, c)]
    /\ IF dest[t] # NoContext
       THEN UNCHANGED running
       ELSE running' = [running EXCEPT ![t] = NoContext]
    /\ IF queue[target[t]] = << >>
       THEN Goto(t, "sem_post") /\ UNCHANGED sendVars
       ELSE AfterPush(t)
    /\ UNCHANGED <<ctxVars, sem, m_worker_num, m_worker_push_index, m_exiting,
                   m_ctx_size, message, handled, stolen, loopVars, created,
                   sent>>

\* push_one after the lock: wake the owner of a queue that was empty.
sem_post(t) ==
    /\ pc[t] = "sem_post"
    /\ sem' = [sem EXCEPT ![target[t]] = @ + 1]
    /\ AfterPush(t)
    /\ UNCHANGED <<ctxVars, queue, m_worker_num, m_worker_push_index,
                   m_exiting, m_ctx_size, runVars, loopVars, created, sent>>

\* context_t::release: the last reference deletes the context.
Release(c) ==
    /\ m_ref' = [m_ref EXCEPT ![c] = @ - 1]
    /\ m_alloc' = [m_alloc EXCEPT ![c] = IF m_ref[c] = 1 THEN "deleted" ELSE @]

release_dest(t) ==
    /\ pc[t] = "release_dest"
    /\ Release(dest[t])
    /\ Return(t)
    /\ UNCHANGED <<m_handle, m_inited, m_processing, m_message_queue,
                   m_worker, mgrVars, m_ctx_size, runVars, loopVars, created,
                   sent>>

Send(t) == \/ grab_context(t) \/ check_valid(t) \/ push_message(t)
           \/ push_context(t) \/ push_one(t) \/ sem_post(t) \/ release_dest(t)

-----------------------------------------------------------------------------
(* context_create: register, initialise, queue for the first time.          *)

\* Mutated form of Register: on_registered does not grab.
RegisterNoGrab(t, c) ==
    /\ m_alloc[c] = "none"
    /\ m_alloc' = [m_alloc EXCEPT ![c] = "live"]
    /\ m_ref' = [m_ref EXCEPT ![c] = 1]
    /\ m_processing' = [m_processing EXCEPT ![c] = TRUE]
    /\ m_handle' = [m_handle EXCEPT ![c] = TRUE]
    /\ m_ctx_size' = m_ctx_size + 1
    /\ created' = [created EXCEPT ![t] = c]
    /\ Goto(t, "init")
    /\ UNCHANGED <<m_inited, m_message_queue, m_worker, mgrVars, runVars,
                   sendVars, loopVars, sent>>

\* Mutated form of Register: the context accepts messages from the start.
RegisterInited(t, c) ==
    /\ m_alloc[c] = "none"
    /\ m_alloc' = [m_alloc EXCEPT ![c] = "live"]
    /\ m_ref' = [m_ref EXCEPT ![c] = 2]
    /\ m_processing' = [m_processing EXCEPT ![c] = TRUE]
    /\ m_handle' = [m_handle EXCEPT ![c] = TRUE]
    /\ m_inited' = [m_inited EXCEPT ![c] = TRUE]
    /\ m_ctx_size' = m_ctx_size + 1
    /\ created' = [created EXCEPT ![t] = c]
    /\ Goto(t, "init")
    /\ UNCHANGED <<m_message_queue, m_worker, mgrVars, runVars,
                   sendVars, loopVars, sent>>

\* register_context: the new context_t (m_ref 1, m_processing true) enters the
\* registry, which takes a second reference.
Register(t, c) ==
    /\ m_alloc[c] = "none"
    /\ m_alloc' = [m_alloc EXCEPT ![c] = "live"]
    /\ m_ref' = [m_ref EXCEPT ![c] = 2]
    /\ m_processing' = [m_processing EXCEPT ![c] = TRUE]
    /\ m_handle' = [m_handle EXCEPT ![c] = TRUE]
    /\ m_ctx_size' = m_ctx_size + 1
    /\ created' = [created EXCEPT ![t] = c]
    /\ Goto(t, "init")
    /\ UNCHANGED <<m_inited, m_message_queue, m_worker, mgrVars, runVars,
                   sendVars, loopVars, sent>>

\* context_log_t::init does nothing; context_lua_t::init logs and returns false
\* (no file name, or too many arguments), or logs and goes on.
init(t) ==
    /\ pc[t] = "init"
    /\ IF created[t] = Logger
       THEN Goto(t, "set_inited") /\ UNCHANGED sendVars
       ELSE CallLog(t, "lua_ctx_init") \/ CallLog(t, "retire_created")
    /\ UNCHANGED <<ctxVars, mgrVars, m_ctx_size, runVars, loopVars, created,
                   sent>>

\* The context sends itself LUA_CTX_INIT, which context_send accepts because
\* source and handle agree; m_processing is still true, so it is not queued.
lua_ctx_init(t) ==
    /\ pc[t] = "lua_ctx_init"
    /\ m_message_queue' = [m_message_queue EXCEPT ![created[t]] =
                               Append(@, "init")]
    /\ Goto(t, "set_inited")
    /\ UNCHANGED <<m_alloc, m_handle, m_inited, m_ref, m_processing, m_worker,
                   mgrVars, m_ctx_size, runVars, sendVars, loopVars, created,
                   sent>>

\* context_create goes on with the created context as the one to queue, or to
\* give up, and to release.
SendCreated(t, b) ==
    /\ dest' = [dest EXCEPT ![t] = created[t]]
    /\ type' = [type EXCEPT ![t] = "init"]
    /\ back' = [back EXCEPT ![t] = b]
    /\ created' = [created EXCEPT ![t] = NoContext]

set_inited(t) ==
    /\ pc[t] = "set_inited"
    /\ m_inited' = [m_inited EXCEPT ![created[t]] = TRUE]
    /\ SendCreated(t, "check_load")
    /\ Goto(t, "push_context")
    /\ UNCHANGED <<m_alloc, m_handle, m_ref, m_processing, m_message_queue,
                   m_worker, mgrVars, m_ctx_size, runVars, loopVars, sent>>

\* retire_context and on_retired, under the lock of the registry.
Retire(c) ==
    /\ m_handle' = [m_handle EXCEPT ![c] = FALSE]
    /\ Release(c)
    /\ m_ctx_size' = m_ctx_size - 1

\* A context that could not be initialised is retired and released.
retire_created(t) ==
    /\ pc[t] = "retire_created"
    /\ Retire(created[t])
    /\ SendCreated(t, "check_alive")
    /\ Goto(t, "release_dest")
    /\ UNCHANGED <<m_inited, m_processing, m_message_queue, m_worker, mgrVars,
                   runVars, loopVars, sent>>

\* Where context_create returns to.
AfterCreate(t) ==
    IF t # Main THEN "handle"
    ELSE IF m_alloc[Root] = "none" THEN "grab_logger" ELSE "join"

\* check_load: the tests without the lock.
check_load(t) ==
    /\ pc[t] = "check_load"
    /\ \/ /\ ~m_exiting
          /\ m_worker_num < MAX_WORKER_NUM
          /\ m_ctx_size > m_worker_num * WORKER_LOAD_THRESHOLD
          /\ num' = [num EXCEPT ![t] = m_ctx_size]
          /\ Goto(t, "start_worker")
       \/ /\ \/ m_exiting
             \/ m_worker_num >= MAX_WORKER_NUM
             \/ m_ctx_size <= m_worker_num * WORKER_LOAD_THRESHOLD
          /\ Goto(t, AfterCreate(t))
          /\ UNCHANGED num
    /\ UNCHANGED <<ctxVars, mgrVars, m_ctx_size, runVars, sendVars, target,
                   scan, created, sent>>

\* start_worker: the tests again under m_worker_lock, with the context count
\* that check_load was given.  stop sets m_exiting under the same lock.
start_worker(t) ==
    /\ pc[t] = "start_worker"
    /\ num' = [num EXCEPT ![t] = 0]
    /\ IF /\ ~m_exiting
          /\ m_worker_num < MAX_WORKER_NUM
          /\ num[t] > m_worker_num * WORKER_LOAD_THRESHOLD
       THEN /\ m_worker_num' = m_worker_num + 1
            /\ pc' = [pc EXCEPT ![t] = AfterCreate(t), ![m_worker_num] = "loop"]
       ELSE /\ Goto(t, AfterCreate(t))
            /\ UNCHANGED m_worker_num
    /\ UNCHANGED <<ctxVars, queue, sem, m_worker_push_index, m_exiting,
                   m_ctx_size, runVars, sendVars, target, scan, created,
                   sent>>

Create(t) == \/ init(t) \/ lua_ctx_init(t) \/ set_inited(t)
             \/ retire_created(t) \/ check_load(t) \/ start_worker(t)

-----------------------------------------------------------------------------
(* context_check_alive and worker_mgr_t::stop.                              *)

\* Where context_check_alive returns to: a failed context_create, or the
\* destruction of the running context.
AfterAlive(t) ==
    IF t = Main THEN "join"
    ELSE IF m_handle[running[t]] THEN "handle" ELSE "finish"

\* Mutated form of check_alive: the logger goes with the last but one context.
check_alive_early(t) ==
    /\ pc[t] = "check_alive"
    /\ \/ /\ m_ctx_size \in {1, 2}
          /\ m_handle[Logger]
          /\ CallSend(t, Logger, "destroy", AfterAlive(t))
       \/ /\ m_ctx_size = 0
          /\ Goto(t, "stop")
          /\ UNCHANGED sendVars
       \/ /\ m_ctx_size > 0
          /\ m_ctx_size > 2 \/ ~m_handle[Logger]
          /\ Goto(t, AfterAlive(t))
          /\ UNCHANGED sendVars
    /\ UNCHANGED <<ctxVars, mgrVars, m_ctx_size, runVars, loopVars, created,
                   sent>>

\* Only the logger left: destroy it.  Nothing left: stop.
check_alive(t) ==
    /\ pc[t] = "check_alive"
    /\ \/ /\ m_ctx_size = 1
          /\ m_handle[Logger]
          /\ CallSend(t, Logger, "destroy", AfterAlive(t))
       \/ /\ m_ctx_size = 0
          /\ Goto(t, "stop")
          /\ UNCHANGED sendVars
       \/ /\ m_ctx_size > 0
          /\ m_ctx_size # 1 \/ ~m_handle[Logger]
          /\ Goto(t, AfterAlive(t))
          /\ UNCHANGED sendVars
    /\ UNCHANGED <<ctxVars, mgrVars, m_ctx_size, runVars, loopVars, created,
                   sent>>

stop(t) ==
    /\ pc[t] = "stop"
    /\ m_exiting' = TRUE
    /\ Goto(t, IF m_exiting THEN AfterAlive(t) ELSE "wakeup")
    /\ UNCHANGED <<ctxVars, queue, sem, m_worker_num, m_worker_push_index,
                   m_ctx_size, runVars, sendVars, loopVars, created, sent>>

\* Mutated form of wakeup: the last worker is forgotten.
wakeup_all_but_last(t) ==
    /\ pc[t] = "wakeup"
    /\ \/ /\ scan[t] < m_worker_num - 1
          /\ sem' = [sem EXCEPT ![scan[t]] = @ + 1]
          /\ scan' = [scan EXCEPT ![t] = @ + 1]
          /\ UNCHANGED pc
       \/ /\ scan[t] >= m_worker_num - 1
          /\ scan' = [scan EXCEPT ![t] = 0]
          /\ Goto(t, AfterAlive(t))
          /\ UNCHANGED sem
    /\ UNCHANGED <<ctxVars, queue, m_worker_num, m_worker_push_index,
                   m_exiting, m_ctx_size, runVars, sendVars, target, num,
                   created, sent>>

\* stop wakes the workers one by one, still under m_worker_lock.
wakeup(t) ==
    /\ pc[t] = "wakeup"
    /\ \/ /\ scan[t] < m_worker_num
          /\ sem' = [sem EXCEPT ![scan[t]] = @ + 1]
          /\ scan' = [scan EXCEPT ![t] = @ + 1]
          /\ UNCHANGED pc
       \/ /\ scan[t] >= m_worker_num
          /\ scan' = [scan EXCEPT ![t] = 0]
          /\ Goto(t, AfterAlive(t))
          /\ UNCHANGED sem
    /\ UNCHANGED <<ctxVars, queue, m_worker_num, m_worker_push_index,
                   m_exiting, m_ctx_size, runVars, sendVars, target, num,
                   created, sent>>

Stop(t) == check_alive(t) \/ stop(t) \/ wakeup(t)

-----------------------------------------------------------------------------
(* worker_process.                                                          *)

\* while (!m_exiting)
loop(w) ==
    /\ pc[w] = "loop"
    /\ Goto(w, IF m_exiting THEN "exited" ELSE "try_pop_one")
    /\ UNCHANGED <<ctxVars, mgrVars, m_ctx_size, runVars, sendVars, loopVars,
                   created, sent>>

try_pop_one(w) ==
    /\ pc[w] = "try_pop_one"
    /\ IF queue[w] # << >>
       THEN /\ running' = [running EXCEPT ![w] = Head(queue[w])]
            /\ queue' = [queue EXCEPT ![w] = Tail(@)]
            /\ Goto(w, "attach")
       ELSE /\ Goto(w, "steal_context")
            /\ UNCHANGED <<queue, running>>
    /\ UNCHANGED <<ctxVars, sem, m_worker_num, m_worker_push_index, m_exiting,
                   m_ctx_size, message, handled, stolen, sendVars, loopVars,
                   created, sent>>

\* Mutated form of StealFrom: the stolen half starts one position too late.
StealFromOffByOne(w, v) ==
    LET half == Len(queue[v]) \div 2
    IN
    /\ v # w
    /\ half > 0
    /\ running' = [running EXCEPT ![w] = Head(queue[v])]
    /\ stolen' = [stolen EXCEPT ![w] = SubSeq(queue[v], 2, half)]
    /\ queue' = [queue EXCEPT ![v] = SubSeq(@, half, Len(@))]
    /\ Goto(w, IF half > 1 THEN "push_many" ELSE "attach")

\* Mutated form of StealFrom: only the first context of the half is kept.
StealFromLosesRest(w, v) ==
    LET half == Len(queue[v]) \div 2
    IN
    /\ v # w
    /\ half > 0
    /\ running' = [running EXCEPT ![w] = Head(queue[v])]
    /\ queue' = [queue EXCEPT ![v] = SubSeq(@, half + 1, Len(@))]
    /\ Goto(w, "attach")
    /\ UNCHANGED stolen

\* try_pop_half on the queue of the scanned worker: its first half leaves.
\* The unlocked read of the length before it only saves taking the lock.
StealFrom(w, v) ==
    LET half == Len(queue[v]) \div 2
    IN
    /\ v # w
    /\ half > 0
    /\ running' = [running EXCEPT ![w] = Head(queue[v])]
    /\ stolen' = [stolen EXCEPT ![w] = SubSeq(queue[v], 2, half)]
    /\ queue' = [queue EXCEPT ![v] = SubSeq(@, half + 1, Len(@))]
    /\ Goto(w, IF half > 1 THEN "push_many" ELSE "attach")

steal_context(w) ==
    /\ pc[w] = "steal_context"
    /\ \/ /\ scan[w] < m_worker_num
          /\ StealFrom(w, scan[w])
          /\ scan' = [scan EXCEPT ![w] = 0]
       \/ /\ scan[w] < m_worker_num
          /\ scan[w] = w \/ Len(queue[scan[w]]) <= 1
          /\ scan' = [scan EXCEPT ![w] = @ + 1]
          /\ UNCHANGED <<queue, running, stolen, pc>>
       \/ /\ scan[w] >= m_worker_num
          /\ scan' = [scan EXCEPT ![w] = 0]
          /\ Goto(w, "wait")
          /\ UNCHANGED <<queue, running, stolen>>
    /\ UNCHANGED <<ctxVars, sem, m_worker_num, m_worker_push_index, m_exiting,
                   m_ctx_size, message, handled, sendVars, target, num,
                   created, sent>>

\* push_many of the stolen contexts but the first onto the worker's own queue.
\* Its post is part of the step: only w itself waits on its semaphore.
push_many(w) ==
    /\ pc[w] = "push_many"
    /\ queue' = [queue EXCEPT ![w] = @ \o stolen[w]]
    /\ sem' = [sem EXCEPT ![w] = IF queue[w] = << >> THEN @ + 1 ELSE @]
    /\ stolen' = [stolen EXCEPT ![w] = << >>]
    /\ Goto(w, "attach")
    /\ UNCHANGED <<ctxVars, m_worker_num, m_worker_push_index, m_exiting,
                   m_ctx_size, running, message, handled, sendVars, loopVars,
                   created, sent>>

wait(w) ==
    /\ pc[w] = "wait"
    /\ sem[w] > 0
    /\ sem' = [sem EXCEPT ![w] = @ - 1]
    /\ Goto(w, "loop")
    /\ UNCHANGED <<ctxVars, queue, m_worker_num, m_worker_push_index,
                   m_exiting, m_ctx_size, runVars, sendVars, loopVars,
                   created, sent>>

attach(w) ==
    /\ pc[w] = "attach"
    /\ m_worker' = [m_worker EXCEPT ![running[w]] = w]
    /\ handled' = [handled EXCEPT ![w] = 0]
    /\ Goto(w, "turn")
    /\ UNCHANGED <<m_alloc, m_handle, m_inited, m_ref, m_processing,
                   m_message_queue, mgrVars, m_ctx_size, running, message,
                   stolen, sendVars, loopVars, created, sent>>

\* The condition of the message loop.
MayGoOn(w) == \/ handled[w] < MAX_MESSAGE_PROC_NUM
              \/ queue[w] = << >>
              \/ ~IsValid(running[w])

\* Mutated form of turn: the context stays attached while it is queued.
turn_no_detach(w) ==
    /\ pc[w] = "turn"
    /\ Goto(w, IF MayGoOn(w) THEN "pop_message" ELSE "repush_context")
    /\ UNCHANGED <<ctxVars, mgrVars, m_ctx_size, runVars, sendVars, loopVars,
                   created, sent>>

\* Evaluate it; a context whose turn is over is detached and queued again.
turn(w) ==
    /\ pc[w] = "turn"
    /\ \/ /\ MayGoOn(w)
          /\ Goto(w, "pop_message")
          /\ UNCHANGED m_worker
       \/ /\ ~MayGoOn(w)
          /\ m_worker' = [m_worker EXCEPT ![running[w]] = NoWorker]
          /\ Goto(w, "repush_context")
    /\ UNCHANGED <<m_alloc, m_handle, m_inited, m_ref, m_processing,
                   m_message_queue, mgrVars, m_ctx_size, runVars, sendVars,
                   loopVars, created, sent>>

\* pop_message, and the choice between on_received and on_dropped, which reads
\* fields that only the running context's own worker still changes.
pop_message(w) ==
    LET c == running[w]
    IN
    /\ pc[w] = "pop_message"
    /\ \/ /\ m_message_queue[c] # << >>
          /\ message' = [message EXCEPT ![w] = Head(m_message_queue[c])]
          /\ m_message_queue' = [m_message_queue EXCEPT ![c] = Tail(@)]
          /\ Goto(w, IF IsValid(c) THEN "handle" ELSE "drop")
          /\ UNCHANGED <<m_processing, m_worker>>
       \/ /\ m_message_queue[c] = << >>
          /\ m_processing' = [m_processing EXCEPT ![c] = FALSE]
          /\ m_worker' = [m_worker EXCEPT ![c] = NoWorker]
          /\ Goto(w, "release_running")
          /\ UNCHANGED <<m_message_queue, message>>
    /\ UNCHANGED <<m_alloc, m_handle, m_inited, m_ref, mgrVars, m_ctx_size,
                   running, handled, stolen, sendVars, loopVars, created,
                   sent>>

release_running(w) ==
    /\ pc[w] = "release_running"
    /\ Release(running[w])
    /\ running' = [running EXCEPT ![w] = NoContext]
    /\ Goto(w, "loop")
    /\ UNCHANGED <<m_handle, m_inited, m_processing, m_message_queue,
                   m_worker, mgrVars, m_ctx_size, message, handled, stolen,
                   sendVars, loopVars, created, sent>>

\* on_received of a Lua context, and Lua code: send data or a destroy signal,
\* log, create a context.  (The messages are bounded by MAX_SENT.)
lua_acts(w) ==
    /\ pc[w] = "handle"
    /\ running[w] # Logger
    /\ message[w] # "destroy"
    /\ \/ /\ sent < MAX_SENT
          /\ \E c \in Context \ {Logger}, m \in {"data", "destroy"} :
                 CallSend(w, c, m, "handle")
          /\ sent' = sent + 1
          /\ UNCHANGED <<ctxVars, mgrVars, m_ctx_size, runVars, loopVars,
                         created>>
       \/ /\ sent < MAX_SENT
          /\ CallLog(w, "handle")
          /\ sent' = sent + 1
          /\ UNCHANGED <<ctxVars, mgrVars, m_ctx_size, runVars, loopVars,
                         created>>
       \/ \E c \in Context \ {Logger, Root} : Register(w, c)

\* The end of on_received: a destroy message, or a Lua context with nothing
\* left to wait for, destroys the running context.
handle(w) ==
    /\ pc[w] = "handle"
    /\ \/ /\ message[w] # "destroy"
          /\ Goto(w, "finish")
       \/ /\ message[w] = "destroy" \/ running[w] # Logger
          /\ Goto(w, "deinit")
    /\ UNCHANGED <<ctxVars, mgrVars, m_ctx_size, runVars, sendVars, loopVars,
                   created, sent>>

\* on_dropped answers some messages (a query, a wait) and ignores the others.
drop(w) ==
    /\ pc[w] = "drop"
    /\ \/ /\ message[w] = "data"
          /\ sent < MAX_SENT
          /\ \E c \in Context \ {Logger} : CallSend(w, c, "data", "finish")
          /\ sent' = sent + 1
       \/ /\ Goto(w, "finish")
          /\ UNCHANGED <<sendVars, sent>>
    /\ UNCHANGED <<ctxVars, mgrVars, m_ctx_size, runVars, loopVars, created>>

\* context_destroy: deinit of a Lua context wakes the contexts that wait for
\* it, cancels its own waits, and logs.
deinit(w) ==
    /\ pc[w] = "deinit"
    /\ \/ /\ running[w] # Logger
          /\ sent < MAX_SENT
          /\ \E c \in Context \ {Logger} : CallSend(w, c, "data", "deinit")
          /\ sent' = sent + 1
       \/ /\ running[w] # Logger
          /\ CallLog(w, "unset_inited")
          /\ UNCHANGED sent
       \/ /\ running[w] = Logger
          /\ Goto(w, "unset_inited")
          /\ UNCHANGED <<sendVars, sent>>
    /\ UNCHANGED <<ctxVars, mgrVars, m_ctx_size, runVars, loopVars, created>>

unset_inited(w) ==
    /\ pc[w] = "unset_inited"
    /\ m_inited' = [m_inited EXCEPT ![running[w]] = FALSE]
    /\ Goto(w, "retire_context")
    /\ UNCHANGED <<m_alloc, m_handle, m_ref, m_processing, m_message_queue,
                   m_worker, mgrVars, m_ctx_size, runVars, sendVars, loopVars,
                   created, sent>>

retire_context(w) ==
    /\ pc[w] = "retire_context"
    /\ Retire(running[w])
    /\ Goto(w, "check_alive")
    /\ UNCHANGED <<m_inited, m_processing, m_message_queue, m_worker, mgrVars,
                   runVars, sendVars, loopVars, created, sent>>

\* message_clean and ++i; i is only ever compared with MAX_MESSAGE_PROC_NUM.
finish(w) ==
    /\ pc[w] = "finish"
    /\ message' = [message EXCEPT ![w] = "data"]
    /\ handled' = [handled EXCEPT ![w] =
                       IF @ < MAX_MESSAGE_PROC_NUM THEN @ + 1 ELSE @]
    /\ Goto(w, "turn")
    /\ UNCHANGED <<ctxVars, mgrVars, m_ctx_size, running, stolen, sendVars,
                   loopVars, created, sent>>

\* repush_context: the worker's own queue if it is empty, else the first empty
\* queue, else the shortest; the lengths are read without locks, one by one.
repush_context(w) ==
    /\ pc[w] = "repush_context"
    /\ IF queue[w] = << >>
       THEN target' = [target EXCEPT ![w] = w] /\ Goto(w, "push_one")
       ELSE target' = [target EXCEPT ![w] = 0] /\ Goto(w, "shortest")
    /\ UNCHANGED <<ctxVars, mgrVars, m_ctx_size, runVars, sendVars, scan, num,
                   created, sent>>

shortest(w) ==
    LET length == Len(queue[scan[w]])
    IN
    /\ pc[w] = "shortest"
    /\ \/ /\ scan[w] < m_worker_num
          /\ length > 0
          /\ scan' = [scan EXCEPT ![w] = @ + 1]
          /\ IF scan[w] = 0 \/ length < num[w]
             THEN /\ num' = [num EXCEPT ![w] = length]
                  /\ target' = [target EXCEPT ![w] = scan[w]]
             ELSE UNCHANGED <<num, target>>
          /\ UNCHANGED pc
       \/ /\ scan[w] < m_worker_num
          /\ length = 0
          /\ target' = [target EXCEPT ![w] = scan[w]]
          /\ scan' = [scan EXCEPT ![w] = 0]
          /\ num' = [num EXCEPT ![w] = 0]
          /\ Goto(w, "push_one")
       \/ /\ scan[w] >= m_worker_num
          /\ scan' = [scan EXCEPT ![w] = 0]
          /\ num' = [num EXCEPT ![w] = 0]
          /\ Goto(w, "push_one")
          /\ UNCHANGED target
    /\ UNCHANGED <<ctxVars, mgrVars, m_ctx_size, runVars, sendVars, created,
                   sent>>

WorkerProcess(w) ==
    \/ loop(w) \/ try_pop_one(w) \/ steal_context(w) \/ push_many(w) \/ wait(w)
    \/ attach(w) \/ turn(w) \/ pop_message(w) \/ release_running(w)
    \/ lua_acts(w) \/ handle(w) \/ drop(w) \/ finish(w)
    \/ deinit(w) \/ unset_inited(w) \/ retire_context(w)
    \/ repush_context(w) \/ shortest(w)

-----------------------------------------------------------------------------
(* The main thread up to worker_mgr_t::wait, and the network thread.        *)

boot_logger == pc[Main] = "boot_logger" /\ Register(Main, Logger)

\* m_logger keeps a reference of its own.
grab_logger ==
    /\ pc[Main] = "grab_logger"
    /\ m_ref' = [m_ref EXCEPT ![Logger] = @ + 1]
    /\ Goto(Main, "boot_root")
    /\ UNCHANGED <<m_alloc, m_handle, m_inited, m_processing, m_message_queue,
                   m_worker, mgrVars, m_ctx_size, runVars, sendVars, loopVars,
                   created, sent>>

boot_root == pc[Main] = "boot_root" /\ Register(Main, Root)

\* The network thread answers a request of some context, at any time.
response ==
    /\ pc[Net] = "idle"
    /\ sent < MAX_SENT
    /\ \E c \in Context \ {Logger} : CallSend(Net, c, "data", "idle")
    /\ sent' = sent + 1
    /\ UNCHANGED <<ctxVars, mgrVars, m_ctx_size, runVars, loopVars, created>>

Boot == boot_logger \/ grab_logger \/ boot_root

\* A step of thread t other than the start of a new response.
Step(t) == \/ Send(t) \/ Create(t) \/ Stop(t)
           \/ t = Main /\ Boot
           \/ t \in Worker /\ WorkerProcess(t)

Next == (\E t \in Thread : Step(t)) \/ response

Spec == Init /\ [][Next]_vars

-----------------------------------------------------------------------------
Label == {"unborn", "idle", "loop", "exited", "try_pop_one", "steal_context",
          "push_many", "wait", "attach", "turn", "pop_message", "drop",
          "release_running", "handle", "finish", "deinit", "unset_inited",
          "retire_context", "repush_context", "shortest",
          "grab_context", "check_valid", "push_message", "push_context",
          "push_one", "sem_post", "release_dest",
          "init", "lua_ctx_init", "set_inited", "retire_created", "check_load",
          "start_worker",
          "check_alive", "stop", "wakeup",
          "boot_logger", "grab_logger", "boot_root", "join"}

ContextType ==
    /\ m_alloc \in [Context -> {"none", "live", "deleted"}]
    /\ m_handle \in [Context -> BOOLEAN]
    /\ m_inited \in [Context -> BOOLEAN]
    /\ m_ref \in [Context -> Int]
    /\ m_processing \in [Context -> BOOLEAN]
    /\ m_message_queue \in [Context -> Seq(Message)]
    /\ m_worker \in [Context -> Worker \cup {NoWorker}]

ManagerType ==
    /\ queue \in [Worker -> Seq(Context)]
    /\ sem \in [Worker -> Nat]
    /\ m_worker_num \in 1 .. MAX_WORKER_NUM
    /\ m_worker_push_index \in 0 .. INDEX_RANGE - 1
    /\ m_exiting \in BOOLEAN
    /\ m_ctx_size \in Int

RunType ==
    /\ running \in [Worker -> Context \cup {NoContext}]
    /\ message \in [Worker -> Message]
    /\ handled \in [Worker -> 0 .. MAX_MESSAGE_PROC_NUM]
    /\ stolen \in [Worker -> Seq(Context)]

SendType ==
    /\ pc \in [Thread -> Label]
    /\ dest \in [Thread -> Context \cup {NoContext}]
    /\ type \in [Thread -> Message]
    /\ back \in [Thread -> Label]
    /\ created \in [Thread -> Context \cup {NoContext}]

LoopType ==
    /\ target \in [Thread -> Worker]
    /\ scan \in [Thread -> 0 .. MAX_WORKER_NUM]
    /\ num \in [Thread -> Int]
    /\ sent \in 0 .. MAX_SENT

TypeOK == ContextType /\ ManagerType /\ RunType /\ SendType /\ LoopType

\* The positions of c in a sequence.
At(c, s) == {i \in 1 .. Len(s) : s[i] = c}

\* The places that will lead to context c being processed: a queue position, a
\* position in what a thief carries, the worker running it, a thread about to
\* queue it.
Queued(c)  == UNION {{<<"queued", w, i>> : i \in At(c, queue[w])} : w \in Worker}
Carried(c) == UNION {{<<"carried", w, i>> : i \in At(c, stolen[w])} : w \in Worker}
Run(c)     == {<<"run", w>> : w \in {v \in Worker :
                   running[v] = c /\ pc[v] # "release_running"}}
Pushed(c)  == {<<"pushed", t>> : t \in {u \in Thread :
                   \/ created[u] = c
                   \/ dest[u] = c /\ pc[u] \in {"push_context", "push_one"}}}
Owners(c) == Queued(c) \cup Carried(c) \cup Run(c) \cup Pushed(c)

\* The references to context c: the registry, m_logger, every thread that
\* created it or grabbed it to send to it, and the one that travels with the
\* context through the queues until the worker releases it.
References(c) ==
    {<<"registered">> : x \in {y \in {c} : m_handle[y]}}
    \cup {<<"m_logger">> : x \in {y \in {c} : y = Logger /\
              (pc[Main] = "boot_root" \/ m_alloc[Root] # "none")}}
    \cup {<<"grabbed", t>> : t \in {u \in Thread :
              dest[u] = c /\ type[u] # "log" /\ pc[u] # "grab_context"}}
    \cup {<<"created", t>> : t \in {u \in Thread : created[u] = c}}
    \cup {<<"pushing", t>> : t \in {u \in Thread :
              dest[u] = c /\ pc[u] = "push_one"}}
    \cup {<<"run", w>> : w \in {v \in Worker : running[v] = c}}
    \cup Queued(c) \cup Carried(c)

\* The assertion of attach_worker (context.cpp:103), and the reason it holds: a
\* context is attached to a worker only while that worker runs it.  Part of
\* SingleOwner.
AttachedToRunner ==
    /\ \A w \in Worker : pc[w] = "attach" => m_worker[running[w]] = NoWorker
    /\ \A c \in Context : m_worker[c] # NoWorker => running[m_worker[c]] = c

\* At most one place will process a context, and none while m_processing is
\* false: the hand-over between pop_message, which gives the context up, and
\* push_message, which takes it, is never lost to another worker or sender
\* (context.cpp:41-69), and stealing and requeueing move a context, they do not
\* copy it; the worker that runs it is the one it is attached to.
SingleOwner ==
    /\ \A c \in Context : /\ Cardinality(Owners(c)) <= 1
                          /\ Owners(c) # {} => m_processing[c]
    /\ AttachedToRunner

\* A context with messages is on its way to be processed: a message pushed
\* while the worker finds the queue empty is not left behind.
NoStrandedMessage ==
    \A c \in Context : m_message_queue[c] # << >> => Owners(c) # {}

\* A worker that waits, or is about to, with contexts in its queue has a token
\* in its semaphore or a thread about to post one, although push_one posts only
\* when it found the queue empty, and after it unlocked it.
NoLostWakeup ==
    \A w \in Worker :
        /\ pc[w] \in {"steal_context", "wait"}
        /\ queue[w] # << >>
        => sem[w] > 0 \/ \E t \in Thread : pc[t] = "sem_post" /\ target[t] = w

\* m_ref counts the references that exist, and a context is deleted exactly
\* when the last of them goes.
RefsExact ==
    \A c \in Context :
        /\ m_ref[c] = Cardinality(References(c))
        /\ m_alloc[c] = "live" <=> References(c) # {}

\* No thread is left with a pointer to a deleted context: not a sender between
\* its grab and its release, not a worker or a thief, not a queue, and not
\* log_fmt, which relies on the reference m_logger holds.
NoUseAfterFree ==
    \A c \in Context :
        \/ \E t \in Thread : created[t] = c
        \/ \E t \in Thread : dest[t] = c /\ pc[t] # "grab_context"
        \/ \E w \in Worker : running[w] = c
        \/ Queued(c) \cup Carried(c) # {}
        => m_alloc[c] = "live"

\* A Lua context handles LUA_CTX_INIT before any other message, although other
\* threads may try to send to it as soon as it is registered.
InitFirst ==
    \A c \in Context : \A i \in 2 .. Len(m_message_queue[c]) :
        m_message_queue[c][i] # "init"

\* The logger is the last context to be retired, whatever the order in which
\* the other contexts end and count the ones that are left; and the engine
\* stops only when no context is registered, nor about to be.
LoggerIsLast ==
    /\ (m_alloc[Logger] # "none" /\ ~m_handle[Logger]) \/ m_exiting
         => \A c \in Context : ~m_handle[c]
    /\ m_exiting => pc[Main] \notin {"boot_logger", "grab_logger", "boot_root"}

\* Every log record the logger accepted is written before the workers are gone,
\* although records are still queued when the logger is told to end.
LogsWritten ==
    (\A w \in Worker : pc[w] \in {"exited", "unborn"})
        => \A i \in 1 .. Len(m_message_queue[Logger]) :
               m_message_queue[Logger][i] # "log"

\* Every message that was accepted is handled or dropped, unless the engine
\* stops first.
MessagesProcessed ==
    \A c \in Context :
        (m_message_queue[c] # << >>)
            ~> (m_message_queue[c] = << >> \/ m_exiting)
=============================================================================
