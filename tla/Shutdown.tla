------------------------------- MODULE Shutdown -------------------------------
(***************************************************************************)
(* The end of the process: worker_mgr_t::wait, in which the main thread     *)
(* joins the workers one after the other, drops what is left in their       *)
(* queues and deletes them, and then the end of the network thread          *)
(* (worker_mgr.cpp:69-90, node_lua.cpp:50-57).  Everything before is        *)
(* Scheduler; this module adds the main thread's part and the lifetime of   *)
(* the worker_t objects, which the other threads reach through m_worker[].  *)
(***************************************************************************)
EXTENDS Scheduler

VARIABLES deleted,    \* the indices i with m_worker[i] = NULL
          leftover,   \* wait: the list pop_all returned, as far as not dropped
          dropping,   \* wait: the context whose messages are being dropped
          crashed     \* a thread used the m_worker[i] of a deleted worker

waitVars == <<deleted, leftover, dropping>>
allVars == <<vars, waitVars, crashed>>

ShutdownInit == /\ Init
                /\ deleted = {}
                /\ leftover = << >>
                /\ dropping = NoContext
                /\ crashed = FALSE

\* The workers whose object the next step of thread t uses: m_worker[i] in
\* steal_context, in push_context and repush_context, and in stop.  A worker's
\* own object exists as long as it runs.
Uses(t) ==
    CASE pc[t] \in {"push_one", "sem_post"} -> {target[t]}
      [] pc[t] \in {"steal_context", "wakeup", "shortest"} ->
             IF scan[t] < m_worker_num THEN {scan[t]} ELSE {}
      [] OTHER -> {}

-----------------------------------------------------------------------------
(* worker_mgr_t::wait; scan[Main] is its loop index.                        *)

\* uv_thread_join of the next worker, or the end of the loop.
join ==
    /\ pc[Main] = "join"
    /\ \/ /\ scan[Main] < m_worker_num
          /\ pc[scan[Main]] = "exited"
          /\ Goto(Main, "pop_all")
       \/ /\ scan[Main] >= m_worker_num
          /\ Goto(Main, "network_stop")
    /\ UNCHANGED <<ctxVars, mgrVars, m_ctx_size, runVars, sendVars, loopVars,
                   created, sent, waitVars>>

\* Mutated form of pop_all: the list is read but stays in the queue.
pop_all_keeps_list ==
    /\ pc[Main] = "pop_all"
    /\ leftover' = queue[scan[Main]]
    /\ Goto(Main, "drop_next")
    /\ UNCHANGED <<ctxVars, mgrVars, m_ctx_size, runVars, sendVars, loopVars,
                   created, sent, deleted, dropping>>

pop_all ==
    /\ pc[Main] = "pop_all"
    /\ leftover' = queue[scan[Main]]
    /\ queue' = [queue EXCEPT ![scan[Main]] = << >>]
    /\ Goto(Main, "drop_next")
    /\ UNCHANGED <<ctxVars, sem, m_worker_num, m_worker_push_index, m_exiting,
                   m_ctx_size, runVars, sendVars, loopVars, created, sent,
                   deleted, dropping>>

\* Attach the next context that is left, or delete the worker.
drop_next ==
    /\ pc[Main] = "drop_next"
    /\ \/ /\ leftover # << >>
          /\ dropping' = Head(leftover)
          /\ leftover' = Tail(leftover)
          /\ m_worker' = [m_worker EXCEPT ![Head(leftover)] = scan[Main]]
          /\ Goto(Main, "drop_messages")
       \/ /\ leftover = << >>
          /\ Goto(Main, "delete_worker")
          /\ UNCHANGED <<dropping, leftover, m_worker>>
    /\ UNCHANGED <<m_alloc, m_handle, m_inited, m_ref, m_processing,
                   m_message_queue, mgrVars, m_ctx_size, runVars, sendVars,
                   loopVars, created, sent, deleted>>

\* pop_message and on_dropped.  No context is registered any more
\* (LoggerIsLast), so what on_dropped sends finds no receiver.
drop_messages ==
    LET c == dropping
    IN
    /\ pc[Main] = "drop_messages"
    /\ \/ /\ m_message_queue[c] # << >>
          /\ m_message_queue' = [m_message_queue EXCEPT ![c] = Tail(@)]
          /\ UNCHANGED <<m_processing, m_worker, pc>>
       \/ /\ m_message_queue[c] = << >>
          /\ m_processing' = [m_processing EXCEPT ![c] = FALSE]
          /\ m_worker' = [m_worker EXCEPT ![c] = NoWorker]
          /\ Goto(Main, "drop_release")
          /\ UNCHANGED m_message_queue
    /\ UNCHANGED <<m_alloc, m_handle, m_inited, m_ref, mgrVars, m_ctx_size,
                   runVars, sendVars, loopVars, created, sent, waitVars>>

\* Mutated form of drop_release: the queue's reference is not released.
drop_release_leaks ==
    /\ pc[Main] = "drop_release"
    /\ dropping' = NoContext
    /\ Goto(Main, "drop_next")
    /\ UNCHANGED <<ctxVars, mgrVars, m_ctx_size, runVars, sendVars, loopVars,
                   created, sent, deleted, leftover>>

drop_release ==
    /\ pc[Main] = "drop_release"
    /\ Release(dropping)
    /\ dropping' = NoContext
    /\ Goto(Main, "drop_next")
    /\ UNCHANGED <<m_handle, m_inited, m_processing, m_message_queue,
                   m_worker, mgrVars, m_ctx_size, runVars, sendVars, loopVars,
                   created, sent, deleted, leftover>>

delete_worker ==
    /\ pc[Main] = "delete_worker"
    /\ deleted' = deleted \cup {scan[Main]}
    /\ scan' = [scan EXCEPT ![Main] = @ + 1]
    /\ Goto(Main, "join")
    /\ UNCHANGED <<ctxVars, mgrVars, m_ctx_size, runVars, sendVars, target,
                   num, created, sent, leftover, dropping>>

Wait == \/ join \/ pop_all \/ drop_next \/ drop_messages \/ drop_release
        \/ delete_worker

-----------------------------------------------------------------------------
(* m_network->stop() and wait(), and the release of m_logger.               *)

\* REQUEST_EXIT, handled between two other requests, ends the network thread.
network_exit ==
    /\ pc[Main] = "network_stop"
    /\ pc[Net] = "idle"
    /\ pc' = [pc EXCEPT ![Net] = "exited", ![Main] = "release_logger"]
    /\ UNCHANGED <<ctxVars, mgrVars, m_ctx_size, runVars, sendVars, loopVars,
                   created, sent, waitVars>>

release_logger ==
    /\ pc[Main] = "release_logger"
    /\ Release(Logger)
    /\ Goto(Main, "done")
    /\ UNCHANGED <<m_handle, m_inited, m_processing, m_message_queue,
                   m_worker, mgrVars, m_ctx_size, runVars, sendVars, loopVars,
                   created, sent, waitVars>>

-----------------------------------------------------------------------------
\* A step of Scheduler, as long as the worker objects it uses exist.
Running(t) == /\ ~crashed
              /\ Uses(t) \cap deleted = {}
              /\ Step(t) \/ (t = Net /\ response)
              /\ UNCHANGED <<waitVars, crashed>>

\* The same, but for the start of a new response.
Continuing(t) == Running(t) /\ Step(t)

\* The use of a deleted worker (m_worker[i] is NULL): the process is gone.
Crash(t) == /\ Uses(t) \cap deleted # {}
            /\ crashed' = TRUE
            /\ UNCHANGED <<vars, waitVars>>

MainEnds == /\ ~crashed
            /\ Wait \/ network_exit \/ release_logger
            /\ UNCHANGED crashed

ShutdownNext == \/ \E t \in Thread : Running(t)
                \/ \E t \in Thread : ~crashed /\ Crash(t)
                \/ MainEnds

ShutdownSpec == ShutdownInit /\ [][ShutdownNext]_allVars

\* Threads are scheduled by the operating system: each keeps taking steps as
\* long as it can.  Nothing obliges a context to receive a response.
FairShutdown == /\ ShutdownSpec
                /\ \A t \in Thread : WF_allVars(Continuing(t))
                /\ WF_allVars(MainEnds)

-----------------------------------------------------------------------------
\* No thread uses a worker the main thread has deleted: the engine "exits
\* safely" once the number of contexts is 0 (src/wiki/Home.md:10).
SafeExit == \A t \in Thread : Uses(t) \cap deleted = {}

\* The assertion of ~context_queue_t (context_queue.cpp:16): a worker is deleted
\* with an empty queue.
QueueEmptyOnDelete == pc[Main] = "delete_worker" => queue[scan[Main]] = << >>

\* After the last worker is joined, a context that still exists is one that a
\* late sender queued behind the main thread's back; every other one has been
\* released by wait, with its messages.
\* Part of LeftoversDropped.
LeftoversReleased ==
    pc[Main] = "done" =>
        \A c \in Context :
            m_alloc[c] = "live" =>
                Queued(c) # {} /\ m_message_queue[c] # << >>

\* The main thread drops the messages of a context only when no worker runs it
\* any more, and no sender believes that it must queue it.
\* Part of LeftoversDropped.
DropsAlone ==
    dropping # NoContext /\ pc[Main] = "drop_messages" =>
        Owners(dropping) = {} /\ m_worker[dropping] = scan[Main]

\* What is left over is dropped by the main thread, alone, and all of it but what came
\* too late (worker_mgr.cpp:69-90).
LeftoversDropped == LeftoversReleased /\ DropsAlone

\* Once the last context is gone every worker leaves its loop, none sleeping
\* through the stop and none started after it, and the process ends; or else a
\* thread uses a deleted worker.
ProcessEnds ==
    (m_alloc[Logger] # "none" /\ m_ctx_size = 0)
        ~> \/ /\ pc[Main] = "done"
              /\ \A w \in Worker : pc[w] \in {"exited", "unborn"}
           \/ \E t \in Thread : Uses(t) \cap deleted # {}
=============================================================================
