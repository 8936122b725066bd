------------------------------ MODULE Callbacks ------------------------------
(***************************************************************************)
(* What a context does later: timers (timer.timeout, timer.loop and        *)
(* timer.sleep), context.run, and reading from a datagram socket.  Each    *)
(* keeps a callback, or the coroutine that sleeps, under a session number  *)
(* of the context and is woken by a message.  A session that is freed      *)
(* closes its timer, and its number may be taken again at once, while      *)
(* timeouts and datagrams for the old one are still queued.                *)
(*                                                                         *)
(* Handles are named by themselves: that their numbers are not taken again *)
(* while messages are queued is shown in Handles.  A socket is not         *)
(* collected while its callback, which refers to it, is in the table.      *)
(***************************************************************************)
EXTENDS Integers, Sequences, FiniteSets

CONSTANTS Use,            \* the timers, sockets and runs
          Session,        \* session numbers
          REFNIL,         \* LUA_REFNIL
          MAX_FIRED,      \* bound on the timeouts of a timer, and on datagrams
          MAX_QUEUED      \* bound on the requests to read a socket that are queued

ASSUME CallbacksAssumption ==
    REFNIL \notin Session \cup Use /\ MAX_FIRED \in Nat /\ MAX_QUEUED \in Nat

VARIABLES
    use_kind,                \* "once", "repeat", "sleep", "run" or "udp"
    m_session,               \* of a timer; m_nonblocking_ref of a socket
    is_open,                 \* whether the lua handle has its uv handle
    m_ref_session_table,     \* whose callback or coroutine is at each number
    m_ref_timer_table,       \* and which timer is for it
    m_ref_session_count,
    messages,                \* m_message_queue
    c_pipe,                  \* requests to the network thread
    c_uv,                    \* the uv handle: "running" when its timer is
                             \* started or its socket is read from
    fired,                   \* timeouts of a timer, datagrams and errors of a socket
    calls,                   \* callbacks run
    stopped,                 \* what the script has closed
    late                     \* whether a callback ran after that

ref_tables == <<m_ref_session_table, m_ref_timer_table, m_ref_session_count>>
callback_net == <<c_pipe, c_uv, fired>>
callbackVars == <<use_kind, m_session, is_open, ref_tables, messages,
                  callback_net, calls, stopped, late>>

IsTimer(u) == use_kind[u] \in {"once", "repeat", "sleep"}

CallbacksInit ==
    /\ use_kind = [u \in Use |-> "none"]
    /\ m_session = [u \in Use |-> REFNIL]
    /\ is_open = [u \in Use |-> FALSE]
    /\ m_ref_session_table = [s \in Session |-> REFNIL]
    /\ m_ref_timer_table = [s \in Session |-> REFNIL]
    /\ m_ref_session_count = 0
    /\ messages = << >>
    /\ c_pipe = << >>
    /\ c_uv = [u \in Use |-> "none"]
    /\ fired = [u \in Use |-> 0]
    /\ calls = [u \in Use |-> 0]
    /\ stopped = [u \in Use |-> FALSE]
    /\ late = FALSE

-----------------------------------------------------------------------------
(* The sessions of the context.                                              *)

\* lua_ref_callback and lua_ref_yield_coroutine: a number that is not in use.
lua_ref_session(u, s) ==
    /\ m_ref_session_table[s] = REFNIL
    /\ m_ref_session_table' = [m_ref_session_table EXCEPT ![s] = u]
    /\ m_ref_session_count' = m_ref_session_count + 1

\* Mutated form of lua_free_ref_session: the timer is left running.
lua_free_ref_session_only(s) ==
    /\ m_ref_session_table' = [m_ref_session_table EXCEPT ![s] = REFNIL]
    /\ m_ref_session_count' = m_ref_session_count - 1
    /\ m_ref_timer_table' = [m_ref_timer_table EXCEPT ![s] = REFNIL]
    /\ UNCHANGED <<m_session, is_open, c_pipe>>

\* lua_free_ref_session, and lua_unref_timer, which closes the timer.
lua_free_ref_session(s) ==
    /\ m_ref_session_table' = [m_ref_session_table EXCEPT ![s] = REFNIL]
    /\ m_ref_session_count' = m_ref_session_count - 1
    /\ m_ref_timer_table' = [m_ref_timer_table EXCEPT ![s] = REFNIL]
    /\ LET t == m_ref_timer_table[s]
       IN  IF t = REFNIL THEN UNCHANGED <<m_session, is_open, c_pipe>>
           ELSE /\ m_session' = [m_session EXCEPT ![t] = REFNIL]
                /\ is_open' = [is_open EXCEPT ![t] = FALSE]
                /\ c_pipe' = Append(c_pipe, <<"close", t>>)

\* The callback at a number runs, or the coroutine there goes on.
Run(s) ==
    LET u == m_ref_session_table[s]
    IN  IF u = REFNIL THEN UNCHANGED <<calls, late>>
        ELSE /\ calls' = [calls EXCEPT ![u] = @ + 1]
             /\ late' = (late \/ stopped[u])

\* wakeup_ref_session; a coroutine is resumed once, a callback as often as it is
\* kept.
wakeup_ref_session(s, free_callback) ==
    /\ Run(s)
    /\ IF m_ref_session_table[s] # REFNIL /\ free_callback
       THEN lua_free_ref_session(s)
       ELSE UNCHANGED <<ref_tables, m_session, is_open, c_pipe>>

-----------------------------------------------------------------------------
(* Lua code.                                                                 *)

\* lua_ref_timer: the timer is created and started for the session.
lua_ref_timer(u, s) ==
    /\ m_session' = [m_session EXCEPT ![u] = s]
    /\ is_open' = [is_open EXCEPT ![u] = TRUE]
    /\ m_ref_timer_table' = [m_ref_timer_table EXCEPT ![s] = u]
    /\ c_pipe' = Append(c_pipe, <<"timer_start", u>>)

StartTimer(u, k) ==
    /\ use_kind[u] = "none"
    /\ use_kind' = [use_kind EXCEPT ![u] = k]
    /\ \E s \in Session : lua_ref_session(u, s) /\ lua_ref_timer(u, s)
    /\ UNCHANGED <<messages, c_uv, fired, calls, stopped, late>>

timeout(u) == StartTimer(u, "once")

\* With no time to repeat after, the timer fires once.
repeat(u) == StartTimer(u, "repeat") \/ StartTimer(u, "once")

sleep(u) == StartTimer(u, "sleep")

\* timer.close: the timers of sleeping coroutines cannot be cancelled.
timer_close(u) ==
    /\ use_kind[u] \in {"once", "repeat"}
    /\ is_open[u]
    /\ lua_free_ref_session(m_session[u])
    /\ stopped' = [stopped EXCEPT ![u] = TRUE]
    /\ UNCHANGED <<use_kind, messages, c_uv, fired, calls, late>>

\* context.run sends itself a message.
context_run(u) ==
    /\ use_kind[u] = "none"
    /\ use_kind' = [use_kind EXCEPT ![u] = "run"]
    /\ \E s \in Session :
          /\ lua_ref_session(u, s)
          /\ messages' = Append(messages, <<"run", s>>)
    /\ UNCHANGED <<m_session, is_open, m_ref_timer_table, callback_net, calls,
                   stopped, late>>

\* The socket that udp.open returned.
udp_open(u) ==
    /\ use_kind[u] = "none"
    /\ use_kind' = [use_kind EXCEPT ![u] = "udp"]
    /\ is_open' = [is_open EXCEPT ![u] = TRUE]
    /\ UNCHANGED <<m_session, ref_tables, messages, callback_net, calls, stopped,
                   late>>

\* udp.read: a second callback replaces the first at its number.
udp_read(u) ==
    /\ use_kind[u] = "udp" /\ is_open[u]
    /\ Cardinality({i \in DOMAIN c_pipe : c_pipe[i] = <<"udp_read", u>>})
           < MAX_QUEUED
    /\ IF m_session[u] = REFNIL
       THEN \E s \in Session :
               /\ lua_ref_session(u, s)
               /\ m_session' = [m_session EXCEPT ![u] = s]
       ELSE UNCHANGED <<m_ref_session_table, m_ref_session_count, m_session>>
    /\ c_pipe' = Append(c_pipe, <<"udp_read", u>>)
    /\ UNCHANGED <<use_kind, is_open, m_ref_timer_table, messages, c_uv, fired,
                   calls, stopped, late>>

\* udp.close: the message to itself is to free the callback.
udp_close(u) ==
    /\ use_kind[u] = "udp" /\ is_open[u]
    /\ messages' = Append(messages, <<"udp", u>>)
    /\ is_open' = [is_open EXCEPT ![u] = FALSE]
    /\ c_pipe' = Append(c_pipe, <<"close", u>>)
    /\ stopped' = [stopped EXCEPT ![u] = TRUE]
    /\ UNCHANGED <<use_kind, m_session, ref_tables, c_uv, fired, calls, late>>

-----------------------------------------------------------------------------
(* Messages of the context.                                                  *)

Receive(type) ==
    /\ messages # << >>
    /\ Head(messages)[1] = type
    /\ messages' = Tail(messages)
    /\ UNCHANGED <<use_kind, c_uv, fired, stopped>>

\* lua_timer_handle_t::wakeup.
response_timeout ==
    /\ Receive("timeout")
    /\ LET u == Head(messages)[2]
       IN  IF is_open[u] /\ m_session[u] # REFNIL
           THEN wakeup_ref_session(m_session[u], use_kind[u] # "repeat")
           ELSE UNCHANGED <<ref_tables, m_session, is_open, c_pipe, calls, late>>

response_context_run ==
    /\ Receive("run")
    /\ wakeup_ref_session(Head(messages)[2], TRUE)

\* Mutated form of wakeup_read: the socket may have been closed.
wakeup_read_closed(u) ==
    IF m_session[u] # REFNIL THEN wakeup_ref_session(m_session[u], FALSE)
    ELSE UNCHANGED <<ref_tables, m_session, is_open, c_pipe, calls, late>>

\* A datagram, an error, or the end of a socket, whose callback goes with the
\* first message that finds it closed.
wakeup_read(u) ==
    IF m_session[u] = REFNIL
    THEN UNCHANGED <<ref_tables, m_session, is_open, c_pipe, calls, late>>
    ELSE IF is_open[u] THEN wakeup_ref_session(m_session[u], FALSE)
    ELSE /\ m_session' = [m_session EXCEPT ![u] = REFNIL]
         /\ m_ref_session_table' =
                [m_ref_session_table EXCEPT ![m_session[u]] = REFNIL]
         /\ m_ref_session_count' = m_ref_session_count - 1
         /\ UNCHANGED <<m_ref_timer_table, is_open, c_pipe, calls, late>>

response_udp_read == Receive("udp") /\ wakeup_read(Head(messages)[2])

-----------------------------------------------------------------------------
(* Network thread.                                                           *)

\* start, read and close of a uv handle; a socket that is read from stays so.
HandleRequest(type, before, after) ==
    /\ c_pipe # << >>
    /\ Head(c_pipe)[1] = type
    /\ c_pipe' = Tail(c_pipe)
    /\ LET u == Head(c_pipe)[2]
       IN  c_uv' = [c_uv EXCEPT ![u] = IF @ \in before THEN after ELSE @]
    /\ UNCHANGED <<use_kind, m_session, is_open, ref_tables, messages, fired,
                   calls, stopped, late>>

start == HandleRequest("timer_start", {"none"}, "running")
read == HandleRequest("udp_read", {"none"}, "running")

\* uv_udp_recv_start fails: the callback is told, and a later read tries again.
read_fails ==
    /\ c_pipe # << >>
    /\ Head(c_pipe)[1] = "udp_read"
    /\ c_pipe' = Tail(c_pipe)
    /\ LET u == Head(c_pipe)[2]
       IN  /\ c_uv[u] = "none" /\ fired[u] < MAX_FIRED
           /\ fired' = [fired EXCEPT ![u] = @ + 1]
           /\ messages' = Append(messages, <<"udp", u>>)
    /\ UNCHANGED <<use_kind, m_session, is_open, ref_tables, c_uv, calls, stopped,
                   late>>

close_handle == HandleRequest("close", {"none", "running", "expired"}, "closing")

Fire(u, type, after) ==
    /\ c_uv[u] = "running"
    /\ fired[u] < MAX_FIRED
    /\ fired' = [fired EXCEPT ![u] = @ + 1]
    /\ c_uv' = [c_uv EXCEPT ![u] = after]
    /\ messages' = Append(messages, <<type, u>>)
    /\ UNCHANGED <<use_kind, m_session, is_open, ref_tables, c_pipe, calls, stopped,
                   late>>

on_timedout(u) ==
    /\ IsTimer(u)
    /\ Fire(u, "timeout", IF use_kind[u] = "repeat" THEN "running" ELSE "expired")

on_read(u) == use_kind[u] = "udp" /\ Fire(u, "udp", "running")

CallbacksNext ==
    \/ \E u \in Use :
           \/ timeout(u) \/ repeat(u) \/ sleep(u) \/ timer_close(u) \/ context_run(u)
           \/ udp_open(u) \/ udp_read(u) \/ udp_close(u)
           \/ on_timedout(u) \/ on_read(u)
    \/ response_timeout \/ response_context_run \/ response_udp_read
    \/ start \/ read \/ read_fails \/ close_handle

CallbacksSpec == CallbacksInit /\ [][CallbacksNext]_callbackVars

-----------------------------------------------------------------------------
CallbacksTypeOK ==
    /\ use_kind \in [Use -> {"none", "once", "repeat", "sleep", "run", "udp"}]
    /\ m_session \in [Use -> Session \cup {REFNIL}]
    /\ is_open \in [Use -> BOOLEAN]
    /\ m_ref_session_table \in [Session -> Use \cup {REFNIL}]
    /\ m_ref_timer_table \in [Session -> Use \cup {REFNIL}]
    /\ messages \in Seq({<<"run", s>> : s \in Session}
                               \cup ({"timeout", "udp"} \X Use))
    /\ c_pipe \in Seq({"timer_start", "udp_read", "close"} \X Use)
    /\ c_uv \in [Use -> {"none", "running", "expired", "closing"}]
    /\ fired \in [Use -> 0 .. MAX_FIRED]
    /\ stopped \in [Use -> BOOLEAN]

\* An event runs the callback it is for, or none: what is open has its own session
\* whatever numbers were freed and taken since, and nothing runs once the script
\* has closed it, though timeouts or datagrams are still queued.
OwnCallback ==
    /\ ~late
    /\ \A u \in Use :
          /\ m_session[u] # REFNIL => m_ref_session_table[m_session[u]] = u
          /\ IsTimer(u) => (is_open[u] <=> m_session[u] # REFNIL)

\* What happens once does so, unless it is closed before, and a datagram that was
\* read is not lost while its socket is open.
CalledOnce ==
    \A u \in Use :
        /\ use_kind[u] \in {"once", "sleep", "run"} =>
              LET done == \A s \in Session : m_ref_session_table[s] # u
              IN  calls[u] = IF done /\ ~stopped[u] THEN 1 ELSE 0
        /\ use_kind[u] = "udp" /\ is_open[u] =>
              fired[u] = calls[u] + Cardinality({i \in DOMAIN messages :
                                                    messages[i] = <<"udp", u>>})

\* The count, which decides whether the context goes on, is that of the sessions,
\* and a socket that was closed keeps none when its messages have been handled.
CountExact ==
    /\ m_ref_session_count =
           Cardinality({s \in Session : m_ref_session_table[s] # REFNIL})
    /\ messages = << >> =>
          \A s \in Session :
              m_ref_session_table[s] # REFNIL => ~stopped[m_ref_session_table[s]]

CallbacksExact == CallbacksTypeOK /\ OwnCallback /\ CalledOnce /\ CountExact
=============================================================================
