------------------------------ MODULE TcpListen ------------------------------
(***************************************************************************)
(* tcp.accept: the network thread accepts a connection when the context of *)
(* the listening socket has asked for one (uv_tcp_handle.cpp), and sends   *)
(* the new socket to it, where a coroutine that blocks in tcp.accept, or a *)
(* callback, takes it (lua_tcp_handle.cpp).  A coroutine may give up after *)
(* a timeout, the socket be closed, and accepting fail.                    *)
(*                                                                         *)
(* A callback of the network thread is one step; a handler of the context  *)
(* is split where it resumes Lua code, which may accept again or close.    *)
(* How the listening socket comes to be, and what becomes of the handle of *)
(* a connection that nobody takes, is in Handles.                          *)
(***************************************************************************)
EXTENDS Integers, Sequences, SequencesExt

CONSTANTS MAX_CONNECTIONS,   \* bound on the connections that peers make
          MAX_ACCEPTS,       \* bound on the calls of tcp.accept that block
          MAX_CALLBACKS,     \* bound on those with a callback
          MAX_ERRORS         \* bound on the errors of the listening socket

ASSUME TcpListenAssumption ==
    {MAX_CONNECTIONS, MAX_ACCEPTS, MAX_CALLBACKS, MAX_ERRORS} \subseteq Nat

Connection == 1 .. MAX_CONNECTIONS
Accept == 1 .. MAX_ACCEPTS

VARIABLES
    \* the context's thread
    accept_messages,                      \* its messages about this socket
    accept_sessions, accept_callback,     \* m_accept_ref_sessions
    listen_closed,                        \* the lua handle is closed
    accept_timer,                         \* of each accept
    accepts, accept_callbacks,            \* calls of tcp.accept so far
    handed,                               \* connections taken or closed, in order
    accept_pc, accept_back, accept_left,  \* the handler, as in TcpRead
    \* the network's thread
    accept_requests,                      \* requests about this socket
    m_has_accept_event, m_has_noblocking_accept, m_blocking_accept_count,
    listen_closing,
    connections, listen_errors            \* connections and errors so far

acceptors == <<accept_sessions, accept_callback>>
listen_calls == <<listen_closed, accepts, accept_callbacks>>
accept_handler == <<accept_pc, accept_back, accept_left>>
accept_lua == <<accept_messages, acceptors, listen_calls, accept_timer, handed,
                accept_handler>>
accept_demand == <<m_has_noblocking_accept, m_blocking_accept_count>>
accept_net == <<accept_demand, m_has_accept_event, listen_closing, connections,
                listen_errors>>
listenVars == <<accept_lua, accept_requests, accept_net>>

NewSocket(c)     == <<"socket", c>>
AcceptExpired(a) == <<"timeout", a>>
AcceptError      == <<"error">>
ListenClosing    == <<"closing">>

\* The context owns a listening socket and runs Lua code.
ListenInit ==
    /\ accept_messages = << >>
    /\ accept_sessions = << >>
    /\ accept_callback = FALSE
    /\ listen_closed = FALSE
    /\ accept_timer = [a \in Accept |-> "none"]
    /\ accepts = 0
    /\ accept_callbacks = 0
    /\ handed = << >>
    /\ accept_pc = "lua"
    /\ accept_back = "idle"
    /\ accept_left = 0
    /\ accept_requests = << >>
    /\ m_has_accept_event = FALSE
    /\ m_has_noblocking_accept = FALSE
    /\ m_blocking_accept_count = 0
    /\ listen_closing = FALSE
    /\ connections = 0
    /\ listen_errors = 0

-----------------------------------------------------------------------------
(* Network thread.                                                           *)

\* Mutated form of try_accept: the event is kept after the connection is sent.
try_accept_again(event, noblocking, count, c) ==
    LET accept == event /\ (noblocking \/ count > 0)
    IN
    /\ m_has_noblocking_accept' = noblocking
    /\ m_blocking_accept_count' = IF accept /\ count > 0 THEN count - 1 ELSE count
    /\ m_has_accept_event' = event
    /\ accept_messages' = IF accept THEN Append(accept_messages, NewSocket(c))
                          ELSE accept_messages

\* try_accept: the connection that waits is accepted if the context wants one.
try_accept(event, noblocking, count, c) ==
    LET accept == event /\ (noblocking \/ count > 0)
    IN
    /\ m_has_noblocking_accept' = noblocking
    /\ m_blocking_accept_count' = IF accept /\ count > 0 THEN count - 1 ELSE count
    /\ m_has_accept_event' = (event /\ ~accept)
    /\ accept_messages' = IF accept THEN Append(accept_messages, NewSocket(c))
                          ELSE accept_messages

\* on_accept; libuv does not call it while a connection waits to be accepted.
on_accept ==
    /\ ~m_has_accept_event /\ ~listen_closing
    /\ connections < MAX_CONNECTIONS
    /\ connections' = connections + 1
    /\ try_accept(TRUE, m_has_noblocking_accept, m_blocking_accept_count,
                  connections + 1)
    /\ UNCHANGED <<acceptors, listen_calls, accept_timer, handed,
                   accept_handler, accept_requests, listen_closing,
                   listen_errors>>

on_accept_error ==
    /\ ~m_has_accept_event /\ ~listen_closing
    /\ listen_errors < MAX_ERRORS
    /\ listen_errors' = listen_errors + 1
    /\ accept_messages' = Append(accept_messages, AcceptError)
    /\ UNCHANGED <<acceptors, listen_calls, accept_timer, handed,
                   accept_handler, accept_requests, accept_demand,
                   m_has_accept_event, listen_closing, connections>>

AcceptRequest(type) ==
    /\ accept_requests # << >>
    /\ Head(accept_requests) = type
    /\ accept_requests' = Tail(accept_requests)

\* Mutated form of accept: only the next connection is accepted.
accept_later(blocking) ==
    /\ AcceptRequest(IF blocking THEN "blocking" ELSE "nonblocking")
    /\ m_has_noblocking_accept' = (m_has_noblocking_accept \/ ~blocking)
    /\ m_blocking_accept_count' = m_blocking_accept_count + (IF blocking THEN 1 ELSE 0)
    /\ UNCHANGED <<accept_lua, m_has_accept_event, listen_closing, connections,
                   listen_errors>>

accept(blocking) ==
    /\ AcceptRequest(IF blocking THEN "blocking" ELSE "nonblocking")
    /\ try_accept(m_has_accept_event, m_has_noblocking_accept \/ ~blocking,
                  m_blocking_accept_count + (IF blocking THEN 1 ELSE 0), connections)
    /\ UNCHANGED <<acceptors, listen_calls, accept_timer, handed,
                   accept_handler, listen_closing, connections, listen_errors>>

close_listen_handle ==
    /\ AcceptRequest("close")
    /\ listen_closing' = TRUE
    /\ UNCHANGED <<accept_lua, accept_demand, m_has_accept_event, connections,
                   listen_errors>>

\* A timer expires.
on_accept_timedout(a) ==
    /\ accept_timer[a] = "running"
    /\ accept_timer' = [accept_timer EXCEPT ![a] = "expired"]
    /\ accept_messages' = Append(accept_messages, AcceptExpired(a))
    /\ UNCHANGED <<acceptors, listen_calls, handed, accept_handler,
                   accept_requests, accept_net>>

-----------------------------------------------------------------------------
(* Lua code of the context.                                                  *)

\* accept_yield_finalize: the coroutine has yielded.
accept_blocking ==
    /\ accept_pc = "lua"
    /\ ~listen_closed
    /\ accepts < MAX_ACCEPTS
    /\ accepts' = accepts + 1
    /\ accept_sessions' = Append(accept_sessions, accepts + 1)
    /\ accept_requests' = Append(accept_requests, "blocking")
    /\ \E t \in {"none", "running"} :
           accept_timer' = [accept_timer EXCEPT ![accepts + 1] = t]
    /\ accept_pc' = accept_back
    /\ UNCHANGED <<accept_messages, accept_callback, listen_closed,
                   accept_callbacks, handed, accept_back, accept_left,
                   accept_net>>

\* tcp.accept with a callback, which may replace another one.
accept_nonblocking ==
    /\ accept_pc = "lua"
    /\ ~listen_closed
    /\ accept_callbacks < MAX_CALLBACKS
    /\ accept_callbacks' = accept_callbacks + 1
    /\ accept_callback' = TRUE
    /\ accept_requests' = Append(accept_requests, "nonblocking")
    /\ UNCHANGED <<accept_messages, accept_sessions, listen_closed, accepts,
                   accept_timer, handed, accept_handler, accept_net>>

listen_close ==
    /\ accept_pc = "lua"
    /\ ~listen_closed
    /\ listen_closed' = TRUE
    /\ accept_messages' = Append(accept_messages, ListenClosing)
    /\ accept_requests' = Append(accept_requests, "close")
    /\ UNCHANGED <<acceptors, accepts, accept_callbacks, accept_timer, handed,
                   accept_handler, accept_net>>

return_from_acceptor ==
    /\ accept_pc = "lua"
    /\ accept_pc' = accept_back
    /\ UNCHANGED <<accept_messages, acceptors, listen_calls, accept_timer,
                   handed, accept_back, accept_left, accept_requests,
                   accept_net>>

\* Other messages of the context run Lua code too.
other_accept_message ==
    /\ accept_pc = "idle"
    /\ accept_pc' = "lua"
    /\ accept_back' = "idle"
    /\ UNCHANGED <<accept_messages, acceptors, listen_calls, accept_timer,
                   handed, accept_left, accept_requests, accept_net>>

-----------------------------------------------------------------------------
(* Handlers of the context.                                                  *)

no_acceptor == accept_sessions = << >> /\ ~accept_callback

ResumeAcceptor(label) == accept_pc' = "lua" /\ accept_back' = label

\* wakeup_once: the first coroutine that waits, else the callback.
WakeupAcceptor(label) ==
    /\ ResumeAcceptor(label)
    /\ IF accept_sessions = << >>
       THEN UNCHANGED <<accept_sessions, accept_timer>>
       ELSE /\ accept_sessions' = Tail(accept_sessions)
            /\ accept_timer' = [accept_timer EXCEPT ![Head(accept_sessions)] = "closed"]

\* wakeup_accept.  A connection that nobody waits for is closed; on a socket that is
\* closed every message frees the callback and wakes the coroutines.
wakeup_accept ==
    LET m == Head(accept_messages)
        taken == ~listen_closed /\ ~no_acceptor
    IN
    /\ accept_pc = "idle"
    /\ accept_messages # << >>
    /\ m[1] # "timeout"
    /\ accept_messages' = Tail(accept_messages)
    /\ handed' = IF m[1] = "socket" THEN Append(handed, <<m[2], taken>>) ELSE handed
    /\ IF m[1] = "socket" /\ ~listen_closed
       THEN /\ IF taken
               THEN WakeupAcceptor("idle")
               ELSE UNCHANGED <<accept_sessions, accept_timer, accept_pc,
                                accept_back>>
            /\ UNCHANGED <<accept_callback, accept_left>>
       ELSE /\ accept_callback' = (accept_callback /\ ~listen_closed)
            /\ accept_left' = Len(accept_sessions)
            /\ accept_pc' = "wake_blocking"
            /\ UNCHANGED <<accept_sessions, accept_timer, accept_back>>
    /\ UNCHANGED <<listen_calls, accept_requests, accept_net>>

\* wakeup_all_blocking, then the callback.
wakeup_acceptors ==
    /\ accept_pc = "wake_blocking"
    /\ IF accept_left > 0
       THEN /\ accept_left' = accept_left - 1
            /\ WakeupAcceptor("wake_blocking")
       ELSE /\ IF accept_callback
               THEN ResumeAcceptor("idle")
               ELSE accept_pc' = "idle" /\ UNCHANGED accept_back
            /\ UNCHANGED <<accept_left, accept_sessions, accept_timer>>
    /\ UNCHANGED <<accept_messages, accept_callback, listen_calls, handed,
                   accept_requests, accept_net>>

\* accept_timeout: the call ends; nobody tells the network thread.
accept_timeout ==
    LET a == Head(accept_messages)[2]
    IN
    /\ accept_pc = "idle"
    /\ accept_messages # << >>
    /\ Head(accept_messages)[1] = "timeout"
    /\ accept_messages' = Tail(accept_messages)
    /\ IF accept_timer[a] = "closed"
       THEN UNCHANGED <<accept_timer, accept_pc, accept_back, accept_sessions>>
       ELSE /\ accept_sessions' = RemoveFirst(accept_sessions, a)
            /\ accept_timer' = [accept_timer EXCEPT ![a] = "closed"]
            /\ ResumeAcceptor("idle")
    /\ UNCHANGED <<accept_callback, listen_calls, handed, accept_left,
                   accept_requests, accept_net>>

ListenNext ==
    \/ on_accept \/ on_accept_error
    \/ \E blocking \in BOOLEAN : accept(blocking)
    \/ close_listen_handle
    \/ \E a \in Accept : on_accept_timedout(a)
    \/ accept_blocking \/ accept_nonblocking \/ listen_close \/ return_from_acceptor
    \/ other_accept_message
    \/ wakeup_accept \/ wakeup_acceptors \/ accept_timeout

ListenSpec == ListenInit /\ [][ListenNext]_listenVars

-----------------------------------------------------------------------------
ListenTypeOK ==
    /\ accept_messages \in Seq(({"socket"} \X Connection) \cup ({"timeout"} \X Accept)
                               \cup {AcceptError, ListenClosing})
    /\ accept_sessions \in Seq(Accept)
    /\ accept_callback \in BOOLEAN
    /\ listen_closed \in BOOLEAN
    /\ accept_timer \in [Accept -> {"none", "running", "expired", "closed"}]
    /\ accepts \in 0 .. MAX_ACCEPTS
    /\ accept_callbacks \in 0 .. MAX_CALLBACKS
    /\ handed \in Seq(Connection \X BOOLEAN)
    /\ accept_pc \in {"lua", "idle", "wake_blocking"}
    /\ accept_back \in {"idle", "wake_blocking"}
    /\ accept_left \in 0 .. MAX_ACCEPTS
    /\ accept_requests \in Seq({"blocking", "nonblocking", "close"})
    /\ m_has_accept_event \in BOOLEAN
    /\ m_has_noblocking_accept \in BOOLEAN
    /\ m_blocking_accept_count \in 0 .. MAX_ACCEPTS
    /\ listen_closing \in BOOLEAN
    /\ connections \in 0 .. MAX_CONNECTIONS
    /\ listen_errors \in 0 .. MAX_ERRORS

\* The positions of the connections among messages.
SocketsIn(queue) == {i \in DOMAIN queue : queue[i][1] = "socket"}

\* The number of the connections that have been accepted and sent to the context.
Sent == connections - (IF m_has_accept_event THEN 1 ELSE 0)

\* Every connection that has arrived is in one place, and in the order of its
\* arrival: taken by Lua code or closed, in a message, or not yet accepted.  None
\* is lost or sent twice (uv_tcp_handle.cpp:17-109).
ConnectionsInOrder ==
    LET number(i) == accept_messages[i][2]
        there == SocketsIn(accept_messages)
    IN
    /\ Len(handed) <= Sent
    /\ \A i \in DOMAIN handed : handed[i][1] = i
    /\ {number(i) : i \in there} = Len(handed) + 1 .. Sent
    /\ \A i, j \in there : i < j => number(i) < number(j)

\* The context has nothing to do, and nothing is under way between the threads.
ListenQuiet == accept_pc = "idle" /\ accept_messages = << >> /\ accept_requests = << >>

\* Nobody waits for a connection that is there, and nobody waits at a socket that
\* is closed (uv_tcp_handle.cpp:80-109, lua_tcp_handle.cpp:304-353).
AcceptorServed ==
    ListenQuiet /\ ~no_acceptor => ~listen_closed /\ ~m_has_accept_event

\* Connections come in order, and no one waits for one that is there
\* (uv_tcp_handle.cpp:17-109, lua_tcp_handle.cpp:211-353).
AcceptsExact == ListenTypeOK /\ ConnectionsInOrder /\ AcceptorServed

\* Without a callback, the network thread accepts as many connections as coroutines
\* wait for: its count is "maybe not so precise only if m_has_noblocking_accept has
\* been set true" (uv_tcp_handle.h:53-55).
AcceptCountPrecise ==
    ~listen_closed /\ accept_callbacks = 0 /\ listen_errors = 0 =>
        Len(accept_requests) + m_blocking_accept_count + (Sent - Len(handed))
            = Len(accept_sessions)
=============================================================================
