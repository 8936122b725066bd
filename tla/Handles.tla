------------------------------- MODULE Handles -------------------------------
(***************************************************************************)
(* A socket or a timer is two objects: a lua handle, owned by the Lua      *)
(* state of a context, and a uv handle, owned by the network thread.  The  *)
(* lua handle points to the uv handle until it is closed.  The uv handle   *)
(* knows the lua handle by a number, m_lua_ref, its place in a table of    *)
(* the Lua state, and is deleted some time after a request to close it.    *)
(* Either object may go first, messages and requests about both are on     *)
(* their way meanwhile, and the context may end at any time.               *)
(*                                                                         *)
(* The model follows the objects of one context, the table of their        *)
(* numbers, and the table by which any context finds a socket that shares  *)
(* its writes.  What handles are used for is left to TcpRead, TcpListen    *)
(* and SocketWrite: here a use is a request that reaches the uv handle,    *)
(* and an event a message that carries its number.                         *)
(***************************************************************************)
EXTENDS Integers, Sequences, FiniteSets

CONSTANTS Handle,         \* the handles that come to be
          Timer,          \* those that are timers
          Ref,            \* numbers of handles, in either table
          NIL,            \* LUA_REFNIL
          MAX_HANDLES,    \* bound on the handles of a run
          MAX_EVENTS      \* bound on uses of each handle, and on its events

ASSUME HandlesAssumption ==
    /\ Timer \subseteq Handle
    /\ NIL \notin Ref
    /\ {NIL, "free", "null"} \cap Handle = {}
    /\ MAX_HANDLES \in Nat /\ MAX_EVENTS \in Nat

Socket == Handle \ Timer
Free == "free"            \* a number of the free list
Null == "null"            \* the light userdata NULL

VARIABLES
    context,              \* "running", "closing" (lua_close) or "retired"
    lua,                  \* the lua handle of each handle
    m_lua_ref,            \* its number
    m_lua_ref_table,      \* what is at each number, in either table
    session,              \* of the call that opens a socket
    m_message_queue,
    pipe,                 \* the requests to the network thread
    uv,                   \* the uv handle of each handle
    uv_lua_ref,           \* its copy of the number
    m_shared_write_sockets,
    uses, events          \* counted for the bound

table == <<lua, m_lua_ref, m_lua_ref_table>>
net == <<uv, uv_lua_ref, m_shared_write_sockets>>
handlesVars == <<context, table, session, m_message_queue, pipe, net, uses,
                 events>>

Calls == {"waiting", "timed"}             \* without and with a timeout
Requests == {"listen", "udp_open", "connect"}

handle_set(h) == IF h \in Timer THEN "timers" ELSE "sockets"

HandlesInit ==
    /\ context = "running"
    /\ lua = [h \in Handle |-> "none"]
    /\ m_lua_ref = [h \in Handle |-> NIL]
    /\ m_lua_ref_table = [s \in {"timers", "sockets"} |-> [r \in Ref |-> Free]]
    /\ session = [h \in Handle |-> "none"]
    /\ m_message_queue = << >>
    /\ pipe = << >>
    /\ uv = [h \in Handle |-> "none"]
    /\ uv_lua_ref = [h \in Handle |-> NIL]
    /\ m_shared_write_sockets = [r \in Ref \cup {NIL} |-> NIL]
    /\ uses = [h \in Handle |-> 0]
    /\ events = [h \in Handle |-> 0]

send_request(type, h) == pipe' = Append(pipe, <<type, h>>)

\* Mutated form of _close: the lua handle keeps its pointer.
_close_again(h) ==
    /\ IF lua[h] = "open" THEN send_request("close", h) ELSE UNCHANGED pipe
    /\ UNCHANGED lua

\* _close: the lua handle lets go of the uv handle, which is to be closed.
_close(h) ==
    /\ IF lua[h] = "open" THEN send_request("close", h) ELSE UNCHANGED pipe
    /\ lua' = [lua EXCEPT ![h] = "closed"]

\* grab_ref: a new lua handle takes a number and tells it to its uv handle.
grab_ref(h) ==
    \E r \in Ref :
        /\ m_lua_ref_table[handle_set(h)][r] = Free
        /\ m_lua_ref_table' = [m_lua_ref_table EXCEPT ![handle_set(h)][r] = h]
        /\ m_lua_ref' = [m_lua_ref EXCEPT ![h] = r]
        /\ uv_lua_ref' = [uv_lua_ref EXCEPT ![h] = r]

\* Mutated form of release_ref: the number is free when the first object goes.
release_ref_once(r, set) ==
    m_lua_ref_table' = [m_lua_ref_table EXCEPT ![set][r] = Free]

\* release_ref: the object that goes first leaves NULL, the second frees the number.
release_ref(r, set) ==
    m_lua_ref_table' = [m_lua_ref_table EXCEPT
        ![set][r] = IF @ \in Handle THEN Null ELSE Free]

\* context_send by the network thread: nothing reaches a context that has gone.
deliver(message) ==
    m_message_queue' = IF context = "retired" THEN m_message_queue
                       ELSE Append(m_message_queue, message)

-----------------------------------------------------------------------------
(* Lua code of the context.                                                  *)

another_handle ==
    Cardinality({h \in Handle : session[h] # "none" \/ uv[h] # "none"}) < MAX_HANDLES

\* create_timer: both objects at once, and a request to start the timer.
create_timer(h) ==
    /\ context = "running"
    /\ h \in Timer
    /\ uv[h] = "none"
    /\ another_handle
    /\ grab_ref(h)
    /\ lua' = [lua EXCEPT ![h] = "open"]
    /\ uv' = [uv EXCEPT ![h] = "created"]
    /\ send_request("timer_start", h)
    /\ UNCHANGED <<context, session, m_message_queue, m_shared_write_sockets,
                   uses, events>>

\* The network thread is to make a uv handle; a coroutine or a callback waits for it.
Ask(h, request, call) ==
    /\ context = "running"
    /\ h \in Socket
    /\ session[h] = "none"
    /\ another_handle
    /\ session' = [session EXCEPT ![h] = call]
    /\ send_request(request, h)
    /\ UNCHANGED <<context, table, m_message_queue, net, uses, events>>

\* tcp.listen, tcp.listen6, tcp.listens
_listen(h) == Ask(h, "listen", "waiting")

\* udp.open, udp.open6
_open(h) == Ask(h, "udp_open", "waiting")

\* tcp.connect, tcp.connect6, tcp.connects, which may have a timeout.
_connect(h) == \E call \in Calls : Ask(h, "connect", call)

\* The timeout of a connect ends its session.
connect_timed_out(h) ==
    /\ context = "running"
    /\ session[h] = "timed"
    /\ session' = [session EXCEPT ![h] = "over"]
    /\ UNCHANGED <<context, table, m_message_queue, pipe, net, uses, events>>

\* A request about an open handle: tcp.read, tcp.set_wshared, ...
use(h, type) ==
    /\ context = "running"
    /\ h \in Socket
    /\ lua[h] = "open"
    /\ uses[h] < MAX_EVENTS
    /\ uses' = [uses EXCEPT ![h] = @ + 1]
    /\ send_request(type, h)
    /\ UNCHANGED <<context, table, session, m_message_queue, net, events>>

\* tcp.close, udp.close, or the end of the session that a timer is for.
close(h) ==
    /\ context = "running"
    /\ lua[h] = "open"
    /\ _close(h)
    /\ UNCHANGED <<context, m_lua_ref, m_lua_ref_table, session,
                   m_message_queue, net, uses, events>>

\* release: the lua handle is collected, or the Lua state closed.
release(h) ==
    /\ context # "retired"
    /\ lua[h] \in {"open", "closed"}
    /\ IF lua[h] = "open" THEN send_request("close", h) ELSE UNCHANGED pipe
    /\ lua' = [lua EXCEPT ![h] = "collected"]
    /\ release_ref(m_lua_ref[h], handle_set(h))
    /\ UNCHANGED <<context, m_lua_ref, session, m_message_queue, net, uses,
                   events>>

\* deinit: lua_close collects every handle, one by one.
context_destroy ==
    /\ context = "running"
    /\ context' = "closing"
    /\ session' = [h \in Handle |-> IF session[h] \in Calls THEN "over" ELSE session[h]]
    /\ UNCHANGED <<table, m_message_queue, pipe, net, uses, events>>

retire_context ==
    /\ context = "closing"
    /\ \A h \in Handle : lua[h] \notin {"open", "closed"}
    /\ context' = "retired"
    /\ UNCHANGED <<table, session, m_message_queue, pipe, net, uses, events>>

-----------------------------------------------------------------------------
(* Messages of the context.                                                  *)

Received(type) ==
    /\ m_message_queue # << >>
    /\ Head(m_message_queue)[1] = type
    /\ m_message_queue' = Tail(m_message_queue)

\* connect_yield_continue, connect_callback_adjust and the like: the coroutine or
\* callback that the socket is for makes the lua handle.
create_socket(h) ==
    /\ grab_ref(h)
    /\ lua' = [lua EXCEPT ![h] = "open"]
    /\ session' = [session EXCEPT ![h] = "over"]
    /\ UNCHANGED pipe

\* close_uv_handle: a uv handle that never had a lua handle.
close_uv_handle(h) ==
    /\ send_request("close", h)
    /\ UNCHANGED <<table, uv_lua_ref, session>>

\* wakeup_connect, wakeup_listen, wakeup_open.
wakeup_open ==
    LET h == Head(m_message_queue)[2]
    IN
    /\ context = "running"
    /\ Received("userdata")
    /\ IF session[h] \in Calls THEN create_socket(h) ELSE close_uv_handle(h)
    /\ UNCHANGED <<context, uv, m_shared_write_sockets, uses, events>>

wakeup_error ==
    LET h == Head(m_message_queue)[2]
    IN
    /\ context = "running"
    /\ Received("error")
    /\ session' = [session EXCEPT ![h] = "over"]
    /\ UNCHANGED <<context, table, pipe, net, uses, events>>

\* The head of every handler of an event: get_lua_handle finds the lua handle, or
\* NULL.  What happens then is not part of this module.
get_lua_handle ==
    /\ context = "running"
    /\ Received("event")
    /\ UNCHANGED <<context, table, session, pipe, net, uses, events>>

response_handle_close ==
    LET m == Head(m_message_queue)
    IN
    /\ context = "running"
    /\ Received("handle_close")
    /\ release_ref(m[3], handle_set(m[2]))
    /\ UNCHANGED <<context, lua, m_lua_ref, session, pipe, net, uses, events>>

\* Mutated form of close_dropped: a socket in a message to nobody is forgotten.
close_dropped_not(m) == UNCHANGED pipe

close_dropped(m) ==
    IF m[1] = "userdata" THEN send_request("close", m[2]) ELSE UNCHANGED pipe

\* on_dropped, when the context has gone.
on_dropped ==
    /\ context = "retired"
    /\ m_message_queue # << >>
    /\ m_message_queue' = Tail(m_message_queue)
    /\ close_dropped(Head(m_message_queue))
    /\ UNCHANGED <<context, table, session, net, uses, events>>

-----------------------------------------------------------------------------
(* Network thread.                                                           *)

Request(type) == /\ pipe # << >>
                 /\ Head(pipe)[1] = type
                 /\ pipe' = Tail(pipe)

\* The socket is offered to the caller.  Nobody is left to own it if the context
\* has gone, and the network thread closes it.
offer(h) ==
    /\ uv' = [uv EXCEPT ![h] = IF context = "retired" THEN "closing" ELSE "open"]
    /\ deliver(<<"userdata", h>>)

refuse(h) ==
    /\ uv' = [uv EXCEPT ![h] = "closing"]
    /\ deliver(<<"error", h>>)

\* Listening and opening a datagram socket succeed or fail at once.
listen_tcp ==
    /\ Request("listen")
    /\ offer(Head(pipe)[2]) \/ refuse(Head(pipe)[2])
    /\ UNCHANGED <<context, table, session, uv_lua_ref, m_shared_write_sockets,
                   uses, events>>

open ==
    /\ Request("udp_open")
    /\ offer(Head(pipe)[2]) \/ refuse(Head(pipe)[2])
    /\ UNCHANGED <<context, table, session, uv_lua_ref, m_shared_write_sockets,
                   uses, events>>

await(h, event) ==
    /\ uv' = [uv EXCEPT ![h] = event]
    /\ UNCHANGED m_message_queue

\* connect_tcp: the address is given, or its name has to be resolved.
connect_tcp ==
    LET h == Head(pipe)[2]
    IN
    /\ Request("connect")
    /\ refuse(h) \/ await(h, "connecting") \/ await(h, "resolving")
    /\ UNCHANGED <<context, table, session, uv_lua_ref, m_shared_write_sockets,
                   uses, events>>

on_resolve(h) ==
    /\ uv[h] = "resolving"
    /\ refuse(h) \/ await(h, "connecting")
    /\ UNCHANGED <<context, table, session, pipe, uv_lua_ref,
                   m_shared_write_sockets, uses, events>>

on_connect(h) ==
    /\ uv[h] = "connecting"
    /\ offer(h) \/ refuse(h)
    /\ UNCHANGED <<context, table, session, pipe, uv_lua_ref,
                   m_shared_write_sockets, uses, events>>

request_timer_start ==
    /\ Request("timer_start")
    /\ uv' = [uv EXCEPT ![Head(pipe)[2]] = "open"]
    /\ UNCHANGED <<context, table, session, m_message_queue, uv_lua_ref,
                   m_shared_write_sockets, uses, events>>

\* read, set_option and the like of a uv handle.
request_handle_option ==
    LET h == Head(pipe)[2]
    IN
    /\ pipe # << >>
    /\ Head(pipe)[1] \in {"wshared", "wunshared"}
    /\ pipe' = Tail(pipe)
    /\ m_shared_write_sockets' =
           IF uv[h] = "closing" THEN m_shared_write_sockets
           ELSE [m_shared_write_sockets EXCEPT ![uv_lua_ref[h]] =
                     IF Head(pipe)[1] = "wshared" THEN h ELSE NIL]
    /\ UNCHANGED <<context, table, session, m_message_queue, uv, uv_lua_ref,
                   uses, events>>

\* A timer expires, data arrives, ...
on_event(h) ==
    /\ uv[h] = "open"
    /\ uv_lua_ref[h] # NIL
    /\ events[h] < MAX_EVENTS
    /\ events' = [events EXCEPT ![h] = @ + 1]
    /\ deliver(<<"event", h, uv_lua_ref[h]>>)
    /\ UNCHANGED <<context, table, session, pipe, net, uses>>

\* uv_handle_base_t::close; libuv calls on_closed later.  (Its branch for a handle
\* without m_handle is never taken: a timer's request to start comes first.)
request_handle_close ==
    LET h == Head(pipe)[2]
    IN
    /\ Request("close")
    /\ uv' = [uv EXCEPT ![h] = "closing"]
    /\ UNCHANGED <<context, table, session, m_message_queue, uv_lua_ref,
                   m_shared_write_sockets, uses, events>>

\* on_closed: the context is told, then the uv handle deleted, and with it the
\* entry for shared writes at its number.
on_closed(h) ==
    /\ uv[h] = "closing"
    /\ uv' = [uv EXCEPT ![h] = "deleted"]
    /\ m_shared_write_sockets' =
           IF h \in Socket
           THEN [m_shared_write_sockets EXCEPT ![uv_lua_ref[h]] = NIL]
           ELSE m_shared_write_sockets
    /\ IF uv_lua_ref[h] # NIL
       THEN deliver(<<"handle_close", h, uv_lua_ref[h]>>)
       ELSE UNCHANGED m_message_queue
    /\ UNCHANGED <<context, table, session, pipe, uv_lua_ref, uses, events>>

HandlesNext ==
    \/ \E h \in Handle :
           \/ create_timer(h) \/ _listen(h) \/ _open(h) \/ _connect(h)
           \/ connect_timed_out(h) \/ close(h) \/ release(h)
           \/ on_resolve(h) \/ on_connect(h) \/ on_event(h) \/ on_closed(h)
           \/ \E type \in {"wshared", "wunshared"} : use(h, type)
    \/ context_destroy \/ retire_context
    \/ wakeup_open \/ wakeup_error \/ get_lua_handle \/ response_handle_close
    \/ on_dropped
    \/ listen_tcp \/ open \/ connect_tcp \/ request_timer_start \/ request_handle_option
    \/ request_handle_close

HandlesSpec == HandlesInit /\ [][HandlesNext]_handlesVars

-----------------------------------------------------------------------------
HandlesTypeOK ==
    /\ context \in {"running", "closing", "retired"}
    /\ lua \in [Handle -> {"none", "open", "closed", "collected"}]
    /\ m_lua_ref \in [Handle -> Ref \cup {NIL}]
    /\ m_lua_ref_table \in [{"timers", "sockets"} -> [Ref -> Handle \cup {Free, Null}]]
    /\ session \in [Handle -> {"none", "over"} \cup Calls]
    /\ m_message_queue \in Seq(({"userdata", "error"} \X Handle)
                               \cup ({"event", "handle_close"} \X Handle \X Ref))
    /\ pipe \in Seq((Requests \cup {"timer_start", "wshared", "wunshared", "close"})
                    \X Handle)
    /\ uv \in [Handle -> {"none", "created", "resolving", "connecting", "open",
                         "closing", "deleted"}]
    /\ uv_lua_ref \in [Handle -> Ref \cup {NIL}]
    /\ m_shared_write_sockets \in [Ref \cup {NIL} -> Handle \cup {NIL}]
    /\ uses \in [Handle -> 0 .. MAX_EVENTS]
    /\ events \in [Handle -> 0 .. MAX_EVENTS]

\* Nothing points to a uv handle that is deleted or about to be: neither the lua
\* handle, nor a request, nor a message that offers the socket to its context, nor
\* the table of shared writes (lua_handle_base.cpp:126-132, uv_handle_base.cpp:67-85,
\* uv_tcp_handle.cpp:120-125).  A second request to close a handle would close it
\* twice.
NoUseAfterFree ==
    /\ \A h \in Handle : lua[h] = "open" => uv[h] \in {"created", "open"}
    /\ \A i \in DOMAIN pipe :
           pipe[i][1] \notin Requests => uv[pipe[i][2]] \in {"created", "open"}
    /\ \A i \in DOMAIN m_message_queue :
           m_message_queue[i][1] = "userdata" => uv[m_message_queue[i][2]] = "open"
    /\ \A r \in Ref : m_shared_write_sockets[r] # NIL =>
           /\ uv[m_shared_write_sockets[r]] \in {"open", "closing"}
           /\ uv_lua_ref[m_shared_write_sockets[r]] = r

\* A number means one handle until both its objects are gone: a message that was
\* sent for a handle finds that handle or none, and the number is given back once
\* (the comment at lua_handle_base.cpp:64-67).
RefNotReused ==
    context = "running" =>
        \A i \in DOMAIN m_message_queue :
            LET m == m_message_queue[i]
            IN Len(m) = 3 => m_lua_ref_table[handle_set(m[2])][m[3]] \in {m[2], Null}

\* Whatever meets: when all is quiet, every uv handle that is left is owned by an
\* open lua handle, every number that is taken by a lua handle, and nobody still
\* waits for a socket.  The handle of a socket that was opened after its caller
\* gave up, or for a context that is gone, is closed.
NothingLeaks ==
    (/\ m_message_queue = << >>
     /\ pipe = << >>
     /\ context # "closing"
     /\ \A h \in Handle : uv[h] \notin {"resolving", "connecting", "closing"}) =>
        /\ \A h \in Handle :
               /\ uv[h] \notin {"none", "deleted"} =>
                      lua[h] = "open" /\ context = "running"
               /\ session[h] \notin Calls
        /\ context = "running" =>
               \A s \in {"timers", "sockets"}, r \in Ref :
                   m_lua_ref_table[s][r] # Free =>
                       \E h \in Handle : /\ handle_set(h) = s
                                         /\ m_lua_ref[h] = r
                                         /\ lua[h] \in {"open", "closed"}

\* Neither a pointer nor a number reaches a handle that is gone, and every uv handle
\* is closed in the end.
HandlesExact == HandlesTypeOK /\ NoUseAfterFree /\ RefNotReused /\ NothingLeaks
=============================================================================
