----------------------------- MODULE SocketWrite -----------------------------
(***************************************************************************)
(* Writing to one socket, tcp or udp: its context writes through the       *)
(* handle, any context through the shared descriptor while the option      *)
(* "wshared" is set (lua_tcp_handle.cpp, lua_udp_handle.cpp).  The network *)
(* thread passes the data on to libuv, which completes the writes or, when *)
(* the socket is closed, cancels them (uv_tcp_handle.cpp,                  *)
(* uv_udp_handle.cpp).                                                     *)
(*                                                                         *)
(* The data of a write belongs to its request, then to libuv; somebody has *)
(* to release it, and to answer whoever waits.  Writes of no data, which   *)
(* the context answers at once, are left out.  How an answer reaches the   *)
(* coroutine or the callback is in ContextWait, how the socket is opened   *)
(* and closed in Handles, what a head option adds in Framing.              *)
(***************************************************************************)
EXTENDS Integers, Sequences, SequencesExt

CONSTANTS MAX_WRITES,     \* bound on the writes
          MAX_OPTIONS,    \* bound on the changes of the option
          TCP_WRITE_UV_REQUEST_CACHE_MAX

ASSUME SocketWriteAssumption == /\ MAX_WRITES \in Nat /\ MAX_OPTIONS \in Nat
                         /\ TCP_WRITE_UV_REQUEST_CACHE_MAX \in Nat \ {0}

Write == 1 .. MAX_WRITES

VARIABLES
    kind,             \* "tcp" or "udp"
    \* contexts
    closed,           \* the lua handle is closed
    form,             \* of each write so far: descriptor, answer wanted, too long
    options,          \* changes of the option so far
    answers,          \* of each write
    \* the pipe and the network's thread
    socket_requests,  \* requests about the socket
    wshared,          \* it is in m_shared_write_sockets
    m_write_error,    \* read by the context's thread as well
    state,            \* of the uv handle: "open", "closing", "gone"; or the
                      \* process is "aborted"
    fd_open,          \* the descriptor of libuv's handle
    write_queue,      \* writes that libuv holds
    cached, allocated, \* m_write_cached_reqs, and all write requests in memory
    releases,         \* of each write's data
    sent_writes       \* writes that were sent

contextVars == <<closed, form, options>>
write_requests == <<cached, allocated>>
handleVars == <<wshared, state, fd_open>>
memory == <<write_requests, write_queue, releases, answers, sent_writes>>
socketWriteVars ==
    <<kind, contextVars, socket_requests, handleVars, m_write_error, memory>>

\* The socket is open, its descriptor not shared yet.
SocketWriteInit ==
    /\ kind \in {"tcp", "udp"}
    /\ closed = FALSE
    /\ form = << >>
    /\ options = 0
    /\ answers = [w \in Write |-> << >>]
    /\ socket_requests = << >>
    /\ wshared = FALSE
    /\ m_write_error = FALSE
    /\ state = "open"
    /\ fd_open = TRUE
    /\ write_queue = << >>
    /\ cached = 0
    /\ allocated = 0
    /\ releases = [w \in Write |-> 0]
    /\ sent_writes = << >>

Running == state # "aborted"

\* Answers with a status to those of some writes that want one.
answer(forms, ws, status) ==
    [w \in Write |-> IF Contains(ws, w) /\ forms[w].answer
                     THEN Append(answers[w], status)
                     ELSE answers[w]]

\* Mutated form of complete: the data of a write that fails is forgotten.
complete_leaks(forms, ws, status) ==
    /\ releases' = [w \in Write |-> releases[w]
                      + (IF Contains(ws, w) /\ status = "ok" THEN 1 ELSE 0)]
    /\ answers' = answer(forms, ws, status)

\* Mutated form of complete: only the writes that were sent are answered.
complete_silent(forms, ws, status) ==
    /\ releases' = [w \in Write |-> releases[w] + (IF Contains(ws, w) THEN 1 ELSE 0)]
    /\ answers' = IF status = "ok" THEN answer(forms, ws, status) ELSE answers

\* Writes end: the data is released, whoever waits is answered.
complete(forms, ws, status) ==
    /\ releases' = [w \in Write |-> releases[w] + (IF Contains(ws, w) THEN 1 ELSE 0)]
    /\ answers' = answer(forms, ws, status)

-----------------------------------------------------------------------------
(* Lua code.                                                                 *)

\* Another write, which goes to the network thread.
request(shape) ==
    LET w == Len(form) + 1
    IN
    /\ Running
    /\ w \in Write
    /\ form' = Append(form, shape)
    /\ socket_requests' = Append(socket_requests, <<"write", w>>)
    /\ UNCHANGED <<kind, closed, options, handleVars, m_write_error, memory>>

\* tcp.write with the socket, whose data is not too long, or the call is in error.
write_handle(wants) ==
    /\ kind = "tcp" /\ ~closed
    /\ ~m_write_error
    /\ request([fd |-> FALSE, answer |-> wants, long |-> FALSE])

\* An error that the network thread has seen ends it at once.
write_error(wants) ==
    LET w == Len(form) + 1
    IN
    /\ Running
    /\ kind = "tcp" /\ ~closed
    /\ m_write_error
    /\ w \in Write
    /\ form' = Append(form, [fd |-> FALSE, answer |-> wants, long |-> FALSE])
    /\ complete(form', <<w>>, "error")
    /\ UNCHANGED <<kind, closed, options, socket_requests, handleVars, m_write_error,
                   write_requests, write_queue, sent_writes>>

\* tcp.write with the descriptor: the context, which may be another one, knows
\* nothing of the socket.
write_fd(wants, long) ==
    /\ kind = "tcp"
    /\ request([fd |-> TRUE, answer |-> wants, long |-> long])

\* udp.write and udp.write6, with the socket or the descriptor.
_write(fd, wants) ==
    /\ kind = "udp"
    /\ fd \/ ~closed
    /\ request([fd |-> fd, answer |-> wants, long |-> FALSE])

set_wshared(enable) ==
    /\ Running /\ ~closed
    /\ options < MAX_OPTIONS
    /\ options' = options + 1
    /\ socket_requests' = Append(socket_requests, <<"wshared", enable>>)
    /\ UNCHANGED <<kind, closed, form, handleVars, m_write_error, memory>>

close_socket ==
    /\ Running /\ ~closed
    /\ closed' = TRUE
    /\ socket_requests' = Append(socket_requests, <<"close">>)
    /\ UNCHANGED <<kind, form, options, handleVars, m_write_error, memory>>

-----------------------------------------------------------------------------
(* Network thread.                                                           *)

SocketRequest(type) ==
    /\ Running
    /\ socket_requests # << >>
    /\ Head(socket_requests)[1] = type
    /\ socket_requests' = Tail(socket_requests)

\* put_write_cached_request, n times.
put_write_cached(n) ==
    LET room == TCP_WRITE_UV_REQUEST_CACHE_MAX - cached
    IN
    /\ cached' = IF n <= room THEN cached + n ELSE TCP_WRITE_UV_REQUEST_CACHE_MAX
    /\ allocated' = IF n <= room THEN allocated ELSE allocated - (n - room)

\* The check of a shared descriptor: the socket is there, the data not too long.
shared_write(w) == form[w].fd => wshared /\ ~form[w].long

\* libuv takes a write, with a request from the cache or a new one.
queue(w) ==
    /\ write_queue' = Append(write_queue, w)
    /\ cached' = IF cached > 0 THEN cached - 1 ELSE 0
    /\ allocated' = IF cached > 0 THEN allocated ELSE allocated + 1
    /\ UNCHANGED <<releases, answers>>

\* A write ends at once; if it was tried its request goes to the cache.
refuse_write(w, tried) ==
    /\ complete(form, <<w>>, "error")
    /\ cached' = IF tried /\ cached = 0 THEN 1 ELSE cached
    /\ allocated' = allocated + (cached' - cached)
    /\ UNCHANGED write_queue

\* uv_tcp_socket_handle_t::write and write_handle.  uv_write fails on a socket that
\* is closed (deps/uv/src/unix/stream.c).
request_write ==
    LET w == Head(socket_requests)[2]
        tried == shared_write(w) /\ ~m_write_error
    IN
    /\ kind = "tcp"
    /\ SocketRequest("write")
    /\ IF tried /\ fd_open
       THEN queue(w) /\ UNCHANGED m_write_error
       ELSE refuse_write(w, tried) /\ m_write_error' = (m_write_error \/ tried)
    /\ UNCHANGED <<kind, contextVars, handleVars, sent_writes>>

\* uv_udp_send opens a new socket for a handle that is closed, and fails if it cannot
\* (deps/uv/src/unix/udp.c).
uv_udp_send(w) ==
    \/ /\ fd_open' = TRUE
       /\ queue(w)
    \/ /\ ~fd_open
       /\ refuse_write(w, TRUE)
       /\ UNCHANGED fd_open

\* uv_udp_handle_t::write and write_handle.
request_udp_write ==
    LET w == Head(socket_requests)[2]
    IN
    /\ kind = "udp"
    /\ SocketRequest("write")
    /\ IF shared_write(w) THEN uv_udp_send(w) ELSE refuse_write(w, FALSE) /\ UNCHANGED fd_open
    /\ UNCHANGED <<kind, contextVars, wshared, state, m_write_error, sent_writes>>

\* libuv has ended the first write, which was sent or not.
written(status) ==
    LET w == Head(write_queue)
    IN
    /\ state = "open"
    /\ write_queue # << >>
    /\ write_queue' = Tail(write_queue)
    /\ complete(form, <<w>>, status)
    /\ sent_writes' = IF status = "ok" THEN Append(sent_writes, w) ELSE sent_writes
    /\ put_write_cached(1)
    /\ UNCHANGED <<kind, contextVars, socket_requests, handleVars>>

on_write(status) ==
    /\ kind = "tcp"
    /\ written(status)
    /\ m_write_error' = (m_write_error \/ status = "error")

on_udp_write(status) ==
    /\ kind = "udp"
    /\ written(status)
    /\ UNCHANGED m_write_error

\* set_tcp_wshared, set_udp_wshared.
request_option ==
    /\ SocketRequest("wshared")
    /\ wshared' = IF state = "open" THEN Head(socket_requests)[2] ELSE wshared
    /\ UNCHANGED <<kind, contextVars, state, fd_open, m_write_error, memory>>

request_close ==
    /\ SocketRequest("close")
    /\ state' = "closing"
    /\ fd_open' = FALSE
    /\ UNCHANGED <<kind, contextVars, wshared, m_write_error, memory>>

\* libuv ends the handle: it calls on_write for what is queued, with an error, and
\* on_closed, which deletes the handle and takes it off the shared ones.
on_socket_closed ==
    /\ state = "closing"
    /\ ~fd_open
    /\ state' = "gone"
    /\ wshared' = FALSE
    /\ write_queue' = << >>
    /\ m_write_error' = (m_write_error \/ (kind = "tcp" /\ write_queue # << >>))
    /\ complete(form, write_queue, "error")
    /\ cached' = 0
    /\ allocated' = allocated - Len(write_queue) - cached
    /\ UNCHANGED <<kind, contextVars, socket_requests, fd_open, sent_writes>>

\* libuv asserts that the descriptor of a handle that it ends is closed.
abort ==
    /\ state = "closing"
    /\ fd_open
    /\ state' = "aborted"
    /\ UNCHANGED <<kind, contextVars, socket_requests, wshared, fd_open, m_write_error,
                   memory>>

SocketWriteNext ==
    \/ \E wants \in BOOLEAN : write_handle(wants) \/ write_error(wants)
    \/ \E wants, long \in BOOLEAN : write_fd(wants, long)
    \/ \E fd, wants \in BOOLEAN : _write(fd, wants)
    \/ \E enable \in BOOLEAN : set_wshared(enable)
    \/ close_socket
    \/ request_write \/ request_udp_write \/ request_option \/ request_close
    \/ \E status \in {"ok", "error"} : on_write(status) \/ on_udp_write(status)
    \/ on_socket_closed \/ abort

SocketWriteSpec == SocketWriteInit /\ [][SocketWriteNext]_socketWriteVars

-----------------------------------------------------------------------------
SocketWriteTypeOK ==
    /\ kind \in {"tcp", "udp"}
    /\ closed \in BOOLEAN
    /\ form \in Seq([fd : BOOLEAN, answer : BOOLEAN, long : BOOLEAN])
    /\ Len(form) <= MAX_WRITES
    /\ options \in 0 .. MAX_OPTIONS
    /\ answers \in [Write -> Seq({"ok", "error"})]
    /\ socket_requests \in Seq(({"write"} \X Write) \cup ({"wshared"} \X BOOLEAN)
                    \cup {<<"close">>})
    /\ wshared \in BOOLEAN
    /\ m_write_error \in BOOLEAN
    /\ state \in {"open", "closing", "gone", "aborted"}
    /\ fd_open \in BOOLEAN
    /\ write_queue \in Seq(Write)
    /\ cached \in 0 .. TCP_WRITE_UV_REQUEST_CACHE_MAX
    /\ allocated \in 0 .. MAX_WRITES
    /\ releases \in [Write -> 0 .. 2]
    /\ sent_writes \in Seq(Write)

\* Writes that are under way.
Pending == {w \in 1 .. Len(form) : Contains(socket_requests, <<"write", w>>)
                                   \/ Contains(write_queue, w)}

\* The data of every write, and the requests made for libuv, are released, once, when
\* and only when nobody uses them any more, whatever happens to the write
\* (uv_tcp_handle.cpp:226-306, uv_udp_handle.cpp:73-138, uv_tcp_handle.h:146-169).
MemoryReleased ==
    /\ \A w \in 1 .. Len(form) : releases[w] = IF w \in Pending THEN 0 ELSE 1
    /\ allocated = cached + Len(write_queue)
    /\ state = "gone" => allocated = 0

\* "We must response something to lua-service even error occurred": every write that
\* wants an answer gets one, no other gets any, and the answer says whether the data
\* was sent (uv_tcp_handle.cpp:226-306).
WritesAnswered ==
    \A w \in 1 .. Len(form) :
        /\ Len(answers[w]) = IF form[w].answer /\ w \notin Pending THEN 1 ELSE 0
        /\ answers[w] # << >> => (answers[w] = <<"ok">> <=> Contains(sent_writes, w))

\* When a write is over its data has been released and its caller has been answered,
\* each once (uv_tcp_handle.cpp:226-306, uv_udp_handle.cpp:73-138).
WritesOver == SocketWriteTypeOK /\ MemoryReleased /\ WritesAnswered

\* Nothing opens the descriptor of a socket again that is being closed: libuv has
\* "assert(handle->io_watcher.fd == -1);" (deps/uv/src/unix/udp.c:59), and the shared
\* descriptor reaches the handle until it is deleted (uv_udp_handle.cpp:15, 92-96).
ClosedStaysClosed == state = "closing" => ~fd_open
=============================================================================
