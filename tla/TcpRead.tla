------------------------------- MODULE TcpRead -------------------------------
(***************************************************************************)
(* tcp.read: packets that the network thread reads from a socket           *)
(* (uv_tcp_handle.cpp) are handed, as messages, to the Lua context that    *)
(* owns the socket (lua_tcp_handle.cpp), to coroutines that block in       *)
(* tcp.read, with or without a timeout, or to a callback.                  *)
(*                                                                         *)
(* The two sides never look at each other's state but for m_read_error.    *)
(* The context asks for packets with requests, counted on the network side *)
(* as demand; a packet without demand is cached there, and one that finds  *)
(* no reader in the context overflows there.  A read that timed out leaves *)
(* its demand behind, for the next read.                                   *)
(*                                                                         *)
(* A callback of the network thread is one step but for the error, which   *)
(* is sent before it is published.  A handler of the context is split      *)
(* where it resumes Lua code, which may read again or close the socket.    *)
(* How a stream is cut into packets is in Framing, what becomes of closed  *)
(* handles in Handles.                                                     *)
(***************************************************************************)
EXTENDS Integers, Sequences, SequencesExt

CONSTANTS MAX_PACKETS,    \* bound on the packets that the peer sends
          MAX_READS       \* bound on the calls of tcp.read

ASSUME TcpReadAssumption == MAX_PACKETS \in Nat /\ MAX_READS \in Nat

Packet == 1 .. MAX_PACKETS
Read   == 1 .. MAX_READS

VARIABLES
    \* the context's thread
    read_messages,                \* its messages about this socket
    read_sessions, read_callback, \* m_read_ref_sessions
    m_read_timeout_session_count,
    m_read_overflow_buffers,
    read_closed,                  \* the lua handle is closed
    read_timer,                   \* of each read
    reads,                        \* calls of tcp.read so far
    delivered,                    \* packets handed to Lua code, in order
    read_pc, read_back,           \* the handler; where Lua code returns to
    read_current, read_left,      \* its message; sessions still to be woken
    \* the network's thread
    read_requests,                \* requests about this socket
    m_blocking_read_count, m_has_noblocking_read,
    m_read_cached_buffers,
    reading,                      \* uv_read_start is in effect
    arrived,                      \* packets read from the socket
    failing,                      \* a read error is being sent
    m_read_error, read_closing

readers == <<read_sessions, read_callback>>
read_socket == <<m_read_timeout_session_count, m_read_overflow_buffers,
                 read_closed>>
read_handler == <<read_pc, read_back, read_current, read_left>>
read_lua == <<read_messages, readers, read_socket, read_timer, reads, delivered,
              read_handler>>
read_demand == <<m_blocking_read_count, m_has_noblocking_read>>
read_stream == <<m_read_cached_buffers, reading, arrived, read_closing>>
read_net == <<read_demand, read_stream, failing, m_read_error>>
readVars == <<read_lua, read_requests, read_net>>

Buffer(p) == <<"buffer", p>>
ReadExpired(r) == <<"timeout", r>>
ReadError == <<"error">>
ReadOverflow  == <<"overflow">>
ReadClosing   == <<"closing">>

\* The context owns a connected socket and runs Lua code; nobody reads.
ReadInit ==
    /\ read_messages = << >>
    /\ read_sessions = << >>
    /\ read_callback = FALSE
    /\ m_read_timeout_session_count = 0
    /\ m_read_overflow_buffers = << >>
    /\ read_closed = FALSE
    /\ read_timer = [r \in Read |-> "none"]
    /\ reads = 0
    /\ delivered = << >>
    /\ read_pc = "lua"
    /\ read_back = "idle"
    /\ read_current = ReadOverflow
    /\ read_left = 0
    /\ read_requests = << >>
    /\ m_blocking_read_count = 0
    /\ m_has_noblocking_read = FALSE
    /\ m_read_cached_buffers = << >>
    /\ reading = FALSE
    /\ arrived = 0
    /\ failing = FALSE
    /\ m_read_error = FALSE
    /\ read_closing = FALSE

-----------------------------------------------------------------------------
(* Network thread.                                                         *)

MinOf(a, b) == IF a < b THEN a ELSE b
BuffersOf(packets) == [i \in 1 .. Len(packets) |-> Buffer(packets[i])]

read_start_state(noblocking, count) == noblocking \/ count > 0

\* Mutated form of StartAfter: what is cached is taken for enough.
StartAfter_cached(started, h, noblocking) ==
    ~started /\ h.sent = << >> /\ read_start_state(noblocking, h.count)

\* Reading starts when what was cached did not meet the demand.
StartAfter(started, h, noblocking) ==
    ~started /\ read_start_state(noblocking, h.count)

\* Hands over packets, oldest first, for as long as there is demand: what is sent,
\* what is left and the demand that remains.
HandOver(packets, noblocking, count) ==
    LET n == IF noblocking THEN Len(packets) ELSE MinOf(Len(packets), count)
    IN [sent  |-> BuffersOf(SubSeq(packets, 1, n)),
        rest  |-> SubSeq(packets, n + 1, Len(packets)),
        count |-> count - MinOf(n, count)]

\* Mutated form of SendReadError: the error overtakes what is cached.
SendReadError_first(queue, cached) ==
    /\ read_messages' = Append(queue, ReadError) \o BuffersOf(cached)
    /\ m_read_cached_buffers' = << >>
    /\ failing' = TRUE

\* trigger_read_error: what is cached goes first, then the error.
SendReadError(queue, cached) ==
    /\ read_messages' = Append(queue \o BuffersOf(cached), ReadError)
    /\ m_read_cached_buffers' = << >>
    /\ failing' = TRUE

\* on_tcp_read, write_read_buffer_finish: a chunk completes packets; what there is no
\* demand for is cached, and reading stops.  Then the chunk may hold a bad header,
\* or there is no chunk but the end of the stream: a read error.
on_tcp_read ==
    /\ reading /\ ~failing
    /\ \E n \in 0 .. 2, error \in BOOLEAN :
           /\ n > 0 \/ error
           /\ arrived + n <= MAX_PACKETS
           /\ arrived' = arrived + n
           /\ LET h == HandOver([i \in 1 .. n |-> arrived + i],
                                m_has_noblocking_read, m_blocking_read_count)
                  queue == read_messages \o h.sent
                  cached == m_read_cached_buffers \o h.rest
              IN /\ m_blocking_read_count' = h.count
                 /\ IF error
                    THEN SendReadError(queue, cached) /\ reading' = FALSE
                    ELSE /\ read_messages' = queue
                         /\ m_read_cached_buffers' = cached
                         /\ reading' = read_start_state(m_has_noblocking_read, h.count)
                         /\ UNCHANGED failing
    /\ UNCHANGED <<readers, read_socket, read_timer, reads, delivered,
                   read_handler, read_requests, m_has_noblocking_read,
                   m_read_error, read_closing>>

\* The rest of trigger_read_error, after the barrier.
publish_read_error ==
    /\ failing
    /\ failing' = FALSE
    /\ m_read_error' = TRUE
    /\ UNCHANGED <<read_lua, read_requests, read_demand, read_stream>>

ReadRequest(type) ==
    /\ read_requests # << >>
    /\ Head(read_requests) = type
    /\ ~failing
    /\ read_requests' = Tail(read_requests)

\* read: a request after an error is forgotten; else it adds to the demand, gets
\* what is cached, and starts reading, which may fail, if that was not enough.
tcp_read(blocking) ==
    LET noblocking == m_has_noblocking_read \/ ~blocking
        count == m_blocking_read_count + (IF blocking THEN 1 ELSE 0)
        h == HandOver(m_read_cached_buffers, noblocking, count)
        started == read_start_state(m_has_noblocking_read, m_blocking_read_count)
        start == StartAfter(started, h, noblocking)
    IN
    /\ ReadRequest(IF blocking THEN "blocking" ELSE "nonblocking")
    /\ IF m_read_error
       THEN UNCHANGED <<read_messages, read_net>>
       ELSE /\ m_has_noblocking_read' = noblocking
            /\ m_blocking_read_count' = h.count
            /\ \/ /\ read_messages' = read_messages \o h.sent
                  /\ m_read_cached_buffers' = h.rest
                  /\ reading' = (reading \/ start)
                  /\ UNCHANGED failing
               \/ /\ start
                  /\ SendReadError(read_messages \o h.sent, h.rest)
                  /\ UNCHANGED reading
            /\ UNCHANGED <<arrived, m_read_error, read_closing>>
    /\ UNCHANGED <<readers, read_socket, read_timer, reads, delivered,
                   read_handler>>

\* uv_close: nothing is read from the socket any more.
close_read_handle ==
    /\ ReadRequest("close")
    /\ read_closing' = TRUE
    /\ reading' = FALSE
    /\ UNCHANGED <<read_lua, read_demand, m_read_cached_buffers, arrived,
                   failing, m_read_error>>

\* A timer expires.
on_read_timedout(r) ==
    /\ read_timer[r] = "running"
    /\ read_timer' = [read_timer EXCEPT ![r] = "expired"]
    /\ read_messages' = Append(read_messages, ReadExpired(r))
    /\ UNCHANGED <<readers, read_socket, reads, delivered, read_handler,
                   read_requests, read_net>>

-----------------------------------------------------------------------------
(* Lua code of the context.                                                *)

\* read_yield_finalize: the coroutine has yielded.  It asks for a packet unless a
\* read that timed out has asked for it; what has overflowed, or an error, is
\* announced by a message of the context to itself.
read_blocking ==
    /\ read_pc = "lua"
    /\ ~read_closed
    /\ reads < MAX_READS
    /\ reads' = reads + 1
    /\ read_sessions' = Append(read_sessions, reads + 1)
    /\ IF m_read_error
       THEN /\ read_messages' = Append(read_messages, ReadOverflow)
            /\ UNCHANGED <<read_requests, m_read_timeout_session_count, read_timer>>
       ELSE /\ IF m_read_timeout_session_count = 0
               THEN /\ read_requests' = Append(read_requests, "blocking")
                    /\ UNCHANGED m_read_timeout_session_count
               ELSE /\ m_read_timeout_session_count' =
                           m_read_timeout_session_count - 1
                    /\ UNCHANGED read_requests
            /\ \E t \in {"none", "running"} :
                   read_timer' = [read_timer EXCEPT ![reads + 1] = t]
            /\ read_messages' = IF m_read_overflow_buffers = << >>
                                THEN read_messages
                                ELSE Append(read_messages, ReadOverflow)
    /\ read_pc' = read_back
    /\ UNCHANGED <<read_callback, m_read_overflow_buffers, read_closed,
                   delivered, read_back, read_current, read_left, read_net>>

\* tcp.read with a callback; one that replaces another asks for nothing.
read_nonblocking ==
    /\ read_pc = "lua"
    /\ ~read_closed
    /\ ~read_callback
    /\ read_callback' = TRUE
    /\ read_requests' = IF m_read_error THEN read_requests
                        ELSE Append(read_requests, "nonblocking")
    /\ read_messages' = IF m_read_overflow_buffers = << >>
                        THEN read_messages
                        ELSE Append(read_messages, ReadOverflow)
    /\ UNCHANGED <<read_sessions, read_socket, read_timer, reads, delivered,
                   read_handler, read_net>>

send_read_closing == read_messages' = Append(read_messages, ReadClosing)

\* tcp.close; what has overflowed is released.
read_close ==
    /\ read_pc = "lua"
    /\ ~read_closed
    /\ read_closed' = TRUE
    /\ send_read_closing
    /\ read_requests' = Append(read_requests, "close")
    /\ m_read_overflow_buffers' = << >>
    /\ UNCHANGED <<readers, m_read_timeout_session_count, read_timer, reads,
                   delivered, read_handler, read_net>>

return_from_reader ==
    /\ read_pc = "lua"
    /\ read_pc' = read_back
    /\ UNCHANGED <<read_messages, readers, read_socket, read_timer, reads,
                   delivered, read_back, read_current, read_left, read_requests,
                   read_net>>

\* Other messages of the context run Lua code too.
other_read_message ==
    /\ read_pc = "idle"
    /\ read_pc' = "lua"
    /\ read_back' = "idle"
    /\ UNCHANGED <<read_messages, readers, read_socket, read_timer, reads,
                   delivered, read_current, read_left, read_requests, read_net>>

-----------------------------------------------------------------------------
(* Handlers of the context.                                                *)

no_reader == read_sessions = << >> /\ ~read_callback

ResumeReader(label) == read_pc' = "lua" /\ read_back' = label

\* wakeup_once: the first coroutine that waits, else the callback.
WakeupReader(label) ==
    /\ ResumeReader(label)
    /\ IF read_sessions = << >>
       THEN UNCHANGED <<read_sessions, read_timer>>
       ELSE /\ read_sessions' = Tail(read_sessions)
            /\ read_timer' = [read_timer EXCEPT ![Head(read_sessions)] = "closed"]

\* The head of wakeup_tcp_read.  On a socket that is closed every message frees the
\* callback and wakes the coroutines.
wakeup_tcp_read ==
    LET m == Head(read_messages)
    IN
    /\ read_pc = "idle"
    /\ read_messages # << >>
    /\ m[1] # "timeout"
    /\ read_messages' = Tail(read_messages)
    /\ read_current' = m
    /\ IF read_closed
       THEN /\ read_callback' = FALSE
            /\ read_left' = Len(read_sessions)
            /\ read_pc' = "wake_blocking"
            /\ UNCHANGED <<read_back, read_sessions, read_timer, delivered,
                           m_read_overflow_buffers>>
       ELSE /\ UNCHANGED <<read_left, read_callback>>
            /\ IF /\ m[1] = "buffer"
                  /\ m_read_overflow_buffers = << >>
                  /\ ~no_reader
               THEN /\ WakeupReader("idle")
                    /\ delivered' = Append(delivered, m[2])
                    /\ UNCHANGED m_read_overflow_buffers
               ELSE /\ m_read_overflow_buffers' =
                           IF m[1] = "buffer"
                           THEN Append(m_read_overflow_buffers, m[2])
                           ELSE m_read_overflow_buffers
                    /\ read_pc' = IF m[1] = "buffer" /\ m_read_overflow_buffers = << >>
                                  THEN "idle" ELSE "overflow"
                    /\ UNCHANGED <<read_back, read_sessions, read_timer, delivered>>
    /\ UNCHANGED <<m_read_timeout_session_count, read_closed, reads,
                   read_requests, read_net>>

\* The loop of wakeup_tcp_read: what has overflowed first, for as long as somebody
\* reads.
wakeup_overflow ==
    /\ read_pc = "overflow"
    /\ ~no_reader
    /\ m_read_overflow_buffers # << >>
    /\ delivered' = Append(delivered, Head(m_read_overflow_buffers))
    /\ m_read_overflow_buffers' = Tail(m_read_overflow_buffers)
    /\ WakeupReader("overflow")
    /\ UNCHANGED <<read_messages, read_callback, m_read_timeout_session_count,
                   read_closed, reads, read_current, read_left, read_requests,
                   read_net>>

\* handle_error: an error, or an announcement after one, wakes everybody.  Lua code
\* resumed by the loop may have closed the socket: its error is then read through
\* a null handle, and the process is gone.
handle_error ==
    LET asked == read_current = ReadError \/ read_current = ReadOverflow
        awake == read_current = ReadError \/ m_read_error
    IN
    /\ read_pc = "overflow"
    /\ no_reader \/ m_read_overflow_buffers = << >>
    /\ IF m_read_overflow_buffers # << >> \/ ~asked
       THEN read_pc' = "idle" /\ UNCHANGED read_left
       ELSE IF read_closed
       THEN read_pc' = "crashed" /\ UNCHANGED read_left
       ELSE IF awake
       THEN read_pc' = "wake_blocking" /\ read_left' = Len(read_sessions)
       ELSE read_pc' = "idle" /\ UNCHANGED read_left
    /\ UNCHANGED <<read_messages, readers, read_socket, read_timer, reads,
                   delivered, read_back, read_current, read_requests, read_net>>

\* wakeup_all_blocking, then the callback.
wakeup_readers ==
    /\ read_pc = "wake_blocking"
    /\ IF read_left > 0
       THEN /\ read_left' = read_left - 1
            /\ WakeupReader("wake_blocking")
       ELSE /\ IF read_callback
               THEN ResumeReader("idle")
               ELSE read_pc' = "idle" /\ UNCHANGED read_back
            /\ UNCHANGED <<read_left, read_sessions, read_timer>>
    /\ UNCHANGED <<read_messages, read_callback, read_socket, reads, delivered,
                   read_current, read_requests, read_net>>

\* read_timeout: the read ends, and leaves its demand to a later one; the count
\* changes when the coroutine has run.
read_timeout ==
    LET r == Head(read_messages)[2]
    IN
    /\ read_pc = "idle"
    /\ read_messages # << >>
    /\ Head(read_messages)[1] = "timeout"
    /\ read_messages' = Tail(read_messages)
    /\ IF read_timer[r] = "closed"
       THEN UNCHANGED <<read_timer, read_pc, read_back, read_sessions>>
       ELSE /\ read_sessions' = RemoveFirst(read_sessions, r)
            /\ read_timer' = [read_timer EXCEPT ![r] = "closed"]
            /\ ResumeReader("timed_out")
    /\ UNCHANGED <<read_callback, read_socket, reads, delivered, read_current,
                   read_left, read_requests, read_net>>

\* Mutated form of timed_out: the demand is forgotten.
timed_out_uncounted ==
    /\ read_pc = "timed_out"
    /\ read_pc' = "idle"
    /\ UNCHANGED <<read_messages, readers, read_socket, read_timer, reads,
                   delivered, read_back, read_current, read_left, read_requests,
                   read_net>>

timed_out ==
    /\ read_pc = "timed_out"
    /\ read_pc' = "idle"
    /\ m_read_timeout_session_count' = m_read_timeout_session_count + 1
    /\ UNCHANGED <<read_messages, readers, m_read_overflow_buffers, read_closed,
                   read_timer, reads, delivered, read_back, read_current,
                   read_left, read_requests, read_net>>

ReadNext ==
    \/ on_tcp_read \/ publish_read_error
    \/ \E blocking \in BOOLEAN : tcp_read(blocking)
    \/ close_read_handle
    \/ \E r \in Read : on_read_timedout(r)
    \/ read_blocking \/ read_nonblocking \/ read_close \/ return_from_reader
    \/ other_read_message
    \/ wakeup_tcp_read \/ wakeup_overflow \/ handle_error \/ wakeup_readers
    \/ read_timeout \/ timed_out

ReadSpec == ReadInit /\ [][ReadNext]_readVars

-----------------------------------------------------------------------------
ReadAnswer == ({"buffer"} \X Packet) \cup ({"timeout"} \X Read)
              \cup {ReadError, ReadOverflow, ReadClosing}

ReadTypeOK ==
    /\ read_messages \in Seq(ReadAnswer)
    /\ read_sessions \in Seq(Read)
    /\ read_callback \in BOOLEAN
    /\ m_read_timeout_session_count \in 0 .. MAX_READS
    /\ m_read_overflow_buffers \in Seq(Packet)
    /\ read_closed \in BOOLEAN
    /\ read_timer \in [Read -> {"none", "running", "expired", "closed"}]
    /\ reads \in 0 .. MAX_READS
    /\ delivered \in Seq(Packet)
    /\ read_pc \in {"lua", "idle", "overflow", "wake_blocking", "timed_out", "crashed"}
    /\ read_back \in {"idle", "overflow", "wake_blocking", "timed_out"}
    /\ read_current \in ReadAnswer
    /\ read_left \in 0 .. MAX_READS
    /\ read_requests \in Seq({"blocking", "nonblocking", "close"})
    /\ m_blocking_read_count \in 0 .. MAX_READS
    /\ m_has_noblocking_read \in BOOLEAN
    /\ m_read_cached_buffers \in Seq(Packet)
    /\ reading \in BOOLEAN
    /\ arrived \in 0 .. MAX_PACKETS
    /\ failing \in BOOLEAN
    /\ m_read_error \in BOOLEAN
    /\ read_closing \in BOOLEAN

\* The positions of the packets among messages.
BuffersIn(queue) == {i \in DOMAIN queue : queue[i][1] = "buffer"}

\* The number of the packets that have been sent to the context.
ReadSent == arrived - Len(m_read_cached_buffers)

\* Every packet read from the socket is in one place, and in the order of its
\* arrival: handed to Lua code, overflowed, on its way, or cached on the network
\* side.  None is lost, doubled or overtaken, not by an error either, however
\* demand, timeouts and the two queues of leftovers meet; only closing the socket
\* throws packets away (uv_tcp_handle.cpp:399-442, 451-478; lua_tcp_handle.cpp:1029-1083).
PacketsInOrder ==
    LET number(i) == read_messages[i][2]
        there == BuffersIn(read_messages)
        kept == Len(delivered) + Len(m_read_overflow_buffers)
    IN
    /\ ~read_closed =>
        /\ kept <= ReadSent
        /\ \A i \in DOMAIN delivered : delivered[i] = i
        /\ \A i \in DOMAIN m_read_overflow_buffers :
               m_read_overflow_buffers[i] = Len(delivered) + i
        /\ {number(i) : i \in there} = kept + 1 .. ReadSent
        /\ \A i, j \in there : i < j => number(i) < number(j)
        /\ \A i \in DOMAIN m_read_cached_buffers :
               m_read_cached_buffers[i] = ReadSent + i
    /\ \A i \in DOMAIN read_messages, j \in there : read_messages[i] = ReadError => j < i

\* The context has nothing to do, and nothing is under way between the threads.
ReadQuiet ==
    /\ read_pc = "idle"
    /\ read_messages = << >>
    /\ read_requests = << >>
    /\ ~failing

\* Nobody waits for a packet that is there: while somebody reads a socket without
\* an error, the network side reads it too, and no packet is kept back.  The
\* demand of reads that timed out, which later reads count on, is still there
\* (lua_tcp_handle.cpp:759-797).
ReaderServed ==
    ReadQuiet /\ ~read_closed /\ ~m_read_error /\ ~no_reader =>
        /\ reading
        /\ m_read_cached_buffers = << >>
        /\ m_read_overflow_buffers = << >>

\* Blocking reads, until a callback is set: the packets that the network side will
\* send, has sent, or that nobody has read are as many as the reads that wait for
\* one and those that timed out.  One too few and a read waits for ever, one too
\* many and packets of a peer that nobody reads pile up (uv_tcp_handle.h:122-123:
\* "maybe not so precise only if" reads without blocking have been started).
DemandPrecise ==
    (/\ ~read_closed /\ ~read_callback /\ ~failing /\ ~m_read_error
     /\ read_pc # "timed_out" /\ (read_pc = "lua" => read_back # "timed_out"))
        => Len(read_requests) + m_blocking_read_count + (ReadSent - Len(delivered))
               = Len(read_sessions) + m_read_timeout_session_count

\* A coroutine that reads a socket does not wait after the socket is closed, by
\* itself or by another coroutine of the context.
ClosedReadersWoken == ReadQuiet /\ read_closed => no_reader

\* Readers get the packets in the order they arrived.  No reader waits for what is
\* there, or at a socket that is closed, and the demand at the network thread is that
\* of the readers (uv_tcp_handle.cpp:399-478, lua_tcp_handle.cpp:719-797, 1029-1108).
ReadsExact ==
    ReadTypeOK /\ PacketsInOrder /\ ReaderServed /\ ClosedReadersWoken /\ DemandPrecise

\* "error already occurred in network thread, stop read immediately"
\* (lua_tcp_handle.cpp:735): a coroutine never waits, without a timeout, for a
\* packet of a socket whose error is known.
ReadErrorReported ==
    ReadQuiet /\ m_read_error /\ ~read_closed =>
        \A i \in DOMAIN read_sessions : read_timer[read_sessions[i]] # "none"

\* Closing a socket from the coroutine that reads it closes "the tcp socket
\* directly" (src/README.md:157), and nothing else.
CloseIsSafe == read_pc # "crashed"
=============================================================================
