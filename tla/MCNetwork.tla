------------------------------ MODULE MCNetwork ------------------------------
(***************************************************************************)
(* Model of what lies between contexts and sockets: the message queue of a *)
(* context (MessageQueue), by which the network thread answers, the pipe   *)
(* of the requests, and reading, listening, writing, the life of handles,  *)
(* the callbacks of timers and datagram sockets, and the framing of        *)
(* packets.  The parts share nothing, so a behaviour moves one of them,    *)
(* chosen at the start, and leaves the others as they begin.               *)
(*                                                                         *)
(* Integers of the queue have 4 bits: capacities 2, 4 and 8, after which   *)
(* the shift overflows to 0 and a push is refused.                         *)
(***************************************************************************)
EXTENDS MessageQueue, RequestPipe, TcpRead, TcpListen, SocketWrite, Handles,
        Callbacks, Bitwise

\* The two arithmetic operators are the C expressions they stand for, on every
\* capacity the queue can have: the mask, and the shift in a uint32_t.
ASSUME ArithmeticIsC ==
    \A k \in 0 .. 3 : LET cap == 2^k IN
        /\ \A x \in 0 .. 2 * cap - 1 : Wrap(x, cap) = (x & (cap - 1))
        /\ DoubleCap(cap) = (2 * cap) % UintRange

CONSTANTS
    BASE, MAX_SENT, MAX_LENGTH, SHARED_READ_BUFFER_SIZE,         \* Framing
    LARGE_UNCOMPLETE_LIMIT, Maxes

VARIABLES
    which,               \* the part that moves
    \* Framing
    option, f_sent, wire, shut, chunk, m_read_head_buffer, m_read_buffer,
    f_read_error, received

framingVars == <<option, f_sent, wire, shut, chunk, m_read_head_buffer,
    m_read_buffer, f_read_error, received>>

F == INSTANCE Framing WITH sent <- f_sent, m_read_error <- f_read_error

ASSUME PartsAssumption == F!FramingAssumption

Parts == {"queue", "requests", "read", "listen", "write", "handles", "callbacks",
          "framing"}

NetworkInit ==
    /\ which \in Parts
    /\ Init /\ RequestPipeInit /\ ReadInit /\ ListenInit /\ SocketWriteInit /\ HandlesInit
    /\ CallbacksInit /\ F!Init
    /\ which = "write" \/ kind = "tcp"
    /\ which = "framing" \/ option = CHOOSE o \in F!HeadOptions : TRUE

NetworkNext ==
    \/ /\ which = "queue" /\ Next
       /\ UNCHANGED <<which, requestPipeVars, readVars, listenVars, socketWriteVars,
                      handlesVars, callbackVars, framingVars>>
    \/ /\ which = "requests" /\ RequestPipeNext
       /\ UNCHANGED <<which, vars, readVars, listenVars, socketWriteVars, handlesVars,
                      callbackVars, framingVars>>
    \/ /\ which = "read" /\ ReadNext
       /\ UNCHANGED <<which, vars, requestPipeVars, listenVars, socketWriteVars,
                      handlesVars, callbackVars, framingVars>>
    \/ /\ which = "listen" /\ ListenNext
       /\ UNCHANGED <<which, vars, requestPipeVars, readVars, socketWriteVars,
                      handlesVars, callbackVars, framingVars>>
    \/ /\ which = "write" /\ SocketWriteNext
       /\ UNCHANGED <<which, vars, requestPipeVars, readVars, listenVars,
                      handlesVars, callbackVars, framingVars>>
    \/ /\ which = "handles" /\ HandlesNext
       /\ UNCHANGED <<which, vars, requestPipeVars, readVars, listenVars,
                      socketWriteVars, callbackVars, framingVars>>
    \/ /\ which = "callbacks" /\ CallbacksNext
       /\ UNCHANGED <<which, vars, requestPipeVars, readVars, listenVars,
                      socketWriteVars, handlesVars, framingVars>>
    \/ /\ which = "framing" /\ F!Next
       /\ UNCHANGED <<which, vars, requestPipeVars, readVars, listenVars,
                      socketWriteVars, handlesVars, callbackVars>>

NetworkVars == <<which, vars, requestPipeVars, readVars, listenVars, socketWriteVars,
                 handlesVars, callbackVars, framingVars>>

NetworkSpec == NetworkInit /\ [][NetworkNext]_NetworkVars

-----------------------------------------------------------------------------
\* Framing: packets arrive whole, in order and unchanged.
PacketsIntact == which = "framing" => F!TypeOK /\ F!PacketsIntact
=============================================================================
