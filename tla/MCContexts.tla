------------------------------ MODULE MCContexts ------------------------------
(***************************************************************************)
(* Model of the registry of contexts (ContextMgr) and of what contexts     *)
(* share or send each other: buffers and the binary data packed into them, *)
(* messages and the data they own, tables packed into messages, the        *)
(* coroutines in which they wait for an answer, and the objects that keep  *)
(* the calls of context.wait and context.recv.  The parts share nothing,   *)
(* so a behaviour moves one of them, chosen at the start, and leaves the   *)
(* others as they begin.  Contexts other than the logger are               *)
(* interchangeable; the logger stands for the context that waits for the   *)
(* others and receives from them.                                          *)
(***************************************************************************)
EXTENDS ContextMgr, Buffer, Coroutine, Messages

CONSTANTS
    NB, SZINT, MAXINTSIZE, MAXALIGN, PREFIX,                    \* BufferPack
    DEPTH_LIMIT, MAX_NESTED, MAX_ITEMS,                         \* TablePack
    MAX_CALLS                                  \* ContextWait, ContextRecv

VARIABLES
    which,                    \* the part that moves
    \* BufferPack
    fmt, start, bytes, phase, results,
    \* TablePack
    value, pack, unpacked,
    \* ContextWait or ContextRecv
    m_sessions_map, m_cached_sessions, m_nonblocking_ref, m_blocking_sessions,
    m_ref_session, m_ref_session_count, at, call, calls,
    \* ContextWait
    valid, m_message_queue, m_context_wait_handles, other, back, waking, out, cancels,
    \* ContextRecv
    held, astray

packVars == <<fmt, start, bytes, phase, results>>
tableVars == <<value, pack, unpacked>>
callVars == <<m_sessions_map, m_cached_sessions, m_nonblocking_ref, m_blocking_sessions,
              m_ref_session, m_ref_session_count, at, call, calls>>
waitVars == <<valid, m_message_queue, m_context_wait_handles, other, back, waking, out,
              cancels>>
recvVars == <<held, astray>>

Caller == Logger
Others == Context \ {Logger}

P == INSTANCE BufferPack
T == INSTANCE TablePack WITH BITS <- <<2, 3, 4, 5>>
W == INSTANCE ContextWait WITH
    Awaits <- {Caller} \X Others, Killed <- Others, MAX_WAITS <- MAX_CALLS,
    REF_SESSIONS_CACHE_MAX <- 1, pc <- at, wait <- call
R == INSTANCE ContextRecv WITH
    Source <- Others, MAX_RECVS <- MAX_CALLS, REF_SESSIONS_CACHE_MAX <- 2,
    pc <- at, recv <- call, recvs <- calls

ASSUME PartsAssumption ==
    /\ P!BufferPackAssumption /\ T!TablePackAssumption
    /\ W!WaitAssumption /\ R!RecvAssumption

\* The parts of the registry, of buffers, of messages and of coroutines begin as ever,
\* and stay so; those of a part that does not move are left out.
ContextsInit ==
    /\ which \in {"registry", "buffers", "packing", "messages", "tables", "coroutines",
                 "waits", "receives"}
    /\ Init /\ BufferInit /\ MessagesInit /\ CoroutineInit
    /\ pack = << >> /\ unpacked = << >>
    /\ IF which = "tables" THEN T!Init ELSE value = T!Integer(0)
    /\ IF which = "packing" THEN P!Init
       ELSE /\ fmt = << >> /\ start = 0 /\ bytes = << >> /\ phase = "new"
            /\ results = P!Results(FALSE, << >>, 0)
    /\ IF which = "waits" THEN W!Init
       ELSE /\ valid = << >> /\ m_message_queue = << >> /\ m_context_wait_handles = << >>
            /\ other = << >> /\ back = << >> /\ waking = << >> /\ out = << >>
            /\ cancels = << >>
    /\ IF which = "receives" THEN R!RecvInit ELSE held = << >> /\ astray = FALSE
    /\ which \notin {"waits", "receives"} =>
           /\ m_sessions_map = << >> /\ m_cached_sessions = << >>
           /\ m_nonblocking_ref = << >> /\ m_blocking_sessions = << >>
           /\ m_ref_session = << >> /\ m_ref_session_count = 0
           /\ at = "idle" /\ call = << >> /\ calls = 0

\* The bounds of the waits: none has a timeout, the caller's Lua code runs at the start
\* and when it is woken, a context ends only when it is told to, and nothing is followed
\* once a wake-up has gone astray.
WaitsNext ==
    /\ ~waking[Caller].astray
    /\ \E c \in Context : W!Step(c) \/ W!response_destroy(c)
    /\ \A w \in 1 .. MAX_CALLS : call'[w].timer # "unset"
    /\ \A c \in Context : valid'[c] /\ at'[c] = "idle" => W!IsActive(c)'

ContextsNext ==
    /\ UNCHANGED which
    /\ \/ /\ which = "registry" /\ Next
          /\ UNCHANGED <<bufferVars, packVars, messageVars, tableVars, coroutineVars,
                         callVars, waitVars, recvVars>>
       \/ /\ which = "buffers" /\ BufferNext
          /\ UNCHANGED <<vars, packVars, messageVars, tableVars, coroutineVars, callVars,
                         waitVars, recvVars>>
       \/ /\ which = "packing" /\ P!Next
          /\ UNCHANGED <<vars, bufferVars, messageVars, tableVars, coroutineVars, callVars,
                         waitVars, recvVars>>
       \/ /\ which = "messages" /\ MessagesNext
          /\ UNCHANGED <<vars, bufferVars, packVars, tableVars, coroutineVars, callVars,
                         waitVars, recvVars>>
       \/ /\ which = "tables" /\ T!Next
          /\ UNCHANGED <<vars, bufferVars, packVars, messageVars, coroutineVars, callVars,
                         waitVars, recvVars>>
       \/ /\ which = "coroutines" /\ CoroutineNext
          /\ UNCHANGED <<vars, bufferVars, packVars, messageVars, tableVars, callVars,
                         waitVars, recvVars>>
       \/ /\ which = "waits" /\ WaitsNext
          /\ UNCHANGED <<vars, bufferVars, packVars, messageVars, tableVars, coroutineVars,
                         recvVars>>
       \/ /\ which = "receives" /\ R!RecvNext
          /\ UNCHANGED <<vars, bufferVars, packVars, messageVars, tableVars, coroutineVars,
                         waitVars>>

ContextsVars == <<which, vars, bufferVars, packVars, messageVars, tableVars,
                  coroutineVars, callVars, waitVars, recvVars>>

ContextsSpec == ContextsInit /\ [][ContextsNext]_ContextsVars

Symmetry == Permutations(Others)

-----------------------------------------------------------------------------
\* The properties of the parts, which their modules explain.  The first of each
\* part includes its type invariant.

\* TablePack and BufferPack: a packed table, and binary data packed into a buffer,
\* are unpacked as they were.
RoundTrip ==
    /\ which = "tables" => T!RoundTrip
    /\ which = "packing" => P!PackRoundTrip

\* ContextWait and ContextRecv: while objects pass from one context to another, a call
\* of context.wait or context.recv is kept for the context it names, once, until it has
\* ended, and that context knows whether it is waited for; until a handler has gone on
\* with an object that the Lua code it resumed has emptied and used again, or that has
\* been deleted (ref_sessions_mgr.cpp:12-19, 70-152; context_lua.cpp:760-783, 808-838,
\* 1206-1364).
CallersKept ==
    /\ which = "waits" => W!WaitersExact
    /\ which = "receives" => R!RecvsExact
=============================================================================
