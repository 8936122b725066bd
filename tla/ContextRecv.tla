----------------------------- MODULE ContextRecv -----------------------------
(***************************************************************************)
(* The receiving side of context.send and context.query: context.recv of   *)
(* one Lua context, which blocks, with or without a timeout, or leaves a   *)
(* callback, for one source or for any (context_lua.cpp).  Its calls are   *)
(* kept by source in ref_sessions_t objects (ref_sessions.cpp), which      *)
(* m_context_recv_sessions maps, caches and reuses (ref_sessions_mgr.cpp). *)
(*                                                                         *)
(* A handler that resumes Lua code keeps the object in which it found the  *)
(* call, and goes on with it afterwards (check_sessions).  The code may    *)
(* have had the object cached meanwhile, by context.recv(source, nil), and *)
(* called context.recv again, for this source or for another one.          *)
(*                                                                         *)
(* Queries come at any time, from every source, and timers expire at any   *)
(* time; other sessions keep the context active.  A session is identified  *)
(* by the call that created it, as in ContextWait.                         *)
(***************************************************************************)
EXTENDS Integers, Sequences, FiniteSets, SequencesExt

CONSTANTS Source,                  \* contexts that send
          MAX_RECVS,               \* bound on the calls of context.recv
          REF_SESSIONS_CACHE_MAX   \* objects kept for reuse

RecvAssumption ==
    MAX_RECVS \in Nat /\ REF_SESSIONS_CACHE_MAX \in Nat \ {0}

ANY    == 0                        \* the handle that names every source
Handle == Source \cup {ANY}
Recv   == 1 .. MAX_RECVS
Object == 1 .. MAX_RECVS           \* every new object serves a new call
NIL    == 0                        \* LUA_REFNIL, and the null pointers

VARIABLES
    m_sessions_map,          \* handle -> object
    m_cached_sessions,
    m_nonblocking_ref, m_blocking_sessions,   \* of each object
    m_ref_session,           \* session -> the call it resumes
    m_ref_session_count,     \* sessions of calls of context.recv
    pc,                      \* "idle"; "lua"; "check" at check_sessions
    held,                    \* the handle and the object of the handler
    astray,                  \* it has gone on with an object not its handle's
    recv,                    \* what became of each call of context.recv
    recvs                    \* number of these calls

objects == <<m_sessions_map, m_cached_sessions, m_nonblocking_ref,
             m_blocking_sessions>>
recvVars == <<objects, m_ref_session, m_ref_session_count, pc, held, astray, recv,
              recvs>>

Nothing == [id |-> ANY, object |-> NIL]
Unused == [id |-> ANY, blocking |-> FALSE, timer |-> "none", status |-> "unused"]

\* The context has been created and runs its Lua file.
RecvInit ==
    /\ m_sessions_map = [h \in Handle |-> NIL]
    /\ m_cached_sessions = << >>
    /\ m_nonblocking_ref = [o \in Object |-> NIL]
    /\ m_blocking_sessions = [o \in Object |-> << >>]
    /\ m_ref_session = [s \in Recv |-> NIL]
    /\ m_ref_session_count = 0
    /\ pc = "lua"
    /\ held = Nothing
    /\ astray = FALSE
    /\ recv = [r \in Recv |-> Unused]
    /\ recvs = 0

-----------------------------------------------------------------------------
(* ref_sessions_t and ref_sessions_mgr_t.                                    *)

EmptyObject(o) == m_nonblocking_ref[o] = NIL /\ m_blocking_sessions[o] = << >>

\* An object that is neither mapped nor cached nor in use.
Fresh == CHOOSE o \in Object : o \notin Range(m_sessions_map)
                                        \cup Range(m_cached_sessions)
                                        \cup {held.object}

\* make_sessions: the object mapped for h, else the last one cached, else a new
\* one.
MakeSessions(h) ==
    IF m_sessions_map[h] # NIL THEN m_sessions_map[h]
    ELSE IF m_cached_sessions # << >> THEN Last(m_cached_sessions)
    ELSE Fresh

MapSessions(h) ==
    /\ m_sessions_map' = [m_sessions_map EXCEPT ![h] = MakeSessions(h)]
    /\ m_cached_sessions' = IF m_sessions_map[h] = NIL /\ m_cached_sessions # << >>
                            THEN Front(m_cached_sessions)
                            ELSE m_cached_sessions

\* put_cached_sessions: a full cache loses its last object for the new one.
PutCached(o) ==
    LET kept == IF Len(m_cached_sessions) < REF_SESSIONS_CACHE_MAX
                THEN m_cached_sessions ELSE Front(m_cached_sessions)
    IN m_cached_sessions' = Append(kept, o)

\* Mutated form of CheckSessions: an object that is empty is cached, mapped or not.
CheckSessionsTwice(h, o, empty) ==
    IF empty
    THEN m_sessions_map' = [m_sessions_map EXCEPT ![h] = NIL] /\ PutCached(o)
    ELSE UNCHANGED <<m_sessions_map, m_cached_sessions>>

\* check_sessions(h, o), where empty says whether o is.
CheckSessions(h, o, empty) ==
    IF empty /\ m_sessions_map[h] # NIL
    THEN m_sessions_map' = [m_sessions_map EXCEPT ![h] = NIL] /\ PutCached(o)
    ELSE UNCHANGED <<m_sessions_map, m_cached_sessions>>

\* The call r ends; its timer, if any, is closed.
Ended(r, status) == [recv EXCEPT ![r].status = status, ![r].timer = "closed"]

\* wakeup_ref_session, for a session that exists: that of a coroutine is freed, with
\* its timer; that of a callback is kept.  Lua code runs.
WakeupRefSession(s, status) ==
    /\ IF recv[m_ref_session[s]].blocking
       THEN /\ recv' = Ended(m_ref_session[s], status)
            /\ m_ref_session' = [m_ref_session EXCEPT ![s] = NIL]
            /\ m_ref_session_count' = m_ref_session_count - 1
       ELSE UNCHANGED <<recv, m_ref_session, m_ref_session_count>>
    /\ pc' = "lua"

-----------------------------------------------------------------------------
(* Lua code: the environment.                                                *)

\* Lua code has returned or yielded to the handler that resumed it.
Return == pc' = IF held.object # NIL THEN "check" ELSE "idle"

\* The entry of a new call.
Enter(h, blocking, timer) ==
    [id |-> h, blocking |-> blocking, timer |-> timer, status |-> "pending"]

\* context.recv(h [, timeout]): the coroutine yields, and its session is pushed.
recv_blocking(h, timer) ==
    LET r == recvs + 1
        o == MakeSessions(h)
    IN
    /\ pc = "lua"
    /\ r \in Recv
    /\ recvs' = r
    /\ recv' = [recv EXCEPT ![r] = Enter(h, TRUE, timer)]
    /\ MapSessions(h)
    /\ m_blocking_sessions' = [m_blocking_sessions EXCEPT ![o] = Append(@, r)]
    /\ m_ref_session' = [m_ref_session EXCEPT ![r] = r]
    /\ m_ref_session_count' = m_ref_session_count + 1
    /\ Return
    /\ UNCHANGED <<m_nonblocking_ref, held, astray>>

\* context.recv(h, callback): a new session for the first callback; a later one
\* replaces it under the same session (lua_ref_callback).
recv_callback(h) ==
    LET r == recvs + 1
        o == MakeSessions(h)
        s == IF m_nonblocking_ref[o] = NIL THEN r ELSE m_nonblocking_ref[o]
    IN
    /\ pc = "lua"
    /\ r \in Recv
    /\ recvs' = r
    /\ recv' = [(IF s = r THEN recv ELSE Ended(m_ref_session[s], "replaced"))
                   EXCEPT ![r] = Enter(h, FALSE, "none")]
    /\ MapSessions(h)
    /\ m_nonblocking_ref' = [m_nonblocking_ref EXCEPT ![o] = s]
    /\ m_ref_session' = [m_ref_session EXCEPT ![s] = r]
    /\ m_ref_session_count' = m_ref_session_count + (IF s = r THEN 1 ELSE 0)
    /\ UNCHANGED <<m_blocking_sessions, pc, held, astray>>

\* context.recv(h, nil): the callback for h, if there is one, is freed; its object,
\* if there is one, is looked at in any case.
recv_nil(h) ==
    LET o == m_sessions_map[h]
        s == m_nonblocking_ref[o]
    IN
    /\ pc = "lua"
    /\ o # NIL
    /\ IF s = NIL
       THEN UNCHANGED <<m_nonblocking_ref, m_ref_session, m_ref_session_count, recv>>
       ELSE /\ m_nonblocking_ref' = [m_nonblocking_ref EXCEPT ![o] = NIL]
            /\ m_ref_session' = [m_ref_session EXCEPT ![s] = NIL]
            /\ m_ref_session_count' = m_ref_session_count - 1
            /\ recv' = Ended(m_ref_session[s], "freed")
    /\ CheckSessions(h, o, m_blocking_sessions[o] = << >>)
    /\ UNCHANGED <<m_blocking_sessions, pc, held, astray, recvs>>

\* The Lua code that runs returns, or yields for a reason of its own.
lua_ends ==
    /\ pc = "lua"
    /\ Return
    /\ UNCHANGED <<objects, m_ref_session, m_ref_session_count, held, astray, recv,
                   recvs>>

LuaCode ==
    \/ \E h \in Handle, timer \in {"none", "running"} : recv_blocking(h, timer)
    \/ \E h \in Handle : recv_callback(h) \/ recv_nil(h)
    \/ lua_ends

-----------------------------------------------------------------------------
(* on_received.                                                              *)

\* wakeup_once finds a call for handle h: a coroutine, else the callback.
Waits(h) == m_sessions_map[h] # NIL /\ ~EmptyObject(m_sessions_map[h])

\* response_context_query: a call that names the source h of the query gets it, else
\* one that names any.  (Without either the query is answered: ContextQuery.)
response_context_query(h) ==
    LET i == IF Waits(h) THEN h ELSE ANY
        o == m_sessions_map[i]
        blocking == m_blocking_sessions[o]
    IN
    /\ pc = "idle"
    /\ Waits(i)
    /\ held' = [id |-> i, object |-> o]
    /\ IF blocking # << >>
       THEN /\ m_blocking_sessions' = [m_blocking_sessions EXCEPT ![o] = Tail(@)]
            /\ WakeupRefSession(Head(blocking), "message")
       ELSE /\ WakeupRefSession(m_nonblocking_ref[o], "message")
            /\ UNCHANGED m_blocking_sessions
    /\ UNCHANGED <<m_sessions_map, m_cached_sessions, m_nonblocking_ref, astray, recvs>>

\* A timer expires.
on_recv_timedout(r) ==
    /\ recv[r].timer = "running"
    /\ recv' = [recv EXCEPT ![r].timer = "expired"]
    /\ UNCHANGED <<objects, m_ref_session, m_ref_session_count, pc, held, astray, recvs>>

\* Mutated form of context_recv_timeout: the session stays in the object.
context_recv_timeout_kept(r) ==
    LET h == recv[r].id
        o == m_sessions_map[h]
    IN
    /\ pc = "idle"
    /\ recv[r].timer = "expired"
    /\ o # NIL
    /\ Contains(m_blocking_sessions[o], r)
    /\ held' = [id |-> h, object |-> o]
    /\ WakeupRefSession(r, "NL_ETIMEOUT")
    /\ UNCHANGED <<objects, astray, recvs>>

\* context_recv_timeout, of a timer that has expired and is not closed:
\* wakeup_one_fixed takes the session out of the object, wherever it is.
context_recv_timeout(r) ==
    LET h == recv[r].id
        o == m_sessions_map[h]
    IN
    /\ pc = "idle"
    /\ recv[r].timer = "expired"
    /\ o # NIL
    /\ Contains(m_blocking_sessions[o], r)
    /\ held' = [id |-> h, object |-> o]
    /\ m_blocking_sessions' = [m_blocking_sessions EXCEPT ![o] = RemoveFirst(@, r)]
    /\ WakeupRefSession(r, "NL_ETIMEOUT")
    /\ UNCHANGED <<m_sessions_map, m_cached_sessions, m_nonblocking_ref, astray, recvs>>

\* The object that is held has been deleted, or it is empty and its handle has another
\* one, which is erased in its place, while this one is cached, maybe again.
Astray ==
    LET o == held.object
        own == m_sessions_map[held.id]
    IN \/ o \notin Range(m_sessions_map) \cup Range(m_cached_sessions)
       \/ own \notin {o, NIL} /\ EmptyObject(o)

\* The end of wakeup_once and of wakeup_one_fixed.
check_sessions ==
    LET o == held.object
    IN
    /\ pc = "check"
    /\ CheckSessions(held.id, o, EmptyObject(o))
    /\ held' = Nothing
    /\ astray' = (astray \/ Astray)
    /\ pc' = "idle"
    /\ UNCHANGED <<m_nonblocking_ref, m_blocking_sessions, m_ref_session,
                   m_ref_session_count, recv, recvs>>

\* Any other message: Lua code that waits for it runs.
response_other ==
    /\ pc = "idle"
    /\ pc' = "lua"
    /\ UNCHANGED <<objects, m_ref_session, m_ref_session_count, held, astray, recv,
                   recvs>>

RecvNext ==
    \/ LuaCode
    \/ \E h \in Source : response_context_query(h)
    \/ \E r \in Recv : on_recv_timedout(r) \/ context_recv_timeout(r)
    \/ check_sessions \/ response_other

RecvSpec == RecvInit /\ [][RecvNext]_recvVars

-----------------------------------------------------------------------------
RecvTypeOK ==
    /\ m_sessions_map \in [Handle -> Object \cup {NIL}]
    /\ m_cached_sessions \in Seq(Object)
    /\ m_nonblocking_ref \in [Object -> Recv \cup {NIL}]
    /\ m_blocking_sessions \in [Object -> Seq(Recv)]
    /\ m_ref_session \in [Recv -> Recv \cup {NIL}]
    /\ m_ref_session_count \in Int
    /\ pc \in {"idle", "lua", "check"}
    /\ held \in [id : Handle, object : Object \cup {NIL}]
    /\ astray \in BOOLEAN
    /\ recv \in [Recv -> [id : Handle, blocking : BOOLEAN,
                          timer : {"none", "running", "expired", "closed"},
                          status : {"unused", "pending", "message", "NL_ETIMEOUT",
                                    "replaced", "freed"}]]
    /\ recvs \in 0 .. MAX_RECVS

\* The sessions kept for handle h: those of coroutines in their order, and that of
\* the callback.
Kept(h) ==
    LET o == m_sessions_map[h]
    IN IF o = NIL THEN << >>
       ELSE m_blocking_sessions[o]
            \o SelectSeq(<<m_nonblocking_ref[o]>>, LAMBDA s : s # NIL)

\* A call of context.recv waits for its source, once, until it has ended, and nothing
\* else does: through every reuse of objects, and while Lua code that a handler has
\* resumed receives and frees callbacks, until a handler has gone on with an object that
\* is not its handle's any more, by which a call can be lost.  Whatever happens, no timer
\* outlives its call, and the sessions are as many as are counted, which decides when the
\* context ends (ref_sessions.cpp; ref_sessions_mgr.cpp:12-19, 70-91, 103-152;
\* context_lua.cpp:808-818, 1206-1270).
RecvsExact ==
    /\ RecvTypeOK
    /\ \A r \in Recv :
          recv[r].timer \in {"running", "expired"} => recv[r].status = "pending"
    /\ m_ref_session_count = Cardinality({r \in Recv : recv[r].status = "pending"})
    /\ ~astray =>
          \A h \in Handle :
             /\ IsInjective(Kept(h))
             /\ {m_ref_session[s] : s \in Range(Kept(h))} =
                    {r \in Recv : recv[r].status = "pending" /\ recv[r].id = h}
=============================================================================
