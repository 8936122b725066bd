----------------------------- MODULE ContextWait -----------------------------
(***************************************************************************)
(* context.wait: a Lua context waits for other contexts to end, with a     *)
(* coroutine that blocks or with a callback, with or without a timeout     *)
(* (context_lua.cpp).  The waits of a context are kept, by the awaited     *)
(* context, in ref_sessions_t objects (ref_sessions.cpp) that a            *)
(* ref_sessions_mgr_t maps, caches and reuses (ref_sessions_mgr.cpp).      *)
(*                                                                         *)
(* A context handles its messages in order, one at a time (Scheduler, with *)
(* MessageQueue).  A handler is split where another context can interfere, *)
(* at each context_send: validity is checked first, the message pushed     *)
(* later.  It is also split where it resumes Lua code, which may call      *)
(* context.wait again before the handler goes on.                          *)
(*                                                                         *)
(* Contexts end when nothing keeps them active or when they are told to.   *)
(* A session is identified by the wait that created it: session numbers do *)
(* not wrap here.                                                          *)
(***************************************************************************)
EXTENDS Integers, Sequences, FiniteSets, Functions

CONSTANTS Context,                 \* Lua contexts
          Awaits,                  \* the pairs <<c, d>> such that c may wait for d
          Killed,                  \* the contexts that may be told to end
          MAX_WAITS,               \* bound on the calls of context.wait
          REF_SESSIONS_CACHE_MAX   \* objects kept for reuse

ASSUME WaitAssumption ==
    /\ IsFiniteSet(Context)
    /\ Awaits \subseteq {p \in Context \X Context : p[1] # p[2]}
    /\ Killed \subseteq Context
    /\ MAX_WAITS \in Nat
    /\ REF_SESSIONS_CACHE_MAX \in Nat \ {0}

Wait   == 1 .. MAX_WAITS
Object == 1 .. MAX_WAITS      \* every new object serves a new wait
NIL    == 0                   \* LUA_REFNIL, and the null pointers
NoContext == << >>

VARIABLES
    valid,                   \* the context is inited and registered
    m_message_queue,
    m_context_wait_handles,  \* the contexts that wait for this one
    m_sessions_map,          \* awaited context -> object
    m_cached_sessions,
    m_nonblocking_ref, m_blocking_sessions,   \* of each object
    m_ref_session,           \* session -> the wait it resumes
    m_ref_session_count,     \* sessions of waits
    other,                   \* sessions of anything else keep it active
    pc, back,                \* where the handler is; where Lua code returns to
    waking,                  \* the id, object and count of a wake-up under way, and
                             \* whether one has gone on with an object not its own
    out,                     \* the message about to be pushed, and what follows
    cancels,                 \* deinit: the waits still to be cancelled
    wait,                    \* what became of each call of context.wait
    calls                    \* number of these calls

sessionVars == <<m_sessions_map, m_cached_sessions, m_nonblocking_ref,
                 m_blocking_sessions, m_ref_session, m_ref_session_count, wait>>
vars == <<valid, m_message_queue, m_context_wait_handles, sessionVars, other,
          pc, back, waking, out, cancels, calls>>

Asleep == [id |-> NoContext, object |-> NIL, left |-> 0, astray |-> FALSE]
Nothing == [to |-> NoContext, message |-> << >>, next |-> "idle"]
Unused == [caller |-> NoContext, id |-> NoContext, blocking |-> FALSE,
           timer |-> "none", status |-> "unused"]

\* Every context has been created and runs its Lua file.
Init ==
    /\ valid = [c \in Context |-> TRUE]
    /\ m_message_queue = [c \in Context |-> << >>]
    /\ m_context_wait_handles = [c \in Context |-> {}]
    /\ m_sessions_map = [c \in Context |-> [d \in Context |-> NIL]]
    /\ m_cached_sessions = [c \in Context |-> << >>]
    /\ m_nonblocking_ref = [c \in Context |-> [o \in Object |-> NIL]]
    /\ m_blocking_sessions = [c \in Context |-> [o \in Object |-> << >>]]
    /\ m_ref_session = [s \in Wait |-> NIL]
    /\ m_ref_session_count = [c \in Context |-> 0]
    /\ other = [c \in Context |-> FALSE]
    /\ pc = [c \in Context |-> "lua"]
    /\ back = [c \in Context |-> "idle"]
    /\ waking = [c \in Context |-> Asleep]
    /\ out = [c \in Context |-> Nothing]
    /\ cancels = [c \in Context |-> {}]
    /\ wait = [w \in Wait |-> Unused]
    /\ calls = 0

Goto(c, label) == pc' = [pc EXCEPT ![c] = label]

\* context_send: a context that is not valid is not sent to.
CallSend(c, to, message, label) ==
    IF valid[to]
    THEN /\ out' = [out EXCEPT ![c] = [to |-> to, message |-> message,
                                       next |-> label]]
         /\ Goto(c, "push")
    ELSE Goto(c, label) /\ UNCHANGED out

\* The push, whatever happened to the receiver since the check.  The push of a
\* LUA_CTX_WAIT is part of push_wait below.
push(c) ==
    /\ pc[c] = "push"
    /\ m_message_queue' = [m_message_queue EXCEPT ![out[c].to] =
                               Append(@, out[c].message)]
    /\ Goto(c, out[c].next)
    /\ out' = [out EXCEPT ![c] = Nothing]
    /\ UNCHANGED <<valid, m_context_wait_handles, sessionVars, other, back,
                   waking, cancels, calls>>

-----------------------------------------------------------------------------
(* ref_sessions_t and ref_sessions_mgr_t.                                    *)

EmptyObject(c, o) == /\ m_nonblocking_ref[c][o] = NIL
                     /\ m_blocking_sessions[c][o] = << >>

\* The sessions that object o of context c keeps.
Held(c, o) == Range(m_blocking_sessions[c][o]) \cup {m_nonblocking_ref[c][o]}

\* is_empty: nobody of context c waits for context d.
NoWaits(c, d) ==
    m_sessions_map[c][d] # NIL => EmptyObject(c, m_sessions_map[c][d])

\* An object that is neither mapped nor cached nor in use.
Fresh(c) == CHOOSE o \in Object :
    /\ \A d \in Context : m_sessions_map[c][d] # o
    /\ o \notin Range(m_cached_sessions[c])
    /\ waking[c].object # o

\* make_sessions: the object mapped for d, else the last one cached, else a new
\* one.
MakeSessions(c, d) ==
    IF m_sessions_map[c][d] # NIL THEN m_sessions_map[c][d]
    ELSE IF m_cached_sessions[c] # << >>
         THEN m_cached_sessions[c][Len(m_cached_sessions[c])]
         ELSE Fresh(c)

MapSessions(c, d) ==
    /\ m_sessions_map' = [m_sessions_map EXCEPT ![c][d] = MakeSessions(c, d)]
    /\ m_cached_sessions' =
           [m_cached_sessions EXCEPT ![c] =
               IF m_sessions_map[c][d] = NIL /\ @ # << >>
               THEN SubSeq(@, 1, Len(@) - 1)
               ELSE @]

\* put_cached_sessions: a full cache loses its last object for the new one.
PutCached(cache, o) ==
    Append(SubSeq(cache, 1, IF Len(cache) < REF_SESSIONS_CACHE_MAX
                            THEN Len(cache) ELSE Len(cache) - 1), o)

\* Mutated form of CheckSessions: the cache gets what is mapped after the erasure.
CheckSessionsCachesNull(c, d, o, empty) ==
    IF empty /\ m_sessions_map[c][d] # NIL
    THEN /\ m_sessions_map' = [m_sessions_map EXCEPT ![c][d] = NIL]
         /\ m_cached_sessions' = [m_cached_sessions EXCEPT ![c] =
                                      PutCached(@, NIL)]
    ELSE UNCHANGED <<m_sessions_map, m_cached_sessions>>

\* check_sessions(d, o), where empty says whether o is.
CheckSessions(c, d, o, empty) ==
    IF empty /\ m_sessions_map[c][d] # NIL
    THEN /\ m_sessions_map' = [m_sessions_map EXCEPT ![c][d] = NIL]
         /\ m_cached_sessions' = [m_cached_sessions EXCEPT ![c] =
                                      PutCached(@, o)]
    ELSE UNCHANGED <<m_sessions_map, m_cached_sessions>>

\* The wait w ends; its timer, if any, is closed.
Ended(w, status) ==
    [wait EXCEPT ![w].status = status, ![w].timer = "closed"]

\* A wake-up keeps its object while Lua code runs, which may empty it, so that it is
\* cached, and wait again.  When the wake-up goes on, the object may serve another
\* context, or have been deleted, or its context may have another one: it goes astray.
Astray(c) ==
    LET own == m_sessions_map[c][waking[c].id]
        o   == waking[c].object
    IN \/ waking[c].astray
       \/ o # NIL /\ own # o /\ (own # NIL \/ o \notin Range(m_cached_sessions[c]))

\* The wake-up of context c is over.
WakeUpOver(c) == waking' = [waking EXCEPT ![c] = [Asleep EXCEPT !.astray = Astray(c)]]

\* wakeup_ref_session: if the session exists it is freed, with its timer, and its
\* coroutine or callback runs; then the handler goes on at label.
WakeupRefSession(c, s, status, label) ==
    IF s # NIL /\ m_ref_session[s] # NIL
    THEN /\ m_ref_session' = [m_ref_session EXCEPT ![s] = NIL]
         /\ m_ref_session_count' = [m_ref_session_count EXCEPT ![c] = @ - 1]
         /\ wait' = Ended(m_ref_session[s], status)
         /\ back' = [back EXCEPT ![c] = label]
         /\ Goto(c, "lua")
    ELSE /\ Goto(c, label)
         /\ UNCHANGED <<m_ref_session, m_ref_session_count, wait, back>>

-----------------------------------------------------------------------------
(* Lua code: the environment.                                                *)

\* context.wait(d [, timeout] [, callback]) sends LUA_CTX_WAIT to d, if d is
\* valid.  A blocking wait for a context that is gone returns at once.
start_wait(c) ==
    /\ pc[c] = "lua"
    /\ calls < MAX_WAITS
    /\ \E d \in Context, blocking \in BOOLEAN, timer \in {"none", "unset"} :
           /\ <<c, d>> \in Awaits
           /\ valid[d]
           /\ wait' = [wait EXCEPT ![calls + 1] =
                           [caller |-> c, id |-> d, blocking |-> blocking,
                            timer |-> timer, status |-> "calling"]]
           /\ out' = [out EXCEPT ![c] =
                          [to |-> d, message |-> <<"wait", c>>,
                           next |-> IF blocking THEN back[c] ELSE "lua"]]
    /\ calls' = calls + 1
    /\ Goto(c, "push_wait")
    /\ UNCHANGED <<valid, m_message_queue, m_context_wait_handles,
                   m_sessions_map, m_cached_sessions, m_nonblocking_ref,
                   m_blocking_sessions, m_ref_session, m_ref_session_count,
                   other, back, waking, cancels>>

\* push_blocking: a new session for the coroutine.
PushBlocking(c, w, o) ==
    /\ m_blocking_sessions' = [m_blocking_sessions EXCEPT ![c][o] = Append(@, w)]
    /\ m_ref_session' = [m_ref_session EXCEPT ![w] = w]
    /\ m_ref_session_count' = [m_ref_session_count EXCEPT ![c] = @ + 1]
    /\ wait' = [wait EXCEPT ![w].status = "pending",
                            ![w].timer = IF @ = "unset" THEN "running" ELSE @]
    /\ UNCHANGED m_nonblocking_ref

\* Mutated form of MakeCallback: the session is counted again for each callback.
MakeCallbackCountsAgain(c, w, o) ==
    LET ref == m_nonblocking_ref[c][o]
        s   == IF ref = NIL THEN w ELSE ref
    IN
    /\ m_nonblocking_ref' = [m_nonblocking_ref EXCEPT ![c][o] = s]
    /\ m_ref_session' = [m_ref_session EXCEPT ![s] = w]
    /\ m_ref_session_count' = [m_ref_session_count EXCEPT ![c] = @ + 1]
    /\ wait' = [IF ref = NIL THEN wait ELSE Ended(m_ref_session[ref], "over")
                   EXCEPT ![w].status = "pending",
                          ![w].timer = IF @ = "unset" THEN "running" ELSE @]
    /\ UNCHANGED m_blocking_sessions

\* make_nonblocking_callback: a new session for the first callback, a later one
\* replaces it under the same session, whose timer is closed (lua_ref_callback).
MakeCallback(c, w, o) ==
    LET ref == m_nonblocking_ref[c][o]
    IN
    /\ IF ref = NIL
       THEN /\ m_nonblocking_ref' = [m_nonblocking_ref EXCEPT ![c][o] = w]
            /\ m_ref_session' = [m_ref_session EXCEPT ![w] = w]
            /\ m_ref_session_count' = [m_ref_session_count EXCEPT ![c] = @ + 1]
            /\ wait' = [wait EXCEPT ![w].status = "pending",
                            ![w].timer = IF @ = "unset" THEN "running" ELSE @]
       ELSE /\ m_ref_session' = [m_ref_session EXCEPT ![ref] = w]
            /\ wait' = [Ended(m_ref_session[ref], "over") EXCEPT
                            ![w].status = "pending",
                            ![w].timer = IF @ = "unset" THEN "running" ELSE @]
            /\ UNCHANGED <<m_nonblocking_ref, m_ref_session_count>>
    /\ UNCHANGED m_blocking_sessions

\* The push of LUA_CTX_WAIT, after which the wait is entered: a coroutine has
\* yielded (context_wait_yield_finalize), or Lua code goes on.
push_wait(c) ==
    /\ pc[c] = "push_wait"
    /\ \E w \in Wait :
           /\ wait[w].caller = c
           /\ wait[w].status = "calling"
           /\ MapSessions(c, wait[w].id)
           /\ IF wait[w].blocking
              THEN PushBlocking(c, w, MakeSessions(c, wait[w].id))
              ELSE MakeCallback(c, w, MakeSessions(c, wait[w].id))
    /\ m_message_queue' = [m_message_queue EXCEPT ![out[c].to] =
                               Append(@, out[c].message)]
    /\ Goto(c, out[c].next)
    /\ out' = [out EXCEPT ![c] = Nothing]
    /\ UNCHANGED <<valid, m_context_wait_handles, other, back, waking, cancels,
                   calls>>

\* context.wait(d [, timeout], callback) for a d that is gone sends the wake-up
\* to the caller itself; the callback is not entered anywhere.
wait_for_gone(c) ==
    /\ pc[c] = "lua"
    /\ calls < MAX_WAITS
    /\ \E d \in Context :
           /\ <<c, d>> \in Awaits
           /\ ~valid[d]
           /\ wait' = [wait EXCEPT ![calls + 1] =
                           [caller |-> c, id |-> d, blocking |-> FALSE,
                            timer |-> "none", status |-> "unregistered"]]
           /\ m_message_queue' = [m_message_queue EXCEPT ![c] =
                                      Append(@, <<"wakeup", d>>)]
    /\ calls' = calls + 1
    /\ UNCHANGED <<valid, m_context_wait_handles, m_sessions_map,
                   m_cached_sessions, m_nonblocking_ref, m_blocking_sessions,
                   m_ref_session, m_ref_session_count, other, pc, back, waking,
                   out, cancels>>

\* context.wait(d, nil) frees the callback, and cancels the wait if it was the
\* last.  Without a callback nothing changes.
cancel_wait(c) ==
    /\ pc[c] = "lua"
    /\ \E d \in Context :
           LET o   == m_sessions_map[c][d]
               ref == m_nonblocking_ref[c][o]
           IN
           /\ o # NIL
           /\ ref # NIL
           /\ m_nonblocking_ref' = [m_nonblocking_ref EXCEPT ![c][o] = NIL]
           /\ m_ref_session' = [m_ref_session EXCEPT ![ref] = NIL]
           /\ wait' = Ended(m_ref_session[ref], "over")
           /\ CheckSessions(c, d, o, m_blocking_sessions[c][o] = << >>)
           /\ IF m_blocking_sessions[c][o] = << >>
              THEN CallSend(c, d, <<"cancel", c>>, "lua")
              ELSE UNCHANGED <<pc, out>>
    /\ m_ref_session_count' = [m_ref_session_count EXCEPT ![c] = @ - 1]
    /\ UNCHANGED <<valid, m_message_queue, m_context_wait_handles,
                   m_blocking_sessions, other, back, waking, cancels, calls>>

\* The Lua code that runs returns, or yields for a reason of its own; with or
\* without sessions that are not waits.
lua_ends(c) ==
    /\ pc[c] = "lua"
    /\ Goto(c, back[c])
    /\ \E active \in BOOLEAN : other' = [other EXCEPT ![c] = active]
    /\ UNCHANGED <<valid, m_message_queue, m_context_wait_handles, sessionVars,
                   back, waking, out, cancels, calls>>

LuaCode(c) == \/ start_wait(c) \/ push_wait(c) \/ wait_for_gone(c)
              \/ cancel_wait(c) \/ lua_ends(c)

-----------------------------------------------------------------------------
(* on_received.                                                              *)

Drop(c) == m_message_queue' = [m_message_queue EXCEPT ![c] = Tail(@)]

IsActive(c) == m_ref_session_count[c] > 0 \/ other[c]

\* The oldest message of a valid context between two messages.  (A context that
\* is not active after a message ends instead: exit_normally.)
Receives(c, type) ==
    /\ pc[c] = "idle"
    /\ valid[c]
    /\ IsActive(c)
    /\ m_message_queue[c] # << >>
    /\ Head(m_message_queue[c])[1] = type
    /\ Drop(c)

Argument(c) == Head(m_message_queue[c])[2]

response_context_wait(c) ==
    /\ Receives(c, "wait")
    /\ m_context_wait_handles' = [m_context_wait_handles EXCEPT ![c] =
                                      @ \cup {Argument(c)}]
    /\ Goto(c, "idle")
    /\ UNCHANGED <<valid, sessionVars, other, back, waking, out, cancels, calls>>

response_context_wait_cancel(c) ==
    /\ Receives(c, "cancel")
    /\ m_context_wait_handles' = [m_context_wait_handles EXCEPT ![c] =
                                      @ \ {Argument(c)}]
    /\ Goto(c, "idle")
    /\ UNCHANGED <<valid, sessionVars, other, back, waking, out, cancels, calls>>

\* wakeup_all starts, if there is an object for the context that has ended.
response_context_wakeup(c) ==
    LET d == Argument(c)
        o == m_sessions_map[c][d]
    IN
    /\ Receives(c, "wakeup")
    /\ IF o = NIL
       THEN Goto(c, "idle") /\ UNCHANGED waking
       ELSE /\ waking' = [waking EXCEPT ![c] =
                   [@ EXCEPT !.id = d, !.object = o,
                             !.left = Len(m_blocking_sessions[c][o])]]
            /\ Goto(c, "wake_blocking")
    /\ UNCHANGED <<valid, m_context_wait_handles, sessionVars, other, back, out,
                   cancels, calls>>

\* wakeup_all_blocking: as many coroutines as there were at its start, each
\* removed before it is resumed.
wake_blocking(c) ==
    LET o == waking[c].object
        s == Head(m_blocking_sessions[c][o])
    IN
    /\ pc[c] = "wake_blocking"
    /\ waking[c].left > 0
    /\ waking' = [waking EXCEPT ![c].left = @ - 1, ![c].astray = Astray(c)]
    /\ m_blocking_sessions' = [m_blocking_sessions EXCEPT ![c][o] = Tail(@)]
    /\ WakeupRefSession(c, s, "woken", "wake_blocking")
    /\ UNCHANGED <<valid, m_message_queue, m_context_wait_handles,
                   m_sessions_map, m_cached_sessions, m_nonblocking_ref, other,
                   out, cancels, calls>>

\* wakeup_noneblocking, after the coroutines: the callback is taken out, then
\* called.
wake_noneblocking(c) ==
    LET o == waking[c].object
        s == m_nonblocking_ref[c][o]
    IN
    /\ pc[c] = "wake_blocking"
    /\ waking[c].left = 0
    /\ waking' = [waking EXCEPT ![c].astray = Astray(c)]
    /\ m_nonblocking_ref' = [m_nonblocking_ref EXCEPT ![c][o] = NIL]
    /\ WakeupRefSession(c, s, "woken", "check_sessions")
    /\ UNCHANGED <<valid, m_message_queue, m_context_wait_handles,
                   m_sessions_map, m_cached_sessions, m_blocking_sessions,
                   other, out, cancels, calls>>

check_sessions(c) ==
    LET o == waking[c].object
    IN
    /\ pc[c] = "check_sessions"
    /\ CheckSessions(c, waking[c].id, o, EmptyObject(c, o))
    /\ WakeUpOver(c)
    /\ Goto(c, "idle")
    /\ UNCHANGED <<valid, m_message_queue, m_context_wait_handles,
                   m_nonblocking_ref, m_blocking_sessions, m_ref_session,
                   m_ref_session_count, wait, other, back, out, cancels, calls>>

\* Mutated form of TakeFixed: the session of a coroutine stays in the object.
TakeFixedKeepsBlocking(c, o, s) ==
    /\ m_nonblocking_ref' = [m_nonblocking_ref EXCEPT ![c][o] =
                                 IF @ = s THEN NIL ELSE @]
    /\ UNCHANGED m_blocking_sessions

\* wakeup_one_fixed: the session is taken out of the object, wherever it is.
TakeFixed(c, o, s) ==
    IF s = m_nonblocking_ref[c][o]
    THEN /\ m_nonblocking_ref' = [m_nonblocking_ref EXCEPT ![c][o] = NIL]
         /\ UNCHANGED m_blocking_sessions
    ELSE /\ m_blocking_sessions' = [m_blocking_sessions EXCEPT ![c][o] =
                                       SelectSeq(@, LAMBDA x : x # s)]
         /\ UNCHANGED m_nonblocking_ref

\* lua_timer_handle_t::wakeup and context_wait_timeout: a timer that is not
\* closed resumes the one wait it belongs to (wakeup_one_fixed).
response_timeout(c) ==
    LET w == Argument(c)
        d == wait[w].id
        o == m_sessions_map[c][d]
    IN
    /\ Receives(c, "timeout")
    /\ \/ /\ wait[w].timer = "closed" \/ NoWaits(c, d)
          /\ Goto(c, "idle")
          /\ UNCHANGED <<sessionVars, back, waking>>
       \/ /\ wait[w].timer # "closed"
          /\ ~NoWaits(c, d)
          /\ waking' = [waking EXCEPT ![c] =
                            [@ EXCEPT !.id = d, !.object = o]]
          /\ \E s \in Wait :
                 /\ m_ref_session[s] = w
                 /\ TakeFixed(c, o, s)
                 /\ WakeupRefSession(c, IF s \in Held(c, o) THEN s ELSE NIL,
                                     "over", "timed_out")
          /\ UNCHANGED <<m_sessions_map, m_cached_sessions>>
    /\ UNCHANGED <<valid, m_context_wait_handles, other, out, cancels, calls>>

\* Mutated form of timed_out: the context waited for is not told.
timed_out_no_cancel(c) ==
    LET d == waking[c].id
        o == waking[c].object
    IN
    /\ pc[c] = "timed_out"
    /\ CheckSessions(c, d, o, EmptyObject(c, o))
    /\ WakeUpOver(c)
    /\ Goto(c, "idle")
    /\ UNCHANGED <<valid, m_message_queue, m_context_wait_handles,
                   m_nonblocking_ref, m_blocking_sessions, m_ref_session,
                   m_ref_session_count, wait, other, back, out, cancels, calls>>

\* The rest of context_wait_timeout: without another wait the context waited for
\* is told so.
timed_out(c) ==
    LET d == waking[c].id
        o == waking[c].object
    IN
    /\ pc[c] = "timed_out"
    /\ CheckSessions(c, d, o, EmptyObject(c, o))
    /\ WakeUpOver(c)
    /\ IF EmptyObject(c, o) \/ NoWaits(c, d)
       THEN CallSend(c, d, <<"cancel", c>>, "idle")
       ELSE Goto(c, "idle") /\ UNCHANGED out
    /\ UNCHANGED <<valid, m_message_queue, m_context_wait_handles,
                   m_nonblocking_ref, m_blocking_sessions, m_ref_session,
                   m_ref_session_count, wait, other, back, cancels, calls>>

Receive(c) ==
    \/ response_context_wait(c) \/ response_context_wait_cancel(c)
    \/ response_context_wakeup(c) \/ wake_blocking(c) \/ wake_noneblocking(c)
    \/ check_sessions(c) \/ response_timeout(c) \/ timed_out(c)

-----------------------------------------------------------------------------
(* The end of a context, and what is dropped after it.                       *)

\* A context with no session left ends.
exit_normally(c) ==
    /\ pc[c] = "idle"
    /\ valid[c]
    /\ ~IsActive(c)
    /\ Goto(c, "deinit")
    /\ UNCHANGED <<valid, m_message_queue, m_context_wait_handles, sessionVars,
                   other, back, waking, out, cancels, calls>>

\* Mutated form of deinit: the handles are forgotten, nobody is woken.
deinit_silent(c) ==
    /\ pc[c] = "deinit"
    /\ m_context_wait_handles' = [m_context_wait_handles EXCEPT ![c] = {}]
    /\ cancels' = [cancels EXCEPT ![c] =
                       {d \in Context : m_sessions_map[c][d] # NIL}]
    /\ Goto(c, "cancel_waits")
    /\ UNCHANGED <<valid, m_message_queue, sessionVars, other, back, waking, out,
                   calls>>

\* deinit: every context that waits for this one is woken; then the waits to be
\* cancelled are collected.
deinit(c) ==
    /\ pc[c] = "deinit"
    /\ \/ \E h \in m_context_wait_handles[c] :
             /\ m_context_wait_handles' = [m_context_wait_handles EXCEPT ![c] =
                                               @ \ {h}]
             /\ CallSend(c, h, <<"wakeup", c>>, "deinit")
             /\ UNCHANGED cancels
       \/ /\ m_context_wait_handles[c] = {}
          /\ cancels' = [cancels EXCEPT ![c] =
                             {d \in Context : m_sessions_map[c][d] # NIL}]
          /\ Goto(c, "cancel_waits")
          /\ UNCHANGED <<m_context_wait_handles, out>>
    /\ UNCHANGED <<valid, m_message_queue, sessionVars, other, back, waking,
                   calls>>

cancel_waits(c) ==
    /\ pc[c] = "cancel_waits"
    /\ \/ \E d \in cancels[c] :
             /\ cancels' = [cancels EXCEPT ![c] = @ \ {d}]
             /\ CallSend(c, d, <<"cancel", c>>, "cancel_waits")
       \/ /\ cancels[c] = {}
          /\ Goto(c, "close")
          /\ UNCHANGED <<cancels, out>>
    /\ UNCHANGED <<valid, m_message_queue, m_context_wait_handles, sessionVars,
                   other, back, waking, calls>>

\* lua_close, set_inited(false) and retire_context: nothing is sent to the context
\* any more; its coroutines, callbacks and timers are gone, and so are, as far as
\* anybody can tell, its tables.
close(c) ==
    /\ pc[c] = "close"
    /\ valid' = [valid EXCEPT ![c] = FALSE]
    /\ wait' = [w \in Wait |->
                   IF wait[w].caller = c /\ wait[w].status = "pending"
                   THEN [wait[w] EXCEPT !.status = "over", !.timer = "closed"]
                   ELSE wait[w]]
    /\ m_ref_session' = [s \in Wait |->
                            IF m_ref_session[s] # NIL
                               => wait[m_ref_session[s]].caller = c
                            THEN NIL ELSE m_ref_session[s]]
    /\ m_ref_session_count' = [m_ref_session_count EXCEPT ![c] = 0]
    /\ other' = [other EXCEPT ![c] = FALSE]
    /\ m_sessions_map' = [m_sessions_map EXCEPT ![c] =
                              [d \in Context |-> NIL]]
    /\ m_cached_sessions' = [m_cached_sessions EXCEPT ![c] = << >>]
    /\ m_nonblocking_ref' = [m_nonblocking_ref EXCEPT ![c] =
                                 [o \in Object |-> NIL]]
    /\ m_blocking_sessions' = [m_blocking_sessions EXCEPT ![c] =
                                   [o \in Object |-> << >>]]
    /\ Goto(c, "idle")
    /\ UNCHANGED <<m_message_queue, m_context_wait_handles, back, waking, out,
                   cancels, calls>>

\* Mutated form of on_dropped: a wait that arrived too late is not answered.
on_dropped_silent(c) ==
    /\ pc[c] = "idle"
    /\ ~valid[c]
    /\ m_message_queue[c] # << >>
    /\ Drop(c)
    /\ UNCHANGED <<valid, m_context_wait_handles, sessionVars, other, pc, back,
                   waking, out, cancels, calls>>

\* on_dropped: a wait that arrived too late is answered with the wake-up.
on_dropped(c) ==
    /\ pc[c] = "idle"
    /\ ~valid[c]
    /\ m_message_queue[c] # << >>
    /\ Drop(c)
    /\ IF Head(m_message_queue[c])[1] = "wait"
       THEN CallSend(c, Argument(c), <<"wakeup", c>>, "idle")
       ELSE UNCHANGED <<pc, out>>
    /\ UNCHANGED <<valid, m_context_wait_handles, sessionVars, other, back,
                   waking, cancels, calls>>

End(c) == exit_normally(c) \/ deinit(c) \/ cancel_waits(c) \/ close(c) \/ on_dropped(c)

-----------------------------------------------------------------------------
(* The network thread, and other senders.                                    *)

\* A timer expires; its message carries the timer.
on_timedout(w) ==
    /\ wait[w].timer = "running"
    /\ valid[wait[w].caller]
    /\ wait' = [wait EXCEPT ![w].timer = "expired"]
    /\ m_message_queue' = [m_message_queue EXCEPT ![wait[w].caller] =
                               Append(@, <<"timeout", w>>)]
    /\ UNCHANGED <<valid, m_context_wait_handles, m_sessions_map,
                   m_cached_sessions, m_nonblocking_ref, m_blocking_sessions,
                   m_ref_session, m_ref_session_count, other, pc, back, waking,
                   out, cancels, calls>>

\* Any other message: Lua code that waits for it runs.  Where it stands among
\* the messages of this model does not matter: it is the oldest one.
response_other(c) ==
    /\ pc[c] = "idle"
    /\ valid[c]
    /\ other[c]
    /\ Goto(c, "lua")
    /\ back' = [back EXCEPT ![c] = "idle"]
    /\ UNCHANGED <<valid, m_message_queue, m_context_wait_handles, sessionVars,
                   other, waking, out, cancels, calls>>

\* SYSTEM_CTX_DESTROY, sent by any context, this one included, likewise.
response_destroy(c) ==
    /\ c \in Killed
    /\ pc[c] = "idle"
    /\ valid[c]
    /\ Goto(c, "deinit")
    /\ UNCHANGED <<valid, m_message_queue, m_context_wait_handles, sessionVars,
                   other, back, waking, out, cancels, calls>>

Step(c) == push(c) \/ LuaCode(c) \/ Receive(c) \/ End(c)

Next == \/ \E c \in Context : \/ Step(c)
                              \/ response_other(c)
                              \/ response_destroy(c)
        \/ \E w \in Wait : on_timedout(w)

Spec == Init /\ [][Next]_vars

\* Every context that has something to do is run (Scheduler), and Lua code does
\* not run for ever; other messages get ahead of one that is queued only a finite
\* number of times.  Timers and other messages may come or not.
FairSpec == Spec /\ \A c \in Context : /\ WF_vars(Step(c))
                                       /\ SF_vars(Receive(c))

-----------------------------------------------------------------------------
Message == ({"wait", "cancel", "wakeup"} \X Context)
           \cup ({"timeout"} \X Wait)

Label == {"lua", "idle", "push", "push_wait", "wake_blocking",
          "check_sessions", "timed_out", "deinit",
          "cancel_waits", "close"}

TypeOK ==
    /\ valid \in [Context -> BOOLEAN]
    /\ m_message_queue \in [Context -> Seq(Message)]
    /\ m_context_wait_handles \in [Context -> SUBSET Context]
    /\ m_sessions_map \in [Context -> [Context -> Object \cup {NIL}]]
    /\ m_cached_sessions \in [Context -> Seq(Object)]
    /\ m_nonblocking_ref \in [Context -> [Object -> Wait \cup {NIL}]]
    /\ m_blocking_sessions \in [Context -> [Object -> Seq(Wait)]]
    /\ m_ref_session \in [Wait -> Wait \cup {NIL}]
    /\ m_ref_session_count \in [Context -> Int]
    /\ other \in [Context -> BOOLEAN]
    /\ pc \in [Context -> Label]
    /\ back \in [Context -> Label]
    /\ waking \in [Context -> [id : Context \cup {NoContext},
                               object : Object \cup {NIL},
                               left : 0 .. MAX_WAITS, astray : BOOLEAN]]
    /\ out \in [Context -> [to : Context \cup {NoContext},
                            message : Message \cup {<< >>}, next : Label]]
    /\ cancels \in [Context -> SUBSET Context]
    /\ wait \in [Wait -> [caller : Context \cup {NoContext},
                          id : Context \cup {NoContext},
                          blocking : BOOLEAN,
                          timer : {"none", "unset", "running", "expired",
                                   "closed"},
                          status : {"unused", "calling", "pending", "woken",
                                    "over", "unregistered"}]]
    /\ calls \in 0 .. MAX_WAITS

\* The waits of context c for context d that have not ended.
Pending(c, d) == {w \in Wait : /\ wait[w].caller = c
                               /\ wait[w].id = d
                               /\ wait[w].status = "pending"}

\* Context d is being deinitialised, or is gone.
Ending(d) ==
    \/ ~valid[d]
    \/ pc[d] \in {"deinit", "cancel_waits", "close"}
    \/ pc[d] = "push" /\ out[d].next \in {"deinit", "cancel_waits"}

\* What d will know of c when it has handled what it has got from it.
Known(c, d) ==
    LET Of(m) == m = <<"wait", c>> \/ m = <<"cancel", c>>
        own   == SelectSeq(m_message_queue[d], Of)
    IN IF own = << >> THEN c \in m_context_wait_handles[d]
       ELSE own[Len(own)][1] = "wait"

\* The wake-up of c by d is on its way, or c is about to act on it.
WakeUpComes(c, d) ==
    \/ \E i \in 1 .. Len(m_message_queue[c]) :
           m_message_queue[c][i] = <<"wakeup", d>>
    \/ pc[d] = "push" /\ out[d].to = c /\ out[d].message = <<"wakeup", d>>
    \/ waking[c].id = d

\* A wait that has not ended is known to the context it waits for, or the
\* wake-up is on its way: whether LUA_CTX_WAIT arrives before the other context
\* ends, while it does, or after it, and however waits, timeouts and cancels of
\* the same context have been mixed (context_lua.cpp:84-95, 760-783, 1316-1364);
\* until a wake-up of the waiting context has gone astray.
\* Part of WaitersExact.
NoForgottenWaiter ==
    \A p \in Awaits :
        ~waking[p[1]].astray /\ ~Ending(p[1]) /\ Pending(p[1], p[2]) # {}
            => Known(p[1], p[2]) \/ WakeUpComes(p[1], p[2])

\* A context does not remember one that no longer waits for it, but for the time
\* that a cancellation takes to be sent: contexts that live long do not collect
\* the handles of those that have waited for them.  A wake-up that has gone astray
\* may end a wait that nobody cancels.
\* Part of WaitersExact.
NoStaleWaiter ==
    \A p \in Awaits :
        LET c == p[1]
            d == p[2]
        IN ~waking[c].astray /\ Known(c, d) /\ ~Ending(d)
               => \/ Pending(c, d) # {}
                  \/ pc[c] = "push" /\ out[c].to = d
                                    /\ out[c].message = <<"cancel", c>>
                  \/ waking[c].id = d
                  \/ pc[c] = "deinit" \/ d \in cancels[c]
                  \/ pc[c] = "push" /\ out[c].next = "deinit"

\* The sessions object c keeps for d.
Sessions(c, d) ==
    LET o == m_sessions_map[c][d]
    IN IF o = NIL THEN {}
       ELSE Held(c, o) \ {NIL}

\* m_ref_session_count, which keeps a context alive, counts its waits: one too
\* few ends a context that still waits, one too many keeps it for ever.
\* Part of SessionsKept.
SessionsCounted ==
    \A c \in Context :
        valid[c] => m_ref_session_count[c] =
            Cardinality({w \in Wait : /\ wait[w].caller = c
                                      /\ wait[w].status = "pending"})

\* The object found for a context holds exactly the waits for it that have not
\* ended, when objects are cached and serve other contexts, and while Lua code that
\* a wake-up has resumed enters new waits or cancels them, up to the step in which
\* the wake-up goes astray; and the waits are counted, whatever happens.
\* Part of WaitersExact.
SessionsKept ==
    /\ TypeOK
    /\ \A p \in Awaits :
           valid[p[1]] /\ ~waking[p[1]].astray =>
               {m_ref_session[s] : s \in Sessions(p[1], p[2])} = Pending(p[1], p[2])
    /\ SessionsCounted

\* The two contexts of a wait agree: each knows of the other exactly what it has to,
\* and the caller keeps the sessions of the waits that have not ended, until one of its
\* wake-ups has gone on with an object that was emptied and used again meanwhile.  (What
\* that one does is not what WokenByEnd asks for.)
\* (context_lua.cpp:84-95, 760-783, 1316-1364; ref_sessions_mgr.cpp:12-30, 70-152)
WaitersExact == NoForgottenWaiter /\ NoStaleWaiter /\ SessionsKept

\* A wait returns without an error only when the context it waits for has ended:
\* context.wait is "wait context to quit or to be destroyed" (src/README.md:72).
WokenByEnd ==
    \A w \in Wait : wait[w].status = "woken" => Ending(wait[w].id)

\* Every wait for a context that has ended returns.
WaitEnds ==
    \A w \in Wait :
        (wait[w].status = "pending" /\ ~valid[wait[w].id])
            ~> (wait[w].status # "pending")

\* The callback of a wait for a context that has ended is called, unless the
\* caller replaces or cancels it or ends (src/README.md:72-73).
CallbackCalled ==
    \A w \in Wait :
        LET uncalled == wait[w].status \in {"pending", "unregistered"}
        IN (uncalled /\ ~wait[w].blocking /\ ~valid[wait[w].id])
               ~> ~(uncalled /\ valid[wait[w].caller])
=============================================================================
