------------------------------ MODULE Coroutine ------------------------------
(***************************************************************************)
(* Blocking calls inside coroutines (context_lua.cpp, lcororep.cpp).  A    *)
(* context runs each callback in a root coroutine, in which a script may   *)
(* nest coroutines of its own.  A blocking call yields through all of them *)
(* up to the root, whose resumer sends the request; the answer is resumed  *)
(* down again to the coroutine that called.  What happens in between is    *)
(* kept in context_lua_shared_t, one for all contexts of a worker: Coro    *)
(* are root coroutines of contexts that one worker runs.                   *)
(***************************************************************************)
EXTENDS Naturals, Sequences, FiniteSets, SequencesExt, FiniteSetsExt

CONSTANTS Coro, NONE,
          MAX_DEPTH      \* bound on the nested coroutines

\* Blocking calls.  The finalizers of the first two ask the root for its
\* context even when there is none; only context.query can fail to send, and
\* takes that for an answer.
Calls == {"query", "write", "read"}

ASSUME CoroutineAssumption == NONE \notin Coro \cup Calls /\ MAX_DEPTH \in Nat \ {0}

VARIABLES
    chain,                 \* of each root: the coroutines in it, the root first
    running,               \* the root that runs, or NONE
    suspended,             \* roots that resume_coroutine left yielding
    sessions,              \* of each root: the call whose answer is due, or NONE
    m_yielding_depth,      \* context_lua_shared_t; the depth as 0 or not
    m_yielding_finalize,   \* the call that yields, or NONE
    m_yielding_status,
    fate                   \* what became of the last call that each root made

sharedVars == <<m_yielding_depth, m_yielding_finalize, m_yielding_status>>
coroutineVars == <<chain, running, suspended, sessions, sharedVars, fate>>

\* A coroutine is resumed by coroutine.resume or by a function of
\* coroutine.wrap; "held" when in a C function that cannot be yielded from.
Frame == [how : {"root", "resume", "wrap"}, held : BOOLEAN]

Root == <<[how |-> "root", held |-> FALSE]>>

CoroutineInit ==
    /\ chain = [c \in Coro |-> << >>]
    /\ running = NONE
    /\ suspended = {}
    /\ sessions = [c \in Coro |-> NONE]
    /\ m_yielding_depth = 0
    /\ m_yielding_finalize = NONE
    /\ m_yielding_status = "OK"
    /\ fate = [c \in Coro |-> "none"]

-----------------------------------------------------------------------------
\* A callback starts in a root coroutine.
start_callback(c) ==
    /\ running = NONE /\ chain[c] = << >>
    /\ chain' = [chain EXCEPT ![c] = Root]
    /\ running' = c
    /\ UNCHANGED <<suspended, sessions, sharedVars, fate>>

\* The innermost coroutine resumes another one.
coresume(c, how, held) ==
    /\ running = c /\ Len(chain[c]) <= MAX_DEPTH
    /\ chain' = [chain EXCEPT ![c] = Append(@, [how |-> how, held |-> held])]
    /\ UNCHANGED <<running, suspended, sessions, sharedVars, fate>>

\* It ends, or with it the callback (resume_coroutine, lua_free_root_coro).
coreturn(c) ==
    /\ running = c
    /\ chain' = [chain EXCEPT ![c] = Front(@)]
    /\ running' = IF Len(chain[c]) = 1 THEN NONE ELSE c
    /\ UNCHANGED <<suspended, sessions, sharedVars, fate>>

-----------------------------------------------------------------------------
\* Mutated form of yielding_finalize: what yields next is taken for a blocking call.
yielding_finalize_undone(status) ==
    /\ m_yielding_status' = status
    /\ m_yielding_finalize' = NONE
    /\ m_yielding_depth' = 1

\* yielding_finalize: nothing yields up any more.
yielding_finalize(status) ==
    /\ m_yielding_status' = status
    /\ m_yielding_finalize' = NONE
    /\ m_yielding_depth' = 0

\* common_yield_continue, context_query_yield_continue.
yield_continue(call, ok, status) ==
    IF ~ok /\ status # "OK" /\ ~(call = "query" /\ status = "ENOCONTEXT")
    THEN "thrown" ELSE "returned"

\* lua_resume from the i-th coroutine of the root down to the innermost.
\* coresume_continue calls lua_coresume again, also for lua_auxwrap, which
\* has no coroutine on its stack: the error is raised in its caller.
Resume(c, i, call, ok, status) ==
    LET wraps == {k \in i .. Len(chain[c]) - 1 : chain[c][k + 1].how = "wrap"}
    IN  /\ running' = c
        /\ suspended' = suspended \ {c}
        /\ IF wraps = {}
           THEN /\ fate' = [fate EXCEPT ![c] = yield_continue(call, ok, status)]
                /\ UNCHANGED chain
           ELSE /\ fate' = [fate EXCEPT ![c] = "lost"]
                /\ chain' = [chain EXCEPT ![c] = SubSeq(@, 1, Min(wraps))]

\* There is no way up to the root: the i-th coroutine gets the error, unless
\* the finalizer asks NULL for its context, which ends the process.
Stuck(c, i, call) ==
    IF call \in {"query", "write"}
    THEN /\ fate' = [fate EXCEPT ![c] = "crashed"]
         /\ UNCHANGED <<chain, running, suspended, sessions, sharedVars>>
    ELSE /\ yielding_finalize("EYIELD")
         /\ Resume(c, i, call, FALSE, "EYIELD")
         /\ UNCHANGED sessions

\* auxresume at each level, then resume_coroutine: the root's finalizer sends
\* the request and its session waits, or fails, as a query to a context that
\* does not exist.
YieldUp(c, call, sent) ==
    LET held == {i \in 2 .. Len(chain[c]) : chain[c][i].held}
    IN  IF held # {}
        THEN Stuck(c, Max(held), call)
        ELSE IF sent
        THEN /\ yielding_finalize("OK")
             /\ sessions' = [sessions EXCEPT ![c] = call]
             /\ suspended' = suspended \cup {c}
             /\ running' = NONE
             /\ UNCHANGED <<chain, fate>>
        ELSE /\ yielding_finalize("ENOCONTEXT")
             /\ Resume(c, 1, call, FALSE, "ENOCONTEXT")
             /\ UNCHANGED sessions

\* lua_yield_send, from the innermost coroutine, which may be held itself.
block(c, call, held, sent) ==
    /\ running = c
    /\ call = "query" \/ sent
    /\ IF held THEN Stuck(c, Len(chain[c]), call) ELSE YieldUp(c, call, sent)

\* coroutine.yield: refused in the root; else auxresume asks yielding_up
\* whether this is a blocking call on its way to the root.
coyield(c) ==
    /\ running = c /\ Len(chain[c]) > 1
    /\ IF m_yielding_depth = 0
       THEN /\ chain' = [chain EXCEPT ![c] = Front(@)]
            /\ UNCHANGED <<running, suspended, sessions, sharedVars, fate>>
       ELSE YieldUp(c, m_yielding_finalize, TRUE)

\* wakeup_ref_session with the answer, which may be an error: a timeout, a
\* socket that was closed.
answer(c, ok) ==
    /\ running = NONE /\ sessions[c] # NONE
    /\ sessions' = [sessions EXCEPT ![c] = NONE]
    /\ Resume(c, 1, sessions[c], ok, m_yielding_status)
    /\ UNCHANGED sharedVars

Crashed == \E c \in Coro : fate[c] = "crashed"

CoroutineNext ==
    /\ ~Crashed
    /\ \E c \in Coro :
        \/ start_callback(c)
        \/ \E how \in {"resume", "wrap"}, held \in BOOLEAN : coresume(c, how, held)
        \/ coreturn(c)
        \/ \E call \in Calls, held, sent \in BOOLEAN : block(c, call, held, sent)
        \/ coyield(c)
        \/ \E ok \in BOOLEAN : answer(c, ok)

CoroutineSpec == CoroutineInit /\ [][CoroutineNext]_coroutineVars

-----------------------------------------------------------------------------
\* A root coroutine that waits was suspended by resume_coroutine.
CoroutineTypeOK ==
    /\ chain \in [Coro -> Seq(Frame)]
    /\ \A c \in Coro : chain[c] # << >> => Head(chain[c]) = Head(Root)
    /\ running \in Coro \cup {NONE}
    /\ suspended \subseteq Coro
    /\ sessions \in [Coro -> Calls \cup {NONE}]
    /\ m_yielding_depth \in {0, 1}
    /\ m_yielding_finalize \in Calls \cup {NONE}
    /\ m_yielding_status \in {"OK", "ENOCONTEXT", "EYIELD"}
    /\ fate \in [Coro -> {"none", "returned", "thrown", "lost", "crashed"}]

\* A callback that sleeps is one whose call has an answer due, and the other
\* way round: a coroutine.yield of the script, whatever blocking calls were
\* made before it by this context or by another one of the same worker, never
\* reaches the root (yielding_up, yielding_finalize).
WaitsForAnswer == CoroutineTypeOK /\ suspended = {c \in Coro : sessions[c] # NONE}

\* The answer of a blocking call reaches the coroutine that made it, whichever
\* way the script nested its coroutines (README.md:7).
AnswersReachCaller == \A c \in Coro : fate[c] # "lost"
=============================================================================
