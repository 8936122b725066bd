---------------------------- MODULE ContextQuery ----------------------------
(***************************************************************************)
(* context.query, context.timed_query, context.send and context.reply      *)
(* (context_lua.cpp): one context, the caller, sends queries to another,   *)
(* the replier, which receives and answers them, lets them go unanswered,  *)
(* or ends while they are on their way.                                    *)
(*                                                                         *)
(* The answer finds the coroutine or the callback of its query by a        *)
(* session number.  The numbers count down from INT_MAX, start again when  *)
(* they are used up, and skip those in use.  The timeout of a call and its *)
(* answer race.                                                            *)
(*                                                                         *)
(* The handlers of the caller resume Lua code as the last thing they do, so *)
(* that a handler is one step and the calls of Lua code are others.  Whether *)
(* a call of context.recv gets a query is left open here: its handlers go  *)
(* on after the code that they resume (ContextRecv).  The send of a query  *)
(* is split: the replier may end between the check and the push            *)
(* (Scheduler).                                                            *)
(***************************************************************************)
EXTENDS Integers, Sequences, FiniteSets

CONSTANTS INT_MAX,       \* the largest session number
          Others,        \* session numbers of other things than queries
          Bases,         \* numbers where the count may have arrived
          MAX_QUERIES    \* bound on the queries and sends

ASSUME QueryAssumption ==
    /\ INT_MAX \in Nat \ {0} /\ MAX_QUERIES \in Nat
    /\ Others \subseteq 1 .. INT_MAX /\ Bases \subseteq 0 .. INT_MAX
    \* a number is used again only after many others: no two queries meet here
    /\ MAX_QUERIES + Cardinality(Others) <= INT_MAX

Query == 1 .. MAX_QUERIES
Session == 1 .. INT_MAX
NOT_A_QUERY == -1
LUA_REFNIL == 0

VARIABLES
    \* the caller
    ref_session,          \* session -> query, NOT_A_QUERY or 0
    m_ref_session_base, ref_session_count,
    queries,              \* sent so far
    session, timer, result,   \* of each query
    resumed,              \* queries whose code a reply resumed: <<of, by>>
    sending,              \* the query between the check and the push, or 0
    reply_queue,          \* replies, and timers that have expired
    \* the replier
    replier_valid,
    query_queue,          \* the queries in its message queue
    heard                 \* queries that its Lua code has and may reply to

sessions == <<ref_session, m_ref_session_base, ref_session_count, session>>
caller == <<sessions, queries, timer, result, resumed, sending>>
queryVars == <<caller, reply_queue, replier_valid, query_queue, heard>>

\* The caller has used sessions before.
QueryInit ==
    /\ ref_session = [s \in Session |-> IF s \in Others THEN NOT_A_QUERY ELSE 0]
    /\ m_ref_session_base \in Bases
    /\ ref_session_count = Cardinality(Others)
    /\ queries = 0
    /\ session = [q \in Query |-> LUA_REFNIL]
    /\ timer = [q \in Query |-> "none"]
    /\ result = [q \in Query |-> "unused"]
    /\ resumed = {}
    /\ sending = 0
    /\ reply_queue = << >>
    /\ replier_valid = TRUE
    /\ query_queue = << >>
    /\ heard = {}

-----------------------------------------------------------------------------
(* Sessions of the caller.                                                   *)

\* Mutated form of lua_ref_session: a number in use is not skipped.
lua_ref_session_busy == IF m_ref_session_base > 0 THEN m_ref_session_base ELSE INT_MAX

\* Mutated form of lua_ref_session: a number is used again as soon as it is free.
lua_ref_session_again == CHOOSE s \in Session :
    ref_session[s] = 0 /\ \A t \in Session : ref_session[t] = 0 => t <= s

\* The first number not in use, counting down from the base and then from INT_MAX.
lua_ref_session ==
    LET down(s) == (m_ref_session_base - s) % INT_MAX
    IN CHOOSE s \in Session :
          /\ ref_session[s] = 0
          /\ \A t \in Session : ref_session[t] = 0 => down(s) <= down(t)

\* Mutated form of lua_free_ref_session: the timer goes on.
lua_free_ref_session_timed(q, status) ==
    /\ ref_session' = [ref_session EXCEPT ![session[q]] = 0]
    /\ ref_session_count' = ref_session_count - 1
    /\ result' = [result EXCEPT ![q] = status]
    /\ UNCHANGED timer

\* The session of q is freed, with its timer; q has its result.
lua_free_ref_session(q, status) ==
    /\ ref_session' = [ref_session EXCEPT ![session[q]] = 0]
    /\ ref_session_count' = ref_session_count - 1
    /\ result' = [result EXCEPT ![q] = status]
    /\ timer' = [timer EXCEPT ![q] = "closed"]

-----------------------------------------------------------------------------
(* Lua code of the caller.                                                   *)

\* context.query: the coroutine has yielded, or the callback is referenced; then the
\* replier is looked for.
query ==
    LET q == queries + 1
        s == lua_ref_session
    IN
    /\ sending = 0
    /\ q \in Query
    /\ queries' = q
    /\ session' = [session EXCEPT ![q] = s]
    /\ m_ref_session_base' = s - 1
    /\ IF replier_valid
       THEN /\ ref_session' = [ref_session EXCEPT ![s] = q]
            /\ ref_session_count' = ref_session_count + 1
            /\ result' = [result EXCEPT ![q] = "pending"]
            /\ sending' = q
       ELSE /\ result' = [result EXCEPT ![q] = "NL_ENOCONTEXT"]
            /\ UNCHANGED <<ref_session, ref_session_count, sending>>
    /\ UNCHANGED <<timer, resumed, reply_queue, replier_valid, query_queue, heard>>

\* context.send: a query that wants no reply.
send ==
    LET q == queries + 1
    IN
    /\ sending = 0
    /\ q \in Query
    /\ queries' = q
    /\ IF replier_valid
       THEN sending' = q /\ result' = [result EXCEPT ![q] = "sent"]
       ELSE result' = [result EXCEPT ![q] = "NL_ENOCONTEXT"] /\ UNCHANGED sending
    /\ UNCHANGED <<sessions, timer, resumed, reply_queue, replier_valid, query_queue,
                   heard>>

\* The push, and the timer of a timed query.
push_query ==
    /\ sending # 0
    /\ query_queue' = Append(query_queue, sending)
    /\ \E t \in {"none", "running"} :
          /\ t = "running" => session[sending] # LUA_REFNIL
          /\ timer' = [timer EXCEPT ![sending] = t]
    /\ sending' = 0
    /\ UNCHANGED <<sessions, queries, result, resumed, reply_queue, replier_valid,
                   heard>>

-----------------------------------------------------------------------------
(* Handlers of the caller.                                                   *)

\* A timer expires.
query_timedout(q) ==
    /\ timer[q] = "running"
    /\ timer' = [timer EXCEPT ![q] = "expired"]
    /\ reply_queue' = Append(reply_queue, <<"timeout", q>>)
    /\ UNCHANGED <<sessions, queries, result, resumed, sending, replier_valid, query_queue,
                   heard>>

ReceiveReply(type) ==
    /\ sending = 0
    /\ reply_queue # << >>
    /\ Head(reply_queue)[1] = type
    /\ reply_queue' = Tail(reply_queue)

\* response_context_reply: the reply to query by resumes what has its session now.
response_context_reply ==
    LET by == Head(reply_queue)[2]
        of == ref_session[session[by]]
    IN
    /\ ReceiveReply("reply")
    /\ IF of \in Query
       THEN /\ lua_free_ref_session(of, Head(reply_queue)[3])
            /\ resumed' = resumed \cup {<<of, by>>}
       ELSE /\ resumed' = IF of = NOT_A_QUERY THEN resumed \cup {<<of, by>>} ELSE resumed
            /\ UNCHANGED <<ref_session, ref_session_count, result, timer>>
    /\ UNCHANGED <<m_ref_session_base, session, queries, sending, replier_valid, query_queue,
                   heard>>

\* response_timeout, of a timer that may have been closed.
response_query_timeout ==
    LET q == Head(reply_queue)[2]
    IN
    /\ ReceiveReply("timeout")
    /\ IF timer[q] # "closed" /\ ref_session[session[q]] # 0
       THEN lua_free_ref_session(q, "NL_ETIMEOUT")
       ELSE UNCHANGED <<ref_session, ref_session_count, result, timer>>
    /\ UNCHANGED <<m_ref_session_base, session, queries, resumed, sending, replier_valid,
                   query_queue, heard>>

-----------------------------------------------------------------------------
(* The replier.                                                              *)

\* The reply to q, if it has a session.
SendReply(q, status) ==
    reply_queue' = IF session[q] # LUA_REFNIL
                       THEN Append(reply_queue, <<"reply", q, status>>)
                       ELSE reply_queue

\* response_context_query: a call of context.recv gets the query, and Lua code hears
\* it; or there is none, and the query is answered at once.
response_context_query ==
    LET q == Head(query_queue)
    IN
    /\ replier_valid
    /\ query_queue # << >>
    /\ query_queue' = Tail(query_queue)
    /\ \/ /\ heard' = heard \cup {q}
          /\ UNCHANGED reply_queue
       \/ /\ SendReply(q, "NL_ENOREPLY")
          /\ UNCHANGED heard
    /\ UNCHANGED <<caller, replier_valid>>

\* context.reply; data that cannot be sent is answered with an error.
reply(q, status) ==
    /\ replier_valid
    /\ q \in heard
    /\ heard' = heard \ {q}
    /\ SendReply(q, status)
    /\ UNCHANGED <<caller, replier_valid, query_queue>>

\* The replier ends; what its Lua code has heard is not answered.
destroy ==
    /\ replier_valid
    /\ replier_valid' = FALSE
    /\ UNCHANGED <<caller, reply_queue, query_queue, heard>>

\* Mutated form of on_dropped: a query is dropped like any other message.
query_dropped_silent ==
    /\ ~replier_valid
    /\ query_queue # << >>
    /\ query_queue' = Tail(query_queue)
    /\ UNCHANGED <<caller, reply_queue, replier_valid, heard>>

\* on_dropped, for a query that a context that has ended did not receive.
query_dropped ==
    /\ ~replier_valid
    /\ query_queue # << >>
    /\ query_queue' = Tail(query_queue)
    /\ SendReply(Head(query_queue), "NL_ENOREPLY")
    /\ UNCHANGED <<caller, replier_valid, heard>>

QueryNext ==
    \/ query \/ send \/ push_query
    \/ \E q \in Query : query_timedout(q)
    \/ response_context_reply \/ response_query_timeout
    \/ response_context_query
    \/ \E q \in Query, status \in {"reply", "NL_ETRANSTYPE"} : reply(q, status)
    \/ destroy \/ query_dropped

QuerySpec == QueryInit /\ [][QueryNext]_queryVars

\* What the two contexts do when there is something to do.
CallerStep == push_query \/ response_context_reply \/ response_query_timeout
ReplierStep == response_context_query \/ query_dropped

\* The workers run every context that has messages (Scheduler), a call of Lua code
\* goes on to its end, timers expire.
FairQuerySpec ==
    /\ QuerySpec
    /\ WF_queryVars(CallerStep)
    /\ WF_queryVars(ReplierStep)
    /\ \A q \in Query : WF_queryVars(query_timedout(q))

-----------------------------------------------------------------------------
Status == {"reply", "NL_ETRANSTYPE", "NL_ENOREPLY"}

QueryTypeOK ==
    /\ ref_session \in [Session -> Query \cup {0, NOT_A_QUERY}]
    /\ m_ref_session_base \in 0 .. INT_MAX
    /\ ref_session_count \in 0 .. INT_MAX
    /\ queries \in 0 .. MAX_QUERIES
    /\ session \in [Query -> Session \cup {LUA_REFNIL}]
    /\ timer \in [Query -> {"none", "running", "expired", "closed"}]
    /\ result \in [Query -> Status \cup
                   {"unused", "pending", "sent", "NL_ENOCONTEXT", "NL_ETIMEOUT"}]
    /\ resumed \subseteq (Query \cup {NOT_A_QUERY}) \X Query
    /\ sending \in Query \cup {0}
    /\ reply_queue \in Seq(({"reply"} \X Query \X Status) \cup ({"timeout"} \X Query))
    /\ replier_valid \in BOOLEAN
    /\ query_queue \in Seq(Query)
    /\ heard \subseteq Query

\* A reply resumes the code of its own query, never that of another query or of
\* anything else, however sessions are freed and timers expire meanwhile
\* (context_lua.cpp:461-485, 653-687).
RepliesMatch == \A p \in resumed : p[1] = p[2]

\* The caller's sessions in use are those of the pending queries and of other things,
\* and as many as are counted: the count decides when a context ends.  The timer of a
\* query that has ended is closed (context_lua.cpp:302-312, 497-516, 557-568).
SessionsExact ==
    /\ QueryTypeOK
    /\ \A s \in Session \ Others :
          ref_session[s] # 0 => /\ session[ref_session[s]] = s
                                  /\ result[ref_session[s]] = "pending"
    /\ \A q \in Query : result[q] = "pending" => ref_session[session[q]] = q
    /\ ref_session_count = Cardinality({s \in Session : ref_session[s] # 0})
    /\ \A q \in Query : timer[q] \in {"running", "expired"} => result[q] = "pending"

\* A query ends: when it is timed, whatever the replier does; any other, unless the
\* replier's Lua code gets it (context_lua.cpp:1083-1107, 760-818).
QueryEnds ==
    \A q \in Query : (result[q] = "pending")
        ~> (result[q] # "pending" \/ (q \in heard /\ timer[q] = "none"))
=============================================================================
