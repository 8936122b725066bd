--------------------------- MODULE MCContextCalls ---------------------------
(***************************************************************************)
(* Model of the calls that Lua code makes to other contexts: context.wait  *)
(* (ContextWait), and context.query, send and reply (ContextQuery).  Both  *)
(* keep their callers in the same members of a Lua context, but share no   *)
(* entry of them: a behaviour moves one, chosen at the start.              *)
(***************************************************************************)
EXTENDS MCContextWait, ContextQuery

VARIABLE which                                               \* the part that moves

callsVars == <<which, vars, queryVars>>

CallsInit == which \in {"wait", "query"} /\ Init /\ QueryInit

CallsNext ==
    \/ which = "wait" /\ Next /\ UNCHANGED <<which, queryVars>>
    \/ which = "query" /\ QueryNext /\ UNCHANGED <<which, vars>>

WaitStep(c) == which = "wait" /\ Step(c)
WaitReceive(c) == which = "wait" /\ Receive(c)

\* The fairness that the two modules assume; what is fair in ContextQuery is not
\* enabled before a query is sent.
CallsSpec ==
    /\ CallsInit /\ [][CallsNext]_callsVars
    /\ \A c \in Context : WF_vars(WaitStep(c)) /\ SF_vars(WaitReceive(c))
    /\ WF_queryVars(CallerStep) /\ WF_queryVars(ReplierStep)
    /\ \A q \in Query : WF_queryVars(query_timedout(q))

-----------------------------------------------------------------------------
\* A call of another context ends: a wait when that context has ended, a query unless
\* it has no time-out and the replier's Lua code gets it.  This is WaitEnds or QueryEnds,
\* whichever part moves, as one formula (context_lua.cpp:84-105, 760-818, 1083-1107).
Owed(i) ==
    IF which = "wait" THEN i \in Wait /\ wait[i].status = "pending" /\ ~valid[wait[i].id]
    ELSE i \in Query /\ result[i] = "pending"
Over(i) ==
    IF which = "wait" THEN wait[i].status # "pending"
    ELSE result[i] # "pending" \/ (i \in heard /\ timer[i] = "none")

CallsEnd == \A i \in Wait \cup Query : Owed(i) ~> Over(i)
=============================================================================
