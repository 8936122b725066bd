----------------------------- MODULE HandlesProofs -----------------------------
(***************************************************************************)
(* The life of handles, for any number of handles, numbers and events:     *)
(* neither a pointer nor a number reaches an object that is gone, and      *)
(* whatever the context and the network thread do, every uv handle is      *)
(* closed in the end.                                                      *)
(*                                                                         *)
(* What the three properties say of objects holds because of what is on    *)
(* its way to them.  The invariant says, of every request and every        *)
(* message, at which point of its handle's life it can be on its way       *)
(* (Requested, Told), and, of every handle at such a point, that it is     *)
(* (Owed).  A number is taken from when the lua handle is made until       *)
(* neither side knows of it any more (Numbers).                            *)
(*                                                                         *)
(* And what the script starts with a handle and hears of later: its        *)
(* callbacks run for what they were given for, and once where they should, *)
(* whatever numbers of sessions are taken again.  That follows from what   *)
(* is counted: a session is its user's, and its user's only (Sessions); a  *)
(* run that is queued has one (QueuedFor); a socket that was closed keeps  *)
(* its own only while a message that will free it is queued (Life).        *)
(***************************************************************************)
EXTENDS Handles, Callbacks, FiniteSetTheorems, FunctionTheorems, TLAPS

-----------------------------------------------------------------------------
(* The invariant.                                                           *)

\* A message, or a request, of this type for handle h is on its way.
Listed(q, type, h) == \E i \in 1 .. Len(q) : q[i][1] = type /\ q[i][2] = h

\* The Lua state still has the object, and the context has yet to hear that the uv
\* handle is gone.
LuaThere(h) == lua[h] \in {"open", "closed"}
UvThere(h) ==
    /\ uv_lua_ref[h] # NIL
    /\ uv[h] # "deleted" \/ Listed(m_message_queue, "handle_close", h)

Lives == \A h \in Handle :
    /\ m_lua_ref[h] = uv_lua_ref[h]
    /\ lua[h] = "none" <=> m_lua_ref[h] = NIL
    /\ lua[h] # "none" => uv[h] \in {"created", "open", "closing", "deleted"}
    /\ lua[h] = "open" => uv[h] \in {"created", "open"}
    /\ h \in Timer => /\ session[h] = "none"
                      /\ uv[h] \notin {"resolving", "connecting"}
                      /\ uv[h] = "none" <=> lua[h] = "none"
    /\ h \notin Timer => /\ uv[h] # "created"
                         /\ session[h] = "none" => uv[h] = "none"
    /\ context = "retired" => ~LuaThere(h)
    /\ session[h] \in Calls => context = "running" /\ lua[h] = "none"

\* What a request in the pipe says of its handle.
RequestedOf(p) == \A i \in 1 .. Len(p) :
    LET type == p[i][1]  h == p[i][2] IN
    /\ h \in Handle
    /\ type \in Requests \cup {"timer_start", "wshared", "wunshared", "close"}
    /\ type \in Requests =>
           /\ h \notin Timer /\ uv[h] = "none" /\ session[h] # "none"
           /\ \A j \in 1 .. Len(p) : p[j][2] = h => j = i
    /\ type = "timer_start" => h \in Timer /\ uv[h] \in {"created", "open"}
    /\ type \in {"wshared", "wunshared"} =>
           h \notin Timer /\ uv[h] = "open" /\ lua[h] # "none"
    /\ type = "close" =>
           /\ uv[h] \in {"created", "open"} /\ lua[h] # "open"
           /\ ~Listed(m_message_queue, "userdata", h)
           /\ \A j \in 1 .. Len(p) : p[j][2] = h => j <= i

Requested == RequestedOf(pipe)

\* What a message in the queue says of its handle.
Told == \A i \in 1 .. Len(m_message_queue) :
    LET type == m_message_queue[i][1]  h == m_message_queue[i][2] IN
    /\ h \in Handle /\ type \in {"userdata", "error", "event", "handle_close"}
    /\ type = "userdata" =>
           /\ h \notin Timer /\ uv[h] = "open" /\ lua[h] = "none"
           /\ \A j \in 1 .. Len(m_message_queue) :
                  m_message_queue[j][1] = "userdata" /\ m_message_queue[j][2] = h
                      => j = i
    /\ type = "error" =>
           h \notin Timer /\ uv[h] \in {"closing", "deleted"} /\ lua[h] = "none"
    /\ type = "event" =>
           /\ lua[h] # "none" /\ m_message_queue[i][3] = m_lua_ref[h]
           /\ context = "running" => UvThere(h)
    /\ type = "handle_close" =>
           /\ lua[h] # "none" /\ m_message_queue[i][3] = m_lua_ref[h]
           /\ uv[h] = "deleted"
           /\ \A j \in 1 .. Len(m_message_queue) :
                  m_message_queue[j][2] = h => j <= i

\* The request or the message that a handle at some point of its life waits for.
Owed == \A h \in Handle :
    /\ uv[h] = "none" /\ session[h] # "none" =>
           \E type \in Requests : Listed(pipe, type, h)
    /\ uv[h] = "created" => Listed(pipe, "timer_start", h)
    /\ uv[h] \in {"created", "open"} /\ lua[h] \in {"closed", "collected"} =>
           Listed(pipe, "close", h)
    /\ uv[h] = "open" /\ lua[h] = "none" =>
           Listed(pipe, "close", h) \/ Listed(m_message_queue, "userdata", h)
    /\ session[h] \in Calls =>
           \/ uv[h] \in {"none", "resolving", "connecting"}
           \/ Listed(m_message_queue, "userdata", h)
           \/ Listed(m_message_queue, "error", h)

\* A number has one handle, and the table knows which side is still there.
Numbers ==
    /\ \A g, h \in Handle :
           /\ handle_set(g) = handle_set(h) /\ m_lua_ref[g] = m_lua_ref[h]
           /\ LuaThere(g) \/ UvThere(g)
           /\ LuaThere(h) \/ UvThere(h)
           => g = h
    /\ context = "running" => \A h \in Handle :
           /\ LuaThere(h) /\ UvThere(h) =>
                  m_lua_ref_table[handle_set(h)][m_lua_ref[h]] = h
           /\ ~(LuaThere(h) <=> UvThere(h)) =>
                  m_lua_ref_table[handle_set(h)][m_lua_ref[h]] = Null
    /\ context = "running" => \A s \in {"timers", "sockets"}, r \in Ref :
           m_lua_ref_table[s][r] # Free =>
               \E h \in Handle : /\ handle_set(h) = s /\ m_lua_ref[h] = r
                                 /\ LuaThere(h) \/ UvThere(h)

\* The table of shared writes points to sockets that live, each at its number.
Shared == \A r \in Ref : m_shared_write_sockets[r] # NIL =>
    /\ m_shared_write_sockets[r] \notin Timer
    /\ uv[m_shared_write_sockets[r]] \in {"open", "closing"}
    /\ uv_lua_ref[m_shared_write_sockets[r]] = r

\* The types, one by one.
Message == ({"userdata", "error"} \X Handle)
           \cup ({"event", "handle_close"} \X Handle \X Ref)
Sent == (Requests \cup {"timer_start", "wshared", "wunshared", "close"}) \X Handle
UvState == {"none", "created", "resolving", "connecting", "open", "closing", "deleted"}

ContextType == context \in {"running", "closing", "retired"}
LuaType == lua \in [Handle -> {"none", "open", "closed", "collected"}]
RefType == m_lua_ref \in [Handle -> Ref \cup {NIL}]
TableType == m_lua_ref_table \in
    [{"timers", "sockets"} -> [Ref -> Handle \cup {Free, Null}]]
SessionType == session \in [Handle -> {"none", "over"} \cup Calls]
QueueType == m_message_queue \in Seq(Message)
PipeType == pipe \in Seq(Sent)
UvType == uv \in [Handle -> UvState]
UvRefType == uv_lua_ref \in [Handle -> Ref \cup {NIL}]
SharedType == m_shared_write_sockets \in [Ref \cup {NIL} -> Handle \cup {NIL}]
CountType == /\ uses \in [Handle -> 0 .. MAX_EVENTS]
             /\ events \in [Handle -> 0 .. MAX_EVENTS]

Types == /\ ContextType /\ LuaType /\ RefType /\ TableType /\ SessionType
         /\ QueueType /\ PipeType /\ UvType /\ UvRefType /\ SharedType /\ CountType

HandlesInv == Types /\ Lives /\ Requested /\ Told /\ Owed /\ Numbers /\ Shared

\* The types of the module are those of the invariant.
LEMMA TypesAre == Types <=> HandlesTypeOK
  BY DEF Types, HandlesTypeOK, ContextType, LuaType, RefType, TableType, SessionType,
         QueueType, PipeType, UvType, UvRefType, SharedType, CountType, Message,
         Sent, UvState

-----------------------------------------------------------------------------
(* Sequences.                                                               *)

\* p is q with m at its end, and what is then on its way.
Longer(q, p, m) ==
    /\ Len(q) \in Nat /\ Len(p) = Len(q) + 1
    /\ \A i \in 1 .. Len(q) : p[i] = q[i]
    /\ p[Len(q) + 1] = m
    /\ \A type, h : Listed(p, type, h) <=>
           Listed(q, type, h) \/ (m[1] = type /\ m[2] = h)

\* p is q without its head, and what is then still on its way.
Shorter(q, p) ==
    /\ Len(q) \in Nat /\ Len(q) > 0 /\ Len(p) = Len(q) - 1
    /\ Head(q) = q[1]
    /\ \A i \in 1 .. Len(p) : i + 1 \in 1 .. Len(q) /\ p[i] = q[i + 1]
    /\ \A type, h : Listed(p, type, h) => Listed(q, type, h)
    /\ \A type, h : Listed(q, type, h) =>
           Listed(p, type, h) \/ (q[1][1] = type /\ q[1][2] = h)

\* Append.
LEMMA Appended ==
    ASSUME NEW S, NEW q \in Seq(S), NEW m \in S, NEW p, p = Append(q, m)
    PROVE  p \in Seq(S) /\ Longer(q, p, m)
<1>1. /\ p \in Seq(S) /\ Len(q) \in Nat /\ Len(p) = Len(q) + 1
      /\ \A i \in 1 .. Len(q) : p[i] = q[i]
      /\ p[Len(q) + 1] = m
  OBVIOUS
<1>2. ASSUME NEW type, NEW h
      PROVE  Listed(p, type, h) <=> Listed(q, type, h) \/ (m[1] = type /\ m[2] = h)
  BY <1>1 DEF Listed
<1>. QED BY <1>1, <1>2 DEF Longer

\* Tail.
LEMMA Removed ==
    ASSUME NEW S, NEW q \in Seq(S), q # << >>, NEW p, p = Tail(q)
    PROVE  p \in Seq(S) /\ q[1] \in S /\ Shorter(q, p)
<1>1. /\ p \in Seq(S) /\ Len(q) \in Nat /\ Len(q) > 0 /\ Len(p) = Len(q) - 1
      /\ Head(q) = q[1] /\ q[1] \in S
      /\ \A i \in 1 .. Len(p) : i + 1 \in 1 .. Len(q) /\ p[i] = q[i + 1]
  OBVIOUS
<1>2. ASSUME NEW type, NEW h, Listed(p, type, h)
      PROVE  Listed(q, type, h)
  BY <1>1, <1>2 DEF Listed
<1>3. ASSUME NEW type, NEW h, Listed(q, type, h)
      PROVE  Listed(p, type, h) \/ (q[1][1] = type /\ q[1][2] = h)
  <2>1. PICK i \in 1 .. Len(q) : q[i][1] = type /\ q[i][2] = h
    BY <1>3 DEF Listed
  <2>2. CASE i = 1
    BY <2>1, <2>2
  <2>3. CASE i # 1
    <3>1. i - 1 \in 1 .. Len(p) /\ p[i - 1] = q[i]
      BY <1>1, <2>3
    <3>. QED BY <2>1, <3>1 DEF Listed
  <2>. QED BY <2>2, <2>3
<1>. QED BY <1>1, <1>2, <1>3 DEF Shorter

\* Every request, and every message, that is on its way is about a handle.
LEMMA AboutHandles ==
    ASSUME Requested, Told
    PROVE  /\ \A i \in 1 .. Len(pipe) : pipe[i][2] \in Handle
           /\ \A i \in 1 .. Len(m_message_queue) : m_message_queue[i][2] \in Handle
  BY DEF Requested, RequestedOf, Told

\* An action that leaves the numbers alone, and changes nobody's place in them.
LEMMA NumbersKept ==
    ASSUME Numbers, UNCHANGED <<m_lua_ref, m_lua_ref_table>>,
           context' = "running" => context = "running",
           \A h \in Handle : /\ LuaThere(h)' <=> LuaThere(h)
                             /\ UvThere(h)' <=> UvThere(h)
    PROVE  Numbers'
  BY DEF Numbers

\* At the start nothing is on its way.
LEMMA InvInit == HandlesInit => HandlesInv
<1>. SUFFICES ASSUME HandlesInit PROVE HandlesInv
  OBVIOUS
<1>1. HandlesTypeOK
  BY HandlesAssumption DEF HandlesInit, HandlesTypeOK, Free
<1>2. Lives /\ Requested /\ Told /\ Owed /\ Shared
  BY HandlesAssumption
     DEF HandlesInit, Lives, Requested, RequestedOf, Told, Owed, Shared, LuaThere, Calls
<1>3. \A h \in Handle : ~LuaThere(h) /\ ~UvThere(h)
  BY DEF HandlesInit, LuaThere, UvThere
<1>4. Numbers
  BY <1>3 DEF HandlesInit, Numbers
<1>. QED BY <1>1, <1>2, <1>4, TypesAre DEF HandlesInv

\* A new lua handle takes a number that is free.
LEMMA Grabbed ==
    ASSUME Numbers, TableType, RefType, NEW h \in Handle, NEW r \in Ref, HandlesAssumption,
           ~LuaThere(h), ~UvThere(h), LuaThere(h)', UvThere(h)',
           m_lua_ref_table[handle_set(h)][r] = Free,
           m_lua_ref_table' = [m_lua_ref_table EXCEPT ![handle_set(h)][r] = h],
           m_lua_ref' = [m_lua_ref EXCEPT ![h] = r], context = "running",
           \A g \in Handle \ {h} : /\ LuaThere(g)' <=> LuaThere(g)
                                   /\ UvThere(g)' <=> UvThere(g)
    PROVE  Numbers'
<1>1. handle_set(h) \in {"timers", "sockets"} /\ Free \notin Handle /\ Null \notin Handle
      /\ Free # Null
  BY DEF handle_set, HandlesAssumption, Free, Null
<1>2. /\ m_lua_ref_table'[handle_set(h)][r] = h
      /\ \A s \in {"timers", "sockets"}, q \in Ref : s # handle_set(h) \/ q # r =>
             m_lua_ref_table'[s][q] = m_lua_ref_table[s][q]
  BY <1>1 DEF TableType
<1>3. /\ m_lua_ref'[h] = r
      /\ \A g \in Handle \ {h} : m_lua_ref'[g] = m_lua_ref[g]
  BY DEF RefType
<1>4. \A g \in Handle \ {h} : LuaThere(g) \/ UvThere(g) =>
          handle_set(g) # handle_set(h) \/ m_lua_ref[g] # r
  <2>. SUFFICES ASSUME NEW g \in Handle \ {h}, LuaThere(g) \/ UvThere(g),
                       handle_set(g) = handle_set(h), m_lua_ref[g] = r
                PROVE  FALSE
    OBVIOUS
  <2>1. m_lua_ref_table[handle_set(g)][m_lua_ref[g]] \in {g, Null}
    BY DEF Numbers
  <2>. QED BY <1>1, <2>1
<1>5. \A g1, g2 \in Handle :
          /\ handle_set(g1) = handle_set(g2) /\ m_lua_ref'[g1] = m_lua_ref'[g2]
          /\ LuaThere(g1)' \/ UvThere(g1)'
          /\ LuaThere(g2)' \/ UvThere(g2)'
          => g1 = g2
  BY <1>3, <1>4 DEF Numbers
<1>6. ASSUME NEW g \in Handle
      PROVE  /\ LuaThere(g)' /\ UvThere(g)' =>
                    m_lua_ref_table'[handle_set(g)][m_lua_ref'[g]] = g
             /\ ~(LuaThere(g)' <=> UvThere(g)') =>
                    m_lua_ref_table'[handle_set(g)][m_lua_ref'[g]] = Null
  <2>1. CASE g = h
    BY <1>2, <1>3, <2>1
  <2>2. CASE g # h /\ (LuaThere(g) \/ UvThere(g))
    <3>1. handle_set(g) \in {"timers", "sockets"}
      BY DEF handle_set
    <3>2. m_lua_ref[g] \in Ref \cup {NIL}
      BY DEF RefType
    <3>3. m_lua_ref_table'[handle_set(g)] [m_lua_ref[g]]
              = m_lua_ref_table[handle_set(g)][m_lua_ref[g]]
      BY <1>1, <1>4, <2>2, <3>1 DEF TableType
    <3>. QED BY <1>3, <2>2, <3>3 DEF Numbers
  <2>. QED BY <2>1, <2>2
<1>7. ASSUME NEW s \in {"timers", "sockets"}, NEW q \in Ref, m_lua_ref_table'[s][q] # Free
      PROVE  \E g \in Handle : /\ handle_set(g) = s /\ m_lua_ref'[g] = q
                               /\ LuaThere(g)' \/ UvThere(g)'
  <2>1. CASE s = handle_set(h) /\ q = r
    BY <1>3, <2>1
  <2>2. CASE s # handle_set(h) \/ q # r
    <3>1. PICK g \in Handle : /\ handle_set(g) = s /\ m_lua_ref[g] = q
                              /\ LuaThere(g) \/ UvThere(g)
      BY <1>2, <1>7, <2>2 DEF Numbers
    <3>. QED BY <1>3, <3>1
  <2>. QED BY <2>1, <2>2
<1>. QED BY <1>5, <1>6, <1>7 DEF Numbers

\* One side of handle h is gone: the number is NULL if the other is there, and free
\* if it is not.
LEMMA Released ==
    ASSUME Numbers, TableType, NEW h \in Handle, HandlesAssumption,
           LuaThere(h) \/ UvThere(h), m_lua_ref[h] \in Ref,
           ~(LuaThere(h)' /\ UvThere(h)'),
           LuaThere(h) /\ UvThere(h) => LuaThere(h)' \/ UvThere(h)',
           ~(LuaThere(h) <=> UvThere(h)) => ~LuaThere(h)' /\ ~UvThere(h)',
           release_ref(m_lua_ref[h], handle_set(h)), m_lua_ref' = m_lua_ref,
           context' = context,
           \A g \in Handle \ {h} : /\ LuaThere(g)' <=> LuaThere(g)
                                   /\ UvThere(g)' <=> UvThere(g)
    PROVE  Numbers'
<1>. DEFINE r == m_lua_ref[h]
            set == handle_set(h)
<1>1. set \in {"timers", "sockets"} /\ Free \notin Handle /\ Null \notin Handle
      /\ Free # Null
  BY DEF handle_set, HandlesAssumption, Free, Null
<1>2. /\ m_lua_ref_table'[set][r] =
             IF m_lua_ref_table[set][r] \in Handle THEN Null ELSE Free
      /\ \A s \in {"timers", "sockets"}, q \in Ref : s # set \/ q # r =>
             m_lua_ref_table'[s][q] = m_lua_ref_table[s][q]
      /\ \A s \in {"timers", "sockets"} : s # set =>
             m_lua_ref_table'[s] = m_lua_ref_table[s]
      /\ \A q : q # r => m_lua_ref_table'[set][q] = m_lua_ref_table[set][q]
  BY <1>1 DEF TableType, release_ref
<1>3. \A g \in Handle \ {h} : LuaThere(g) \/ UvThere(g) =>
          handle_set(g) # set \/ m_lua_ref[g] # r
  BY DEF Numbers
<1>4. \A g1, g2 \in Handle :
          /\ handle_set(g1) = handle_set(g2) /\ m_lua_ref'[g1] = m_lua_ref'[g2]
          /\ LuaThere(g1)' \/ UvThere(g1)'
          /\ LuaThere(g2)' \/ UvThere(g2)'
          => g1 = g2
  BY DEF Numbers
<1>5. ASSUME context' = "running", NEW g \in Handle
      PROVE  /\ LuaThere(g)' /\ UvThere(g)' =>
                    m_lua_ref_table'[handle_set(g)][m_lua_ref[g]] = g
             /\ ~(LuaThere(g)' <=> UvThere(g)') =>
                    m_lua_ref_table'[handle_set(g)][m_lua_ref[g]] = Null
  <2>1. CASE g = h
    <3>1. LuaThere(h) /\ UvThere(h) => m_lua_ref_table[set][r] = h
      BY <1>5 DEF Numbers
    <3>. QED BY <1>2, <2>1, <3>1
  <2>2. CASE g # h /\ (LuaThere(g) \/ UvThere(g))
    <3>1. handle_set(g) \in {"timers", "sockets"}
      BY DEF handle_set
    <3>2. m_lua_ref_table'[handle_set(g)][m_lua_ref[g]]
              = m_lua_ref_table[handle_set(g)][m_lua_ref[g]]
      BY <1>2, <1>3, <2>2, <3>1
    <3>. QED BY <1>5, <2>2, <3>2 DEF Numbers
  <2>. QED BY <2>1, <2>2
<1>6. ASSUME context' = "running", NEW s \in {"timers", "sockets"}, NEW q \in Ref,
             m_lua_ref_table'[s][q] # Free
      PROVE  \E g \in Handle : /\ handle_set(g) = s /\ m_lua_ref[g] = q
                               /\ LuaThere(g)' \/ UvThere(g)'
  <2>1. CASE s = set /\ q = r
    <3>1. m_lua_ref_table[set][r] \in Handle
      BY <1>2, <1>6, <2>1
    <3>2. LuaThere(h) /\ UvThere(h)
      BY <1>1, <1>6, <3>1 DEF Numbers
    <3>. QED BY <2>1, <3>2
  <2>2. CASE s # set \/ q # r
    <3>1. PICK g \in Handle : /\ handle_set(g) = s /\ m_lua_ref[g] = q
                              /\ LuaThere(g) \/ UvThere(g)
      BY <1>2, <1>6, <2>2 DEF Numbers
    <3>. QED BY <2>2, <3>1
  <2>. QED BY <2>1, <2>2
<1>. QED BY <1>4, <1>5, <1>6 DEF Numbers

-----------------------------------------------------------------------------
(* One lemma per action.                                                    *)

\* The network thread is asked to open a socket.
LEMMA AskStep ==
    ASSUME HandlesInv, NEW h \in Handle, NEW request \in Requests, NEW call \in Calls,
           Ask(h, request, call)
    PROVE  HandlesInv'
<1>. USE HandlesAssumption DEF HandlesInv, Types
<1>1. /\ context = "running" /\ h \notin Timer /\ session[h] = "none"
      /\ session' = [session EXCEPT ![h] = call]
      /\ pipe' = Append(pipe, <<request, h>>)
      /\ UNCHANGED <<context, lua, m_lua_ref, m_lua_ref_table, m_message_queue,
                     uv, uv_lua_ref, m_shared_write_sockets, uses, events>>
  BY DEF Ask, send_request, net, table, Socket
<1>2. pipe' \in Seq(Sent) /\ Longer(pipe, pipe', <<request, h>>)
  <2>1. pipe \in Seq(Sent) /\ <<request, h>> \in Sent
    BY DEF PipeType, Sent
  <2>. QED BY <1>1, <2>1, Appended
<1>3. /\ uv[h] = "none" /\ lua[h] = "none"
      /\ \A i \in 1 .. Len(pipe) : pipe[i][2] # h
  BY <1>1 DEF Lives, Requested, RequestedOf
<1>4. Types'
  BY <1>1, <1>2 DEF ContextType, LuaType, RefType, TableType, SessionType, QueueType,
         PipeType, UvType, UvRefType, SharedType, CountType, UvState
<1>5. Lives'
  BY <1>1, <1>3 DEF Lives, SessionType, LuaThere, Calls
<1>6. Requested'
  <2>1. /\ \A i \in 1 .. Len(pipe') : i <= Len(pipe) \/ i = Len(pipe) + 1
        /\ pipe'[Len(pipe) + 1][1] = request /\ pipe'[Len(pipe) + 1][2] = h
    BY <1>2 DEF Longer
  <2>2. \A g \in Handle : session[g] # "none" => session'[g] # "none"
    BY <1>1 DEF SessionType, Calls
  <2>3. session'[h] # "none"
    BY <1>1 DEF SessionType, Calls
  <2>. QED BY <1>1, <1>2, <1>3, <2>1, <2>2, <2>3, SMTT(30)
           DEF Requested, RequestedOf, Longer, Requests
<1>7. Told'
  BY <1>1 DEF Told, UvThere
<1>8. Owed'
  BY <1>1, <1>2, <1>3 DEF Owed, SessionType, Longer, Calls
<1>9. Numbers'
  BY <1>1, NumbersKept DEF LuaThere, UvThere
<1>10. Shared'
  BY <1>1 DEF Shared
<1>. QED BY <1>4, <1>5, <1>6, <1>7, <1>8, <1>9, <1>10

\* connect_timed_out: the call is over, the connection goes on.
LEMMA ConnectTimedOut ==
    ASSUME HandlesInv, NEW h \in Handle, connect_timed_out(h)
    PROVE  HandlesInv'
<1>. USE HandlesAssumption DEF HandlesInv, Types
<1>1. /\ session[h] = "timed" /\ session' = [session EXCEPT ![h] = "over"]
      /\ UNCHANGED <<context, lua, m_lua_ref, m_lua_ref_table, m_message_queue,
                     pipe, uv, uv_lua_ref, m_shared_write_sockets, uses, events>>
  BY DEF connect_timed_out, net, table
<1>2. Types'
  BY <1>1 DEF ContextType, LuaType, RefType, TableType, SessionType, QueueType,
         PipeType, UvType, UvRefType, SharedType, CountType, UvState
<1>3. Lives' /\ Requested' /\ Told' /\ Owed'
  <2>1. Lives'
    BY <1>1 DEF Lives, SessionType, LuaThere, Calls
  <2>2. Requested'
    BY <1>1 DEF Requested, RequestedOf, SessionType
  <2>3. Told'
    BY <1>1 DEF Told, UvThere
  <2>4. Owed'
    BY <1>1 DEF Owed, SessionType, Calls
  <2>. QED BY <2>1, <2>2, <2>3, <2>4
<1>4. Numbers' /\ Shared'
  BY <1>1, NumbersKept DEF LuaThere, UvThere, Shared
<1>. QED BY <1>2, <1>3, <1>4

\* use: an option or a start of the timer follows the requests of its handle.
LEMMA UseStep ==
    ASSUME HandlesInv, NEW h \in Handle, NEW type \in {"wshared", "wunshared"},
           use(h, type)
    PROVE  HandlesInv'
<1>. USE HandlesAssumption DEF HandlesInv, Types
<1>1. /\ h \notin Timer /\ lua[h] = "open" /\ uses[h] < MAX_EVENTS
      /\ uses' = [uses EXCEPT ![h] = @ + 1]
      /\ pipe' = Append(pipe, <<type, h>>)
      /\ UNCHANGED <<context, lua, m_lua_ref, m_lua_ref_table, session,
                     m_message_queue, uv, uv_lua_ref, m_shared_write_sockets,
                     events>>
  BY DEF use, send_request, net, table, Socket
<1>2. pipe' \in Seq(Sent) /\ Longer(pipe, pipe', <<type, h>>)
  <2>1. pipe \in Seq(Sent) /\ <<type, h>> \in Sent
    BY DEF PipeType, Sent
  <2>. QED BY <1>1, <2>1, Appended
<1>3. Types'
  BY <1>1, <1>2 DEF ContextType, LuaType, RefType, TableType, SessionType, QueueType,
         PipeType, UvType, UvRefType, SharedType, CountType, UvState
<1>4. Lives'
  BY <1>1 DEF Lives, LuaThere
<1>5. Requested'
  BY <1>1, <1>2 DEF Requested, RequestedOf, Lives, Longer, Requests
<1>6. Told'
  BY <1>1 DEF Told, UvThere
<1>7. Owed'
  BY <1>1, <1>2 DEF Owed, Longer
<1>8. Numbers' /\ Shared'
  BY <1>1, NumbersKept DEF LuaThere, UvThere, Shared
<1>. QED BY <1>3, <1>4, <1>5, <1>6, <1>7, <1>8

\* close: the close request is the last of its handle.
LEMMA CloseStep ==
    ASSUME HandlesInv, NEW h \in Handle, close(h)
    PROVE  HandlesInv'
<1>. USE HandlesAssumption DEF HandlesInv, Types
<1>1. /\ lua[h] = "open" /\ lua' = [lua EXCEPT ![h] = "closed"]
      /\ pipe' = Append(pipe, <<"close", h>>)
      /\ UNCHANGED <<context, m_lua_ref, m_lua_ref_table, session,
                     m_message_queue, uv, uv_lua_ref, m_shared_write_sockets,
                     uses, events>>
  BY DEF close, _close, send_request, net
<1>2. pipe' \in Seq(Sent) /\ Longer(pipe, pipe', <<"close", h>>)
  <2>1. pipe \in Seq(Sent) /\ <<"close", h>> \in Sent
    BY DEF PipeType, Sent
  <2>. QED BY <1>1, <2>1, Appended
<1>3. Types'
  BY <1>1, <1>2 DEF ContextType, LuaType, RefType, TableType, SessionType, QueueType,
         PipeType, UvType, UvRefType, SharedType, CountType, UvState
<1>4. \A g \in Handle : /\ LuaThere(g)' <=> LuaThere(g)
                        /\ UvThere(g)' <=> UvThere(g)
  BY <1>1 DEF LuaThere, UvThere, LuaType
<1>5. Lives'
  BY <1>1, <1>4 DEF Lives, LuaType
<1>6. Requested'
  BY <1>1, <1>2 DEF Requested, RequestedOf, LuaType, Lives, Told, Listed, Requests, Longer
<1>7. Told'
  BY <1>1, <1>4 DEF Told, LuaType
<1>8. Owed'
  BY <1>1, <1>2 DEF Owed, Lives, LuaType, Longer
<1>9. Numbers' /\ Shared'
  BY <1>1, <1>4, NumbersKept DEF Shared
<1>. QED BY <1>3, <1>5, <1>6, <1>7, <1>8, <1>9

\* context_destroy: every socket that is open to Lua is closed.
LEMMA ContextDestroy ==
    ASSUME HandlesInv, context_destroy
    PROVE  HandlesInv'
<1>. USE HandlesAssumption DEF HandlesInv, Types
<1>1. /\ context = "running" /\ context' = "closing"
      /\ session' = [h \in Handle |-> IF session[h] \in Calls THEN "over" ELSE session[h]]
      /\ UNCHANGED <<lua, m_lua_ref, m_lua_ref_table, m_message_queue, pipe, uv,
                     uv_lua_ref, m_shared_write_sockets, uses, events>>
  BY DEF context_destroy, net, table
<1>2. Types'
  BY <1>1 DEF ContextType, LuaType, RefType, TableType, SessionType, QueueType,
         PipeType, UvType, UvRefType, SharedType, CountType, UvState
<1>3. Lives' /\ Requested' /\ Told' /\ Owed'
  <2>1. Lives'
    BY <1>1 DEF Lives, SessionType, LuaThere, Calls
  <2>2. Requested'
    BY <1>1 DEF Requested, RequestedOf, SessionType, Calls
  <2>3. Told'
    BY <1>1 DEF Told, UvThere
  <2>4. Owed'
    BY <1>1 DEF Owed, SessionType, Calls
  <2>. QED BY <2>1, <2>2, <2>3, <2>4
<1>4. Numbers' /\ Shared'
  BY <1>1, NumbersKept DEF LuaThere, UvThere, Shared
<1>. QED BY <1>2, <1>3, <1>4

\* retire_context: no object is left to the Lua state.
LEMMA RetireContext ==
    ASSUME HandlesInv, retire_context
    PROVE  HandlesInv'
<1>. USE HandlesAssumption DEF HandlesInv, Types
<1>1. /\ context = "closing" /\ context' = "retired"
      /\ \A h \in Handle : ~LuaThere(h)
      /\ UNCHANGED <<lua, m_lua_ref, m_lua_ref_table, session, m_message_queue,
                     pipe, uv, uv_lua_ref, m_shared_write_sockets, uses, events>>
  BY DEF retire_context, net, table, LuaThere
<1>2. Types'
  BY <1>1 DEF ContextType, LuaType, RefType, TableType, SessionType, QueueType,
         PipeType, UvType, UvRefType, SharedType, CountType, UvState
<1>3. Lives' /\ Requested' /\ Told' /\ Owed'
  BY <1>1 DEF Lives, Requested, RequestedOf, Told, Owed, LuaThere
<1>4. Numbers' /\ Shared'
  BY <1>1, NumbersKept DEF LuaThere, UvThere, Shared
<1>. QED BY <1>2, <1>3, <1>4

\* create_timer: a timer takes a number that is free.
LEMMA CreateTimer ==
    ASSUME HandlesInv, NEW h \in Handle, create_timer(h)
    PROVE  HandlesInv'
<1>. USE HandlesAssumption DEF HandlesInv, Types
<1>1. PICK r \in Ref :
      /\ context = "running" /\ h \in Timer /\ uv[h] = "none"
      /\ m_lua_ref_table[handle_set(h)][r] = Free
      /\ m_lua_ref_table' = [m_lua_ref_table EXCEPT ![handle_set(h)][r] = h]
      /\ m_lua_ref' = [m_lua_ref EXCEPT ![h] = r]
      /\ uv_lua_ref' = [uv_lua_ref EXCEPT ![h] = r]
      /\ lua' = [lua EXCEPT ![h] = "open"]
      /\ uv' = [uv EXCEPT ![h] = "created"]
      /\ pipe' = Append(pipe, <<"timer_start", h>>)
      /\ UNCHANGED <<context, session, m_message_queue, m_shared_write_sockets,
                     uses, events>>
  BY DEF create_timer, grab_ref, send_request
<1>2. pipe' \in Seq(Sent) /\ Longer(pipe, pipe', <<"timer_start", h>>)
  <2>1. pipe \in Seq(Sent) /\ <<"timer_start", h>> \in Sent
    BY DEF PipeType, Sent
  <2>. QED BY <1>1, <2>1, Appended
<1>3. /\ lua[h] = "none" /\ session[h] = "none" /\ m_lua_ref[h] = NIL
      /\ uv_lua_ref[h] = NIL
  BY <1>1 DEF Lives
<1>4. /\ \A i \in 1 .. Len(pipe) : pipe[i][2] # h
      /\ \A i \in 1 .. Len(m_message_queue) : m_message_queue[i][2] # h
  BY <1>1, <1>3 DEF Requested, RequestedOf, Told
<1>5. Types'
  <2>1. TableType'
    BY <1>1 DEF TableType, handle_set
  <2>. QED BY <1>1, <1>2, <2>1
              DEF ContextType, LuaType, RefType, TableType, SessionType, QueueType,
         PipeType, UvType, UvRefType, SharedType, CountType, UvState
<1>6. /\ ~LuaThere(h) /\ ~UvThere(h) /\ LuaThere(h)' /\ UvThere(h)'
      /\ \A g \in Handle \ {h} : /\ LuaThere(g)' <=> LuaThere(g)
                                 /\ UvThere(g)' <=> UvThere(g)
  BY <1>1, <1>3 DEF LuaThere, UvThere, LuaType, UvType, UvRefType
<1>7. Lives' /\ Owed'
  <2>1. /\ lua'[h] = "open" /\ uv'[h] = "created" /\ m_lua_ref'[h] = r
        /\ uv_lua_ref'[h] = r
        /\ \A g \in Handle \ {h} :
               /\ lua'[g] = lua[g] /\ uv'[g] = uv[g]
               /\ m_lua_ref'[g] = m_lua_ref[g] /\ uv_lua_ref'[g] = uv_lua_ref[g]
    BY <1>1 DEF LuaType, UvType, UvRefType, RefType
  <2>2. Lives'
    BY <1>1, <1>3, <1>6, <2>1 DEF Lives, Calls
  <2>3. Owed'
    BY <1>1, <1>2, <1>3, <2>1 DEF Owed, Longer, Calls
  <2>. QED BY <2>2, <2>3
<1>8. Requested'
  BY <1>1, <1>2, <1>4 DEF Requested, RequestedOf, LuaType, UvType, Longer, Requests
<1>9. Told'
  BY <1>1, <1>4, <1>6 DEF Told, LuaType, UvType, RefType
<1>10. Numbers'
  BY <1>1, <1>6, Grabbed
<1>11. Shared'
  <2>1. \A r1 \in Ref : m_shared_write_sockets[r1] \in Handle \cup {NIL}
    BY DEF SharedType
  <2>. QED BY <1>1, <2>1 DEF Shared, UvType, UvRefType
<1>. QED BY <1>5, <1>7, <1>8, <1>9, <1>10, <1>11

\* The lua handle is collected.
LEMMA Release ==
    ASSUME HandlesInv, NEW h \in Handle, release(h)
    PROVE  HandlesInv'
<1>. USE HandlesAssumption DEF HandlesInv, Types
<1>1. /\ lua[h] \in {"open", "closed"}
      /\ IF lua[h] = "open" THEN pipe' = Append(pipe, <<"close", h>>) ELSE pipe' = pipe
      /\ lua' = [lua EXCEPT ![h] = "collected"]
      /\ release_ref(m_lua_ref[h], handle_set(h))
      /\ UNCHANGED <<context, m_lua_ref, session, m_message_queue, uv, uv_lua_ref,
                     m_shared_write_sockets, uses, events>>
  BY DEF release, send_request, net
<1>2. /\ pipe' \in Seq(Sent)
      /\ \/ Longer(pipe, pipe', <<"close", h>>) /\ lua[h] = "open"
         \/ pipe' = pipe /\ lua[h] = "closed"
  <2>1. pipe \in Seq(Sent) /\ <<"close", h>> \in Sent
    BY DEF PipeType, Sent
  <2>. QED BY <1>1, <2>1, Appended
<1>3. m_lua_ref[h] \in Ref
  BY <1>1 DEF Lives, RefType
<1>4. Types'
  <2>1. TableType'
    BY <1>1 DEF TableType, release_ref
  <2>. QED BY <1>1, <1>2, <2>1
              DEF ContextType, LuaType, RefType, TableType, SessionType, QueueType,
         PipeType, UvType, UvRefType, SharedType, CountType, UvState
<1>5. /\ LuaThere(h) /\ ~LuaThere(h)' /\ (UvThere(h)' <=> UvThere(h))
      /\ \A g \in Handle \ {h} : /\ LuaThere(g)' <=> LuaThere(g)
                                 /\ UvThere(g)' <=> UvThere(g)
  BY <1>1 DEF LuaThere, UvThere, LuaType
<1>6. Lives'
  BY <1>1, <1>5 DEF Lives, LuaType, LuaThere
<1>7. Requested'
  <2>1. CASE Longer(pipe, pipe', <<"close", h>>) /\ lua[h] = "open"
    BY <1>1, <2>1, SMTT(30)
       DEF Requested, RequestedOf, LuaType, Lives, Told, Listed, Requests, Longer
  <2>2. CASE pipe' = pipe /\ lua[h] = "closed"
    BY <1>1, <2>2 DEF Requested, RequestedOf, LuaType
  <2>. QED BY <1>2, <2>1, <2>2
<1>8. Told'
  BY <1>1, <1>5 DEF Told, LuaType, UvThere
<1>9. Owed'
  BY <1>1, <1>2 DEF Owed, Lives, LuaType, Longer
<1>10. Numbers'
  BY <1>1, <1>3, <1>5, Released
<1>11. Shared'
  BY <1>1 DEF Shared
<1>. QED BY <1>4, <1>6, <1>7, <1>8, <1>9, <1>10, <1>11

\* The head of the queue is taken.
LEMMA Received1 ==
    ASSUME QueueType, Told, m_message_queue # << >>,
           m_message_queue' = Tail(m_message_queue)
    PROVE  /\ QueueType' /\ Shorter(m_message_queue, m_message_queue')
           /\ Head(m_message_queue) = m_message_queue[1]
           /\ m_message_queue[1] \in Message /\ m_message_queue[1][2] \in Handle
           /\ 1 \in 1 .. Len(m_message_queue)
<1>1. /\ QueueType' /\ Shorter(m_message_queue, m_message_queue')
      /\ m_message_queue[1] \in Message
  BY Removed DEF QueueType
<1>2. Head(m_message_queue) = m_message_queue[1] /\ 1 \in 1 .. Len(m_message_queue)
  BY <1>1 DEF Shorter
<1>. QED BY <1>1, <1>2 DEF Told

\* A socket that was opened gets a lua handle, or is closed if its call is over.
LEMMA WakeupOpen ==
    ASSUME HandlesInv, wakeup_open
    PROVE  HandlesInv'
<1>. USE HandlesAssumption DEF HandlesInv, Types
<1>. PICK h : h = m_message_queue[1][2]
  OBVIOUS
<1>1. /\ context = "running" /\ m_message_queue # << >>
      /\ m_message_queue' = Tail(m_message_queue)
      /\ Head(m_message_queue)[1] = "userdata"
      /\ IF session[Head(m_message_queue)[2]] \in Calls
         THEN create_socket(Head(m_message_queue)[2])
         ELSE close_uv_handle(Head(m_message_queue)[2])
      /\ UNCHANGED <<context, uv, m_shared_write_sockets, uses, events>>
  BY DEF wakeup_open, Received
<1>2. /\ QueueType' /\ Shorter(m_message_queue, m_message_queue')
      /\ Head(m_message_queue) = m_message_queue[1] /\ h \in Handle
      /\ 1 \in 1 .. Len(m_message_queue) /\ m_message_queue[1][1] = "userdata"
  BY <1>1, Received1
<1>3. /\ h \notin Timer /\ uv[h] = "open" /\ lua[h] = "none"
      /\ \A i \in 1 .. Len(m_message_queue) :
             m_message_queue[i][1] = "userdata" /\ m_message_queue[i][2] = h => i = 1
      /\ m_lua_ref[h] = NIL /\ uv_lua_ref[h] = NIL /\ session[h] # "none"
      /\ Listed(m_message_queue, "userdata", h)
  BY <1>2 DEF Told, Lives, Listed
<1>4. /\ \A i \in 1 .. Len(m_message_queue') : m_message_queue'[i][2] # h
      /\ \A type : ~Listed(m_message_queue', type, h)
  <2>1. \A i \in 1 .. Len(m_message_queue) : m_message_queue[i][2] = h => i = 1
    BY <1>3 DEF Told
  <2>2. \A i \in 1 .. Len(m_message_queue') : m_message_queue'[i][2] # h
    BY <1>2, <2>1 DEF Shorter
  <2>. QED BY <2>2 DEF Listed
<1>5. /\ \A type, g : g # h =>
             (Listed(m_message_queue', type, g) <=> Listed(m_message_queue, type, g))
      /\ \A type : type # "userdata" => ~Listed(m_message_queue, type, h)
  <2>1. \A type, g : g # h =>
             (Listed(m_message_queue', type, g) <=> Listed(m_message_queue, type, g))
    BY <1>2 DEF Shorter
  <2>2. \A type : type # "userdata" => ~Listed(m_message_queue, type, h)
    BY <1>2, <1>4 DEF Shorter
  <2>. QED BY <2>1, <2>2
<1>6. \A i \in 1 .. Len(pipe) : pipe[i][2] # h
  BY <1>3 DEF Requested, RequestedOf, Requests
<1>7. CASE session[h] \in Calls
  <2>1. PICK r \in Ref :
        /\ m_lua_ref_table[handle_set(h)][r] = Free
        /\ m_lua_ref_table' = [m_lua_ref_table EXCEPT ![handle_set(h)][r] = h]
        /\ m_lua_ref' = [m_lua_ref EXCEPT ![h] = r]
        /\ uv_lua_ref' = [uv_lua_ref EXCEPT ![h] = r]
        /\ lua' = [lua EXCEPT ![h] = "open"]
        /\ session' = [session EXCEPT ![h] = "over"]
        /\ pipe' = pipe
    BY <1>1, <1>2, <1>7 DEF create_socket, grab_ref
  <2>2. Types'
    <3>1. TableType'
      BY <1>2, <2>1 DEF TableType, handle_set
    <3>. QED BY <1>1, <1>2, <2>1, <3>1
                DEF ContextType, LuaType, RefType, TableType, SessionType, QueueType,
         PipeType, UvType, UvRefType, SharedType, CountType, UvState
  <2>3. /\ ~LuaThere(h) /\ ~UvThere(h) /\ LuaThere(h)' /\ UvThere(h)'
        /\ \A g \in Handle \ {h} : /\ LuaThere(g)' <=> LuaThere(g)
                                   /\ UvThere(g)' <=> UvThere(g)
    BY <1>1, <1>2, <1>3, <1>5, <2>1 DEF LuaThere, UvThere, LuaType, UvRefType
  <2>4. Lives'
    <3>1. /\ lua'[h] = "open" /\ m_lua_ref'[h] = r /\ uv_lua_ref'[h] = r
          /\ session'[h] = "over"
          /\ \A g \in Handle \ {h} :
                 /\ lua'[g] = lua[g] /\ session'[g] = session[g]
                 /\ m_lua_ref'[g] = m_lua_ref[g] /\ uv_lua_ref'[g] = uv_lua_ref[g]
      BY <1>2, <2>1 DEF LuaType, UvRefType, RefType, SessionType
    <3>. QED BY <1>1, <1>2, <1>3, <2>1, <2>3, <3>1 DEF Lives, Calls
  <2>5. Requested'
    BY <1>1, <1>2, <1>6, <2>1, AboutHandles, <1>5
       DEF Requested, RequestedOf, LuaType, SessionType, UvRefType
  <2>6. Told'
    <3>1. \A i \in 1 .. Len(m_message_queue') :
              /\ i + 1 \in 1 .. Len(m_message_queue)
              /\ m_message_queue'[i] = m_message_queue[i + 1]
              /\ m_message_queue[i + 1][2] \in Handle \ {h}
      BY <1>2, <1>4, AboutHandles DEF Shorter
    <3>. QED BY <1>1, <1>2, <2>1, <2>3, <3>1 DEF Told, LuaType, RefType, Shorter
  <2>7. Owed'
    BY <1>1, <1>2, <1>3, <1>5, <2>1 DEF Owed, LuaType, SessionType, Calls
  <2>8. Numbers'
    BY <1>1, <1>2, <2>1, <2>3, Grabbed
  <2>9. Shared'
    <3>1. \A r1 \in Ref : m_shared_write_sockets[r1] \in Handle \cup {NIL}
      BY DEF SharedType
    <3>. QED BY <1>1, <1>2, <1>3, <2>1, <3>1 DEF Shared, UvRefType
  <2>. QED BY <2>2, <2>4, <2>5, <2>6, <2>7, <2>8, <2>9
<1>8. CASE session[h] \notin Calls
  <2>1. /\ pipe' = Append(pipe, <<"close", h>>)
        /\ UNCHANGED <<lua, m_lua_ref, m_lua_ref_table, uv_lua_ref, session>>
    BY <1>1, <1>2, <1>8 DEF close_uv_handle, send_request, table
  <2>2. pipe' \in Seq(Sent) /\ Longer(pipe, pipe', <<"close", h>>)
    <3>1. pipe \in Seq(Sent) /\ <<"close", h>> \in Sent
      BY <1>2 DEF PipeType, Sent
    <3>. QED BY <2>1, <3>1, Appended
  <2>3. Types'
    BY <1>1, <1>2, <2>1, <2>2
       DEF ContextType, LuaType, RefType, TableType, SessionType, QueueType,
         PipeType, UvType, UvRefType, SharedType, CountType, UvState
  <2>4. \A g \in Handle : /\ LuaThere(g)' <=> LuaThere(g)
                          /\ UvThere(g)' <=> UvThere(g)
    BY <1>1, <1>2, <1>3, <1>5, <2>1 DEF LuaThere, UvThere
  <2>5. Lives'
    BY <1>1, <2>1, <2>4 DEF Lives
  <2>6. Requested'
    <3>1. /\ \A i \in 1 .. Len(pipe') : i <= Len(pipe) \/ i = Len(pipe) + 1
          /\ pipe'[Len(pipe) + 1][1] = "close" /\ pipe'[Len(pipe) + 1][2] = h
      BY <2>2 DEF Longer
    <3>2. \A i \in 1 .. Len(pipe) : pipe'[i] = pipe[i] /\ pipe[i][2] # h
      BY <1>6, <2>2 DEF Longer
    <3>3. \A i \in 1 .. Len(pipe) :
              Listed(m_message_queue', "userdata", pipe[i][2]) =>
                  Listed(m_message_queue, "userdata", pipe[i][2])
      BY <1>5, <3>2
    <3>4. ~Listed(m_message_queue', "userdata", h)
      BY <1>4
    <3>. QED BY <1>1, <1>2, <1>3, <2>1, <3>1, <3>2, <3>3, <3>4, SMTT(30)
             DEF Requested, RequestedOf, Requests
  <2>7. Told'
    <3>1. \A i \in 1 .. Len(m_message_queue') :
              /\ i + 1 \in 1 .. Len(m_message_queue)
              /\ m_message_queue'[i] = m_message_queue[i + 1]
              /\ m_message_queue[i + 1][2] \in Handle \ {h}
      BY <1>2, <1>4, AboutHandles DEF Shorter
    <3>. QED BY <1>1, <1>2, <2>1, <2>4, <3>1 DEF Told, Shorter
  <2>8. Owed'
    BY <1>1, <1>2, <1>3, <1>5, <1>8, <2>1, <2>2 DEF Owed, Longer
  <2>9. Numbers' /\ Shared'
    BY <1>1, <2>1, <2>4, NumbersKept DEF Shared
  <2>. QED BY <2>3, <2>5, <2>6, <2>7, <2>8, <2>9
<1>. QED BY <1>7, <1>8

\* What the other messages say stays true.  A number whose handle_close is taken has
\* no event behind it.
LEMMA ToldKept ==
    ASSUME Told, Shorter(m_message_queue, m_message_queue'),
           UNCHANGED <<context, lua, m_lua_ref, uv, uv_lua_ref>>
    PROVE  Told'
<1>1. \A i \in 1 .. Len(m_message_queue') :
          /\ i + 1 \in 1 .. Len(m_message_queue) /\ i + 1 # 1
          /\ m_message_queue'[i] = m_message_queue[i + 1]
  BY DEF Shorter
<1>2. ASSUME NEW i \in 1 .. Len(m_message_queue'), m_message_queue'[i][1] = "event",
             context = "running", NEW g, m_message_queue'[i][2] = g
      PROVE  UvThere(g)'
  <2>1. m_message_queue[i + 1][2] = g /\ UvThere(g)
    BY <1>1, <1>2 DEF Told
  <2>2. CASE m_message_queue[1][1] = "handle_close" /\ m_message_queue[1][2] = g
    <3>1. 1 \in 1 .. Len(m_message_queue) /\ ~(i + 1 <= 1)
      BY <1>1 DEF Shorter
    <3>. QED BY <1>1, <2>1, <2>2, <3>1 DEF Told
  <2>3. CASE ~(m_message_queue[1][1] = "handle_close" /\ m_message_queue[1][2] = g)
    <3>1. Listed(m_message_queue, "handle_close", g) =>
              Listed(m_message_queue', "handle_close", g)
      BY <2>3 DEF Shorter
    <3>. QED BY <2>1, <3>1 DEF UvThere
  <2>. QED BY <2>2, <2>3
<1>3. ASSUME NEW i \in 1 .. Len(m_message_queue'), NEW j \in 1 .. Len(m_message_queue')
      PROVE  /\ /\ m_message_queue'[i][1] = "userdata"
                /\ m_message_queue'[j][1] = "userdata"
                /\ m_message_queue'[j][2] = m_message_queue'[i][2]
                => j = i
             /\ /\ m_message_queue'[i][1] = "handle_close"
                /\ m_message_queue'[j][2] = m_message_queue'[i][2]
                => j <= i
  <2>1. /\ i + 1 \in 1 .. Len(m_message_queue) /\ m_message_queue'[i] = m_message_queue[i + 1]
        /\ j + 1 \in 1 .. Len(m_message_queue) /\ m_message_queue'[j] = m_message_queue[j + 1]
        /\ j + 1 = i + 1 => j = i
        /\ j + 1 <= i + 1 => j <= i
    BY <1>1
  <2>. QED BY <2>1 DEF Told
<1>. QED BY <1>1, <1>2, <1>3 DEF Told

\* What the requests say stays true when fewer messages are on their way.
LEMMA RequestedKept ==
    ASSUME Requested, UNCHANGED <<pipe, lua, uv>>,
           \A g \in Handle : session[g] # "none" => session'[g] # "none",
           Shorter(m_message_queue, m_message_queue')
    PROVE  Requested'
  BY DEF Requested, RequestedOf, Shorter

\* wakeup_error: the call is over, and no uv handle is left open.
LEMMA WakeupError ==
    ASSUME HandlesInv, wakeup_error
    PROVE  HandlesInv'
<1>. USE HandlesAssumption DEF HandlesInv, Types
<1>. PICK h : h = m_message_queue[1][2]
  OBVIOUS
<1>1. /\ m_message_queue # << >> /\ m_message_queue' = Tail(m_message_queue)
      /\ Head(m_message_queue)[1] = "error"
      /\ session' = [session EXCEPT ![Head(m_message_queue)[2]] = "over"]
      /\ UNCHANGED <<context, lua, m_lua_ref, m_lua_ref_table, pipe, uv,
                     uv_lua_ref, m_shared_write_sockets, uses, events>>
  BY DEF wakeup_error, Received, table, net
<1>2. /\ QueueType' /\ Shorter(m_message_queue, m_message_queue')
      /\ h \in Handle /\ m_message_queue[1][1] = "error"
      /\ session' = [session EXCEPT ![h] = "over"]
  BY <1>1, Received1
<1>3. \A g \in Handle : /\ LuaThere(g)' <=> LuaThere(g)
                        /\ UvThere(g)' <=> UvThere(g)
  BY <1>1, <1>2 DEF LuaThere, UvThere, Shorter
<1>4. Types'
  BY <1>1, <1>2 DEF ContextType, LuaType, RefType, TableType, SessionType, QueueType,
         PipeType, UvType, UvRefType, SharedType, CountType, UvState
<1>5. Lives'
  <2>1. h \notin Timer
    BY <1>1, <1>2, Received1 DEF Told
  <2>. QED BY <1>1, <1>2, <1>3, <2>1 DEF Lives, SessionType, Calls
<1>6. Requested' /\ Told'
  <2>1. \A g \in Handle : session[g] # "none" => session'[g] # "none"
    BY <1>2 DEF SessionType
  <2>. QED BY <1>1, <1>2, <2>1, RequestedKept, ToldKept
<1>7. Owed'
  <2>1. /\ session'[h] = "over" /\ session[h] # "none"
        /\ \A g \in Handle \ {h} : session'[g] = session[g]
    BY <1>1, <1>2, Received1 DEF SessionType, Told, Lives
  <2>2. ASSUME NEW g \in Handle, g # h, session[g] \in Calls
        PROVE  \/ uv[g] \in {"none", "resolving", "connecting"}
               \/ Listed(m_message_queue', "userdata", g)
               \/ Listed(m_message_queue', "error", g)
    BY <1>2, <2>2 DEF Owed, Shorter
  <2>3. \A g : Listed(m_message_queue, "userdata", g) =>
                   Listed(m_message_queue', "userdata", g)
    BY <1>2 DEF Shorter
  <2>. QED BY <1>1, <2>1, <2>2, <2>3 DEF Owed, Calls
<1>8. Numbers' /\ Shared'
  BY <1>1, <1>3, NumbersKept DEF Shared
<1>. QED BY <1>4, <1>5, <1>6, <1>7, <1>8

\* An event finds the handle of its number, or none.
LEMMA GetLuaHandle ==
    ASSUME HandlesInv, get_lua_handle
    PROVE  HandlesInv'
<1>. USE HandlesAssumption DEF HandlesInv, Types
<1>1. /\ m_message_queue # << >> /\ m_message_queue' = Tail(m_message_queue)
      /\ Head(m_message_queue)[1] = "event"
      /\ UNCHANGED <<context, lua, m_lua_ref, m_lua_ref_table, session, pipe, uv,
                     uv_lua_ref, m_shared_write_sockets, uses, events>>
  BY DEF get_lua_handle, Received, table, net
<1>2. /\ QueueType' /\ Shorter(m_message_queue, m_message_queue')
      /\ m_message_queue[1][1] = "event"
  BY <1>1, Received1
<1>3. \A g \in Handle : /\ LuaThere(g)' <=> LuaThere(g)
                        /\ UvThere(g)' <=> UvThere(g)
  BY <1>1, <1>2 DEF LuaThere, UvThere, Shorter
<1>4. Types'
  BY <1>1, <1>2 DEF ContextType, LuaType, RefType, TableType, SessionType, QueueType,
         PipeType, UvType, UvRefType, SharedType, CountType, UvState
<1>5. Lives'
  BY <1>1, <1>3 DEF Lives
<1>6. Requested' /\ Told'
  BY <1>1, <1>2, RequestedKept, ToldKept
<1>7. Owed'
  BY <1>1, <1>2 DEF Owed, Shorter
<1>8. Numbers' /\ Shared'
  BY <1>1, <1>3, NumbersKept DEF Shared
<1>. QED BY <1>4, <1>5, <1>6, <1>7, <1>8

\* The uv handle is gone: its number is free when the lua handle is gone as well.
LEMMA ResponseHandleClose ==
    ASSUME HandlesInv, response_handle_close
    PROVE  HandlesInv'
<1>. USE HandlesAssumption DEF HandlesInv, Types
<1>. PICK h : h = m_message_queue[1][2]
  OBVIOUS
<1>1. /\ m_message_queue # << >> /\ m_message_queue' = Tail(m_message_queue)
      /\ Head(m_message_queue)[1] = "handle_close"
      /\ release_ref(Head(m_message_queue)[3], handle_set(Head(m_message_queue)[2]))
      /\ UNCHANGED <<context, lua, m_lua_ref, session, pipe, uv, uv_lua_ref,
                     m_shared_write_sockets, uses, events>>
  BY DEF response_handle_close, Received, net
<1>2. /\ QueueType' /\ Shorter(m_message_queue, m_message_queue')
      /\ h \in Handle /\ m_message_queue[1][1] = "handle_close"
      /\ release_ref(m_message_queue[1][3], handle_set(h))
      /\ 1 \in 1 .. Len(m_message_queue)
  BY <1>1, Received1
<1>3. /\ lua[h] # "none" /\ m_message_queue[1][3] = m_lua_ref[h] /\ uv[h] = "deleted"
      /\ \A i \in 1 .. Len(m_message_queue) : m_message_queue[i][2] = h => i <= 1
      /\ m_lua_ref[h] \in Ref /\ m_lua_ref[h] = uv_lua_ref[h]
  BY <1>2 DEF Told, Lives, RefType
<1>4. \A type : ~Listed(m_message_queue', type, h)
  <2>1. \A i \in 1 .. Len(m_message_queue') : m_message_queue'[i][2] # h
    BY <1>2, <1>3 DEF Shorter
  <2>. QED BY <2>1 DEF Listed
<1>5. /\ UvThere(h) /\ ~UvThere(h)' /\ (LuaThere(h)' <=> LuaThere(h))
      /\ \A g \in Handle \ {h} : /\ LuaThere(g)' <=> LuaThere(g)
                                 /\ UvThere(g)' <=> UvThere(g)
  <2>1. UvThere(h)
    BY <1>2, <1>3 DEF UvThere, Listed
  <2>2. ~UvThere(h)'
    BY <1>1, <1>3, <1>4 DEF UvThere
  <2>3. \A g \in Handle \ {h} : UvThere(g)' <=> UvThere(g)
    BY <1>1, <1>2 DEF UvThere, Shorter
  <2>. QED BY <1>1, <2>1, <2>2, <2>3 DEF LuaThere
<1>6. Types'
  <2>1. TableType'
    BY <1>2 DEF TableType, release_ref
  <2>. QED BY <1>1, <1>2, <2>1
              DEF ContextType, LuaType, RefType, TableType, SessionType, QueueType,
         PipeType, UvType, UvRefType, SharedType, CountType, UvState
<1>7. Lives'
  BY <1>1, <1>5 DEF Lives
<1>8. Requested' /\ Told'
  BY <1>1, <1>2, RequestedKept, ToldKept
<1>9. Owed'
  BY <1>1, <1>2 DEF Owed, Shorter
<1>10. Numbers'
  BY <1>1, <1>2, <1>3, <1>5, Released
<1>11. Shared'
  BY <1>1 DEF Shared
<1>. QED BY <1>6, <1>7, <1>8, <1>9, <1>10, <1>11

\* A message for a context that ends closes what it carries.
LEMMA OnDropped ==
    ASSUME HandlesInv, on_dropped
    PROVE  HandlesInv'
<1>. USE HandlesAssumption DEF HandlesInv, Types
<1>. PICK h : h = m_message_queue[1][2]
  OBVIOUS
<1>1. /\ m_message_queue # << >> /\ m_message_queue' = Tail(m_message_queue)
      /\ close_dropped(Head(m_message_queue)) /\ context = "retired"
      /\ UNCHANGED <<context, lua, m_lua_ref, m_lua_ref_table, session, uv,
                     uv_lua_ref, m_shared_write_sockets, uses, events>>
  BY DEF on_dropped, table, net
<1>2. /\ QueueType' /\ Shorter(m_message_queue, m_message_queue')
      /\ h \in Handle /\ close_dropped(m_message_queue[1])
      /\ 1 \in 1 .. Len(m_message_queue)
  BY <1>1, Received1
<1>3. Told'
  BY <1>1, <1>2, ToldKept
<1>4. \A g \in Handle : LuaThere(g)' <=> LuaThere(g)
  BY <1>1 DEF LuaThere
<1>5. Lives'
  BY <1>1, <1>4 DEF Lives
<1>6. Numbers' /\ Shared'
  <2>1. \A g \in Handle : UvThere(g)' => UvThere(g)
    BY <1>1, <1>2 DEF UvThere, Shorter
  <2>. QED BY <1>1, <1>4, <2>1 DEF Numbers, Shared
<1>7. \A g : session[g] \notin Calls \/ g \notin Handle
  BY <1>1 DEF Lives
<1>8. CASE m_message_queue[1][1] = "userdata"
  <2>1. pipe' = Append(pipe, <<"close", h>>)
    BY <1>2, <1>8 DEF close_dropped, send_request
  <2>2. pipe' \in Seq(Sent) /\ Longer(pipe, pipe', <<"close", h>>)
    <3>1. pipe \in Seq(Sent) /\ <<"close", h>> \in Sent
      BY <1>2 DEF PipeType, Sent
    <3>. QED BY <2>1, <3>1, Appended
  <2>3. Types'
    BY <1>1, <1>2, <2>2 DEF ContextType, LuaType, RefType, TableType, SessionType, QueueType,
         PipeType, UvType, UvRefType, SharedType, CountType, UvState
  <2>4. /\ h \notin Timer /\ uv[h] = "open" /\ lua[h] = "none"
        /\ \A i \in 1 .. Len(m_message_queue) :
               m_message_queue[i][1] = "userdata" /\ m_message_queue[i][2] = h => i = 1
        /\ Listed(m_message_queue, "userdata", h)
    BY <1>2, <1>8 DEF Told, Listed
  <2>5. ~Listed(m_message_queue', "userdata", h)
    BY <1>2, <2>4 DEF Shorter, Listed
  <2>6. Requested'
    <3>1. \A i \in 1 .. Len(pipe) : pipe[i][2] # h
      BY <2>4 DEF Requested, RequestedOf, Requests
    <3>2. /\ \A i \in 1 .. Len(pipe') : i <= Len(pipe) \/ i = Len(pipe) + 1
          /\ pipe'[Len(pipe) + 1][1] = "close" /\ pipe'[Len(pipe) + 1][2] = h
          /\ \A i \in 1 .. Len(pipe) : pipe'[i] = pipe[i] /\ pipe[i][2] # h
      BY <2>2, <3>1 DEF Longer
    <3>3. \A g : Listed(m_message_queue', "userdata", g) =>
                     Listed(m_message_queue, "userdata", g)
      BY <1>2 DEF Shorter
    <3>4. ASSUME NEW i \in 1 .. Len(pipe)
          PROVE  /\ pipe[i][1] \in Requests =>
                        \A j \in 1 .. Len(pipe') : pipe'[j][2] = pipe[i][2] => j = i
                 /\ pipe[i][1] = "close" =>
                        \A j \in 1 .. Len(pipe') : pipe'[j][2] = pipe[i][2] => j <= i
      BY <3>2 DEF Requested, RequestedOf
    <3>5. \A j \in 1 .. Len(pipe') : j <= Len(pipe) + 1
      BY <2>2 DEF Longer
    <3>6. h \in Handle /\ UNCHANGED <<lua, uv, session>>
      BY <1>1, <1>2
    <3>. QED BY <2>4, <2>5, <3>2, <3>3, <3>4, <3>5, <3>6 DEF Requested, RequestedOf, Requests
  <2>7. Owed'
    <3>1. \A g \in Handle \ {h} : Listed(m_message_queue, "userdata", g) =>
                                      Listed(m_message_queue', "userdata", g)
      BY <1>2 DEF Shorter
    <3>. QED BY <1>1, <1>2, <1>7, <2>2, <2>4, <3>1 DEF Owed, Longer
  <2>. QED BY <1>3, <1>5, <1>6, <2>3, <2>6, <2>7
<1>9. CASE m_message_queue[1][1] # "userdata"
  <2>1. pipe' = pipe
    BY <1>2, <1>9 DEF close_dropped
  <2>2. Types'
    BY <1>1, <1>2, <2>1 DEF ContextType, LuaType, RefType, TableType, SessionType, QueueType,
         PipeType, UvType, UvRefType, SharedType, CountType, UvState
  <2>3. Requested'
    BY <1>1, <1>2, <2>1, RequestedKept
  <2>4. Owed'
    BY <1>1, <1>2, <1>7, <1>9, <2>1 DEF Owed, Shorter
  <2>. QED BY <1>3, <1>5, <1>6, <2>2, <2>3, <2>4
<1>. QED BY <1>8, <1>9

\* The requests left when the first is taken.
LEMMA RequestedShorter ==
    ASSUME RequestedOf(pipe), NEW p, Shorter(pipe, p)
    PROVE  RequestedOf(p)
<1>1. ASSUME NEW i \in 1 .. Len(p)
      PROVE  i + 1 \in 1 .. Len(pipe) /\ p[i] = pipe[i + 1]
  BY DEF Shorter
<1>2. ASSUME NEW i \in 1 .. Len(p), NEW j \in 1 .. Len(p), p[j][2] = p[i][2]
      PROVE  /\ p[i][1] \in Requests => j = i
             /\ p[i][1] = "close" => j <= i
  <2>1. /\ i + 1 \in 1 .. Len(pipe) /\ p[i] = pipe[i + 1]
        /\ j + 1 \in 1 .. Len(pipe) /\ p[j] = pipe[j + 1]
        /\ j + 1 = i + 1 => j = i
        /\ j + 1 <= i + 1 => j <= i
    BY <1>1
  <2>. QED BY <1>2, <2>1 DEF RequestedOf
<1>. QED BY <1>1, <1>2 DEF RequestedOf

\* The head of the pipe is taken.
LEMMA Taken ==
    ASSUME PipeType, Requested, pipe # << >>, pipe' = Tail(pipe)
    PROVE  /\ PipeType' /\ Shorter(pipe, pipe') /\ RequestedOf(pipe')
           /\ Head(pipe) = pipe[1] /\ pipe[1][2] \in Handle /\ 1 \in 1 .. Len(pipe)
<1>1. PipeType' /\ Shorter(pipe, pipe') /\ pipe[1] \in Sent
  BY Removed DEF PipeType
<1>2. Head(pipe) = pipe[1] /\ 1 \in 1 .. Len(pipe)
  BY <1>1 DEF Shorter
<1>. QED BY <1>1, <1>2, RequestedShorter DEF Requested, RequestedOf

\* A socket that is being opened: it is offered, refused, or still on its way.
LEMMA Opened ==
    ASSUME HandlesInv, NEW h \in Handle, h \notin Timer, session[h] # "none",
           uv[h] \in {"none", "resolving", "connecting"},
           \/ pipe' = pipe /\ uv[h] # "none"
           \/ pipe # << >> /\ pipe' = Tail(pipe) /\ pipe[1][2] = h /\ pipe[1][1] \in Requests,
           \/ offer(h) \/ refuse(h) \/ await(h, "connecting") \/ await(h, "resolving"),
           UNCHANGED <<context, lua, m_lua_ref, m_lua_ref_table, session, uv_lua_ref,
                       m_shared_write_sockets, uses, events>>
    PROVE  HandlesInv'
<1>. USE HandlesAssumption DEF HandlesInv, Types
<1>1. /\ lua[h] = "none" /\ m_lua_ref[h] = NIL /\ uv_lua_ref[h] = NIL
      /\ \A i \in 1 .. Len(m_message_queue) : m_message_queue[i][2] # h
  BY DEF Lives, Told
<1>2. /\ PipeType' /\ RequestedOf(pipe')
      /\ \A i \in 1 .. Len(pipe') : pipe'[i][2] # h
      /\ \A type, g : g # h /\ Listed(pipe, type, g) => Listed(pipe', type, g)
  <2>1. CASE pipe' = pipe /\ uv[h] # "none"
    <3>1. \A i \in 1 .. Len(pipe) : pipe[i][2] # h
      BY <1>1, <2>1 DEF Requested, RequestedOf, Requests
    <3>. QED BY <2>1, <3>1 DEF PipeType, Requested
  <2>2. CASE pipe # << >> /\ pipe' = Tail(pipe) /\ pipe[1][2] = h
             /\ pipe[1][1] \in Requests
    <3>1. PipeType' /\ Shorter(pipe, pipe') /\ RequestedOf(pipe') /\ 1 \in 1 .. Len(pipe)
      BY <2>2, Taken
    <3>2. \A i \in 1 .. Len(pipe) : pipe[i][2] = h => i = 1
      BY <2>2, <3>1 DEF Requested, RequestedOf
    <3>3. \A i \in 1 .. Len(pipe') :
              i + 1 \in 1 .. Len(pipe) /\ i + 1 # 1 /\ pipe'[i] = pipe[i + 1]
      BY <3>1 DEF Shorter
    <3>4. \A i \in 1 .. Len(pipe') : pipe'[i][2] # h
      BY <3>2, <3>3
    <3>5. \A type, g : g # h /\ Listed(pipe, type, g) => Listed(pipe', type, g)
      BY <2>2, <3>1 DEF Shorter
    <3>. QED BY <3>1, <3>4, <3>5
  <2>. QED BY <2>1, <2>2
<1>3. PICK x \in {"open", "closing", "connecting", "resolving"} :
      /\ uv' = [uv EXCEPT ![h] = x]
      /\ \/ x = "open" /\ m_message_queue' = Append(m_message_queue, <<"userdata", h>>)
         \/ x = "closing" /\ m_message_queue' = Append(m_message_queue, <<"error", h>>)
         \/ x = "closing" /\ context = "retired" /\ m_message_queue' = m_message_queue
         \/ x \in {"connecting", "resolving"} /\ m_message_queue' = m_message_queue
  BY DEF offer, refuse, await, deliver
<1>4. /\ uv'[h] = x
      /\ \A g \in Handle \ {h} : uv'[g] = uv[g]
  BY <1>3 DEF UvType
<1>5. /\ QueueType'
      /\ \/ m_message_queue' = m_message_queue
         \/ Longer(m_message_queue, m_message_queue', <<"userdata", h>>) /\ x = "open"
         \/ Longer(m_message_queue, m_message_queue', <<"error", h>>) /\ x = "closing"
  <2>1. /\ m_message_queue \in Seq(Message)
        /\ <<"userdata", h>> \in Message /\ <<"error", h>> \in Message
    BY DEF QueueType, Message
  <2>. QED BY <1>3, <2>1, Appended DEF QueueType
<1>6. \A g \in Handle : /\ LuaThere(g)' <=> LuaThere(g)
                        /\ UvThere(g)' <=> UvThere(g)
  <2>1. \A g : Listed(m_message_queue', "handle_close", g)
                   <=> Listed(m_message_queue, "handle_close", g)
    BY <1>5 DEF Longer
  <2>. QED BY <1>1, <1>4, <2>1 DEF LuaThere, UvThere
<1>7. Types'
  BY <1>2, <1>3, <1>5 DEF ContextType, LuaType, RefType, TableType, SessionType, QueueType,
         PipeType, UvType, UvRefType, SharedType, CountType, UvState
<1>8. Lives'
  BY <1>1, <1>4, <1>6 DEF Lives
<1>9. Requested'
  <2>1. \A g : g # h /\ Listed(m_message_queue', "userdata", g)
                   => Listed(m_message_queue, "userdata", g)
    BY <1>5 DEF Longer
  <2>2. RequestedOf(pipe')
    BY <1>2
  <2>. QED BY <1>2, <1>4, <2>1, <2>2 DEF Requested, RequestedOf
<1>10. Told'
  <2>1. CASE m_message_queue' = m_message_queue
    BY <1>1, <1>4, <1>6, <2>1 DEF Told
  <2>2. ASSUME NEW type \in {"userdata", "error"},
               Longer(m_message_queue, m_message_queue', <<type, h>>),
               type = "userdata" => x = "open", type = "error" => x = "closing"
        PROVE  Told'
    <3>1. /\ \A i \in 1 .. Len(m_message_queue') :
                 i \in 1 .. Len(m_message_queue) \/ i = Len(m_message_queue) + 1
          /\ \A i \in 1 .. Len(m_message_queue) :
                 /\ m_message_queue'[i] = m_message_queue[i]
                 /\ m_message_queue[i][2] \in Handle \ {h}
          /\ m_message_queue'[Len(m_message_queue) + 1][1] = type
          /\ m_message_queue'[Len(m_message_queue) + 1][2] = h
      BY <1>1, <2>2, AboutHandles DEF Longer
    <3>2. ASSUME NEW i \in 1 .. Len(m_message_queue)
          PROVE  /\ m_message_queue[i][1] = "userdata" =>
                        \A j \in 1 .. Len(m_message_queue') :
                            /\ m_message_queue'[j][1] = "userdata"
                            /\ m_message_queue'[j][2] = m_message_queue[i][2]
                            => j = i
                 /\ m_message_queue[i][1] = "handle_close" =>
                        \A j \in 1 .. Len(m_message_queue') :
                            m_message_queue'[j][2] = m_message_queue[i][2] => j <= i
      BY <3>1 DEF Told
    <3>3. \A j \in 1 .. Len(m_message_queue') :
              m_message_queue'[j][2] = h => j = Len(m_message_queue) + 1
      BY <3>1
    <3>. QED BY <1>1, <1>4, <1>6, <2>2, <3>1, <3>2, <3>3 DEF Told
  <2>. QED BY <1>5, <2>1, <2>2
<1>11. Owed'
  <2>1. \A type, g : Listed(m_message_queue, type, g) => Listed(m_message_queue', type, g)
    BY <1>5 DEF Longer
  <2>2. /\ x = "open" => Listed(m_message_queue', "userdata", h)
        /\ x = "closing" /\ session[h] \in Calls => Listed(m_message_queue', "error", h)
    BY <1>3, <1>5 DEF Longer, Lives
  <2>3. \A g \in Handle \ {h} : uv[g] = "open" => uv'[g] = "open"
    BY <1>4
  <2>. QED BY <1>1, <1>2, <1>4, <2>1, <2>2 DEF Owed
<1>12. Numbers'
  BY <1>6, NumbersKept
<1>13. Shared'
  <2>1. \A r \in Ref : m_shared_write_sockets[r] \in Handle \cup {NIL}
    BY DEF SharedType
  <2>. QED BY <1>1, <1>4, <2>1 DEF Shared
<1>. QED BY <1>7, <1>8, <1>9, <1>10, <1>11, <1>12, <1>13

\* A request to open a socket, or the network thread on its way to it.
LEMMA OpenSteps ==
    ASSUME HandlesInv,
           \/ listen_tcp \/ open \/ connect_tcp
           \/ \E h \in Handle : on_resolve(h) \/ on_connect(h)
    PROVE  HandlesInv'
<1>. USE DEF HandlesInv, Types
<1>1. CASE listen_tcp \/ open \/ connect_tcp
  <2>. PICK h : h = pipe[1][2]
    OBVIOUS
  <2>1. /\ pipe # << >> /\ pipe' = Tail(pipe) /\ Head(pipe)[1] \in Requests
        /\ \/ offer(Head(pipe)[2]) \/ refuse(Head(pipe)[2])
           \/ await(Head(pipe)[2], "connecting") \/ await(Head(pipe)[2], "resolving")
        /\ UNCHANGED <<context, lua, m_lua_ref, m_lua_ref_table, session, uv_lua_ref,
                       m_shared_write_sockets, uses, events>>
    BY <1>1 DEF listen_tcp, open, connect_tcp, Request, Requests, table
  <2>2. /\ h \in Handle /\ pipe[1][1] \in Requests /\ 1 \in 1 .. Len(pipe)
        /\ offer(h) \/ refuse(h) \/ await(h, "connecting") \/ await(h, "resolving")
    BY <2>1, Taken
  <2>3. h \notin Timer /\ uv[h] = "none" /\ session[h] # "none"
    BY <2>2 DEF Requested, RequestedOf
  <2>. QED BY <2>1, <2>2, <2>3, Opened
<1>2. ASSUME NEW h \in Handle, on_resolve(h) \/ on_connect(h)
      PROVE  HandlesInv'
  <2>1. /\ uv[h] \in {"resolving", "connecting"} /\ pipe' = pipe
        /\ offer(h) \/ refuse(h) \/ await(h, "connecting")
        /\ UNCHANGED <<context, lua, m_lua_ref, m_lua_ref_table, session, uv_lua_ref,
                       m_shared_write_sockets, uses, events>>
    BY <1>2 DEF on_resolve, on_connect, table
  <2>2. h \notin Timer /\ session[h] # "none"
    BY <2>1 DEF Lives
  <2>. QED BY <2>1, <2>2, Opened
<1>. QED BY <1>1, <1>2

\* request_timer_start: the timer runs.
LEMMA TimerStart ==
    ASSUME HandlesInv, request_timer_start
    PROVE  HandlesInv'
<1>. USE HandlesAssumption DEF HandlesInv, Types
<1>. PICK h : h = pipe[1][2]
  OBVIOUS
<1>1. /\ pipe # << >> /\ pipe' = Tail(pipe) /\ Head(pipe)[1] = "timer_start"
      /\ uv' = [uv EXCEPT ![Head(pipe)[2]] = "open"]
      /\ UNCHANGED <<context, lua, m_lua_ref, m_lua_ref_table, session,
                     m_message_queue, uv_lua_ref, m_shared_write_sockets, uses,
                     events>>
  BY DEF request_timer_start, Request, table
<1>2. /\ PipeType' /\ Shorter(pipe, pipe') /\ RequestedOf(pipe') /\ h \in Handle
      /\ pipe[1][1] = "timer_start" /\ uv' = [uv EXCEPT ![h] = "open"]
      /\ 1 \in 1 .. Len(pipe)
  BY <1>1, Taken
<1>3. /\ h \in Timer /\ uv[h] \in {"created", "open"} /\ uv'[h] = "open" /\ lua[h] # "none"
      /\ \A g \in Handle \ {h} : uv'[g] = uv[g]
  BY <1>2 DEF Requested, RequestedOf, UvType, Lives
<1>4. \A g \in Handle : /\ LuaThere(g)' <=> LuaThere(g)
                        /\ UvThere(g)' <=> UvThere(g)
  BY <1>1, <1>3 DEF LuaThere, UvThere
<1>5. Types'
  BY <1>1, <1>2 DEF ContextType, LuaType, RefType, TableType, SessionType, QueueType,
         PipeType, UvType, UvRefType, SharedType, CountType, UvState
<1>6. Lives' /\ Told'
  BY <1>1, <1>3, <1>4 DEF Lives, Told
<1>7. Requested'
  <2>1. \A i \in 1 .. Len(pipe') : pipe'[i][1] \in Requests => pipe'[i][2] # h
    BY <1>2, <1>3 DEF RequestedOf
  <2>2. \A i \in 1 .. Len(pipe') : pipe'[i][2] = h =>
            pipe'[i][1] \in {"timer_start", "close"}
    BY <1>2, <1>3, <2>1 DEF RequestedOf
  <2>3. RequestedOf(pipe') /\ UNCHANGED <<lua, session, m_message_queue>>
    BY <1>1, <1>2
  <2>. QED BY <1>3, <2>1, <2>2, <2>3, SMTT(30) DEF Requested, RequestedOf
<1>8. Owed'
  <2>1. \A type, g : type # "timer_start" /\ Listed(pipe, type, g) => Listed(pipe', type, g)
    BY <1>2 DEF Shorter
  <2>2. \A g \in Handle \ {h} :
            Listed(pipe, "timer_start", g) => Listed(pipe', "timer_start", g)
    BY <1>2 DEF Shorter
  <2>3. session[h] \notin Calls
    BY <1>3 DEF Lives, Calls
  <2>. QED BY <1>1, <1>3, <2>1, <2>2, <2>3 DEF Owed, Requests
<1>9. Numbers' /\ Shared'
  <2>1. \A r \in Ref : m_shared_write_sockets[r] \in Handle \cup {NIL}
    BY DEF SharedType
  <2>. QED BY <1>1, <1>3, <1>4, <2>1, NumbersKept DEF Shared
<1>. QED BY <1>5, <1>6, <1>7, <1>8, <1>9

\* request_handle_option: the table of shared writes changes.
LEMMA HandleOption ==
    ASSUME HandlesInv, request_handle_option
    PROVE  HandlesInv'
<1>. USE HandlesAssumption DEF HandlesInv, Types
<1>. PICK h : h = pipe[1][2]
  OBVIOUS
<1>1. /\ pipe # << >> /\ pipe' = Tail(pipe) /\ Head(pipe)[1] \in {"wshared", "wunshared"}
      /\ m_shared_write_sockets' =
             IF uv[Head(pipe)[2]] = "closing" THEN m_shared_write_sockets
             ELSE [m_shared_write_sockets EXCEPT ![uv_lua_ref[Head(pipe)[2]]] =
                       IF Head(pipe)[1] = "wshared" THEN Head(pipe)[2] ELSE NIL]
      /\ UNCHANGED <<context, lua, m_lua_ref, m_lua_ref_table, session,
                     m_message_queue, uv, uv_lua_ref, uses, events>>
  BY DEF request_handle_option, table
<1>2. /\ PipeType' /\ Shorter(pipe, pipe') /\ RequestedOf(pipe') /\ h \in Handle
      /\ pipe[1][1] \in {"wshared", "wunshared"} /\ Head(pipe) = pipe[1]
      /\ 1 \in 1 .. Len(pipe)
  BY <1>1, Taken
<1>3. h \notin Timer /\ uv[h] = "open" /\ lua[h] # "none"
  BY <1>2 DEF Requested, RequestedOf
<1>4. /\ uv_lua_ref[h] \in Ref
      /\ m_shared_write_sockets' =
             [m_shared_write_sockets EXCEPT ![uv_lua_ref[h]] =
                  IF pipe[1][1] = "wshared" THEN h ELSE NIL]
  BY <1>1, <1>2, <1>3 DEF Lives, UvRefType
<1>5. Types'
  BY <1>1, <1>2, <1>4 DEF ContextType, LuaType, RefType, TableType, SessionType, QueueType,
         PipeType, UvType, UvRefType, SharedType, CountType, UvState
<1>6. Lives' /\ Told'
  BY <1>1 DEF Lives, Told, LuaThere, UvThere
<1>7. Requested'
  BY <1>1, <1>2 DEF Requested, RequestedOf
<1>8. Owed'
  <2>1. \A type, g : type \notin {"wshared", "wunshared"} /\ Listed(pipe, type, g)
                         => Listed(pipe', type, g)
    BY <1>2 DEF Shorter
  <2>. QED BY <1>1, <2>1 DEF Owed, Requests
<1>9. Numbers'
  BY <1>1, NumbersKept DEF LuaThere, UvThere
<1>10. Shared'
  BY <1>1, <1>3, <1>4 DEF Shared, SharedType
<1>. QED BY <1>5, <1>6, <1>7, <1>8, <1>9, <1>10

\* An event of a uv handle that is open.
LEMMA OnEvent ==
    ASSUME HandlesInv, NEW h \in Handle, on_event(h)
    PROVE  HandlesInv'
<1>. USE HandlesAssumption DEF HandlesInv, Types
<1>1. /\ uv[h] = "open" /\ uv_lua_ref[h] # NIL /\ events[h] < MAX_EVENTS
      /\ events' = [events EXCEPT ![h] = @ + 1]
      /\ m_message_queue' = IF context = "retired" THEN m_message_queue
                            ELSE Append(m_message_queue, <<"event", h, uv_lua_ref[h]>>)
      /\ UNCHANGED <<context, lua, m_lua_ref, m_lua_ref_table, session, pipe, uv,
                     uv_lua_ref, m_shared_write_sockets, uses>>
  BY DEF on_event, deliver, net, table
<1>2. CountType'
  BY <1>1 DEF CountType
<1>3. CASE m_message_queue' = m_message_queue
  <2>1. Types'
    BY <1>1, <1>2, <1>3 DEF ContextType, LuaType, RefType, TableType, SessionType, QueueType,
         PipeType, UvType, UvRefType, SharedType, CountType, UvState
  <2>2. Lives' /\ Requested' /\ Told' /\ Owed' /\ Shared'
    BY <1>1, <1>3 DEF Lives, Requested, RequestedOf, Told, Owed, Shared, LuaThere, UvThere
  <2>3. Numbers'
    BY <1>1, <1>3, NumbersKept DEF LuaThere, UvThere
  <2>. QED BY <2>1, <2>2, <2>3
<1>4. CASE m_message_queue' = Append(m_message_queue, <<"event", h, uv_lua_ref[h]>>)
  <2>1. QueueType' /\ Longer(m_message_queue, m_message_queue', <<"event", h, uv_lua_ref[h]>>)
    <3>1. <<"event", h, uv_lua_ref[h]>> \in Message
      BY <1>1 DEF Message, UvRefType
    <3>. QED BY <1>4, <3>1, Appended DEF QueueType
  <2>2. \A type, g : Listed(m_message_queue', type, g) <=>
            Listed(m_message_queue, type, g) \/ (type = "event" /\ g = h)
    BY <2>1 DEF Longer
  <2>3. Types'
    BY <1>1, <1>2, <2>1 DEF ContextType, LuaType, RefType, TableType, SessionType, QueueType,
         PipeType, UvType, UvRefType, SharedType, CountType, UvState
  <2>4. \A g \in Handle : /\ LuaThere(g)' <=> LuaThere(g)
                          /\ UvThere(g)' <=> UvThere(g)
    BY <1>1, <2>2 DEF LuaThere, UvThere
  <2>5. Lives' /\ Owed'
    BY <1>1, <2>2, <2>4 DEF Lives, Owed
  <2>6. Requested'
    BY <1>1, <2>2 DEF Requested, RequestedOf
  <2>7. Told'
    <3>1. /\ \A i \in 1 .. Len(m_message_queue') :
                 i \in 1 .. Len(m_message_queue) \/ i = Len(m_message_queue) + 1
          /\ \A i \in 1 .. Len(m_message_queue) : m_message_queue'[i] = m_message_queue[i]
          /\ m_message_queue'[Len(m_message_queue) + 1][1] = "event"
          /\ m_message_queue'[Len(m_message_queue) + 1][2] = h
          /\ m_message_queue'[Len(m_message_queue) + 1][3] = uv_lua_ref[h]
      BY <2>1 DEF Longer
    <3>2. ASSUME NEW i \in 1 .. Len(m_message_queue)
          PROVE  /\ m_message_queue[i][1] = "userdata" =>
                        \A j \in 1 .. Len(m_message_queue') :
                            /\ m_message_queue'[j][1] = "userdata"
                            /\ m_message_queue'[j][2] = m_message_queue[i][2]
                            => j = i
                 /\ m_message_queue[i][1] = "handle_close" =>
                        \A j \in 1 .. Len(m_message_queue') :
                            m_message_queue'[j][2] = m_message_queue[i][2] => j <= i
      <4>1. m_message_queue[i][1] = "handle_close" => m_message_queue[i][2] # h
        BY <1>1 DEF Told
      <4>. QED BY <3>1, <4>1 DEF Told
    <3>3. lua[h] # "none" /\ uv_lua_ref[h] = m_lua_ref[h] /\ UvThere(h)
      BY <1>1 DEF Lives, UvThere
    <3>. QED BY <1>1, <2>4, <3>1, <3>2, <3>3 DEF Told
  <2>8. Numbers' /\ Shared'
    BY <1>1, <2>4, NumbersKept DEF Shared
  <2>. QED BY <2>3, <2>5, <2>6, <2>7, <2>8
<1>. QED BY <1>1, <1>3, <1>4

\* request_handle_close: libuv starts to close the handle.
LEMMA HandleClose ==
    ASSUME HandlesInv, request_handle_close
    PROVE  HandlesInv'
<1>. USE HandlesAssumption DEF HandlesInv, Types
<1>. PICK h : h = pipe[1][2]
  OBVIOUS
<1>1. /\ pipe # << >> /\ pipe' = Tail(pipe) /\ Head(pipe)[1] = "close"
      /\ uv' = [uv EXCEPT ![Head(pipe)[2]] = "closing"]
      /\ UNCHANGED <<context, lua, m_lua_ref, m_lua_ref_table, session,
                     m_message_queue, uv_lua_ref, m_shared_write_sockets, uses,
                     events>>
  BY DEF request_handle_close, Request, table
<1>2. /\ PipeType' /\ Shorter(pipe, pipe') /\ RequestedOf(pipe') /\ h \in Handle
      /\ pipe[1][1] = "close" /\ uv' = [uv EXCEPT ![h] = "closing"]
      /\ 1 \in 1 .. Len(pipe)
  BY <1>1, Taken
<1>3. /\ uv[h] \in {"created", "open"} /\ lua[h] # "open" /\ uv'[h] = "closing"
      /\ ~Listed(m_message_queue, "userdata", h)
      /\ \A i \in 1 .. Len(pipe) : pipe[i][2] = h => i <= 1
      /\ \A g \in Handle \ {h} : uv'[g] = uv[g]
  BY <1>2 DEF Requested, RequestedOf, UvType
<1>4. \A i \in 1 .. Len(pipe') : pipe'[i][2] # h
  <2>1. \A i \in 1 .. Len(pipe') :
            i + 1 \in 1 .. Len(pipe) /\ ~(i + 1 <= 1) /\ pipe'[i] = pipe[i + 1]
    BY <1>2 DEF Shorter
  <2>. QED BY <1>3, <2>1
<1>5. \A g \in Handle : /\ LuaThere(g)' <=> LuaThere(g)
                        /\ UvThere(g)' <=> UvThere(g)
  BY <1>1, <1>3 DEF LuaThere, UvThere
<1>6. Types'
  BY <1>1, <1>2 DEF ContextType, LuaType, RefType, TableType, SessionType, QueueType,
         PipeType, UvType, UvRefType, SharedType, CountType, UvState
<1>7. Lives'
  BY <1>1, <1>3, <1>5 DEF Lives
<1>8. Requested'
  BY <1>1, <1>2, <1>3, <1>4 DEF Requested, RequestedOf
<1>9. Told'
  <2>1. \A i \in 1 .. Len(m_message_queue) :
            m_message_queue[i][1] = "userdata" => m_message_queue[i][2] # h
    BY <1>3 DEF Listed
  <2>2. \A i \in 1 .. Len(m_message_queue) :
            /\ m_message_queue[i][1] = "userdata" =>
                   uv'[m_message_queue[i][2]] = uv[m_message_queue[i][2]]
            /\ m_message_queue[i][1] \in {"error", "handle_close"} =>
                   uv'[m_message_queue[i][2]] = uv[m_message_queue[i][2]]
    BY <1>3, <2>1 DEF Told
  <2>3. UNCHANGED <<context, lua, m_lua_ref, m_message_queue>>
    BY <1>1
  <2>. QED BY <1>5, <2>2, <2>3, SMTT(30) DEF Told
<1>10. Owed'
  <2>1. \A type, g : g # h /\ Listed(pipe, type, g) => Listed(pipe', type, g)
    BY <1>2 DEF Shorter
  <2>. QED BY <1>1, <1>3, <2>1 DEF Owed
<1>11. Numbers' /\ Shared'
  <2>1. \A r \in Ref : m_shared_write_sockets[r] \in Handle \cup {NIL}
    BY DEF SharedType
  <2>. QED BY <1>1, <1>3, <1>5, <2>1, NumbersKept DEF Shared
<1>. QED BY <1>6, <1>7, <1>8, <1>9, <1>10, <1>11

\* on_closed: the uv handle is deleted and its context is told.
LEMMA OnClosed ==
    ASSUME HandlesInv, NEW h \in Handle, on_closed(h)
    PROVE  HandlesInv'
<1>. USE HandlesAssumption DEF HandlesInv, Types
<1>1. /\ uv[h] = "closing" /\ uv' = [uv EXCEPT ![h] = "deleted"]
      /\ m_shared_write_sockets' =
             IF h \in Socket THEN [m_shared_write_sockets EXCEPT ![uv_lua_ref[h]] = NIL]
             ELSE m_shared_write_sockets
      /\ \/ m_message_queue' = m_message_queue /\ (uv_lua_ref[h] = NIL \/ context = "retired")
         \/ /\ m_message_queue' = Append(m_message_queue, <<"handle_close", h, uv_lua_ref[h]>>)
            /\ uv_lua_ref[h] # NIL
      /\ UNCHANGED <<context, lua, m_lua_ref, m_lua_ref_table, session, pipe,
                     uv_lua_ref, uses, events>>
  BY DEF on_closed, deliver, table
<1>2. /\ uv'[h] = "deleted"
      /\ \A g \in Handle \ {h} : uv'[g] = uv[g]
  BY <1>1 DEF UvType
<1>3. /\ \A i \in 1 .. Len(pipe) : pipe[i][2] # h
      /\ \A i \in 1 .. Len(m_message_queue) : m_message_queue[i][2] = h =>
             m_message_queue[i][1] \in {"error", "event"}
  BY <1>1 DEF Requested, RequestedOf, Told, Requests
<1>4. /\ QueueType'
      /\ \/ m_message_queue' = m_message_queue /\ (uv_lua_ref[h] = NIL \/ context = "retired")
         \/ /\ Longer(m_message_queue, m_message_queue', <<"handle_close", h, uv_lua_ref[h]>>)
            /\ uv_lua_ref[h] # NIL
  <2>1. uv_lua_ref[h] # NIL => <<"handle_close", h, uv_lua_ref[h]>> \in Message
    BY DEF Message, UvRefType
  <2>. QED BY <1>1, <2>1, Appended DEF QueueType
<1>5. \A type, g : g # h =>
          (Listed(m_message_queue', type, g) <=> Listed(m_message_queue, type, g))
  BY <1>4 DEF Longer
<1>6. \A g \in Handle : /\ LuaThere(g)' <=> LuaThere(g)
                        /\ UvThere(g)' => UvThere(g)
                        /\ context # "retired" => (UvThere(g)' <=> UvThere(g))
  <2>1. UvThere(h)' => UvThere(h)
    BY <1>1 DEF UvThere
  <2>2. context # "retired" /\ UvThere(h) => UvThere(h)'
    BY <1>1, <1>2, <1>4 DEF UvThere, Longer
  <2>3. \A g \in Handle \ {h} : UvThere(g)' <=> UvThere(g)
    BY <1>1, <1>2, <1>5 DEF UvThere
  <2>. QED BY <1>1, <2>1, <2>2, <2>3 DEF LuaThere
<1>7. Types'
  BY <1>1, <1>4 DEF ContextType, LuaType, RefType, TableType, SessionType, QueueType,
         PipeType, UvType, UvRefType, SharedType, CountType, UvState
<1>8. Lives'
  BY <1>1, <1>2, <1>6 DEF Lives
<1>9. Requested'
  <2>1. \A i \in 1 .. Len(pipe) : pipe[i][2] \in Handle \ {h}
    BY <1>3, AboutHandles
  <2>. QED BY <1>1, <1>2, <1>5, <2>1 DEF Requested, RequestedOf
<1>10. Told'
  <2>1. CASE m_message_queue' = m_message_queue /\ (uv_lua_ref[h] = NIL \/ context = "retired")
    BY <1>1, <1>2, <1>3, <1>6, <2>1 DEF Told
  <2>2. CASE /\ Longer(m_message_queue, m_message_queue', <<"handle_close", h, uv_lua_ref[h]>>)
             /\ uv_lua_ref[h] # NIL
    <3>1. /\ \A i \in 1 .. Len(m_message_queue') :
                 i \in 1 .. Len(m_message_queue) \/ i = Len(m_message_queue) + 1
          /\ \A i \in 1 .. Len(m_message_queue) : m_message_queue'[i] = m_message_queue[i]
          /\ \A j \in 1 .. Len(m_message_queue') : j <= Len(m_message_queue) + 1
          /\ m_message_queue'[Len(m_message_queue) + 1][1] = "handle_close"
          /\ m_message_queue'[Len(m_message_queue) + 1][2] = h
          /\ m_message_queue'[Len(m_message_queue) + 1][3] = uv_lua_ref[h]
      BY <2>2 DEF Longer
    <3>2. ASSUME NEW i \in 1 .. Len(m_message_queue)
          PROVE  /\ m_message_queue[i][1] = "userdata" =>
                        \A j \in 1 .. Len(m_message_queue') :
                            /\ m_message_queue'[j][1] = "userdata"
                            /\ m_message_queue'[j][2] = m_message_queue[i][2]
                            => j = i
                 /\ m_message_queue[i][1] = "handle_close" =>
                        \A j \in 1 .. Len(m_message_queue') :
                            m_message_queue'[j][2] = m_message_queue[i][2] => j <= i
      <4>1. m_message_queue[i][1] = "handle_close" => m_message_queue[i][2] # h
        BY <1>3
      <4>. QED BY <3>1, <4>1 DEF Told
    <3>3. lua[h] # "none" /\ uv_lua_ref[h] = m_lua_ref[h]
      BY <2>2 DEF Lives
    <3>4. \A i \in 1 .. Len(m_message_queue) :
              /\ m_message_queue[i][2] = h =>
                     m_message_queue[i][1] \in {"error", "event"}
              /\ m_message_queue[i][2] # h =>
                     uv'[m_message_queue[i][2]] = uv[m_message_queue[i][2]]
      BY <1>2, <1>3, AboutHandles
    <3>. QED BY <1>1, <1>2, <1>6, <3>1, <3>2, <3>3, <3>4 DEF Told
  <2>. QED BY <1>4, <2>1, <2>2
<1>11. Owed'
  <2>1. \A type, g : Listed(m_message_queue, type, g) => Listed(m_message_queue', type, g)
    BY <1>4 DEF Longer
  <2>. QED BY <1>1, <1>2, <2>1 DEF Owed
<1>12. Numbers'
  BY <1>1, <1>6 DEF Numbers
<1>13. Shared'
  <2>1. \A r \in Ref : /\ m_shared_write_sockets[r] \in Handle \cup {NIL}
                       /\ m_shared_write_sockets'[r] \in {m_shared_write_sockets[r], NIL}
                       /\ h \in Socket /\ r = uv_lua_ref[h] => m_shared_write_sockets'[r] = NIL
    BY <1>1 DEF SharedType, UvRefType
  <2>2. \A r \in Ref : m_shared_write_sockets'[r] # NIL => m_shared_write_sockets'[r] # h
    BY <2>1 DEF Shared, Socket
  <2>. QED BY <1>1, <1>2, <2>1, <2>2 DEF Shared
<1>. QED BY <1>7, <1>8, <1>9, <1>10, <1>11, <1>12, <1>13

\* Every step keeps the invariant.
LEMMA InvStep == HandlesInv /\ [HandlesNext]_handlesVars => HandlesInv'
<1>. SUFFICES ASSUME HandlesInv, [HandlesNext]_handlesVars PROVE HandlesInv'
  OBVIOUS
<1>1. ASSUME NEW h \in Handle, _listen(h) \/ _open(h) \/ _connect(h)
      PROVE  HandlesInv'
  <2>1. \E request \in Requests, call \in Calls : Ask(h, request, call)
    BY <1>1 DEF _listen, _open, _connect, Requests, Calls
  <2>. QED BY <2>1, AskStep
<1>2. CASE UNCHANGED handlesVars
  <2>1. UNCHANGED <<context, lua, m_lua_ref, m_lua_ref_table, session, m_message_queue,
                    pipe, uv, uv_lua_ref, m_shared_write_sockets, uses, events>>
    BY <1>2 DEF handlesVars, table, net
  <2>2. Types' /\ Lives' /\ Requested' /\ Told' /\ Owed' /\ Shared'
    BY <2>1 DEF HandlesInv, Types, ContextType, LuaType, RefType, TableType, SessionType,
         QueueType, PipeType, UvType, UvRefType, SharedType, CountType, Lives, Requested,
         RequestedOf, Told, Owed, Shared, LuaThere, UvThere
  <2>3. Numbers'
    BY <2>1, NumbersKept DEF HandlesInv, LuaThere, UvThere
  <2>. QED BY <2>2, <2>3 DEF HandlesInv
<1>. QED BY <1>1, <1>2, CreateTimer, ConnectTimedOut, UseStep, CloseStep, Release,
            ContextDestroy, RetireContext, WakeupOpen, WakeupError, GetLuaHandle,
            ResponseHandleClose, OnDropped, OpenSteps, TimerStart, HandleOption,
            OnEvent, HandleClose, OnClosed
         DEF HandlesNext

\* The invariant holds at all times.
LEMMA Invariant == HandlesSpec => []HandlesInv
  BY InvInit, InvStep, PTL DEF HandlesSpec

-----------------------------------------------------------------------------
(* What follows from the invariant.                                         *)

\* Who uses a uv handle holds one that is there.
LEMMA InvUses == HandlesInv => NoUseAfterFree
<1>. SUFFICES ASSUME HandlesInv PROVE NoUseAfterFree
  OBVIOUS
<1>. USE DEF HandlesInv, Types
<1>1. DOMAIN pipe = 1 .. Len(pipe) /\ DOMAIN m_message_queue = 1 .. Len(m_message_queue)
  BY DEF PipeType, QueueType
<1>2. \A h \in Handle : lua[h] = "open" => uv[h] \in {"created", "open"}
  BY DEF Lives
<1>3. \A i \in DOMAIN pipe : pipe[i][1] \notin Requests =>
          uv[pipe[i][2]] \in {"created", "open"}
  BY <1>1 DEF Requested, RequestedOf
<1>4. \A i \in DOMAIN m_message_queue :
          m_message_queue[i][1] = "userdata" => uv[m_message_queue[i][2]] = "open"
  BY <1>1 DEF Told
<1>. QED BY <1>2, <1>3, <1>4 DEF Shared, NoUseAfterFree

\* A number that is on its way is still that of its handle.
LEMMA InvNumbers == HandlesInv => RefNotReused
<1>. SUFFICES ASSUME HandlesInv, context = "running",
                     NEW i \in DOMAIN m_message_queue, Len(m_message_queue[i]) = 3
              PROVE  m_lua_ref_table[handle_set(m_message_queue[i][2])][m_message_queue[i][3]]
                         \in {m_message_queue[i][2], Null}
  BY DEF RefNotReused
<1>. USE DEF HandlesInv, Types
<1>1. i \in 1 .. Len(m_message_queue) /\ m_message_queue[i] \in Message
  BY DEF QueueType
<1>2. m_message_queue[i][1] \in {"event", "handle_close"}
  BY <1>1 DEF Message
<1>. PICK h : h = m_message_queue[i][2]
  OBVIOUS
<1>3. h \in Handle /\ lua[h] # "none" /\ m_message_queue[i][3] = m_lua_ref[h]
  BY <1>1, <1>2 DEF Told
<1>4. UvThere(h)
  <2>1. CASE m_message_queue[i][1] = "event"
    BY <1>1, <2>1 DEF Told
  <2>2. CASE m_message_queue[i][1] = "handle_close"
    BY <1>1, <1>3, <2>2 DEF UvThere, Listed, Lives
  <2>. QED BY <1>2, <2>1, <2>2
<1>. QED BY <1>3, <1>4 DEF Numbers

\* When nothing is on its way, every uv handle has its lua handle.
LEMMA InvLeaks == HandlesInv => NothingLeaks
<1>. SUFFICES ASSUME HandlesInv, m_message_queue = << >>, pipe = << >>,
                     context # "closing",
                     \A h \in Handle : uv[h] \notin {"resolving", "connecting", "closing"}
              PROVE  /\ \A h \in Handle :
                            /\ uv[h] \notin {"none", "deleted"} =>
                                   lua[h] = "open" /\ context = "running"
                            /\ session[h] \notin Calls
                     /\ context = "running" =>
                            \A s \in {"timers", "sockets"}, r \in Ref :
                                m_lua_ref_table[s][r] # Free =>
                                    \E h \in Handle : /\ handle_set(h) = s
                                                      /\ m_lua_ref[h] = r
                                                      /\ lua[h] \in {"open", "closed"}
  BY DEF NothingLeaks
<1>. USE DEF HandlesInv, Types
<1>1. \A type, h : ~Listed(m_message_queue, type, h) /\ ~Listed(pipe, type, h)
  BY DEF Listed
<1>2. \A h \in Handle : /\ lua[h] \in {"none", "open", "closed", "collected"}
                        /\ uv[h] \in UvState
  BY DEF LuaType, UvType
<1>3. \A h \in Handle : uv[h] \notin {"none", "deleted"} =>
          lua[h] = "open" /\ context = "running"
  BY <1>1, <1>2 DEF Owed, Lives, LuaThere, ContextType, UvState
<1>4. \A h \in Handle : session[h] \notin Calls
  BY <1>1 DEF Owed, Calls
<1>5. ASSUME context = "running", NEW s \in {"timers", "sockets"}, NEW r \in Ref,
             m_lua_ref_table[s][r] # Free
      PROVE  \E h \in Handle : handle_set(h) = s /\ m_lua_ref[h] = r /\ LuaThere(h)
  <2>1. PICK h \in Handle : /\ handle_set(h) = s /\ m_lua_ref[h] = r
                            /\ LuaThere(h) \/ UvThere(h)
    BY <1>5 DEF Numbers
  <2>2. UvThere(h) => LuaThere(h)
    BY <1>1, <1>2, <1>3 DEF UvThere, LuaThere, Lives
  <2>. QED BY <2>1, <2>2
<1>. QED BY <1>3, <1>4, <1>5 DEF LuaThere

\* Whatever the Lua code, the network thread and libuv do, in whatever order: nothing
\* points to a uv handle that is deleted, a number means one handle until both its
\* objects are gone, and when all is quiet no uv handle and no number is left without
\* an owner (lua_handle_base.cpp, uv_handle_base.cpp).
THEOREM HandlesLiveAndDie == HandlesSpec => []HandlesExact
<1>1. HandlesInv => HandlesExact
  BY TypesAre, InvUses, InvNumbers, InvLeaks DEF HandlesInv, HandlesExact
<1>. QED BY <1>1, Invariant, PTL

-----------------------------------------------------------------------------
(* How often something is queued.                                           *)

\* Where in q it stands, and how often messages, or requests, of this type about x do.
Positions(q, e) == {i \in DOMAIN q : q[i] = e}
Queued(q, type, x) == Cardinality(Positions(q, <<type, x>>))

\* p is q with one of this type about x at its end, or without it at its head.
Put(q, p, type, x) == \A t, y :
    Queued(p, t, y) = Queued(q, t, y) + (IF t = type /\ y = x THEN 1 ELSE 0)
Took(q, p, type, x) == \A t, y :
    Queued(p, t, y) = Queued(q, t, y) - (IF t = type /\ y = x THEN 1 ELSE 0)

\* The positions are a finite set.
LEMMA PositionsFinite ==
    ASSUME NEW S, NEW q, q \in Seq(S), NEW e
    PROVE  IsFiniteSet(Positions(q, e)) /\ Cardinality(Positions(q, e)) \in Nat
<1>1. DOMAIN q = 1 .. Len(q) /\ Len(q) \in Nat
  OBVIOUS
<1>2. IsFiniteSet(1 .. Len(q))
  BY <1>1, FS_Interval
<1>3. Positions(q, e) \subseteq 1 .. Len(q)
  BY <1>1 DEF Positions
<1>4. IsFiniteSet(Positions(q, e))
  BY <1>2, <1>3, FS_Subset
<1>. QED BY <1>4, FS_CardinalityType

\* A number, which is not 0 when something is queued.
LEMMA QueuedFacts ==
    ASSUME NEW S, NEW q \in Seq(S), NEW type, NEW x
    PROVE  /\ Queued(q, type, x) \in Nat
           /\ q # << >> /\ Head(q) = <<type, x>> => Queued(q, type, x) > 0
           /\ q = << >> => Queued(q, type, x) = 0
<1>1. PICK P : P = Positions(q, <<type, x>>)
  OBVIOUS
<1>2. IsFiniteSet(P) /\ Cardinality(P) \in Nat /\ Queued(q, type, x) = Cardinality(P)
  BY <1>1, PositionsFinite DEF Queued
<1>3. Cardinality(P) = 0 <=> P = {}
  BY <1>2, FS_EmptySet
<1>4. ASSUME q # << >>, Head(q) = <<type, x>> PROVE 1 \in P
  BY <1>1, <1>4 DEF Positions
<1>5. ASSUME q = << >> PROVE P = {}
  BY <1>1, <1>5 DEF Positions
<1>. QED BY <1>2, <1>3, <1>4, <1>5

\* Append.
LEMMA PutLast ==
    ASSUME NEW S, NEW q \in Seq(S), NEW type, NEW x, <<type, x>> \in S,
           NEW p, p = Append(q, <<type, x>>)
    PROVE  p \in Seq(S) /\ p # << >> /\ Put(q, p, type, x)
<1>1. /\ p \in Seq(S) /\ p # << >>
      /\ Len(q) \in Nat /\ Len(p) = Len(q) + 1
      /\ DOMAIN q = 1 .. Len(q) /\ DOMAIN p = 1 .. Len(q) + 1
      /\ \A i \in 1 .. Len(q) : p[i] = q[i]
      /\ p[Len(q) + 1] = <<type, x>>
  OBVIOUS
<1>2. ASSUME NEW t, NEW y
      PROVE  Queued(p, t, y) = Queued(q, t, y) + (IF t = type /\ y = x THEN 1 ELSE 0)
  <2>1. PICK P : P = Positions(q, <<t, y>>)
    OBVIOUS
  <2>2. PICK R : R = Positions(p, <<t, y>>)
    OBVIOUS
  <2>3. IsFiniteSet(P) /\ Cardinality(P) \in Nat /\ Queued(q, t, y) = Cardinality(P)
    BY <2>1, PositionsFinite DEF Queued
  <2>4. Queued(p, t, y) = Cardinality(R)
    BY <2>2 DEF Queued
  <2>5. <<type, x>> = <<t, y>> <=> t = type /\ y = x
    OBVIOUS
  <2>6. Len(q) + 1 \notin P
    BY <1>1, <2>1 DEF Positions
  <2>7. CASE t = type /\ y = x
    <3>1. R = P \cup {Len(q) + 1}
      BY <1>1, <2>1, <2>2, <2>5, <2>7 DEF Positions
    <3>2. Cardinality(R) = Cardinality(P) + 1
      BY <2>3, <2>6, <3>1, FS_AddElement
    <3>. QED BY <2>3, <2>4, <2>7, <3>2
  <2>8. CASE ~(t = type /\ y = x)
    <3>1. R = P
      BY <1>1, <2>1, <2>2, <2>5, <2>8 DEF Positions
    <3>. QED BY <2>3, <2>4, <2>8, <3>1
  <2>. QED BY <2>7, <2>8
<1>. QED BY <1>1, <1>2 DEF Put

\* Tail.
LEMMA TakeFirst ==
    ASSUME NEW S, NEW q \in Seq(S), q # << >>, NEW type, NEW x, Head(q) = <<type, x>>,
           NEW p, p = Tail(q)
    PROVE  p \in Seq(S) /\ Took(q, p, type, x)
<1>1. /\ p \in Seq(S)
      /\ Len(q) \in Nat /\ Len(q) > 0 /\ Len(p) = Len(q) - 1
      /\ DOMAIN q = 1 .. Len(q) /\ DOMAIN p = 1 .. Len(q) - 1
      /\ \A i \in 1 .. Len(q) - 1 : p[i] = q[i + 1]
      /\ q[1] = <<type, x>>
  OBVIOUS
<1>2. ASSUME NEW t, NEW y
      PROVE  Queued(p, t, y) = Queued(q, t, y) - (IF t = type /\ y = x THEN 1 ELSE 0)
  <2>1. PICK P : P = Positions(q, <<t, y>>)
    OBVIOUS
  <2>2. PICK R : R = Positions(p, <<t, y>>)
    OBVIOUS
  <2>3. IsFiniteSet(P) /\ Cardinality(P) \in Nat /\ Queued(q, t, y) = Cardinality(P)
    BY <2>1, PositionsFinite DEF Queued
  <2>4. IsFiniteSet(R) /\ Cardinality(R) \in Nat /\ Queued(p, t, y) = Cardinality(R)
    BY <1>1, <2>2, PositionsFinite DEF Queued
  <2>5. PICK T : T = P \ {1}
    OBVIOUS
  <2>6. IsFiniteSet(T) /\ Cardinality(T) = Cardinality(R)
    <3>1. PICK f : f = [i \in R |-> i + 1]
      OBVIOUS
    <3>2. ASSUME NEW i \in R PROVE i \in Nat /\ i + 1 \in T
      BY <1>1, <2>1, <2>2, <2>5 DEF Positions
    <3>3. ASSUME NEW j \in T PROVE \E i \in R : f[i] = j
      <4>1. j \in 1 .. Len(q) /\ j # 1 /\ q[j] = <<t, y>>
        BY <1>1, <2>1, <2>5 DEF Positions
      <4>2. j - 1 \in 1 .. Len(q) - 1 /\ p[j - 1] = q[j]
        BY <1>1, <4>1
      <4>3. j - 1 \in R /\ (j - 1) + 1 = j
        BY <1>1, <2>2, <4>1, <4>2 DEF Positions
      <4>. QED BY <3>1, <4>3
    <3>4. f \in Bijection(R, T)
      BY <3>1, <3>2, <3>3, Fun_IsBij
    <3>5. ExistsBijection(R, T)
      BY <3>4 DEF ExistsBijection
    <3>. QED BY <2>4, <3>5, FS_Bijection
  <2>7. <<type, x>> = <<t, y>> <=> t = type /\ y = x
    OBVIOUS
  <2>8. CASE t = type /\ y = x
    <3>1. 1 \in P
      BY <1>1, <2>1, <2>7, <2>8 DEF Positions
    <3>2. Cardinality(T) = Cardinality(P) - 1
      BY <2>3, <2>5, <3>1, FS_RemoveElement
    <3>. QED BY <2>3, <2>4, <2>6, <2>8, <3>2
  <2>9. CASE ~(t = type /\ y = x)
    <3>1. T = P
      BY <1>1, <2>1, <2>5, <2>7, <2>9 DEF Positions
    <3>. QED BY <2>3, <2>4, <2>6, <2>9, <3>1
  <2>. QED BY <2>8, <2>9
<1>. QED BY <1>1, <1>2 DEF Took

-----------------------------------------------------------------------------
(* Callbacks.                                                               *)

Messages == {<<"run", s>> : s \in Session} \cup ({"timeout", "udp"} \X Use)
Todo == {"timer_start", "udp_read", "close"} \X Use
Kinds == {"none", "once", "repeat", "sleep", "run", "udp"}
Timers == {"once", "repeat", "sleep"}

CallbackTypes ==
    /\ use_kind \in [Use -> Kinds]
    /\ m_session \in [Use -> Session \cup {REFNIL}]
    /\ is_open \in [Use -> BOOLEAN]
    /\ m_ref_session_table \in [Session -> Use \cup {REFNIL}]
    /\ m_ref_timer_table \in [Session -> Use \cup {REFNIL}]
    /\ c_uv \in [Use -> {"none", "running", "expired", "closing"}]
    /\ fired \in [Use -> 0 .. MAX_FIRED]
    /\ calls \in [Use -> Nat]
    /\ stopped \in [Use -> BOOLEAN]
    /\ messages \in Seq(Messages)
    /\ c_pipe \in Seq(Todo)

\* A session belongs to a timer, a socket or a run that knows its number, and a timer's
\* is in the table of timers as well.
Sessions ==
    /\ \A s \in Session :
        LET u == m_ref_session_table[s]
        IN  IF u = REFNIL THEN m_ref_timer_table[s] = REFNIL
            ELSE /\ use_kind[u] # "none"
                 /\ use_kind[u] # "run" => m_session[u] = s
                 /\ m_ref_timer_table[s] = IF use_kind[u] \in Timers THEN u ELSE REFNIL
    /\ \A s, t \in Session :
        m_ref_session_table[s] = m_ref_session_table[t] /\ m_ref_session_table[s] # REFNIL
            => s = t
    /\ \A u \in Use : m_session[u] # REFNIL => m_ref_session_table[m_session[u]] = u

\* What is queued is about a timer, a socket or a run that there is, and a run is queued
\* once, as long as it has its session.
QueuedFor ==
    /\ \A u \in Use :
        /\ Queued(messages, "timeout", u) > 0 => IsTimer(u)
        /\ Queued(messages, "udp", u) > 0 => use_kind[u] = "udp"
        /\ Queued(c_pipe, "timer_start", u) > 0 => IsTimer(u)
        /\ Queued(c_pipe, "udp_read", u) > 0 => use_kind[u] = "udp"
    /\ \A s \in Session : Queued(messages, "run", s) =
        IF m_ref_session_table[s] # REFNIL /\ use_kind[m_ref_session_table[s]] = "run"
        THEN 1 ELSE 0

\* A timer is open as long as it has its session; a socket that may be read from has
\* one, and keeps it after its end no longer than there are messages about it.
Life(u) ==
    /\ use_kind[u] = "none" =>
        /\ m_session[u] = REFNIL /\ ~is_open[u] /\ ~stopped[u]
        /\ c_uv[u] # "running" /\ fired[u] = 0 /\ calls[u] = 0
    /\ use_kind[u] = "run" => m_session[u] = REFNIL /\ ~is_open[u]
    /\ IsTimer(u) => (is_open[u] <=> m_session[u] # REFNIL)
    /\ stopped[u] => ~is_open[u] /\ use_kind[u] \in {"once", "repeat", "udp"}
    /\ use_kind[u] = "udp" /\ is_open[u] =>
        /\ fired[u] = calls[u] + Queued(messages, "udp", u)
        /\ fired[u] > 0 \/ c_uv[u] = "running" \/ Queued(c_pipe, "udp_read", u) > 0
               => m_session[u] # REFNIL
    /\ use_kind[u] = "udp" /\ ~is_open[u] /\ m_session[u] # REFNIL =>
        Queued(messages, "udp", u) > 0

\* What happens once has done so, or has its session.
Once(u) == use_kind[u] \in {"once", "sleep", "run"} =>
    calls[u] = IF (\A s \in Session : m_ref_session_table[s] # u) /\ ~stopped[u]
               THEN 1 ELSE 0

InUse == {s \in Session : m_ref_session_table[s] # REFNIL}
SessionsCounted == IsFiniteSet(InUse) /\ m_ref_session_count = Cardinality(InUse)

CallbacksInv ==
    /\ CallbackTypes /\ Sessions /\ QueuedFor
    /\ \A u \in Use : Life(u) /\ Once(u)
    /\ SessionsCounted /\ ~late

\* Numbers of what is queued.
QueuesCounted(q) == \A type, x : Queued(q, type, x) \in Nat

\* They are, in every state.
LEMMA CountedQueues ==
    ASSUME CallbackTypes
    PROVE  QueuesCounted(messages) /\ QueuesCounted(c_pipe)
<1>1. messages \in Seq(Messages) /\ c_pipe \in Seq(Todo)
  BY DEF CallbackTypes
<1>. QED BY <1>1, QueuedFacts DEF QueuesCounted

\* The count of sessions when one is taken, freed, or neither.
LEMMA SessionTaken ==
    ASSUME SessionsCounted, CallbackTypes, NEW s \in Session, NEW u \in Use,
           m_ref_session_table[s] = REFNIL,
           m_ref_session_table' = [m_ref_session_table EXCEPT ![s] = u],
           m_ref_session_count' = m_ref_session_count + 1
    PROVE  SessionsCounted'
<1>1. InUse' = InUse \cup {s} /\ s \notin InUse
  BY CallbacksAssumption DEF InUse, CallbackTypes
<1>2. IsFiniteSet(InUse) /\ Cardinality(InUse) \in Nat
  BY FS_CardinalityType DEF SessionsCounted
<1>3. IsFiniteSet(InUse') /\ Cardinality(InUse') = Cardinality(InUse) + 1
  BY <1>1, <1>2, FS_AddElement
<1>. QED BY <1>2, <1>3 DEF SessionsCounted

\* One less.
LEMMA SessionFreed ==
    ASSUME SessionsCounted, CallbackTypes, NEW s \in Session,
           m_ref_session_table[s] # REFNIL,
           m_ref_session_table' = [m_ref_session_table EXCEPT ![s] = REFNIL],
           m_ref_session_count' = m_ref_session_count - 1
    PROVE  SessionsCounted'
<1>1. InUse' = InUse \ {s} /\ s \in InUse
  BY CallbacksAssumption DEF InUse, CallbackTypes
<1>2. IsFiniteSet(InUse) /\ Cardinality(InUse) \in Nat
  BY FS_CardinalityType DEF SessionsCounted
<1>3. IsFiniteSet(InUse') /\ Cardinality(InUse') = Cardinality(InUse) - 1
  BY <1>1, <1>2, FS_RemoveElement
<1>. QED BY <1>2, <1>3 DEF SessionsCounted

\* As many.
LEMMA SessionsUntouched ==
    ASSUME SessionsCounted, UNCHANGED <<m_ref_session_table, m_ref_session_count>>
    PROVE  SessionsCounted'
  BY DEF SessionsCounted, InUse

\* What a step leaves alone.
LEMMA LifeKept ==
    ASSUME NEW d \in Use, Life(d),
           use_kind'[d] = use_kind[d], m_session'[d] = m_session[d],
           is_open'[d] = is_open[d], stopped'[d] = stopped[d], fired'[d] = fired[d],
           calls'[d] = calls[d],
           c_uv'[d] = "running" => c_uv[d] = "running",
           Queued(messages', "udp", d) = Queued(messages, "udp", d),
           Queued(c_pipe', "udp_read", d) > 0 => Queued(c_pipe, "udp_read", d) > 0
    PROVE  Life(d)'
  BY DEF Life, IsTimer

\* And what happens once, when the sessions that have it are the same.
LEMMA OnceKept ==
    ASSUME NEW d \in Use, Once(d),
           use_kind'[d] = use_kind[d], calls'[d] = calls[d], stopped'[d] = stopped[d],
           \A s \in Session :
               m_ref_session_table'[s] = d <=> m_ref_session_table[s] = d
    PROVE  Once(d)'
  BY DEF Once

\* A timer is made and started.
LEMMA StartKeeps ==
    ASSUME CallbacksInv, NEW u \in Use, NEW k \in {"once", "repeat", "sleep"},
           StartTimer(u, k)
    PROVE  CallbacksInv'
<1>. USE CallbacksAssumption
<1>1. PICK s \in Session :
        /\ use_kind[u] = "none" /\ use_kind' = [use_kind EXCEPT ![u] = k]
        /\ m_ref_session_table[s] = REFNIL
        /\ m_ref_session_table' = [m_ref_session_table EXCEPT ![s] = u]
        /\ m_ref_session_count' = m_ref_session_count + 1
        /\ m_session' = [m_session EXCEPT ![u] = s]
        /\ is_open' = [is_open EXCEPT ![u] = TRUE]
        /\ m_ref_timer_table' = [m_ref_timer_table EXCEPT ![s] = u]
        /\ c_pipe' = Append(c_pipe, <<"timer_start", u>>)
        /\ UNCHANGED <<messages, c_uv, fired, calls, stopped, late>>
  BY DEF StartTimer, lua_ref_session, lua_ref_timer
<1>2. /\ CallbackTypes /\ Sessions /\ QueuedFor /\ Life(u) /\ Once(u)
      /\ \A d \in Use : Life(d) /\ Once(d)
      /\ SessionsCounted /\ ~late
  BY DEF CallbacksInv
<1>3. QueuesCounted(messages) /\ QueuesCounted(c_pipe)
  BY <1>2, CountedQueues
<1>4. c_pipe' \in Seq(Todo) /\ Put(c_pipe, c_pipe', "timer_start", u)
  <2>1. c_pipe \in Seq(Todo) /\ <<"timer_start", u>> \in Todo
    BY <1>2 DEF CallbackTypes, Todo
  <2>. QED BY <1>1, <2>1, PutLast
<1>5. CallbackTypes'
  BY <1>1, <1>2, <1>4 DEF CallbackTypes, Kinds
<1>6. \A t \in Session : m_ref_session_table[t] # u
  BY <1>1, <1>2 DEF Sessions, CallbackTypes
<1>7. \A d \in Use \ {u} : use_kind'[d] = use_kind[d] /\ m_session'[d] = m_session[d]
                           /\ is_open'[d] = is_open[d]
  BY <1>1, <1>2 DEF CallbackTypes
<1>8. /\ use_kind'[u] = k /\ m_session'[u] = s /\ is_open'[u] = TRUE
      /\ m_ref_session_table'[s] = u /\ m_ref_timer_table'[s] = u
      /\ \A t \in Session \ {s} : m_ref_session_table'[t] = m_ref_session_table[t]
                                  /\ m_ref_timer_table'[t] = m_ref_timer_table[t]
  BY <1>1, <1>2 DEF CallbackTypes
<1>9. Sessions'
  <2>1. ASSUME NEW t \in Session
        PROVE  IF m_ref_session_table'[t] = REFNIL THEN m_ref_timer_table'[t] = REFNIL
               ELSE /\ use_kind'[m_ref_session_table'[t]] # "none"
                    /\ use_kind'[m_ref_session_table'[t]] # "run" =>
                           m_session'[m_ref_session_table'[t]] = t
                    /\ m_ref_timer_table'[t] =
                           IF use_kind'[m_ref_session_table'[t]] \in Timers THEN m_ref_session_table'[t]
                           ELSE REFNIL
    <3>1. CASE t = s
      BY <1>8, <3>1 DEF Timers
    <3>2. CASE t # s
      <4>1. m_ref_session_table[t] \in Use \cup {REFNIL} /\ m_ref_session_table[t] # u
        BY <1>2, <1>6 DEF CallbackTypes
      <4>. QED BY <1>2, <1>7, <1>8, <3>2, <4>1 DEF Sessions
    <3>. QED BY <3>1, <3>2
  <2>2. ASSUME NEW t \in Session, NEW r \in Session,
               m_ref_session_table'[t] = m_ref_session_table'[r],
               m_ref_session_table'[t] # REFNIL
        PROVE  t = r
    BY <1>2, <1>6, <1>8, <2>2 DEF Sessions
  <2>3. ASSUME NEW d \in Use, m_session'[d] # REFNIL
        PROVE  m_ref_session_table'[m_session'[d]] = d
    <3>1. CASE d = u
      BY <1>8, <3>1
    <3>2. CASE d # u
      <4>1. m_session[d] \in Session /\ m_ref_session_table[m_session[d]] = d
        BY <1>2, <1>7, <2>3, <3>2 DEF Sessions, CallbackTypes
      <4>2. m_session[d] # s
        BY <1>1, <4>1
      <4>. QED BY <1>7, <1>8, <3>2, <4>1, <4>2
    <3>. QED BY <3>1, <3>2
  <2>. QED BY <2>1, <2>2, <2>3 DEF Sessions
<1>10. QueuedFor'
  <2>1. ASSUME NEW d \in Use
        PROVE  /\ Queued(messages', "timeout", d) > 0 => IsTimer(d)'
               /\ Queued(messages', "udp", d) > 0 => use_kind'[d] = "udp"
               /\ Queued(c_pipe', "timer_start", d) > 0 => IsTimer(d)'
               /\ Queued(c_pipe', "udp_read", d) > 0 => use_kind'[d] = "udp"
    <3>1. CASE d = u
      BY <1>1, <1>2, <1>3, <1>4, <1>8, <3>1 DEF QueuedFor, IsTimer, Put, QueuesCounted
    <3>2. CASE d # u
      BY <1>1, <1>2, <1>3, <1>4, <1>7, <3>2 DEF QueuedFor, IsTimer, Put, QueuesCounted
    <3>. QED BY <3>1, <3>2
  <2>2. ASSUME NEW t \in Session
        PROVE  Queued(messages', "run", t) =
                   IF m_ref_session_table'[t] # REFNIL
                      /\ use_kind'[m_ref_session_table'[t]] = "run" THEN 1 ELSE 0
    <3>1. CASE t = s
      BY <1>1, <1>2, <1>8, <3>1 DEF QueuedFor
    <3>2. CASE t # s
      <4>1. m_ref_session_table[t] \in Use \cup {REFNIL} /\ m_ref_session_table[t] # u
        BY <1>2, <1>6 DEF CallbackTypes
      <4>. QED BY <1>1, <1>2, <1>7, <1>8, <3>2, <4>1 DEF QueuedFor
    <3>. QED BY <3>1, <3>2
  <2>. QED BY <2>1, <2>2 DEF QueuedFor
<1>11. ASSUME NEW d \in Use PROVE Life(d)' /\ Once(d)'
  <2>1. CASE d = u
    <3>1. Life(u)'
      BY <1>1, <1>2, <1>8 DEF Life, IsTimer
    <3>2. Once(u)'
      BY <1>1, <1>2, <1>8 DEF Once, Life
    <3>. QED BY <2>1, <3>1, <3>2
  <2>2. CASE d # u
    <3>1. Life(d)'
      <4>1. Queued(c_pipe', "udp_read", d) = Queued(c_pipe, "udp_read", d)
        BY <1>3, <1>4 DEF Put, QueuesCounted
      <4>. QED BY <1>1, <1>2, <1>7, <2>2, <4>1, LifeKept
    <3>2. Once(d)'
      <4>1. \A t \in Session : m_ref_session_table'[t] = d <=> m_ref_session_table[t] = d
        BY <1>1, <1>8, <2>2
      <4>. QED BY <1>1, <1>2, <1>7, <2>2, <4>1, OnceKept
    <3>. QED BY <3>1, <3>2
  <2>. QED BY <2>1, <2>2
<1>12. SessionsCounted' /\ ~late'
  BY <1>1, <1>2, SessionTaken
<1>. QED BY <1>5, <1>9, <1>10, <1>11, <1>12 DEF CallbacksInv

\* What every step begins with.
LEMMA Parts ==
    ASSUME CallbacksInv
    PROVE  /\ CallbackTypes /\ Sessions /\ QueuedFor /\ SessionsCounted /\ ~late
           /\ \A d \in Use : Life(d) /\ Once(d)
           /\ QueuesCounted(messages) /\ QueuesCounted(c_pipe)
  BY CountedQueues DEF CallbacksInv

\* A session goes, and with it the timer that it has.
LEMMA FreeKeeps ==
    ASSUME CallbackTypes, Sessions, NEW s \in Session, NEW u \in Use,
           m_ref_session_table[s] = u,
           m_session[u] \in {s, REFNIL},
           m_ref_session_table' = [m_ref_session_table EXCEPT ![s] = REFNIL],
           m_ref_timer_table' = [m_ref_timer_table EXCEPT ![s] = REFNIL],
           m_session' = [m_session EXCEPT ![u] = REFNIL],
           use_kind' = use_kind
    PROVE  /\ Sessions'
           /\ \A t \in Session : m_ref_session_table'[t] # u
           /\ \A t \in Session : m_ref_session_table[t] = u => t = s
           /\ \A t \in Session \ {s} : m_ref_session_table'[t] = m_ref_session_table[t]
           /\ \A d \in Use \ {u} : m_session'[d] = m_session[d]
           /\ m_session'[u] = REFNIL /\ m_ref_session_table'[s] = REFNIL
<1>. USE CallbacksAssumption
<1>1. /\ \A t \in Session \ {s} : m_ref_session_table'[t] = m_ref_session_table[t]
                                  /\ m_ref_timer_table'[t] = m_ref_timer_table[t]
      /\ m_ref_session_table'[s] = REFNIL /\ m_ref_timer_table'[s] = REFNIL
      /\ \A d \in Use \ {u} : m_session'[d] = m_session[d]
      /\ m_session'[u] = REFNIL /\ u # REFNIL
  BY DEF CallbackTypes
<1>2. \A t \in Session : m_ref_session_table[t] = u => t = s
  BY <1>1 DEF Sessions
<1>3. \A t \in Session : m_ref_session_table'[t] # u
  BY <1>1, <1>2
<1>4. ASSUME NEW t \in Session
      PROVE  IF m_ref_session_table'[t] = REFNIL THEN m_ref_timer_table'[t] = REFNIL
             ELSE /\ use_kind'[m_ref_session_table'[t]] # "none"
                  /\ use_kind'[m_ref_session_table'[t]] # "run" =>
                         m_session'[m_ref_session_table'[t]] = t
                  /\ m_ref_timer_table'[t] =
                         IF use_kind'[m_ref_session_table'[t]] \in Timers
                         THEN m_ref_session_table'[t] ELSE REFNIL
  <2>1. CASE t = s
    BY <1>1, <2>1
  <2>2. CASE t # s
    <3>1. m_ref_session_table[t] \in Use \cup {REFNIL} /\ m_ref_session_table[t] # u
      BY <1>2, <2>2 DEF CallbackTypes
    <3>. QED BY <1>1, <2>2, <3>1 DEF Sessions
  <2>. QED BY <2>1, <2>2
<1>5. ASSUME NEW t \in Session, NEW r \in Session,
             m_ref_session_table'[t] = m_ref_session_table'[r],
             m_ref_session_table'[t] # REFNIL
      PROVE  t = r
  BY <1>1, <1>5 DEF Sessions
<1>6. ASSUME NEW d \in Use, m_session'[d] # REFNIL
      PROVE  m_ref_session_table'[m_session'[d]] = d
  <2>1. d # u /\ m_session[d] \in Session /\ m_ref_session_table[m_session[d]] = d
    BY <1>1, <1>6 DEF Sessions, CallbackTypes
  <2>. QED BY <1>1, <1>2, <2>1
<1>7. Sessions'
  BY <1>4, <1>5, <1>6 DEF Sessions
<1>. QED BY <1>1, <1>2, <1>3, <1>7

\* What is queued, when kinds are the same and messages and requests are fewer, or about
\* what may have them.
LEMMA QueuedForKept ==
    ASSUME QueuedFor, use_kind' = use_kind,
           \A d \in Use :
               /\ Queued(messages', "timeout", d) > 0 =>
                      Queued(messages, "timeout", d) > 0 \/ IsTimer(d)
               /\ Queued(messages', "udp", d) > 0 =>
                      Queued(messages, "udp", d) > 0 \/ use_kind[d] = "udp"
               /\ Queued(c_pipe', "timer_start", d) > 0 =>
                      Queued(c_pipe, "timer_start", d) > 0
               /\ Queued(c_pipe', "udp_read", d) > 0 =>
                      Queued(c_pipe, "udp_read", d) > 0 \/ use_kind[d] = "udp",
           \A s \in Session : Queued(messages', "run", s) =
               IF m_ref_session_table'[s] # REFNIL
                  /\ use_kind[m_ref_session_table'[s]] = "run" THEN 1 ELSE 0
    PROVE  QueuedFor'
  BY DEF QueuedFor, IsTimer

\* timer.close.
LEMMA CloseKeeps ==
    ASSUME CallbacksInv, NEW u \in Use, timer_close(u)
    PROVE  CallbacksInv'
<1>. USE CallbacksAssumption
<1>1. /\ CallbackTypes /\ Sessions /\ QueuedFor /\ SessionsCounted /\ ~late
      /\ \A d \in Use : Life(d) /\ Once(d)
      /\ QueuesCounted(messages) /\ QueuesCounted(c_pipe)
  BY Parts
<1>2. /\ use_kind[u] \in {"once", "repeat"} /\ is_open[u] = TRUE
      /\ lua_free_ref_session(m_session[u])
      /\ stopped' = [stopped EXCEPT ![u] = TRUE]
      /\ UNCHANGED <<use_kind, messages, c_uv, fired, calls, late>>
  BY <1>1 DEF timer_close, CallbackTypes
<1>3. PICK s : s = m_session[u]
  OBVIOUS
<1>4. /\ s \in Session /\ m_ref_session_table[s] = u /\ m_ref_timer_table[s] = u
      /\ u # REFNIL /\ m_session[u] = s
      /\ use_kind[u] = "once" => calls[u] = 0
  <2>1. s \in Session /\ m_session[u] = s /\ m_ref_session_table[s] = u
    BY <1>1, <1>2, <1>3 DEF Life, IsTimer, Sessions, CallbackTypes
  <2>2. m_ref_timer_table[s] = u
    BY <1>1, <1>2, <2>1 DEF Sessions, Timers
  <2>3. use_kind[u] = "once" => calls[u] = 0
    BY <1>1, <1>2, <2>1 DEF Once
  <2>. QED BY <1>2, <2>1, <2>2, <2>3
<1>5. /\ m_ref_session_table' = [m_ref_session_table EXCEPT ![s] = REFNIL]
      /\ m_ref_session_count' = m_ref_session_count - 1
      /\ m_ref_timer_table' = [m_ref_timer_table EXCEPT ![s] = REFNIL]
      /\ m_session' = [m_session EXCEPT ![u] = REFNIL]
      /\ is_open' = [is_open EXCEPT ![u] = FALSE]
      /\ c_pipe' = Append(c_pipe, <<"close", u>>)
  BY <1>2, <1>3, <1>4 DEF lua_free_ref_session
<1>6. c_pipe' \in Seq(Todo) /\ Put(c_pipe, c_pipe', "close", u)
  <2>1. c_pipe \in Seq(Todo) /\ <<"close", u>> \in Todo
    BY <1>1 DEF CallbackTypes, Todo
  <2>. QED BY <1>5, <2>1, PutLast
<1>7. CallbackTypes'
  BY <1>1, <1>2, <1>5, <1>6 DEF CallbackTypes
<1>8. /\ Sessions'
      /\ \A t \in Session : m_ref_session_table'[t] # u
      /\ \A t \in Session : m_ref_session_table[t] = u => t = s
      /\ \A t \in Session \ {s} : m_ref_session_table'[t] = m_ref_session_table[t]
      /\ \A d \in Use \ {u} : m_session'[d] = m_session[d]
      /\ m_session'[u] = REFNIL /\ m_ref_session_table'[s] = REFNIL
  BY <1>1, <1>2, <1>4, <1>5, FreeKeeps
<1>9. /\ \A d \in Use \ {u} : is_open'[d] = is_open[d] /\ stopped'[d] = stopped[d]
      /\ is_open'[u] = FALSE /\ stopped'[u] = TRUE
  BY <1>1, <1>2, <1>5 DEF CallbackTypes
<1>10. QueuedFor'
  <2>1. ASSUME NEW t \in Session
        PROVE  Queued(messages', "run", t) =
                   IF m_ref_session_table'[t] # REFNIL
                      /\ use_kind[m_ref_session_table'[t]] = "run" THEN 1 ELSE 0
    <3>1. CASE t = s
      BY <1>1, <1>2, <1>4, <1>8, <3>1 DEF QueuedFor
    <3>2. CASE t # s
      BY <1>1, <1>2, <1>8, <3>2 DEF QueuedFor
    <3>. QED BY <3>1, <3>2
  <2>2. \A d \in Use :
            /\ Queued(c_pipe', "timer_start", d) = Queued(c_pipe, "timer_start", d)
            /\ Queued(c_pipe', "udp_read", d) = Queued(c_pipe, "udp_read", d)
    BY <1>1, <1>6 DEF Put, QueuesCounted
  <2>. QED BY <1>1, <1>2, <2>1, <2>2, QueuedForKept
<1>11. ASSUME NEW d \in Use PROVE Life(d)' /\ Once(d)'
  <2>1. CASE d = u
    <3>1. Life(u)'
      BY <1>2, <1>8, <1>9 DEF Life, IsTimer
    <3>2. Once(u)'
      BY <1>2, <1>4, <1>9 DEF Once
    <3>. QED BY <2>1, <3>1, <3>2
  <2>2. CASE d # u
    <3>1. Life(d)'
      <4>1. Queued(c_pipe', "udp_read", d) = Queued(c_pipe, "udp_read", d)
        BY <1>1, <1>6 DEF Put, QueuesCounted
      <4>. QED BY <1>1, <1>2, <1>8, <1>9, <2>2, <4>1, LifeKept
    <3>2. Once(d)'
      <4>1. \A t \in Session : m_ref_session_table'[t] = d <=> m_ref_session_table[t] = d
        BY <1>4, <1>8, <2>2
      <4>. QED BY <1>1, <1>2, <1>9, <2>2, <4>1, OnceKept
    <3>. QED BY <3>1, <3>2
  <2>. QED BY <2>1, <2>2
<1>12. SessionsCounted' /\ ~late'
  BY <1>1, <1>2, <1>4, <1>5, SessionFreed
<1>. QED BY <1>7, <1>8, <1>10, <1>11, <1>12 DEF CallbacksInv

\* context.run.
LEMMA RunKeeps ==
    ASSUME CallbacksInv, NEW u \in Use, context_run(u)
    PROVE  CallbacksInv'
<1>. USE CallbacksAssumption
<1>1. /\ CallbackTypes /\ Sessions /\ QueuedFor /\ SessionsCounted /\ ~late
      /\ \A d \in Use : Life(d) /\ Once(d)
      /\ QueuesCounted(messages) /\ QueuesCounted(c_pipe)
  BY Parts
<1>2. PICK s \in Session :
        /\ use_kind[u] = "none" /\ use_kind' = [use_kind EXCEPT ![u] = "run"]
        /\ m_ref_session_table[s] = REFNIL
        /\ m_ref_session_table' = [m_ref_session_table EXCEPT ![s] = u]
        /\ m_ref_session_count' = m_ref_session_count + 1
        /\ messages' = Append(messages, <<"run", s>>)
        /\ UNCHANGED <<m_session, is_open, m_ref_timer_table, c_pipe, c_uv, fired, calls,
                       stopped, late>>
  BY DEF context_run, lua_ref_session, callback_net
<1>3. messages' \in Seq(Messages) /\ Put(messages, messages', "run", s)
  <2>1. messages \in Seq(Messages) /\ <<"run", s>> \in Messages
    BY <1>1 DEF CallbackTypes, Messages
  <2>. QED BY <1>2, <2>1, PutLast
<1>4. CallbackTypes'
  BY <1>1, <1>2, <1>3 DEF CallbackTypes, Kinds
<1>5. /\ \A t \in Session : m_ref_session_table[t] # u
      /\ \A t \in Session \ {s} : m_ref_session_table'[t] = m_ref_session_table[t]
      /\ m_ref_session_table'[s] = u /\ m_ref_timer_table[s] = REFNIL
      /\ \A d \in Use \ {u} : use_kind'[d] = use_kind[d]
      /\ use_kind'[u] = "run" /\ u # REFNIL
  BY <1>1, <1>2 DEF Sessions, CallbackTypes
<1>6. Sessions'
  <2>1. ASSUME NEW t \in Session
        PROVE  IF m_ref_session_table'[t] = REFNIL THEN m_ref_timer_table'[t] = REFNIL
               ELSE /\ use_kind'[m_ref_session_table'[t]] # "none"
                    /\ use_kind'[m_ref_session_table'[t]] # "run" =>
                           m_session'[m_ref_session_table'[t]] = t
                    /\ m_ref_timer_table'[t] =
                           IF use_kind'[m_ref_session_table'[t]] \in Timers
                           THEN m_ref_session_table'[t] ELSE REFNIL
    <3>1. CASE t = s
      BY <1>2, <1>5, <3>1 DEF Timers
    <3>2. CASE t # s
      <4>1. m_ref_session_table[t] \in Use \cup {REFNIL} /\ m_ref_session_table[t] # u
        BY <1>1, <1>5 DEF CallbackTypes
      <4>. QED BY <1>1, <1>2, <1>5, <3>2, <4>1 DEF Sessions
    <3>. QED BY <3>1, <3>2
  <2>2. ASSUME NEW t \in Session, NEW r \in Session,
               m_ref_session_table'[t] = m_ref_session_table'[r],
               m_ref_session_table'[t] # REFNIL
        PROVE  t = r
    BY <1>1, <1>5, <2>2 DEF Sessions
  <2>3. ASSUME NEW d \in Use, m_session'[d] # REFNIL
        PROVE  m_ref_session_table'[m_session'[d]] = d
    <3>1. m_session[d] \in Session /\ m_ref_session_table[m_session[d]] = d
      BY <1>1, <1>2, <2>3 DEF Sessions, CallbackTypes
    <3>2. m_session[d] # s
      BY <1>2, <3>1
    <3>. QED BY <1>2, <1>5, <3>1, <3>2
  <2>. QED BY <2>1, <2>2, <2>3 DEF Sessions
<1>7. QueuedFor'
  <2>1. ASSUME NEW d \in Use
        PROVE  /\ Queued(messages', "timeout", d) > 0 => IsTimer(d)'
               /\ Queued(messages', "udp", d) > 0 => use_kind'[d] = "udp"
               /\ Queued(c_pipe', "timer_start", d) > 0 => IsTimer(d)'
               /\ Queued(c_pipe', "udp_read", d) > 0 => use_kind'[d] = "udp"
    <3>1. /\ Queued(messages', "timeout", d) = Queued(messages, "timeout", d)
          /\ Queued(messages', "udp", d) = Queued(messages, "udp", d)
          /\ c_pipe' = c_pipe
      BY <1>1, <1>2, <1>3 DEF Put, QueuesCounted
    <3>2. CASE d = u
      BY <1>1, <1>2, <3>1, <3>2 DEF QueuedFor, IsTimer
    <3>3. CASE d # u
      BY <1>1, <1>5, <3>1, <3>3 DEF QueuedFor, IsTimer
    <3>. QED BY <3>2, <3>3
  <2>2. ASSUME NEW t \in Session
        PROVE  Queued(messages', "run", t) =
                   IF m_ref_session_table'[t] # REFNIL
                      /\ use_kind'[m_ref_session_table'[t]] = "run" THEN 1 ELSE 0
    <3>1. CASE t = s
      <4>1. Queued(messages, "run", s) = 0
        BY <1>1, <1>2 DEF QueuedFor
      <4>2. Queued(messages', "run", s) = 1
        BY <1>3, <4>1 DEF Put
      <4>. QED BY <1>5, <3>1, <4>2
    <3>2. CASE t # s
      <4>1. m_ref_session_table[t] \in Use \cup {REFNIL} /\ m_ref_session_table[t] # u
        BY <1>1, <1>5 DEF CallbackTypes
      <4>2. Queued(messages', "run", t) = Queued(messages, "run", t)
        BY <1>1, <1>3, <3>2 DEF Put, QueuesCounted
      <4>. QED BY <1>1, <1>5, <3>2, <4>1, <4>2 DEF QueuedFor
    <3>. QED BY <3>1, <3>2
  <2>. QED BY <2>1, <2>2 DEF QueuedFor
<1>8. ASSUME NEW d \in Use PROVE Life(d)' /\ Once(d)'
  <2>1. Queued(messages', "udp", d) = Queued(messages, "udp", d)
    BY <1>1, <1>3 DEF Put, QueuesCounted
  <2>2. CASE d = u
    <3>1. Life(u)'
      BY <1>1, <1>2, <1>5 DEF Life, IsTimer
    <3>2. Once(u)'
      BY <1>1, <1>2, <1>5 DEF Once, Life
    <3>. QED BY <2>2, <3>1, <3>2
  <2>3. CASE d # u
    <3>1. Life(d)'
      BY <1>1, <1>2, <1>5, <2>1, <2>3, LifeKept
    <3>2. Once(d)'
      <4>1. \A t \in Session : m_ref_session_table'[t] = d <=> m_ref_session_table[t] = d
        BY <1>2, <1>5, <2>3
      <4>. QED BY <1>1, <1>2, <1>5, <2>3, <4>1, OnceKept
    <3>. QED BY <3>1, <3>2
  <2>. QED BY <2>2, <2>3
<1>9. SessionsCounted' /\ ~late'
  BY <1>1, <1>2, SessionTaken
<1>. QED BY <1>4, <1>6, <1>7, <1>8, <1>9 DEF CallbacksInv

\* Tables that no step changes stay as they are.
LEMMA SessionsKept ==
    ASSUME Sessions, use_kind' = use_kind, m_session' = m_session,
           m_ref_session_table' = m_ref_session_table,
           m_ref_timer_table' = m_ref_timer_table
    PROVE  Sessions'
  BY DEF Sessions

\* udp.open.
LEMMA OpenKeeps ==
    ASSUME CallbacksInv, NEW u \in Use, udp_open(u)
    PROVE  CallbacksInv'
<1>. USE CallbacksAssumption
<1>1. /\ CallbackTypes /\ Sessions /\ QueuedFor /\ SessionsCounted /\ ~late
      /\ \A d \in Use : Life(d) /\ Once(d)
      /\ QueuesCounted(messages) /\ QueuesCounted(c_pipe)
  BY Parts
<1>2. /\ use_kind[u] = "none" /\ use_kind' = [use_kind EXCEPT ![u] = "udp"]
      /\ is_open' = [is_open EXCEPT ![u] = TRUE]
      /\ UNCHANGED <<m_session, m_ref_session_table, m_ref_timer_table,
                     m_ref_session_count, messages, c_pipe, c_uv, fired, calls, stopped,
                     late>>
  BY DEF udp_open, ref_tables, callback_net
<1>3. /\ \A t \in Session : m_ref_session_table[t] # u
      /\ \A d \in Use \ {u} : use_kind'[d] = use_kind[d] /\ is_open'[d] = is_open[d]
      /\ use_kind'[u] = "udp" /\ is_open'[u] = TRUE
  BY <1>1, <1>2 DEF Sessions, CallbackTypes
<1>4. CallbackTypes'
  BY <1>1, <1>2 DEF CallbackTypes, Kinds
<1>5. Sessions'
  <2>1. \A t \in Session : m_ref_session_table[t] \in (Use \ {u}) \cup {REFNIL}
    BY <1>1, <1>3 DEF CallbackTypes
  <2>. QED BY <1>1, <1>2, <1>3, <2>1 DEF Sessions
<1>6. QueuedFor'
  <2>1. ASSUME NEW d \in Use
        PROVE  /\ Queued(messages', "timeout", d) > 0 => IsTimer(d)'
               /\ Queued(messages', "udp", d) > 0 => use_kind'[d] = "udp"
               /\ Queued(c_pipe', "timer_start", d) > 0 => IsTimer(d)'
               /\ Queued(c_pipe', "udp_read", d) > 0 => use_kind'[d] = "udp"
    <3>1. CASE d = u
      BY <1>1, <1>2, <1>3, <3>1 DEF QueuedFor, IsTimer
    <3>2. CASE d # u
      BY <1>1, <1>2, <1>3, <3>2 DEF QueuedFor, IsTimer
    <3>. QED BY <3>1, <3>2
  <2>2. ASSUME NEW t \in Session
        PROVE  Queued(messages', "run", t) =
                   IF m_ref_session_table'[t] # REFNIL
                      /\ use_kind'[m_ref_session_table'[t]] = "run" THEN 1 ELSE 0
    <3>1. m_ref_session_table[t] \in Use \cup {REFNIL} /\ m_ref_session_table[t] # u
      BY <1>1, <1>3 DEF CallbackTypes
    <3>. QED BY <1>1, <1>2, <1>3, <3>1 DEF QueuedFor
  <2>. QED BY <2>1, <2>2 DEF QueuedFor
<1>7. ASSUME NEW d \in Use PROVE Life(d)' /\ Once(d)'
  <2>1. CASE d = u
    <3>1. Queued(messages, "udp", u) = 0 /\ Queued(c_pipe, "udp_read", u) = 0
      <4>1. ~(Queued(messages, "udp", u) > 0) /\ ~(Queued(c_pipe, "udp_read", u) > 0)
        BY <1>1, <1>2 DEF QueuedFor
      <4>2. Queued(messages, "udp", u) \in Nat /\ Queued(c_pipe, "udp_read", u) \in Nat
        BY <1>1 DEF QueuesCounted
      <4>. QED BY <4>1, <4>2
    <3>2. Life(u)'
      BY <1>1, <1>2, <1>3, <3>1 DEF Life, IsTimer
    <3>3. Once(u)'
      BY <1>3 DEF Once
    <3>. QED BY <2>1, <3>2, <3>3
  <2>2. CASE d # u
    BY <1>1, <1>2, <1>3, <2>2, LifeKept, OnceKept
  <2>. QED BY <2>1, <2>2
<1>8. SessionsCounted' /\ ~late'
  BY <1>1, <1>2, SessionsUntouched
<1>. QED BY <1>4, <1>5, <1>6, <1>7, <1>8 DEF CallbacksInv

\* udp.read.
LEMMA ReadKeeps ==
    ASSUME CallbacksInv, NEW u \in Use, udp_read(u)
    PROVE  CallbacksInv'
<1>. USE CallbacksAssumption
<1>1. /\ CallbackTypes /\ Sessions /\ QueuedFor /\ SessionsCounted /\ ~late
      /\ \A d \in Use : Life(d) /\ Once(d)
      /\ QueuesCounted(messages) /\ QueuesCounted(c_pipe)
  BY Parts
<1>2. /\ use_kind[u] = "udp" /\ is_open[u]
      /\ c_pipe' = Append(c_pipe, <<"udp_read", u>>)
      /\ UNCHANGED <<use_kind, is_open, m_ref_timer_table, messages, c_uv, fired, calls,
                     stopped, late>>
      /\ \/ /\ m_session[u] # REFNIL
            /\ UNCHANGED <<m_ref_session_table, m_ref_session_count, m_session>>
         \/ /\ m_session[u] = REFNIL
            /\ \E s \in Session :
                /\ m_ref_session_table[s] = REFNIL
                /\ m_ref_session_table' = [m_ref_session_table EXCEPT ![s] = u]
                /\ m_ref_session_count' = m_ref_session_count + 1
                /\ m_session' = [m_session EXCEPT ![u] = s]
  BY DEF udp_read, lua_ref_session
<1>3. c_pipe' \in Seq(Todo) /\ Put(c_pipe, c_pipe', "udp_read", u)
  <2>1. c_pipe \in Seq(Todo) /\ <<"udp_read", u>> \in Todo
    BY <1>1 DEF CallbackTypes, Todo
  <2>. QED BY <1>2, <2>1, PutLast
<1>4. /\ \A d \in Use : d # u =>
             Queued(c_pipe', "udp_read", d) = Queued(c_pipe, "udp_read", d)
      /\ \A d \in Use :
             Queued(c_pipe', "timer_start", d) = Queued(c_pipe, "timer_start", d)
  BY <1>1, <1>3 DEF Put, QueuesCounted
<1>5. CASE UNCHANGED <<m_ref_session_table, m_ref_session_count, m_session>>
           /\ m_session[u] # REFNIL
  <2>1. CallbackTypes'
    BY <1>1, <1>2, <1>3, <1>5 DEF CallbackTypes
  <2>2. Sessions'
    BY <1>1, <1>2, <1>5, SessionsKept
  <2>3. QueuedFor'
    <3>1. \A t \in Session : Queued(messages', "run", t) =
              IF m_ref_session_table'[t] # REFNIL
                 /\ use_kind[m_ref_session_table'[t]] = "run" THEN 1 ELSE 0
      BY <1>1, <1>2, <1>5 DEF QueuedFor
    <3>. QED BY <1>1, <1>2, <1>4, <3>1, QueuedForKept
  <2>4. ASSUME NEW d \in Use PROVE Life(d)' /\ Once(d)'
    <3>1. CASE d = u
      BY <1>1, <1>2, <1>5, <3>1 DEF Life, Once, IsTimer
    <3>2. CASE d # u
      BY <1>1, <1>2, <1>4, <1>5, <3>2, LifeKept, OnceKept
    <3>. QED BY <3>1, <3>2
  <2>5. SessionsCounted' /\ ~late'
    BY <1>1, <1>2, <1>5, SessionsUntouched
  <2>. QED BY <2>1, <2>2, <2>3, <2>4, <2>5 DEF CallbacksInv
<1>6. ASSUME NEW s \in Session, m_session[u] = REFNIL,
             m_ref_session_table[s] = REFNIL,
             m_ref_session_table' = [m_ref_session_table EXCEPT ![s] = u],
             m_ref_session_count' = m_ref_session_count + 1,
             m_session' = [m_session EXCEPT ![u] = s]
      PROVE  CallbacksInv'
  <2>1. CallbackTypes'
    BY <1>1, <1>2, <1>3, <1>6 DEF CallbackTypes
  <2>2. /\ \A t \in Session : m_ref_session_table[t] # u
        /\ \A t \in Session \ {s} : m_ref_session_table'[t] = m_ref_session_table[t]
        /\ m_ref_session_table'[s] = u /\ m_ref_timer_table[s] = REFNIL
        /\ \A d \in Use \ {u} : m_session'[d] = m_session[d]
        /\ m_session'[u] = s /\ u # REFNIL /\ s # REFNIL
    <3>1. u # REFNIL /\ s # REFNIL /\ m_ref_timer_table[s] = REFNIL
      BY <1>1, <1>6 DEF Sessions
    <3>2. ASSUME NEW t \in Session, m_ref_session_table[t] = u PROVE FALSE
      <4>1. m_session[u] = t
        BY <1>1, <1>2, <3>1, <3>2 DEF Sessions
      <4>. QED BY <1>6, <4>1
    <3>3. /\ \A t \in Session \ {s} :
                m_ref_session_table'[t] = m_ref_session_table[t]
          /\ m_ref_session_table'[s] = u
      BY <1>1, <1>6 DEF CallbackTypes
    <3>4. /\ \A d \in Use \ {u} : m_session'[d] = m_session[d]
          /\ m_session'[u] = s
      BY <1>1, <1>6 DEF CallbackTypes
    <3>. QED BY <3>1, <3>2, <3>3, <3>4
  <2>3. Sessions'
    <3>1. ASSUME NEW t \in Session
          PROVE  IF m_ref_session_table'[t] = REFNIL THEN m_ref_timer_table'[t] = REFNIL
                 ELSE /\ use_kind'[m_ref_session_table'[t]] # "none"
                      /\ use_kind'[m_ref_session_table'[t]] # "run" =>
                             m_session'[m_ref_session_table'[t]] = t
                      /\ m_ref_timer_table'[t] =
                             IF use_kind'[m_ref_session_table'[t]] \in Timers
                             THEN m_ref_session_table'[t] ELSE REFNIL
      <4>1. CASE t = s
        BY <1>2, <2>2, <4>1 DEF Timers
      <4>2. CASE t # s
        <5>1. m_ref_session_table[t] \in Use \cup {REFNIL} /\ m_ref_session_table[t] # u
          BY <1>1, <2>2 DEF CallbackTypes
        <5>. QED BY <1>1, <1>2, <2>2, <4>2, <5>1 DEF Sessions
      <4>. QED BY <4>1, <4>2
    <3>2. ASSUME NEW t \in Session, NEW r \in Session,
                 m_ref_session_table'[t] = m_ref_session_table'[r],
                 m_ref_session_table'[t] # REFNIL
          PROVE  t = r
      BY <1>1, <2>2, <3>2 DEF Sessions
    <3>3. ASSUME NEW d \in Use, m_session'[d] # REFNIL
          PROVE  m_ref_session_table'[m_session'[d]] = d
      <4>1. CASE d = u
        BY <2>2, <4>1
      <4>2. CASE d # u
        <5>1. m_session[d] \in Session /\ m_ref_session_table[m_session[d]] = d
          BY <1>1, <2>2, <3>3, <4>2 DEF Sessions, CallbackTypes
        <5>2. m_session[d] # s
          BY <1>6, <5>1
        <5>. QED BY <2>2, <4>2, <5>1, <5>2
      <4>. QED BY <4>1, <4>2
    <3>. QED BY <3>1, <3>2, <3>3 DEF Sessions
  <2>4. QueuedFor'
    <3>1. ASSUME NEW t \in Session
          PROVE  Queued(messages', "run", t) =
                     IF m_ref_session_table'[t] # REFNIL
                        /\ use_kind[m_ref_session_table'[t]] = "run" THEN 1 ELSE 0
      <4>1. CASE t = s
        BY <1>1, <1>2, <1>6, <2>2, <4>1 DEF QueuedFor
      <4>2. CASE t # s
        BY <1>1, <1>2, <2>2, <4>2 DEF QueuedFor
      <4>. QED BY <4>1, <4>2
    <3>. QED BY <1>1, <1>2, <1>4, <3>1, QueuedForKept
  <2>5. ASSUME NEW d \in Use PROVE Life(d)' /\ Once(d)'
    <3>1. CASE d = u
      <4>1. Life(u)'
        BY <1>1, <1>2, <2>2 DEF Life, IsTimer
      <4>2. Once(u)'
        BY <1>2 DEF Once
      <4>. QED BY <3>1, <4>1, <4>2
    <3>2. CASE d # u
      <4>1. \A t \in Session : m_ref_session_table'[t] = d <=> m_ref_session_table[t] = d
        BY <1>6, <2>2, <3>2
      <4>2. Life(d)'
        BY <1>1, <1>2, <1>4, <2>2, <3>2, LifeKept
      <4>3. Once(d)'
        BY <1>1, <1>2, <4>1, OnceKept
      <4>. QED BY <4>2, <4>3
    <3>. QED BY <3>1, <3>2
  <2>6. SessionsCounted' /\ ~late'
    BY <1>1, <1>2, <1>6, SessionTaken
  <2>. QED BY <2>1, <2>3, <2>4, <2>5, <2>6 DEF CallbacksInv
<1>. QED BY <1>2, <1>5, <1>6

\* udp.close.
LEMMA UdpCloseKeeps ==
    ASSUME CallbacksInv, NEW u \in Use, udp_close(u)
    PROVE  CallbacksInv'
<1>. USE CallbacksAssumption
<1>1. /\ CallbackTypes /\ Sessions /\ QueuedFor /\ SessionsCounted /\ ~late
      /\ \A d \in Use : Life(d) /\ Once(d)
      /\ QueuesCounted(messages) /\ QueuesCounted(c_pipe)
  BY Parts
<1>2. /\ use_kind[u] = "udp" /\ is_open[u]
      /\ messages' = Append(messages, <<"udp", u>>)
      /\ is_open' = [is_open EXCEPT ![u] = FALSE]
      /\ c_pipe' = Append(c_pipe, <<"close", u>>)
      /\ stopped' = [stopped EXCEPT ![u] = TRUE]
      /\ UNCHANGED <<use_kind, m_session, m_ref_session_table, m_ref_timer_table,
                     m_ref_session_count, c_uv, fired, calls, late>>
  BY DEF udp_close, ref_tables
<1>3. /\ messages' \in Seq(Messages) /\ Put(messages, messages', "udp", u)
      /\ c_pipe' \in Seq(Todo) /\ Put(c_pipe, c_pipe', "close", u)
  <2>1. /\ messages \in Seq(Messages) /\ <<"udp", u>> \in Messages
        /\ c_pipe \in Seq(Todo) /\ <<"close", u>> \in Todo
    BY <1>1 DEF CallbackTypes, Messages, Todo
  <2>. QED BY <1>2, <2>1, PutLast
<1>4. /\ \A d \in Use :
          /\ Queued(c_pipe', "udp_read", d) = Queued(c_pipe, "udp_read", d)
          /\ Queued(c_pipe', "timer_start", d) = Queued(c_pipe, "timer_start", d)
          /\ Queued(messages', "timeout", d) = Queued(messages, "timeout", d)
          /\ d # u => Queued(messages', "udp", d) = Queued(messages, "udp", d)
      /\ \A t \in Session : Queued(messages', "run", t) = Queued(messages, "run", t)
      /\ Queued(messages', "udp", u) > 0
  <2>1. Queued(messages, "udp", u) \in Nat
    BY <1>1 DEF QueuesCounted
  <2>2. Queued(messages', "udp", u) = Queued(messages, "udp", u) + 1
    BY <1>3, <2>1 DEF Put
  <2>. QED BY <1>1, <1>3, <2>1, <2>2 DEF Put, QueuesCounted
<1>5. CallbackTypes'
  BY <1>1, <1>2, <1>3 DEF CallbackTypes
<1>6. Sessions'
  BY <1>1, <1>2, SessionsKept
<1>7. QueuedFor'
  <2>1. \A t \in Session : Queued(messages', "run", t) =
            IF m_ref_session_table'[t] # REFNIL
               /\ use_kind[m_ref_session_table'[t]] = "run" THEN 1 ELSE 0
    BY <1>1, <1>2, <1>4 DEF QueuedFor
  <2>. QED BY <1>1, <1>2, <1>4, <2>1, QueuedForKept
<1>8. ASSUME NEW d \in Use PROVE Life(d)' /\ Once(d)'
  <2>1. CASE d = u
    <3>1. is_open'[u] = FALSE /\ stopped'[u] = TRUE /\ use_kind'[u] = "udp"
      BY <1>1, <1>2 DEF CallbackTypes
    <3>. QED BY <1>4, <2>1, <3>1 DEF Life, Once, IsTimer
  <2>2. CASE d # u
    <3>1. is_open'[d] = is_open[d] /\ stopped'[d] = stopped[d]
      BY <1>1, <1>2, <2>2 DEF CallbackTypes
    <3>. QED BY <1>1, <1>2, <1>4, <2>2, <3>1, LifeKept, OnceKept
  <2>. QED BY <2>1, <2>2
<1>9. SessionsCounted' /\ ~late'
  BY <1>1, <1>2, SessionsUntouched
<1>. QED BY <1>5, <1>6, <1>7, <1>8, <1>9 DEF CallbacksInv

-----------------------------------------------------------------------------
(* The network thread.                                                      *)

\* Its first request.
LEMMA RequestTaken ==
    ASSUME CallbackTypes, c_pipe # << >>, c_pipe' = Tail(c_pipe),
           NEW type, Head(c_pipe)[1] = type, NEW u, u = Head(c_pipe)[2]
    PROVE  /\ u \in Use /\ c_pipe' \in Seq(Todo)
           /\ Queued(c_pipe, type, u) > 0 /\ Took(c_pipe, c_pipe', type, u)
<1>1. c_pipe \in Seq(Todo)
  BY DEF CallbackTypes
<1>2. Head(c_pipe) \in Todo
  BY <1>1
<1>3. u \in Use /\ Head(c_pipe) = <<type, u>>
  BY <1>2 DEF Todo
<1>. QED BY <1>1, <1>3, QueuedFacts, TakeFirst

\* The first message of the context.
LEMMA MessageTaken ==
    ASSUME CallbackTypes, messages # << >>, messages' = Tail(messages),
           NEW type, Head(messages)[1] = type, NEW x, x = Head(messages)[2]
    PROVE  /\ (type = "run" /\ x \in Session) \/ (type \in {"timeout", "udp"} /\ x \in Use)
           /\ messages' \in Seq(Messages)
           /\ Queued(messages, type, x) > 0
           /\ Took(messages, messages', type, x)
<1>1. messages \in Seq(Messages)
  BY DEF CallbackTypes
<1>2. Head(messages) \in Messages
  BY <1>1
<1>3. /\ (type = "run" /\ x \in Session) \/ (type \in {"timeout", "udp"} /\ x \in Use)
      /\ Head(messages) = <<type, x>>
  BY <1>2 DEF Messages
<1>4. Queued(messages, type, x) > 0
  BY <1>1, <1>3, QueuedFacts
<1>5. messages' \in Seq(Messages) /\ Took(messages, messages', type, x)
  BY <1>1, <1>3, TakeFirst
<1>. QED BY <1>3, <1>4, <1>5

\* A timeout, or a datagram.
LEMMA FireKeeps ==
    ASSUME CallbacksInv, NEW u \in Use, NEW type \in {"timeout", "udp"},
           NEW after \in {"running", "expired"}, Fire(u, type, after),
           IF type = "timeout" THEN IsTimer(u) ELSE use_kind[u] = "udp"
    PROVE  CallbacksInv'
<1>. USE CallbacksAssumption
<1>1. /\ CallbackTypes /\ Sessions /\ QueuedFor /\ SessionsCounted /\ ~late
      /\ \A d \in Use : Life(d) /\ Once(d)
      /\ QueuesCounted(messages) /\ QueuesCounted(c_pipe)
  BY Parts
<1>2. /\ c_uv[u] = "running" /\ fired[u] < MAX_FIRED
      /\ fired' = [fired EXCEPT ![u] = @ + 1]
      /\ c_uv' = [c_uv EXCEPT ![u] = after]
      /\ messages' = Append(messages, <<type, u>>)
      /\ UNCHANGED <<use_kind, m_session, is_open, m_ref_session_table,
                     m_ref_timer_table, m_ref_session_count, c_pipe, calls, stopped, late>>
  BY DEF Fire, ref_tables
<1>3. messages' \in Seq(Messages) /\ Put(messages, messages', type, u)
  <2>1. messages \in Seq(Messages) /\ <<type, u>> \in Messages
    BY <1>1 DEF CallbackTypes, Messages
  <2>. QED BY <1>2, <2>1, PutLast
<1>4. /\ \A d \in Use \ {u} :
          /\ Queued(messages', "timeout", d) = Queued(messages, "timeout", d)
          /\ Queued(messages', "udp", d) = Queued(messages, "udp", d)
          /\ fired'[d] = fired[d] /\ c_uv'[d] = c_uv[d]
      /\ \A t \in Session : Queued(messages', "run", t) = Queued(messages, "run", t)
      /\ type = "udp" => /\ Queued(messages', "udp", u) = Queued(messages, "udp", u) + 1
                         /\ Queued(messages', "timeout", u) = Queued(messages, "timeout", u)
      /\ type = "timeout" => Queued(messages', "udp", u) = Queued(messages, "udp", u)
      /\ Queued(messages, "udp", u) \in Nat
  <2>1. \A d \in Use \ {u} :
          /\ Queued(messages', "timeout", d) = Queued(messages, "timeout", d)
          /\ Queued(messages', "udp", d) = Queued(messages, "udp", d)
    BY <1>1, <1>3 DEF Put, QueuesCounted
  <2>2. \A d \in Use \ {u} : fired'[d] = fired[d] /\ c_uv'[d] = c_uv[d]
    BY <1>1, <1>2 DEF CallbackTypes
  <2>3. \A t \in Session : Queued(messages', "run", t) = Queued(messages, "run", t)
    BY <1>1, <1>3 DEF Put, QueuesCounted
  <2>4. type = "udp" => /\ Queued(messages', "udp", u) = Queued(messages, "udp", u) + 1
                        /\ Queued(messages', "timeout", u) = Queued(messages, "timeout", u)
    BY <1>1, <1>3 DEF Put, QueuesCounted
  <2>5. type = "timeout" => Queued(messages', "udp", u) = Queued(messages, "udp", u)
    BY <1>1, <1>3 DEF Put, QueuesCounted
  <2>. QED BY <1>1, <2>1, <2>2, <2>3, <2>4, <2>5 DEF QueuesCounted
<1>5. fired'[u] = fired[u] + 1 /\ fired[u] \in Nat
  BY <1>1, <1>2 DEF CallbackTypes
<1>6. CallbackTypes'
  <2>1. fired' \in [Use -> 0 .. MAX_FIRED]
    BY <1>1, <1>2, <1>5 DEF CallbackTypes
  <2>. QED BY <1>1, <1>2, <1>3, <2>1 DEF CallbackTypes
<1>7. Sessions'
  BY <1>1, <1>2, SessionsKept
<1>8. QueuedFor'
  <2>1. \A t \in Session : Queued(messages', "run", t) =
            IF m_ref_session_table'[t] # REFNIL
               /\ use_kind[m_ref_session_table'[t]] = "run" THEN 1 ELSE 0
    BY <1>1, <1>2, <1>4 DEF QueuedFor
  <2>. QED BY <1>1, <1>2, <1>4, <2>1, QueuedForKept
<1>9. ASSUME NEW d \in Use PROVE Life(d)' /\ Once(d)'
  <2>1. Once(d)'
    BY <1>1, <1>2, OnceKept
  <2>2. CASE d = u
    <3>1. CASE type = "timeout"
      BY <1>1, <1>2, <1>4, <1>5, <2>1, <2>2, <3>1 DEF Life, IsTimer
    <3>2. CASE type = "udp"
      <4>1. /\ use_kind[u] = "udp" /\ calls[u] \in Nat
            /\ Queued(messages', "udp", u) = Queued(messages, "udp", u) + 1
        BY <1>1, <1>4, <3>2 DEF CallbackTypes
      <4>2. is_open[u] => /\ fired[u] = calls[u] + Queued(messages, "udp", u)
                          /\ m_session[u] # REFNIL
        BY <1>1, <1>2, <4>1 DEF Life
      <4>3. is_open[u] => fired'[u] = calls[u] + Queued(messages', "udp", u)
        BY <1>4, <1>5, <4>1, <4>2
      <4>4. Queued(messages', "udp", u) > 0
        BY <1>4, <4>1
      <4>5. stopped[u] => ~is_open[u]
        BY <1>1 DEF Life
      <4>6. Life(u)'
        BY <1>2, <4>1, <4>2, <4>3, <4>4, <4>5 DEF Life, IsTimer
      <4>. QED BY <2>1, <2>2, <4>6
    <3>. QED BY <3>1, <3>2
  <2>3. CASE d # u
    BY <1>1, <1>2, <1>4, <2>1, <2>3, LifeKept
  <2>. QED BY <2>2, <2>3
<1>10. SessionsCounted' /\ ~late'
  BY <1>1, <1>2, SessionsUntouched
<1>. QED BY <1>6, <1>7, <1>8, <1>9, <1>10 DEF CallbacksInv

\* start, read and close.
LEMMA RequestKeeps ==
    ASSUME CallbacksInv, NEW type \in {"timer_start", "udp_read", "close"}, NEW before,
           NEW after \in {"running", "closing"}, HandleRequest(type, before, after),
           type = "close" => after = "closing"
    PROVE  CallbacksInv'
<1>. USE CallbacksAssumption
<1>1. /\ CallbackTypes /\ Sessions /\ QueuedFor /\ SessionsCounted /\ ~late
      /\ \A d \in Use : Life(d) /\ Once(d)
      /\ QueuesCounted(messages) /\ QueuesCounted(c_pipe)
  BY Parts
<1>2. PICK u : u = Head(c_pipe)[2]
  OBVIOUS
<1>3. /\ c_pipe # << >> /\ Head(c_pipe)[1] = type /\ c_pipe' = Tail(c_pipe)
      /\ c_uv' = [c_uv EXCEPT ![u] = IF @ \in before THEN after ELSE @]
      /\ UNCHANGED <<use_kind, m_session, is_open, m_ref_session_table,
                     m_ref_timer_table, m_ref_session_count, messages, fired, calls,
                     stopped, late>>
  BY <1>2 DEF HandleRequest, ref_tables
<1>4. /\ u \in Use /\ c_pipe' \in Seq(Todo)
      /\ Queued(c_pipe, type, u) > 0 /\ Took(c_pipe, c_pipe', type, u)
  BY <1>1, <1>2, <1>3, RequestTaken
<1>5. \A d \in Use :
          /\ Queued(c_pipe', "timer_start", d) > 0 => Queued(c_pipe, "timer_start", d) > 0
          /\ Queued(c_pipe', "udp_read", d) > 0 => Queued(c_pipe, "udp_read", d) > 0
  BY <1>1, <1>4 DEF Took, QueuesCounted
<1>6. /\ \A d \in Use \ {u} : c_uv'[d] = c_uv[d]
      /\ c_uv'[u] \in {c_uv[u], after}
  BY <1>1, <1>3, <1>4 DEF CallbackTypes
<1>7. CallbackTypes'
  <2>1. c_uv' \in [Use -> {"none", "running", "expired", "closing"}]
    BY <1>1, <1>3, <1>4 DEF CallbackTypes
  <2>. QED BY <1>1, <1>3, <1>4, <2>1 DEF CallbackTypes
<1>8. Sessions'
  BY <1>1, <1>3, SessionsKept
<1>9. QueuedFor'
  <2>1. \A t \in Session : Queued(messages', "run", t) =
            IF m_ref_session_table'[t] # REFNIL
               /\ use_kind[m_ref_session_table'[t]] = "run" THEN 1 ELSE 0
    BY <1>1, <1>3 DEF QueuedFor
  <2>. QED BY <1>1, <1>3, <1>5, <2>1, QueuedForKept
<1>10. ASSUME NEW d \in Use PROVE Life(d)' /\ Once(d)'
  <2>1. Once(d)'
    BY <1>1, <1>3, OnceKept
  <2>2. CASE c_uv'[d] = "running" => c_uv[d] = "running"
    BY <1>1, <1>3, <1>5, <2>1, <2>2, LifeKept
  <2>3. CASE c_uv'[d] = "running" /\ c_uv[d] # "running"
    <3>1. d = u /\ type # "close"
      BY <1>6, <2>3
    <3>2. CASE type = "timer_start"
      <4>1. IsTimer(u)
        BY <1>1, <1>4, <3>2 DEF QueuedFor
      <4>. QED BY <1>1, <1>3, <2>1, <3>1, <4>1 DEF Life, IsTimer
    <3>3. CASE type = "udp_read"
      <4>1. use_kind[u] = "udp" /\ Queued(c_pipe, "udp_read", u) > 0
        BY <1>1, <1>4, <3>3 DEF QueuedFor
      <4>. QED BY <1>1, <1>3, <2>1, <3>1, <4>1 DEF Life, IsTimer
    <3>. QED BY <3>1, <3>2, <3>3
  <2>. QED BY <2>2, <2>3
<1>11. SessionsCounted' /\ ~late'
  BY <1>1, <1>3, SessionsUntouched
<1>. QED BY <1>7, <1>8, <1>9, <1>10, <1>11 DEF CallbacksInv

\* A read that fails.
LEMMA ReadFailsKeeps ==
    ASSUME CallbacksInv, read_fails
    PROVE  CallbacksInv'
<1>. USE CallbacksAssumption
<1>1. /\ CallbackTypes /\ Sessions /\ QueuedFor /\ SessionsCounted /\ ~late
      /\ \A d \in Use : Life(d) /\ Once(d)
      /\ QueuesCounted(messages) /\ QueuesCounted(c_pipe)
  BY Parts
<1>2. PICK u : u = Head(c_pipe)[2]
  OBVIOUS
<1>3. /\ c_pipe # << >> /\ Head(c_pipe)[1] = "udp_read" /\ c_pipe' = Tail(c_pipe)
      /\ c_uv[u] = "none" /\ fired[u] < MAX_FIRED
      /\ fired' = [fired EXCEPT ![u] = @ + 1]
      /\ messages' = Append(messages, <<"udp", u>>)
      /\ UNCHANGED <<use_kind, m_session, is_open, m_ref_session_table,
                     m_ref_timer_table, m_ref_session_count, c_uv, calls, stopped, late>>
  BY <1>2 DEF read_fails, ref_tables
<1>4. /\ u \in Use /\ c_pipe' \in Seq(Todo)
      /\ Queued(c_pipe, "udp_read", u) > 0 /\ Took(c_pipe, c_pipe', "udp_read", u)
  BY <1>1, <1>2, <1>3, RequestTaken
<1>5. \A d \in Use :
          /\ Queued(c_pipe', "timer_start", d) > 0 => Queued(c_pipe, "timer_start", d) > 0
          /\ Queued(c_pipe', "udp_read", d) > 0 => Queued(c_pipe, "udp_read", d) > 0
  BY <1>1, <1>4 DEF Took, QueuesCounted
<1>6. messages' \in Seq(Messages) /\ Put(messages, messages', "udp", u)
  <2>1. messages \in Seq(Messages) /\ <<"udp", u>> \in Messages
    BY <1>1, <1>4 DEF CallbackTypes, Messages
  <2>. QED BY <1>3, <2>1, PutLast
<1>7. /\ \A d \in Use \ {u} : Queued(messages', "udp", d) = Queued(messages, "udp", d)
      /\ \A d \in Use : Queued(messages', "timeout", d) = Queued(messages, "timeout", d)
      /\ \A t \in Session : Queued(messages', "run", t) = Queued(messages, "run", t)
      /\ Queued(messages', "udp", u) = Queued(messages, "udp", u) + 1
      /\ Queued(messages, "udp", u) \in Nat
  <2>1. \A d \in Use \ {u} : Queued(messages', "udp", d) = Queued(messages, "udp", d)
    BY <1>1, <1>6 DEF Put, QueuesCounted
  <2>2. \A d \in Use : Queued(messages', "timeout", d) = Queued(messages, "timeout", d)
    BY <1>1, <1>6 DEF Put, QueuesCounted
  <2>3. \A t \in Session : Queued(messages', "run", t) = Queued(messages, "run", t)
    BY <1>1, <1>6 DEF Put, QueuesCounted
  <2>4. Queued(messages', "udp", u) = Queued(messages, "udp", u) + 1
    BY <1>1, <1>6 DEF Put, QueuesCounted
  <2>. QED BY <1>1, <2>1, <2>2, <2>3, <2>4 DEF QueuesCounted
<1>8. /\ fired'[u] = fired[u] + 1 /\ fired[u] \in Nat
      /\ \A d \in Use \ {u} : fired'[d] = fired[d]
  BY <1>1, <1>3, <1>4 DEF CallbackTypes
<1>9. CallbackTypes'
  <2>1. fired' \in [Use -> 0 .. MAX_FIRED]
    BY <1>1, <1>3, <1>4, <1>8 DEF CallbackTypes
  <2>. QED BY <1>1, <1>3, <1>4, <1>6, <2>1 DEF CallbackTypes
<1>10. Sessions'
  BY <1>1, <1>3, SessionsKept
<1>11. use_kind[u] = "udp"
  BY <1>1, <1>4 DEF QueuedFor
<1>12. QueuedFor'
  <2>1. \A t \in Session : Queued(messages', "run", t) =
            IF m_ref_session_table'[t] # REFNIL
               /\ use_kind[m_ref_session_table'[t]] = "run" THEN 1 ELSE 0
    BY <1>1, <1>3, <1>7 DEF QueuedFor
  <2>. QED BY <1>1, <1>3, <1>5, <1>7, <1>11, <2>1, QueuedForKept
<1>13. ASSUME NEW d \in Use PROVE Life(d)' /\ Once(d)'
  <2>1. Once(d)'
    BY <1>1, <1>3, OnceKept
  <2>2. CASE d = u
    <3>1. is_open[u] => m_session[u] # REFNIL
      BY <1>1, <1>4, <1>11 DEF Life
    <3>2. is_open[u] => fired[u] = calls[u] + Queued(messages, "udp", u)
      BY <1>1, <1>4, <1>11 DEF Life
    <3>3. calls[u] \in Nat
      BY <1>1, <1>4 DEF CallbackTypes
    <3>4. is_open[u] => fired'[u] = calls[u] + Queued(messages', "udp", u)
      BY <1>7, <1>8, <3>2, <3>3
    <3>5. Queued(messages', "udp", u) > 0
      BY <1>7
    <3>6. stopped[u] => ~is_open[u]
      BY <1>1, <1>4 DEF Life
    <3>7. Life(u)'
      BY <1>3, <1>11, <3>1, <3>4, <3>5, <3>6 DEF Life, IsTimer
    <3>. QED BY <2>1, <2>2, <3>7
  <2>3. CASE d # u
    BY <1>1, <1>3, <1>5, <1>7, <1>8, <2>1, <2>3, LifeKept
  <2>. QED BY <2>2, <2>3
<1>14. SessionsCounted' /\ ~late'
  BY <1>1, <1>3, SessionsUntouched
<1>. QED BY <1>9, <1>10, <1>12, <1>13, <1>14 DEF CallbacksInv

-----------------------------------------------------------------------------
(* The messages of the context.                                             *)

\* What queues look like without the first message.
LEMMA OthersQueued ==
    ASSUME QueuesCounted(messages), NEW type, NEW x, Queued(messages, type, x) > 0,
           Took(messages, messages', type, x)
    PROVE  /\ Queued(messages', type, x) = Queued(messages, type, x) - 1
           /\ Queued(messages, type, x) \in Nat
           /\ \A t, y : ~(t = type /\ y = x) =>
                  Queued(messages', t, y) = Queued(messages, t, y)
           /\ \A t, y : Queued(messages', t, y) > 0 => Queued(messages, t, y) > 0
<1>1. ASSUME NEW t, NEW y
      PROVE  /\ Queued(messages, t, y) \in Nat
             /\ Queued(messages', t, y) = Queued(messages, t, y)
                                          - (IF t = type /\ y = x THEN 1 ELSE 0)
  BY DEF Took, QueuesCounted
<1>2. /\ Queued(messages, type, x) \in Nat
      /\ Queued(messages', type, x) = Queued(messages, type, x) - 1
  BY <1>1
<1>3. ASSUME NEW t, NEW y, ~(t = type /\ y = x)
      PROVE  Queued(messages', t, y) = Queued(messages, t, y)
  BY <1>1, <1>3
<1>4. ASSUME NEW t, NEW y, Queued(messages', t, y) > 0
      PROVE  Queued(messages, t, y) > 0
  BY <1>1, <1>4
<1>. QED BY <1>2, <1>3, <1>4

\* A timeout.
LEMMA TimeoutKeeps ==
    ASSUME CallbacksInv, response_timeout
    PROVE  CallbacksInv'
<1>. USE CallbacksAssumption
<1>1. /\ CallbackTypes /\ Sessions /\ QueuedFor /\ SessionsCounted /\ ~late
      /\ \A d \in Use : Life(d) /\ Once(d)
      /\ QueuesCounted(messages) /\ QueuesCounted(c_pipe)
  BY Parts
<1>2. PICK u : u = Head(messages)[2]
  OBVIOUS
<1>3. /\ messages # << >> /\ Head(messages)[1] = "timeout" /\ messages' = Tail(messages)
      /\ UNCHANGED <<use_kind, c_uv, fired, stopped>>
      /\ IF is_open[u] /\ m_session[u] # REFNIL
         THEN wakeup_ref_session(m_session[u], use_kind[u] # "repeat")
         ELSE UNCHANGED <<m_ref_session_table, m_ref_timer_table, m_ref_session_count,
                          m_session, is_open, c_pipe, calls, late>>
  BY <1>2 DEF response_timeout, Receive, ref_tables
<1>4. /\ u \in Use /\ messages' \in Seq(Messages)
      /\ Queued(messages, "timeout", u) > 0 /\ Took(messages, messages', "timeout", u)
  BY <1>1, <1>2, <1>3, MessageTaken
<1>5. IsTimer(u)
  BY <1>1, <1>4 DEF QueuedFor
<1>6. /\ \A d \in Use :
          /\ Queued(messages', "udp", d) = Queued(messages, "udp", d)
          /\ Queued(messages', "timeout", d) > 0 => Queued(messages, "timeout", d) > 0
      /\ \A t \in Session : Queued(messages', "run", t) = Queued(messages, "run", t)
  BY <1>1, <1>4, OthersQueued
<1>7. CASE UNCHANGED <<m_ref_session_table, m_ref_timer_table, m_ref_session_count,
                       m_session, is_open, c_pipe>>
           /\ ~late'
           /\ \/ calls' = calls
              \/ use_kind[u] = "repeat" /\ calls' = [calls EXCEPT ![u] = @ + 1]
  <2>1. /\ calls' \in [Use -> Nat]
        /\ \A d \in Use : d # u \/ use_kind[u] # "repeat" => calls'[d] = calls[d]
    BY <1>1, <1>4, <1>7 DEF CallbackTypes
  <2>2. CallbackTypes'
    BY <1>1, <1>3, <1>4, <1>7, <2>1 DEF CallbackTypes
  <2>3. Sessions'
    BY <1>1, <1>3, <1>7, SessionsKept
  <2>4. QueuedFor'
    <3>1. \A t \in Session : Queued(messages', "run", t) =
              IF m_ref_session_table'[t] # REFNIL
                 /\ use_kind[m_ref_session_table'[t]] = "run" THEN 1 ELSE 0
      BY <1>1, <1>6, <1>7 DEF QueuedFor
    <3>. QED BY <1>1, <1>3, <1>6, <1>7, <3>1, QueuedForKept
  <2>5. ASSUME NEW d \in Use PROVE Life(d)' /\ Once(d)'
    <3>1. CASE d = u /\ use_kind[u] = "repeat"
      BY <1>1, <1>3, <1>5, <1>7, <3>1 DEF Life, Once, IsTimer
    <3>2. CASE d # u \/ use_kind[u] # "repeat"
      <4>1. calls'[d] = calls[d]
        BY <2>1, <3>2
      <4>. QED BY <1>1, <1>3, <1>6, <1>7, <4>1, LifeKept, OnceKept
    <3>. QED BY <3>1, <3>2
  <2>6. SessionsCounted' /\ ~late'
    BY <1>1, <1>7, SessionsUntouched
  <2>. QED BY <2>2, <2>3, <2>4, <2>5, <2>6 DEF CallbacksInv
<1>8. CASE ~(is_open[u] /\ m_session[u] # REFNIL)
  BY <1>1, <1>3, <1>7, <1>8
<1>9. CASE is_open[u] /\ m_session[u] # REFNIL
  <2>1. PICK s : s = m_session[u]
    OBVIOUS
  <2>2. /\ s \in Session /\ m_session[u] = s /\ m_ref_session_table[s] = u
        /\ m_ref_timer_table[s] = u /\ u # REFNIL /\ ~stopped[u]
    <3>1. s \in Session /\ m_session[u] = s /\ m_ref_session_table[s] = u /\ u # REFNIL
      BY <1>1, <1>4, <1>9, <2>1 DEF Sessions, CallbackTypes
    <3>2. m_ref_timer_table[s] = u
      BY <1>1, <1>5, <3>1 DEF Sessions, IsTimer, Timers
    <3>3. ~stopped[u]
      BY <1>1, <1>4, <1>9 DEF Life
    <3>. QED BY <3>1, <3>2, <3>3
  <2>3. /\ wakeup_ref_session(s, use_kind[u] # "repeat")
        /\ calls' = [calls EXCEPT ![u] = @ + 1] /\ late' = (late \/ stopped[u])
    BY <1>3, <1>9, <2>1, <2>2 DEF wakeup_ref_session, Run
  <2>4. CASE use_kind[u] = "repeat"
    <3>1. UNCHANGED <<m_ref_session_table, m_ref_timer_table, m_ref_session_count,
                      m_session, is_open, c_pipe>>
      BY <2>3, <2>4 DEF wakeup_ref_session, ref_tables
    <3>2. ~late'
      BY <1>1, <2>2, <2>3
    <3>3. calls' = [calls EXCEPT ![u] = @ + 1]
      BY <2>3
    <3>. QED BY <1>7, <2>4, <3>1, <3>2, <3>3
  <2>5. CASE use_kind[u] # "repeat"
    <3>1. lua_free_ref_session(s)
      BY <2>2, <2>3, <2>5 DEF wakeup_ref_session
    <3>2. /\ m_ref_session_table' = [m_ref_session_table EXCEPT ![s] = REFNIL]
          /\ m_ref_session_count' = m_ref_session_count - 1
          /\ m_ref_timer_table' = [m_ref_timer_table EXCEPT ![s] = REFNIL]
          /\ m_session' = [m_session EXCEPT ![u] = REFNIL]
          /\ is_open' = [is_open EXCEPT ![u] = FALSE]
          /\ c_pipe' = Append(c_pipe, <<"close", u>>)
      BY <2>2, <3>1 DEF lua_free_ref_session
    <3>3. c_pipe' \in Seq(Todo) /\ Put(c_pipe, c_pipe', "close", u)
      <4>1. c_pipe \in Seq(Todo) /\ <<"close", u>> \in Todo
        BY <1>1, <1>4 DEF CallbackTypes, Todo
      <4>. QED BY <3>2, <4>1, PutLast
    <3>4. \A d \in Use :
            /\ Queued(c_pipe', "timer_start", d) = Queued(c_pipe, "timer_start", d)
            /\ Queued(c_pipe', "udp_read", d) = Queued(c_pipe, "udp_read", d)
      BY <1>1, <3>3 DEF Put, QueuesCounted
    <3>5. /\ \A d \in Use \ {u} : is_open'[d] = is_open[d] /\ calls'[d] = calls[d]
          /\ is_open'[u] = FALSE /\ calls'[u] = calls[u] + 1
      BY <1>1, <1>4, <2>3, <3>2 DEF CallbackTypes
    <3>6. CallbackTypes'
      <4>1. calls' \in [Use -> Nat]
        BY <1>1, <1>4, <2>3 DEF CallbackTypes
      <4>. QED BY <1>1, <1>3, <1>4, <2>2, <3>2, <3>3, <4>1 DEF CallbackTypes
    <3>7. /\ Sessions'
          /\ \A t \in Session : m_ref_session_table'[t] # u
          /\ \A t \in Session : m_ref_session_table[t] = u => t = s
          /\ \A t \in Session \ {s} : m_ref_session_table'[t] = m_ref_session_table[t]
          /\ \A d \in Use \ {u} : m_session'[d] = m_session[d]
          /\ m_session'[u] = REFNIL /\ m_ref_session_table'[s] = REFNIL
      BY <1>1, <1>3, <1>4, <2>2, <3>2, FreeKeeps
    <3>8. QueuedFor'
      <4>1. ASSUME NEW t \in Session
            PROVE  Queued(messages', "run", t) =
                       IF m_ref_session_table'[t] # REFNIL
                          /\ use_kind[m_ref_session_table'[t]] = "run" THEN 1 ELSE 0
        <5>1. CASE t = s
          BY <1>1, <1>5, <1>6, <2>2, <3>7, <5>1 DEF QueuedFor, IsTimer
        <5>2. CASE t # s
          BY <1>1, <1>6, <3>7, <5>2 DEF QueuedFor
        <5>. QED BY <5>1, <5>2
      <4>. QED BY <1>1, <1>3, <1>6, <3>4, <4>1, QueuedForKept
    <3>9. ASSUME NEW d \in Use PROVE Life(d)' /\ Once(d)'
      <4>1. CASE d = u
        <5>1. Life(u)'
          BY <1>1, <1>3, <1>4, <1>5, <2>2, <3>5, <3>7 DEF Life, IsTimer
        <5>2. use_kind[u] \in {"once", "sleep"} /\ calls[u] = 0
          BY <1>1, <1>4, <1>5, <2>2, <2>5 DEF Once, IsTimer
        <5>3. Once(u)'
          BY <1>3, <2>2, <3>5, <3>7, <5>2 DEF Once
        <5>. QED BY <4>1, <5>1, <5>3
      <4>2. CASE d # u
        <5>1. \A t \in Session : m_ref_session_table'[t] = d <=> m_ref_session_table[t] = d
          BY <2>2, <3>7, <4>2
        <5>2. Life(d)'
          BY <1>1, <1>3, <1>6, <3>4, <3>5, <3>7, <4>2, LifeKept
        <5>3. Once(d)'
          BY <1>1, <1>3, <3>5, <4>2, <5>1, OnceKept
        <5>. QED BY <5>2, <5>3
      <4>. QED BY <4>1, <4>2
    <3>10. SessionsCounted' /\ ~late'
      BY <1>1, <2>2, <2>3, <3>2, SessionFreed
    <3>. QED BY <3>6, <3>7, <3>8, <3>9, <3>10 DEF CallbacksInv
  <2>. QED BY <2>4, <2>5
<1>. QED BY <1>8, <1>9

\* context.run.
LEMMA RunMessageKeeps ==
    ASSUME CallbacksInv, response_context_run
    PROVE  CallbacksInv'
<1>. USE CallbacksAssumption
<1>1. /\ CallbackTypes /\ Sessions /\ QueuedFor /\ SessionsCounted /\ ~late
      /\ \A d \in Use : Life(d) /\ Once(d)
      /\ QueuesCounted(messages) /\ QueuesCounted(c_pipe)
  BY Parts
<1>2. PICK s : s = Head(messages)[2]
  OBVIOUS
<1>3. /\ messages # << >> /\ Head(messages)[1] = "run" /\ messages' = Tail(messages)
      /\ UNCHANGED <<use_kind, c_uv, fired, stopped>>
      /\ wakeup_ref_session(s, TRUE)
  BY <1>2 DEF response_context_run, Receive
<1>4. /\ s \in Session /\ messages' \in Seq(Messages)
      /\ Queued(messages, "run", s) > 0 /\ Took(messages, messages', "run", s)
  BY <1>1, <1>2, <1>3, MessageTaken
<1>5. /\ Queued(messages', "run", s) = Queued(messages, "run", s) - 1
      /\ \A t \in Session \ {s} : Queued(messages', "run", t) = Queued(messages, "run", t)
      /\ \A d \in Use : /\ Queued(messages', "timeout", d) = Queued(messages, "timeout", d)
                        /\ Queued(messages', "udp", d) = Queued(messages, "udp", d)
  BY <1>1, <1>4, OthersQueued
<1>6. PICK u \in Use : m_ref_session_table[s] = u /\ use_kind[u] = "run" /\ u # REFNIL
  BY <1>1, <1>4 DEF QueuedFor, CallbackTypes
<1>7. /\ m_ref_timer_table[s] = REFNIL /\ m_session[u] = REFNIL /\ ~stopped[u]
      /\ calls[u] = 0 /\ Queued(messages, "run", s) = 1
  <2>1. m_ref_timer_table[s] = REFNIL
    BY <1>1, <1>4, <1>6 DEF Sessions, Timers
  <2>2. m_session[u] = REFNIL /\ ~stopped[u]
    BY <1>1, <1>6 DEF Life
  <2>3. calls[u] = 0
    BY <1>1, <1>4, <1>6 DEF Once
  <2>4. Queued(messages, "run", s) = 1
    BY <1>1, <1>4, <1>6 DEF QueuedFor
  <2>. QED BY <2>1, <2>2, <2>3, <2>4
<1>8. /\ m_ref_session_table' = [m_ref_session_table EXCEPT ![s] = REFNIL]
      /\ m_ref_session_count' = m_ref_session_count - 1
      /\ m_ref_timer_table' = [m_ref_timer_table EXCEPT ![s] = REFNIL]
      /\ UNCHANGED <<m_session, is_open, c_pipe>>
      /\ calls' = [calls EXCEPT ![u] = @ + 1] /\ late' = (late \/ stopped[u])
  BY <1>3, <1>6, <1>7 DEF wakeup_ref_session, Run, lua_free_ref_session
<1>9. /\ calls' \in [Use -> Nat] /\ calls'[u] = 1
      /\ \A d \in Use \ {u} : calls'[d] = calls[d]
      /\ m_session' = [m_session EXCEPT ![u] = REFNIL]
  BY <1>1, <1>6, <1>7, <1>8 DEF CallbackTypes
<1>10. CallbackTypes'
  BY <1>1, <1>3, <1>4, <1>8, <1>9 DEF CallbackTypes
<1>11. /\ Sessions'
       /\ \A t \in Session : m_ref_session_table'[t] # u
       /\ \A t \in Session : m_ref_session_table[t] = u => t = s
       /\ \A t \in Session \ {s} : m_ref_session_table'[t] = m_ref_session_table[t]
       /\ m_ref_session_table'[s] = REFNIL
  <2>1. /\ CallbackTypes /\ Sessions /\ s \in Session
        /\ m_ref_session_table[s] = u /\ m_session[u] \in {s, REFNIL}
    BY <1>1, <1>4, <1>6, <1>7
  <2>2. /\ m_ref_session_table' = [m_ref_session_table EXCEPT ![s] = REFNIL]
        /\ m_ref_timer_table' = [m_ref_timer_table EXCEPT ![s] = REFNIL]
        /\ m_session' = [m_session EXCEPT ![u] = REFNIL]
        /\ use_kind' = use_kind
    BY <1>3, <1>8, <1>9
  <2>. QED BY <2>1, <2>2, FreeKeeps
<1>12. QueuedFor'
  <2>1. ASSUME NEW t \in Session
        PROVE  Queued(messages', "run", t) =
                   IF m_ref_session_table'[t] # REFNIL
                      /\ use_kind[m_ref_session_table'[t]] = "run" THEN 1 ELSE 0
    <3>1. CASE t = s
      BY <1>5, <1>7, <1>11, <3>1
    <3>2. CASE t # s
      BY <1>1, <1>5, <1>11, <3>2 DEF QueuedFor
    <3>. QED BY <3>1, <3>2
  <2>. QED BY <1>1, <1>3, <1>5, <1>8, <2>1, QueuedForKept
<1>13. ASSUME NEW d \in Use PROVE Life(d)' /\ Once(d)'
  <2>1. CASE d = u
    <3>1. Life(u)'
      BY <1>1, <1>3, <1>6, <1>8, <2>1 DEF Life, IsTimer
    <3>2. Once(u)'
      BY <1>3, <1>7, <1>9, <1>11 DEF Once
    <3>. QED BY <2>1, <3>1, <3>2
  <2>2. CASE d # u
    <3>1. \A t \in Session : m_ref_session_table'[t] = d <=> m_ref_session_table[t] = d
      BY <1>6, <1>11, <2>2
    <3>2. Life(d)'
      BY <1>1, <1>3, <1>5, <1>8, <1>9, <2>2, LifeKept
    <3>3. Once(d)'
      BY <1>1, <1>3, <1>9, <2>2, <3>1, OnceKept
    <3>. QED BY <3>2, <3>3
  <2>. QED BY <2>1, <2>2
<1>14. SessionsCounted' /\ ~late'
  BY <1>1, <1>4, <1>6, <1>7, <1>8, SessionFreed
<1>. QED BY <1>10, <1>11, <1>12, <1>13, <1>14 DEF CallbacksInv

\* A datagram, an error or the end of a socket.
LEMMA DatagramKeeps ==
    ASSUME CallbacksInv, response_udp_read
    PROVE  CallbacksInv'
<1>. USE CallbacksAssumption
<1>1. /\ CallbackTypes /\ Sessions /\ QueuedFor /\ SessionsCounted /\ ~late
      /\ \A d \in Use : Life(d) /\ Once(d)
      /\ QueuesCounted(messages) /\ QueuesCounted(c_pipe)
  BY Parts
<1>2. PICK u : u = Head(messages)[2]
  OBVIOUS
<1>3. /\ messages # << >> /\ Head(messages)[1] = "udp" /\ messages' = Tail(messages)
      /\ UNCHANGED <<use_kind, c_uv, fired, stopped>>
      /\ wakeup_read(u)
  BY <1>2 DEF response_udp_read, Receive
<1>4. /\ u \in Use /\ messages' \in Seq(Messages)
      /\ Queued(messages, "udp", u) > 0 /\ Took(messages, messages', "udp", u)
  BY <1>1, <1>2, <1>3, MessageTaken
<1>5. /\ Queued(messages', "udp", u) = Queued(messages, "udp", u) - 1
      /\ Queued(messages, "udp", u) \in Nat
      /\ \A d \in Use \ {u} : Queued(messages', "udp", d) = Queued(messages, "udp", d)
      /\ \A d \in Use :
          /\ Queued(messages', "timeout", d) = Queued(messages, "timeout", d)
          /\ Queued(messages', "udp", d) > 0 => Queued(messages, "udp", d) > 0
      /\ \A t \in Session : Queued(messages', "run", t) = Queued(messages, "run", t)
  BY <1>1, <1>4, OthersQueued
<1>6. /\ use_kind[u] = "udp" /\ u # REFNIL /\ fired[u] \in Nat /\ calls[u] \in Nat
      /\ is_open[u] => ~stopped[u] /\ m_session[u] # REFNIL
  <2>1. use_kind[u] = "udp"
    BY <1>1, <1>4 DEF QueuedFor
  <2>2. fired[u] \in Nat /\ calls[u] \in Nat /\ u # REFNIL
    BY <1>1, <1>4 DEF CallbackTypes
  <2>3. is_open[u] => ~stopped[u] /\ m_session[u] # REFNIL
    BY <1>1, <1>4, <1>5, <2>1, <2>2 DEF Life
  <2>. QED BY <2>1, <2>2, <2>3
<1>7. CASE is_open[u] = FALSE /\ m_session[u] = REFNIL
  <2>1. UNCHANGED <<m_ref_session_table, m_ref_timer_table, m_ref_session_count,
                    m_session, is_open, c_pipe, calls, late>>
    BY <1>3, <1>7 DEF wakeup_read, ref_tables
  <2>2. CallbackTypes'
    BY <1>1, <1>3, <1>4, <2>1 DEF CallbackTypes
  <2>3. Sessions'
    BY <1>1, <1>3, <2>1, SessionsKept
  <2>4. QueuedFor'
    <3>1. \A t \in Session : Queued(messages', "run", t) =
              IF m_ref_session_table'[t] # REFNIL
                 /\ use_kind[m_ref_session_table'[t]] = "run" THEN 1 ELSE 0
      BY <1>1, <1>5, <2>1 DEF QueuedFor
    <3>. QED BY <1>1, <1>3, <1>5, <2>1, <3>1, QueuedForKept
  <2>5. ASSUME NEW d \in Use PROVE Life(d)' /\ Once(d)'
    <3>1. Once(d)'
      BY <1>1, <1>3, <2>1, OnceKept
    <3>2. CASE d = u
      BY <1>1, <1>3, <1>6, <1>7, <2>1, <3>1, <3>2 DEF Life, IsTimer
    <3>3. CASE d # u
      BY <1>1, <1>3, <1>5, <2>1, <3>1, <3>3, LifeKept
    <3>. QED BY <3>2, <3>3
  <2>6. SessionsCounted' /\ ~late'
    BY <1>1, <2>1, SessionsUntouched
  <2>. QED BY <2>2, <2>3, <2>4, <2>5, <2>6 DEF CallbacksInv
<1>8. ASSUME m_session[u] # REFNIL
      PROVE  \E s \in Session : m_session[u] = s /\ m_ref_session_table[s] = u
                                /\ m_ref_timer_table[s] = REFNIL
  <2>1. m_session[u] \in Session /\ m_ref_session_table[m_session[u]] = u
    BY <1>1, <1>4, <1>8 DEF Sessions, CallbackTypes
  <2>2. m_ref_timer_table[m_session[u]] = REFNIL
    BY <1>1, <1>6, <2>1 DEF Sessions, Timers
  <2>. QED BY <2>1, <2>2
<1>9. CASE is_open[u] /\ m_session[u] # REFNIL
  <2>1. PICK s \in Session : m_session[u] = s /\ m_ref_session_table[s] = u
    BY <1>8, <1>9
  <2>2. /\ UNCHANGED <<m_ref_session_table, m_ref_timer_table, m_ref_session_count,
                       m_session, is_open, c_pipe>>
        /\ calls' = [calls EXCEPT ![u] = @ + 1] /\ late' = (late \/ stopped[u])
    BY <1>3, <1>6, <1>9, <2>1 DEF wakeup_read, wakeup_ref_session, Run, ref_tables
  <2>3. /\ calls' \in [Use -> Nat] /\ calls'[u] = calls[u] + 1
        /\ \A d \in Use \ {u} : calls'[d] = calls[d]
    BY <1>1, <1>4, <2>2 DEF CallbackTypes
  <2>4. CallbackTypes'
    BY <1>1, <1>3, <1>4, <2>2, <2>3 DEF CallbackTypes
  <2>5. Sessions'
    BY <1>1, <1>3, <2>2, SessionsKept
  <2>6. QueuedFor'
    <3>1. \A t \in Session : Queued(messages', "run", t) =
              IF m_ref_session_table'[t] # REFNIL
                 /\ use_kind[m_ref_session_table'[t]] = "run" THEN 1 ELSE 0
      BY <1>1, <1>5, <2>2 DEF QueuedFor
    <3>. QED BY <1>1, <1>3, <1>5, <2>2, <3>1, QueuedForKept
  <2>7. ASSUME NEW d \in Use PROVE Life(d)' /\ Once(d)'
    <3>1. CASE d = u
      <4>1. fired[u] = calls[u] + Queued(messages, "udp", u)
        BY <1>1, <1>4, <1>6, <1>9 DEF Life
      <4>2. fired'[u] = calls'[u] + Queued(messages', "udp", u)
        BY <1>3, <1>5, <1>6, <2>3, <4>1
      <4>3. Life(u)'
        BY <1>3, <1>6, <1>9, <2>2, <4>2 DEF Life, IsTimer
      <4>4. Once(u)'
        BY <1>3, <1>6 DEF Once
      <4>. QED BY <3>1, <4>3, <4>4
    <3>2. CASE d # u
      BY <1>1, <1>3, <1>5, <2>2, <2>3, <3>2, LifeKept, OnceKept
    <3>. QED BY <3>1, <3>2
  <2>8. SessionsCounted' /\ ~late'
    BY <1>1, <1>6, <1>9, <2>2, SessionsUntouched
  <2>. QED BY <2>4, <2>5, <2>6, <2>7, <2>8 DEF CallbacksInv
<1>10. CASE is_open[u] = FALSE /\ m_session[u] # REFNIL
  <2>1. PICK s \in Session : /\ m_session[u] = s /\ m_ref_session_table[s] = u
                             /\ m_ref_timer_table[s] = REFNIL
    BY <1>8, <1>10
  <2>2. /\ m_session' = [m_session EXCEPT ![u] = REFNIL]
        /\ m_ref_session_table' = [m_ref_session_table EXCEPT ![s] = REFNIL]
        /\ m_ref_session_count' = m_ref_session_count - 1
        /\ UNCHANGED <<m_ref_timer_table, is_open, c_pipe, calls, late>>
    BY <1>3, <1>10, <2>1 DEF wakeup_read
  <2>3. m_ref_timer_table' = [m_ref_timer_table EXCEPT ![s] = REFNIL]
    BY <1>1, <2>1, <2>2 DEF CallbackTypes
  <2>4. CallbackTypes'
    BY <1>1, <1>3, <1>4, <2>2 DEF CallbackTypes
  <2>5. /\ Sessions'
        /\ \A t \in Session : m_ref_session_table'[t] # u
        /\ \A t \in Session : m_ref_session_table[t] = u => t = s
        /\ \A t \in Session \ {s} : m_ref_session_table'[t] = m_ref_session_table[t]
        /\ \A d \in Use \ {u} : m_session'[d] = m_session[d]
        /\ m_session'[u] = REFNIL /\ m_ref_session_table'[s] = REFNIL
    BY <1>1, <1>3, <1>4, <2>1, <2>2, <2>3, FreeKeeps
  <2>6. QueuedFor'
    <3>1. ASSUME NEW t \in Session
          PROVE  Queued(messages', "run", t) =
                     IF m_ref_session_table'[t] # REFNIL
                        /\ use_kind[m_ref_session_table'[t]] = "run" THEN 1 ELSE 0
      <4>1. CASE t = s
        BY <1>1, <1>5, <1>6, <2>1, <2>5, <4>1 DEF QueuedFor
      <4>2. CASE t # s
        BY <1>1, <1>5, <2>5, <4>2 DEF QueuedFor
      <4>. QED BY <4>1, <4>2
    <3>. QED BY <1>1, <1>3, <1>5, <2>2, <3>1, QueuedForKept
  <2>7. ASSUME NEW d \in Use PROVE Life(d)' /\ Once(d)'
    <3>1. CASE d = u
      <4>1. Life(u)'
        BY <1>1, <1>3, <1>4, <1>6, <1>10, <2>2, <2>5 DEF Life, IsTimer
      <4>2. Once(u)'
        BY <1>3, <1>6 DEF Once
      <4>. QED BY <3>1, <4>1, <4>2
    <3>2. CASE d # u
      <4>1. \A t \in Session : m_ref_session_table'[t] = d <=> m_ref_session_table[t] = d
        BY <2>1, <2>5, <3>2
      <4>2. Life(d)'
        BY <1>1, <1>3, <1>5, <2>2, <2>5, <3>2, LifeKept
      <4>3. Once(d)'
        BY <1>1, <1>3, <2>2, <4>1, OnceKept
      <4>. QED BY <4>2, <4>3
    <3>. QED BY <3>1, <3>2
  <2>8. SessionsCounted' /\ ~late'
    BY <1>1, <1>6, <2>1, <2>2, SessionFreed
  <2>. QED BY <2>4, <2>5, <2>6, <2>7, <2>8 DEF CallbacksInv
<1>11. is_open[u] \in BOOLEAN
  BY <1>1, <1>4 DEF CallbackTypes
<1>. QED BY <1>6, <1>7, <1>9, <1>10, <1>11

-----------------------------------------------------------------------------
(* The theorem.                                                             *)

\* Nothing is there at first.
LEMMA CallbacksStart ==
    ASSUME CallbacksInit
    PROVE  CallbacksInv
<1>. USE CallbacksAssumption DEF CallbacksInit
<1>1. CallbackTypes
  BY DEF CallbackTypes, Kinds
<1>2. QueuesCounted(messages) /\ QueuesCounted(c_pipe)
  BY <1>1, CountedQueues
<1>3. \A type, x : Queued(messages, type, x) = 0 /\ Queued(c_pipe, type, x) = 0
  BY <1>1, QueuedFacts DEF CallbackTypes
<1>4. Sessions
  BY DEF Sessions
<1>5. QueuedFor
  BY <1>3 DEF QueuedFor
<1>6. \A u \in Use : Life(u) /\ Once(u)
  BY <1>3 DEF Life, Once, IsTimer
<1>7. SessionsCounted
  <2>1. InUse = {}
    BY DEF InUse
  <2>. QED BY <2>1, FS_EmptySet DEF SessionsCounted
<1>. QED BY <1>1, <1>4, <1>5, <1>6, <1>7 DEF CallbacksInv

\* Every step keeps the invariant.
LEMMA CallbacksStep ==
    ASSUME CallbacksInv, [CallbacksNext]_callbackVars
    PROVE  CallbacksInv'
<1>1. ASSUME NEW u \in Use, timeout(u) \/ repeat(u) \/ sleep(u) PROVE CallbacksInv'
  BY <1>1, StartKeeps DEF timeout, repeat, sleep
<1>2. ASSUME NEW u \in Use, on_timedout(u) PROVE CallbacksInv'
  <2>1. PICK after \in {"running", "expired"} : Fire(u, "timeout", after)
    BY <1>2 DEF on_timedout
  <2>. QED BY <1>2, <2>1, FireKeeps DEF on_timedout
<1>3. ASSUME NEW u \in Use, on_read(u) PROVE CallbacksInv'
  BY <1>3, FireKeeps DEF on_read
<1>4. ASSUME start \/ read \/ close_handle PROVE CallbacksInv'
  BY <1>4, RequestKeeps DEF start, read, close_handle
<1>5. ASSUME UNCHANGED callbackVars PROVE CallbacksInv'
  BY <1>5 DEF callbackVars, ref_tables, callback_net, CallbacksInv, CallbackTypes,
     Sessions, QueuedFor, Life, Once, SessionsCounted, InUse, IsTimer
<1>. QED BY <1>1, <1>2, <1>3, <1>4, <1>5, CloseKeeps, RunKeeps, OpenKeeps, ReadKeeps,
         UdpCloseKeeps, TimeoutKeeps, RunMessageKeeps, DatagramKeeps, ReadFailsKeeps
         DEF CallbacksNext

\* The invariant says what CallbacksExact says: in particular, a session whose use the
\* script has closed is a socket's, and then there is a message about it.
LEMMA InvIsExact ==
    ASSUME CallbacksInv
    PROVE  CallbacksExact
<1>. USE CallbacksAssumption
<1>1. /\ CallbackTypes /\ Sessions /\ QueuedFor /\ SessionsCounted /\ ~late
      /\ \A d \in Use : Life(d) /\ Once(d)
      /\ QueuesCounted(messages) /\ QueuesCounted(c_pipe)
  BY Parts
<1>2. CallbacksTypeOK
  BY <1>1 DEF CallbackTypes, CallbacksTypeOK, Messages, Todo, Kinds
<1>3. OwnCallback
  BY <1>1 DEF OwnCallback, Sessions, Life
<1>4. CalledOnce
  <2>1. ASSUME NEW u \in Use, use_kind[u] \in {"once", "sleep", "run"}
        PROVE  calls[u] = IF (\A s \in Session : m_ref_session_table[s] # u) /\ ~stopped[u]
                          THEN 1 ELSE 0
    BY <1>1, <2>1 DEF Once
  <2>2. ASSUME NEW u \in Use, use_kind[u] = "udp", is_open[u]
        PROVE  fired[u] = calls[u] + Cardinality({i \in DOMAIN messages :
                                                     messages[i] = <<"udp", u>>})
    BY <1>1, <2>2 DEF Life, Queued, Positions
  <2>. QED BY <2>1, <2>2 DEF CalledOnce
<1>5. CountExact
  <2>1. m_ref_session_count = Cardinality({s \in Session : m_ref_session_table[s] # REFNIL})
    BY <1>1 DEF SessionsCounted, InUse
  <2>2. ASSUME messages = << >>, NEW s \in Session, m_ref_session_table[s] # REFNIL,
               stopped[m_ref_session_table[s]]
        PROVE  FALSE
    <3>1. PICK u \in Use : u = m_ref_session_table[s]
      BY <1>1, <2>2 DEF CallbackTypes
    <3>2. ~is_open[u] /\ use_kind[u] \in {"once", "repeat", "udp"}
      BY <1>1, <2>2, <3>1 DEF Life
    <3>3. m_session[u] = s /\ s # REFNIL
      BY <1>1, <2>2, <3>1, <3>2 DEF Sessions
    <3>4. Queued(messages, "udp", u) > 0
      BY <1>1, <3>2, <3>3 DEF Life, IsTimer
    <3>5. Queued(messages, "udp", u) = 0
      BY <1>1, <2>2, QueuedFacts DEF CallbackTypes
    <3>. QED BY <3>4, <3>5
  <2>. QED BY <2>1, <2>2 DEF CountExact
<1>. QED BY <1>2, <1>3, <1>4, <1>5 DEF CallbacksExact

\* An event runs the callback it is for, or none: sessions and timers that the script
\* holds agree with the tables of the context whatever numbers were taken again, what is
\* to happen once does, no callback runs after its close, no datagram is lost, and a
\* socket that was closed leaves no session behind.
THEOREM CallbacksRunOnce == CallbacksSpec => []CallbacksExact
<1>1. CallbacksInit => CallbacksInv
  BY CallbacksStart
<1>2. CallbacksInv /\ [CallbacksNext]_callbackVars => CallbacksInv'
  BY CallbacksStep
<1>3. CallbacksInv => CallbacksExact
  BY InvIsExact
<1>. QED BY <1>1, <1>2, <1>3, PTL DEF CallbacksSpec

================================================================================
