------------------------------ MODULE ContextMgr ------------------------------
(***************************************************************************)
(* context_mgr_t (context_mgr.cpp): the registry of contexts.  A context    *)
(* lives in the slot that the low bits of its handle name; a new context    *)
(* gets the first handle, counting up from m_handle_index, whose slot is    *)
(* free, and when no slot is free the table grows by four.  Every operation *)
(* holds the write lock (grab_context the read lock) and is one step.       *)
(*                                                                         *)
(* Handles are unsigned integers below UintRange (2^32 in the program) and  *)
(* wrap; 0 means "not registered".  m_slot_cap is a power of two, so that   *)
(* handle & (m_slot_cap - 1) is handle % m_slot_cap.                        *)
(***************************************************************************)
EXTENDS Integers, Sequences, FiniteSets

CONSTANTS Context,                \* the context objects that may exist at once
          Logger,                 \* the first one to be registered
          NULL,                   \* the null context_t pointer
          UintRange,              \* number of values of a uint32_t
          DEFAULT_CTX_SLOT_SIZE,  \* the initial capacity
          HISTORY                 \* how many issued handles are remembered

\* Memory holds far fewer contexts than there are handles, so that the capacity
\* and the handles probed from m_handle_index never go once round.
ASSUME ContextMgrAssumption ==
    /\ IsFiniteSet(Context)
    /\ Logger \in Context
    /\ NULL \notin Context
    /\ UintRange \in Nat
    /\ DEFAULT_CTX_SLOT_SIZE \in Nat \ {0}
    /\ 8 * Cardinality(Context) <= UintRange
    /\ 2 * DEFAULT_CTX_SLOT_SIZE <= UintRange
    /\ HISTORY \in Nat

\* The table grows only when the contexts fill it.
LargestCap == IF 4 * Cardinality(Context) > DEFAULT_CTX_SLOT_SIZE
              THEN 4 * Cardinality(Context) ELSE DEFAULT_CTX_SLOT_SIZE

\* A uint32_t has a power of two of values, and the capacity is a power of two:
\* the slots of consecutive handles stay consecutive when the handles wrap.
ASSUME PowersOfTwo ==
    /\ UintRange % DEFAULT_CTX_SLOT_SIZE = 0
    /\ \A cap \in 1 .. UintRange \div 4 :
           UintRange % cap = 0 => UintRange % (4 * cap) = 0

\* The remembered handles are fewer than it takes to go once round: no sweep
\* moves m_handle_index by more than LargestCap + Cardinality(Context).
ASSUME HistoryAssumption ==
    (HISTORY - 1) * (LargestCap + Cardinality(Context)) + 2 <= UintRange

MAX_CTX_SIZE == UintRange - 1

VARIABLES m_handle_index, m_ctx_size, m_slot_cap, m_ctx_slot,
          m_handle,   \* the m_handle of each context
          boot,       \* what the constructor of node_lua_t does next
          issued      \* the last HISTORY handles given out, newest first

vars == <<m_handle_index, m_ctx_size, m_slot_cap, m_ctx_slot, m_handle, boot,
          issued>>

Init ==
    /\ m_handle_index = 1
    /\ m_ctx_size = 0
    /\ m_slot_cap = DEFAULT_CTX_SLOT_SIZE
    /\ m_ctx_slot = [s \in 0 .. DEFAULT_CTX_SLOT_SIZE - 1 |-> NULL]
    /\ m_handle = [c \in Context |-> 0]
    /\ boot = "index_max"
    /\ issued = << >>

\* set_handle_index: the logger gets the largest handle, the others count from 1.
set_handle_index ==
    /\ \/ boot = "index_max" /\ m_handle_index' = MAX_CTX_SIZE /\ boot' = "logger"
       \/ boot = "index_one" /\ m_handle_index' = 1 /\ boot' = "done"
    /\ UNCHANGED <<m_ctx_size, m_slot_cap, m_ctx_slot, m_handle, issued>>

-----------------------------------------------------------------------------
Registered == {c \in Context : m_handle[c] # 0}

Full == \A s \in 0 .. m_slot_cap - 1 : m_ctx_slot[s] # NULL

\* The sweep that starts at handle index meets handle 0 by its i-th step, and
\* from then on counts from m_handle_index + m_slot_cap.
Meets0(index, i) == index = 0 \/ index + i >= UintRange

\* Mutated form of Handle: handle 0 is given out like any other.
HandleWith0(index, cap, i) == (index + i) % UintRange

\* Mutated form of Handle: only the handle 0 itself is skipped.
HandleSkipsOne(index, cap, i) ==
    (IF Meets0(index, i) THEN index + 1 + i ELSE index + i) % UintRange

\* The handle tried in the i-th step of that sweep.
Handle(index, cap, i) ==
    (IF Meets0(index, i) THEN index + cap + i ELSE index + i) % UintRange

\* Mutated form of Expanded: the contexts keep their slots.
ExpandedInPlace(cap) ==
    [s \in 0 .. cap - 1 |-> IF s < m_slot_cap THEN m_ctx_slot[s] ELSE NULL]

\* expand_slot: the same contexts in a table of capacity cap.
Expanded(cap) ==
    [s \in 0 .. cap - 1 |->
        IF \E c \in Registered : m_handle[c] % cap = s
        THEN CHOOSE c \in Registered : m_handle[c] % cap = s
        ELSE NULL]

Remember(handle) ==
    SubSeq(<<handle>> \o issued, 1,
           IF Len(issued) < HISTORY THEN Len(issued) + 1 ELSE HISTORY)

\* Mutated form of Place: the index is left where it was.
PlaceKeepsIndex(c, index, cap, slot) ==
    \E i \in 0 .. cap - 1 :
        LET handle == Handle(index, cap, i)
        IN
        /\ slot[handle % cap] = NULL
        /\ \A j \in 0 .. i - 1 : slot[Handle(index, cap, j) % cap] # NULL
        /\ m_slot_cap' = cap
        /\ m_ctx_slot' = [slot EXCEPT ![handle % cap] = c]
        /\ m_handle' = [m_handle EXCEPT ![c] = handle]
        /\ m_handle_index' = index
        /\ issued' = Remember(handle)

\* The sweep: c goes to the first free slot, and the index behind its handle.
Place(c, index, cap, slot) ==
    \E i \in 0 .. cap - 1 :
        LET handle == Handle(index, cap, i)
        IN
        /\ slot[handle % cap] = NULL
        /\ \A j \in 0 .. i - 1 : slot[Handle(index, cap, j) % cap] # NULL
        /\ m_slot_cap' = cap
        /\ m_ctx_slot' = [slot EXCEPT ![handle % cap] = c]
        /\ m_handle' = [m_handle EXCEPT ![c] = handle]
        /\ m_handle_index' = (handle + 1) % UintRange
        /\ issued' = Remember(handle)

\* A sweep over a full table has met handle 0, if at all, before it gives up.
register_context(c) ==
    /\ boot \in {"logger", "done"}
    /\ boot = "logger" => c = Logger
    /\ m_handle[c] = 0
    /\ m_ctx_size # MAX_CTX_SIZE
    /\ IF ~Full
       THEN Place(c, m_handle_index, m_slot_cap, m_ctx_slot)
       ELSE LET cap   == 4 * m_slot_cap
                index == IF Meets0(m_handle_index, m_slot_cap - 1)
                         THEN (m_handle_index + m_slot_cap) % UintRange
                         ELSE m_handle_index
            IN Place(c, index, cap, Expanded(cap))
    /\ m_ctx_size' = m_ctx_size + 1
    /\ boot' = IF boot = "logger" THEN "index_one" ELSE boot

\* A context that is not registered (any more) is left alone.
retire_context(c) ==
    /\ boot = "done"
    /\ m_handle[c] # 0
    /\ m_ctx_slot' = [m_ctx_slot EXCEPT ![m_handle[c] % m_slot_cap] = NULL]
    /\ m_ctx_size' = m_ctx_size - 1
    /\ m_handle' = [m_handle EXCEPT ![c] = 0]
    /\ UNCHANGED <<m_handle_index, m_slot_cap, boot, issued>>

\* Mutated form of grab_context: the handle of the context found is not checked.
grab_context_unchecked(handle) == m_ctx_slot[handle % m_slot_cap]

\* grab_context: the context with this handle, or NULL.
grab_context(handle) ==
    LET c == m_ctx_slot[handle % m_slot_cap]
    IN IF c # NULL /\ m_handle[c] = handle THEN c ELSE NULL

Next == \/ set_handle_index
        \/ \E c \in Context : register_context(c) \/ retire_context(c)

Spec == Init /\ [][Next]_vars

-----------------------------------------------------------------------------
TypeOK ==
    /\ m_handle_index \in 0 .. UintRange - 1
    /\ m_ctx_size \in Int
    /\ m_slot_cap \in Nat \ {0}
    /\ m_ctx_slot \in [0 .. m_slot_cap - 1 -> Context \cup {NULL}]
    /\ m_handle \in [Context -> 0 .. UintRange - 1]
    /\ boot \in {"index_max", "logger", "index_one", "done"}
    /\ issued \in Seq(1 .. UintRange - 1)

\* A context is in the slot of its handle and in no other, and a slot holds
\* only registered contexts: what the assertions of expand_slot and
\* retire_context rely on (context_mgr.cpp:37,83), and why grab_context never
\* follows the pointer of a context that has been deleted.
SlotsAgree ==
    \A c \in Context, s \in 0 .. m_slot_cap - 1 :
        m_ctx_slot[s] = c <=> m_handle[c] # 0 /\ m_handle[c] % m_slot_cap = s

\* A handle finds the context that has it and nothing else: not the context
\* that took over the slot, and nothing once the context is retired.
LookupExact ==
    \A handle \in 0 .. UintRange - 1 :
        /\ grab_context(handle) # NULL
               => handle # 0 /\ m_handle[grab_context(handle)] = handle
        /\ \A c \in Context : handle # 0 /\ m_handle[c] = handle
               => grab_context(handle) = c

\* m_ctx_size, which decides when the engine stops, counts the contexts that
\* are registered.
CountExact == m_ctx_size = Cardinality(Registered)

\* A handle that has been given out is not given to another context for a long
\* time, so that a sender with an old handle reaches nobody.  Part of HandlesSound.
HandlesFresh ==
    \A i, j \in 1 .. Len(issued) : issued[i] = issued[j] => i = j

\* register_context does not sweep for ever: unless the table is full, in which
\* case it grows, a sweep meets a free slot, also when it wraps past handle 0.
\* Part of HandlesSound.
SlotFound ==
    ~Full => \E i \in 0 .. m_slot_cap - 1 :
                 m_ctx_slot[Handle(m_handle_index, m_slot_cap, i) % m_slot_cap] = NULL

\* Every context that is registered gets a handle, and a fresh one
\* (context_mgr.cpp:53-68).
HandlesSound == HandlesFresh /\ SlotFound
=============================================================================
