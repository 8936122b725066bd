----------------------------- MODULE MessageQueue -----------------------------
(***************************************************************************)
(* message_queue_t (message_queue.cpp): the growing ring buffer that holds  *)
(* the messages of one context.  Every call is made under the context's     *)
(* m_message_queue_lock, so each is one action.                             *)
(***************************************************************************)
EXTENDS Integers, Sequences

CONSTANTS Message,          \* message_t values
          NoMessage,        \* content of a slot never written to
          DEFAULT_MQ_SIZE,  \* initial capacity (64 in the code)
          UintRange         \* number of values of a uint32_t

ASSUME QueueAssumption == /\ NoMessage \notin Message
                          /\ UintRange \in Nat
                          /\ DEFAULT_MQ_SIZE \in 1 .. UintRange - 1

VARIABLES m_queue, m_cap, m_head, m_tail, m_size,
          result            \* what the last push or pop returned

vars == <<m_queue, m_cap, m_head, m_tail, m_size, result>>

Slot == Message \cup {NoMessage}

-----------------------------------------------------------------------------
(* Unsigned arithmetic on indices.                                          *)

\* x & (cap - 1) for a power of two cap and x < 2 * cap.
Wrap(x, cap) == IF x < cap THEN x ELSE x - cap

\* m_cap << 1 in a uint32_t: the top bit is shifted out.
DoubleCap(cap) == IF 2 * cap < UintRange THEN 2 * cap ELSE 2 * cap - UintRange

\* i + 1, back to 0 at the end of the buffer.
NextIndex(i, cap) == IF i + 1 # cap THEN i + 1 ELSE 0

\* The i-th oldest message (i counts from 0), as expand_queue reads it.
Nth(i) == m_queue[Wrap(m_head + i, m_cap)]

-----------------------------------------------------------------------------
Init == /\ m_cap = DEFAULT_MQ_SIZE
        /\ m_queue = [i \in 0 .. DEFAULT_MQ_SIZE - 1 |-> NoMessage]
        /\ m_head = 0
        /\ m_tail = 0
        /\ m_size = 0
        /\ result = [ok |-> FALSE, message |-> NoMessage]

\* Mutated form of ExpandedQueue: the slots are copied in storage order.
ExpandedQueueUnrotated(cap) ==
    [i \in 0 .. cap - 1 |-> IF i < m_size THEN m_queue[i] ELSE NoMessage]

\* The buffer expand_queue allocates, with the live messages copied to its start.
ExpandedQueue(cap) ==
    [i \in 0 .. cap - 1 |-> IF i < m_size THEN Nth(i) ELSE NoMessage]

\* push when there is room.
PushInPlace(m) ==
    /\ m_size < m_cap
    /\ m_size' = m_size + 1
    /\ m_queue' = [m_queue EXCEPT ![m_tail] = m]
    /\ m_tail' = NextIndex(m_tail, m_cap)
    /\ result' = [ok |-> TRUE, message |-> m]
    /\ UNCHANGED <<m_cap, m_head>>

\* Mutated form of PushExpanding: expand_queue forgets to reset m_head.
PushExpandingKeepsHead(m) ==
    LET new_cap == DoubleCap(m_cap) IN
    /\ m_size >= m_cap
    /\ new_cap > m_cap
    /\ m_cap' = new_cap
    /\ m_queue' = [ExpandedQueue(new_cap) EXCEPT ![m_size] = m]
    /\ m_size' = m_size + 1
    /\ m_tail' = NextIndex(m_size, new_cap)
    /\ result' = [ok |-> TRUE, message |-> m]
    /\ UNCHANGED m_head

\* push into a full buffer: expand_queue succeeds, then the message is stored.
PushExpanding(m) ==
    LET new_cap == DoubleCap(m_cap) IN
    /\ m_size >= m_cap
    /\ new_cap > m_cap
    /\ m_cap' = new_cap
    /\ m_head' = 0
    /\ m_queue' = [ExpandedQueue(new_cap) EXCEPT ![m_size] = m]
    /\ m_size' = m_size + 1
    /\ m_tail' = NextIndex(m_size, new_cap)
    /\ result' = [ok |-> TRUE, message |-> m]

\* push into a full buffer whose capacity cannot double in a uint32_t.
PushRefused ==
    /\ m_size >= m_cap
    /\ DoubleCap(m_cap) <= m_cap
    /\ result' = [ok |-> FALSE, message |-> NoMessage]
    /\ UNCHANGED <<m_queue, m_cap, m_head, m_tail, m_size>>

Pop ==
    /\ m_size > 0
    /\ m_size' = m_size - 1
    /\ result' = [ok |-> TRUE, message |-> m_queue[m_head]]
    /\ m_head' = NextIndex(m_head, m_cap)
    /\ UNCHANGED <<m_queue, m_cap, m_tail>>

PopEmpty ==
    /\ m_size <= 0
    /\ result' = [ok |-> FALSE, message |-> NoMessage]
    /\ UNCHANGED <<m_queue, m_cap, m_head, m_tail, m_size>>

Next == \/ \E m \in Message : PushInPlace(m) \/ PushExpanding(m)
        \/ PushRefused
        \/ Pop
        \/ PopEmpty

Spec == Init /\ [][Next]_vars

-----------------------------------------------------------------------------
TypeOK == /\ m_cap \in 1 .. UintRange - 1
          /\ m_queue \in [0 .. m_cap - 1 -> Slot]
          /\ m_head \in 0 .. m_cap - 1
          /\ m_tail \in 0 .. m_cap - 1
          /\ m_size \in 0 .. m_cap
          /\ result \in [ok : BOOLEAN, message : Slot]

\* The index bookkeeping of push, pop and expand_queue stays consistent across
\* wrap-around and growth: m_tail is m_size slots after m_head, and each of the
\* m_size slots from m_head on holds a message that was pushed, never an
\* unwritten slot of a fresh buffer.
RingConsistent ==
    /\ m_tail = Wrap(m_head + m_size, m_cap)
    /\ \A i \in 0 .. m_size - 1 : Nth(i) \in Message

\* The queue's content, oldest first, as FifoQueue sees it.
Content == [i \in 1 .. m_size |-> Nth(i - 1)]

Fifo == INSTANCE FifoQueue WITH queue <- Content

\* The ring buffer implements a FIFO queue: whatever mix of pushes, pops, wraps
\* and expansions, pop returns the oldest message, an expansion moves nothing
\* and loses nothing, and push fails only when the capacity would overflow.
FifoSpec == Fifo!Spec
=============================================================================
