------------------------------ MODULE FifoQueue ------------------------------
(***************************************************************************)
(* What a context's message queue promises: messages leave in the order    *)
(* they entered, none is lost, duplicated or invented, and a push is       *)
(* refused only when the queue holds at least half of the range of a       *)
(* uint32_t.                                                               *)
(***************************************************************************)
EXTENDS Integers, Sequences

CONSTANTS Message,    \* the messages that can be pushed
          NoMessage,  \* "nothing": what a pop of an empty queue hands out
          UintRange   \* number of values of the length type (2^32 in the code)

VARIABLES queue,      \* the messages, oldest first
          result      \* what the last call returned: [ok, message]

Init == /\ queue = << >>
        /\ result = [ok |-> FALSE, message |-> NoMessage]

Push(m) == /\ queue' = Append(queue, m)
           /\ result' = [ok |-> TRUE, message |-> m]

PushRefused == /\ 2 * Len(queue) >= UintRange
               /\ result' = [ok |-> FALSE, message |-> NoMessage]
               /\ UNCHANGED queue

Pop == /\ queue # << >>
       /\ queue' = Tail(queue)
       /\ result' = [ok |-> TRUE, message |-> Head(queue)]

PopEmpty == /\ queue = << >>
            /\ result' = [ok |-> FALSE, message |-> NoMessage]
            /\ UNCHANGED queue

Next == \/ \E m \in Message : Push(m)
        \/ PushRefused
        \/ Pop
        \/ PopEmpty

Spec == Init /\ [][Next]_<<queue, result>>
=============================================================================
