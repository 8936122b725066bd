------------------------------- MODULE Messages -------------------------------
(***************************************************************************)
(* Messages and the data they own (message.cpp, message.h, context_lua.cpp *)
(* context_check_message and what calls it).  A message is copied by       *)
(* assignment and its data is a pointer: strings, packed tables, arrays    *)
(* and the references of buffers and shared objects are to be released     *)
(* exactly once, by whoever holds the last copy.  Data are allocations and *)
(* references alike, numbered in the order they are made.  A query that    *)
(* blocks builds its message in m_yielding_message, one for all contexts   *)
(* of a worker.                                                            *)
(***************************************************************************)
EXTENDS Naturals, Sequences, FiniteSets, SequencesExt

CONSTANTS MAX_ARGS,     \* bound on the values of one message
          MESSAGE_DATA, \* bound on the data made
          MAX_QUEUE     \* bound on the messages on their way

ASSUME MessagesAssumption ==
    MAX_ARGS \in Nat \ {0} /\ MESSAGE_DATA \in Nat /\ MAX_QUEUE \in Nat

VARIABLES
    m_yielding_message,
    queue,         \* messages sent and not yet processed
    made,          \* the number of data made
    released       \* how often each was released

messageVars == <<m_yielding_message, queue, made, released>>

\* The values a script passes: without data of their own (nil, numbers,
\* booleans, light userdata), with data (strings, buffers, shared objects,
\* tables that can be packed), tables that cannot be packed and values that
\* are not supported (functions, coroutines, other userdata).
Values == {"plain", "data", "badtable", "unsupported"}

\* A message: the array it owns, or NO_DATA, and the data of its value or of the
\* array's elements; NO_DATA also where there is none (any more).
NO_DATA == 0

Message == [array : 0 .. MESSAGE_DATA,
            data : UNION {[1 .. n -> 0 .. MESSAGE_DATA] : n \in 1 .. MAX_ARGS}]

Plain == [array |-> NO_DATA, data |-> <<NO_DATA>>]
One(d) == [array |-> NO_DATA, data |-> <<d>>]

\* The data a message owns.
DataOf(m) == ({m.array} \cup Range(m.data)) \ {NO_DATA}

MessagesInit ==
    /\ m_yielding_message = Plain
    /\ queue = << >>
    /\ made = 0
    /\ released = [d \in 1 .. MESSAGE_DATA |-> 0]

-----------------------------------------------------------------------------
\* message_clean, message_array_release: what the message owns is released, and
\* this copy of the message owns nothing any more.
ReleaseData(d) == released' = [x \in DOMAIN released |->
                                 released[x] + (IF x \in d THEN 1 ELSE 0)]

\* Mutated form of message_clean: the array goes without its elements.
message_clean_shallow(m) ==
    ReleaseData(IF m.array # NO_DATA THEN {m.array} ELSE DataOf(m))

message_clean(m) == ReleaseData(DataOf(m))

Cleaned(m) == [array |-> NO_DATA, data |-> <<NO_DATA>>]

\* The values of which context_check_message makes data, and those it refuses.  The
\* data of a table that cannot be packed is there nevertheless.
Makes(v) == v \in {"data", "badtable"}
Fails(v) == v \in {"badtable", "unsupported"}

\* context_check_message for one value, into a message that may have been used
\* before; a value that is not supported leaves the message as it was.
CheckValue(old, v) ==
    [ok      |-> ~Fails(v),
     made    |-> IF Makes(v) THEN made + 1 ELSE made,
     message |-> IF v = "unsupported" THEN old
                 ELSE IF Makes(v) THEN One(made + 1) ELSE Plain]

\* ... for the values of an array, up to the first that fails: the elements that
\* get data.  The others are zero from before, which is a message without data.
Filled(values) ==
    {i \in DOMAIN values : Makes(values[i]) /\ \A j \in 1 .. i - 1 : ~Fails(values[j])}

UpTo(filled, i) == {j \in filled : j <= i}

CheckArray(values) ==
    [ok      |-> \A i \in DOMAIN values : ~Fails(values[i]),
     made    |-> made + 1 + Cardinality(Filled(values)),
     message |-> [array |-> made + 1,
                  data  |-> [i \in DOMAIN values |->
                                IF i \in Filled(values)
                                THEN made + 1 + Cardinality(UpTo(Filled(values), i))
                                ELSE NO_DATA]]]

context_check_message(old, values) ==
    IF Len(values) = 1 THEN CheckValue(old, values[1]) ELSE CheckArray(values)

-----------------------------------------------------------------------------
\* The context is there and takes the message, or it is not.
Delivered(m, exists) ==
    IF exists
    THEN queue' = Append(queue, m) /\ UNCHANGED released
    ELSE message_clean(m) /\ UNCHANGED queue

\* context_send, also of replies and of queries with a callback: the message
\* is a new one.
context_send(values, exists) ==
    LET r == context_check_message(Plain, values)
    IN  /\ r.made <= MESSAGE_DATA /\ Len(queue) < MAX_QUEUE
        /\ made' = r.made
        /\ IF r.ok THEN Delivered(r.message, exists)
                   ELSE message_clean(r.message) /\ UNCHANGED queue
        /\ UNCHANGED m_yielding_message

\* context_query that blocks, and its finalizer in the root coroutine.
context_query(values, exists) ==
    LET r == context_check_message(m_yielding_message, values)
    IN  /\ r.made <= MESSAGE_DATA /\ Len(queue) < MAX_QUEUE
        /\ made' = r.made
        /\ IF r.ok
           THEN /\ Delivered(r.message, exists)
                /\ m_yielding_message' = IF exists THEN r.message ELSE Cleaned(r.message)
           ELSE /\ message_clean(r.message)
                /\ m_yielding_message' = Cleaned(r.message)
                /\ UNCHANGED queue

\* A worker or the final wait has processed or dropped a message
\* (worker_process): what a script got of it are references of its own.
process_message ==
    /\ queue # << >>
    /\ queue' = Tail(queue)
    /\ message_clean(Head(queue))
    /\ UNCHANGED <<m_yielding_message, made>>

MessagesNext ==
    \/ \E n \in 1 .. MAX_ARGS : \E values \in [1 .. n -> Values], exists \in BOOLEAN :
            context_send(values, exists) \/ context_query(values, exists)
    \/ process_message

MessagesSpec == MessagesInit /\ [][MessagesNext]_messageVars

-----------------------------------------------------------------------------
MessagesTypeOK ==
    /\ m_yielding_message \in Message
    /\ queue \in Seq(Message) /\ Len(queue) <= MAX_QUEUE
    /\ made \in 0 .. MESSAGE_DATA
    /\ released \in [1 .. MESSAGE_DATA -> Nat]

\* Data that nobody holds any more has been released: whatever value of an
\* array failed, and whether or not the receiver was there.
NothingLeaks ==
    \A d \in 1 .. made :
        released[d] = 0 => \E i \in 1 .. Len(queue) : d \in DataOf(queue[i])

\* The data of a message that nobody holds any more have been released, with all the
\* elements of its array (context_lua.cpp:957-1171, message.h:103-133).
DataReleased == MessagesTypeOK /\ NothingLeaks

\* No data is released twice, or while a message that owns it is on its way:
\* what a query sent is not that query's any more when the next one fails.
ReleasedOnce ==
    \A d \in 1 .. made :
        released[d] + Cardinality({i \in 1 .. Len(queue) : d \in DataOf(queue[i])}) <= 1
=============================================================================
