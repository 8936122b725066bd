-------------------------------- MODULE Buffer --------------------------------
(***************************************************************************)
(* The byte buffers of buffer.cpp, which contexts, messages and requests   *)
(* to the network pass around by reference.  Data that is referred to more *)
(* than once is copied before it is changed.  Each buffer_t is used by one *)
(* thread at a time; threads with a reference to the same data run at the  *)
(* same time, and whether it is shared is read before it is acted upon.    *)
(*                                                                         *)
(* External: an allocation succeeds (nlmalloc.h, a thin layer on malloc).  *)
(***************************************************************************)
EXTENDS Integers, Sequences, FiniteSets, FiniteSetsExt

CONSTANTS Ref,                    \* buffer_t variables
          Byte, NoData,
          MAX_DATA,               \* bound on the data in memory at a time
          MAX_OPS,                \* bound on the operations
          MAX_BUFFER_CAPACITY, MAX_BUFFER_PREALLOC, DEFAULT_BUFFER_CAPACITY

ASSUME BufferAssumption ==
    /\ IsFiniteSet(Ref)
    /\ NoData \notin Nat /\ NoData \notin Seq(Byte)
    /\ {MAX_DATA, MAX_OPS, MAX_BUFFER_CAPACITY, MAX_BUFFER_PREALLOC,
        DEFAULT_BUFFER_CAPACITY} \subseteq Nat \ {0}
    /\ DEFAULT_BUFFER_CAPACITY < MAX_BUFFER_CAPACITY

Data == 1 .. MAX_DATA

VARIABLES
    ops,          \* operations so far
    m_ptr,        \* of each buffer_t: its data, or NoData
    m_ref,        \* of each data: references
    m_cap,        \* ... the capacity; NoData when it is not in memory
    m_data,       \* ... the bytes, the first m_len of them
    pc,           \* of the thread that uses each buffer_t: "idle"; "change" in
                  \* place or "copy" first; "release", "dec"; "lent" to another
    op,           \* what it does
    old           \* the data it is about to release

heap == <<m_ref, m_cap, m_data>>
thread == <<pc, op, old>>
bufferVars == <<ops, m_ptr, heap, thread>>

NoOp == [name |-> "none"]
Garbage == << >>         \* what freed data holds
Free == {d \in Data : m_cap[d] = NoData}
Bytes(r) == m_data[m_ptr[r]]
Valid(r) == m_ptr[r] # NoData
New == Min(Free)

\* A thread that is free to begin an operation on its buffer.
Begin(r) == /\ pc[r] = "idle"
            /\ ops < MAX_OPS
            /\ ops' = ops + 1

BufferInit ==
    /\ ops = 0
    /\ m_ptr = [r \in Ref |-> NoData]
    /\ m_ref = [d \in Data |-> 0]
    /\ m_cap = [d \in Data |-> NoData]
    /\ m_data = [d \in Data |-> Garbage]
    /\ pc = [r \in Ref |-> "idle"]
    /\ op = [r \in Ref |-> NoOp]
    /\ old = [r \in Ref |-> NoData]

-----------------------------------------------------------------------------
\* buffer_new.
buffer_new(d, cap, bytes) ==
    /\ m_ref' = [m_ref EXCEPT ![d] = 1]
    /\ m_cap' = [m_cap EXCEPT ![d] = cap]
    /\ m_data' = [m_data EXCEPT ![d] = bytes]

create(r) ==
    /\ Begin(r) /\ ~Valid(r) /\ Free # {}
    /\ buffer_new(New, DEFAULT_BUFFER_CAPACITY, << >>)
    /\ m_ptr' = [m_ptr EXCEPT ![r] = New]
    /\ UNCHANGED thread

\* A second reference: buffer.new(buffer), a message, a write request.
buffer_grab(r, s) ==
    /\ Begin(r) /\ ~Valid(r) /\ pc[s] = "idle" /\ Valid(s)
    /\ m_ref' = [m_ref EXCEPT ![m_ptr[s]] = @ + 1]
    /\ m_ptr' = [m_ptr EXCEPT ![r] = m_ptr[s]]
    /\ UNCHANGED <<m_cap, m_data, thread>>

Releasing(r, s) ==
    /\ pc' = [pc EXCEPT ![r] = "release"]
    /\ op' = [op EXCEPT ![r] = [name |-> "release", with |-> s]]

\* buffer_release on its own; the data of a change is released below.
release(r) ==
    /\ Begin(r) /\ Valid(r)
    /\ old' = [old EXCEPT ![r] = m_ptr[r]]
    /\ m_ptr' = [m_ptr EXCEPT ![r] = NoData]
    /\ Releasing(r, r)
    /\ UNCHANGED heap

free(d) ==
    /\ m_ref' = [m_ref EXCEPT ![d] = 0]
    /\ m_data' = [m_data EXCEPT ![d] = Garbage]
    /\ m_cap' = [m_cap EXCEPT ![d] = NoData]

Released(r) ==
    /\ pc' = [pc EXCEPT ![r] = "idle", ![op[r].with] = "idle"]
    /\ op' = [op EXCEPT ![r] = NoOp]
    /\ old' = [old EXCEPT ![r] = NoData]

\* The last reference does not need the atomic operation.
release_last(r) ==
    /\ pc[r] = "release"
    /\ IF m_ref[old[r]] = 1
       THEN free(old[r]) /\ Released(r)
       ELSE /\ pc' = [pc EXCEPT ![r] = "dec"]
            /\ UNCHANGED <<heap, op, old>>
    /\ UNCHANGED m_ptr

\* Mutated form of atomic_dec: the count that was read before is relied upon.
atomic_dec_stale(r) ==
    /\ pc[r] = "dec"
    /\ m_ref' = [m_ref EXCEPT ![old[r]] = @ - 1]
    /\ Released(r)
    /\ UNCHANGED <<m_ptr, m_cap, m_data>>

atomic_dec(r) ==
    /\ pc[r] = "dec"
    /\ IF m_ref[old[r]] = 1
       THEN free(old[r])
       ELSE /\ m_ref' = [m_ref EXCEPT ![old[r]] = @ - 1]
            /\ UNCHANGED <<m_cap, m_data>>
    /\ Released(r)
    /\ UNCHANGED m_ptr

-----------------------------------------------------------------------------
\* Mutated form of begin: the count is not looked at.
begin_unshared(r, o) ==
    /\ Begin(r) /\ Valid(r) /\ pc[o.with] = "idle"
    /\ op' = [op EXCEPT ![r] = o]
    /\ pc' = [pc EXCEPT ![o.with] = "lent", ![r] = "change"]
    /\ UNCHANGED <<m_ptr, heap, old>>

\* An operation that changes the bytes reads first whether they are shared.
\* The other buffer_t that it uses, if any, is of the same thread.
begin(r, o) ==
    /\ Begin(r) /\ Valid(r) /\ pc[o.with] = "idle"
    /\ op' = [op EXCEPT ![r] = o]
    /\ pc' = [pc EXCEPT ![o.with] = "lent",
                        ![r] = IF m_ref[m_ptr[r]] = 1 THEN "change" ELSE "copy"]
    /\ UNCHANGED <<m_ptr, heap, old>>

\* buffer_append_char; what lbuffer_pack does with buffer_reserve and
\* buffer_adjust_len is the same with more bytes.
append_char(r) == \E b \in Byte :
    begin(r, [name |-> "append", byte |-> b, with |-> r])

\* The other buffer may be the same one.
buffer_concat(r, s) == Valid(s) /\ begin(r, [name |-> "concat", with |-> s])

buffer_clear(r) == begin(r, [name |-> "clear", with |-> r])

buffer_remove(r) ==
    /\ Valid(r)
    /\ \E start \in 0 .. Len(Bytes(r)) - 1, len \in 1 .. MAX_BUFFER_CAPACITY - 1 :
            begin(r, [name |-> "remove", start |-> start, len |-> len, with |-> r])

\* The part split off is a buffer of its own, made before the rest is cut.
buffer_split(r, s) ==
    /\ Valid(r) /\ ~Valid(s) /\ Len(Bytes(r)) > 0
    /\ \E len \in 1 .. MAX_BUFFER_CAPACITY - 1 :
            begin(r, [name |-> "split", len |-> len, with |-> s])

Added(o) == IF o.name = "append" THEN <<o.byte>> ELSE Bytes(o.with)

remove_len(o, n) == IF o.len < n - o.start THEN o.len ELSE n - o.start

split_len(o, n) == IF o.len < n THEN o.len ELSE n

\* The bytes that are left.
Left(o, bytes) ==
    LET n == Len(bytes)
    IN  CASE o.name = "clear" -> << >>
          [] o.name = "remove" ->
                [i \in 1 .. n - remove_len(o, n) |->
                    bytes[IF i <= o.start THEN i ELSE i + remove_len(o, n)]]
          [] o.name = "split" -> SubSeq(bytes, split_len(o, n) + 1, n)

\* 0: the buffer cannot hold so much, and the operation fails.
buffer_gen_capacity(len, add) ==
    IF len + add >= MAX_BUFFER_CAPACITY THEN 0
    ELSE Min({MAX_BUFFER_CAPACITY,
              IF len + add < MAX_BUFFER_PREALLOC THEN 2 * (len + add)
              ELSE len + add + MAX_BUFFER_PREALLOC})

Adds(r) == op[r].name \in {"append", "concat"}

append_fails(r) ==
    /\ pc[r] \in {"change", "copy"} /\ Adds(r)
    /\ LET n == Len(Bytes(r))
           add == Len(Added(op[r]))
       IN  /\ pc[r] = "change" => add > m_cap[m_ptr[r]] - n
           /\ buffer_gen_capacity(n, add) = 0
    /\ Released(r)
    /\ UNCHANGED <<m_ptr, heap>>

\* In place, when there is room; nl_realloc may move the data, and with it
\* the bytes to append if they are the buffer's own.
append_fits(r) ==
    /\ pc[r] = "change" /\ Adds(r)
    /\ Len(Added(op[r])) <= m_cap[m_ptr[r]] - Len(Bytes(r))
    /\ m_data' = [m_data EXCEPT ![m_ptr[r]] = @ \o Added(op[r])]
    /\ Released(r)
    /\ UNCHANGED <<m_ptr, m_ref, m_cap>>

append_grows(r) ==
    /\ pc[r] = "change" /\ Adds(r) /\ Free # {}
    /\ LET d   == m_ptr[r]
           n   == Len(Bytes(r))
           add == Len(Added(op[r]))
           cap == buffer_gen_capacity(n, add)
       IN  /\ add > m_cap[d] - n /\ cap > 0
           /\ m_ref' = [m_ref EXCEPT ![d] = 0, ![New] = 1]
           /\ m_cap' = [m_cap EXCEPT ![d] = NoData, ![New] = cap]
           /\ m_data' = [m_data EXCEPT ![d] = Garbage,
                                       ![New] = Bytes(r) \o Added(op[r])]
           /\ m_ptr' = [m_ptr EXCEPT ![r] = New]
    /\ Released(r)

\* clear and remove in place.
cut(r) ==
    /\ pc[r] = "change" /\ op[r].name \in {"clear", "remove"}
    /\ m_data' = [m_data EXCEPT ![m_ptr[r]] = Left(op[r], @)]
    /\ Released(r)
    /\ UNCHANGED <<m_ptr, m_ref, m_cap>>

\* The part that is split off.
Part(r) == SubSeq(Bytes(r), 1, split_len(op[r], Len(Bytes(r))))

split(r) ==
    /\ pc[r] = "change" /\ op[r].name = "split" /\ Free # {}
    /\ m_ref' = [m_ref EXCEPT ![New] = 1]
    /\ m_cap' = [m_cap EXCEPT ![New] = op[r].len]
    /\ m_data' = [m_data EXCEPT ![m_ptr[r]] = Left(op[r], @), ![New] = Part(r)]
    /\ m_ptr' = [m_ptr EXCEPT ![op[r].with] = New]
    /\ Released(r)

\* The copy of shared data, of which then a reference is released.
CopyTo(r, d, cap, bytes) ==
    /\ buffer_new(d, cap, bytes)
    /\ m_ptr' = [m_ptr EXCEPT ![r] = d]
    /\ old' = [old EXCEPT ![r] = m_ptr[r]]
    /\ Releasing(r, op[r].with)

copy_append(r) ==
    /\ pc[r] = "copy" /\ Adds(r) /\ Free # {}
    /\ LET cap == buffer_gen_capacity(Len(Bytes(r)), Len(Added(op[r])))
       IN  cap > 0 /\ CopyTo(r, New, cap, Bytes(r) \o Added(op[r]))

\* What is empty afterwards gets the default capacity, except from clear.
copy_cut(r) ==
    /\ pc[r] = "copy" /\ op[r].name \in {"clear", "remove"} /\ Free # {}
    /\ LET n    == Len(Bytes(r))
           rest == Left(op[r], Bytes(r))
           cap  == IF op[r].name = "clear" THEN n
                   ELSE IF n > 0 /\ rest = << >> THEN DEFAULT_BUFFER_CAPACITY
                   ELSE Len(rest)
       IN  CopyTo(r, New, cap, rest)

copy_split(r) ==
    /\ pc[r] = "copy" /\ op[r].name = "split" /\ Cardinality(Free) > 1
    /\ LET rest == Left(op[r], Bytes(r))
           d    == Min(Free \ {New})
       IN  /\ m_ref' = [m_ref EXCEPT ![New] = 1, ![d] = 1]
           /\ m_cap' = [m_cap EXCEPT ![New] = op[r].len,
                        ![d] = IF rest = << >> THEN DEFAULT_BUFFER_CAPACITY
                               ELSE Len(Bytes(r))]
           /\ m_data' = [m_data EXCEPT ![New] = Part(r), ![d] = rest]
           /\ m_ptr' = [m_ptr EXCEPT ![op[r].with] = New, ![r] = d]
           /\ old' = [old EXCEPT ![r] = m_ptr[r]]
           /\ Releasing(r, op[r].with)

Start(r) ==
    \/ create(r)
    \/ \E s \in Ref : buffer_grab(r, s)
    \/ release(r)
    \/ append_char(r)
    \/ \E s \in Ref : buffer_concat(r, s)
    \/ buffer_clear(r)
    \/ buffer_remove(r)
    \/ \E s \in Ref : buffer_split(r, s)

Continue(r) ==
    /\ \/ release_last(r)
       \/ atomic_dec(r)
       \/ append_fails(r)
       \/ append_fits(r)
       \/ append_grows(r)
       \/ cut(r)
       \/ split(r)
       \/ copy_append(r)
       \/ copy_cut(r)
       \/ copy_split(r)
    /\ UNCHANGED ops

BufferNext == \E r \in Ref : Start(r) \/ Continue(r)

BufferSpec == BufferInit /\ [][BufferNext]_bufferVars

-----------------------------------------------------------------------------
\* Type invariant of the buffers.
BufferTypeOK ==
    /\ m_ptr \in [Ref -> Data \cup {NoData}]
    /\ m_ref \in [Data -> 0 .. 2 * Cardinality(Ref)]
    /\ pc \in [Ref -> {"idle", "change", "copy", "release", "dec", "lent"}]
    /\ old \in [Ref -> Data \cup {NoData}]

\* Data stays in memory while a buffer_t or a release under way refers to it,
\* no longer, and no length passes its capacity (buffer_release, buffer_grab,
\* buffer_gen_capacity): counts and references agree whatever the threads that
\* release, copy and change the same data do at the same time.
DataExact ==
    /\ BufferTypeOK
    /\ \A d \in Data :
        /\ m_ref[d] = Cardinality({r \in Ref : m_ptr[r] = d})
                        + Cardinality({r \in Ref : old[r] = d})
        /\ d \in Free <=> m_ref[d] = 0
        /\ d \notin Free => Len(m_data[d]) <= m_cap[d]

\* Sharing never shows: every buffer_t is a value of its own (the copies in
\* buffer_append, _clear, _split, _remove).  A write request holds the bytes
\* that were written, a message those that were sent.
Private == INSTANCE PrivateBuffers
    WITH value <- [r \in Ref |-> IF Valid(r) THEN Bytes(r) ELSE NoData],
         NULL <- NoData

BuffersPrivate == Private!Spec
=============================================================================
