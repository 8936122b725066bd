------------------------------- MODULE Framing -------------------------------
(***************************************************************************)
(* Packets on a tcp stream: write_handle puts the length of each packet    *)
(* before its bytes when the option write_head_bytes is set, and the       *)
(* network thread of the peer cuts what it reads, in pieces of any size,   *)
(* into the packets again (uv_tcp_handle.cpp, endian_conv.cpp).  Both ends *)
(* have set the same options, as the samples do.  When reading starts and  *)
(* stops, and whom a packet goes to, is in TcpRead; this module is about   *)
(* the bytes.                                                              *)
(***************************************************************************)
EXTENDS Integers, Sequences, SequencesExt

CONSTANTS BASE,                   \* values of a byte; 256 in the code
          MAX_SENT, MAX_LENGTH,   \* bounds on the packets and their length
          SHARED_READ_BUFFER_SIZE,
          LARGE_UNCOMPLETE_LIMIT,
          Maxes                   \* what set_rwopt is given for the maximum

FramingAssumption ==
    /\ BASE \in {2 * n : n \in 1 .. 128}
    /\ MAX_SENT \in Nat /\ MAX_LENGTH \in Nat
    /\ SHARED_READ_BUFFER_SIZE \in Nat \ {0}
    /\ LARGE_UNCOMPLETE_LIMIT \in Nat \ {0}
    /\ Maxes \subseteq Nat

VARIABLES
    option,          \* head_option_t of both ends
    sent,            \* lengths of the packets written
    wire,            \* bytes on their way: <<n, i>> is the i-th of packet n,
                     \* <<0, d>> a byte of a head
    shut,            \* the writer has closed the socket
    chunk,           \* what is left of the shared buffer in write_read_buffer
    m_read_head_buffer,
    m_read_buffer,   \* [cap, data], or NoBuffer
    m_read_error,
    received         \* packets handed on

writer == <<sent, shut>>
packet == <<m_read_head_buffer, m_read_buffer, m_read_error, received>>
vars == <<option, writer, wire, chunk, packet>>

NoBuffer == [cap |-> 0, data |-> << >>]
buffer_write_size(b) == b.cap - Len(b.data)

-----------------------------------------------------------------------------
\* What set_rwopt accepts.  A maximum of 0 becomes the largest that the width
\* and the size of a buffer allow.
MAX_BUFFER_CAPACITY == BASE ^ 4 \div 2 - 1

bytes_max(bytes) ==
    IF bytes = 4 THEN MAX_BUFFER_CAPACITY ELSE BASE ^ bytes - 1

HeadOptions ==
    {[bytes |-> b, endian |-> e, max |-> IF m = 0 THEN bytes_max(b) ELSE m] :
        <<b, e, m>> \in {<<b, e, m>> \in {0, 1, 2, 4} \X {"L", "B"} \X Maxes :
                            m <= bytes_max(b)}}

check_head_option_max(length) == option.bytes = 0 \/ length <= option.max

Ordered(digits) == IF option.endian = "L" THEN digits ELSE Reverse(digits)

\* The length as option.bytes bytes, cut to that width.
endian_from_integer(length) ==
    Ordered([i \in 1 .. option.bytes |-> (length \div BASE ^ (i - 1)) % BASE])

Unsigned(digits) ==
    FoldLeft(LAMBDA n, d : n * BASE + d, 0, Reverse(Ordered(digits)))

\* char, int16_t and int32_t are signed; m_read_bytes has four bytes again.
endian_to_integer(digits) ==
    LET range == BASE ^ option.bytes
        n     == Unsigned(digits)
    IN  (IF n < range \div 2 THEN n ELSE n - range) % BASE ^ 4

-----------------------------------------------------------------------------
Init ==
    /\ option \in HeadOptions
    /\ sent = << >> /\ wire = << >> /\ shut = FALSE
    /\ chunk = << >>
    /\ m_read_head_buffer = << >>
    /\ m_read_buffer = NoBuffer
    /\ m_read_error = "OK"
    /\ received = << >>

Body(n) == [i \in 1 .. sent[n] |-> <<n, i>>]

\* An empty packet is not sent, one too long is refused.
write_handle(length) ==
    /\ ~shut /\ Len(sent) < MAX_SENT
    /\ length > 0 /\ check_head_option_max(length)
    /\ sent' = Append(sent, length)
    /\ wire' = wire \o [i \in 1 .. option.bytes |->
                            <<0, endian_from_integer(length)[i]>>]
                    \o [i \in 1 .. length |-> <<Len(sent) + 1, i>>]
    /\ UNCHANGED <<option, shut, chunk, packet>>

close ==
    /\ ~shut
    /\ shut' = TRUE
    /\ UNCHANGED <<option, sent, wire, chunk, packet>>

-----------------------------------------------------------------------------
\* Mutated form of finish: m_read_head_bytes is not reset with the packet.
finish_unreset(data) ==
    /\ received' = Append(received, data)
    /\ m_read_buffer' = NoBuffer
    /\ UNCHANGED <<m_read_head_buffer, m_read_error>>

\* write_read_buffer_finish with a packet, and with an error.
finish(data) ==
    /\ received' = Append(received, data)
    /\ m_read_buffer' = NoBuffer
    /\ m_read_head_buffer' = << >>
    /\ UNCHANGED m_read_error

finish_error(error) ==
    /\ m_read_error' = error
    /\ m_read_buffer' = NoBuffer
    /\ UNCHANGED <<m_read_head_buffer, received>>

\* More bytes for the packet that is read into its own buffer.
append(b, data) ==
    IF Len(data) = buffer_write_size(b)
    THEN finish(b.data \o data)
    ELSE /\ m_read_buffer' = [b EXCEPT !.data = @ \o data]
         /\ UNCHANGED <<m_read_head_buffer, m_read_error, received>>

\* on_read_alloc: a packet that lacks much is read into its own buffer.
on_read_alloc ==
    IF buffer_write_size(m_read_buffer) < LARGE_UNCOMPLETE_LIMIT
    THEN SHARED_READ_BUFFER_SIZE
    ELSE buffer_write_size(m_read_buffer)

\* libuv has read some bytes.
on_read(nread) ==
    /\ m_read_error = "OK" /\ chunk = << >>
    /\ nread \in 1 .. Len(wire) /\ nread <= on_read_alloc
    /\ wire' = SubSeq(wire, nread + 1, Len(wire))
    /\ IF buffer_write_size(m_read_buffer) < LARGE_UNCOMPLETE_LIMIT
       THEN chunk' = SubSeq(wire, 1, nread) /\ UNCHANGED packet
       ELSE append(m_read_buffer, SubSeq(wire, 1, nread)) /\ UNCHANGED chunk
    /\ UNCHANGED <<option, writer>>

\* ... or the end of the stream.
on_read_end ==
    /\ m_read_error = "OK" /\ chunk = << >>
    /\ shut /\ wire = << >>
    /\ finish_error("EOF")
    /\ UNCHANGED <<option, writer, wire, chunk>>

-----------------------------------------------------------------------------
\* One turn of the loop over the chunk in write_read_buffer.
unread_head_bytes == option.bytes - Len(m_read_head_buffer)

NextHead(n) == m_read_head_buffer \o [i \in 1 .. n |-> chunk[i][2]]

Rest(n) == SubSeq(chunk, n + 1, Len(chunk))

\* Without a head a chunk is a packet.
read_raw ==
    /\ chunk # << >> /\ option.bytes = 0
    /\ finish(chunk)
    /\ chunk' = << >>
    /\ UNCHANGED <<option, writer, wire>>

read_head_part ==
    /\ chunk # << >> /\ Len(chunk) < unread_head_bytes
    /\ m_read_head_buffer' = NextHead(Len(chunk))
    /\ chunk' = << >>
    /\ UNCHANGED <<option, writer, wire, m_read_buffer, m_read_error, received>>

read_head_refused ==
    /\ chunk # << >> /\ unread_head_bytes \in 1 .. Len(chunk)
    /\ endian_to_integer(NextHead(unread_head_bytes)) > option.max
    /\ finish_error("EMSGSIZE")
    /\ chunk' = << >>
    /\ UNCHANGED <<option, writer, wire>>

\* The head is complete, now or earlier: as much of the packet as there is.
read_body ==
    /\ chunk # << >> /\ option.bytes > 0 /\ unread_head_bytes <= Len(chunk)
    /\ LET head   == NextHead(unread_head_bytes)
           length == endian_to_integer(head)
           b      == IF unread_head_bytes > 0
                     THEN [cap |-> length, data |-> << >>] ELSE m_read_buffer
           rest   == Rest(unread_head_bytes)
           data   == SubSeq(rest, 1, buffer_write_size(b))
       IN  /\ unread_head_bytes > 0 => length <= option.max
           /\ IF Len(rest) >= buffer_write_size(b)
              THEN /\ finish(b.data \o data)
                   /\ chunk' = SubSeq(rest, Len(data) + 1, Len(rest))
              ELSE /\ m_read_buffer' = [b EXCEPT !.data = @ \o rest]
                   /\ m_read_head_buffer' = head
                   /\ chunk' = << >>
                   /\ UNCHANGED <<m_read_error, received>>
    /\ UNCHANGED <<option, writer, wire>>

Next ==
    \/ \E length \in 0 .. MAX_LENGTH : write_handle(length)
    \/ close
    \/ \E nread \in 1 .. Len(wire) : on_read(nread)
    \/ on_read_end
    \/ read_raw
    \/ read_head_part
    \/ read_head_refused
    \/ read_body

Spec == Init /\ [][Next]_vars

-----------------------------------------------------------------------------
\* Type invariant of the framing.
TypeOK ==
    /\ option \in HeadOptions
    /\ sent \in BoundedSeq(1 .. MAX_LENGTH, MAX_SENT)
    /\ shut \in BOOLEAN
    /\ Len(m_read_head_buffer) <= option.bytes
    /\ Len(m_read_buffer.data) <= m_read_buffer.cap
    /\ m_read_error \in {"OK", "EOF", "EMSGSIZE"}

Bodies == [n \in 1 .. Len(sent) |-> Body(n)]

\* However the stream is cut into pieces, whatever the width and the order of
\* the head (write_read_buffer, on_read_alloc): the packets that come out are
\* the first of those that went in, with the same bytes and the same limits
\* (without a head the same bytes), and at the end of the stream all of them.
PacketsIntact ==
    LET in  == IF option.bytes = 0 THEN FlattenSeq(Bodies) ELSE Bodies
        out == IF option.bytes = 0 THEN FlattenSeq(received) ELSE received
    IN  /\ IsPrefix(out, in)
        /\ m_read_error = "EOF" => out = in

\* The reader takes every packet the writer's option lets through: "head byte
\* width: 0, 1, 2, or 4" and a maximum of the whole range of the width are
\* what set_rwopt offers (uv_tcp_handle.h, the README's read_head_max of 65535
\* for two bytes).
PacketsAccepted == m_read_error # "EMSGSIZE"
=============================================================================
