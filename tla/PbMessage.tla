------------------------------ MODULE PbMessage ------------------------------
(***************************************************************************)
(* Messages of pbc: a Lua table is encoded (protobuf.lua, pbc-lua.c,       *)
(* wmessage.c) and the bytes are read in the two ways there are: field by  *)
(* field through a reader (rmessage.c) and into a table through a callback *)
(* for each field (decode.c).  The reader may know the message by another  *)
(* type, with other fields than the writer's: a newer or an older one.     *)
(*                                                                         *)
(* A value is a record of a number, of a string or the name of a constant, *)
(* and of a message; only the part its field uses is set.  In a Lua table  *)
(* a key has the sequence of its values, one if its field is not repeated. *)
(***************************************************************************)
EXTENDS PbWire, PbMap

CONSTANTS Message,         \* the fields of each message type
          Enum,            \* the constants of each enumeration
          Documents,       \* what is encoded: [type, t], and as what it is read
          WMESSAGE_SIZE,   \* first size of a buffer
          INNER_FIELD      \* values that an array has room for by itself

ASSUME MessageAssumption == WMESSAGE_SIZE \in Nat \ {0} /\ INNER_FIELD \in Nat \ {0}

VARIABLES doc,        \* the document
          stage,      \* encoding, encoded, failed, crashed or read
          frames,      \* calls of encode_message: a key and its values left
          messages,   \* struct pbc_wmessage: 1 is the root
          bytes,      \* what the encoder gives
          read,       \* what the reader answers for each key
          decoded     \* the table that decode makes
vars == <<doc, stage, frames, messages, bytes, read, decoded>>

V(n, s, t) == [n |-> n, s |-> s, t |-> t]

EnumType == [name \in DOMAIN Enum |->
    [id |-> _pbcM_ip_new(Enum[name]), name |-> _pbcM_si_new(Enum[name])]]
Constant(enum, name) ==
    V(Long(_pbcM_si_query(EnumType[enum].name, name) % WORD, 0), name, NULL)
Extended(low) == Long(low, IF Negative(low) THEN WORD - 1 ELSE 0)

\* The default of a field from what its descriptor says, or does not say.
_set_default(f) ==
    CASE f.type = "enum" ->
            Constant(f.type_name, IF f.default = NULL THEN Enum[f.type_name][1].pointer
                                  ELSE f.default.s)
      [] f.type # "enum" /\ (f.default = NULL \/ f.type \in {"bytes", "message", "fixed64"}) ->
            V(Zero, << >>, NULL)
      [] f.type \in {"int32", "fixed32", "sfixed32", "sint32"} /\ f.default # NULL ->
            V(Extended(f.default.n.low), << >>, NULL)
      [] OTHER -> f.default

\* The tables of a type: its fields by number and by name.
TypeOf(fields) ==
    [id   |-> _pbcM_ip_new([i \in DOMAIN fields |->
                               [id |-> fields[i].id, pointer |-> fields[i]]]),
     name |-> FoldLeft(LAMBDA map, f : _pbcM_sp_insert(map, f.name, f),
                       _pbcM_sp_new(0), fields)]
Type == [name \in DOMAIN Message |->
    TypeOf([i \in DOMAIN Message[name] |->
              [Message[name][i] EXCEPT !.default = _set_default(Message[name][i])]])]
Field(type, key) == _pbcM_sp_query(Type[type].name, key)
Repeated(f) == f.label \in {"repeated", "packed"}

\* The kind of Lua value that a field has.
_pbcP_type(f) ==
    CASE f.type \in {"double", "float"}    -> "real"
      [] f.type \in {"int64", "sint64"}    -> "int64"
      [] f.type \in {"int32", "sint32"}    -> "int"
      [] f.type \in {"uint32", "uint64"}   -> "uint"
      [] f.type \in {"fixed32", "sfixed32"} -> "fixed32"
      [] f.type \in {"fixed64", "sfixed64"} -> "fixed64"
      [] OTHER -> f.type

Truth(low) == Long(IF low = 0 THEN 0 ELSE 1, 0)

\* What Lua passes for a number, and what it gets back for a value.
Number(kind, n) ==
    CASE kind = "int"     -> Extended(n.low)
      [] kind = "bool"    -> Truth(n.low)
      [] kind = "fixed32" -> Long(n.low, 0)
      [] OTHER            -> n
LuaValue(f, v) ==
    IF f.type \in {"enum", "string", "bytes"} THEN V(Zero, v.s, NULL)
    ELSE V(Number(_pbcP_type(f), v.n), << >>, NULL)

(***************************************************************************)
(* Arrays (array.c): the first values are in the array itself.             *)
(***************************************************************************)
NewArray == [cap |-> INNER_FIELD, v |-> << >>]
Powers == {2^k : k \in 0 .. 10}

_pbcA_push(a, value) ==
    LET n == Len(a.v)
    IN [cap |-> CASE n = INNER_FIELD -> CHOOSE c \in Powers : c > n + 1 /\ c \div 2 <= n + 1
                  [] n > INNER_FIELD /\ n + 1 \in Powers -> 2 * (n + 1)
                  [] OTHER -> a.cap,
        v |-> Append(a.v, value)]

(***************************************************************************)
(* Writing (wmessage.c).  Bytes went past the end of the buffer: over, and *)
(* spilt if they were those of a packed field of 32 bits.                  *)
(***************************************************************************)
_wmessage_new(type) ==
    [type |-> type, buffer |-> << >>, cap |-> WMESSAGE_SIZE, sub |-> << >>,
     packed |-> NULL, over |-> FALSE, spilt |-> FALSE]

RECURSIVE Doubled(_, _)
Doubled(cap, sz) == IF sz > cap THEN Doubled(2 * cap, sz) ELSE cap

\* Mutated form of _expand_message: the buffer is doubled once, whatever it needs.
_expand_message_once(m, sz) ==
    IF Len(m.buffer) + sz > m.cap THEN [m EXCEPT !.cap = 2 * @] ELSE m

_expand_message(m, sz) ==
    IF Len(m.buffer) + sz > m.cap
    THEN [m EXCEPT !.cap = Doubled(2 * @, Len(m.buffer) + sz)] ELSE m

Put(m, b) ==
    [m EXCEPT !.buffer = @ \o b, !.over = @ \/ Len(m.buffer) + Len(b) > m.cap]

Tag(f, wire) == encode32(f.id * 8 + wire)
Wire(type) == CASE type \in Bits64 -> WT_BIT64 [] type \in Bits32 -> WT_BIT32
                [] type \in Varints -> WT_VARINT [] type \in Slices -> WT_LEND

Encoded(type, n) ==
    CASE type \in {"int64", "uint64", "int32"} -> encode(n)
      [] type \in {"uint32", "enum", "bool"} -> encode32(n.low)
      [] type \in Bits64   -> int64_encode(n)
      [] type \in Bits32   -> int32_encode(n.low)
      [] type = "sint32"   -> zigzag32(n.low)
      [] type = "sint64"   -> zigzag(n)

\* A value of a packed field waits for the others.
WithValue(r, f, n) ==
    LET there == r.map.slot[r.at].pointer
        packed == IF there = NULL THEN [f |-> f, data |-> NewArray] ELSE there
    IN [r.map EXCEPT !.slot[r.at].pointer = [packed EXCEPT !.data = _pbcA_push(@, n)]]
_packed(m, f, n) ==
    [m EXCEPT !.packed =
        WithValue(_pbcM_sp_query_insert(IF @ = NULL THEN _pbcM_sp_new(4) ELSE @, f.name),
                  f, n)]

pbc_wmessage_integer(m, f, n) ==
    IF f.label = "packed" THEN _packed(m, f, n)
    ELSE Put(Put(_expand_message(m, 20), Tag(f, Wire(f.type))), Encoded(f.type, n))

pbc_wmessage_real(m, f, n) ==
    IF f.label = "packed" THEN _packed(m, f, n)
    ELSE Put(Put(_expand_message(m, 18), Tag(f, Wire(f.type))), Encoded(f.type, n))

\* The default of an optional enumeration is not written.
pbc_wmessage_enum(m, f, name) ==
    LET id == Constant(f.type_name, name).n
    IN  CASE f.label = "packed" -> _packed(m, f, id)
          [] f.label = "optional" /\ name = f.default.s -> m
          [] OTHER -> Put(Put(_expand_message(m, 20), Tag(f, WT_VARINT)), encode32(id.low))

pbc_wmessage_string(m, f, s) ==
    Put(_expand_message(Put(Put(_expand_message(m, 20), Tag(f, WT_LEND)),
                            encode32(Len(s))), Len(s)), s)

_pack_packed_64(m, p) ==
    LET len == 8 * Len(p.data.v)
    IN Put(Put(_expand_message(m, 10 + len), encode32(len)),
           FlattenSeq([i \in DOMAIN p.data.v |-> int64_encode(p.data.v[i])]))

\* Value i goes to byte 8 * i of room for 4 bytes a value: the bytes of the
\* first half of the values, with gaps that nobody has written (any fill), and
\* the others past them.
_pack_packed_32(m, p, fill) ==
    LET n == Len(p.data.v)
        r == Put(_expand_message(m, 10 + 4 * n), encode32(4 * n))
        Byte(i) == IF (i - 1) % 8 < 4
                   THEN int32_encode(p.data.v[((i - 1) \div 8) + 1].low)[((i - 1) % 8) + 1]
                   ELSE fill
    IN [Put(r, [i \in 1 .. 4 * n |-> Byte(i)])
           EXCEPT !.spilt = @ \/ Len(r.buffer) + 8 * n - 4 > r.cap]

\* The length is guessed and the bytes of a wrong guess are replaced, which
\* moves the values if it takes more bytes, or fewer.
Moved(m, offset, guess, header, packed) ==
    Put([IF Len(header) = Len(guess) THEN m ELSE _expand_message(m, Len(header))
            EXCEPT !.buffer = SubSeq(@, 1, offset)],
        header \o packed)
Headed(m, offset, guess) ==
    LET packed == SubSeq(m.buffer, offset + Len(guess) + 1, Len(m.buffer))
    IN Moved(m, offset, guess, encode32(Len(packed)), packed)
\* A packed int32 keeps its low word only.
EncodedPacked(type, n) == IF type = "int32" THEN encode32(n.low) ELSE Encoded(type, n)
Guessed(m, p, len, guess) ==
    Headed(FoldLeft(LAMBDA r, v : Put(_expand_message(r, 10), EncodedPacked(p.f.type, v)),
                    Put(_expand_message(m, 10 + len), guess), p.data.v),
           Len(m.buffer), guess)
\* Mutated form of _pack_packed_varint: the guess stays.
_pack_packed_varint_guess(m, p) ==
    FoldLeft(LAMBDA r, v : Put(_expand_message(r, 10), EncodedPacked(p.f.type, v)),
             Put(_expand_message(m, 10 + 2 * Len(p.data.v)), encode32(2 * Len(p.data.v))),
             p.data.v)

_pack_packed_varint(m, p) ==
    LET len == IF p.f.type = "bool" THEN Len(p.data.v) ELSE 2 * Len(p.data.v)
    IN Guessed(m, p, len, encode32(len))

_pack_packed(m, p, fill) ==
    LET r == Put(_expand_message(m, 10), Tag(p.f, WT_LEND))
    IN  CASE p.f.type \in Bits64 -> _pack_packed_64(r, p)
          [] p.f.type \in Bits32 -> _pack_packed_32(r, p, fill)
          [] p.f.type \in Varints -> _pack_packed_varint(r, p)

\* The packed fields come after the others, then the messages inside.
RECURSIVE pbc_wmessage_buffer(_, _, _)
pbc_wmessage_buffer(ms, w, fill) ==
    LET m == ms[w]
        packed == IF m.packed = NULL THEN m
                  ELSE FoldLeft(LAMBDA r, p : _pack_packed(r, p, fill), m,
                                _pbcM_sp_foreach_ud(m.packed))
        AddSub(r, sub) ==
            LET s == pbc_wmessage_buffer(ms, sub.w, fill)
            IN Put([_expand_message(r, 20 + Len(s.buffer))
                       EXCEPT !.over = @ \/ s.over, !.spilt = @ \/ s.spilt],
                   Tag(sub.f, WT_LEND) \o encode32(Len(s.buffer)) \o s.buffer)
    IN FoldLeft(AddSub, packed, m.sub)

(***************************************************************************)
(* Encoding a table (protobuf.lua): its keys in any order.                 *)
(***************************************************************************)
Frame(w, t) == [w |-> w, t |-> t, left |-> DOMAIN t, key |-> NULL, rest |-> << >>]
Top == frames[Len(frames)]
Rest(frame) == Append(Front(frames), frame)

Init ==
    /\ doc \in Documents
    /\ stage = "encoding"
    /\ messages = <<_wmessage_new(doc.type)>>
    /\ frames = <<Frame(1, doc.t)>>
    /\ bytes = << >> /\ read = NULL /\ decoded = NULL

\* The next key of the table, which the type has to have; to look for the empty
\* one may crash (PbMap).
encode_type(key) ==
    /\ stage = "encoding" /\ frames # << >> /\ Top.rest = << >> /\ key \in Top.left
    /\ LET f == Field(messages[Top.w].type, key)
       IN  \/ f = NULL /\ stage' = "failed" /\ UNCHANGED frames
           \/ f = CRASHED /\ stage' = "crashed" /\ UNCHANGED frames
           \/ /\ f \notin {NULL, CRASHED}
              /\ frames' = Rest([Top EXCEPT !.left = @ \ {key}, !.key = key,
                                            !.rest = Top.t[key]])
              /\ UNCHANGED stage
    /\ UNCHANGED <<doc, messages, bytes, read, decoded>>

\* One value of the key is written; a name no constant has is an error.
writer ==
    LET m == messages[Top.w]
        f == Field(m.type, Top.key)
        v == Head(Top.rest)
        n == Number(_pbcP_type(f), v.n)
        Unknown == /\ f.type = "enum"
                   /\ _pbcM_si_query(EnumType[f.type_name].name, v.s) = NULL
    IN  /\ stage = "encoding" /\ frames # << >> /\ Top.rest # << >> /\ f.type # "message"
        /\ stage' = IF Unknown THEN "failed" ELSE stage
        /\ frames' = Rest([Top EXCEPT !.rest = Tail(@)])
        /\ messages' = [messages EXCEPT ![Top.w] =
              CASE Unknown -> m
                [] f.type \in {"string", "bytes"} -> pbc_wmessage_string(m, f, v.s)
                [] f.type = "enum" /\ ~Unknown -> pbc_wmessage_enum(m, f, v.s)
                [] f.type \in {"double", "float"} -> pbc_wmessage_real(m, f, n)
                [] OTHER -> pbc_wmessage_integer(m, f, n)]
        /\ UNCHANGED <<doc, bytes, read, decoded>>

\* A message inside has a buffer of its own, and is encoded next.
pbc_wmessage_message ==
    LET f == Field(messages[Top.w].type, Top.key)
        w == Len(messages) + 1
    IN  /\ stage = "encoding" /\ frames # << >> /\ Top.rest # << >> /\ f.type = "message"
        /\ messages' = Append([messages EXCEPT ![Top.w].sub =
                                  Append(@, [w |-> w, f |-> f])],
                              _wmessage_new(f.type_name))
        /\ frames' = Append(Rest([Top EXCEPT !.rest = Tail(@)]),
                           Frame(w, Head(Top.rest).t))
        /\ UNCHANGED <<doc, stage, bytes, read, decoded>>

encode_message_end ==
    /\ stage = "encoding" /\ frames # << >> /\ Top.left = {} /\ Top.rest = << >>
    /\ frames' = Front(frames)
    /\ UNCHANGED <<doc, stage, messages, bytes, read, decoded>>

wmessage_buffer ==
    /\ stage = "encoding" /\ frames = << >>
    /\ \E fill \in {0, 1} : messages' =
          [messages EXCEPT ![1] = pbc_wmessage_buffer(messages, 1, fill)]
    /\ bytes' = messages'[1].buffer
    /\ stage' = "encoded"
    /\ UNCHANGED <<doc, frames, read, decoded>>

(***************************************************************************)
(* Reading (rmessage.c): the fields of the bytes by name.                  *)
(***************************************************************************)
EnumName(f, low) ==
    _pbcM_ip_query(EnumType[f.type_name].id, IF Negative(low) THEN low - WORD ELSE low)

\* A value of the atom that is no message; NULL if it must be a slice and
\* is none.
read_value(f, a, b) ==
    CASE f.type \in Slices /\ a.wire # WT_LEND -> NULL
      [] f.type \in {"string", "bytes"} /\ a.wire = WT_LEND -> V(Zero, Slice(b, a), NULL)
      [] f.type = "enum"    -> V(Zero, EnumName(f, a.v.low), NULL)
      [] f.type = "sint32"  -> V(dezigzag32(a.v), << >>, NULL)
      [] f.type = "sint64"  -> V(dezigzag64(a.v), << >>, NULL)
      [] OTHER              -> V(a.v, << >>, NULL)
ReadValue(f, a, b, NewMessage(_, _)) ==
    IF f.type = "message" /\ a.wire = WT_LEND
    THEN V(Zero, << >>, NewMessage(f.type_name, Slice(b, a)))
    ELSE read_value(f, a, b)

Unpacked(f, array) ==
    [i \in DOMAIN array.v |->
        IF f.type = "enum" THEN V(Zero, EnumName(f, array.v[i].low), NULL)
        ELSE V(array.v[i], << >>, NULL)]

\* The array of a repeated field; it leaves the index when it stays empty.
\* Other fields are inserted each time they appear.
Stored(r, array) ==
    [r.map EXCEPT !.slot[r.at].pointer = IF array.v = << >> THEN NULL ELSE array]
Pushed(array, f, a, b, value) ==
    CASE f.label = "packed" ->
            FoldLeft(_pbcA_push, array,
                     Unpacked(f, _pbcP_unpack_packed(Slice(b, a), f.type)))
      [] f.label # "packed" /\ value = NULL -> array
      [] OTHER -> _pbcA_push(array, value)
Extend(r, f, a, b, value) ==
    LET there == r.map.slot[r.at].pointer
    IN Stored(r, Pushed(IF there = NULL THEN NewArray ELSE there, f, a, b, value))
AddAtom(index, f, a, b, value) ==
    CASE Repeated(f) -> Extend(_pbcM_sp_query_insert(index, f.name), f, a, b, value)
      [] ~Repeated(f) /\ value = NULL -> index
      [] OTHER -> _pbcM_sp_insert(index, f.name, [NewArray EXCEPT !.v = <<value>>])

RECURSIVE _pbc_rmessage_new(_, _)
IndexAtom(index, f, a, b) ==
    IF f = NULL THEN index
    ELSE AddAtom(index, f, a, b, IF f.label = "packed" THEN NULL
                                 ELSE ReadValue(f, a, b, _pbc_rmessage_new))
Indexed(type, b, ctx) ==
    CASE b = << >> -> [msg |-> type, index |-> _pbcM_sp_new(0)]
      [] b # << >> /\ ctx.number <= 0 -> [msg |-> NULL, index |-> NULL]
      [] OTHER ->
            [msg |-> type,
             index |-> FoldLeft(LAMBDA index, a :
                                    IndexAtom(index, _pbcM_ip_query(Type[type].id, a.id), a, b),
                                _pbcM_sp_new(ctx.number), ctx.a)]
_pbc_rmessage_new(type, b) == Indexed(type, b, _pbcC_open(b))

pbc_rmessage_size(m, key) ==
    LET v == _pbcM_sp_query(m.index, key) IN IF v = NULL THEN 0 ELSE Len(v.v)

\* A value of the field; the default of the field if it has none.
pbc_rmessage_value(m, key, i) ==
    LET v == _pbcM_sp_query(m.index, key)
    IN IF v = NULL THEN Field(m.msg, key).default ELSE v.v[i]

\* A message that is not there is one without fields.
pbc_rmessage_message(m, key, i) ==
    LET v == _pbcM_sp_query(m.index, key)
    IN IF v = NULL THEN [msg |-> Field(m.msg, key).type_name, index |-> NULL] ELSE v.v[i].t

\* What the reader answers for every key.
RECURSIVE _reader(_)
_reader(m) ==
    [key \in {f.name : f \in ToSet(Message[m.msg])} |->
        LET f == Field(m.msg, key)
        IN [i \in 1 .. IF Repeated(f) THEN pbc_rmessage_size(m, key) ELSE 1 |->
              IF f.type = "message" THEN V(Zero, << >>, _reader(pbc_rmessage_message(m, key, i)))
              ELSE LuaValue(f, pbc_rmessage_value(m, key, i))]]

(***************************************************************************)
(* Decoding (decode.c, decode_cb of pbc-lua.c): a callback for each field. *)
(* A message inside is decoded when it is first used.                      *)
(***************************************************************************)
Set(t, key, values) == [k \in DOMAIN t \union {key} |-> IF k = key THEN values ELSE t[k]]

decode_cb(t, f, values) ==
    Set(t, f.name, IF Repeated(f) /\ f.name \in DOMAIN t THEN t[f.name] \o values
                   ELSE values)

\* The table, or NULL; keys it lacks are read from an empty message.
RECURSIVE pbc_decode(_, _)
call_type(t, f, v) ==
    CASE v = NULL -> NULL
      [] v # NULL /\ f.type = "message" -> decode_cb(t, f, <<v>>)
      [] OTHER -> decode_cb(t, f, <<LuaValue(f, v)>>)
Values(f, vs) == [i \in DOMAIN vs |-> LuaValue(f, vs[i])]
call_array(t, f, array) ==
    IF array.n < 0 THEN NULL ELSE decode_cb(t, f, Values(f, Unpacked(f, array)))
call_field(t, f, a, b) ==
    CASE t = NULL \/ f = NULL -> t
      [] t # NULL /\ f # NULL /\ f.label = "packed" ->
            call_array(t, f, _pbcP_unpack_packed(Slice(b, a), f.type))
      [] OTHER -> call_type(t, f, ReadValue(f, a, b, pbc_decode))
Filled(table, default) ==
    IF table = NULL THEN NULL
    ELSE [key \in DOMAIN default |->
            IF key \in DOMAIN table THEN table[key] ELSE default[key]]
Called(type, b, ctx) ==
    IF b # << >> /\ ctx.number <= 0 THEN NULL
    ELSE Filled(FoldLeft(LAMBDA t, a :
                             call_field(t, _pbcM_ip_query(Type[type].id, a.id), a, b),
                         << >>, ctx.a),
                _reader([msg |-> type, index |-> _pbcM_sp_new(0)]))
pbc_decode(type, b) == Called(type, b, _pbcC_open(b))

Reader(m) == IF m.msg = NULL THEN NULL ELSE _reader(m)
rmessage_new ==
    /\ stage = "encoded"
    /\ read' = Reader(_pbc_rmessage_new(doc.as, bytes))
    /\ decoded' = pbc_decode(doc.as, bytes)
    /\ stage' = "read"
    /\ UNCHANGED <<doc, frames, messages, bytes>>

Next ==
    \/ \E key \in IF stage = "encoding" /\ frames # << >> THEN Top.left ELSE {} :
          encode_type(key)
    \/ writer \/ pbc_wmessage_message \/ encode_message_end
    \/ wmessage_buffer \/ rmessage_new

Spec == Init /\ [][Next]_vars

(***************************************************************************)
(* What was written, as a reader of the type has to see it.                *)
(***************************************************************************)
Declared(f) ==
    CASE f.default # NULL -> f.default
      [] f.default = NULL /\ f.type = "enum" -> V(Zero, Enum[f.type_name][1].pointer, NULL)
      [] OTHER -> V(Zero, << >>, NULL)

RECURSIVE Seen(_, _)
Seen(type, t) ==
    [key \in {f.name : f \in ToSet(Message[type])} |->
        LET f == CHOOSE f \in ToSet(Message[type]) : f.name = key
            given == IF key \in DOMAIN t THEN t[key] ELSE << >>
        IN  CASE given = << >> /\ Repeated(f) -> << >>
              [] given = << >> /\ ~Repeated(f) /\ f.type # "message" ->
                    <<LuaValue(f, Declared(f))>>
              [] given = << >> /\ ~Repeated(f) /\ f.type = "message" ->
                    <<V(Zero, << >>, Seen(f.type_name, << >>))>>
              [] given # << >> /\ f.type = "message" ->
                    [i \in DOMAIN given |-> V(Zero, << >>, Seen(f.type_name, given[i].t))]
              [] OTHER -> given]

\* The bytes are the encoder's, not a pattern's.
ByEncoder == bytes = messages[1].buffer

\* A packed field of 32 bits whose values the encoder puts in each other's place
\* (_pack_packed_32): the first value is right, the others are not.
Garbled(f, values) ==
    ByEncoder /\ f.label = "packed" /\ f.type \in Bits32 /\ Len(values) > 1

\* What is left of a message without them.
RECURSIVE Legible(_, _)
Legible(type, table) ==
    LET FieldAt(key) == CHOOSE f \in ToSet(Message[type]) : f.name = key
    IN IF table = NULL THEN NULL
       ELSE [key \in {k \in DOMAIN table : ~Garbled(FieldAt(k), table[k])} |->
               IF FieldAt(key).type # "message" THEN table[key]
               ELSE [i \in DOMAIN table[key] |->
                       V(Zero, << >>, Legible(FieldAt(key).type_name, table[key][i].t))]]

\* In whatever order the keys of a table are written, both ways of reading it, by
\* its own type or by one with other fields, give what was written, and the
\* defaults of what was not: for every field and in every message inside, but for
\* packed fields of 32 bits with two values or more, of which the encoder makes
\* something else (Garbled).
MessageExact ==
    stage = "read" => \A table \in {read, decoded} :
        Legible(doc.as, table) = Legible(doc.as, Seen(doc.as, doc.t))

\* No value but those of packed fields of 32 bits (spilt) is written past the end
\* of a buffer, however it grew, nor a value of an array past the room it has.
WithinBuffer ==
    \A w \in DOMAIN messages :
        LET m == messages[w]
        IN  /\ ~m.over
            /\ m.packed # NULL => \A p \in ToSet(_pbcM_sp_foreach_ud(m.packed)) :
                                    Len(p.data.v) <= p.data.cap
=============================================================================
