------------------------------ MODULE PbPattern ------------------------------
(***************************************************************************)
(* Patterns of pbc (pattern.c, pack and unpack of protobuf.lua): the       *)
(* values of given keys are packed into a message, or taken out of one, by *)
(* position.  They join the two other ways of reading, PbMessage: bytes    *)
(* come from the encoder or from a pattern, and are read in all ways.      *)
(*                                                                         *)
(* A pattern takes enumerations as numbers and gives messages as bytes.    *)
(***************************************************************************)
EXTENDS PbMessage

CONSTANTS PATTERN_CAP     \* first room for the bytes of a pack

\* No key is the empty name, for which the lookup may crash (PbMap).
ASSUME PatternAssumption ==
    /\ PATTERN_CAP \in Nat \ {0}
    /\ \A d \in Documents : \A i \in DOMAIN d.keys : calc_hash(d.keys[i]) # 0

VARIABLES unpacked         \* what unpack gives for the keys of doc.keys

_ctype(f) ==
    CASE f.label = "repeated" -> "array"
      [] f.label = "packed"   -> "packed"
      [] ~Repeated(f) /\ _pbcP_type(f) = "real" -> "double"
      [] ~Repeated(f) /\ _pbcP_type(f) \in {"int", "bool", "enum", "fixed32"} -> "int32"
      [] ~Repeated(f) /\ _pbcP_type(f) \in {"int64", "uint", "fixed64"} -> "int64"
      [] ~Repeated(f) /\ f.type \in Slices -> "var"

\* Mutated form of _pattern_new: the fields stay in the order of the keys.
_pattern_new_unsorted(type, keys) ==
    IF \E i \in DOMAIN keys : Field(type, keys[i]) = NULL THEN NULL
    ELSE [i \in DOMAIN keys |-> LET f == Field(type, keys[i])
                                IN [f |-> f, ctype |-> _ctype(f), at |-> i]]

\* The fields of the keys in the order of their numbers; NULL if a key is
\* not in the type.
_pattern_new(type, keys) ==
    LET Of(i) == LET f == Field(type, keys[i]) IN [f |-> f, ctype |-> _ctype(f), at |-> i]
    IN IF \E i \in DOMAIN keys : Field(type, keys[i]) = NULL THEN NULL
       ELSE SortSeq([i \in DOMAIN keys |-> Of(i)], LAMBDA p, q : p.f.id < q.f.id)

\* What memory of the type keeps of a number, and Lua gets or gives.
Kept(ctype, n) == IF ctype = "int32" THEN Long(n.low, 0) ELSE n
PatternNumber(f, n) ==
    IF f.type = "enum" THEN Extended(n.low) ELSE Number(_pbcP_type(f), n)

(***************************************************************************)
(* Packing.  A slice is the bytes written and the room left; NULL stands   *)
(* for the error that there is no room.                                    *)
(***************************************************************************)
_pack_bytes(s, b) ==
    IF s = NULL \/ Len(b) > s.room THEN NULL
    ELSE [room |-> s.room - Len(b), out |-> s.out \o b]

_pack_number(pf, ctype, s, v) == _pack_bytes(s, Encoded(pf.f.type, Kept(ctype, v.n)))

_pack_field(pf, ctype, s, v) ==
    LET tagged == _pack_bytes(s, Tag(pf.f, Wire(pf.f.type)))
    IN IF pf.f.type \in Slices
       THEN _pack_bytes(_pack_bytes(tagged, encode32(Len(v.s))), v.s)
       ELSE _pack_number(pf, ctype, tagged, v)

\* The room is checked without the length that is already out of it.
_pattern_packed_fixed(pf, width, s, array) ==
    LET len == encode32(Len(array) * width)
        s1 == _pack_bytes(s, len)
    IN IF s1 = NULL THEN NULL
       ELSE IF s1.room - Len(len) < Len(array) * width THEN NULL
       ELSE FoldLeft(LAMBDA r, v : _pack_number(pf, "var", r, v), s1, array)

\* The length is first guessed to be one byte for a value.
Replaced(s, guess, values) ==
    LET packed == SubSeq(values.out, Len(s.out) + Len(guess) + 1, Len(values.out))
    IN IF values = NULL THEN NULL ELSE _pack_bytes(s, encode32(Len(packed)) \o packed)
_pattern_packed_varint(pf, s, array) ==
    LET guess == encode32(Len(array))
    IN IF s = NULL THEN NULL
       ELSE Replaced(s, guess, FoldLeft(LAMBDA r, v : _pack_number(pf, "var", r, v),
                                        _pack_bytes(s, guess), array))

_pattern_packed(pf, s, array) ==
    LET tagged == _pack_bytes(s, Tag(pf.f, WT_LEND))
    IN  CASE array = << >> -> s
          [] array # << >> /\ pf.f.type \in Bits64 -> _pattern_packed_fixed(pf, 8, tagged, array)
          [] array # << >> /\ pf.f.type \in Bits32 -> _pattern_packed_fixed(pf, 4, tagged, array)
          [] OTHER -> _pattern_packed_varint(pf, tagged, array)

_is_default(pf, v) ==
    CASE pf.ctype = "int32" -> pf.f.default.n.low = v.n.low
      [] pf.ctype \in {"int64", "double"} -> pf.f.default.n = v.n
      [] pf.f.type = "string" -> pf.f.default.s = v.s
      [] OTHER -> FALSE

\* data has the values of each key.
pbc_pattern_pack(pat, data, room) ==
    LET Pack(s, pf) ==
            LET values == data[pf.at]
            IN  CASE pf.f.label = "optional" /\ _is_default(pf, values[1]) -> s
                  [] pf.f.label = "repeated" ->
                        FoldLeft(LAMBDA r, v : _pack_field(pf, "var", r, v), s, values)
                  [] pf.f.label = "packed" -> _pattern_packed(pf, s, values)
                  [] OTHER -> _pack_field(pf, pf.ctype, s, values[1])
    IN FoldLeft(Pack, [room |-> room, out |-> << >>], pat)

\* The room doubles until the message fits.
RECURSIVE _pattern_pack(_, _, _)
Fitting(s, pat, data, cap) ==
    IF s = NULL THEN _pattern_pack(pat, data, 2 * cap) ELSE s.out
_pattern_pack(pat, data, cap) ==
    Fitting(pbc_pattern_pack(pat, data, cap), pat, data, cap)

(***************************************************************************)
(* Unpacking.                                                              *)
(***************************************************************************)
bsearch_pattern(pat, id) ==
    LET RECURSIVE Search(_, _)
        Search(begin, end) ==
            LET mid == (begin + end) \div 2
                f == pat[mid + 1]
            IN  CASE begin >= end -> NULL
                  [] begin < end /\ id = f.f.id -> f
                  [] begin < end /\ id < f.f.id -> Search(begin, mid)
                  [] OTHER -> Search(mid + 1, end)
    IN Search(0, Len(pat))

\* A value for memory of the type, NULL if the atom has another form: for
\* sint64 too, which is taken for a slice.
unpack_field(pf, ctype, a, b) ==
    IF pf.f.type \in Slices \union {"sint64"} /\ a.wire # WT_LEND THEN NULL
    ELSE CASE pf.f.type \in Slices -> V(Zero, Slice(b, a), NULL)
           [] pf.f.type = "sint32" -> V(Kept(ctype, dezigzag32(a.v)), << >>, NULL)
           [] pf.f.type = "sint64" -> V(Kept(ctype, dezigzag64(a.v)), << >>, NULL)
           [] OTHER                -> V(Kept(ctype, a.v), << >>, NULL)

\* What a repeated field has so far, or NULL, and what the atom adds.
Joined(out, array) ==
    IF array.n < 0 THEN NULL
    ELSE out \o [i \in DOMAIN array.v |-> V(array.v[i], << >>, NULL)]
unpack_array(pf, out, a, b) ==
    LET More(v) == IF v = NULL THEN NULL ELSE Append(out, v)
    IN IF pf.ctype = "packed"
       THEN Joined(out, _pbcP_unpack_packed(Slice(b, a), pf.f.type))
       ELSE More(unpack_field(pf, "var", a, b))

_pattern_set_default(pf) == IF Repeated(pf.f) THEN << >> ELSE <<pf.f.default>>

\* What each key of the pattern has, NULL if an atom does not fit.
Added(output, at, value) == IF value = NULL THEN NULL ELSE [output EXCEPT ![at] = value]
UnpackInto(output, pf, a, b) ==
    LET now == IF output[pf.at] = NULL THEN << >> ELSE output[pf.at]
        Single(v) == IF v = NULL THEN NULL ELSE <<v>>
    IN IF output = NULL \/ pf = NULL THEN output
       ELSE Added(output, pf.at, IF Repeated(pf.f) THEN unpack_array(pf, now, a, b)
                                 ELSE Single(unpack_field(pf, pf.ctype, a, b)))
WithDefaults(pat, output) ==
    LET At(i) == CHOOSE pf \in ToSet(pat) : pf.at = i
    IN IF output = NULL THEN NULL
       ELSE [i \in DOMAIN pat |->
               IF output[i] = NULL THEN _pattern_set_default(At(i)) ELSE output[i]]
UnpackAll(pat, b, ctx) ==
    LET Unpack(output, a) == UnpackInto(output, bsearch_pattern(pat, a.id), a, b)
    IN IF b # << >> /\ ctx.number <= 0 THEN NULL
       ELSE WithDefaults(pat, FoldLeft(Unpack, [i \in DOMAIN pat |-> NULL], ctx.a))
pbc_pattern_unpack(pat, b) == UnpackAll(pat, b, _pbcC_open(b))

\* The values for Lua.
_push_value(f, v) ==
    IF f.type \in Slices THEN V(Zero, v.s, NULL) ELSE V(PatternNumber(f, v.n), << >>, NULL)

(***************************************************************************)
(* The machine.                                                            *)
(***************************************************************************)
patternVars == <<vars, unpacked>>

\* How Lua gives a value to a pattern.
Given(f, v) ==
    CASE f.type \in {"string", "bytes"} -> v
      [] f.type = "enum" -> V(Extended(Constant(f.type_name, v.s).n.low), << >>, NULL)
      [] OTHER -> V(PatternNumber(f, v.n), << >>, NULL)

PatternInit == Init /\ unpacked = NULL

Data == [i \in DOMAIN doc.keys |->
            [j \in DOMAIN doc.t[doc.keys[i]] |->
                Given(Field(doc.type, doc.keys[i]), doc.t[doc.keys[i]][j])]]
PackWith(pat) ==
    IF pat = NULL THEN stage' = "failed" /\ UNCHANGED <<frames, bytes>>
    ELSE /\ bytes' = _pattern_pack(pat, Data, PATTERN_CAP)
         /\ stage' = "encoded" /\ frames' = << >>

\* Instead of encoding, if the pattern has all the keys of the table.
pattern_pack ==
    /\ stage = "encoding" /\ frames = <<Frame(1, doc.t)>>
    /\ doc.keys # << >> /\ ToSet(doc.keys) = DOMAIN doc.t
    /\ PackWith(_pattern_new(doc.type, doc.keys))
    /\ UNCHANGED <<doc, messages, read, decoded, unpacked>>

_pattern_unpack(output) ==
    IF output = NULL THEN NULL
    ELSE [i \in DOMAIN output |->
            [j \in DOMAIN output[i] |->
               _push_value(Field(doc.as, doc.keys[i]), output[i][j])]]

pattern_unpack ==
    LET pat == _pattern_new(doc.as, doc.keys)
    IN  /\ stage = "read" /\ doc.keys # << >> /\ pat # NULL
        /\ unpacked' = _pattern_unpack(pbc_pattern_unpack(pat, bytes))
        /\ stage' = "unpacked"
        /\ UNCHANGED <<doc, frames, messages, bytes, read, decoded>>

PatternNext == \/ Next /\ UNCHANGED unpacked
               \/ pattern_pack \/ pattern_unpack

PatternSpec == PatternInit /\ [][PatternNext]_patternVars

\* The table has a value for a sint64 field of the pattern, and not in a packed one:
\* its atom is no slice, which is what unpack_field takes it for.
TakenForSlice ==
    \E key \in ToSet(doc.keys) \cap DOMAIN doc.t :
        LET f == Field(doc.as, key)
        IN f.type = "sint64" /\ f.label # "packed" /\ doc.t[key] # << >>

\* In whatever order the keys of a pattern are, unpacking gives what was written
\* for each, by the encoder or by a pattern, or its default; values that the
\* encoder has garbled (PbMessage) aside.  It fails only for sint64 values.
PatternExact ==
    stage = "unpacked" =>
        IF unpacked = NULL THEN TakenForSlice
        ELSE \A i \in DOMAIN doc.keys :
            LET f == Field(doc.as, doc.keys[i])
                seen == Seen(doc.as, doc.t)[doc.keys[i]]
            IN CASE f.type = "message" ->
                       [j \in DOMAIN unpacked[i] |->
                           Legible(f.type_name, pbc_decode(f.type_name, unpacked[i][j].s))]
                       = [j \in DOMAIN seen |-> Legible(f.type_name, seen[j].t)]
                 [] f.type # "message" /\ ~Garbled(f, seen) ->
                       unpacked[i] = [j \in DOMAIN seen |-> Given(f, seen[j])]
                 [] OTHER -> Len(unpacked[i]) = Len(seen)
=============================================================================
