------------------------------- MODULE PbWire -------------------------------
(***************************************************************************)
(* The wire format of the bundled Protocol Buffers library (pbc, in        *)
(* luaclib/pb/src): variable-length integers (varint.c), the atoms that a  *)
(* message is cut into (context.c) and packed arrays of them (pattern.c,   *)
(* decode.c).                                                              *)
(*                                                                         *)
(* The widths scale with GROUP, the bits of an integer that one byte of a  *)
(* varint carries (7 in the code): a byte has GROUP + 1 bits, a word four  *)
(* bytes and a long integer two words.  For GROUP >= 5 a word needs five   *)
(* groups, a long integer ten, and the fifth group holds 4 bits of the low *)
(* word and the first bits of the high one, as in the code.                *)
(***************************************************************************)
EXTENDS Integers, Sequences, SequencesExt

CONSTANT GROUP

ASSUME WireAssumption == GROUP \in 5 .. 7

MORE == 2^GROUP                  \* the flag 0x80: another byte follows
BYTE == 2^(GROUP + 1)
WORD == 2^(4 * (GROUP + 1))
REST == 2^4                      \* what the fifth group has of the low word

\* A long integer as its two words (struct longlong); also the bits of a
\* float or of a double.
Long(low, hi) == [low |-> low, hi |-> hi]
Zero == Long(0, 0)

Group(n, k) ==
    CASE k < 4 -> (n.low \div 2^(GROUP * k)) % MORE
      [] k = 4 -> (n.low \div 2^(GROUP * 4)) + ((n.hi * REST) % MORE)
      [] OTHER -> (n.hi \div 2^(GROUP * k - 4 * (GROUP + 1))) % MORE

encode(n) ==
    LET last == CHOOSE k \in 0 .. 9 :
                    /\ \A j \in k + 1 .. 9 : Group(n, j) = 0
                    /\ k = 0 \/ Group(n, k) # 0
    IN [k \in 1 .. last + 1 |-> Group(n, k - 1) + (IF k <= last THEN MORE ELSE 0)]

encode32(low) == encode(Long(low, 0))

\* A varint that does not end among the bytes there are reads on; the
\* callers find that it is longer than they are.
decode(b) ==
    LET Ends == {k \in 1 .. 10 : k <= Len(b) /\ b[k] < MORE}
        len == CHOOSE k \in Ends : \A j \in Ends : k <= j
        Bits(from, to) == FoldLeft(LAMBDA sum, k :
            sum + (b[k] % MORE) * 2^(GROUP * (k - from)), 0,
            [i \in 1 .. to - from + 1 |-> from + i - 1])
        low == Bits(1, IF len < 4 THEN len ELSE 4)
        high == IF len <= 4 THEN 0 ELSE Bits(5, len)
    IN  IF Ends # {}
        THEN [len |-> len,
              n |-> Long(low + (high % REST) * 2^(GROUP * 4), (high \div REST) % WORD)]
        ELSE [len |-> IF Len(b) < 10 THEN Len(b) + 1 ELSE 10, n |-> Zero]

Negative(word) == 2 * word >= WORD
Inverted(n) == Long(WORD - 1 - n.low, WORD - 1 - n.hi)

\* Mutated form of zigzag32: the sign is lost.
zigzag32_unsigned(low) == encode32((2 * low) % WORD)

zigzag32(low) ==
    encode32(IF Negative(low) THEN WORD - 1 - ((2 * low) % WORD) ELSE 2 * low)

zigzag(n) ==
    LET twice == Long((2 * n.low) % WORD,
                      ((2 * n.hi) % WORD) + (IF Negative(n.low) THEN 1 ELSE 0))
    IN encode(IF Negative(n.hi) THEN Inverted(twice) ELSE twice)

\* The high word is extended from the encoded number, not from the result.
dezigzag32(n) ==
    LET half == n.low \div 2
    IN Long(IF n.low % 2 = 1 THEN WORD - 1 - half ELSE half,
            IF Negative(n.low) THEN WORD - 1 ELSE 0)

dezigzag64(n) ==
    LET half == Long(n.low \div 2 + (n.hi % 2) * (WORD \div 2), n.hi \div 2)
    IN IF n.low % 2 = 1 THEN Inverted(half) ELSE half

int32_encode(low) == [k \in 1 .. 4 |-> (low \div BYTE^(k - 1)) % BYTE]
int64_encode(n) == int32_encode(n.low) \o int32_encode(n.hi)

Word(b) == b[1] + b[2] * BYTE + b[3] * BYTE^2 + b[4] * BYTE^3
Words(b) == Long(Word(b), Word(SubSeq(b, 5, 8)))

(***************************************************************************)
(* Types of fields, and how each is written.                               *)
(***************************************************************************)
Bits64 == {"double", "fixed64", "sfixed64"}
Bits32 == {"float", "fixed32", "sfixed32"}
Varints == {"int64", "uint64", "int32", "uint32", "bool", "enum", "sint32", "sint64"}
Slices == {"string", "bytes", "message"}

WT_VARINT == 0
WT_BIT64 == 1
WT_LEND == 2
WT_BIT32 == 5

\* The first atom of the bytes: its field, its wire type, its value and the
\* bytes it takes; none if they hold no whole atom.  A slice has as value
\* where it starts and where it ends: the two share a union.
NoAtom == [id |-> 0, wire |-> -1, v |-> Zero, len |-> 0]

\* The atom of a tag and, for a varint or a length, the number after it.
AtomOf(tag, number, rest, start) ==
    LET wire == tag.n.low % 8
        len == IF wire = WT_BIT64 THEN 8 ELSE IF wire = WT_BIT32 THEN 4 ELSE number.len
        first == start + tag.len + number.len
        Atom(v, length) == [id |-> tag.n.low \div 8, wire |-> wire, v |-> v,
                            len |-> tag.len + length]
    IN  IF tag.n.hi # 0 \/ len > Len(rest) THEN NoAtom
        ELSE CASE wire = WT_VARINT -> Atom(number.n, len)
               [] wire = WT_BIT64 -> Atom(Words(rest), len)
               [] wire = WT_BIT32 -> Atom(Long(Word(rest), 0), len)
               [] wire = WT_LEND /\ number.n.hi = 0 /\ len + number.n.low <= Len(rest) ->
                     Atom(Long(first, first + number.n.low), len + number.n.low)
               [] OTHER -> NoAtom

AfterTag(tag, rest, start) == AtomOf(tag, decode(rest), rest, start)
Tagged(tag, b, start) ==
    IF tag.len > Len(b) THEN NoAtom
    ELSE AfterTag(tag, SubSeq(b, tag.len + 1, Len(b)), start)

wiretype_decode(b, start) == Tagged(decode(b), b, start)

\* The atoms of a message, or those before what is not one.
RECURSIVE Atoms(_, _)
Before(a, others) == [others EXCEPT !.a = <<a>> \o @]
AtomsFrom(a, b, start) ==
    IF a.wire = -1 THEN [ok |-> FALSE, a |-> << >>] ELSE Before(a, Atoms(b, start + a.len))
Atoms(b, start) ==
    IF start = Len(b) THEN [ok |-> TRUE, a |-> << >>]
    ELSE AtomsFrom(wiretype_decode(SubSeq(b, start + 1, Len(b)), start), b, start)

Opened(r) == [number |-> IF r.ok THEN Len(r.a) ELSE -Len(r.a), a |-> r.a]
_pbcC_open(b) == Opened(Atoms(b, 0))

Slice(b, a) == SubSeq(b, a.v.low + 1, a.v.hi)

\* The numbers in bytes of the given width, and the varints, up to one that
\* does not end; n is their number, -1 if the bytes cannot be such an array.
Fixed(b, width, Value(_)) ==
    IF Len(b) % width # 0 THEN [n |-> -1, v |-> << >>]
    ELSE [n |-> Len(b) \div width,
          v |-> [i \in 1 .. Len(b) \div width |->
                    Value(SubSeq(b, (i - 1) * width + 1, i * width))]]

RECURSIVE VarintsOf(_)
Preceded(first, others) ==
    [n |-> IF others.n < 0 THEN -1 ELSE others.n + 1, v |-> <<first.n>> \o others.v]
VarintsFrom(first, b) ==
    IF first.len > Len(b) THEN [n |-> -1, v |-> << >>]
    ELSE Preceded(first, VarintsOf(SubSeq(b, first.len + 1, Len(b))))
VarintsOf(b) == IF b = << >> THEN [n |-> 0, v |-> << >>] ELSE VarintsFrom(decode(b), b)

Each(array, Value(_)) == [array EXCEPT !.v = [i \in DOMAIN @ |-> Value(@[i])]]

_pbcP_unpack_packed(b, ptype) ==
    CASE ptype \in Bits64 -> Fixed(b, 8, Words)
      [] ptype \in Bits32 -> Fixed(b, 4, LAMBDA w : Long(Word(w), 0))
      [] ptype = "sint32" -> Each(VarintsOf(b), dezigzag32)
      [] ptype = "sint64" -> Each(VarintsOf(b), dezigzag64)
      [] ptype \in Varints \ {"sint32", "sint64"} -> VarintsOf(b)
      [] OTHER -> [n |-> -1, v |-> << >>]
=============================================================================
