------------------------------ MODULE BufferPack ------------------------------
(***************************************************************************)
(* Binary data in buffers (lbuffer.cpp): pack appends values to a buffer   *)
(* as the options of a format say, unpack reads them from a position on,   *)
(* packsize tells how much they take.  An option is a letter with or       *)
(* without a number; here the value it packs is kept with it.  Letters of  *)
(* a fixed size (b, h, l, j, T) are "i" and "I" with that number, a blank  *)
(* is left out, and of the floats there is the one that is not narrowed:   *)
(* it is the bytes it has in memory.                                       *)
(*                                                                         *)
(* Bytes have NB bits, a lua_Integer (and a size_t) SZINT bytes, and the   *)
(* machine puts the least byte first.  External: there is memory for the   *)
(* data (buffer_append and buffer_reserve may fail only for lack of it).   *)
(***************************************************************************)
EXTENDS Integers, Sequences, FiniteSets, SequencesExt, FiniteSetsExt

CONSTANTS NB, SZINT, MAXINTSIZE, MAXALIGN,
          PREFIX       \* bytes that the buffer may hold before

BufferPackAssumption ==
    /\ {NB, SZINT, MAXINTSIZE, MAXALIGN} \subseteq Nat \ {0}
    /\ SZINT < MAXINTSIZE
    /\ PREFIX \subseteq Nat

VARIABLES fmt,         \* the options, each with its value
          start,       \* how much the buffer holds before
          bytes,       \* what it holds
          phase,       \* "new", "failed", "packed", "unpacked"
          results      \* of unpack

vars == <<fmt, start, bytes, phase, results>>

NO_NUMBER == -1        \* no number
Unsigned == 2 ^ (NB * SZINT)
MC == 2 ^ NB - 1

-----------------------------------------------------------------------------
\* The formats of the model: an option that changes how others are packed, then
\* options with values around the limits of their size, of every kind.
Option(letter, n, v, s) == [letter |-> letter, n |-> n, v |-> v, s |-> s]
Plain(letter, n) == Option(letter, n, 0, << >>)
Integer(letter, n, v) == Option(letter, n, v, << >>)
String(letter, n, s) == Option(letter, n, 0, s)

Integers == {-(2 ^ (NB * SZINT - 1)), -(2 ^ (NB - 1)), 2 ^ (NB - 1), 2 ^ (NB * SZINT - 1) - 1}
Strings == {<<0, 1>>, [i \in 1 .. 2 ^ NB |-> 1]}

Settings ==
    {<< >>, <<Plain("!", MAXINTSIZE + 1)>>, <<Plain(">", NO_NUMBER), Plain("!", NO_NUMBER)>>,
     <<Plain("<", NO_NUMBER), Plain("!", 3)>>, <<Plain("=", NO_NUMBER), Plain("!", 4)>>,
     <<Plain("!", 4), Plain(">", NO_NUMBER)>>}
Items ==
    {Integer(letter, n, v) : letter \in {"i", "I"}, n \in {1, SZINT, MAXINTSIZE}, v \in Integers}
    \cup {Integer("i", n, 1) : n \in {0, 3}}
    \cup {String("s", n, s) : n \in {NO_NUMBER, 1}, s \in Strings}
    \cup {String("c", n, s) : n \in {NO_NUMBER, 3}, s \in Strings}
    \cup {String("z", NO_NUMBER, s) : s \in Strings}
    \cup {String("n", NO_NUMBER, [i \in 1 .. SZINT |-> i % 2]), Plain("x", NO_NUMBER), Plain("X", NO_NUMBER)}

Formats == {setting \o items : setting \in Settings, items \in SeqOf(Items, 2)}

-----------------------------------------------------------------------------
\* What is known of an option: its kind, its size, and the byte order and the
\* maximal alignment from then on.
Known(kind, size, h) == [kind |-> kind, size |-> size, h |-> h]

initheader == [islittle |-> TRUE, maxalign |-> 1]

getnum(o, df) == IF o.n = NO_NUMBER THEN df ELSE o.n

getnumlimit(kind, o, df, h) ==
    IF getnum(o, df) \in 1 .. MAXINTSIZE THEN Known(kind, getnum(o, df), h)
    ELSE Known("error", 0, h)

\* An int has one byte.
getoption(o, h) ==
    CASE o.letter = "i" -> getnumlimit("int", o, 1, h)
      [] o.letter = "I" -> getnumlimit("uint", o, 1, h)
      [] o.letter = "s" -> getnumlimit("string", o, SZINT, h)
      [] o.letter = "c" -> Known(IF o.n = NO_NUMBER THEN "error" ELSE "char", getnum(o, 0), h)
      [] o.letter = "z" -> Known("zstr", 0, h)
      [] o.letter = "n" -> Known("float", SZINT, h)
      [] o.letter = "x" -> Known("padding", 1, h)
      [] o.letter = "X" -> Known("paddalign", 0, h)
      [] o.letter \in {"<", "="} -> Known("nop", 0, [h EXCEPT !.islittle = TRUE])
      [] o.letter = ">" -> Known("nop", 0, [h EXCEPT !.islittle = FALSE])
      [] o.letter = "!" ->
            LET limit == getnumlimit("nop", o, MAXALIGN, h)
            IN  [limit EXCEPT !.h.maxalign = limit.size, !.size = 0]

\* The alignment of "X" is that of the option behind it, which is skipped.
getdetails(f, k, totalsize, h) ==
    LET o      == getoption(f[k], h)
        isX    == o.kind = "paddalign"
        next   == IF isX /\ k < Len(f) THEN getoption(f[k + 1], o.h) ELSE Known("error", 0, o.h)
        size   == IF isX THEN next.size ELSE o.size
        align  == Min({size, o.h.maxalign})
        noX    == isX /\ (next.kind \in {"char", "error"} \/ size = 0)
        needed == size > 1 /\ o.kind # "char"
    IN  [kind     |-> IF noX \/ (needed /\ align \notin {2 ^ i : i \in 0 .. MAXINTSIZE})
                      THEN "error" ELSE o.kind,
         size     |-> o.size,
         ntoalign |-> IF needed THEN (align - (totalsize % align)) % align ELSE 0,
         h        |-> IF isX THEN next.h ELSE o.h,
         next     |-> IF isX THEN k + 2 ELSE k + 1]

-----------------------------------------------------------------------------
Zeros(n) == [i \in 1 .. n |-> 0]

\* Byte i of `size` bytes in memory, counted from the least one.
Place(i, size, islittle) == IF islittle THEN i + 1 ELSE size - i

\* Mutated form of packint: the sign is not extended.
packint_unsigned(v, islittle, size, neg) ==
    [p \in 1 .. size |->
        LET i == CHOOSE i \in 0 .. size - 1 : Place(i, size, islittle) = p
        IN  ((v % Unsigned) \div 2 ^ (NB * i)) % 2 ^ NB]

packint(v, islittle, size, neg) ==
    [p \in 1 .. size |->
        LET i == CHOOSE i \in 0 .. size - 1 : Place(i, size, islittle) = p
        IN  IF neg /\ i >= SZINT THEN MC ELSE ((v % Unsigned) \div 2 ^ (NB * i)) % 2 ^ NB]

copywithendian(s, islittle) == IF islittle THEN s ELSE Reverse(s)

\* Integers too large for their bytes are refused, and so are strings whose
\* length is, or which hold the byte that ends them.
Fits(o, d) ==
    CASE d.kind = "int" ->
            d.size < SZINT => o.v \in -(2 ^ (NB * d.size - 1)) .. 2 ^ (NB * d.size - 1) - 1
      [] d.kind = "uint" -> d.size < SZINT => o.v % Unsigned < 2 ^ (NB * d.size)
      [] d.kind = "string" -> d.size >= SZINT \/ Len(o.s) < 2 ^ (NB * d.size)
      [] d.kind = "zstr" -> \A i \in DOMAIN o.s : o.s[i] # 0
      [] OTHER -> TRUE

Packed(o, d) ==
    CASE d.kind = "int"     -> packint(o.v, d.h.islittle, d.size, o.v < 0)
      [] d.kind = "uint"    -> packint(o.v, d.h.islittle, d.size, FALSE)
      [] d.kind = "float"   -> copywithendian(o.s, d.h.islittle)
      [] d.kind = "char"    -> SubSeq(o.s \o Zeros(d.size), 1, d.size)
      [] d.kind = "string"  -> packint(Len(o.s), d.h.islittle, d.size, FALSE) \o o.s
      [] d.kind = "zstr"    -> Append(o.s, 0)
      [] d.kind = "padding" -> <<0>>
      [] OTHER              -> << >>

Outcome(ok, b) == [ok |-> ok, bytes |-> b]

\* A pack that fails leaves what it has packed, and the padding, behind.
RECURSIVE pack_from(_, _, _, _)
pack_from(f, k, b, h) ==
    LET d == getdetails(f, k, Len(b), h)
        aligned == b \o Zeros(d.ntoalign)
    IN  IF k > Len(f) THEN Outcome(TRUE, b)
        ELSE IF d.kind = "error" THEN Outcome(FALSE, b)
        ELSE IF ~Fits(f[k], d) THEN Outcome(FALSE, aligned)
        ELSE pack_from(f, d.next, aligned \o Packed(f[k], d), d.h)

RECURSIVE size_from(_, _, _, _)
size_from(f, k, totalsize, h) ==
    LET d == getdetails(f, k, totalsize, h)
    IN  IF k > Len(f) THEN totalsize
        ELSE IF d.kind \in {"error", "string", "zstr"} THEN NO_NUMBER
        ELSE size_from(f, d.next, totalsize + d.ntoalign + d.size, d.h)

lbuffer_packsize(f) == size_from(f, 1, 0, initheader)

-----------------------------------------------------------------------------
\* The number in its bytes, of which those past SZINT only may extend the sign.
Read(ok, v, s, pos) == [ok |-> ok, v |-> v, s |-> s, pos |-> pos]

Signed(n, bits) == IF n >= 2 ^ (bits - 1) THEN n - 2 ^ bits ELSE n

\* Mutated form of unpackint: the sign of a short number is lost.
unpackint_unsigned(b, pos, islittle, size, issigned) ==
    LET byte(i) == b[pos + Place(i, size, islittle)]
        limit   == Min({size, SZINT})
        res     == FoldLeft(LAMBDA n, i : n * 2 ^ NB + byte(limit - i), 0, [i \in 1 .. limit |-> i])
    IN  Read(TRUE, Signed(res, NB * SZINT), << >>, pos + size)

unpackint(b, pos, islittle, size, issigned) ==
    LET byte(i) == b[pos + Place(i, size, islittle)]
        limit   == Min({size, SZINT})
        res     == FoldLeft(LAMBDA n, i : n * 2 ^ NB + byte(limit - i), 0, [i \in 1 .. limit |-> i])
        v       == Signed(res, IF issigned THEN NB * limit ELSE NB * SZINT)
        fill    == IF issigned /\ v < 0 THEN MC ELSE 0
    IN  Read(\A i \in limit .. size - 1 : byte(i) = fill, v, << >>, pos + size)

\* One value, behind pos bytes.
Unpacked(b, pos, d) ==
    CASE d.kind \in {"int", "uint"} ->
            unpackint(b, pos, d.h.islittle, d.size, d.kind = "int")
      [] d.kind = "float" ->
            Read(TRUE, 0, copywithendian(SubSeq(b, pos + 1, pos + d.size), d.h.islittle),
                 pos + d.size)
      [] d.kind = "char" -> Read(TRUE, 0, SubSeq(b, pos + 1, pos + d.size), pos + d.size)
      [] d.kind = "string" ->
            LET len == unpackint(b, pos, d.h.islittle, d.size, FALSE)
                end == pos + d.size + (len.v % Unsigned)
            IN  Read(len.ok /\ end <= Len(b), 0,
                     SubSeq(b, pos + d.size + 1, Min({end, Len(b)})), end)
      [] d.kind = "zstr" ->
            LET end == Min({i \in pos + 1 .. Len(b) : b[i] = 0})
            IN  Read(TRUE, 0, SubSeq(b, pos + 1, end - 1), end)
      [] OTHER -> Read(TRUE, 0, << >>, pos + d.size)

HasValue(kind) == kind \in {"int", "uint", "float", "char", "string", "zstr"}

\* The values and the position behind them; ok is false where there is an error.
Results(ok, values, pos) == [ok |-> ok, values |-> values, pos |-> pos]

RECURSIVE unpack_from(_, _, _, _, _, _)
unpack_from(f, k, b, pos, h, values) ==
    LET d    == getdetails(f, k, pos, h)
        read == Unpacked(b, pos + d.ntoalign, d)
        more == IF HasValue(d.kind) THEN <<[v |-> read.v, s |-> read.s]>> ELSE << >>
    IN  IF k > Len(f) THEN Results(TRUE, values, pos)
        ELSE IF \/ d.kind = "error"
                \/ pos + d.ntoalign + d.size > Len(b)
                \/ ~read.ok
             THEN Results(FALSE, values, pos)
        ELSE unpack_from(f, d.next, b, read.pos, d.h, values \o more)

\* A position may be counted back from the end.
posrelat(pos, len) == IF pos >= 0 THEN pos ELSE IF -pos > len THEN 0 ELSE len + pos + 1

-----------------------------------------------------------------------------
Init ==
    /\ fmt \in Formats
    /\ start \in PREFIX
    /\ bytes = Zeros(start)
    /\ phase = "new"
    /\ results = Results(FALSE, << >>, 0)

lbuffer_pack ==
    /\ phase = "new"
    /\ LET outcome == pack_from(fmt, 1, << >>, initheader)
       IN  /\ bytes' = bytes \o outcome.bytes
           /\ phase' = IF outcome.ok THEN "packed" ELSE "failed"
    /\ UNCHANGED <<fmt, start, results>>

\* The last byte is lost before the values are read; without it, no end of a "z"
\* can be found, and strlen would read on.
truncate ==
    /\ phase = "packed"
    /\ Len(bytes) > start
    /\ \A k \in DOMAIN fmt : fmt[k].letter # "z"
    /\ bytes' = Front(bytes)
    /\ phase' = "truncated"
    /\ UNCHANGED <<fmt, start, results>>

lbuffer_unpack ==
    /\ phase \in {"packed", "truncated"}
    /\ \E pos \in {start + 1, start - Len(bytes)} :
          LET from == posrelat(pos, Len(bytes)) - 1
          IN  /\ from \in 0 .. Len(bytes)
              /\ results' = unpack_from(fmt, 1, bytes, from, initheader, << >>)
    /\ phase' = IF phase = "packed" THEN "unpacked" ELSE "short"
    /\ UNCHANGED <<fmt, start, bytes>>

Next == lbuffer_pack \/ truncate \/ lbuffer_unpack

Spec == Init /\ [][Next]_vars

-----------------------------------------------------------------------------
\* The reference: the values of a format, but for one that "X" skips, as they are
\* read: a "c" has the bytes it asks for.
Values ==
    LET Skipped(k) == k > 1 /\ fmt[k - 1].letter = "X"
        IsValue(k) == fmt[k].letter \in {"i", "I", "s", "c", "z", "n"} /\ ~Skipped(k)
        value(k) ==
            [v |-> fmt[k].v,
             s |-> IF fmt[k].letter = "c" THEN SubSeq(fmt[k].s \o Zeros(fmt[k].n), 1, fmt[k].n)
                   ELSE fmt[k].s]
    IN  FoldLeft(LAMBDA vs, k : IF IsValue(k) THEN Append(vs, value(k)) ELSE vs,
                 << >>, [k \in DOMAIN fmt |-> k])

\* What was packed is read back, from the same position, whatever the sizes, the
\* byte order and the alignment, and the position behind it is its end; packsize
\* tells its size beforehand unless it depends on the values; and with a byte less
\* the values are refused, never read wrong (lbuffer_pack, lbuffer_packsize,
\* lbuffer_unpack).  The position has to be a multiple of the alignments: pack
\* aligns from where it begins, unpack from the start of the buffer.
PackRoundTrip ==
    /\ phase = "unpacked" => results = Results(TRUE, Values, Len(bytes))
    /\ phase = "packed" =>
           lbuffer_packsize(fmt) \in {Len(bytes) - start, NO_NUMBER}
    /\ phase = "packed" /\ (\A k \in DOMAIN fmt : fmt[k].letter \notin {"s", "z"}) =>
           lbuffer_packsize(fmt) # NO_NUMBER
    /\ phase = "short" => ~results.ok
=============================================================================
