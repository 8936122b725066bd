------------------------------ MODULE TablePack ------------------------------
(***************************************************************************)
(* Tables in messages (ltpack.cpp): ltpack writes a table and all in it as *)
(* one sequence of bytes, ltunpack builds it again in another context.  A  *)
(* value is a record of its type, its number or its truth (n), the         *)
(* characters of a string (s) and the keys and values of a table in the    *)
(* order of lua_next (items).  Integers take the smallest of four widths:  *)
(* BITS[i] bits in i bytes.  Here a byte holds any number, so that a value *)
(* is in the first byte of those it takes.                                 *)
(***************************************************************************)
EXTENDS Integers, Sequences, FiniteSets, SequencesExt, FiniteSetsExt

CONSTANTS BITS,          \* for int8, int16, int32 and int64
          DEPTH_LIMIT,   \* MAX_DEPTH: how deep tables may be nested
          MAX_NESTED,    \* bound on the nesting tried
          MAX_ITEMS      \* bound on the items of a table

TablePackAssumption ==
    /\ \A i \in 1 .. 4 : BITS[i] \in Nat \ {0}
    /\ \A i \in 1 .. 3 : BITS[i] < BITS[i + 1]

VARIABLES value, pack, unpacked

vars == <<value, pack, unpacked>>

\* TYPE_INT8 to TYPE_INT64 are 0 to 3.
TYPE_STRING == 5
TYPE_BOOL == 6
TYPE_TABLE_BEG == 7
TYPE_TABLE_END == 8

-----------------------------------------------------------------------------
\* The values of the model.
Value(type, n, s, items) == [type |-> type, n |-> n, s |-> s, items |-> items]

Least(i) == -(2 ^ (BITS[i] - 1))
Largest(i) == 2 ^ (BITS[i] - 1) - 1

Integer(n) == Value("integer", n, << >>, << >>)

\* Integers around the limits of each width, strings and booleans, and a value
\* that cannot be packed.
Edges == {Least(i) : i \in 1 .. 4} \cup {Largest(i) : i \in 1 .. 4}
         \cup {Least(i) - 1 : i \in 1 .. 3} \cup {Largest(i) + 1 : i \in 1 .. 3}
Scalars == {Integer(n) : n \in Edges}
           \cup {Value("string", 0, s, << >>) : s \in {<< >>, <<TYPE_TABLE_END, 1>>}}
           \cup {Value("boolean", 1, << >>, << >>), Value("function", 0, << >>, << >>)}

Table(items) == Value("table", 0, << >>, items)

\* A table with another one as a key or a value, down to some depth.
Nested[d \in Nat] ==
    IF d = 0 THEN {Table(items) : items \in SeqOf(Scalars \X Scalars, MAX_ITEMS)}
    ELSE {Table(<<item>>) : item \in UNION {{<<t, Integer(1)>>, <<Integer(1), t>>} : t \in Nested[d - 1]}}

-----------------------------------------------------------------------------
\* A failed pack: luaL_error, caught by ltpack.
Error == <<-1>>

Concat(a, b) == IF a = Error \/ b = Error THEN Error ELSE a \o b

\* sdscat of a value that takes i bytes.
Cells(n, i) == <<n>> \o [k \in 1 .. i - 1 |-> 0]

Narrowed(n, i) == n % (2 ^ BITS[i])

\* Mutated form of pack_integer: a width that takes 2^(BITS - 1) as well.
pack_integer_wide(v) ==
    LET i == Min({i \in 1 .. 4 : v >= Least(i) /\ v <= Largest(i) + 1})
    IN  <<i - 1>> \o Cells(Narrowed(v, i), i)

pack_integer(v) ==
    LET i == Min({i \in 1 .. 4 : v >= Least(i) /\ v <= Largest(i)})
    IN  <<i - 1>> \o Cells(Narrowed(v, i), i)

pack_string(s) == <<TYPE_STRING, Len(s)>> \o s

RECURSIVE pack_lua_data(_, _)
pack_table(t, depth) ==
    LET item(p, kv) == Concat(Concat(p, pack_lua_data(kv[1], depth)), pack_lua_data(kv[2], depth))
    IN  IF depth > DEPTH_LIMIT THEN Error
        ELSE Concat(FoldLeft(item, <<TYPE_TABLE_BEG>>, t.items), <<TYPE_TABLE_END>>)

pack_lua_data(v, depth) ==
    CASE v.type = "integer" -> pack_integer(v.n)
      [] v.type = "string"  -> pack_string(v.s)
      [] v.type = "boolean" -> <<TYPE_BOOL, v.n>>
      [] v.type = "table"   -> pack_table(v, depth + 1)
      [] OTHER              -> Error

-----------------------------------------------------------------------------
\* sdsread of a signed integer of the i-th width.
Signed(n, i) == IF n >= 2 ^ (BITS[i] - 1) THEN n - 2 ^ BITS[i] ELSE n

\* What is at rpos: its type byte, the value it stands for (but for the end of
\* a table) and the position behind it.
Read(type, v, rpos) == [type |-> type, value |-> v, rpos |-> rpos]

RECURSIVE unpack_lua_data(_, _), unpack_items(_, _, _)
unpack_lua_data(p, rpos) ==
    LET type == p[rpos]
    IN  CASE type \in 0 .. 3 ->
               Read(type, Integer(Signed(p[rpos + 1], type + 1)), rpos + 2 + type)
          [] type = TYPE_STRING ->
               LET len == p[rpos + 1]
               IN  Read(type, Value("string", 0, SubSeq(p, rpos + 2, rpos + 1 + len), << >>),
                        rpos + 2 + len)
          [] type = TYPE_BOOL ->
               Read(type, Value("boolean", p[rpos + 1], << >>, << >>), rpos + 2)
          [] type = TYPE_TABLE_BEG -> unpack_items(p, rpos + 1, << >>)
          [] type = TYPE_TABLE_END -> Read(type, Table(<< >>), rpos + 1)

unpack_items(p, rpos, items) ==
    LET key == unpack_lua_data(p, rpos)
        val == unpack_lua_data(p, key.rpos)
    IN  IF key.type = TYPE_TABLE_END
        THEN Read(TYPE_TABLE_BEG, Table(items), key.rpos)
        ELSE unpack_items(p, val.rpos, Append(items, <<key.value, val.value>>))

-----------------------------------------------------------------------------
Init ==
    /\ \E d \in 0 .. MAX_NESTED : value \in Nested[d]
    /\ pack = << >>
    /\ unpacked = << >>

\* context_check_message in one context, lua_pushmessage in another.
ltpack ==
    /\ pack = << >>
    /\ pack' = pack_lua_data(value, 0)
    /\ UNCHANGED <<value, unpacked>>

ltunpack ==
    /\ pack \notin {<< >>, Error} /\ unpacked = << >>
    /\ unpacked' = <<unpack_lua_data(pack, 1)>>
    /\ UNCHANGED <<value, pack>>

Next == ltpack \/ ltunpack

Spec == Init /\ [][Next]_vars

-----------------------------------------------------------------------------
\* The reference: a table that may be sent.
RECURSIVE Depth(_), Supported(_)
Depth(v) ==
    IF v.type # "table" THEN 0
    ELSE 1 + Max({0} \cup {Depth(v.items[i][j]) : i \in DOMAIN v.items, j \in {1, 2}})

Supported(v) ==
    /\ v.type # "function"
    /\ \A i \in DOMAIN v.items : Supported(v.items[i][1]) /\ Supported(v.items[i][2])

\* Another context gets the table that was sent, whatever the widths of its
\* integers and the bytes of its strings, and all of the bytes are used; and
\* it cannot be sent exactly if it is nested too deep or holds a value that has
\* no form outside its context (ltpack, ltunpack).
RoundTrip ==
    /\ unpacked # << >> => unpacked[1] = Read(TYPE_TABLE_BEG, value, Len(pack) + 1)
    /\ pack # << >> => ((pack = Error) <=> (~Supported(value) \/ Depth(value) > DEPTH_LIMIT))
=============================================================================
