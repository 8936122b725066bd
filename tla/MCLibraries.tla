------------------------------ MODULE MCLibraries ------------------------------
(***************************************************************************)
(* Model of the C libraries that come with node-lua: patterns of lpeg are  *)
(* compiled and matched, and pbc keeps its tables, registers descriptors,  *)
(* and writes and reads messages.  The parts share nothing, so a behaviour *)
(* moves one of them, chosen at the start, and leaves the others alone.    *)
(***************************************************************************)
EXTENDS PbPattern, TLC

CONSTANTS UCHAR_MAX, MAXBEHIND, MAXRULES, USHRT_MAX, MAXOFF, MAXSTRCAPS, INITBACK,
          MAXSTACK,                                          \* PegMatch
          MAX_ENTRIES,                                       \* PbTables
          MAX_CALLS                                          \* PbRegister

VARIABLES
    which,                                                   \* the part that moves
    growing, entered,                                        \* PbTables
    files, enums, msgs, calls, results,                      \* PbRegister
    expr, pattern, program, phase, subj, startpos, spos, ip, stack, stacksize, capture,
    dyn, answer                                                   \* PegMatch

tableVars == <<growing, entered>>
registerVars == <<files, enums, msgs, calls, results>>
matchVars == <<expr, pattern, program, phase, subj, startpos, spos, ip, stack, stacksize,
               capture, dyn, answer>>

-----------------------------------------------------------------------------
\* Patterns, as Lua writes them.  The names are those of the library.

E == INSTANCE PegSemantics

Exp(op, v, args) == [op |-> op, v |-> v, args |-> args]
Lit(chars) == Exp("string", E!Str(chars), << >>)
N(n) == Exp("number", E!Num(n), << >>)
True == Exp("boolean", E!Bool(TRUE), << >>)
False == Exp("boolean", E!Bool(FALSE), << >>)
S(chars) == Exp("set", <<"set", chars>>, << >>)
Rg(from, to) == Exp("range", <<"range", <<<<from, to>>>>>>, << >>)
Sq(e1, e2) == Exp("seq", E!Nil, <<e1, e2>>)
Or(e1, e2) == Exp("choice", E!Nil, <<e1, e2>>)
Sub(e1, e2) == Exp("sub", E!Nil, <<e1, e2>>)
St(e, n) == Exp("star", E!Num(n), <<e>>)
And(e) == Exp("and", E!Nil, <<e>>)
Not(e) == Exp("not", E!Nil, <<e>>)
B(e) == Exp("behind", E!Nil, <<e>>)
Rule(name) == Exp("V", E!Str(name), << >>)
G(names, rules) ==
    Exp("table", <<"names", [i \in DOMAIN names |-> E!Str(names[i])]>>, rules)
C(e) == Exp("Csimple", E!Nil, <<e>>)
Ct(e) == Exp("Ctable", E!Nil, <<e>>)
Cs(e) == Exp("Csubst", E!Nil, <<e>>)
Cg(name, e) == Exp("Cgroup", name, <<e>>)
Cf(f, e) == Exp("Cfold", E!Fun(f), <<e>>)
Cn(n, e) == Exp("Cnum", E!Num(n), <<e>>)
Fn(f, e) == Exp("Cfunction", E!Fun(f), <<e>>)
Cstr(format, e) == Exp("Cstring", E!Fmt(format), <<e>>)
Cq(e) == Exp("Cquery", E!Tab(<< >>, {<<E!Str(<<0>>), E!Str(<<2>>)>>, <<E!Num(1), E!Num(5)>>}), <<e>>)
Cmt(f, e) == Exp("Cmt", E!Fun(f), <<e>>)
PF(f) == Exp("function", E!Fun(f), << >>)
Cc(vs) == Exp("Cc", <<"vs", vs>>, << >>)
Cp == Exp("Cposition", E!Nil, << >>)
Cb(name) == Exp("Cbackref", E!Str(name), << >>)
Carg(n) == Exp("Carg", E!Num(n), << >>)

a == Lit(<<0>>)
b == Lit(<<1>>)
ab == Lit(<<0, 1>>)
Key2 == <<2>>

Pairs(es, fs) == UNION {{Sq(e, f), Or(e, f), Sub(e, f)} : e \in es, f \in fs}

Plain == {a, ab, N(1), True, False, S({0, 1}), Rg(1, 2), N(-1), St(a, 0), St(ab, 0), St(a, -1),
          And(ab), Not(a), B(a), C(a), Cmt("keep", a), Cmt("even", St(a, 0)), PF("next")}
Within(e) ==
    {Sq(C(e), b), Sq(St(e, 0), b), Sq(And(e), N(1)), Or(Sq(e, a), ab), Sq(St(e, -2), ab),
     St(Or(e, ab), 0), Cmt("keep", Or(Sq(e, b), a)), Sq(Not(e), N(1))}
Matching == Pairs(Plain, Plain)
    \cup UNION {Within(e) : e \in Pairs({ab, St(a, 0), C(ab), Cmt("keep", a)},
                                        {b, Not(ab), Cmt("even", True)})}

Inner == {a, C(a), Cp, Cc(<<E!Num(1)>>), Cc(<<E!Num(1), E!Nil>>), Cg(E!Str(Key2), C(a)), Cg(E!Nil, C(ab)),
          Cb(Key2), Cmt("keep", C(a)), Cmt("next", True), Fn("none", a), Ct(C(a)), Carg(1),
          Carg(2), Cg(E!Str(<<1>>), Cc(<<E!Num(8), E!Num(9)>>)), Cs(Or(Cstr(<<2, 2>>, a), b)),
          C(St(N(1), 0)), C(Sq(C(a), C(C(b))))}
Outer(e) ==
    {e, C(e), Ct(e), Cs(e), Cg(E!Nil, e), Cf("two", e), Cn(0, e), Cn(2, e), Cq(e),
     Fn("apply", e), Cstr(<<0, -1, -2>>, e), Cstr(<<-3, 1, -4>>, e), Cmt("keep", e),
     Cmt("accept", e), And(e), Sq(Cg(E!Str(Key2), e), Ct(Sq(Cb(Key2), Cp))),
     Or(Sq(e, b), C(N(1)))}
Capturing == UNION {Outer(Sq(e, f)) : e \in Inner, f \in {Cp, C(Or(a, b)), Cb(Key2)}}
    \cup UNION {Outer(St(Or(e, C(b)), 0)) : e \in Inner \ {Cp, Cb(Key2)}}

Grammars ==
    {G(<<"S">>, <<Or(Sq(a, Sq(Rule("S"), b)), True)>>),
     G(<<"S">>, <<Or(Sq(a, Rule("S")), b)>>),
     G(<<"S", "A">>, <<Sq(C(Rule("A")), Rule("A")), Or(Sq(a, Rule("A")), b)>>),
     G(<<"S", "A", "B">>, <<Sq(Rule("A"), Rule("B")), Or(ab, a), St(b, 0)>>),
     G(<<"S", "A", "B">>, <<St(Rule("A"), 0), Or(Rule("B"), Sq(b, a)), Sq(a, Not(Rule("A")))>>),
     G(<<"S", "A">>, <<Sq(Rule("A"), a), Sq(Rule("S"), b)>>),           \* left recursive
     G(<<"S", "A">>, <<St(Rule("A"), 0), St(b, 0)>>),                \* an empty loop
     G(<<"S", "A">>, <<a, Rule("B")>>),                              \* no such rule
     Rule("S"),                                                      \* no grammar
     G(<<"S", "A", "B", "C", "D">>, <<a, a, a, a, a>>),           \* too many rules
     Sq(G(<<"S">>, <<Or(Sq(a, Rule("S")), b)>>), G(<<"S">>, <<Or(Sq(b, Rule("S")), a)>>)),
     G(<<"S">>, <<Or(Sq(G(<<"S">>, <<Or(Sq(a, Rule("S")), C(b))>>), Rule("S")), Cp)>>),
     G(<<"S">>, <<Or(Cg(E!Str(Key2), Sq(C(N(1)), Rule("S"))), Cp)>>),
     G(<<"S">>, <<Or(Ct(Sq(C(N(1)), Rule("S"))), Cc(<<E!Num(3)>>))>>),
     G(<<"S">>, <<Or(Cmt("keep", Sq(C(a), Rule("S"))), Cmt("even", C(b)))>>),
     G(<<"S", "A">>, <<Or(Sq(Cmt("keep", Sq(C(a), Rule("S"))), Rule("A")), C(St(N(1), 1))),
                       Or(Cmt("even", C(b)), C(True))>>),
     G(<<"S", "A">>, <<Or(Sq(And(Rule("A")), Sq(N(1), Rule("S"))), B(b)), Or(a, Sq(b, b))>>),
     G(<<"S", "A">>, <<Sq(C(And(Rule("A"))), Rule("A")), a>>),
     Or(Sq(a, PF("far")), True)}                                     \* no such position

MCExpressions == Matching \cup Capturing \cup Grammars
MCSubjects == {<< >>, <<0>>, <<1>>, <<2>>, <<0, 0>>, <<0, 1>>, <<1, 0>>, <<1, 1>>, <<0, 2>>,
               <<0, 0, 1>>, <<0, 1, 0>>, <<0, 1, 1>>, <<1, 0, 1>>, <<0, 0, 0>>, <<1, 1, 0>>}
MCArgs == <<E!Num(7)>>

M == INSTANCE PegMatch WITH
        Expressions <- MCExpressions, Subjects <- MCSubjects, Starts <- {1, -2},
        Args <- MCArgs

-----------------------------------------------------------------------------
\* Names with hashes that collide in tables of several sizes, one of them the empty
\* name, whose hash is 0, and numbers.

TB == INSTANCE PbTables WITH
        Key <- {<<"a", 8>>, <<"b", 16>>, <<"c", 1>>, <<"d", 5>>, <<"e", 9>>,
                <<"", 0>>},
        Id <- {1, 2, 9, -1},
        Sizes <- {0, 4}

-----------------------------------------------------------------------------
\* Descriptors: files that depend on each other, on a file that may be missing, and
\* extend each other's messages, from the file and from inside a message.

Fields(name, number, label, type) ==
    [name |-> name, number |-> number, type |-> type, label |-> label, packed |-> FALSE,
     type_name |-> << >>, default |-> NULL, extendee |-> << >>]
OfType(f, type_name) == [f EXCEPT !.type_name = type_name]
Ext(f, extendee) == [f EXCEPT !.extendee = extendee]
DescriptorOf(name, field, nested) ==
    [name |-> name, field |-> field, extension |-> << >>, enum_type |-> << >>,
     nested_type |-> nested]
FileOf(package, dependency, enum_type, message_type, extension) ==
    [package |-> package, dependency |-> dependency, enum_type |-> enum_type,
     message_type |-> message_type, extension |-> extension]

EnumE == [name |-> "E",
          value |-> <<[name |-> <<"E0">>, id |-> 0], [name |-> <<"E1">>, id |-> 1]>>]
EnumI == [name |-> "I", value |-> <<[name |-> <<"I5">>, id |-> 5]>>]
MessageN ==
    [DescriptorOf("N", <<Fields("x", 1, "required", "int32"),
                 OfType(Fields("up", 2, "optional", "message"), <<"p", "M">>)>>, << >>)
        EXCEPT !.enum_type = <<EnumI>>]
MessageM ==
    DescriptorOf("M",
         <<Fields("a", 1, "optional", "int32"),
           OfType(Fields("e", 2, "optional", "enum"), <<"p", "E">>),
           [OfType(Fields("d", 3, "optional", "enum"), <<"p", "E">>)
               EXCEPT !.default = <<"E1">>],
           OfType(Fields("i", 5, "optional", "enum"), <<"p", "M", "N", "I">>),
           OfType(Fields("n", 4, "repeated", "message"), <<"p", "M", "N">>)>>,
         <<MessageN>>)
MessageQ ==
    [DescriptorOf("Q", <<OfType(Fields("m", 1, "optional", "message"), <<"p", "M">>)>>, << >>)
        EXCEPT !.extension =
            <<Ext(OfType(Fields("n2", 12, "optional", "message"), <<"q", "Q">>),
                  <<"p", "M", "N">>)>>]
MCFiles ==
    ("a" :> FileOf(<<"p">>, << >>, <<EnumE>>, <<MessageM, DescriptorOf("Empty", << >>, << >>)>>, << >>))
    @@ ("b" :> FileOf(<<"q">>, <<"a">>, << >>, <<MessageQ>>,
            <<Ext(Fields("b1", 10, "optional", "int32"), <<"p", "M">>),
              Ext([Fields("b2", 10, "repeated", "int32") EXCEPT !.packed = TRUE],
                  <<"p", "M", "N">>),
              Ext(Fields("b3", 11, "optional", "string"), <<"p", "M">>)>>))
    @@ ("c" :> FileOf(<< >>, <<"b", "d">>, << >>,
            <<DescriptorOf("R", <<OfType(Fields("q", 1, "repeated", "message"), <<"q", "Q">>)>>, << >>)>>,
            <<Ext(OfType(Fields("c1", 20, "optional", "enum"), <<"p", "E">>), <<"p", "M">>),
              Ext(Fields("c2", 21, "optional", "int32"), <<"p", "Empty">>)>>))
    @@ ("d" :> FileOf(<< >>, << >>, << >>, << >>, << >>))

RG == INSTANCE PbRegister WITH
        File <- MCFiles,
        Sets <- UNION {[1 .. n -> DOMAIN MCFiles] : n \in 0 .. 3}
                \cup {<<"c", "b", "a", "d">>, <<"c", "b", "d", "a">>}

-----------------------------------------------------------------------------
\* Messages: a type with fields of each label and of each way to write a value, those
\* that the code writes or unpacks wrong among them, and another version of it.

NumberOf(n) == [n |-> n, s |-> << >>, t |-> NULL]
TextOfs(chars) == [n |-> Zero, s |-> chars, t |-> NULL]
MessageOf(t) == [n |-> Zero, s |-> << >>, t |-> t]
L(n) == Long(n, 0)

FieldOf(id, name, type, label) ==
    [id |-> id, name |-> name, type |-> type, label |-> label, type_name |-> "",
     default |-> NULL]
Typed(f, type_name) == [f EXCEPT !.type_name = type_name]
Default(f, v) == [f EXCEPT !.default = v]

Red == <<"red", 1>>
Blue == <<"blue", 3>>
Gone == <<"gone", 1>>
MCEnum == "E" :> <<[id |-> 1, pointer |-> Red], [id |-> -1, pointer |-> Blue],
                   [id |-> 40, pointer |-> Gone]>>

i32 == <<"i32", 1>>
s32 == <<"s32", 2>>
i64 == <<"i64", 3>>
s64 == <<"s64", 5>>
u64 == <<"u64", 1>>
f32 == <<"f32", 4>>
dbl == <<"dbl", 2>>
flt == <<"flt", 7>>
bl == <<"bl", 6>>
en == <<"en", 3>>
st == <<"st", 9>>
by == <<"by", 8>>
sub == <<"sub", 10>>
subs == <<"subs", 11>>
ri == <<"ri", 12>>
rs == <<"rs", 1>>
pi == <<"pi", 1>>
ps == <<"ps", 5>>
pe == <<"pe", 2>>
pb == <<"pb", 3>>
pd == <<"pd", 6>>
pw == <<"pw", 8>>
nameless == <<"", 0>>
new == <<"new", 3>>

EnumField == Default(Typed(FieldOf(10, en, "enum", "optional"), "E"),
                     [NumberOf(L(1)) EXCEPT !.s = Red])
MessagesField == Typed(FieldOf(14, subs, "message", "repeated"), "B")
MCMessage ==
    ("A" :>
      <<FieldOf(1, i32, "int32", "optional"), FieldOf(2, s32, "sint32", "optional"),
        FieldOf(3, i64, "int64", "required"), FieldOf(4, s64, "sint64", "optional"),
        Default(FieldOf(5, u64, "uint64", "optional"), NumberOf(Long(7, 1))),
        FieldOf(6, f32, "sfixed32", "optional"), FieldOf(7, dbl, "double", "optional"),
        Default(FieldOf(31, flt, "float", "optional"), NumberOf(L(9))),
        FieldOf(9, bl, "bool", "optional"), EnumField,
        Default(FieldOf(11, st, "string", "optional"), TextOfs(<<1, 2>>)),
        FieldOf(12, by, "bytes", "optional"),
        Typed(FieldOf(13, sub, "message", "optional"), "B"), MessagesField,
        FieldOf(15, ri, "sint32", "repeated"), FieldOf(16, rs, "string", "repeated"),
        FieldOf(17, pi, "int64", "packed"), FieldOf(18, ps, "sint32", "packed"),
        Typed(FieldOf(19, pe, "enum", "packed"), "E"), FieldOf(20, pb, "bool", "packed"),
        FieldOf(300, pd, "fixed64", "packed"), FieldOf(21, pw, "float", "packed")>>)
    @@ ("B" :>
      <<FieldOf(1, i32, "uint32", "optional"), FieldOf(2, st, "string", "optional"),
        FieldOf(3, pi, "int32", "packed"), FieldOf(4, pw, "fixed32", "packed")>>)
    @@ ("C" :>
      <<FieldOf(1, i32, "int32", "optional"), FieldOf(4, s64, "sint64", "optional"),
        Default(FieldOf(40, new, "int32", "optional"), NumberOf(L(5))), EnumField,
        FieldOf(17, pi, "int64", "packed"), MessagesField>>)

\* Values of every kind of field, at the ends of their ranges and where the length of
\* their bytes changes, and as many as make buffers and arrays grow.
HALF == WORD \div 2
Minus(n) == IF n = 0 THEN Zero ELSE Long(WORD - n, WORD - 1)    \* -n, n < WORD
Ints == {L(0), L(1), L(MORE), Minus(1), L(HALF - 1), Minus(HALF)}
Longs == {L(0), L(MORE - 1), L(MORE), Minus(1), L(WORD - 1), Long(0, 1),
          Long(WORD - 1, HALF - 1), Long(0, HALF), Long(5, REST)}
Lows == {L(0), L(77), L(WORD - 1)}
Times(n, v) == [i \in 1 .. n |-> v]
SubMessage == (i32 :> <<NumberOf(L(WORD - 1))>>) @@ (st :> <<TextOfs(<<5>>)>>)
              @@ (pi :> <<NumberOf(L(1)), NumberOf(Minus(1))>>)
WithWords == pw :> <<NumberOf(L(3)), NumberOf(L(WORD - 1))>> @@ st :> <<TextOfs(<<5>>)>>
Numbers(key, ns) == {key :> <<NumberOf(n)>> : n \in ns}
Texts(key, ss) == {key :> <<TextOfs(chars)>> : chars \in ss}

Contents ==
    UNION {Numbers(i32, Ints), Numbers(s32, Ints), Numbers(i64, Longs), Numbers(s64, Longs),
           Numbers(u64, Longs), Numbers(f32, Lows), Numbers(dbl, Longs), Numbers(flt, Lows),
           Numbers(bl, {L(0), L(1)}), Texts(en, {Red, Blue, Gone, <<"none", 1>>}),
           Texts(st, {<< >>, <<1, 2>>, <<0>>, Times(40, 3), Times(21, 1)}),
           Texts(by, {<< >>, <<1>>})}
    \cup {sub :> <<MessageOf(t)>> : t \in {<< >>, SubMessage, WithWords}}
    \cup {subs :> [i \in 1 .. n |-> MessageOf(IF i = 2 THEN << >> ELSE SubMessage)] : n \in 0 .. 3}
    \cup {ri :> [i \in 1 .. n |-> NumberOf(Minus(i))] : n \in 0 .. 3}
    \cup {rs :> [i \in 1 .. n |-> TextOfs(<<i>>)] : n \in 0 .. 3}
    \cup {pi :> [i \in 1 .. n |-> NumberOf(IF i > k THEN Minus(i) ELSE L(i))] :
             n \in {0, 1, 4, 16, 17}, k \in {0, 1, 20}}
    \cup {ps :> [i \in 1 .. n |-> NumberOf(Minus(i))] : n \in {1, 4}}
    \cup {pe :> <<TextOfs(Blue), TextOfs(Red), TextOfs(Gone)>>, pb :> Times(35, NumberOf(L(1))),
          pb :> <<NumberOf(L(0)), NumberOf(L(1))>>}
    \cup {pd :> [i \in 1 .. n |-> NumberOf(Long(i, i))] : n \in {1, 3, 5}}
    \cup {pw :> [i \in 1 .. n |-> NumberOf(L(i))] : n \in {1, 2, 7}}

\* A pattern has the keys of keys, and packs a table with just these keys: not one with
\* messages, which it takes as bytes, nor with an enumeration's name that has no number.
Document(type, as, t, keys) == [type |-> type, as |-> as, t |-> t, keys |-> keys]
PatternTakes(t) ==
    DOMAIN t \cap {sub, subs} = {} /\ (en \in DOMAIN t => t[en][1].s # <<"none", 1>>)
Company == {i32 :> <<NumberOf(Minus(5))>>, ri :> << >>, st :> <<TextOfs(<<1, 2>>)>>,
            pd :> Times(2, NumberOf(Long(3, 4)))}
MCDocuments ==
    {Document("A", as, t, << >>) : as \in {"A", "C"}, t \in Contents}
    \cup {Document("A", "A", new :> <<NumberOf(L(1))>>, << >>),
          Document("A", "A", new :> <<NumberOf(L(1))>>, <<new>>),
          Document("A", "A", (nameless :> <<NumberOf(L(1))>>) @@ (i32 :> <<NumberOf(L(1))>>), << >>),
          Document("A", "A", << >>, <<u64, en, bl, flt, st, rs, pi, i32>>)}
    \cup {Document("A", "A", t @@ u, SetToSeq(DOMAIN t \cup DOMAIN u)) :
             t \in {c \in Contents : PatternTakes(c)}, u \in Company}
    \cup {Document("A", "A", t, <<by, i32, pi, subs, bl, dbl, f32, ri, en, st, s64, pw>>) :
             t \in Contents}

-----------------------------------------------------------------------------
ASSUME PartsAssumption ==
    /\ TB!TablesAssumption /\ RG!RegisterAssumption /\ M!PegAssumption

LibrariesInit ==
    /\ which \in {"matching", "tables", "registration", "messages"}
    /\ RG!Init
    /\ IF which = "matching" THEN M!Init
       ELSE /\ expr = True /\ pattern = M!P_boolean(TRUE) /\ program = << >> /\ phase = "rejected"
            /\ subj = << >> /\ startpos = 0 /\ spos = 0 /\ ip = 0
            /\ stack = << >> /\ stacksize = INITBACK /\ capture = << >> /\ dyn = << >>
            /\ answer = << >>
    /\ IF which = "tables" THEN TB!Init ELSE growing = NULL /\ entered = << >>
    /\ IF which = "messages" THEN PatternInit
       ELSE /\ doc = NULL /\ stage = "none" /\ frames = << >> /\ messages = << >>
            /\ bytes = << >> /\ read = NULL /\ decoded = NULL /\ unpacked = NULL

LibrariesNext ==
    \/ /\ which = "matching" /\ M!Next
       /\ UNCHANGED <<which, tableVars, registerVars, patternVars>>
    \/ /\ which = "tables" /\ TB!Next
       /\ UNCHANGED <<which, matchVars, registerVars, patternVars>>
    \/ /\ which = "registration" /\ RG!Next
       /\ UNCHANGED <<which, matchVars, tableVars, patternVars>>
    \/ /\ which = "messages" /\ PatternNext
       /\ UNCHANGED <<which, matchVars, tableVars, registerVars>>

LibrariesVars == <<which, matchVars, tableVars, registerVars, patternVars>>

\* As in PegMatch, the interpreter runs until the match ends.
LibrariesSpec ==
    LibrariesInit /\ [][LibrariesNext]_LibrariesVars /\ M!Fairness

-----------------------------------------------------------------------------
\* The properties of the parts, which their modules explain.

\* PbTables: each name and number finds its entry and no other.
TablesExact == which = "tables" => TB!TablesExact

\* PbRegister: what is known after each call is what the descriptors say.
RegisterExact == which = "registration" => RG!RegisterExact

\* PegMatch: a match finds what its pattern means, and leaves the machine's stacks
\* balanced; and it ends.
MatchExact == which = "matching" => M!MatchExact /\ M!StackBalanced
MatchEnds == M!MatchEnds

\* PbMessage, PbPattern: a message that is read, by its own type or by another version
\* of it, with the decoder or with a pattern, has what was written, and the defaults,
\* but for packed fields of 32 bits and the sint64 keys of patterns, which their
\* modules tell apart.
DocumentsExact == which = "messages" => MessageExact /\ PatternExact
=============================================================================
