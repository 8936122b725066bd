---------------------------- MODULE PegSemantics ----------------------------
(***************************************************************************)
(* What a pattern of lpeg means: the match of an expression in a subject,  *)
(* with its captures as trees, and the values of captures.  It knows       *)
(* nothing of trees with keys, codes and lists of captures, and is what    *)
(* these are compared with.                                                *)
(*                                                                         *)
(* An expression is what a Lua program writes: an operation, its argument  *)
(* that is no pattern, and its patterns.  Values and the functions that    *)
(* patterns call are those of the Lua program.                             *)
(***************************************************************************)
EXTENDS Integers, Sequences, SequencesExt

Str(s) == <<"str", s>>
Num(n) == <<"num", n>>
Bool(b) == <<"bool", b>>
Fun(name) == <<"fun", name>>
Fmt(f) == <<"fmt", f>>             \* characters, and -1 - n for the escape %n
Tab(arr, named) == <<"tab", arr, named>>
Nil == <<"nil">>

\* The functions.  Those called while a match is made get the subject and the
\* position before the captures.
Call(f, args) ==
    CASE f[2] = "apply" -> << <<"app", args>> >>
      [] f[2] = "none" -> << >>
      [] f[2] = "two" -> <<args[1], Num(Len(args))>>
      [] f[2] = "accept" -> <<Bool(TRUE)>>
      [] f[2] = "keep" -> <<Bool(TRUE)>> \o SubSeq(args, 3, Len(args))
      [] f[2] = "next" -> IF args[2][2] <= Len(args[1][2])
                          THEN <<Num(args[2][2] + 1), args[2]>> ELSE <<Bool(FALSE)>>
      [] f[2] = "even" -> IF args[2][2] % 2 = 0 THEN <<Bool(TRUE), args[2]>> ELSE << >>
      [] f[2] = "far" -> <<Num(Len(args[1][2]) + 2)>>

\* A number in a text is one character that stands for its digits.
IsText(v) == v[1] \in {"str", "num", "fmt"}
Text(v) == IF v[1] = "num" THEN <<100 + v[2]>> ELSE v[2]
Slice(o, from, to) == SubSeq(o, from + 1, to)      \* positions count from 0

Lookup(table, v) ==
    {p[2] : p \in {q \in table[3] : q[1] = v}}

\* Named values of a table: the last one of a name stays.
Assign(table, name, v) ==
    Tab(table[2], {p \in table[3] : p[1] # name} \cup {<<name, v>>})

-----------------------------------------------------------------------------
\* Values of captures.  before: the captures that a back reference can name, the
\* nearest last.  env: the subject and the extra arguments of the match.

Capture(kind, v, s, e, sub) == [kind |-> kind, v |-> v, s |-> s, e |-> e, sub |-> sub]

Values(vs) == [v |-> vs, error |-> FALSE]
Error == [v |-> << >>, error |-> TRUE]
Then(r, q) == IF r.error \/ q.error THEN Error ELSE Values(r.v \o q.v)

RECURSIVE ValuesOf(_, _, _), AllValues(_, _, _)

AllValues(caps, before, env) ==
    IF caps = << >> THEN Values(<< >>)
    ELSE Then(ValuesOf(caps[1], before, env),
              AllValues(Tail(caps), Append(before, caps[1]), env))

Whole(c, env) == Str(Slice(env.o, c.s, c.e))
Nested(c, before, env) ==
    LET r == AllValues(c.sub, before, env)
    IN  IF ~r.error /\ r.v = << >> THEN Values(<<Whole(c, env)>>) ELSE r

\* The text of the first of the values r, if there is one.
TextOf(r) ==
    IF r.error \/ r.v = << >> THEN r
    ELSE IF IsText(r.v[1]) THEN Values(<<Text(r.v[1])>>) ELSE Error
FirstText(c, before, env) == TextOf(ValuesOf(c, before, env))
FirstValue(r) == IF r.error \/ r.v = << >> THEN Error ELSE Values(<<r.v[1]>>)

Named(c) == c.kind = "Cgroup" /\ c.v # Nil
Added(table, c, vs) ==
    IF Named(c) THEN Assign(table, c.v, vs[1]) ELSE Tab(table[2] \o vs, table[3])
Entered(t, c, r) == IF r.error THEN Error ELSE Values(<<Added(t.v[1], c, r.v)>>)

\* t: the table so far, as values.
RECURSIVE TableOf(_, _, _, _)
TableOf(caps, before, env, t) ==
    IF caps = << >> \/ t.error THEN t
    ELSE TableOf(Tail(caps), Append(before, caps[1]), env,
                 Entered(t, caps[1],
                         IF Named(caps[1]) THEN Nested(caps[1], before, env)
                         ELSE ValuesOf(caps[1], before, env)))

FirstOrNil(vs) == IF vs = << >> THEN Nil ELSE vs[1]
Folded(f, acc, r) ==
    IF r.error THEN Error ELSE Values(<<FirstOrNil(Call(f, acc.v \o r.v))>>)

RECURSIVE FoldOf(_, _, _, _, _)
FoldOf(f, acc, caps, before, env) ==
    IF caps = << >> \/ acc.error THEN acc
    ELSE FoldOf(f, Folded(f, acc, ValuesOf(caps[1], before, env)),
                Tail(caps), Append(before, caps[1]), env)

\* The text from position curr to the end of c, with the captures replaced.
RECURSIVE SubstText(_, _, _, _, _)
Replaced(c, d, r, curr, env) ==
    Values(Slice(env.o, curr, d.s) \o IF r.v = << >> THEN << >> ELSE r.v[1])
SubstAfter(r, c, caps, curr, before, env) ==
    IF r.error THEN Error
    ELSE Then(Replaced(c, caps[1], r, curr, env),
              SubstText(c, Tail(caps), IF r.v = << >> THEN caps[1].s ELSE caps[1].e,
                        Append(before, caps[1]), env))
SubstText(c, caps, curr, before, env) ==
    IF caps = << >> THEN Values(Slice(env.o, curr, c.e))
    ELSE SubstAfter(FirstText(caps[1], before, env), c, caps, curr, before, env)

\* What %1, %2, ... of a string capture stand for: simple captures count with those
\* inside them.
RECURSIVE Numbered(_, _)
Numbered(caps, before) ==
    IF caps = << >> THEN << >>
    ELSE <<[c |-> caps[1], before |-> before]>>
         \o (IF caps[1].kind = "Csimple" THEN Numbered(caps[1].sub, before) ELSE << >>)
         \o Numbered(Tail(caps), Append(before, caps[1]))

Referred(x, d, r, env) ==
    IF x = -1 \/ d.kind = "Csimple" THEN Values(Slice(env.o, d.s, d.e))
    ELSE IF r.v = << >> THEN Error ELSE Values(r.v[1])
FormatItem(x, refs, env) ==
    IF x >= 0 THEN Values(<<x>>)
    ELSE IF -x > Len(refs) THEN Error
    ELSE Referred(x, refs[-x].c, FirstText(refs[-x].c, refs[-x].before, env), env)

RECURSIVE FormatText(_, _, _)
FormatText(format, refs, env) ==
    IF format = << >> THEN Values(<< >>)
    ELSE Then(FormatItem(format[1], refs, env), FormatText(Tail(format), refs, env))

AsString(r) == IF r.error THEN Error ELSE Values(<<Str(r.v)>>)

\* What the values r of the patterns inside c become.
Applied(c, r) ==
    IF c.kind = "Cnum" /\ c.v = Num(0) THEN Values(<< >>)
    ELSE IF r.error THEN Error
    ELSE CASE c.kind = "Cgroup" -> r
           [] c.kind = "Cfunction" -> Values(Call(c.v, r.v))
           [] c.kind = "Cquery" -> Values(SetToSeq(Lookup(c.v, r.v[1])))
           [] c.kind = "Cnum" ->
                IF Len(r.v) < c.v[2] THEN Error ELSE Values(<<r.v[c.v[2]]>>)

\* The values of the last of the captures before that is a group of that name.
Nearest(before, name) ==
    SelectLastInSeq(before, LAMBDA d : d.kind = "Cgroup" /\ d.v = name)
BackValues(before, k, env) ==
    IF k = 0 THEN Error ELSE Nested(before[k], SubSeq(before, 1, k - 1), env)

ValuesOf(c, before, env) ==
    CASE c.kind = "Cposition" -> Values(<<Num(c.s + 1)>>)
      [] c.kind \in {"Cconst", "Cruntime"} -> Values(<<c.v>>)
      [] c.kind = "Carg" ->
           IF c.v[2] > Len(env.args) THEN Error ELSE Values(<<env.args[c.v[2]]>>)
      [] c.kind = "Csimple" ->
           Then(Values(<<Whole(c, env)>>), AllValues(c.sub, before, env))
      [] Named(c) -> Values(<< >>)
      [] c.kind \in {"Cgroup", "Cfunction", "Cquery", "Cnum"} /\ ~Named(c) ->
           Applied(c, Nested(c, before, env))
      [] c.kind = "Cbackref" -> BackValues(before, Nearest(before, c.v), env)
      [] c.kind = "Ctable" -> TableOf(c.sub, before, env, Values(<<Tab(<< >>, {})>>))
      [] c.kind = "Cfold" ->
           IF c.sub = << >> THEN Error
           ELSE FoldOf(c.v, FirstValue(ValuesOf(c.sub[1], before, env)),
                       Tail(c.sub), Append(before, c.sub[1]), env)
      [] c.kind = "Cstring" ->
           AsString(FormatText(c.v[2], <<[c |-> c, before |-> before]>>
                                          \o Numbered(c.sub, before), env))
      [] c.kind = "Csubst" -> AsString(SubstText(c, c.sub, c.s, before, env))

-----------------------------------------------------------------------------
\* Matches.  rules: the expressions of the grammar around, by name.

Matched(i, caps) == [ok |-> "yes", i |-> i, caps |-> caps]
NoMatch == [ok |-> "no", i |-> 0, caps |-> << >>]
Raised == [ok |-> "error", i |-> 0, caps |-> << >>]
When(condition, i) == IF condition THEN Matched(i, << >>) ELSE NoMatch
Both(r, q) ==
    IF r.ok # "yes" THEN r ELSE IF q.ok # "yes" THEN q
    ELSE Matched(q.i, r.caps \o q.caps)

CaptureKinds == {"Csubst", "Ctable", "Cgroup", "Cfold", "Csimple",
                 "Cfunction", "Cquery", "Cstring", "Cnum"}

RECURSIVE Match(_, _, _, _, _), Repeat(_, _, _, _, _, _, _)

\* x from low to high times, as often as it matches; high < 0 is no limit.
Repeated(r, x, low, high, rules, env, i, before) ==
    IF r.ok = "no" /\ low <= 0 THEN Matched(i, << >>)
    ELSE Both(r, Repeat(x, low - 1, high - 1, rules, env, r.i, before \o r.caps))
Repeat(x, low, high, rules, env, i, before) ==
    IF high = 0 THEN Matched(i, << >>)
    ELSE Repeated(Match(x, rules, env, i, before), x, low, high, rules, env, i, before)

\* The match r from position i after the function f has had its say.
Landed(i, from, to, vs, env) ==
    IF to < from \/ to > Len(env.o) THEN Raised
    ELSE Matched(to, IF vs = << >> THEN << >>
                     ELSE <<Capture("Cgroup", Nil, i, to,
                                    [k \in DOMAIN vs |->
                                        Capture("Cruntime", vs[k], to, to, << >>)])>>)
Continued(i, from, result, env) ==
    IF result = << >> \/ result[1] = Bool(FALSE) THEN NoMatch
    ELSE Landed(i, from, IF result[1] = Bool(TRUE) THEN from ELSE result[1][2] - 1,
                Tail(result), env)
Called(i, from, f, vs, env) ==
    IF vs.error THEN Raised
    ELSE Continued(i, from, Call(f, <<Str(env.o), Num(from + 1)>> \o vs.v), env)
MatchTime(r, f, env, i, before) ==
    IF r.ok # "yes" THEN r
    ELSE Called(i, r.i, f, Nested(Capture("Cgroup", Nil, i, r.i, r.caps), before, env), env)

Literal(x, o, i) ==
    CASE x.op = "string" ->
           When(i + Len(x.v[2]) <= Len(o) /\ Slice(o, i, i + Len(x.v[2])) = x.v[2],
                i + Len(x.v[2]))
      [] x.op = "number" ->
           IF x.v[2] >= 0 THEN When(i + x.v[2] <= Len(o), i + x.v[2])
           ELSE When(i - x.v[2] > Len(o), i)
      [] x.op = "boolean" -> When(x.v[2], i)
      [] x.op = "set" -> When(i < Len(o) /\ \E c \in x.v[2] : o[i + 1] = c, i + 1)
      [] x.op = "range" ->
           When(i < Len(o) /\ \E k \in DOMAIN x.v[2] :
                    x.v[2][k][1] <= o[i + 1] /\ o[i + 1] <= x.v[2][k][2], i + 1)

\* A capture of no pattern.
Empty(x, i) ==
    IF x.op # "Cc" THEN Matched(i, <<Capture(x.op, x.v, i, i, << >>)>>)
    ELSE LET caps == [k \in DOMAIN x.v[2] |-> Capture("Cconst", x.v[2][k], i, i, << >>)]
         IN  Matched(i, IF Len(caps) <= 1 THEN caps
                        ELSE <<Capture("Cgroup", Nil, i, i, caps)>>)

Minus(r, q) == CASE q.ok = "yes" -> NoMatch [] q.ok = "no" -> r [] OTHER -> q

\* x when its first pattern matches as r.
Compound(x, r, rules, env, i, before) ==
    CASE x.op = "seq" -> Both(r, Match(x.args[2], rules, env, r.i, before \o r.caps))
      [] x.op = "choice" -> IF r.ok = "no" THEN Match(x.args[2], rules, env, i, before) ELSE r
      [] x.op = "sub" -> Minus(r, Match(x.args[2], rules, env, i, before))
      [] x.op = "and" -> IF r.ok = "yes" THEN Matched(i, << >>) ELSE r
      [] x.op = "not" -> IF r.ok = "error" THEN r ELSE When(r.ok = "no", i)
      [] x.op \in {"Cmt", "function"} -> MatchTime(r, x.v, env, i, before)
      [] x.op \in CaptureKinds ->
           IF r.ok # "yes" THEN r
           ELSE Matched(r.i, <<Capture(x.op, x.v, i, r.i, r.caps)>>)

EndsAt(q, i) == q.ok = "yes" /\ q.i = i
InGrammar(x, mine, env, i, before) == Match(mine[x.v[2][1]], mine, env, i, before)

Match(x, rules, env, i, before) ==
    CASE x.op \in {"string", "number", "boolean", "set", "range"} -> Literal(x, env.o, i)
      [] x.op \in {"Cposition", "Carg", "Cbackref", "Cc"} -> Empty(x, i)
      [] x.op = "star" ->
           Repeat(x.args[1], IF x.v[2] >= 0 THEN x.v[2] ELSE 0,
                  IF x.v[2] >= 0 THEN -1 ELSE -x.v[2], rules, env, i, before)
      [] x.op = "behind" ->
           When(\E j \in 0 .. i : EndsAt(Match(x.args[1], rules, env, j, before), i), i)
      [] x.op = "V" -> Match(rules[x.v], rules, env, i, before)
      [] x.op = "table" ->
           InGrammar(x, [n \in Range(x.v[2]) |->
                            x.args[CHOOSE k \in DOMAIN x.v[2] : x.v[2][k] = n]],
                     env, i, before)
      [] OTHER ->
           Compound(x, IF x.args = << >> THEN Matched(i, << >>)
                       ELSE Match(x.args[1], rules, env, i, before),
                    rules, env, i, before)

\* What match returns: nil, the values of the captures, or where the match ended.
Returned(m, r) ==
    IF m.ok = "no" THEN <<"values", <<Nil>>>>
    ELSE IF m.ok = "error" \/ r.error THEN <<"error">>
    ELSE <<"values", IF r.v = << >> THEN <<Num(m.i + 1)>> ELSE r.v>>
ResultOf(m, env) == Returned(m, AllValues(m.caps, << >>, env))
Result(x, env, i) == ResultOf(Match(x, [n \in {} |-> x], env, i, << >>), env)
=============================================================================
