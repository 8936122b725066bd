----------------------------- MODULE PegCaptures -----------------------------
(***************************************************************************)
(* The values of the captures of a match (lpcap.c), from the list that the *)
(* machine leaves: an entry opens a capture, closes one, or is a capture   *)
(* of known size.                                                          *)
(*                                                                         *)
(* cs, the state of the evaluation, has the list, the ktable, the subject, *)
(* the values on the Lua stack that functions returned while the match was *)
(* made, and the extra arguments of the match.  The operators take the     *)
(* index of an entry and return the values, the index of the entry after,  *)
(* and whether an error was raised.                                        *)
(***************************************************************************)
EXTENDS PegSemantics, PegTree

CONSTANTS MAXSTRCAPS     \* captures that a string capture can name, and itself

Entry(kind, idx, siz, s) == [kind |-> kind, idx |-> idx, siz |-> siz, s |-> s]

isclosecap(c) == c.kind = "Cclose"
isfullcap(c) == c.siz # 0
closeaddr(c) == c.s + c.siz - 1

R(v, next) == [v |-> v, next |-> next, error |-> FALSE]
RError == [v |-> << >>, next |-> 0, error |-> TRUE]

luaval(cs, i) == Value(cs.ktable, cs.cap[i].idx)

\* The entry that opens what is closed at i, n closes being open in between.
RECURSIVE OpenBefore(_, _, _)
OpenBefore(cap, i, n) ==
    CASE isclosecap(cap[i]) -> OpenBefore(cap, i - 1, n + 1)
      [] isfullcap(cap[i]) -> OpenBefore(cap, i - 1, n)
      [] OTHER -> IF n = 0 THEN i ELSE OpenBefore(cap, i - 1, n - 1)
findopen(cap, i) == OpenBefore(cap, i - 1, 0)

RECURSIVE CloseFrom(_, _, _)
CloseFrom(cap, i, n) ==
    CASE isclosecap(cap[i]) -> IF n = 0 THEN i ELSE CloseFrom(cap, i + 1, n - 1)
      [] isfullcap(cap[i]) -> CloseFrom(cap, i + 1, n)
      [] OTHER -> CloseFrom(cap, i + 1, n + 1)
nextcap(cap, i) == IF isfullcap(cap[i]) THEN i + 1 ELSE CloseFrom(cap, i + 1, 0) + 1

\* The Lua stack index of the first runtime capture from one entry to before another.
finddyncap(cap, from, to) ==
    LET found == {i \in from .. to - 1 : cap[i].kind = "Cruntime"}
    IN  IF found = {} THEN 0 ELSE cap[CHOOSE i \in found : \A j \in found : i <= j].idx

-----------------------------------------------------------------------------
RECURSIVE pushcapture(_, _), addonestring(_, _)

\* All values up to the entry that closes the capture around.
RECURSIVE PushUntilClose(_, _)
Before(r, rest) == IF r.error THEN r ELSE [rest EXCEPT !.v = r.v \o @]
PushAfter(cs, r) == Before(r, PushUntilClose(cs, r.next))
PushUntilClose(cs, i) ==
    IF isclosecap(cs.cap[i]) THEN R(<< >>, i) ELSE PushAfter(cs, pushcapture(cs, i))

\* r: the values inside the capture that i opens, up to where it closes.
WithWhole(cs, i, r, addextra) ==
    IF r.error THEN r
    ELSE R(r.v \o IF addextra \/ r.v = << >>
                  THEN <<Str(Slice(cs.o, cs.cap[i].s, cs.cap[r.next].s))>> ELSE << >>,
           r.next + 1)
pushnestedvalues(cs, i, addextra) ==
    IF isfullcap(cs.cap[i])
    THEN R(<<Str(Slice(cs.o, cs.cap[i].s, closeaddr(cs.cap[i])))>>, i + 1)
    ELSE WithWhole(cs, i, PushUntilClose(cs, i + 1), addextra)

OnlyFirst(r) == IF r.error THEN r ELSE [r EXCEPT !.v = <<@[1]>>]
pushonenestedvalue(cs, i) == OnlyFirst(pushnestedvalues(cs, i, FALSE))

\* A complete group of that name before i: those that are open are skipped.
RECURSIVE findback(_, _, _)
findback(cs, i, name) ==
    LET at == IF isclosecap(cs.cap[i]) THEN findopen(cs.cap, i) ELSE i
    IN  IF i = 0 THEN 0
        ELSE IF /\ isclosecap(cs.cap[i]) \/ isfullcap(cs.cap[i])
                /\ cs.cap[at].kind = "Cgroup" /\ luaval(cs, at) = name
        THEN at ELSE findback(cs, at - 1, name)

BackTo(cs, group, i) ==
    IF group = 0 THEN RError
    ELSE [pushnestedvalues(cs, group, FALSE) EXCEPT !.next = i + 1]
backrefcap(cs, i) == BackTo(cs, findback(cs, i - 1, luaval(cs, i)), i)

IsNamed(cs, i) == cs.cap[i].kind = "Cgroup" /\ cs.cap[i].idx # 0

RECURSIVE FillTable(_, _, _)
FillAfter(cs, i, table, r) ==
    IF r.error THEN r
    ELSE FillTable(cs, r.next,
                   IF IsNamed(cs, i) THEN Assign(table, luaval(cs, i), r.v[1])
                   ELSE Tab(table[2] \o r.v, table[3]))
FillTable(cs, i, table) ==
    IF isclosecap(cs.cap[i]) THEN R(<<table>>, i + 1)
    ELSE FillAfter(cs, i, table, IF IsNamed(cs, i) THEN pushonenestedvalue(cs, i)
                                 ELSE pushcapture(cs, i))
tablecap(cs, i) ==
    IF isfullcap(cs.cap[i]) THEN R(<<Tab(<< >>, {})>>, i + 1)
    ELSE FillTable(cs, i + 1, Tab(<< >>, {}))

Found(table, r) == IF r.error THEN r ELSE R(SetToSeq(Lookup(table, r.v[1])), r.next)
querycap(cs, i) == Found(luaval(cs, i), pushonenestedvalue(cs, i))

RECURSIVE FoldRest(_, _, _, _)
FoldAfter(cs, f, r, acc) ==
    IF r.error THEN r
    ELSE FoldRest(cs, f, r.next, FirstOrNil(Call(f, <<acc>> \o r.v)))
FoldRest(cs, f, i, acc) ==
    IF isclosecap(cs.cap[i]) THEN R(<<acc>>, i + 1)
    ELSE FoldAfter(cs, f, pushcapture(cs, i), acc)
FoldFrom(cs, f, first) ==
    IF first.error \/ first.v = << >> THEN RError
    ELSE FoldRest(cs, f, first.next, first.v[1])
foldcap(cs, i) ==
    IF isfullcap(cs.cap[i]) \/ isclosecap(cs.cap[i + 1]) THEN RError
    ELSE FoldFrom(cs, luaval(cs, i), pushcapture(cs, i + 1))

CallWith(f, r) == IF r.error THEN r ELSE R(Call(f, r.v), r.next)
functioncap(cs, i) == CallWith(luaval(cs, i), pushnestedvalues(cs, i, FALSE))

Numth(r, idx) ==
    IF r.error \/ Len(r.v) < idx THEN RError ELSE R(<<r.v[idx]>>, r.next)
numcap(cs, i) ==
    IF cs.cap[i].idx = 0 THEN R(<< >>, nextcap(cs.cap, i))
    ELSE Numth(pushnestedvalues(cs, i, FALSE), cs.cap[i].idx)

\* The function of the capture that closes behind the last entry is called at s.  What
\* functions inside returned leaves the stack.
RuntimeResult(cs, open, id, r, s) ==
    [error |-> r.error, n |-> Len(cs.cap) + 1 - open,
     results |-> Call(luaval(cs, open), <<Str(cs.o), Num(s + 1)>> \o r.v),
     dyn |-> IF id > 0 THEN SubSeq(cs.dyn, 1, id - 1) ELSE cs.dyn]
RuntimeFrom(cs, list, open, s) ==
    RuntimeResult(cs, open, finddyncap(list, open, Len(list)),
                  pushnestedvalues([cs EXCEPT !.cap = list], open, FALSE), s)
RuntimeOf(cs, list, s) == RuntimeFrom(cs, list, findopen(list, Len(list)), s)
runtimecap(cs, s) == RuntimeOf(cs, Append(cs.cap, Entry("Cclose", 0, 0, s)), s)

-----------------------------------------------------------------------------
\* String and substitution captures

StrAux(isstring, s, e, cp) == [isstring |-> isstring, s |-> s, e |-> e, cp |-> cp]

RECURSIVE getstrcaps(_, _, _), StrCapsUntilClose(_, _, _)
StrCapsUntilClose(cs, i, cps) ==
    CASE isclosecap(cs.cap[i]) -> [cps |-> cps, next |-> i + 1]
      [] ~isclosecap(cs.cap[i]) /\ Len(cps) >= MAXSTRCAPS ->
           StrCapsUntilClose(cs, nextcap(cs.cap, i), cps)
      [] OTHER ->
           LET r == getstrcaps(cs, i, cps)
           IN  IF cs.cap[i].kind = "Csimple" THEN StrCapsUntilClose(cs, r.next, r.cps)
               ELSE StrCapsUntilClose(cs, nextcap(cs.cap, i),
                                      Append(cps, StrAux(FALSE, 0, 0, i)))
getstrcaps(cs, i, cps) ==
    LET k == Len(cps) + 1
        own == Append(cps, StrAux(TRUE, cs.cap[i].s, 0, 0))
        r == IF isfullcap(cs.cap[i]) THEN [cps |-> own, next |-> i + 1]
             ELSE StrCapsUntilClose(cs, i + 1, own)
    IN  [r EXCEPT !.cps[k].e = closeaddr(cs.cap[r.next - 1])]

\* The format is the capture's value; its text is in v.
FormatPart(cs, a, r) ==
    IF a.isstring THEN R(Slice(cs.o, a.s, a.e), 0)
    ELSE IF r.error \/ r.v = << >> THEN RError ELSE R(r.v[1], 0)
FormatChar(cs, x, cps) ==
    IF x >= 0 THEN R(<<x>>, 0)
    ELSE IF -x > Len(cps) THEN RError
    ELSE FormatPart(cs, cps[-x], addonestring(cs, cps[-x].cp))

RECURSIVE FormatFrom(_, _, _)
FormatFrom(cs, format, caps) ==
    IF format = << >> THEN R(<< >>, caps.next)
    ELSE Before(FormatChar(cs, format[1], caps.cps), FormatFrom(cs, Tail(format), caps))
stringcap(cs, i) == FormatFrom(cs, luaval(cs, i)[2], getstrcaps(cs, i, << >>))

RECURSIVE SubstFrom(_, _, _, _)
SubstAt(cs, i, r, b) ==
    IF r.error THEN r
    ELSE IF r.v = << >> THEN SubstFrom(cs, r.next, cs.cap[i].s, b)
    ELSE SubstFrom(cs, r.next, closeaddr(cs.cap[r.next - 1]), b \o r.v[1])
SubstFrom(cs, i, curr, b) ==
    IF isclosecap(cs.cap[i]) THEN R(b \o Slice(cs.o, curr, cs.cap[i].s), i + 1)
    ELSE SubstAt(cs, i, addonestring(cs, i), b \o Slice(cs.o, curr, cs.cap[i].s))
substcap(cs, i) ==
    IF isfullcap(cs.cap[i]) THEN R(Slice(cs.o, cs.cap[i].s, closeaddr(cs.cap[i])), i + 1)
    ELSE SubstFrom(cs, i + 1, cs.cap[i].s, << >>)

OneString(r) == IF r.error THEN r ELSE [r EXCEPT !.v = <<@>>]
FirstString(r) ==
    IF r.error \/ r.v = << >> THEN r
    ELSE IF IsText(r.v[1]) THEN [r EXCEPT !.v = <<Text(@[1])>>] ELSE RError

\* The text of a capture's first value, if it has one.
addonestring(cs, i) ==
    CASE cs.cap[i].kind = "Cstring" -> OneString(stringcap(cs, i))
      [] cs.cap[i].kind = "Csubst" -> OneString(substcap(cs, i))
      [] OTHER -> FirstString(pushcapture(cs, i))

LastFirst(r) == IF r.error THEN r ELSE [r EXCEPT !.v = <<Last(@)>> \o Front(@)]
StringValue(r) == IF r.error THEN r ELSE [r EXCEPT !.v = <<Str(@[1])>>]

pushcapture(cs, i) ==
    LET c == cs.cap[i]
    IN  CASE c.kind = "Cposition" -> R(<<Num(c.s + 1)>>, i + 1)
          [] c.kind = "Cconst" -> R(<<luaval(cs, i)>>, i + 1)
          [] c.kind = "Carg" ->
               IF c.idx > Len(cs.args) THEN RError ELSE R(<<cs.args[c.idx]>>, i + 1)
          [] c.kind = "Csimple" -> LastFirst(pushnestedvalues(cs, i, TRUE))
          [] c.kind = "Cruntime" -> R(<<cs.dyn[c.idx]>>, i + 1)
          [] c.kind \in {"Cstring", "Csubst"} -> StringValue(addonestring(cs, i))
          [] c.kind = "Cgroup" ->
               IF c.idx = 0 THEN pushnestedvalues(cs, i, FALSE)
               ELSE R(<< >>, nextcap(cs.cap, i))
          [] c.kind = "Cbackref" -> backrefcap(cs, i)
          [] c.kind = "Ctable" -> tablecap(cs, i)
          [] c.kind = "Cfunction" -> functioncap(cs, i)
          [] c.kind = "Cnum" -> numcap(cs, i)
          [] c.kind = "Cquery" -> querycap(cs, i)
          [] c.kind = "Cfold" -> foldcap(cs, i)

\* What match returns, when it ended at r.
Results(all, r) ==
    IF all.error THEN <<"error">>
    ELSE <<"values", IF all.v = << >> THEN <<Num(r + 1)>> ELSE all.v>>
getcaptures(cs, r) == Results(PushUntilClose(cs, 1), r)
=============================================================================
