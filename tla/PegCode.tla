------------------------------- MODULE PegCode -------------------------------
(***************************************************************************)
(* The compiler of lpeg (lpcode.c): a tree becomes instructions for the    *)
(* machine of PegMatch.                                                    *)
(*                                                                         *)
(* A code is a sequence of slots as in the library: an instruction with a  *)
(* label is followed by its offset, one with a character set by the set.   *)
(* An operator takes the code so far, as c, and returns the longer code.   *)
(* Slots are counted from 1, and 0 stands for no instruction.              *)
(***************************************************************************)
EXTENDS PegTree

CONSTANTS MAXOFF         \* characters of a full capture

NOINST == 0
CHARSETINSTSIZE == 2     \* the instruction and the slot of its set

Labelled == {"ITestChar", "ITestAny", "IChoice", "IJmp", "ICall", "IOpenCall",
             "ICommit", "IPartialCommit", "IBackCommit"}

sizei(op) ==
    CASE op \in {"ISet", "ISpan"} -> CHARSETINSTSIZE
      [] op = "ITestSet" -> CHARSETINSTSIZE + 1
      [] op \in Labelled -> 2
      [] OTHER -> 1

\* aux is a character, a number of characters or the offset of a capture.
Slot(op, aux) ==
    [op |-> op, aux |-> aux, kind |-> "", key |-> 0, offset |-> 0, buff |-> {}]

addinstruction(c, op, aux) == Append(c, Slot(op, aux))
addoffsetinst(c, op) == c \o <<Slot(op, 0), Slot("", 0)>>
addinstcap(c, op, cap, key, off) ==
    Append(c, [Slot(op, off) EXCEPT !.kind = cap, !.key = key])
addcharset(c, cs) == Append(c, [Slot("", 0) EXCEPT !.buff = cs])

gethere(c) == Len(c) + 1
target(c, i) == i + c[i + 1].offset
jumptothere(c, i, there) ==
    IF i = NOINST THEN c ELSE [c EXCEPT ![i + 1].offset = there - i]
jumptohere(c, i) == jumptothere(c, i, gethere(c))

-----------------------------------------------------------------------------
\* Analyses

charsettype(cs) ==
    CASE cs = {} -> "IFail" [] cs = Char -> "IAny"
      [] Cardinality(cs) = 1 -> "IChar" [] OTHER -> "ISet"
TheChar(cs) == CHOOSE ch \in cs : TRUE

First(set, e) == [set |-> set, e |-> e]

\* The characters that t can start with when those in follow come after it, and why
\* no test for them may stand before t: 1, t matches the empty string; 2, a function
\* has to be called.
RECURSIVE getfirst(_, _, _)
getfirst(t, G, follow) ==
    CASE IsCharset(t) -> First(tocharset(t), {})
      [] t.tag = "True" -> First(follow, {1})
      [] t.tag = "False" -> First({}, {})
      [] t.tag = "Choice" ->
           LET f1 == getfirst(t.sib[1], G, follow)
               f2 == getfirst(t.sib[2], G, follow)
           IN  First(f1.set \cup f2.set, f1.e \cup f2.e)
      [] t.tag = "Seq" ->
           IF ~nullable(t.sib[1], G) THEN getfirst(t.sib[1], G, Char)
           ELSE LET f2 == getfirst(t.sib[2], G, follow)
                    f1 == getfirst(t.sib[1], G, f2.set)
                IN  First(f1.set, IF f1.e = {} THEN {}
                                  ELSE IF 2 \in f1.e \cup f2.e THEN {2} ELSE f2.e)
      [] t.tag = "Rep" -> First(getfirst(t.sib[1], G, follow).set \cup follow, {1})
      [] t.tag \in {"Capture", "Rule"} -> getfirst(t.sib[1], G, follow)
      [] t.tag = "Grammar" -> getfirst(t.sib[1], t.sib, follow)
      [] t.tag = "RunTime" ->
           LET f == getfirst(t.sib[1], G, Char)
           IN  First(f.set, IF f.e = {} THEN {} ELSE {2})
      [] t.tag = "Call" -> getfirst(G[t.n], G, follow)
      [] t.tag = "And" ->
           LET f == getfirst(t.sib[1], G, follow) IN First(f.set \cap follow, f.e)
      [] t.tag = "Not" /\ IsCharset(t.sib[1]) ->
           First(Char \ tocharset(t.sib[1]), {1})
      [] OTHER -> First(follow, getfirst(t.sib[1], G, follow).e \cup {1})

\* Whether t can fail only on the next character.
RECURSIVE headfail(_, _)
\* Mutated form of headfail: the second of a sequence may fail as well.
headfail_first(t, G) ==
    CASE t.tag \in {"Char", "Set", "Any", "False"} -> TRUE
      [] t.tag \in {"True", "Rep", "RunTime", "Not", "Behind"} -> FALSE
      [] t.tag = "Grammar" -> headfail(t.sib[1], t.sib)
      [] t.tag = "Call" -> headfail(G[t.n], G)
      [] t.tag = "Choice" -> headfail(t.sib[1], G) /\ headfail(t.sib[2], G)
      [] OTHER -> headfail(t.sib[1], G)

headfail(t, G) ==
    CASE t.tag \in {"Char", "Set", "Any", "False"} -> TRUE
      [] t.tag \in {"True", "Rep", "RunTime", "Not", "Behind"} -> FALSE
      [] t.tag \in {"Capture", "Rule", "And"} -> headfail(t.sib[1], G)
      [] t.tag = "Grammar" -> headfail(t.sib[1], t.sib)
      [] t.tag = "Call" -> headfail(G[t.n], G)
      [] t.tag = "Seq" -> nofail(t.sib[2], G) /\ headfail(t.sib[1], G)
      [] t.tag = "Choice" -> headfail(t.sib[1], G) /\ headfail(t.sib[2], G)

RECURSIVE needfollow(_)
needfollow(t) ==
    \/ t.tag \in {"Choice", "Rep"}
    \/ t.tag = "Capture" /\ needfollow(t.sib[1])
    \/ t.tag = "Seq" /\ needfollow(t.sib[2])

-----------------------------------------------------------------------------
\* Single instructions.  tt is a test that protects the code, or NOINST.

codechar(c, ch, tt) ==
    IF tt # NOINST /\ c[tt].op = "ITestChar" /\ c[tt].aux = ch
    THEN addinstruction(c, "IAny", 0) ELSE addinstruction(c, "IChar", ch)

codecharset(c, cs, tt) ==
    LET op == charsettype(cs)
    IN  CASE op = "IChar" -> codechar(c, TheChar(cs), tt)
          [] op = "ISet" ->
               IF tt # NOINST /\ c[tt].op = "ITestSet" /\ c[tt + 2].buff = cs
               THEN addinstruction(c, "IAny", 0)
               ELSE addcharset(addinstruction(c, "ISet", 0), cs)
          [] OTHER -> addinstruction(c, op, 0)

\* The code with a test for the characters of f, and where it is.
codetestset(c, f) ==
    LET op == charsettype(f.set)
        i == gethere(c)
    IN  IF f.e # {} THEN [c |-> c, i |-> NOINST]
        ELSE [i |-> i, c |->
              CASE op = "IFail" -> addoffsetinst(c, "IJmp")
                [] op = "IAny" -> addoffsetinst(c, "ITestAny")
                [] op = "IChar" ->
                     [addoffsetinst(c, "ITestChar") EXCEPT ![i].aux = TheChar(f.set)]
                [] op = "ISet" -> addcharset(addoffsetinst(c, "ITestSet"), f.set)]

RECURSIVE finaltarget(_, _)
finaltarget(c, i) == IF c[i].op = "IJmp" THEN finaltarget(c, target(c, i)) ELSE i
finallabel(c, i) == finaltarget(c, target(c, i))

-----------------------------------------------------------------------------
\* Code of a tree.  opt: the last thing inside an optional pattern, whose choice the
\* code can reuse; fl: what can follow.

RECURSIVE codegen(_, _, _, _, _, _)

codebehind(c, t, G) ==
    codegen(IF t.n > 0 THEN addinstruction(c, "IBehind", t.n) ELSE c,
            t.sib[1], G, FALSE, NOINST, Char)

\* One of three: a test decides; a choice in place is reused; test and choice.
codechoice(c, p1, p2, G, opt, fl) ==
    LET emptyp2 == p2.tag = "True"
        f1 == getfirst(p1, G, Char)
        f2 == getfirst(p2, G, fl)
        ByTest ==
            LET test == codetestset(c, First(f1.set, {}))
                c1 == codegen(test.c, p1, G, FALSE, test.i, fl)
                jmp == IF emptyp2 THEN NOINST ELSE gethere(c1)
                c2 == IF emptyp2 THEN c1 ELSE addoffsetinst(c1, "IJmp")
            IN  jumptohere(codegen(jumptohere(c2, test.i), p2, G, opt, NOINST, fl), jmp)
        Reused ==
            codegen(jumptohere(addoffsetinst(c, "IPartialCommit"), gethere(c)),
                    p1, G, TRUE, NOINST, Char)
        Chosen ==
            LET test == codetestset(c, f1)
                pchoice == gethere(test.c)
                c1 == codegen(addoffsetinst(test.c, "IChoice"), p1, G, emptyp2,
                              test.i, Char)
                pcommit == gethere(c1)
                c2 == jumptohere(addoffsetinst(c1, "ICommit"), pchoice)
            IN  jumptohere(codegen(jumptohere(c2, test.i), p2, G, opt, NOINST, fl),
                           pcommit)
    IN  IF headfail(p1, G) \/ (f1.e = {} /\ f1.set \cap f2.set = {}) THEN ByTest
        ELSE IF opt /\ emptyp2 THEN Reused ELSE Chosen

\* A pattern of fixed length without captures goes back what it matched.
codeand(c, t, G, tt) ==
    LET n == fixedlen(t, G)
    IN  IF 0 <= n /\ n <= MAXBEHIND /\ ~hascaptures(t, G)
        THEN LET c1 == codegen(c, t, G, FALSE, tt, Char)
             IN  IF n > 0 THEN addinstruction(c1, "IBehind", n) ELSE c1
        ELSE LET pchoice == gethere(c)
                 c1 == codegen(addoffsetinst(c, "IChoice"), t, G, FALSE, tt, Char)
                 pcommit == gethere(c1)
                 c2 == jumptohere(addoffsetinst(c1, "IBackCommit"), pchoice)
             IN  jumptohere(addinstruction(c2, "IFail", 0), pcommit)

codecapture(c, t, G, tt, fl) ==
    LET body == t.sib[1]
        len == fixedlen(body, G)
        Body(code) == codegen(code, body, G, FALSE, tt, fl)
    IN  IF 0 <= len /\ len <= MAXOFF /\ ~hascaptures(body, G)
        THEN addinstcap(Body(c), "IFullCapture", t.cap, t.key, len)
        ELSE addinstcap(Body(addinstcap(c, "IOpenCapture", t.cap, t.key, 0)),
                        "ICloseCapture", "Cclose", 0, 0)

coderuntime(c, t, G, tt) ==
    addinstcap(codegen(addinstcap(c, "IOpenCapture", "Cgroup", t.key, 0),
                       t.sib[1], G, FALSE, tt, Char),
               "ICloseRunTime", "Cclose", 0, 0)

\* A span; a loop on a test; or a choice that every round renews.
coderep(c, t, G, opt, fl) ==
    LET f == getfirst(t, G, Char)
        Loop ==
            LET test == codetestset(c, First(f.set, {}))
                c1 == codegen(test.c, t, G, FALSE, test.i, Char)
                jmp == gethere(c1)
                c2 == jumptohere(addoffsetinst(c1, "IJmp"), test.i)
            IN  jumptothere(c2, jmp, test.i)
        Chosen ==
            LET test == codetestset(c, f)
                here == gethere(test.c)
                pchoice == IF opt THEN NOINST ELSE here
                c1 == IF opt THEN jumptohere(addoffsetinst(test.c, "IPartialCommit"), here)
                      ELSE addoffsetinst(test.c, "IChoice")
                l2 == gethere(c1)
                c2 == codegen(c1, t, G, FALSE, NOINST, Char)
                c3 == jumptothere(addoffsetinst(c2, "IPartialCommit"), gethere(c2), l2)
            IN  jumptohere(jumptohere(c3, pchoice), test.i)
    IN  IF IsCharset(t) THEN addcharset(addinstruction(c, "ISpan", 0), tocharset(t))
        ELSE IF headfail(t, G) \/ (f.e = {} /\ f.set \cap fl = {}) THEN Loop
        ELSE Chosen

codenot(c, t, G) ==
    LET test == codetestset(c, getfirst(t, G, Char))
        pchoice == gethere(test.c)
        c1 == codegen(addoffsetinst(test.c, "IChoice"), t, G, FALSE, NOINST, Char)
    IN  IF headfail(t, G) THEN jumptohere(addinstruction(test.c, "IFail", 0), test.i)
        ELSE jumptohere(jumptohere(addinstruction(c1, "IFailTwice", 0), pchoice), test.i)

\* The open calls from slot i on become calls, or jumps when they are the last thing
\* of their rule.
RECURSIVE correctcalls(_, _, _)
correctcalls(c, positions, i) ==
    IF i > Len(c) THEN c
    ELSE LET last == c[finaltarget(c, i + 2)].op = "IRet"
             call == jumptothere([c EXCEPT ![i].op = IF last THEN "IJmp" ELSE "ICall"],
                                 i, positions[c[i].key])
             c1 == IF c[i].op = "IOpenCall" THEN call ELSE c
         IN  correctcalls(c1, positions, i + sizei(c1[i].op))

\* The code of the rules and their positions, appended to what is there.
RECURSIVE coderules(_, _, _)
coderules(c, positions, G) ==
    LET r == Len(positions) + 1
    IN  IF r > Len(G) THEN [c |-> c, positions |-> positions]
        ELSE coderules(addinstruction(codegen(c, G[r].sib[1], G, FALSE, NOINST, Char),
                                      "IRet", 0),
                       Append(positions, gethere(c)), G)

\* What follows the grammar is not there yet: the jump to it is patched before the
\* calls are corrected, and no rule of the grammar ends in it.
codegrammar(c, t) ==
    LET firstcall == gethere(c)
        jumptoend == firstcall + 2
        start == firstcall + 4
        c1 == addoffsetinst(addoffsetinst(c, "ICall"), "IJmp")
        rules == coderules(jumptohere(c1, firstcall), << >>, t.sib)
    IN  correctcalls(jumptohere(rules.c, jumptoend), rules.positions, start)

codecall(c, t) ==
    [addoffsetinst(c, "IOpenCall") EXCEPT ![gethere(c)].key = t.n]

\* The code of the first of a sequence, and the test that protects the second.
codeseq1(c, p1, p2, G, tt, fl) ==
    [c |-> codegen(c, p1, G, FALSE, tt,
                   IF needfollow(p1) THEN getfirst(p2, G, fl).set ELSE Char),
     tt |-> IF fixedlen(p1, G) # 0 THEN NOINST ELSE tt]

codegen(c, t, G, opt, tt, fl) ==
    CASE t.tag = "Char" -> codechar(c, t.n, tt)
      [] t.tag = "Any" -> addinstruction(c, "IAny", 0)
      [] t.tag = "Set" -> codecharset(c, t.cs, tt)
      [] t.tag = "True" -> c
      [] t.tag = "False" -> addinstruction(c, "IFail", 0)
      [] t.tag = "Choice" -> codechoice(c, t.sib[1], t.sib[2], G, opt, fl)
      [] t.tag = "Rep" -> coderep(c, t.sib[1], G, opt, fl)
      [] t.tag = "Behind" -> codebehind(c, t, G)
      [] t.tag = "Not" -> codenot(c, t.sib[1], G)
      [] t.tag = "And" -> codeand(c, t.sib[1], G, tt)
      [] t.tag = "Capture" -> codecapture(c, t, G, tt, fl)
      [] t.tag = "RunTime" -> coderuntime(c, t, G, tt)
      [] t.tag = "Grammar" -> codegrammar(c, t)
      [] t.tag = "Call" -> codecall(c, t)
      [] t.tag = "Seq" ->
           LET first == codeseq1(c, t.sib[1], t.sib[2], G, tt, fl)
           IN  codegen(first.c, t.sib[2], G, opt, first.tt, fl)

-----------------------------------------------------------------------------
\* A jump to a jump goes to where that one goes, and a jump to an instruction that
\* leaves anyway becomes that instruction.
Ending == {"IRet", "IFail", "IFailTwice", "IEnd"}
Committing == {"ICommit", "IPartialCommit", "IBackCommit"}
RECURSIVE peephole(_, _)
peephole(c, i) ==
    IF i > Len(c) THEN c
    ELSE LET ft == finaltarget(c, i)
         IN  CASE c[i].op \in (Labelled \ {"IJmp", "IOpenCall"}) \cup {"ITestSet"} ->
                    peephole(jumptothere(c, i, finallabel(c, i)), i + sizei(c[i].op))
               [] c[i].op = "IJmp" /\ c[ft].op \in Ending ->
                    peephole([c EXCEPT ![i] = c[ft], ![i + 1] = Slot("IAny", 0)], i + 1)
               [] c[i].op = "IJmp" /\ c[ft].op \in Committing ->
                    peephole(jumptothere([c EXCEPT ![i] = c[ft]], i, finallabel(c, ft)), i)
               [] c[i].op = "IJmp" /\ c[ft].op \notin Ending \cup Committing ->
                    peephole(jumptothere(c, i, ft), i + 2)
               [] OTHER -> peephole(c, i + sizei(c[i].op))

compile(t) ==
    peephole(addinstruction(codegen(<< >>, t, << >>, FALSE, NOINST, Char), "IEnd", 0), 1)
=============================================================================
