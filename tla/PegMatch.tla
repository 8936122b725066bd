------------------------------ MODULE PegMatch ------------------------------
(***************************************************************************)
(* The machine of lpeg (lpvm.c) and lpeg.match around it (lptree.c): a     *)
(* pattern is compiled when it is first used, and its instructions are     *)
(* interpreted, one action for each.                                       *)
(*                                                                         *)
(* The machine backtracks: a choice on the stack keeps a position and the  *)
(* length of the capture list to return to.  Functions of match-time       *)
(* captures are called on the way, and what they return stays on the Lua   *)
(* stack, dyn, until the machine backtracks over it.                       *)
(***************************************************************************)
EXTENDS PegCode, PegCaptures

CONSTANTS Expressions,   \* what Lua programs write as patterns
          Subjects,      \* strings
          Starts,        \* initial positions, negative from the end
          Args,          \* extra arguments of match
          INITBACK,      \* first size of the stack
          MAXSTACK       \* its limit, lpeg.setmaxstack

PegAssumption ==
    /\ UCHAR_MAX \in Nat \ {0} /\ MAXBEHIND \in Nat /\ MAXOFF \in 0 .. UCHAR_MAX - 1
    /\ MAXRULES \in Nat \ {0} /\ USHRT_MAX \in Nat
    /\ INITBACK \in Nat \ {0} /\ MAXSTACK \in Nat \ {0}
    /\ \A subj \in Subjects : \A i \in DOMAIN subj : subj[i] \in Char

VARIABLES
    expr,           \* the expression
    pattern, program,
    phase,          \* "new", "compiled", "matching", "done", or "rejected"
    subj, startpos, \* the subject and the first position
    spos, ip,       \* s and p of match: position in the subject, and instruction
    stack,          \* what to return to: position (NOPOS for a call), instruction,
                    \* length of the capture list
    stacksize,
    capture, dyn,
    answer

vars == <<expr, pattern, program, phase, subj, startpos, spos, ip, stack, stacksize,
          capture, dyn, answer>>
machine == <<spos, ip, stack, stacksize, capture, dyn>>

NOPOS == -1
GIVEUP == 0
Frame(pos, to, level) == [s |-> pos, p |-> to, caplevel |-> level]
Env == [o |-> subj, args |-> Args]
CapState == [cap |-> capture, ktable |-> pattern.ktable, o |-> subj, dyn |-> dyn,
             args |-> Args]

\* The calls of the library that an expression stands for.
RECURSIVE Build(_)
Build(e) ==
    LET ps == [k \in DOMAIN e.args |-> Build(e.args[k])]
        p1 == ps[1]
    IN  IF \E k \in DOMAIN ps : ps[k].tree.tag = "Bad" THEN Bad
        ELSE CASE e.op = "string" -> P_string(e.v[2])
               [] e.op = "number" -> numtree(e.v[2])
               [] e.op = "boolean" -> P_boolean(e.v[2])
               [] e.op = "function" -> P_function(e.v)
               [] e.op = "table" -> P_table(e.v[2], ps)
               [] e.op = "set" -> lp_set(e.v[2])
               [] e.op = "range" -> lp_range(e.v[2])
               [] e.op = "seq" -> lp_seq(p1, ps[2])
               [] e.op = "choice" -> lp_choice(p1, ps[2])
               [] e.op = "star" -> lp_star(p1, e.v[2])
               [] e.op = "and" -> lp_and(p1)
               [] e.op = "not" -> lp_not(p1)
               [] e.op = "sub" -> lp_sub(p1, ps[2])
               [] e.op = "behind" -> lp_behind(p1)
               [] e.op = "V" -> lp_V(e.v)
               [] e.op = "Csimple" -> lp_simplecapture(p1)
               [] e.op = "Csubst" -> lp_substcapture(p1)
               [] e.op = "Ctable" -> lp_tablecapture(p1)
               [] e.op = "Cgroup" -> lp_groupcapture(p1, e.v)
               [] e.op = "Cfold" -> lp_foldcapture(p1, e.v)
               [] e.op \in {"Cfunction", "Cquery", "Cstring", "Cnum"} ->
                    lp_divcapture(p1, e.v)
               [] e.op = "Cposition" -> lp_poscapture
               [] e.op = "Carg" -> lp_argcapture(e.v[2])
               [] e.op = "Cbackref" -> lp_backref(e.v)
               [] e.op = "Cc" -> lp_constcapture(e.v[2])
               [] e.op = "Cmt" -> lp_matchtime(p1, e.v)

Init ==
    /\ expr \in Expressions
    /\ pattern = Build(expr) /\ program = << >>
    /\ phase = IF pattern.tree.tag = "Bad" THEN "rejected" ELSE "new"
    /\ subj = << >> /\ startpos = 0
    /\ spos = 0 /\ ip = 0 /\ stack = << >> /\ stacksize = INITBACK
    /\ capture = << >> /\ dyn = << >>
    /\ answer = << >>

\* The first use of a pattern compiles it.
compile_pattern ==
    /\ phase = "new"
    /\ pattern' = prepcompile(pattern)
    /\ program' = IF pattern'.tree.tag = "Bad" THEN << >> ELSE compile(pattern'.tree)
    /\ phase' = IF pattern'.tree.tag = "Bad" THEN "rejected" ELSE "compiled"
    /\ UNCHANGED <<expr, subj, startpos, machine, answer>>

initposition(ii, len) ==
    IF ii > 0 THEN IF ii <= len THEN ii - 1 ELSE len
    ELSE IF -ii <= len THEN len + ii ELSE 0

lp_match(subject, ii) ==
    /\ phase = "compiled"
    /\ subj' = subject
    /\ startpos' = initposition(ii, Len(subject))
    /\ spos' = startpos' /\ ip' = 1
    /\ stack' = <<Frame(startpos', GIVEUP, 0)>> /\ stacksize' = INITBACK
    /\ capture' = << >> /\ dyn' = << >>
    /\ phase' = "matching"
    /\ UNCHANGED <<expr, pattern, program, answer>>

-----------------------------------------------------------------------------
Fetch(op) == phase = "matching" /\ ip # GIVEUP /\ program[ip].op = op
Same == UNCHANGED <<expr, pattern, program, phase, subj, startpos, answer>>
Backtracking == UNCHANGED <<stack, stacksize>>
Captures == UNCHANGED <<capture, dyn>>

More == spos < Len(subj)
InSet(slot) == More /\ subj[spos + 1] \in program[slot].buff
IsChar == More /\ subj[spos + 1] = program[ip].aux
Go(to, pos) == ip' = to /\ spos' = pos
Label == target(program, ip)

Ends(r) ==
    /\ answer' = r /\ phase' = "done"
    /\ UNCHANGED <<expr, pattern, program, subj, startpos, machine>>

\* Mutated form of FailFrom: one value too many leaves the Lua stack.
FailFrom_two(stk, list, values) ==
    LET k == SelectLastInSeq(stk, LAMBDA f : f.s # NOPOS)
        id == finddyncap(list, stk[k].caplevel + 1, Len(list) + 1)
    IN  /\ Go(stk[k].p, stk[k].s)
        /\ stack' = SubSeq(stk, 1, k - 1)
        /\ dyn' = IF Len(values) > 0 /\ id > 0 THEN SubSeq(values, 1, id - 2) ELSE values
        /\ capture' = SubSeq(list, 1, stk[k].caplevel)
        /\ UNCHANGED stacksize

\* Back to the last choice: pending calls are dropped, and captures made since.
FailFrom(stk, list, values) ==
    LET k == SelectLastInSeq(stk, LAMBDA f : f.s # NOPOS)
        id == finddyncap(list, stk[k].caplevel + 1, Len(list) + 1)
    IN  /\ Go(stk[k].p, stk[k].s)
        /\ stack' = SubSeq(stk, 1, k - 1)
        /\ dyn' = IF Len(values) > 0 /\ id > 0 THEN SubSeq(values, 1, id - 1) ELSE values
        /\ capture' = SubSeq(list, 1, stk[k].caplevel)
        /\ UNCHANGED stacksize
fail == FailFrom(stack, capture, dyn)

IGiveup == phase = "matching" /\ ip = GIVEUP /\ Ends(<<"values", <<Nil>>>>)

IEnd ==
    /\ Fetch("IEnd")
    /\ Ends(getcaptures([CapState EXCEPT !.cap = Append(capture, Entry("Cclose", 0, 0, 0))], spos))

\* Consumes a character, or fails.
Consume(op, condition) ==
    /\ Fetch(op) /\ Same
    /\ IF condition THEN Go(ip + sizei(op), spos + 1) /\ Backtracking /\ Captures ELSE fail
IAny == Consume("IAny", More)
IChar == Consume("IChar", IsChar)
ISet == Consume("ISet", InSet(ip + 1))

\* Jumps unless the next character is as tested.
Test(op, condition) ==
    /\ Fetch(op) /\ Same /\ Backtracking /\ Captures
    /\ Go(IF condition THEN ip + sizei(op) ELSE Label, spos)
ITestAny == Test("ITestAny", More)
ITestChar == Test("ITestChar", IsChar)
ITestSet == Test("ITestSet", InSet(ip + 2))

IBehind ==
    /\ Fetch("IBehind") /\ Same
    /\ IF program[ip].aux > spos THEN fail
       ELSE Go(ip + 1, spos - program[ip].aux) /\ Backtracking /\ Captures

ISpan ==
    /\ Fetch("ISpan") /\ Same /\ Backtracking /\ Captures
    /\ \E to \in spos .. Len(subj) :
          /\ \A i \in spos + 1 .. to : subj[i] \in program[ip + 1].buff
          /\ to < Len(subj) => subj[to + 1] \notin program[ip + 1].buff
          /\ Go(ip + CHARSETINSTSIZE, to)

IJmp == Fetch("IJmp") /\ Same /\ Backtracking /\ Captures /\ Go(Label, spos)

\* Pushes a frame; a full stack is doubled up to its limit.
Push(frame) ==
    LET newn == IF 2 * stacksize > MAXSTACK THEN MAXSTACK ELSE 2 * stacksize
        full == Len(stack) = stacksize
    IN  /\ stacksize' = IF full THEN newn ELSE stacksize
        /\ stack' = Append(stack, frame)
Overflow == Len(stack) = stacksize /\ stacksize >= MAXSTACK

IChoice ==
    /\ Fetch("IChoice")
    /\ IF Overflow THEN Ends(<<"overflow">>)
       ELSE Same /\ Captures /\ Push(Frame(spos, Label, Len(capture))) /\ Go(ip + 2, spos)

ICall ==
    /\ Fetch("ICall")
    /\ IF Overflow THEN Ends(<<"overflow">>)
       ELSE Same /\ Captures /\ Push(Frame(NOPOS, ip + 2, 0)) /\ Go(Label, spos)

IRet ==
    /\ Fetch("IRet") /\ Same /\ Captures /\ UNCHANGED stacksize
    /\ Go(Last(stack).p, spos) /\ stack' = Front(stack)

ICommit ==
    /\ Fetch("ICommit") /\ Same /\ Captures /\ UNCHANGED stacksize
    /\ Go(Label, spos) /\ stack' = Front(stack)

IPartialCommit ==
    /\ Fetch("IPartialCommit") /\ Same /\ Captures /\ UNCHANGED stacksize
    /\ Go(Label, spos)
    /\ stack' = [stack EXCEPT ![Len(stack)].s = spos, ![Len(stack)].caplevel = Len(capture)]

\* Returns to the position of the choice; values on the Lua stack stay.
IBackCommit ==
    /\ Fetch("IBackCommit") /\ Same /\ UNCHANGED <<stacksize, dyn>>
    /\ Go(Label, Last(stack).s) /\ stack' = Front(stack)
    /\ capture' = SubSeq(capture, 1, Last(stack).caplevel)

IFail == Fetch("IFail") /\ Same /\ fail
IFailTwice == Fetch("IFailTwice") /\ Same /\ FailFrom(Front(stack), capture, dyn)

-----------------------------------------------------------------------------
pushcap(list, entry) == Append(list, [entry EXCEPT !.idx = program[ip].key])

IOpenCapture ==
    /\ Fetch("IOpenCapture") /\ Same /\ Backtracking /\ UNCHANGED dyn
    /\ Go(ip + 1, spos)
    /\ capture' = pushcap(capture, Entry(program[ip].kind, 0, 0, spos))

IFullCapture ==
    /\ Fetch("IFullCapture") /\ Same /\ Backtracking /\ UNCHANGED dyn
    /\ Go(ip + 1, spos)
    /\ capture' = pushcap(capture, Entry(program[ip].kind, 0, program[ip].aux + 1,
                                         spos - program[ip].aux))

\* A capture with none inside becomes a full one if its size fits.
ICloseCapture ==
    /\ Fetch("ICloseCapture") /\ Same /\ Backtracking /\ UNCHANGED dyn
    /\ Go(ip + 1, spos)
    /\ LET last == Last(capture)
       IN  capture' = IF last.siz = 0 /\ spos - last.s < UCHAR_MAX
                      THEN [capture EXCEPT ![Len(capture)].siz = spos - last.s + 1]
                      ELSE pushcap(capture, Entry("Cclose", 0, 1, spos))

\* Where the result of a function says that the match continues.
resdyncaptures(res) ==
    IF res = << >> \/ res[1] = Bool(FALSE) THEN -1
    ELSE IF res[1] = Bool(TRUE) THEN spos ELSE res[1][2] - 1

\* The values of a function become captures in an anonymous group, which is the open
\* entry of the capture.
adddyncaptures(list, open, vs, at, pos) ==
    Append(list, [open EXCEPT !.idx = 0])
        \o [i \in DOMAIN vs |-> Entry("Cruntime", at + i, 1, pos)]
        \o <<Entry("Cclose", 0, 1, pos)>>

\* r: what the function returned, and the entries of its capture, which leave the list.
Continue(r, list, res) ==
    IF res = -1 THEN Same /\ FailFrom(stack, list, r.dyn)
    ELSE IF res < spos \/ res > Len(subj) THEN Ends(<<"error">>)
    ELSE /\ Same /\ Backtracking
         /\ Go(ip + 1, res)
         /\ dyn' = r.dyn \o Tail(r.results)
         /\ capture' = IF Len(r.results) = 1 THEN list
                       ELSE adddyncaptures(list, capture[Len(list) + 1], Tail(r.results),
                                           Len(r.dyn), res)
AfterCall(r) ==
    IF r.error THEN Ends(<<"error">>)
    ELSE Continue(r, SubSeq(capture, 1, Len(capture) - r.n), resdyncaptures(r.results))
ICloseRunTime == Fetch("ICloseRunTime") /\ AfterCall(runtimecap(CapState, spos))

Step ==
    \/ IGiveup \/ IEnd \/ IAny \/ IChar \/ ISet \/ ITestAny \/ ITestChar \/ ITestSet
    \/ IBehind \/ ISpan \/ IJmp \/ IChoice \/ ICall \/ IRet \/ ICommit
    \/ IPartialCommit \/ IBackCommit \/ IFail \/ IFailTwice
    \/ IOpenCapture \/ IFullCapture \/ ICloseCapture \/ ICloseRunTime

Next ==
    \/ compile_pattern
    \/ \E subject \in Subjects, ii \in Starts : lp_match(subject, ii)
    \/ Step

\* The interpreter runs until the match ends: weak fairness of Step, which is enabled
\* while phase is "matching", and is the only step then.
Fairness == []<>(phase # "matching") \/ []<><<phase = "matching">>_vars

Spec == Init /\ [][Next]_vars /\ Fairness

-----------------------------------------------------------------------------
\* A match finds what the pattern means, and its captures have the values they mean:
\* through the optimised trees, tests and jumps of the compiled code, whatever the
\* machine backtracked over.
MatchExact ==
    phase = "done" /\ answer # <<"overflow">> => answer = Result(expr, Env, startpos)

\* The machine ends with all choices and calls taken back, and what is on the Lua
\* stack belongs to captures in the order in which they were made.
StackBalanced ==
    LET runtime == SelectSeq(capture, LAMBDA c : c.kind = "Cruntime")
    IN  /\ phase = "done" /\ answer # <<"overflow">> /\ answer # <<"error">> =>
               Len(stack) = IF ip = GIVEUP THEN 0 ELSE 1
        /\ \A i \in DOMAIN runtime :
               /\ runtime[i].idx \in DOMAIN dyn
               /\ i > 1 => runtime[i - 1].idx < runtime[i].idx

\* An accepted pattern has no loop that goes on for ever: every match ends.
MatchEnds == phase = "matching" ~> phase = "done"
=============================================================================
