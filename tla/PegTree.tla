------------------------------- MODULE PegTree -------------------------------
(***************************************************************************)
(* The patterns of lpeg as trees (lptree.c), with the analyses of trees    *)
(* that their construction needs (first part of lpcode.c).                 *)
(*                                                                         *)
(* A pattern has a tree and a ktable, the Lua values that the keys of its  *)
(* nodes stand for.  The library copies a tree into the tree it becomes a  *)
(* part of and renumbers its keys when ktables are joined.                 *)
(*                                                                         *)
(* A tree is a record instead of an array of nodes.  A grammar has its     *)
(* rules as siblings, and a call names the number of a rule of the grammar *)
(* around it: operators that follow calls take these rules as G.  An error *)
(* that an operation raises is the pattern Bad.                            *)
(***************************************************************************)
EXTENDS Integers, Sequences, SequencesExt, FiniteSets

CONSTANTS UCHAR_MAX,     \* the largest character, and limit of a capture's size
          MAXBEHIND,     \* characters to look behind
          MAXRULES,      \* rules of a grammar
          USHRT_MAX      \* values of a ktable

Char == 0 .. UCHAR_MAX
NIL == <<"nil">>

Node(tag, sib) ==
    [tag |-> tag, n |-> 0, cs |-> {}, cap |-> "", key |-> 0, sib |-> sib]
Leaf(tag) == Node(tag, << >>)
Set(cs) == [Leaf("Set") EXCEPT !.cs = cs]
Seq2(t1, t2) == Node("Seq", <<t1, t2>>)
Choice(t1, t2) == Node("Choice", <<t1, t2>>)

Pattern(tree, ktable) == [tree |-> tree, ktable |-> ktable]
Bad == Pattern(Leaf("Bad"), << >>)

Value(ktable, key) == IF key = 0 THEN NIL ELSE ktable[key]

-----------------------------------------------------------------------------
\* Analyses

tocharset(t) == CASE t.tag = "Set" -> t.cs [] t.tag = "Char" -> {t.n} [] OTHER -> Char
IsCharset(t) == t.tag \in {"Set", "Char", "Any"}

\* Of a call, the rule that it calls; of a rule, the rest of its grammar too.
RECURSIVE hascaptures(_, _)
hascaptures(t, G) ==
    CASE t.tag \in {"Capture", "RunTime"} -> TRUE
      [] t.tag = "Call" -> \E r \in t.n .. Len(G) : hascaptures(G[r], G)
      [] t.tag = "Grammar" -> \E r \in DOMAIN t.sib : hascaptures(t.sib[r], t.sib)
      [] OTHER -> \E i \in DOMAIN t.sib : hascaptures(t.sib[i], G)

\* pred is "nullable" or "nofail"; both answers err on the safe side.
RECURSIVE checkaux(_, _, _)
checkaux(t, G, pred) ==
    CASE t.tag \in {"Char", "Set", "Any", "False", "OpenCall"} -> FALSE
      [] t.tag \in {"Rep", "True"} -> TRUE
      [] t.tag \in {"Not", "Behind"} -> pred = "nullable"
      [] t.tag = "And" -> pred = "nullable" \/ checkaux(t.sib[1], G, pred)
      [] t.tag = "RunTime" -> pred = "nullable" /\ checkaux(t.sib[1], G, pred)
      [] t.tag = "Seq" -> checkaux(t.sib[1], G, pred) /\ checkaux(t.sib[2], G, pred)
      [] t.tag = "Choice" -> checkaux(t.sib[2], G, pred) \/ checkaux(t.sib[1], G, pred)
      [] t.tag = "Grammar" -> checkaux(t.sib[1], t.sib, pred)
      [] t.tag = "Call" -> checkaux(G[t.n], G, pred)
      [] OTHER -> checkaux(t.sib[1], G, pred)       \* captures and rules

nullable(t, G) == checkaux(t, G, "nullable")
nofail(t, G) == checkaux(t, G, "nofail")

\* The characters that t matches, after len others, or -1.
RECURSIVE fixedlenx(_, _, _, _)
fixedlenx(t, G, count, len) ==
    CASE t.tag \in {"Char", "Set", "Any"} -> len + 1
      [] t.tag \in {"False", "True", "Not", "And", "Behind"} -> len
      [] t.tag \in {"Rep", "RunTime", "OpenCall"} -> -1
      [] t.tag \in {"Capture", "Rule"} -> fixedlenx(t.sib[1], G, count, len)
      [] t.tag = "Grammar" -> fixedlenx(t.sib[1], t.sib, count, len)
      [] t.tag = "Call" ->
           IF count >= MAXRULES THEN -1 ELSE fixedlenx(G[t.n], G, count + 1, len)
      [] t.tag = "Seq" ->
           LET n == fixedlenx(t.sib[1], G, count, len)
           IN  IF n < 0 THEN -1 ELSE fixedlenx(t.sib[2], G, count, n)
      [] t.tag = "Choice" ->
           LET n1 == fixedlenx(t.sib[1], G, count, len)
               n2 == fixedlenx(t.sib[2], G, count, len)
           IN  IF n1 = n2 THEN n1 ELSE -1
fixedlen(t, G) == fixedlenx(t, G, 0, 0)

-----------------------------------------------------------------------------
\* Keys and ktables.  Tables that are equal are taken for one table.

HasKey(t) ==
    \/ t.tag \in {"OpenCall", "Call", "RunTime", "Rule"}
    \/ t.tag = "Capture" /\ t.cap \notin {"Carg", "Cnum"}

RECURSIVE correctkeys(_, _)
\* Mutated form of correctkeys: the keys inside stay.
correctkeys_root(t, n) ==
    [t EXCEPT !.key = IF HasKey(t) /\ t.key > 0 THEN t.key + n ELSE t.key]

correctkeys(t, n) ==
    [t EXCEPT !.key = IF HasKey(t) /\ t.key > 0 THEN t.key + n ELSE t.key,
              !.sib = [i \in DOMAIN t.sib |-> correctkeys(t.sib[i], n)]]

\* The pattern with a tree of two that Make puts together.
joinktables(Make(_, _), p1, p2) ==
    LET k1 == p1.ktable
        k2 == p2.ktable
    IN  IF Len(k2) = 0 \/ k1 = k2 THEN Pattern(Make(p1.tree, p2.tree), k1)
        ELSE IF Len(k1) = 0 THEN Pattern(Make(p1.tree, p2.tree), k2)
        ELSE IF Len(k1) + Len(k2) > USHRT_MAX THEN Bad
        ELSE Pattern(Make(p1.tree, correctkeys(p2.tree, Len(k1))), k1 \o k2)

\* A tree with one more value, which is its key.
addtonewktable(t, ktable, v) ==
    IF v = NIL THEN Pattern(t, ktable)
    ELSE IF Len(ktable) >= USHRT_MAX THEN Bad
    ELSE Pattern([t EXCEPT !.key = Len(ktable) + 1], Append(ktable, v))

-----------------------------------------------------------------------------
\* Values as patterns

RECURSIVE fillseq(_)
fillseq(leaves) ==
    IF Len(leaves) = 1 THEN leaves[1] ELSE Seq2(leaves[1], fillseq(Tail(leaves)))

P_string(s) ==
    Pattern(IF s = << >> THEN Leaf("True")
            ELSE fillseq([i \in DOMAIN s |-> [Leaf("Char") EXCEPT !.n = s[i]]]), << >>)

numtree(n) ==
    LET any == fillseq([i \in 1 .. (IF n < 0 THEN -n ELSE n) |-> Leaf("Any")])
    IN  Pattern(IF n = 0 THEN Leaf("True") ELSE IF n > 0 THEN any
                ELSE Node("Not", <<any>>), << >>)

P_boolean(b) == Pattern(Leaf(IF b THEN "True" ELSE "False"), << >>)
P_function(f) == addtonewktable(Node("RunTime", <<Leaf("True")>>), << >>, f)

-----------------------------------------------------------------------------
\* Operations.  The result may be one of the operands.

newroot1sib(tag, p) == Pattern(Node(tag, <<p.tree>>), p.ktable)
newroot2sib(tag, p1, p2) ==
    joinktables(LAMBDA t1, t2 : Node(tag, <<t1, t2>>), p1, p2)

lp_seq(p1, p2) ==
    IF p1.tree.tag = "False" \/ p2.tree.tag = "True" THEN p1
    ELSE IF p1.tree.tag = "True" THEN p2
    ELSE newroot2sib("Seq", p1, p2)

lp_choice(p1, p2) ==
    CASE IsCharset(p1.tree) /\ IsCharset(p2.tree) ->
           Pattern(Set(tocharset(p1.tree) \cup tocharset(p2.tree)), << >>)
      [] OTHER ->
           IF nofail(p1.tree, << >>) \/ p2.tree.tag = "False" THEN p1
           ELSE IF p1.tree.tag = "False" THEN p2
           ELSE newroot2sib("Choice", p1, p2)

\* At least n times, or at most -n times.
RECURSIVE StarTree(_, _)
StarTree(t, n) ==
    CASE n = 0 -> Node("Rep", <<t>>)
      [] n > 0 -> Seq2(t, StarTree(t, n - 1))
      [] n = -1 -> Choice(t, Leaf("True"))
      [] OTHER -> Choice(Seq2(t, StarTree(t, n + 1)), Leaf("True"))

lp_star(p, n) ==
    IF n >= 0 /\ nullable(p.tree, << >>) THEN Bad
    ELSE Pattern(StarTree(p.tree, n), p.ktable)

lp_and(p) == newroot1sib("And", p)
lp_not(p) == newroot1sib("Not", p)

lp_sub(p1, p2) ==
    IF IsCharset(p1.tree) /\ IsCharset(p2.tree)
    THEN Pattern(Set(tocharset(p1.tree) \ tocharset(p2.tree)), << >>)
    ELSE joinktables(LAMBDA t1, t2 : Seq2(Node("Not", <<t2>>), t1), p1, p2)

lp_set(cs) == Pattern(Set(cs), << >>)
lp_range(rs) == lp_set({c \in Char : \E i \in DOMAIN rs : rs[i][1] <= c /\ c <= rs[i][2]})

lp_behind(p) ==
    LET n == fixedlen(p.tree, << >>)
    IN  IF n < 0 \/ hascaptures(p.tree, << >>) \/ n > MAXBEHIND THEN Bad
        ELSE Pattern([Node("Behind", <<p.tree>>) EXCEPT !.n = n], p.ktable)

lp_V(name) == addtonewktable(Leaf("OpenCall"), << >>, name)

-----------------------------------------------------------------------------
\* Captures

CaptureNode(cap, t) == [Node("Capture", <<t>>) EXCEPT !.cap = cap]
capture_aux(cap, p, label) == addtonewktable(CaptureNode(cap, p.tree), p.ktable, label)
newemptycap(cap, key) == [CaptureNode(cap, Leaf("True")) EXCEPT !.key = key]

\* By the type of v: a function, a table, a string or a number.
lp_divcapture(p, v) ==
    CASE v[1] = "fun" -> capture_aux("Cfunction", p, v)
      [] v[1] = "tab" -> capture_aux("Cquery", p, v)
      [] v[1] = "fmt" -> capture_aux("Cstring", p, v)
      [] v[1] = "num" ->
           Pattern([CaptureNode("Cnum", p.tree) EXCEPT !.key = v[2]], p.ktable)

lp_substcapture(p) == capture_aux("Csubst", p, NIL)
lp_tablecapture(p) == capture_aux("Ctable", p, NIL)
lp_groupcapture(p, name) == capture_aux("Cgroup", p, name)
lp_foldcapture(p, f) == capture_aux("Cfold", p, f)
lp_simplecapture(p) == capture_aux("Csimple", p, NIL)
lp_poscapture == Pattern(newemptycap("Cposition", 0), << >>)
lp_argcapture(n) == Pattern(newemptycap("Carg", n), << >>)
lp_backref(name) == Pattern(newemptycap("Cbackref", 1), <<name>>)
lp_matchtime(p, f) == addtonewktable(Node("RunTime", <<p.tree>>), p.ktable, f)

\* A value nil has no place in the ktable, and the key 0.
lp_constcapture(vs) ==
    LET ktable == SelectSeq(vs, LAMBDA v : v # NIL)
        key(i) == IF vs[i] = NIL THEN 0
                  ELSE Cardinality({j \in 1 .. i : vs[j] # NIL})
        caps == [i \in DOMAIN vs |-> newemptycap("Cconst", key(i))]
    IN  CASE Len(vs) = 0 -> Pattern(Leaf("True"), << >>)
          [] Len(vs) = 1 -> Pattern(caps[1], ktable)
          [] OTHER -> Pattern(CaptureNode("Cgroup", fillseq(caps)), ktable)

-----------------------------------------------------------------------------
\* Final corrections, when a grammar is made or a pattern is compiled

RECURSIVE correctassociativity(_)
correctassociativity(t) ==
    IF t.sib[1].tag # t.tag THEN t
    ELSE LET t1 == t.sib[1]
         IN  correctassociativity(
                Node(t.tag, <<t1.sib[1], Node(t.tag, <<t1.sib[2], t.sib[2]>>)>>))

\* position is the number of the rule with a name.  A grammar inside is fixed.
RECURSIVE finalfix(_, _, _)
finalfix(t, position, ktable) ==
    CASE t.tag = "Grammar" -> t
      [] t.tag = "OpenCall" ->
           [t EXCEPT !.tag = "Call", !.n = position[Value(ktable, t.key)]]
      [] OTHER ->
           LET r == IF t.tag \in {"Seq", "Choice"} THEN correctassociativity(t) ELSE t
           IN  [r EXCEPT !.sib =
                   [i \in DOMAIN r.sib |-> finalfix(r.sib[i], position, ktable)]]

\* The keys of the open calls of a tree, in the order that finalfix meets them.
RECURSIVE OpenCalls(_)
OpenCalls(t) ==
    CASE t.tag = "Grammar" -> << >>
      [] t.tag = "OpenCall" -> <<t.key>>
      [] OTHER -> FlattenSeq([i \in DOMAIN t.sib |-> OpenCalls(t.sib[i])])

-----------------------------------------------------------------------------
\* Grammars

RECURSIVE checkloops(_, _)
checkloops(t, G) ==
    \/ t.tag = "Rep" /\ nullable(t.sib[1], G)
    \/ t.tag # "Grammar" /\ \E i \in DOMAIN t.sib : checkloops(t.sib[i], G)

\* Whether a tree is nullable (or nb), or "error" when a rule is reached again
\* before anything is consumed: after more calls than there are rules.
RECURSIVE verifyrule(_, _, _, _)
verifyrule(t, G, npassed, nb) ==
    CASE t.tag \in {"Char", "Set", "Any", "False"} -> nb
      [] t.tag \in {"True", "Behind"} -> "nullable"
      [] t.tag \in {"Not", "And", "Rep"} -> verifyrule(t.sib[1], G, npassed, "nullable")
      [] t.tag \in {"Capture", "RunTime"} -> verifyrule(t.sib[1], G, npassed, nb)
      [] t.tag = "Call" ->
           IF npassed >= MAXRULES THEN "error"
           ELSE verifyrule(G[t.n].sib[1], G, npassed + 1, nb)
      [] t.tag = "Seq" ->
           LET first == verifyrule(t.sib[1], G, npassed, "consumes")
           IN  CASE first = "error" -> "error"
                 [] first = "consumes" -> nb
                 [] OTHER -> verifyrule(t.sib[2], G, npassed, nb)
      [] t.tag = "Choice" ->
           LET first == verifyrule(t.sib[1], G, npassed, nb)
           IN  IF first = "error" THEN "error"
               ELSE verifyrule(t.sib[2], G, npassed, first)
      [] t.tag = "Grammar" -> IF nullable(t, G) THEN "nullable" ELSE "consumes"

\* Mutated form of verifygrammar: loops are not checked.
verifygrammar_loops(G) ==
    \A r \in DOMAIN G : G[r].key # 0 => verifyrule(G[r].sib[1], G, 0, "consumes") # "error"

\* Rules that no call names are not checked.
verifygrammar(G) ==
    \A r \in DOMAIN G : G[r].key # 0 =>
        /\ verifyrule(G[r].sib[1], G, 0, "consumes") # "error"
        /\ ~checkloops(G[r].sib[1], G)

\* The numbers of the rules.  The initial rule is the first, and the table has the
\* others in any order.
collectrules(names) ==
    [name \in Range(names) |-> CHOOSE i \in DOMAIN names : names[i] = name]

\* The trees of the rules, their keys corrected for the joined ktable.
RECURSIVE buildgrammar(_, _)
buildgrammar(rules, ktable) ==
    IF rules = << >> THEN [trees |-> << >>, ktable |-> ktable]
    ELSE LET rest == buildgrammar(Tail(rules), ktable \o rules[1].ktable)
         IN  [rest EXCEPT !.trees =
                 <<correctkeys(rules[1].tree, Len(ktable))>> \o rest.trees]

\* A rule's key is that of the last call to it; the initial rule has one anyway.
P_table(names, rules) ==
    LET position == collectrules(names)
        built == buildgrammar(rules, << >>)
        calls == FlattenSeq([r \in DOMAIN rules |-> OpenCalls(built.trees[r])])
        called == [c \in DOMAIN calls |-> Value(built.ktable, calls[c])]
        key(r) == LET last == SelectLastInSeq(called, LAMBDA name : name = names[r])
                  IN  IF last > 0 THEN calls[last]
                      ELSE IF r = 1 THEN Len(built.ktable) + 1 ELSE 0
        G == [r \in DOMAIN rules |->
                 [Node("Rule", <<finalfix(built.trees[r], position, built.ktable)>>)
                     EXCEPT !.key = key(r)]]
    IN  IF \/ Len(rules) > MAXRULES \/ Len(built.ktable) > USHRT_MAX
           \/ ~(Range(called) \subseteq Range(names)) \/ ~verifygrammar(G)
        THEN Bad
        ELSE Pattern([Node("Grammar", G) EXCEPT !.n = Len(rules)],
                     IF names[1] \in Range(called) THEN built.ktable
                     ELSE Append(built.ktable, names[1]))

\* Calls outside of a grammar are an error.
prepcompile(p) ==
    IF OpenCalls(p.tree) # << >> THEN Bad
    ELSE Pattern(finalfix(p.tree, [name \in {} |-> 0], p.ktable), p.ktable)
=============================================================================
